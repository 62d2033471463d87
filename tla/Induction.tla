------------------------------ MODULE Induction ------------------------------
(* Induction over the natural numbers, and definition by recursion up to a    *)
(* bound, with sets and functions in the place of operators, so that the      *)
(* proofs about the components can use them.                                  *)
EXTENDS Integers, Filter, SequenceTheorems, WellFoundedInduction, TLAPS

LEMMA LeastOf ==
    ASSUME NEW T, T \subseteq Nat, T # {}
    PROVE  \E x \in T : \A y \in T : x <= y
<1> DEFINE R == OpToRel(<, Nat)
<1>1. IsWellFoundedOn(R, Nat)
  BY NatLessThanWellFounded
<1>2. \A x, y \in Nat : y < x => <<y, x>> \in R
  BY DEF OpToRel
<1> HIDE DEF R
<1>3. \E x \in T : \A y \in T : <<y, x>> \notin R
  BY <1>1, WFMin
<1>4. PICK x \in T : \A y \in T : <<y, x>> \notin R
  BY <1>3
<1>5. \A y \in T : x <= y
  <2> TAKE y \in T
  <2>1. x \in Nat /\ y \in Nat /\ <<y, x>> \notin R
    BY <1>4
  <2>2. ~(y < x)
    BY <1>2, <2>1
  <2>3. QED
    BY <2>1, <2>2
<1>6. QED
  BY <1>5

LEMMA GreatestOf ==
    ASSUME NEW N \in Nat, NEW T, T \subseteq 0 .. N, T # {}
    PROVE  \E x \in T : \A y \in T : y <= x
<1> DEFINE Rest == {N - x : x \in T}
<1>1. Rest \subseteq Nat /\ Rest # {}
  <2>1. \A x \in T : N - x \in Nat
    OBVIOUS
  <2>2. QED
    BY <2>1
<1>2. PICK m \in Rest : \A n \in Rest : m <= n
  <2> HIDE DEF Rest
  <2>1. QED
    BY <1>1, LeastOf
<1>3. PICK x \in T : m = N - x
  BY <1>2
<1>4. \A y \in T : y <= x
  <2> TAKE y \in T
  <2>1. x \in 0 .. N /\ y \in 0 .. N /\ N - x <= N - y
    BY <1>2, <1>3
  <2>2. QED
    BY <2>1
<1>5. QED
  BY <1>4

LEMMA InductionUpTo ==
    ASSUME NEW N \in Nat, NEW T, 0 \in T, \A k \in 0 .. N - 1 : k \in T => k + 1 \in T
    PROVE  \A k \in 0 .. N : k \in T
<1> SUFFICES ASSUME {k \in 0 .. N : k \notin T} # {}
             PROVE  FALSE
  OBVIOUS
<1> DEFINE Missing == {k \in 0 .. N : k \notin T}
<1>1. PICK x \in Missing : \A y \in Missing : x <= y
  <2>1. Missing \subseteq Nat /\ Missing # {}
    OBVIOUS
  <2> HIDE DEF Missing
  <2>2. QED
    BY <2>1, LeastOf
<1>2. x \in 0 .. N /\ x # 0 /\ x \notin T
  BY <1>1
<1>3. x - 1 \in 0 .. N - 1 /\ x - 1 \in 0 .. N
  BY <1>2
<1>4. x - 1 \in T
  <2>1. x - 1 \notin Missing
    BY <1>1, <1>2, <1>3
  <2>2. QED
    BY <1>3, <2>1
<1>5. x \in T
  BY <1>2, <1>3, <1>4
<1>6. QED
  BY <1>2, <1>5

\* There is a function that starts with a and follows the step up to N.
Solvable(N, S, a, step) ==
    \E g \in [0 .. N -> S] : g[0] = a /\ \A k \in 0 .. N - 1 : g[k + 1] = step[<<k, g[k]>>]

LEMMA RecursionUpTo ==
    ASSUME NEW N \in Nat, NEW S, NEW a \in S, NEW step \in [Nat \X S -> S]
    PROVE  Solvable(N, S, a, step)
<1> DEFINE Solves(g, n) == g[0] = a /\ \A k \in 0 .. n - 1 : g[k + 1] = step[<<k, g[k]>>]
           T == {n \in 0 .. N : \E g \in [0 .. n -> S] : Solves(g, n)}
<1>1. 0 \in T
  <2>1. [k \in 0 .. 0 |-> a] \in [0 .. 0 -> S] /\ Solves([k \in 0 .. 0 |-> a], 0)
    OBVIOUS
  <2>2. 0 \in 0 .. N
    OBVIOUS
  <2> HIDE DEF Solves
  <2>3. QED
    BY <2>1, <2>2
<1>2. ASSUME NEW n \in 0 .. N - 1, n \in T
      PROVE  n + 1 \in T
  <2>1. PICK g \in [0 .. n -> S] : Solves(g, n)
    BY <1>2
  <2> DEFINE h == [k \in 0 .. n + 1 |-> IF k = n + 1 THEN step[<<n, g[n]>>] ELSE g[k]]
  <2>2. step[<<n, g[n]>>] \in S
    OBVIOUS
  <2>3. h \in [0 .. n + 1 -> S]
    BY <2>2
  <2>4. \A k \in 0 .. n : h[k] = g[k]
    OBVIOUS
  <2>5. h[n + 1] = step[<<n, h[n]>>]
    <3>1. n + 1 \in 0 .. n + 1 /\ n \in 0 .. n
      OBVIOUS
    <3>2. h[n + 1] = step[<<n, g[n]>>] /\ h[n] = g[n]
      BY <2>4, <3>1
    <3>3. QED
      BY <3>2
  <2> HIDE DEF h
  <2>6. Solves(h, n + 1)
    <3>1. h[0] = a
      BY <2>1, <2>4
    <3>2. ASSUME NEW k \in 0 .. n
          PROVE  h[k + 1] = step[<<k, h[k]>>]
      <4>1. CASE k = n
        BY <2>5, <4>1
      <4>2. CASE k # n
        <5>1. k \in 0 .. n - 1 /\ k + 1 \in 0 .. n
          BY <4>2
        <5>2. g[k + 1] = step[<<k, g[k]>>]
          BY <2>1, <5>1
        <5>3. QED
          BY <2>4, <5>1, <5>2
      <4>3. QED
        BY <4>1, <4>2
    <3>3. QED
      BY <3>1, <3>2
  <2>7. n + 1 \in 0 .. N
    OBVIOUS
  <2> HIDE DEF Solves
  <2>8. QED
    BY <2>3, <2>6, <2>7
<1>3. N \in T
  <2>1. N \in 0 .. N
    OBVIOUS
  <2> HIDE DEF T
  <2>2. QED
    BY <1>1, <1>2, <2>1, InductionUpTo
<1>4. QED
  BY <1>3 DEF Solvable

-----------------------------------------------------------------------------
(* Sequences filtered by Only.                                                *)

\* g[n] has the elements among the first n of s that are in S
Filters(g, s, S) ==
    /\ g[0] = << >>
    /\ \A n \in 1 .. Len(s) : g[n] = IF s[n] \in S THEN Append(g[n - 1], s[n]) ELSE g[n - 1]

FiltersTo(T, s, S) ==
    \E g \in [0 .. Len(s) -> Seq(T \cap S)] : Filters(g, s, S) /\ Only(s, S) = g[Len(s)]

LEMMA OnlyFilters ==
    ASSUME NEW T, NEW s \in Seq(T), NEW S
    PROVE  FiltersTo(T, s, S)
<1> DEFINE N == Len(s)
           Q == Seq(T \cap S)
           next(n, p) == IF s[n] \in S THEN Append(p, s[n]) ELSE p
           step == [q \in Nat \X Q |-> IF q[1] + 1 \in 1 .. N THEN next(q[1] + 1, q[2]) ELSE q[2]]
           Turns(g) == g = [n \in 0 .. N |-> IF n = 0 THEN << >>
                            ELSE IF s[n] \in S THEN Append(g[n - 1], s[n]) ELSE g[n - 1]]
           only == CHOOSE g : Turns(g)
<1>0. N \in Nat /\ << >> \in Q
  BY LenProperties, EmptySeq
<1>1. \A n \in 1 .. N, p \in Q : next(n, p) \in Q
  <2> TAKE n \in 1 .. N, p \in Q
  <2>1. s[n] \in T
    BY ElementOfSeq
  <2>2. s[n] \in S => Append(p, s[n]) \in Q
    BY <2>1, AppendProperties
  <2>3. QED
    BY <2>2
<1>2. step \in [Nat \X Q -> Q]
  <2> HIDE DEF next, N, Q
  <2>1. QED
    BY <1>1
<1>3. Solvable(N, Q, << >>, step)
  <2> HIDE DEF N, step, Q
  <2>1. QED
    BY <1>0, <1>2, RecursionUpTo
<1>4. PICK g \in [0 .. N -> Q] : g[0] = << >> /\ \A k \in 0 .. N - 1 : g[k + 1] = step[<<k, g[k]>>]
  <2> HIDE DEF N, step, Q
  <2>1. QED
    BY <1>3 DEF Solvable
<1>5. ASSUME NEW n \in 0 .. N, n # 0
      PROVE  g[n] = next(n, g[n - 1])
  <2> HIDE DEF next, N, Q
  <2>1. n - 1 \in 0 .. N - 1 /\ n - 1 \in 0 .. N /\ (n - 1) + 1 = n /\ n - 1 \in Nat /\ n \in 1 .. N
    BY <1>0, <1>5
  <2>2. g[n] = step[<<n - 1, g[n - 1]>>] /\ g[n - 1] \in Q
    BY <1>4, <2>1
  <2>3. QED
    BY <2>1, <2>2
<1>6. Turns(g)
  <2> HIDE DEF N, Q
  <2>1. QED
    BY <1>0, <1>4, <1>5
<1>7. Turns(only)
  <2> HIDE DEF Turns
  <2>1. QED
    BY <1>6
<1>8. Only(s, S) = only[N]
  BY DEF Only
<1> HIDE DEF only
<1>9. only[0] = << >> /\ \A n \in 1 .. N : only[n] = next(n, only[n - 1])
  <2>1. 0 \in 0 .. N /\ \A n \in 1 .. N : n \in 0 .. N /\ n # 0
    BY <1>0
  <2> HIDE DEF N
  <2>2. QED
    BY <1>7, <2>1
<1>10. only \in [0 .. N -> Q]
  <2> DEFINE U == {n \in 0 .. N : only[n] \in Q}
  <2>1. 0 \in U
    <3>1. only[0] = << >> /\ 0 \in 0 .. N
      BY <1>0, <1>9
    <3> HIDE DEF N, Q
    <3>2. QED
      BY <1>0, <3>1
  <2>2. ASSUME NEW n \in 0 .. N - 1, n \in U
        PROVE  n + 1 \in U
    <3>1. n + 1 \in 1 .. N /\ n + 1 \in 0 .. N /\ n + 1 - 1 = n
      BY <1>0
    <3>2. only[n] \in Q /\ only[n + 1] = next(n + 1, only[n])
      BY <1>9, <2>2, <3>1
    <3> HIDE DEF N, Q, next
    <3>3. QED
      BY <1>1, <3>1, <3>2
  <2>3. \A n \in 0 .. N : n \in U
    <3> HIDE DEF U, N
    <3>1. QED
      BY <1>0, <2>1, <2>2, InductionUpTo
  <2>4. DOMAIN only = 0 .. N
    <3> HIDE DEF N
    <3>1. QED
      BY <1>7
  <2>5. only = [n \in 0 .. N |-> only[n]]
    <3>1. \E a, f : only = [n \in a |-> f[n]]
      <4> HIDE DEF N
      <4>1. QED
        BY <1>7
    <3> HIDE DEF N
    <3>2. QED
      BY <1>7
  <2> HIDE DEF N, Q
  <2>6. QED
    BY <2>3, <2>5
<1>11. Filters(only, s, S)
  BY <1>9 DEF Filters
<1>12. QED
  BY <1>8, <1>10, <1>11 DEF FiltersTo

\* Two sequences that begin alike are filtered alike.
LEMMA FiltersAlike ==
    ASSUME NEW s, NEW S, NEW t, NEW R, NEW n \in Nat, NEW g, NEW h,
           Len(s) \in Nat, Len(t) \in Nat, n <= Len(s), n <= Len(t),
           Filters(g, s, S), Filters(h, t, R),
           \A i \in 1 .. n : s[i] = t[i] /\ (s[i] \in S <=> t[i] \in R)
    PROVE  g[n] = h[n]
<1> DEFINE U == {i \in 0 .. n : g[i] = h[i]}
<1>1. 0 \in U
  BY DEF Filters
<1>2. ASSUME NEW i \in 0 .. n - 1, i \in U
      PROVE  i + 1 \in U
  <2>1. /\ i + 1 \in 1 .. n /\ i + 1 \in 0 .. n /\ i + 1 - 1 = i
        /\ i + 1 \in 1 .. Len(s) /\ i + 1 \in 1 .. Len(t)
    OBVIOUS
  <2>2. g[i + 1] = IF s[i + 1] \in S THEN Append(g[i], s[i + 1]) ELSE g[i]
    BY <2>1 DEF Filters
  <2>3. h[i + 1] = IF t[i + 1] \in R THEN Append(h[i], t[i + 1]) ELSE h[i]
    BY <2>1 DEF Filters
  <2>4. g[i] = h[i]
    BY <1>2
  <2>5. s[i + 1] = t[i + 1] /\ (s[i + 1] \in S <=> t[i + 1] \in R)
    BY <2>1
  <2>6. QED
    BY <2>1, <2>2, <2>3, <2>4, <2>5
<1>3. \A i \in 0 .. n : i \in U
  <2> HIDE DEF U
  <2>1. QED
    BY <1>1, <1>2, InductionUpTo
<1>4. n \in 0 .. n
  OBVIOUS
<1>5. QED
  BY <1>3, <1>4

LEMMA OnlyTypes ==
    ASSUME NEW T, NEW s \in Seq(T), NEW S
    PROVE  Only(s, S) \in Seq(T \cap S)
<1>1. PICK g \in [0 .. Len(s) -> Seq(T \cap S)] : Only(s, S) = g[Len(s)]
  BY OnlyFilters DEF FiltersTo
<1>2. Len(s) \in 0 .. Len(s)
  BY LenProperties
<1>3. QED
  BY <1>1, <1>2

LEMMA OnlySame ==
    ASSUME NEW T, NEW s \in Seq(T), NEW S, NEW R, \A i \in 1 .. Len(s) : s[i] \in S <=> s[i] \in R
    PROVE  Only(s, S) = Only(s, R)
<1>1. PICK g \in [0 .. Len(s) -> Seq(T \cap S)] : Filters(g, s, S) /\ Only(s, S) = g[Len(s)]
  BY OnlyFilters DEF FiltersTo
<1>2. PICK h \in [0 .. Len(s) -> Seq(T \cap R)] : Filters(h, s, R) /\ Only(s, R) = h[Len(s)]
  BY OnlyFilters DEF FiltersTo
<1>3. Len(s) \in Nat /\ Len(s) <= Len(s)
  BY LenProperties
<1>4. g[Len(s)] = h[Len(s)]
  BY <1>1, <1>2, <1>3, FiltersAlike
<1>5. QED
  BY <1>1, <1>2, <1>4

LEMMA OnlyAppend ==
    ASSUME NEW T, NEW s \in Seq(T), NEW e \in T, NEW S
    PROVE  Only(Append(s, e), S) = IF e \in S THEN Append(Only(s, S), e) ELSE Only(s, S)
<1>1. PICK t : t = Append(s, e)
  OBVIOUS
<1>2. /\ t \in Seq(T) /\ Len(t) = Len(s) + 1 /\ Len(s) \in Nat
      /\ \A i \in 1 .. Len(s) : t[i] = s[i]
      /\ t[Len(s) + 1] = e
  BY <1>1, AppendProperties, LenProperties
<1>3. PICK g \in [0 .. Len(s) -> Seq(T \cap S)] : Filters(g, s, S) /\ Only(s, S) = g[Len(s)]
  BY OnlyFilters DEF FiltersTo
<1>4. PICK h \in [0 .. Len(t) -> Seq(T \cap S)] : Filters(h, t, S) /\ Only(t, S) = h[Len(t)]
  BY <1>2, OnlyFilters DEF FiltersTo
<1>5. g[Len(s)] = h[Len(s)]
  <2>1. PICK n \in Nat : n = Len(s)
    BY <1>2
  <2>2. n <= Len(s) /\ n <= Len(t) /\ Len(t) \in Nat /\ Len(s) \in Nat
    BY <1>2, <2>1
  <2>3. \A i \in 1 .. n : s[i] = t[i]
    BY <1>2, <2>1
  <2>4. \A i \in 1 .. n : s[i] = t[i] /\ (s[i] \in S <=> t[i] \in S)
    BY <2>3
  <2>5. Filters(g, s, S) /\ Filters(h, t, S)
    BY <1>3, <1>4
  <2>6. g[n] = h[n]
    BY <2>2, <2>4, <2>5, FiltersAlike
  <2>7. QED
    BY <2>1, <2>6
<1>6. h[Len(t)] = IF t[Len(t)] \in S THEN Append(h[Len(t) - 1], t[Len(t)]) ELSE h[Len(t) - 1]
  <2>1. Len(t) \in 1 .. Len(t)
    BY <1>2
  <2>2. QED
    BY <1>4, <2>1 DEF Filters
<1>7. Len(t) - 1 = Len(s) /\ t[Len(t)] = e
  BY <1>2
<1>8. QED
  BY <1>1, <1>3, <1>4, <1>5, <1>6, <1>7

LEMMA OnlyAll ==
    ASSUME NEW T, NEW s \in Seq(T), NEW S, \A i \in 1 .. Len(s) : s[i] \in S
    PROVE  Only(s, S) = s
<1> DEFINE h == [n \in 0 .. Len(s) |-> SubSeq(s, 1, n)]
<1>1. Len(s) \in Nat /\ \A i \in 1 .. Len(s) : s[i] \in T
  BY LenProperties, ElementOfSeq
<1>2. Filters(h, s, S)
  <2>1. h[0] = << >>
    <3>1. 0 \in 0 .. Len(s)
      BY <1>1
    <3>2. SubSeq(s, 1, 0) = << >>
      BY SubSeqEmpty
    <3>3. QED
      BY <3>1, <3>2
  <2>2. ASSUME NEW n \in 1 .. Len(s)
        PROVE  h[n] = IF s[n] \in S THEN Append(h[n - 1], s[n]) ELSE h[n - 1]
    <3>1. n \in 0 .. Len(s) /\ n - 1 \in 0 .. Len(s) /\ n \in Int /\ 1 \in Int /\ 1 <= n
      BY <1>1
    <3>2. h[n] = SubSeq(s, 1, n) /\ h[n - 1] = SubSeq(s, 1, n - 1)
      BY <3>1
    <3>3. \A i \in 1 .. n : s[i] \in T
      BY <1>1
    <3>4. SubSeq(s, 1, n) = Append(SubSeq(s, 1, n - 1), s[n])
      BY <3>1, <3>3, SubSeqRecursiveSecond
    <3>5. s[n] \in S
      OBVIOUS
    <3>6. QED
      BY <3>2, <3>4, <3>5
  <2> HIDE DEF h
  <2>3. QED
    BY <2>1, <2>2 DEF Filters
<1>3. PICK g \in [0 .. Len(s) -> Seq(T \cap S)] : Filters(g, s, S) /\ Only(s, S) = g[Len(s)]
  BY OnlyFilters DEF FiltersTo
<1>4. g[Len(s)] = h[Len(s)]
  <2>1. Len(s) <= Len(s)
    BY <1>1
  <2> HIDE DEF h
  <2>2. QED
    BY <1>1, <1>2, <1>3, <2>1, FiltersAlike
<1>5. h[Len(s)] = s
  <2>1. Len(s) \in 0 .. Len(s)
    BY <1>1
  <2>2. QED
    BY <2>1, SubSeqFull
<1>6. QED
  BY <1>3, <1>4, <1>5

LEMMA OnlyEmpty ==
    ASSUME NEW S
    PROVE  Only(<< >>, S) = << >>
<1>1. << >> \in Seq({}) /\ Len(<< >>) = 0
  BY EmptySeq
<1>2. \A i \in 1 .. Len(<< >>) : << >>[i] \in S
  BY <1>1
<1>3. QED
  BY <1>1, <1>2, OnlyAll

LEMMA OnlyNone ==
    ASSUME NEW T, NEW s \in Seq(T), NEW S, \A i \in 1 .. Len(s) : s[i] \notin S
    PROVE  Only(s, S) = << >>
<1>1. Only(s, S) = Only(s, {})
  <2>1. \A i \in 1 .. Len(s) : s[i] \in S <=> s[i] \in {}
    OBVIOUS
  <2>2. QED
    BY <2>1, OnlySame
<1>2. Only(s, {}) \in Seq(T \cap {})
  BY OnlyTypes
<1>3. PICK r : r = Only(s, {})
  OBVIOUS
<1>4. r \in Seq({})
  <2>1. T \cap {} = {}
    OBVIOUS
  <2>2. QED
    BY <1>2, <1>3, <2>1
<1>5. r = << >>
  <2>1. Len(r) \in Nat /\ r \in [1 .. Len(r) -> {}]
    BY <1>4, LenProperties
  <2>2. Len(r) = 0
    <3>1. Len(r) # 0 => 1 \in 1 .. Len(r)
      BY <2>1
    <3>2. QED
      BY <2>1, <3>1
  <2>3. QED
    BY <1>4, <2>2, EmptySeq
<1>6. QED
  BY <1>1, <1>3, <1>5

LEMMA ConcatAppend ==
    ASSUME NEW T, NEW s \in Seq(T), NEW t \in Seq(T), NEW e \in T
    PROVE  s \o Append(t, e) = Append(s \o t, e)
<1>1. << e >> \in Seq(T) /\ s \o t \in Seq(T)
  BY ConcatProperties
<1>2. Append(t, e) = t \o << e >> /\ Append(s \o t, e) = (s \o t) \o << e >>
  BY <1>1, AppendIsConcat
<1>3. (s \o t) \o << e >> = s \o (t \o << e >>)
  BY <1>1, ConcatAssociative
<1>4. QED
  BY <1>2, <1>3

LEMMA OneLonger ==
    ASSUME NEW T, NEW t \in Seq(T), NEW n \in 0 .. Len(t) - 1
    PROVE  /\ t[n + 1] \in T /\ SubSeq(t, 1, n) \in Seq(T)
           /\ SubSeq(t, 1, n + 1) = Append(SubSeq(t, 1, n), t[n + 1])
<1>1. Len(t) \in Nat /\ \A i \in 1 .. Len(t) : t[i] \in T
  BY LenProperties, ElementOfSeq
<1>2. 1 \in 1 .. Len(t) /\ n + 1 \in 1 .. Len(t) /\ n + 1 - 1 = n /\ n \in Int
  BY <1>1
<1>3. t[n + 1] \in T /\ \A i \in 1 .. n : t[i] \in T
  BY <1>1, <1>2
<1>4. SubSeq(t, 1, n) \in Seq(T)
  BY <1>2, <1>3, SubSeqProperties
<1>5. SubSeq(t, 1, n + 1) = SubSeq(t, 1, n) \o << t[n + 1] >>
  BY <1>2, SubSeqRecursiveSecond
<1>6. QED
  BY <1>3, <1>4, <1>5, AppendIsConcat

LEMMA OnlyConcat ==
    ASSUME NEW T, NEW s \in Seq(T), NEW t \in Seq(T), NEW S
    PROVE  Only(s \o t, S) = Only(s, S) \o Only(t, S)
<1> DEFINE first(n) == SubSeq(t, 1, n)
           U == {n \in 0 .. Len(t) : Only(s \o first(n), S) = Only(s, S) \o Only(first(n), S)}
<1>1. Len(t) \in Nat /\ Only(s, S) \in Seq(T \cap S)
  BY LenProperties, OnlyTypes
<1>2. 0 \in U
  <2>1. first(0) = << >> /\ 0 \in 0 .. Len(t)
    BY <1>1, SubSeqEmpty
  <2> HIDE DEF first
  <2>2. s \o << >> = s /\ Only(s, S) \o << >> = Only(s, S)
    BY <1>1, ConcatEmptySeq
  <2>3. Only(<< >>, S) = << >>
    BY OnlyEmpty
  <2>4. QED
    BY <2>1, <2>2, <2>3
<1>3. ASSUME NEW n \in 0 .. Len(t) - 1, n \in U
      PROVE  n + 1 \in U
  <2>1. PICK a, e : a = first(n) /\ e = t[n + 1]
    OBVIOUS
  <2>2. a \in Seq(T) /\ e \in T /\ first(n + 1) = Append(a, e)
    BY <2>1, OneLonger
  <2>3. Only(s \o a, S) = Only(s, S) \o Only(a, S)
    BY <1>3, <2>1
  <2>4. n + 1 \in 0 .. Len(t)
    BY <1>1
  <2> HIDE DEF first
  <2>5. s \o a \in Seq(T) /\ s \o Append(a, e) = Append(s \o a, e)
    BY <2>2, ConcatAppend, ConcatProperties
  <2>6. Only(Append(s \o a, e), S) = IF e \in S THEN Append(Only(s \o a, S), e) ELSE Only(s \o a, S)
    <3>1. PICK b : b = s \o a
      OBVIOUS
    <3>2. b \in Seq(T)
      BY <2>5, <3>1
    <3>3. Only(Append(b, e), S) = IF e \in S THEN Append(Only(b, S), e) ELSE Only(b, S)
      BY <2>2, <3>2, OnlyAppend
    <3>4. QED
      BY <3>1, <3>3
  <2>7. Only(Append(a, e), S) = IF e \in S THEN Append(Only(a, S), e) ELSE Only(a, S)
    BY <2>2, OnlyAppend
  <2>8. Only(s \o Append(a, e), S) = Only(s, S) \o Only(Append(a, e), S)
    <3>1. CASE e \in S
      <4>1. Only(a, S) \in Seq(T \cap S) /\ e \in T \cap S
        BY <2>2, <3>1, OnlyTypes
      <4>2. Only(s, S) \o Append(Only(a, S), e) = Append(Only(s, S) \o Only(a, S), e)
        BY <1>1, <4>1, ConcatAppend
      <4>3. QED
        BY <2>3, <2>5, <2>6, <2>7, <3>1, <4>2
    <3>2. CASE e \notin S
      BY <2>3, <2>5, <2>6, <2>7, <3>2
    <3>3. QED
      BY <3>1, <3>2
  <2>9. QED
    BY <2>2, <2>4, <2>8
<1>4. \A n \in 0 .. Len(t) : n \in U
  <2> HIDE DEF U
  <2>1. QED
    BY <1>1, <1>2, <1>3, InductionUpTo
<1>5. first(Len(t)) = t /\ Len(t) \in 0 .. Len(t)
  BY <1>1, SubSeqFull
<1>6. QED
  BY <1>4, <1>5
=============================================================================
