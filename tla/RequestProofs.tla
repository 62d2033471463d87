---------------------------- MODULE RequestProofs ----------------------------
(* Proofs about what becomes of a request: what convert_request makes of the  *)
(* conversation it carries (RequestConversion), for sessions and histories of *)
(* any length, and what the true cache answers to it (ResponseCache), for any *)
(* clients, requests and answers, and any time to live.                       *)
EXTENDS RequestConversion, ResponseCache, SequenceTheorems, FiniteSetTheorems, Induction, TLAPS

-----------------------------------------------------------------------------
(* Sequences in general.                                                    *)

LEMMA SeqInduction ==
    ASSUME NEW T, NEW U, << >> \in U, \A t \in Seq(T) \cap U, e \in T : Append(t, e) \in U
    PROVE  Seq(T) \subseteq U
<1> SUFFICES ASSUME NEW s \in Seq(T)
             PROVE  s \in U
  OBVIOUS
<1> DEFINE V == {n \in 0 .. Len(s) : SubSeq(s, 1, n) \in U}
<1>1. Len(s) \in Nat /\ Len(s) \in 0 .. Len(s) /\ 0 \in 0 .. Len(s)
  BY LenProperties
<1>2. 0 \in V
  <2>1. SubSeq(s, 1, 0) = << >>
    BY SubSeqEmpty
  <2>2. QED
    BY <1>1, <2>1
<1>3. ASSUME NEW n \in 0 .. Len(s) - 1, n \in V
      PROVE  n + 1 \in V
  <2>1. PICK t, e : t = SubSeq(s, 1, n) /\ e = s[n + 1]
    OBVIOUS
  <2>2. t \in Seq(T) /\ e \in T /\ SubSeq(s, 1, n + 1) = Append(t, e)
    BY <2>1, OneLonger
  <2>3. t \in U
    BY <1>3, <2>1
  <2>4. Append(t, e) \in U
    BY <2>2, <2>3
  <2>5. n + 1 \in 0 .. Len(s)
    BY <1>1
  <2>6. QED
    BY <2>2, <2>4, <2>5
<1>4. \A n \in 0 .. Len(s) : n \in V
  <2> HIDE DEF V
  <2>1. QED
    BY <1>1, <1>2, <1>3, InductionUpTo
<1>5. SubSeq(s, 1, Len(s)) \in U
  BY <1>1, <1>4
<1>6. QED
  BY <1>5, SubSeqFull

LEMMA ElementsOf ==
    ASSUME NEW T, NEW s \in Seq(T)
    PROVE  ToSet(s) = {s[i] : i \in 1 .. Len(s)} /\ ToSet(s) \subseteq T
<1>1. DOMAIN s = 1 .. Len(s) /\ \A i \in 1 .. Len(s) : s[i] \in T
  BY LenProperties, ElementOfSeq
<1>2. QED
  BY <1>1 DEF ToSet

LEMMA NoElements == ToSet(<< >>) = {}
<1>1. PICK o : o = << >>
  OBVIOUS
<1>2. o \in Seq({}) /\ Len(o) = 0
  BY <1>1, EmptySeq
<1>3. ToSet(o) = {o[i] : i \in 1 .. Len(o)}
  BY <1>2, ElementsOf
<1>4. QED
  BY <1>1, <1>2, <1>3

LEMMA ElementsOfConcat ==
    ASSUME NEW T, NEW s \in Seq(T), NEW t \in Seq(T)
    PROVE  ToSet(s \o t) = ToSet(s) \cup ToSet(t)
<1>1. PICK r : r = s \o t
  OBVIOUS
<1>2. /\ r \in Seq(T) /\ Len(r) = Len(s) + Len(t) /\ Len(s) \in Nat /\ Len(t) \in Nat
      /\ \A i \in 1 .. Len(s) + Len(t) : r[i] = IF i <= Len(s) THEN s[i] ELSE t[i - Len(s)]
  <2>1. /\ s \o t \in Seq(T) /\ Len(s \o t) = Len(s) + Len(t)
        /\ \A i \in 1 .. Len(s) + Len(t) : (s \o t)[i] = IF i <= Len(s) THEN s[i] ELSE t[i - Len(s)]
    BY ConcatProperties
  <2>2. Len(s) \in Nat /\ Len(t) \in Nat
    BY LenProperties
  <2>3. QED
    BY <1>1, <2>1, <2>2
<1>3. ToSet(r) = {r[i] : i \in 1 .. Len(r)} /\ ToSet(s) = {s[i] : i \in 1 .. Len(s)} /\ ToSet(t) = {t[i] : i \in 1 .. Len(t)}
  BY <1>2, ElementsOf
<1>4. \A x \in ToSet(r) : x \in ToSet(s) \cup ToSet(t)
  <2> TAKE x \in ToSet(r)
  <2>1. PICK i \in 1 .. Len(r) : x = r[i]
    BY <1>3
  <2>2. CASE i <= Len(s)
    <3>1. i \in 1 .. Len(s) /\ x = s[i]
      BY <1>2, <2>1, <2>2
    <3>2. QED
      BY <1>3, <3>1
  <2>3. CASE ~(i <= Len(s))
    <3>1. i - Len(s) \in 1 .. Len(t) /\ x = t[i - Len(s)]
      BY <1>2, <2>1, <2>3
    <3>2. QED
      BY <1>3, <3>1
  <2>4. QED
    BY <2>2, <2>3
<1>5. \A x \in ToSet(s) : x \in ToSet(r)
  <2> TAKE x \in ToSet(s)
  <2>1. PICK i \in 1 .. Len(s) : x = s[i]
    BY <1>3
  <2>2. i \in 1 .. Len(r) /\ i <= Len(s)
    BY <1>2
  <2>3. QED
    BY <1>2, <1>3, <2>1, <2>2
<1>6. \A x \in ToSet(t) : x \in ToSet(r)
  <2> TAKE x \in ToSet(t)
  <2>1. PICK i \in 1 .. Len(t) : x = t[i]
    BY <1>3
  <2>2. i + Len(s) \in 1 .. Len(r) /\ ~(i + Len(s) <= Len(s)) /\ i + Len(s) - Len(s) = i
    BY <1>2
  <2>3. QED
    BY <1>2, <1>3, <2>1, <2>2, SMTT(30)
<1>7. QED
  BY <1>1, <1>4, <1>5, <1>6

LEMMA ElementsOfAppend ==
    ASSUME NEW T, NEW s \in Seq(T), NEW e \in T
    PROVE  ToSet(Append(s, e)) = ToSet(s) \cup {e}
<1>1. PICK o : o = << e >>
  OBVIOUS
<1>2. o \in Seq(T) /\ Len(o) = 1 /\ o[1] = e
  BY <1>1
<1>3. Append(s, e) = s \o o
  BY <1>1, AppendIsConcat
<1>4. ToSet(o) = {e}
  <2>1. ToSet(o) = {o[i] : i \in 1 .. Len(o)}
    BY <1>2, ElementsOf
  <2>2. QED
    BY <1>2, <2>1
<1>5. ToSet(s \o o) = ToSet(s) \cup ToSet(o)
  BY <1>2, ElementsOfConcat
<1>6. QED
  BY <1>3, <1>4, <1>5

LEMMA SeqOfElements ==
    ASSUME NEW T, NEW s \in Seq(T)
    PROVE  s \in Seq(ToSet(s))
<1>1. s \in [1 .. Len(s) -> T] /\ Len(s) \in Nat /\ ToSet(s) = {s[i] : i \in 1 .. Len(s)}
  BY LenProperties, ElementsOf
<1>2. s \in [1 .. Len(s) -> ToSet(s)]
  BY <1>1
<1>3. QED
  BY <1>1, <1>2, SeqDef

\* Elements of a filtered sequence
LEMMA ElementsOfOnly ==
    ASSUME NEW T, NEW s \in Seq(T), NEW S
    PROVE  ToSet(Only(s, S)) = ToSet(s) \cap S
<1> DEFINE U == {t \in Seq(T) : ToSet(Only(t, S)) = ToSet(t) \cap S}
<1>1. << >> \in U
  BY EmptySeq, NoElements, OnlyEmpty
<1>2. ASSUME NEW t \in Seq(T) \cap U, NEW e \in T
      PROVE  Append(t, e) \in U
  <2>1. Only(Append(t, e), S) = IF e \in S THEN Append(Only(t, S), e) ELSE Only(t, S)
    BY OnlyAppend
  <2>2. ToSet(Append(t, e)) = ToSet(t) \cup {e} /\ Append(t, e) \in Seq(T)
    BY ElementsOfAppend, AppendProperties
  <2>3. ToSet(Only(t, S)) = ToSet(t) \cap S
    OBVIOUS
  <2>4. Only(t, S) \in Seq(T)
    <3>1. Only(t, S) \in Seq(T \cap S) /\ T \cap S \subseteq T
      BY OnlyTypes
    <3>2. QED
      BY <3>1, SeqMonotonic
  <2>5. ToSet(Append(Only(t, S), e)) = ToSet(Only(t, S)) \cup {e}
    BY <2>4, ElementsOfAppend
  <2>6. ToSet(Only(Append(t, e), S)) = ToSet(Append(t, e)) \cap S
    <3>1. CASE e \in S
      BY <2>1, <2>2, <2>3, <2>5, <3>1
    <3>2. CASE e \notin S
      BY <2>1, <2>2, <2>3, <3>2
    <3>3. QED
      BY <3>1, <3>2
  <2>7. QED
    BY <2>2, <2>6
<1>3. Seq(T) \subseteq U
  <2> HIDE DEF U
  <2>1. QED
    BY <1>1, <1>2, SeqInduction
<1>4. QED
  BY <1>3

Images(f, T) == {f[x] : x \in T}

\* f applied to every element.
Mapped(f, s) == [i \in DOMAIN s |-> f[s[i]]]

LEMMA MappedIs ==
    ASSUME NEW T, NEW s \in Seq(T), NEW f
    PROVE  /\ Mapped(f, s) \in Seq(Images(f, T)) /\ Len(Mapped(f, s)) = Len(s)
           /\ \A i \in 1 .. Len(s) : Mapped(f, s)[i] = f[s[i]]
<1>1. PICK n \in Nat : n = Len(s)
  BY LenProperties
<1>2. DOMAIN s = 1 .. n /\ \A i \in 1 .. n : s[i] \in T
  BY <1>1, LenProperties, ElementOfSeq
<1>3. PICK r : r = [i \in 1 .. n |-> f[s[i]]]
  OBVIOUS
<1>4. r \in [1 .. n -> Images(f, T)] /\ Mapped(f, s) = r
  BY <1>2, <1>3 DEF Mapped, Images
<1>5. r \in Seq(Images(f, T))
  BY <1>4, SeqDef
<1>6. Len(r) = n
  <2>1. DOMAIN r = 1 .. n /\ DOMAIN r = 1 .. Len(r) /\ Len(r) \in Nat
    BY <1>4, <1>5, LenProperties
  <2>2. QED
    BY <2>1
<1>7. QED
  BY <1>1, <1>3, <1>4, <1>5, <1>6

MapsConcat(f, s, t) == Mapped(f, s \o t) = Mapped(f, s) \o Mapped(f, t)

LEMMA MappedConcat ==
    ASSUME NEW T, NEW s \in Seq(T), NEW t \in Seq(T), NEW f
    PROVE  MapsConcat(f, s, t)
<1>1. PICK u, R : u = s \o t /\ R = Images(f, T)
  OBVIOUS
<1>2. u \in Seq(T) /\ Len(u) = Len(s) + Len(t) /\ Len(s) \in Nat /\ Len(t) \in Nat
  BY <1>1, ConcatProperties, LenProperties
<1>3. \A i \in 1 .. Len(s) + Len(t) : u[i] = IF i <= Len(s) THEN s[i] ELSE t[i - Len(s)]
  BY <1>1, ConcatProperties
<1>4. PICK a, b, c : a = Mapped(f, s) /\ b = Mapped(f, t) /\ c = Mapped(f, u)
  OBVIOUS
<1>5. /\ a \in Seq(R) /\ Len(a) = Len(s) /\ \A i \in 1 .. Len(s) : a[i] = f[s[i]]
      /\ b \in Seq(R) /\ Len(b) = Len(t) /\ \A i \in 1 .. Len(t) : b[i] = f[t[i]]
      /\ c \in Seq(R) /\ Len(c) = Len(u) /\ \A i \in 1 .. Len(u) : c[i] = f[u[i]]
  <2>1. R = Images(f, T)
    BY <1>1
  <2>2. a \in Seq(R) /\ Len(a) = Len(s) /\ \A i \in 1 .. Len(s) : a[i] = f[s[i]]
    BY <1>4, <2>1, MappedIs
  <2>3. b \in Seq(R) /\ Len(b) = Len(t) /\ \A i \in 1 .. Len(t) : b[i] = f[t[i]]
    BY <1>4, <2>1, MappedIs
  <2>4. c \in Seq(R) /\ Len(c) = Len(u) /\ \A i \in 1 .. Len(u) : c[i] = f[u[i]]
    BY <1>2, <1>4, <2>1, MappedIs, ZenonT(30)
  <2>5. QED
    BY <2>2, <2>3, <2>4
<1>6. PICK d : d = a \o b
  OBVIOUS
<1>7. /\ d \in Seq(R) /\ Len(d) = Len(s) + Len(t)
      /\ \A i \in 1 .. Len(s) + Len(t) : d[i] = IF i <= Len(s) THEN a[i] ELSE b[i - Len(s)]
  <2>1. a \in Seq(R) /\ b \in Seq(R)
    BY <1>5
  <2>2. /\ a \o b \in Seq(R) /\ Len(a \o b) = Len(a) + Len(b)
        /\ \A i \in 1 .. Len(a) + Len(b) : (a \o b)[i] = IF i <= Len(a) THEN a[i] ELSE b[i - Len(a)]
    BY <2>1, ConcatProperties
  <2>3. QED
    BY <1>5, <1>6, <2>2
<1>8. ASSUME NEW i \in 1 .. Len(c)
      PROVE  c[i] = d[i]
  <2>1. i \in 1 .. Len(s) + Len(t) /\ i \in 1 .. Len(u)
    BY <1>2, <1>5
  <2>2. CASE i <= Len(s)
    <3>1. i \in 1 .. Len(s)
      BY <2>1, <2>2
    <3>2. c[i] = f[s[i]] /\ d[i] = a[i] /\ a[i] = f[s[i]]
      BY <1>3, <1>5, <1>7, <2>1, <2>2, <3>1
    <3>3. QED
      BY <3>2
  <2>3. CASE ~(i <= Len(s))
    <3>0. i - Len(s) \in 1 .. Len(t)
      BY <1>2, <2>1, <2>3
    <3>1. PICK j \in 1 .. Len(t) : j = i - Len(s)
      BY <3>0
    <3>2. c[i] = f[t[j]] /\ d[i] = b[j] /\ b[j] = f[t[j]]
      BY <1>3, <1>5, <1>7, <2>1, <2>3, <3>1
    <3>3. QED
      BY <3>2
  <2>4. QED
    BY <2>2, <2>3
<1>9. c = d
  <2>1. Len(c) = Len(d)
    BY <1>2, <1>5, <1>7
  <2>2. QED
    BY <1>5, <1>7, <1>8, <2>1, SeqEqual
<1>10. QED
  BY <1>1, <1>4, <1>6, <1>9 DEF MapsConcat

LEMMA MappedElements ==
    ASSUME NEW T, NEW s \in Seq(T), NEW f
    PROVE  ToSet(Mapped(f, s)) = Images(f, ToSet(s))
<1>1. PICK m : m = Mapped(f, s)
  OBVIOUS
<1>2. m \in Seq(Images(f, T)) /\ Len(m) = Len(s) /\ \A i \in 1 .. Len(s) : m[i] = f[s[i]]
  BY <1>1, MappedIs
<1>3. ToSet(m) = {m[i] : i \in 1 .. Len(m)} /\ ToSet(s) = {s[i] : i \in 1 .. Len(s)}
  BY <1>2, ElementsOf
<1>4. QED
  BY <1>1, <1>2, <1>3 DEF Images

LEMMA MappedTypes ==
    ASSUME NEW T, NEW s \in Seq(T), NEW f, NEW R, Images(f, T) \subseteq R
    PROVE  Mapped(f, s) \in Seq(R)
BY MappedIs, SeqMonotonic

LEMMA MappedNone ==
    ASSUME NEW f
    PROVE  Mapped(f, << >>) = << >>
<1>1. << >> \in Seq({}) /\ Len(<< >>) = 0 /\ DOMAIN << >> = 1 .. 0
  BY EmptySeq, LenProperties
<1>2. QED
  BY <1>1 DEF Mapped

-----------------------------------------------------------------------------
(* Sequences of sequences, joined by FlattenSeq.                            *)

\* g[n] has the first n of s in a row
Flattens(g, s) == g[1] = s[1] /\ \A n \in 2 .. Len(s) : g[n] = g[n - 1] \o s[n]

FlattensTo(T, s) ==
    \E g \in [1 .. Len(s) -> Seq(T)] : Flattens(g, s) /\ FlattenSeq(s) = g[Len(s)]

LEMMA FlattenNone == FlattenSeq(<< >>) = << >>
BY EmptySeq DEF FlattenSeq

LEMMA FlattenIs ==
    ASSUME NEW T, NEW s \in Seq(Seq(T)), s # << >>
    PROVE  FlattensTo(T, s)
<1> DEFINE N == Len(s)
           Q == Seq(T)
           next(n, p) == p \o s[n]
           step == [q \in Nat \X Q |-> IF q[1] + 1 \in 1 .. N THEN next(q[1] + 1, q[2]) ELSE q[2]]
           Turns(g) == g = [n \in 1 .. N |-> IF n = 1 THEN s[n] ELSE g[n - 1] \o s[n]]
           flat == CHOOSE g : Turns(g)
<1>0. N \in Nat /\ N # 0 /\ << >> \in Q /\ \A n \in 1 .. N : s[n] \in Q
  BY LenProperties, EmptySeq, ElementOfSeq
<1>1. \A n \in 1 .. N, p \in Q : next(n, p) \in Q
  <2> TAKE n \in 1 .. N, p \in Q
  <2>1. s[n] \in Seq(T) /\ p \in Seq(T)
    BY <1>0
  <2>2. QED
    BY <2>1, ConcatProperties
<1>2. step \in [Nat \X Q -> Q]
  <2> HIDE DEF next, N, Q
  <2>1. QED
    BY <1>1
<1>3. Solvable(N, Q, << >>, step)
  <2> HIDE DEF N, step, Q
  <2>1. QED
    BY <1>0, <1>2, RecursionUpTo
<1>4. PICK h \in [0 .. N -> Q] : h[0] = << >> /\ \A k \in 0 .. N - 1 : h[k + 1] = step[<<k, h[k]>>]
  <2> HIDE DEF N, step, Q
  <2>1. QED
    BY <1>3 DEF Solvable
<1>5. ASSUME NEW n \in 1 .. N
      PROVE  h[n] = next(n, h[n - 1])
  <2> HIDE DEF next, N, Q
  <2>1. n - 1 \in 0 .. N - 1 /\ n - 1 \in 0 .. N /\ (n - 1) + 1 = n /\ n - 1 \in Nat
    BY <1>0
  <2>2. h[n] = step[<<n - 1, h[n - 1]>>] /\ h[n - 1] \in Q
    BY <1>4, <2>1
  <2>3. QED
    BY <2>1, <2>2
<1>6. PICK g : g = [n \in 1 .. N |-> h[n]]
  OBVIOUS
<1>7. Turns(g)
  <2>1. h[1] = s[1]
    <3>1. 1 \in 1 .. N /\ 1 - 1 = 0 /\ s[1] \in Seq(T)
      <4> HIDE DEF N
      <4>1. QED
        BY <1>0
    <3>2. h[1] = << >> \o s[1]
      BY <1>4, <1>5, <3>1, ZenonT(30)
    <3>3. << >> \o s[1] = s[1]
      BY <3>1, ConcatEmptySeq
    <3>4. QED
      BY <3>2, <3>3
  <2>2. ASSUME NEW n \in 1 .. N, n # 1
        PROVE  g[n - 1] = h[n - 1]
    <3> HIDE DEF N
    <3>1. n - 1 \in 1 .. N
      BY <1>0, <2>2
    <3>2. QED
      BY <1>6, <3>1
  <2>3. \A n \in 1 .. N : n # 1 => h[n] = g[n - 1] \o s[n]
    BY <1>5, <2>2
  <2> HIDE DEF N, Q
  <2>4. QED
    BY <1>6, <2>1, <2>3
<1>8. Turns(flat)
  <2> HIDE DEF Turns
  <2>1. QED
    BY <1>7
<1>9. FlattenSeq(s) = flat[N]
  BY <1>0 DEF FlattenSeq
<1> HIDE DEF flat
<1>10. flat[1] = s[1] /\ \A n \in 2 .. N : flat[n] = flat[n - 1] \o s[n]
  <2>1. 1 \in 1 .. N /\ \A n \in 2 .. N : n \in 1 .. N /\ n # 1
    BY <1>0
  <2> HIDE DEF N
  <2>2. QED
    BY <1>8, <2>1
<1>11. flat \in [1 .. N -> Q]
  <2> DEFINE U == {n \in 0 .. N : n = 0 \/ flat[n] \in Q}
  <2>1. 0 \in U
    OBVIOUS
  <2>2. ASSUME NEW n \in 0 .. N - 1, n \in U
        PROVE  n + 1 \in U
    <3>1. n + 1 \in 1 .. N /\ n + 1 \in 0 .. N /\ n + 1 - 1 = n
      BY <1>0
    <3>2. CASE n = 0
      BY <1>0, <1>10, <3>1, <3>2
    <3>3. CASE n # 0
      <4>1. n + 1 \in 2 .. N /\ flat[n] \in Q
        BY <1>0, <2>2, <3>3
      <4>2. PICK m : m = n + 1
        OBVIOUS
      <4>3. m \in 2 .. N /\ m \in 1 .. N /\ m - 1 = n
        BY <3>1, <4>1, <4>2
      <4>4. flat[m] = flat[m - 1] \o s[m] /\ s[m] \in Q /\ flat[m - 1] \in Q
        <5>1. flat[m] = flat[m - 1] \o s[m]
          BY <1>10, <4>3
        <5>2. QED
          BY <1>0, <4>1, <4>3, <5>1
      <4>5. flat[m - 1] \o s[m] \in Q
        BY <4>4, ConcatProperties
      <4>6. QED
        BY <3>1, <4>2, <4>4, <4>5
    <3>4. QED
      BY <3>2, <3>3
  <2>3. \A n \in 0 .. N : n \in U
    <3> HIDE DEF U, N
    <3>1. QED
      BY <1>0, <2>1, <2>2, InductionUpTo
  <2>4. \A n \in 1 .. N : flat[n] \in Q
    BY <1>0, <2>3
  <2>5. flat = [n \in 1 .. N |-> flat[n]]
    <3> HIDE DEF N
    <3>1. QED
      BY <1>8
  <2> HIDE DEF N, Q
  <2>6. QED
    BY <2>4, <2>5
<1>12. Flattens(flat, s)
  BY <1>10 DEF Flattens
<1>13. QED
  BY <1>9, <1>11, <1>12 DEF FlattensTo

LEMMA FlattenTypes ==
    ASSUME NEW T, NEW s \in Seq(Seq(T))
    PROVE  FlattenSeq(s) \in Seq(T)
<1>1. CASE s = << >>
  BY <1>1, FlattenNone, EmptySeq
<1>2. CASE s # << >>
  <2>1. PICK g \in [1 .. Len(s) -> Seq(T)] : FlattenSeq(s) = g[Len(s)]
    BY <1>2, FlattenIs DEF FlattensTo
  <2>2. Len(s) \in 1 .. Len(s)
    BY <1>2, EmptySeq
  <2>3. QED
    BY <2>1, <2>2
<1>3. QED
  BY <1>1, <1>2

LEMMA FlattenAppend ==
    ASSUME NEW T, NEW s \in Seq(Seq(T)), NEW e \in Seq(T)
    PROVE  FlattenSeq(Append(s, e)) = FlattenSeq(s) \o e
<1>1. PICK t : t = Append(s, e)
  OBVIOUS
<1>2. /\ t \in Seq(Seq(T)) /\ t # << >> /\ Len(t) = Len(s) + 1 /\ Len(s) \in Nat
      /\ \A i \in 1 .. Len(s) : t[i] = s[i]
      /\ t[Len(s) + 1] = e
  BY <1>1, AppendProperties, LenProperties
<1>3. PICK h \in [1 .. Len(t) -> Seq(T)] : Flattens(h, t) /\ FlattenSeq(t) = h[Len(t)]
  BY <1>2, FlattenIs DEF FlattensTo
<1>4. CASE s = << >>
  <2>1. Len(s) = 0 /\ << >> \o e = e
    BY <1>4, EmptySeq, ConcatEmptySeq
  <2>2. FlattenSeq(t) = e
    BY <1>2, <1>3, <2>1 DEF Flattens
  <2>3. FlattenSeq(s) = << >>
    BY <1>4, FlattenNone
  <2>4. QED
    BY <1>1, <2>1, <2>2, <2>3
<1>5. CASE s # << >>
  <2>1. PICK g \in [1 .. Len(s) -> Seq(T)] : Flattens(g, s) /\ FlattenSeq(s) = g[Len(s)]
    BY <1>5, FlattenIs DEF FlattensTo
  <2>2. Len(s) # 0
    BY <1>5, EmptySeq
  <2> DEFINE U == {n \in 0 .. Len(s) : n = 0 \/ g[n] = h[n]}
  <2>3. 0 \in U
    BY <1>2
  <2>4. ASSUME NEW n \in 0 .. Len(s) - 1, n \in U
        PROVE  n + 1 \in U
    <3>1. n + 1 \in 0 .. Len(s) /\ n + 1 \in 1 .. Len(s) /\ n + 1 - 1 = n /\ t[n + 1] = s[n + 1]
      BY <1>2
    <3>2. CASE n = 0
      BY <1>2, <1>3, <2>1, <3>1, <3>2 DEF Flattens
    <3>3. CASE n # 0
      <4>1. n + 1 \in 2 .. Len(s) /\ n + 1 \in 2 .. Len(t) /\ g[n] = h[n]
        BY <1>2, <2>4, <3>3
      <4>2. PICK m : m = n + 1
        OBVIOUS
      <4>3. m \in 2 .. Len(s) /\ m \in 2 .. Len(t) /\ m - 1 = n
        BY <3>1, <4>1, <4>2
      <4>4. g[m] = g[m - 1] \o s[m]
        BY <2>1, <4>3 DEF Flattens
      <4>5. h[m] = h[m - 1] \o t[m]
        BY <1>3, <4>3 DEF Flattens
      <4>6. g[m - 1] = h[m - 1] /\ s[m] = t[m]
        BY <3>1, <4>1, <4>2, <4>3
      <4>7. QED
        BY <3>1, <4>2, <4>4, <4>5, <4>6
    <3>4. QED
      BY <3>2, <3>3
  <2>5. \A n \in 0 .. Len(s) : n \in U
    <3> HIDE DEF U
    <3>1. QED
      BY <1>2, <2>3, <2>4, InductionUpTo
  <2>6. g[Len(s)] = h[Len(s)]
    <3>1. Len(s) \in 0 .. Len(s)
      BY <1>2
    <3>2. QED
      BY <2>2, <2>5, <3>1
  <2>7. h[Len(t)] = h[Len(s)] \o e
    <3>1. Len(t) \in 2 .. Len(t) /\ Len(t) - 1 = Len(s)
      BY <1>2, <2>2
    <3>2. h[Len(t)] = h[Len(t) - 1] \o t[Len(t)]
      BY <1>3, <3>1 DEF Flattens
    <3>3. QED
      BY <1>2, <3>1, <3>2
  <2>8. QED
    BY <1>1, <1>3, <2>1, <2>6, <2>7
<1>6. QED
  BY <1>4, <1>5

\* What is in the parts is in the whole.
Parts(s) == UNION {ToSet(s[i]) : i \in DOMAIN s}

LEMMA PartsAppend ==
    ASSUME NEW T, NEW s \in Seq(T), NEW e \in T
    PROVE  Parts(Append(s, e)) = Parts(s) \cup ToSet(e)
<1>1. PICK t : t = Append(s, e)
  OBVIOUS
<1>2. /\ t \in Seq(T) /\ Len(t) = Len(s) + 1 /\ Len(s) \in Nat
      /\ \A i \in 1 .. Len(s) : t[i] = s[i]
      /\ t[Len(s) + 1] = e
  BY <1>1, AppendProperties, LenProperties
<1>3. DOMAIN s = 1 .. Len(s) /\ DOMAIN t = 1 .. Len(s) + 1
  BY <1>2, LenProperties
<1>4. DOMAIN t = DOMAIN s \cup {Len(s) + 1}
  BY <1>2, <1>3
<1>5. \A x : x \in Parts(t) <=> x \in Parts(s) \/ x \in ToSet(e)
  <2> TAKE x
  <2>1. x \in Parts(t) <=> \E i \in DOMAIN t : x \in ToSet(t[i])
    BY DEF Parts
  <2>2. x \in Parts(s) <=> \E i \in DOMAIN s : x \in ToSet(s[i])
    BY DEF Parts
  <2>3. QED
    BY <1>2, <1>3, <1>4, <2>1, <2>2
<1>6. QED
  BY <1>1, <1>5

LEMMA FlattenElements ==
    ASSUME NEW T, NEW s \in Seq(Seq(T))
    PROVE  ToSet(FlattenSeq(s)) = Parts(s)
<1> DEFINE U == {t \in Seq(Seq(T)) : ToSet(FlattenSeq(t)) = Parts(t)}
<1>1. << >> \in U
  <2>1. << >> \in Seq(Seq(T)) /\ DOMAIN << >> = {}
    BY EmptySeq, LenProperties
  <2>2. Parts(<< >>) = {}
    BY <2>1 DEF Parts
  <2>3. QED
    BY <2>1, <2>2, FlattenNone, NoElements
<1>2. ASSUME NEW t \in Seq(Seq(T)) \cap U, NEW e \in Seq(T)
      PROVE  Append(t, e) \in U
  <2>1. Append(t, e) \in Seq(Seq(T)) /\ FlattenSeq(t) \in Seq(T)
    BY AppendProperties, FlattenTypes
  <2>2. ToSet(FlattenSeq(t)) = Parts(t)
    OBVIOUS
  <2>3. PICK f : f = FlattenSeq(t)
    OBVIOUS
  <2>4. FlattenSeq(Append(t, e)) = f \o e
    BY <2>3, FlattenAppend
  <2>5. ToSet(f \o e) = ToSet(f) \cup ToSet(e)
    BY <2>1, <2>3, ElementsOfConcat
  <2>6. Parts(Append(t, e)) = Parts(t) \cup ToSet(e)
    BY PartsAppend
  <2>7. QED
    BY <2>1, <2>2, <2>3, <2>4, <2>5, <2>6
<1>3. Seq(Seq(T)) \subseteq U
  <2> HIDE DEF U
  <2>1. QED
    BY <1>1, <1>2, SeqInduction
<1>4. QED
  BY <1>3

\* Mapping each part or the whole is the same.
MappedParts(f, s) == [i \in DOMAIN s |-> Mapped(f, s[i])]

LEMMA MappedPartsIs ==
    ASSUME NEW T, NEW s \in Seq(Seq(T)), NEW f
    PROVE  /\ MappedParts(f, s) \in Seq(Seq(Images(f, T))) /\ Len(MappedParts(f, s)) = Len(s)
           /\ \A i \in 1 .. Len(s) : MappedParts(f, s)[i] = Mapped(f, s[i])
<1>1. PICK n \in Nat : n = Len(s)
  BY LenProperties
<1>2. DOMAIN s = 1 .. n /\ \A i \in 1 .. n : s[i] \in Seq(T)
  BY <1>1, LenProperties, ElementOfSeq
<1>3. PICK r : r = [i \in 1 .. n |-> Mapped(f, s[i])]
  OBVIOUS
<1>4. \A i \in 1 .. n : Mapped(f, s[i]) \in Seq(Images(f, T))
  BY <1>2, MappedIs
<1>5. r \in [1 .. n -> Seq(Images(f, T))] /\ MappedParts(f, s) = r
  BY <1>2, <1>3, <1>4 DEF MappedParts
<1>6. r \in Seq(Seq(Images(f, T)))
  BY <1>5, SeqDef
<1>7. Len(r) = n
  <2>1. DOMAIN r = 1 .. n /\ DOMAIN r = 1 .. Len(r) /\ Len(r) \in Nat
    BY <1>5, <1>6, LenProperties
  <2>2. QED
    BY <2>1
<1>8. QED
  BY <1>1, <1>3, <1>5, <1>6, <1>7

LEMMA MappedPartsAppend ==
    ASSUME NEW T, NEW s \in Seq(Seq(T)), NEW e \in Seq(T), NEW f
    PROVE  MappedParts(f, Append(s, e)) = Append(MappedParts(f, s), Mapped(f, e))
<1>1. PICK a : a = Append(s, e)
  OBVIOUS
<1>2. /\ a \in Seq(Seq(T)) /\ Len(a) = Len(s) + 1 /\ Len(s) \in Nat
      /\ \A i \in 1 .. Len(s) : a[i] = s[i]
      /\ a[Len(s) + 1] = e
  BY <1>1, AppendProperties, LenProperties
<1>3. PICK b, me, m, R : R = Images(f, T) /\ b = MappedParts(f, s) /\ me = Mapped(f, e) /\ m = MappedParts(f, a)
  OBVIOUS
<1>4. b \in Seq(Seq(R)) /\ Len(b) = Len(s) /\ \A i \in 1 .. Len(s) : b[i] = Mapped(f, s[i])
  BY <1>3, MappedPartsIs
<1>5. m \in Seq(Seq(R)) /\ Len(m) = Len(a) /\ \A i \in 1 .. Len(a) : m[i] = Mapped(f, a[i])
  BY <1>2, <1>3, MappedPartsIs
<1>6. me \in Seq(R)
  BY <1>3, MappedIs
<1>7. PICK c : c = Append(b, me)
  OBVIOUS
<1>8. /\ c \in Seq(Seq(R)) /\ Len(c) = Len(b) + 1
      /\ \A i \in 1 .. Len(b) : c[i] = b[i]
      /\ c[Len(b) + 1] = me
  BY <1>4, <1>6, <1>7, AppendProperties
<1>9. ASSUME NEW i \in 1 .. Len(m)
      PROVE  m[i] = c[i]
  <2>1. CASE i = Len(s) + 1
    BY <1>2, <1>3, <1>4, <1>5, <1>8, <2>1
  <2>2. CASE i # Len(s) + 1
    <3>1. i \in 1 .. Len(s)
      BY <1>2, <1>5, <2>2
    <3>2. QED
      BY <1>2, <1>4, <1>5, <1>8, <3>1
  <2>3. QED
    BY <2>1, <2>2
<1>10. Len(m) = Len(c)
  BY <1>2, <1>4, <1>5, <1>8
<1>11. m = c
  BY <1>5, <1>8, <1>9, <1>10, SeqEqual
<1>12. QED
  BY <1>1, <1>3, <1>7, <1>11

LEMMA MappedFlattenAppend ==
    ASSUME NEW T, NEW s \in Seq(Seq(T)), NEW e \in Seq(T), NEW f,
           FlattenSeq(MappedParts(f, s)) = Mapped(f, FlattenSeq(s))
    PROVE  FlattenSeq(MappedParts(f, Append(s, e))) = Mapped(f, FlattenSeq(Append(s, e)))
<1>1. PICK b, me, w : b = MappedParts(f, s) /\ me = Mapped(f, e) /\ w = FlattenSeq(s)
  OBVIOUS
<1>2. b \in Seq(Seq(Images(f, T))) /\ me \in Seq(Images(f, T)) /\ w \in Seq(T)
  BY <1>1, MappedPartsIs, MappedIs, FlattenTypes
<1>3. MappedParts(f, Append(s, e)) = Append(b, me)
  BY <1>1, MappedPartsAppend
<1>4. FlattenSeq(Append(b, me)) = FlattenSeq(b) \o me
  BY <1>2, FlattenAppend
<1>5. FlattenSeq(Append(s, e)) = w \o e
  BY <1>1, FlattenAppend
<1>6. MapsConcat(f, w, e)
  BY <1>2, MappedConcat
<1>7. FlattenSeq(b) = Mapped(f, w)
  BY <1>1
<1>8. QED
  BY <1>1, <1>3, <1>4, <1>5, <1>6, <1>7 DEF MapsConcat

LEMMA MappedFlatten ==
    ASSUME NEW T, NEW s \in Seq(Seq(T)), NEW f
    PROVE  FlattenSeq(MappedParts(f, s)) = Mapped(f, FlattenSeq(s))
<1> DEFINE U == {t \in Seq(Seq(T)) : FlattenSeq(MappedParts(f, t)) = Mapped(f, FlattenSeq(t))}
<1>1. << >> \in U
  <2>1. << >> \in Seq(Seq(T)) /\ DOMAIN << >> = {} /\ DOMAIN << >> = 1 .. 0
    BY EmptySeq, LenProperties
  <2>2. MappedParts(f, << >>) = << >>
    BY <2>1 DEF MappedParts
  <2>3. QED
    BY <2>1, <2>2, FlattenNone, MappedNone
<1>2. ASSUME NEW t \in Seq(Seq(T)) \cap U, NEW e \in Seq(T)
      PROVE  Append(t, e) \in U
  BY AppendProperties, MappedFlattenAppend
<1>3. Seq(Seq(T)) \subseteq U
  <2> HIDE DEF U
  <2>1. QED
    BY <1>1, <1>2, SeqInduction
<1>4. QED
  BY <1>3

LEMMA MappedAppend ==
    ASSUME NEW T, NEW s \in Seq(T), NEW e \in T, NEW f
    PROVE  Mapped(f, Append(s, e)) = Append(Mapped(f, s), f[e])
<1>1. PICK a, o, m : a = Append(s, e) /\ o = << e >> /\ m = << f[e] >>
  OBVIOUS
<1>2. o \in Seq(T) /\ Len(o) = 1 /\ o[1] = e /\ DOMAIN o = 1 .. 1
  BY <1>1
<1>3. Mapped(f, o) = m
  BY <1>1, <1>2 DEF Mapped
<1>4. a = s \o o
  BY <1>1, AppendIsConcat
<1>5. MapsConcat(f, s, o)
  BY <1>2, MappedConcat
<1>6. Mapped(f, s) \in Seq(Images(f, T)) /\ f[e] \in Images(f, T)
  BY MappedIs DEF Images
<1>7. Append(Mapped(f, s), f[e]) = Mapped(f, s) \o m
  BY <1>1, <1>6, AppendIsConcat
<1>8. QED
  BY <1>1, <1>3, <1>4, <1>5, <1>7 DEF MapsConcat

\* Each element becomes a sequence, and these are joined.
Joined(f, s) == FlattenSeq(Mapped(f, s))

LEMMA JoinedNone ==
    ASSUME NEW f
    PROVE  Joined(f, << >>) = << >>
BY MappedNone, FlattenNone DEF Joined

LEMMA JoinedTypes ==
    ASSUME NEW T, NEW s \in Seq(T), NEW f, NEW V, Images(f, T) \subseteq Seq(V)
    PROVE  Joined(f, s) \in Seq(V) /\ Mapped(f, s) \in Seq(Seq(V))
BY MappedTypes, FlattenTypes DEF Joined

LEMMA JoinedAppend ==
    ASSUME NEW T, NEW s \in Seq(T), NEW e \in T, NEW f, NEW V, Images(f, T) \subseteq Seq(V)
    PROVE  Joined(f, Append(s, e)) = Joined(f, s) \o f[e]
<1>1. PICK m, x : m = Mapped(f, s) /\ x = f[e]
  OBVIOUS
<1>2. m \in Seq(Seq(V)) /\ x \in Seq(V)
  BY <1>1, JoinedTypes DEF Images
<1>3. Mapped(f, Append(s, e)) = Append(m, x)
  BY <1>1, MappedAppend
<1>4. FlattenSeq(Append(m, x)) = FlattenSeq(m) \o x
  BY <1>2, FlattenAppend
<1>5. QED
  BY <1>1, <1>3, <1>4 DEF Joined

LEMMA JoinedElements ==
    ASSUME NEW T, NEW s \in Seq(T), NEW f, NEW V, Images(f, T) \subseteq Seq(V)
    PROVE  ToSet(Joined(f, s)) = UNION {ToSet(f[x]) : x \in ToSet(s)}
<1>1. PICK m : m = Mapped(f, s)
  OBVIOUS
<1>2. m \in Seq(Seq(V)) /\ Len(m) = Len(s) /\ \A i \in 1 .. Len(s) : m[i] = f[s[i]]
  BY <1>1, JoinedTypes, MappedIs
<1>3. ToSet(Joined(f, s)) = Parts(m)
  BY <1>1, <1>2, FlattenElements DEF Joined
<1>4. DOMAIN m = 1 .. Len(s) /\ ToSet(s) = {s[i] : i \in 1 .. Len(s)}
  BY <1>2, LenProperties, ElementsOf
<1>5. Parts(m) = UNION {ToSet(f[x]) : x \in ToSet(s)}
  <2>1. \A x : x \in Parts(m) <=> \E i \in 1 .. Len(s) : x \in ToSet(f[s[i]])
    <3> TAKE x
    <3>1. x \in Parts(m) <=> \E i \in DOMAIN m : x \in ToSet(m[i])
      BY DEF Parts
    <3>2. QED
      BY <1>2, <1>4, <3>1
  <2>2. QED
    BY <1>4, <2>1
<1>6. QED
  BY <1>3, <1>5

-----------------------------------------------------------------------------
(* The messages of a conversation and of a history.                         *)

\* with calls up to n
Calls(n) == [id : 1 .. n, name : Names]
Messages(n) == [role : {"user", "assistant", "system"}, text : 0 .. MaxMessages,
                results : Seq(1 .. n), uses : Seq(Calls(n))]
Translated(n) == [role : {"user", "assistant"}, content : Seq(Nat),
                  results : Seq(1 .. n), uses : Seq(Calls(n))]

Text(m)       == IF m.text = 0 THEN << >> ELSE <<m.text>>
TextOf(T)     == [m \in T |-> Text(m)]
UsesOf(T)     == [m \in T |-> m.uses]
ResultsOf(T)  == [m \in T |-> m.results]
ContentOf(T)  == [m \in T |-> m.content]
Contents(h)   == FlattenSeq([i \in DOMAIN h |-> h[i].content])

LEMMA PartsJoined ==
    ASSUME NEW T, NEW ms \in Seq(T)
    PROVE  /\ Texts(ms) = Joined(TextOf(T), ms) /\ Uses(ms) = Joined(UsesOf(T), ms)
           /\ Results(ms) = Joined(ResultsOf(T), ms) /\ Contents(ms) = Joined(ContentOf(T), ms)
<1>1. \A i \in DOMAIN ms : ms[i] \in T
  BY LenProperties, ElementOfSeq
<1>2. [i \in DOMAIN ms |-> IF ms[i].text = 0 THEN << >> ELSE <<ms[i].text>>] = Mapped(TextOf(T), ms)
  BY <1>1 DEF Mapped, TextOf, Text
<1>3. [i \in DOMAIN ms |-> ms[i].uses] = Mapped(UsesOf(T), ms)
  BY <1>1 DEF Mapped, UsesOf
<1>4. [i \in DOMAIN ms |-> ms[i].results] = Mapped(ResultsOf(T), ms)
  BY <1>1 DEF Mapped, ResultsOf
<1>5. [i \in DOMAIN ms |-> ms[i].content] = Mapped(ContentOf(T), ms)
  BY <1>1 DEF Mapped, ContentOf
<1>6. QED
  BY <1>2, <1>3, <1>4, <1>5 DEF Texts, Uses, Results, Contents, Joined

LEMMA TextTypes ==
    ASSUME NEW n \in Nat
    PROVE  Images(TextOf(Messages(n)), Messages(n)) \subseteq Seq(1 .. MaxMessages)
<1>1. ASSUME NEW m \in Messages(n)
      PROVE  Text(m) \in Seq(1 .. MaxMessages)
  <2>1. m.text \in 0 .. MaxMessages /\ MaxMessages \in Nat
    BY ConversionAssumption DEF Messages
  <2>2. CASE m.text = 0
    BY <2>2, EmptySeq DEF Text
  <2>3. CASE m.text # 0
    BY <2>1, <2>3 DEF Text
  <2>4. QED
    BY <2>2, <2>3
<1>2. QED
  BY <1>1 DEF Images, TextOf

LEMMA FieldTypes ==
    ASSUME NEW n \in Nat, NEW T, T = Messages(n) \/ T = Translated(n)
    PROVE  /\ Images(UsesOf(T), T) \subseteq Seq(Calls(n))
           /\ Images(ResultsOf(T), T) \subseteq Seq(1 .. n)
<1>1. \A m \in T : m.uses \in Seq(Calls(n)) /\ m.results \in Seq(1 .. n)
  <2>1. CASE T = Messages(n)
    BY <2>1 DEF Messages
  <2>2. CASE T = Translated(n)
    BY <2>2 DEF Translated
  <2>3. QED
    BY <2>1, <2>2
<1>2. QED
  BY <1>1 DEF Images, UsesOf, ResultsOf

LEMMA ContentTypes ==
    ASSUME NEW n \in Nat
    PROVE  Images(ContentOf(Translated(n)), Translated(n)) \subseteq Seq(Nat)
BY DEF Images, ContentOf, Translated

LEMMA TextsParts ==
    ASSUME NEW n \in Nat, NEW ms \in Seq(Messages(n))
    PROVE  /\ Texts(ms) \in Seq(1 .. MaxMessages)
           /\ \A m \in Messages(n) : Texts(Append(ms, m)) = Texts(ms) \o Text(m)
<1> DEFINE T == Messages(n)
<1>1. Images(TextOf(T), T) \subseteq Seq(1 .. MaxMessages)
  BY TextTypes
<1> HIDE DEF T
<1>2. Texts(ms) = Joined(TextOf(T), ms)
  BY PartsJoined DEF T
<1>3. ASSUME NEW m \in T
      PROVE  Texts(Append(ms, m)) = Texts(ms) \o Text(m)
  <2>1. ms \in Seq(T)
    BY DEF T
  <2>2. Append(ms, m) \in Seq(T)
    BY <2>1, AppendProperties
  <2>3. Texts(Append(ms, m)) = Joined(TextOf(T), Append(ms, m))
    BY <2>2, PartsJoined
  <2>4. Joined(TextOf(T), Append(ms, m)) = Joined(TextOf(T), ms) \o TextOf(T)[m]
    BY <1>1, <2>1, JoinedAppend
  <2>5. TextOf(T)[m] = Text(m)
    BY DEF TextOf
  <2>6. QED
    BY <1>2, <2>3, <2>4, <2>5
<1>4. Texts(ms) \in Seq(1 .. MaxMessages)
  BY <1>1, <1>2, JoinedTypes DEF T
<1>5. QED
  BY <1>3, <1>4 DEF T

LEMMA ContentsParts ==
    ASSUME NEW n \in Nat, NEW h \in Seq(Translated(n))
    PROVE  /\ Contents(h) \in Seq(Nat)
           /\ \A m \in Translated(n) : Contents(Append(h, m)) = Contents(h) \o m.content
<1> DEFINE T == Translated(n)
<1>1. Images(ContentOf(T), T) \subseteq Seq(Nat)
  BY ContentTypes
<1> HIDE DEF T
<1>2. Contents(h) = Joined(ContentOf(T), h)
  BY PartsJoined DEF T
<1>3. ASSUME NEW m \in T
      PROVE  Contents(Append(h, m)) = Contents(h) \o m.content
  <2>1. h \in Seq(T)
    BY DEF T
  <2>2. Append(h, m) \in Seq(T)
    BY <2>1, AppendProperties
  <2>3. Contents(Append(h, m)) = Joined(ContentOf(T), Append(h, m))
    BY <2>2, PartsJoined
  <2>4. Joined(ContentOf(T), Append(h, m)) = Joined(ContentOf(T), h) \o ContentOf(T)[m]
    BY <1>1, <2>1, JoinedAppend
  <2>5. ContentOf(T)[m] = m.content
    BY DEF ContentOf
  <2>6. QED
    BY <1>2, <2>3, <2>4, <2>5
<1>4. Contents(h) \in Seq(Nat)
  BY <1>1, <1>2, JoinedTypes DEF T
<1>5. QED
  BY <1>3, <1>4 DEF T

\* Uses and results are those of some message.
LEMMA UsesParts ==
    ASSUME NEW n \in Nat, NEW T, T = Messages(n) \/ T = Translated(n), NEW ms \in Seq(T)
    PROVE  /\ Uses(ms) \in Seq(Calls(n)) /\ Results(ms) \in Seq(1 .. n)
           /\ ToSet(Uses(ms)) = UNION {ToSet(m.uses) : m \in ToSet(ms)}
           /\ ToSet(Results(ms)) = UNION {ToSet(m.results) : m \in ToSet(ms)}
<1>1. Images(UsesOf(T), T) \subseteq Seq(Calls(n)) /\ Images(ResultsOf(T), T) \subseteq Seq(1 .. n)
  BY FieldTypes
<1>2. Uses(ms) = Joined(UsesOf(T), ms) /\ Results(ms) = Joined(ResultsOf(T), ms)
  BY PartsJoined
<1>3. ToSet(Joined(UsesOf(T), ms)) = UNION {ToSet(UsesOf(T)[m]) : m \in ToSet(ms)}
  BY <1>1, JoinedElements
<1>4. ToSet(Joined(ResultsOf(T), ms)) = UNION {ToSet(ResultsOf(T)[m]) : m \in ToSet(ms)}
  BY <1>1, JoinedElements
<1>5. \A m \in ToSet(ms) : UsesOf(T)[m] = m.uses /\ ResultsOf(T)[m] = m.results
  BY ElementsOf DEF UsesOf, ResultsOf
<1>6. Joined(UsesOf(T), ms) \in Seq(Calls(n)) /\ Joined(ResultsOf(T), ms) \in Seq(1 .. n)
  BY <1>1, JoinedTypes
<1>7. QED
  BY <1>2, <1>3, <1>4, <1>5, <1>6

Buckets(n) == [history : Seq(Translated(n)), users : Seq(Messages(n)), assistants : Seq(Messages(n))]

LEMMA MappedNames ==
    ASSUME NEW n \in Names
    PROVE  map_tool_name(n) \in Names
<1>1. shorten_tool_name(n) \in Names
  BY DEF Names, shorten_tool_name
<1>2. QED
  BY <1>1 DEF map_tool_name

LEMMA UsersMerged ==
    ASSUME NEW n \in Nat, NEW ms \in Seq(Messages(n)), NEW m, m = merge_user_messages(ms)
    PROVE  /\ m \in Translated(n) /\ m.role = "user" /\ m.content = Texts(ms) /\ m.uses = << >>
           /\ m.results = Results(ms)
<1>1. Texts(ms) \in Seq(Nat)
  <2>1. Texts(ms) \in Seq(1 .. MaxMessages) /\ 1 .. MaxMessages \subseteq Nat
    BY TextsParts
  <2>2. QED
    BY <2>1, SeqMonotonic
<1>2. Results(ms) \in Seq(1 .. n)
  BY UsesParts
<1>3. << >> \in Seq(Calls(n))
  BY EmptySeq
<1>4. m = [role |-> "user", content |-> Texts(ms), results |-> Results(ms), uses |-> << >>]
  BY DEF merge_user_messages, Kiro
<1>5. QED
  BY <1>1, <1>2, <1>3, <1>4 DEF Translated

Rename(T) == [u \in T |-> [u EXCEPT !.name = map_tool_name(@)]]

LEMMA UsesRenamed ==
    ASSUME NEW n \in Nat, NEW uses \in Seq(Calls(n)), NEW renamed,
           renamed = [i \in DOMAIN uses |-> [uses[i] EXCEPT !.name = map_tool_name(@)]]
    PROVE  /\ renamed \in Seq(Calls(n))
           /\ \A u \in ToSet(renamed) : \E v \in ToSet(uses) : u.id = v.id /\ u.name = map_tool_name(v.name)
<1> DEFINE T == Calls(n)
<1>1. ASSUME NEW u \in T
      PROVE  Rename(T)[u] \in T /\ Rename(T)[u].id = u.id /\ Rename(T)[u].name = map_tool_name(u.name)
  <2>1. map_tool_name(u.name) \in Names
    BY MappedNames DEF Calls
  <2>2. QED
    BY <2>1 DEF Rename, Calls
<1>2. renamed = Mapped(Rename(T), uses)
  <2>1. \A i \in DOMAIN uses : uses[i] \in T
    BY LenProperties, ElementOfSeq
  <2> HIDE DEF T
  <2>2. QED
    BY <2>1 DEF Mapped, Rename
<1>3. uses \in Seq(T) /\ Images(Rename(T), T) \subseteq T
  BY <1>1 DEF Images
<1> HIDE DEF T
<1>4. renamed \in Seq(T)
  BY <1>2, <1>3, MappedTypes
<1>5. ToSet(renamed) = {Rename(T)[u] : u \in ToSet(uses)} /\ ToSet(uses) \subseteq T
  BY <1>2, <1>3, MappedElements, ElementsOf DEF Images
<1>6. QED
  BY <1>1, <1>4, <1>5 DEF T

LEMMA AssistantsMerged ==
    ASSUME NEW n \in Nat, NEW ms \in Seq(Messages(n)), NEW m, m = merge_assistant_messages(ms)
    PROVE  /\ m \in Translated(n) /\ m.role = "assistant" /\ Only(m.content, 1 .. MaxMessages) = Texts(ms)
           /\ m.results = << >>
           /\ \A u \in ToSet(m.uses) :
                 \E v \in ToSet(Uses(ms)) : u.id = v.id /\ u.name = map_tool_name(v.name)
<1> DEFINE content  == IF Texts(ms) = << >> /\ Uses(ms) # << >> THEN <<Space>> ELSE Texts(ms)
           renamed == [i \in DOMAIN Uses(ms) |-> [Uses(ms)[i] EXCEPT !.name = map_tool_name(@)]]
<1>1. Texts(ms) \in Seq(1 .. MaxMessages) /\ MaxMessages \in Nat /\ 1 .. MaxMessages \subseteq Nat
  BY TextsParts, ConversionAssumption
<1>2. Texts(ms) \in Seq(Nat)
  BY <1>1, SeqMonotonic
<1>3. content \in Seq(Nat) /\ Only(content, 1 .. MaxMessages) = Texts(ms)
  <2>1. CASE Texts(ms) = << >> /\ Uses(ms) # << >>
    <3>1. PICK o : o = <<Space>>
      OBVIOUS
    <3>2. Space \in Nat /\ Space \notin 1 .. MaxMessages
      BY <1>1 DEF Space
    <3>3. o \in Seq(Nat) /\ Len(o) = 1 /\ o[1] = Space
      BY <3>1, <3>2
    <3>4. Only(o, 1 .. MaxMessages) = << >>
      <4>1. \A i \in 1 .. Len(o) : o[i] \notin 1 .. MaxMessages
        BY <3>2, <3>3
      <4>2. QED
        BY <3>3, <4>1, OnlyNone
    <3>5. QED
      BY <2>1, <3>1, <3>3, <3>4
  <2>2. CASE ~(Texts(ms) = << >> /\ Uses(ms) # << >>)
    <3>1. \A i \in 1 .. Len(Texts(ms)) : Texts(ms)[i] \in 1 .. MaxMessages
      BY <1>1, ElementOfSeq
    <3>2. Only(Texts(ms), 1 .. MaxMessages) = Texts(ms)
      BY <1>1, <3>1, OnlyAll
    <3>3. QED
      BY <1>2, <2>2, <3>2
  <2>3. QED
    BY <2>1, <2>2
<1>4. Uses(ms) \in Seq(Calls(n))
  BY UsesParts
<1>5. /\ renamed \in Seq(Calls(n))
      /\ \A u \in ToSet(renamed) :
            \E v \in ToSet(Uses(ms)) : u.id = v.id /\ u.name = map_tool_name(v.name)
  BY <1>4, UsesRenamed
<1>6. << >> \in Seq(1 .. n)
  BY EmptySeq
<1>7. m = [role |-> "assistant", content |-> content, results |-> << >>, uses |-> renamed]
  BY DEF merge_assistant_messages, Kiro
<1> HIDE DEF content, renamed
<1>8. QED
  BY <1>3, <1>5, <1>6, <1>7 DEF Translated

LEMMA FlushTypes ==
    ASSUME NEW n \in Nat, NEW b \in Buckets(n)
    PROVE  FlushUsers(b) \in Seq(Translated(n)) /\ FlushAssistants(b) \in Seq(Translated(n))
<1>1. /\ b.history \in Seq(Translated(n)) /\ b.users \in Seq(Messages(n))
      /\ b.assistants \in Seq(Messages(n))
  BY DEF Buckets
<1>2. merge_user_messages(b.users) \in Translated(n) /\ merge_assistant_messages(b.assistants) \in Translated(n)
  BY <1>1, UsersMerged, AssistantsMerged
<1>3. QED
  BY <1>1, <1>2, AppendProperties DEF FlushUsers, FlushAssistants

LEMMA CollectTypes ==
    ASSUME NEW n \in Nat, NEW b \in Buckets(n), NEW m \in Messages(n)
    PROVE  Collect(b, m) \in Buckets(n)
<1>1. /\ FlushUsers(b) \in Seq(Translated(n)) /\ FlushAssistants(b) \in Seq(Translated(n))
      /\ b.users \in Seq(Messages(n)) /\ b.assistants \in Seq(Messages(n))
      /\ << >> \in Seq(Messages(n))
  BY FlushTypes, EmptySeq DEF Buckets
<1>2. Append(b.users, m) \in Seq(Messages(n)) /\ Append(b.assistants, m) \in Seq(Messages(n))
  BY <1>1, AppendProperties
<1>3. CASE m.role = "user"
  BY <1>1, <1>2, <1>3 DEF Collect, Buckets
<1>4. CASE m.role = "assistant"
  BY <1>1, <1>2, <1>4 DEF Collect, Buckets
<1>5. CASE m.role # "user" /\ m.role # "assistant"
  BY <1>5 DEF Collect
<1>6. QED
  BY <1>3, <1>4, <1>5

LEMMA SystemPairIs ==
    ASSUME NEW n \in Nat
    PROVE  /\ SystemPair \in Seq(Translated(n))
           /\ \/ SystemPair = << >>
              \/ /\ Len(SystemPair) = 2
                 /\ SystemPair[1].role = "user" /\ SystemPair[2].role = "assistant"
           /\ \A i \in 1 .. Len(SystemPair) :
                 SystemPair[i].uses = << >> /\ SystemPair[i].results = << >>
           /\ Only(Contents(SystemPair), 1 .. MaxMessages) = << >>
<1>1. MaxMessages \in Nat
  BY ConversionAssumption
<1>2. ASSUME NEW content, content \in {<< >>, <<Thinking>>, <<Instructions>>, <<Thinking, Instructions>>},
             NEW pair, pair = <<Kiro("user", content, << >>, << >>),
                                Kiro("assistant", <<Promise>>, << >>, << >>)>>
      PROVE  /\ pair \in Seq(Translated(n)) /\ Len(pair) = 2
             /\ pair[1].role = "user" /\ pair[2].role = "assistant"
             /\ \A i \in 1 .. Len(pair) : pair[i].uses = << >> /\ pair[i].results = << >>
             /\ Only(Contents(pair), 1 .. MaxMessages) = << >>
  <2>1. /\ {Thinking, Instructions, Promise} \subseteq Nat
        /\ \A x \in {Thinking, Instructions, Promise} : x \notin 1 .. MaxMessages
    BY <1>1 DEF Thinking, Instructions, Promise
  <2> DEFINE P == {Thinking, Instructions, Promise}
  <2>2. PICK promise : promise = <<Promise>>
    OBVIOUS
  <2>3. content \in Seq(P) /\ promise \in Seq(P)
    <3>1. Thinking \in P /\ Instructions \in P /\ Promise \in P
      OBVIOUS
    <3> HIDE DEF P
    <3>2. << >> \in Seq(P) /\ <<Thinking>> \in Seq(P) /\ <<Instructions>> \in Seq(P)
      BY <3>1
    <3>3. <<Thinking, Instructions>> \in Seq(P) /\ <<Promise>> \in Seq(P)
      BY <3>1
    <3>4. QED
      BY <1>2, <2>2, <3>2, <3>3
  <2>4. content \in Seq(Nat) /\ promise \in Seq(Nat)
    BY <2>1, <2>3, SeqMonotonic
  <2>5. << >> \in Seq(1 .. n) /\ << >> \in Seq(Calls(n))
    BY EmptySeq
  <2>6. PICK a, c : a = Kiro("user", content, << >>, << >>) /\ c = Kiro("assistant", promise, << >>, << >>)
    OBVIOUS
  <2>7. a \in Translated(n) /\ c \in Translated(n)
    BY <2>4, <2>5, <2>6 DEF Kiro, Translated
  <2>8. /\ a.role = "user" /\ a.content = content /\ a.uses = << >> /\ a.results = << >>
        /\ c.role = "assistant" /\ c.content = promise /\ c.uses = << >> /\ c.results = << >>
    BY <2>6 DEF Kiro
  <2>9. pair = <<a, c>>
    BY <1>2, <2>2, <2>6
  <2> HIDE DEF P
  <2>10. pair \in Seq(Translated(n)) /\ Len(pair) = 2 /\ pair[1] = a /\ pair[2] = c
    BY <2>7, <2>9
  <2>11. Contents(pair) = content \o promise
    <3>1. PICK e, o : e = << >> /\ o = <<a>>
      OBVIOUS
    <3>2. e \in Seq(Translated(n)) /\ o = Append(e, a) /\ pair = Append(o, c) /\ o \in Seq(Translated(n))
      BY <2>7, <2>9, <3>1
    <3>3. Contents(o) = Contents(e) \o a.content
      BY <2>7, <3>2, ContentsParts
    <3>4. Contents(pair) = Contents(o) \o c.content
      BY <2>7, <3>2, ContentsParts
    <3>5. Contents(e) = << >>
      BY <3>1, <3>2, PartsJoined, JoinedNone
    <3>6. << >> \o content = content
      BY <2>4, ConcatEmptySeq
    <3>7. QED
      BY <2>8, <3>3, <3>4, <3>5, <3>6
  <2>12. Only(content \o promise, 1 .. MaxMessages) = << >>
    <3>1. PICK q : q = content \o promise
      OBVIOUS
    <3>2. q \in Seq(P)
      BY <2>3, <3>1, ConcatProperties
    <3>3. \A i \in 1 .. Len(q) : q[i] \notin 1 .. MaxMessages
      BY <2>1, <3>2, ElementOfSeq DEF P
    <3>4. QED
      BY <3>1, <3>2, <3>3, OnlyNone
  <2>13. QED
    BY <2>8, <2>10, <2>11, <2>12
<1>3. << >> \in Seq(Translated(n)) /\ Only(Contents(<< >>), 1 .. MaxMessages) = << >> /\ Len(<< >>) = 0
  BY EmptySeq, PartsJoined, JoinedNone, OnlyEmpty
<1>4. \/ SystemPair = << >>
      \/ \E content \in {<< >>, <<Thinking>>, <<Instructions>>, <<Thinking, Instructions>>} :
           SystemPair = <<Kiro("user", content, << >>, << >>),
                          Kiro("assistant", <<Promise>>, << >>, << >>)>>
  <2>1. /\ << >> \o <<Instructions>> = <<Instructions>>
        /\ <<Thinking>> \o <<Instructions>> = <<Thinking, Instructions>>
    <3>1. PICK P, t, i : P = {Thinking, Instructions} /\ t = <<Thinking>> /\ i = <<Instructions>>
      OBVIOUS
    <3>2. t \in Seq(P) /\ i \in Seq(P) /\ Instructions \in P
      BY <3>1
    <3>3. << >> \o i = i
      BY <3>2, ConcatEmptySeq
    <3>4. Append(t, Instructions) = t \o i
      BY <3>1, <3>2, AppendIsConcat
    <3>5. Append(t, Instructions) = <<Thinking, Instructions>>
      <4>1. PICK q, r : q = Append(t, Instructions) /\ r = <<Thinking, Instructions>>
        OBVIOUS
      <4>2. Len(t) = 1 /\ t[1] = Thinking
        BY <3>1
      <4>3. q \in Seq(P) /\ Len(q) = 2 /\ q[1] = Thinking /\ q[2] = Instructions
        <5>1. /\ q \in Seq(P) /\ Len(q) = Len(t) + 1
              /\ \A k \in 1 .. Len(t) : q[k] = t[k]
              /\ q[Len(t) + 1] = Instructions
          BY <3>2, <4>1, AppendProperties
        <5>2. QED
          BY <4>2, <5>1
      <4>4. Thinking \in P /\ Instructions \in P
        BY <3>1
      <4>5. r \in Seq(P) /\ Len(r) = 2 /\ r[1] = Thinking /\ r[2] = Instructions
        BY <4>1, <4>4
      <4>6. \A k \in 1 .. Len(q) : q[k] = r[k]
        BY <4>3, <4>5
      <4>7. QED
        BY <4>1, <4>3, <4>5, <4>6, SeqEqual
    <3>6. QED
      BY <3>1, <3>3, <3>4, <3>5
  <2>2. QED
    BY <2>1 DEF SystemPair
<1>5. CASE SystemPair = << >>
  BY <1>3, <1>5
<1>6. CASE SystemPair # << >>
  BY <1>2, <1>4, <1>6
<1>7. QED
  BY <1>5, <1>6

-----------------------------------------------------------------------------
(* What has been collected after some messages.                             *)

Start == [history |-> SystemPair, users |-> << >>, assistants |-> << >>]

LEMMA StartTypes ==
    ASSUME NEW n \in Nat
    PROVE  Start \in Buckets(n)
BY SystemPairIs, EmptySeq DEF Start, Buckets

\* An induction along build_history's loop
LEMMA CollectedInduction ==
    ASSUME NEW n \in Nat, NEW ms \in Seq(Messages(n)), ms # << >>,
           NEW U, <<Start, << >>>> \in U,
           \A b \in Buckets(n), pre \in Seq(Messages(n)), m \in Messages(n) :
              <<b, pre>> \in U => <<Collect(b, m), Append(pre, m)>> \in U
    PROVE  Collected(ms) \in Buckets(n) /\ <<Collected(ms), Front(ms)>> \in U
<1> DEFINE N == Len(ms) - 1
           Q == Buckets(n)
           step == [q \in Nat \X Q |-> IF q[1] + 1 \in 1 .. N THEN Collect(q[2], ms[q[1] + 1]) ELSE q[2]]
           Turns(g) == g = [i \in 0 .. N |-> IF i = 0 THEN Start ELSE Collect(g[i - 1], ms[i])]
           after == CHOOSE g : Turns(g)
<1>0. Len(ms) \in Nat /\ Len(ms) # 0
  BY LenProperties, EmptySeq
<1>1. N \in Nat /\ Start \in Q /\ \A i \in 1 .. N : ms[i] \in Messages(n) /\ i \in 1 .. Len(ms)
  BY <1>0, StartTypes, ElementOfSeq
<1>2. step \in [Nat \X Q -> Q]
  <2> HIDE DEF N
  <2>1. \A i \in 1 .. N, b \in Q : Collect(b, ms[i]) \in Q
    BY <1>1, CollectTypes
  <2> HIDE DEF Q
  <2>2. QED
    BY <2>1
<1>3. Solvable(N, Q, Start, step)
  <2> HIDE DEF N, step, Q
  <2>1. QED
    BY <1>1, <1>2, RecursionUpTo
<1>4. PICK g \in [0 .. N -> Q] : g[0] = Start /\ \A k \in 0 .. N - 1 : g[k + 1] = step[<<k, g[k]>>]
  <2> HIDE DEF N, step, Q
  <2>1. QED
    BY <1>3 DEF Solvable
<1>5. ASSUME NEW i \in 0 .. N, i # 0
      PROVE  g[i] = Collect(g[i - 1], ms[i])
  <2> HIDE DEF N, Q
  <2>1. i - 1 \in 0 .. N - 1 /\ i - 1 \in 0 .. N /\ (i - 1) + 1 = i /\ i - 1 \in Nat /\ i \in 1 .. N
    BY <1>1, <1>5
  <2> HIDE DEF step
  <2>2. g[i] = step[<<i - 1, g[i - 1]>>] /\ g[i - 1] \in Q
    BY <1>4, <2>1
  <2>3. QED
    BY <2>1, <2>2 DEF step
<1>6. Turns(g)
  <2> HIDE DEF N, Q
  <2>1. QED
    BY <1>1, <1>4, <1>5
<1>7. Turns(after)
  <2> HIDE DEF Turns
  <2>1. QED
    BY <1>6
<1>8. Collected(ms) = after[N]
  BY DEF Collected, Start
<1> HIDE DEF after
<1>9. after[0] = Start /\ \A i \in 1 .. N : after[i] = Collect(after[i - 1], ms[i])
  <2>1. 0 \in 0 .. N /\ \A i \in 1 .. N : i \in 0 .. N /\ i # 0
    BY <1>1
  <2> HIDE DEF N
  <2>2. QED
    BY <1>7, <2>1
<1> DEFINE V == {i \in 0 .. N : after[i] \in Q /\ <<after[i], SubSeq(ms, 1, i)>> \in U}
<1>10. 0 \in V
  <2>1. SubSeq(ms, 1, 0) = << >> /\ 0 \in 0 .. N
    BY <1>1, SubSeqEmpty
  <2> HIDE DEF N, Q
  <2>2. QED
    BY <1>1, <1>9, <2>1
<1>11. ASSUME NEW i \in 0 .. N - 1, i \in V
       PROVE  i + 1 \in V
  <2>1. PICK b, pre, m : b = after[i] /\ pre = SubSeq(ms, 1, i) /\ m = ms[i + 1]
    OBVIOUS
  <2>2. i + 1 \in 1 .. N /\ i + 1 \in 0 .. N /\ (i + 1) - 1 = i /\ i \in 0 .. Len(ms) - 1
    BY <1>1
  <2>3. pre \in Seq(Messages(n)) /\ m \in Messages(n) /\ SubSeq(ms, 1, i + 1) = Append(pre, m)
    BY <2>1, <2>2, OneLonger
  <2>4. after[i + 1] = Collect(b, m)
    <3> HIDE DEF N
    <3>1. QED
      BY <1>9, <2>1, <2>2
  <2>5. b \in Q /\ <<b, pre>> \in U
    BY <1>11, <2>1
  <2>6. Collect(b, m) \in Q /\ <<Collect(b, m), Append(pre, m)>> \in U
    BY <2>3, <2>5, CollectTypes
  <2> HIDE DEF N, Q
  <2>7. QED
    BY <2>2, <2>3, <2>4, <2>6
<1>12. \A i \in 0 .. N : i \in V
  <2> HIDE DEF V, N
  <2>1. QED
    BY <1>1, <1>10, <1>11, InductionUpTo
<1>13. N \in V
  <2>1. N \in 0 .. N
    BY <1>1
  <2>2. QED
    BY <1>12, <2>1
<1>14. Front(ms) = SubSeq(ms, 1, N)
  BY DEF Front
<1>15. QED
  BY <1>8, <1>13, <1>14

-----------------------------------------------------------------------------
(* What is said, and what of it is in the history.                          *)

Heard(n) == {m \in Messages(n) : m.role # "system"}

LEMMA SpokenIs ==
    ASSUME NEW n \in Nat, NEW ms \in Seq(Messages(n))
    PROVE  Spoken(ms) = Only(ms, Heard(n)) /\ Spoken(ms) \in Seq(Messages(n))
<1>1. \A i \in 1 .. Len(ms) : ms[i] \in {m \in ToSet(ms) : m.role # "system"} <=> ms[i] \in Heard(n)
  <2>1. \A i \in 1 .. Len(ms) : ms[i] \in ToSet(ms) /\ ms[i] \in Messages(n)
    BY ElementsOf, ElementOfSeq
  <2>2. QED
    BY <2>1 DEF Heard
<1>2. Spoken(ms) = Only(ms, Heard(n))
  BY <1>1, OnlySame DEF Spoken
<1>3. Only(ms, Heard(n)) \in Seq(Messages(n) \cap Heard(n)) /\ Messages(n) \cap Heard(n) \subseteq Messages(n)
  BY OnlyTypes
<1>4. Only(ms, Heard(n)) \in Seq(Messages(n))
  BY <1>3, SeqMonotonic
<1>5. QED
  BY <1>2, <1>4

LEMMA SpokenAppend ==
    ASSUME NEW n \in Nat, NEW ms \in Seq(Messages(n)), NEW m \in Messages(n)
    PROVE  Spoken(Append(ms, m)) = IF m.role = "system" THEN Spoken(ms) ELSE Append(Spoken(ms), m)
<1>1. Append(ms, m) \in Seq(Messages(n))
  BY AppendProperties
<1>2. Spoken(Append(ms, m)) = Only(Append(ms, m), Heard(n)) /\ Spoken(ms) = Only(ms, Heard(n))
  BY <1>1, SpokenIs
<1>3. Only(Append(ms, m), Heard(n)) = IF m \in Heard(n) THEN Append(Only(ms, Heard(n)), m) ELSE Only(ms, Heard(n))
  BY OnlyAppend
<1>4. m \in Heard(n) <=> m.role # "system"
  BY DEF Heard
<1>5. QED
  BY <1>2, <1>3, <1>4

LEMMA SpokenNone == Spoken(<< >>) = << >>
BY OnlyEmpty DEF Spoken

\* The client's own texts in a history.
Kept(h) == Only(Contents(h), 1 .. MaxMessages)

LEMMA KeptAppend ==
    ASSUME NEW n \in Nat, NEW h \in Seq(Translated(n)), NEW m \in Translated(n)
    PROVE  /\ Kept(h) \in Seq(1 .. MaxMessages)
           /\ Kept(Append(h, m)) = Kept(h) \o Only(m.content, 1 .. MaxMessages)
<1>1. PICK c, x : c = Contents(h) /\ x = m.content
  OBVIOUS
<1>2. c \in Seq(Nat) /\ x \in Seq(Nat) /\ Contents(Append(h, m)) = c \o x
  BY <1>1, ContentsParts DEF Translated
<1>3. Only(c \o x, 1 .. MaxMessages) = Only(c, 1 .. MaxMessages) \o Only(x, 1 .. MaxMessages)
  BY <1>2, OnlyConcat
<1>4. Only(c, 1 .. MaxMessages) \in Seq(1 .. MaxMessages)
  <2>1. Only(c, 1 .. MaxMessages) \in Seq(Nat \cap (1 .. MaxMessages))
    BY <1>2, OnlyTypes
  <2>2. Nat \cap (1 .. MaxMessages) \subseteq 1 .. MaxMessages
    OBVIOUS
  <2>3. QED
    BY <2>1, <2>2, SeqMonotonic
<1>5. QED
  BY <1>1, <1>2, <1>3, <1>4 DEF Kept

Apart(b) == b.users = << >> \/ b.assistants = << >>

\* Texts so far, whether flushed or still collected
Gathered(b) == Kept(b.history) \o Texts(IF b.users = << >> THEN b.assistants ELSE b.users)

LEMMA FlushKept ==
    ASSUME NEW n \in Nat, NEW b \in Buckets(n)
    PROVE  /\ Kept(FlushUsers(b)) = Kept(b.history) \o Texts(b.users)
           /\ Kept(FlushAssistants(b)) = Kept(b.history) \o Texts(b.assistants)
<1>1. PICK h, us, ans : h = b.history /\ us = b.users /\ ans = b.assistants
  OBVIOUS
<1>2. h \in Seq(Translated(n)) /\ us \in Seq(Messages(n)) /\ ans \in Seq(Messages(n))
  BY <1>1 DEF Buckets
<1>3. PICK u, a : u = merge_user_messages(us) /\ a = merge_assistant_messages(ans)
  OBVIOUS
<1>4. u \in Translated(n) /\ u.content = Texts(us)
  BY <1>2, <1>3, UsersMerged
<1>5. a \in Translated(n) /\ Only(a.content, 1 .. MaxMessages) = Texts(ans)
  BY <1>2, <1>3, AssistantsMerged
<1>6. Only(u.content, 1 .. MaxMessages) = Texts(us)
  <2>1. Texts(us) \in Seq(1 .. MaxMessages)
    BY <1>2, TextsParts
  <2>2. \A i \in 1 .. Len(Texts(us)) : Texts(us)[i] \in 1 .. MaxMessages
    BY <2>1, ElementOfSeq
  <2>3. QED
    BY <1>4, <2>1, <2>2, OnlyAll
<1>7. /\ Kept(Append(h, u)) = Kept(h) \o Only(u.content, 1 .. MaxMessages)
      /\ Kept(Append(h, a)) = Kept(h) \o Only(a.content, 1 .. MaxMessages)
      /\ Kept(h) \in Seq(1 .. MaxMessages)
  BY <1>2, <1>4, <1>5, KeptAppend
<1>8. Texts(<< >>) = << >> /\ Kept(h) \o << >> = Kept(h)
  <2>1. << >> \in Seq(Messages(n))
    BY EmptySeq
  <2>2. Texts(<< >>) = << >>
    BY <2>1, PartsJoined, JoinedNone
  <2>3. QED
    BY <1>7, <2>2, ConcatEmptySeq
<1>9. Kept(FlushUsers(b)) = Kept(h) \o Texts(us)
  <2>1. CASE us = << >>
    BY <1>1, <1>8, <2>1 DEF FlushUsers
  <2>2. CASE us # << >>
    BY <1>1, <1>3, <1>6, <1>7, <2>2 DEF FlushUsers
  <2>3. QED
    BY <2>1, <2>2
<1>10. Kept(FlushAssistants(b)) = Kept(h) \o Texts(ans)
  <2>1. CASE ans = << >>
    BY <1>1, <1>8, <2>1 DEF FlushAssistants
  <2>2. CASE ans # << >>
    BY <1>1, <1>3, <1>5, <1>7, <2>2 DEF FlushAssistants
  <2>3. QED
    BY <2>1, <2>2
<1>11. QED
  BY <1>1, <1>9, <1>10

LEMMA CollectGathers ==
    ASSUME NEW n \in Nat, NEW b \in Buckets(n), NEW m \in Messages(n), Apart(b)
    PROVE  /\ Apart(Collect(b, m))
           /\ Gathered(Collect(b, m)) = IF m.role = "system" THEN Gathered(b) ELSE Gathered(b) \o Text(m)
<1>1. PICK h, us, ans : h = b.history /\ us = b.users /\ ans = b.assistants
  OBVIOUS
<1>2. h \in Seq(Translated(n)) /\ us \in Seq(Messages(n)) /\ ans \in Seq(Messages(n))
  BY <1>1 DEF Buckets
<1>3. PICK k, t : k = Kept(h) /\ t = Text(m)
  OBVIOUS
<1>4. k \in Seq(1 .. MaxMessages) /\ t \in Seq(1 .. MaxMessages)
  <2>1. k \in Seq(1 .. MaxMessages)
    BY <1>2, <1>3, KeptAppend, SystemPairIs, FlushTypes DEF Kept
  <2>2. t \in Seq(1 .. MaxMessages)
    BY <1>3, TextTypes DEF Images, TextOf
  <2>3. QED
    BY <2>1, <2>2
<1>5. PICK tu, ta : tu = Texts(us) /\ ta = Texts(ans)
  OBVIOUS
<1>6. /\ tu \in Seq(1 .. MaxMessages) /\ ta \in Seq(1 .. MaxMessages)
      /\ Texts(Append(us, m)) = tu \o t /\ Texts(Append(ans, m)) = ta \o t
  BY <1>2, <1>3, <1>5, TextsParts
<1>7. Kept(FlushUsers(b)) = k \o tu /\ Kept(FlushAssistants(b)) = k \o ta
  BY <1>1, <1>3, <1>5, FlushKept
<1>8. Append(us, m) # << >> /\ Append(ans, m) # << >>
  <2>1. Append(us, m) # << >>
    BY <1>2, AppendProperties
  <2>2. Append(ans, m) # << >>
    BY <1>2, AppendProperties
  <2>3. QED
    BY <2>1, <2>2
<1>9. /\ (k \o tu) \o t = k \o (tu \o t) /\ (k \o ta) \o t = k \o (ta \o t)
  <2>1. /\ k \in Seq(1 .. MaxMessages) /\ t \in Seq(1 .. MaxMessages)
        /\ tu \in Seq(1 .. MaxMessages) /\ ta \in Seq(1 .. MaxMessages)
    BY <1>4, <1>6
  <2>2. (k \o tu) \o t = k \o (tu \o t)
    BY <2>1, ConcatAssociative, SMTT(30)
  <2>3. (k \o ta) \o t = k \o (ta \o t)
    BY <2>1, ConcatAssociative, SMTT(30)
  <2>4. QED
    BY <2>2, <2>3
<1>10. Texts(<< >>) = << >>
  <2>1. << >> \in Seq(Messages(n))
    BY EmptySeq
  <2>2. QED
    BY <2>1, PartsJoined, JoinedNone
<1>11. t = << >> \o t
  BY <1>4, ConcatEmptySeq
<1>12. CASE m.role = "user"
  <2>1. PICK c : c = Collect(b, m)
    OBVIOUS
  <2>2. c.history = FlushAssistants(b) /\ c.users = Append(us, m) /\ c.assistants = << >>
    BY <1>1, <1>12, <2>1 DEF Collect
  <2>3. Gathered(c) = (k \o ta) \o (tu \o t)
    BY <1>6, <1>7, <1>8, <2>2 DEF Gathered
  <2>4. CASE us = << >>
    <3>1. tu = << >> /\ Gathered(b) = k \o ta
      BY <1>1, <1>3, <1>5, <1>10, <2>4 DEF Gathered
    <3>2. Gathered(c) = (k \o ta) \o t
      BY <1>11, <2>3, <3>1
    <3>3. QED
      BY <1>3, <1>12, <2>1, <2>2, <3>1, <3>2 DEF Apart
  <2>5. CASE us # << >>
    <3>1. ans = << >> /\ ta = << >> /\ Gathered(b) = k \o tu
      BY <1>1, <1>3, <1>5, <1>10, <2>5 DEF Gathered, Apart
    <3>2. k \o ta = k
      BY <1>4, <3>1, ConcatEmptySeq
    <3>3. Gathered(c) = (k \o tu) \o t
      BY <1>9, <2>3, <3>2
    <3>4. QED
      BY <1>3, <1>12, <2>1, <2>2, <3>1, <3>3 DEF Apart
  <2>6. QED
    BY <2>4, <2>5
<1>13. CASE m.role = "assistant"
  <2>1. PICK c : c = Collect(b, m)
    OBVIOUS
  <2>2. c.history = FlushUsers(b) /\ c.users = << >> /\ c.assistants = Append(ans, m)
    BY <1>1, <1>13, <2>1 DEF Collect
  <2>3. Gathered(c) = (k \o tu) \o (ta \o t)
    BY <1>6, <1>7, <2>2 DEF Gathered
  <2>4. CASE us = << >>
    <3>1. tu = << >> /\ Gathered(b) = k \o ta
      BY <1>1, <1>3, <1>5, <1>10, <2>4 DEF Gathered
    <3>2. k \o tu = k
      BY <1>4, <3>1, ConcatEmptySeq
    <3>3. Gathered(c) = (k \o ta) \o t
      BY <1>9, <2>3, <3>2
    <3>4. QED
      BY <1>3, <1>13, <2>1, <2>2, <3>1, <3>3 DEF Apart
  <2>5. CASE us # << >>
    <3>1. ans = << >> /\ ta = << >> /\ Gathered(b) = k \o tu
      BY <1>1, <1>3, <1>5, <1>10, <2>5 DEF Gathered, Apart
    <3>2. Gathered(c) = (k \o tu) \o t
      BY <1>11, <2>3, <3>1
    <3>3. QED
      BY <1>3, <1>13, <2>1, <2>2, <3>1, <3>2 DEF Apart
  <2>6. QED
    BY <2>4, <2>5
<1>14. CASE m.role = "system"
  BY <1>14 DEF Collect
<1>15. QED
  BY <1>12, <1>13, <1>14 DEF Messages

\* The loop neither loses nor repeats a text.
LEMMA CollectedTexts ==
    ASSUME NEW n \in Nat, NEW ms \in Seq(Messages(n)), ms # << >>
    PROVE  Apart(Collected(ms)) /\ Gathered(Collected(ms)) = Texts(Spoken(Front(ms)))
<1> DEFINE U == {q \in Buckets(n) \X Seq(Messages(n)) :
                    Apart(q[1]) /\ Gathered(q[1]) = Texts(Spoken(q[2]))}
<1>1. <<Start, << >>>> \in U
  <2>1. Start \in Buckets(n) /\ << >> \in Seq(Messages(n)) /\ << >> \in Seq(1 .. MaxMessages)
    BY StartTypes, EmptySeq
  <2>2. Kept(SystemPair) = << >>
    BY SystemPairIs DEF Kept
  <2>3. Texts(<< >>) = << >>
    BY <2>1, PartsJoined, JoinedNone
  <2>4. << >> \o << >> = << >>
    BY <2>1, ConcatEmptySeq
  <2>5. Apart(Start) /\ Gathered(Start) = Texts(Spoken(<< >>))
    BY <2>2, <2>3, <2>4, SpokenNone DEF Apart, Gathered, Start
  <2>6. QED
    BY <2>1, <2>5
<1>2. ASSUME NEW b \in Buckets(n), NEW pre \in Seq(Messages(n)), NEW m \in Messages(n), <<b, pre>> \in U
      PROVE  <<Collect(b, m), Append(pre, m)>> \in U
  <2>1. Apart(b) /\ Gathered(b) = Texts(Spoken(pre))
    BY <1>2
  <2>2. Collect(b, m) \in Buckets(n) /\ Append(pre, m) \in Seq(Messages(n)) /\ Spoken(pre) \in Seq(Messages(n))
    BY CollectTypes, AppendProperties, SpokenIs
  <2>3. /\ Apart(Collect(b, m))
        /\ Gathered(Collect(b, m)) = IF m.role = "system" THEN Gathered(b) ELSE Gathered(b) \o Text(m)
    BY <2>1, CollectGathers
  <2>4. Spoken(Append(pre, m)) = IF m.role = "system" THEN Spoken(pre) ELSE Append(Spoken(pre), m)
    BY SpokenAppend
  <2>5. Texts(Append(Spoken(pre), m)) = Texts(Spoken(pre)) \o Text(m)
    BY <2>2, TextsParts
  <2>6. Gathered(Collect(b, m)) = Texts(Spoken(Append(pre, m)))
    BY <2>1, <2>3, <2>4, <2>5
  <2>7. QED
    BY <2>2, <2>3, <2>6
<1>3. <<Collected(ms), Front(ms)>> \in U
  <2> HIDE DEF U
  <2>1. QED
    BY <1>1, <1>2, CollectedInduction
<1>4. QED
  BY <1>3

-----------------------------------------------------------------------------
(* The tools in the history, and the roles.                                 *)

LEMMA UsesAppend ==
    ASSUME NEW n \in Nat, NEW T, T = Messages(n) \/ T = Translated(n), NEW ms \in Seq(T), NEW m \in T
    PROVE  /\ ToSet(Uses(Append(ms, m))) = ToSet(Uses(ms)) \cup ToSet(m.uses)
           /\ ToSet(Results(Append(ms, m))) = ToSet(Results(ms)) \cup ToSet(m.results)
<1>1. PICK a : a = Append(ms, m)
  OBVIOUS
<1>2. a \in Seq(T) /\ ToSet(a) = ToSet(ms) \cup {m}
  BY <1>1, AppendProperties, ElementsOfAppend
<1>3. /\ ToSet(Uses(ms)) = UNION {ToSet(x.uses) : x \in ToSet(ms)}
      /\ ToSet(Results(ms)) = UNION {ToSet(x.results) : x \in ToSet(ms)}
  BY UsesParts
<1>4. /\ ToSet(Uses(a)) = UNION {ToSet(x.uses) : x \in ToSet(a)}
      /\ ToSet(Results(a)) = UNION {ToSet(x.results) : x \in ToSet(a)}
  BY <1>2, UsesParts
<1>5. \A y : y \in ToSet(Uses(a)) <=> y \in ToSet(Uses(ms)) \/ y \in ToSet(m.uses)
  <2> TAKE y
  <2>1. y \in ToSet(Uses(a)) <=> \E x \in ToSet(a) : y \in ToSet(x.uses)
    BY <1>4
  <2>2. y \in ToSet(Uses(ms)) <=> \E x \in ToSet(ms) : y \in ToSet(x.uses)
    BY <1>3
  <2>3. QED
    BY <1>2, <2>1, <2>2
<1>6. \A y : y \in ToSet(Results(a)) <=> y \in ToSet(Results(ms)) \/ y \in ToSet(m.results)
  <2> TAKE y
  <2>1. y \in ToSet(Results(a)) <=> \E x \in ToSet(a) : y \in ToSet(x.results)
    BY <1>4
  <2>2. y \in ToSet(Results(ms)) <=> \E x \in ToSet(ms) : y \in ToSet(x.results)
    BY <1>3
  <2>3. QED
    BY <1>2, <2>1, <2>2
<1>7. QED
  BY <1>1, <1>5, <1>6

\* Every tool in a history is one that some messages use, under its shorter name.
Known(history, ms) ==
    \A u \in ToSet(Uses(history)) : \E v \in ToSet(Uses(ms)) : u.name = map_tool_name(v.name)
Named(b, pre) ==
    Known(b.history, pre) /\ ToSet(b.users) \subseteq ToSet(pre) /\ ToSet(b.assistants) \subseteq ToSet(pre)

LEMMA FlushKnown ==
    ASSUME NEW n \in Nat, NEW b \in Buckets(n), NEW pre \in Seq(Messages(n)), Named(b, pre)
    PROVE  Known(FlushUsers(b), pre) /\ Known(FlushAssistants(b), pre)
<1>1. PICK h, us, ans : h = b.history /\ us = b.users /\ ans = b.assistants
  OBVIOUS
<1>2. h \in Seq(Translated(n)) /\ us \in Seq(Messages(n)) /\ ans \in Seq(Messages(n))
  BY <1>1 DEF Buckets
<1>3. PICK u, a : u = merge_user_messages(us) /\ a = merge_assistant_messages(ans)
  OBVIOUS
<1>4. u \in Translated(n) /\ u.uses = << >>
  BY <1>2, <1>3, UsersMerged
<1>5. /\ a \in Translated(n)
      /\ \A x \in ToSet(a.uses) : \E v \in ToSet(Uses(ans)) : x.name = map_tool_name(v.name)
  BY <1>2, <1>3, AssistantsMerged
<1>6. ToSet(Uses(ans)) \subseteq ToSet(Uses(pre))
  <2>1. ToSet(ans) \subseteq ToSet(pre)
    BY <1>1 DEF Named
  <2>2. ToSet(Uses(ans)) = UNION {ToSet(m.uses) : m \in ToSet(ans)}
    BY <1>2, UsesParts
  <2>3. ToSet(Uses(pre)) = UNION {ToSet(m.uses) : m \in ToSet(pre)}
    BY UsesParts
  <2>4. QED
    BY <2>1, <2>2, <2>3
<1>7. Known(h, pre)
  BY <1>1 DEF Named
<1>8. Known(Append(h, u), pre)
  <2>1. ToSet(Uses(Append(h, u))) = ToSet(Uses(h)) \cup ToSet(u.uses)
    BY <1>2, <1>4, UsesAppend
  <2>2. QED
    BY <1>4, <1>7, <2>1, NoElements DEF Known
<1>9. Known(Append(h, a), pre)
  <2>1. ToSet(Uses(Append(h, a))) = ToSet(Uses(h)) \cup ToSet(a.uses)
    BY <1>2, <1>5, UsesAppend, SMTT(30)
  <2>2. QED
    BY <1>5, <1>6, <1>7, <2>1 DEF Known
<1>10. QED
  BY <1>1, <1>3, <1>7, <1>8, <1>9 DEF FlushUsers, FlushAssistants

LEMMA CollectNames ==
    ASSUME NEW n \in Nat, NEW b \in Buckets(n), NEW pre \in Seq(Messages(n)), NEW m \in Messages(n),
           Named(b, pre)
    PROVE  Named(Collect(b, m), Append(pre, m))
<1>1. ToSet(Append(pre, m)) = ToSet(pre) \cup {m} /\ Append(pre, m) \in Seq(Messages(n))
  BY ElementsOfAppend, AppendProperties
<1>2. ToSet(Uses(Append(pre, m))) = ToSet(Uses(pre)) \cup ToSet(m.uses)
  BY UsesAppend
<1>3. \A h : Known(h, pre) => Known(h, Append(pre, m))
  BY <1>2 DEF Known
<1>4. Known(FlushUsers(b), pre) /\ Known(FlushAssistants(b), pre) /\ Known(b.history, pre)
  BY FlushKnown DEF Named
<1>5. b.users \in Seq(Messages(n)) /\ b.assistants \in Seq(Messages(n))
  BY DEF Buckets
<1>6. /\ ToSet(Append(b.users, m)) = ToSet(b.users) \cup {m}
      /\ ToSet(Append(b.assistants, m)) = ToSet(b.assistants) \cup {m}
  BY <1>5, ElementsOfAppend
<1>7. ToSet(b.users) \subseteq ToSet(pre) /\ ToSet(b.assistants) \subseteq ToSet(pre)
  BY DEF Named
<1>8. CASE m.role = "user"
  <2>1. /\ Collect(b, m).history = FlushAssistants(b) /\ Collect(b, m).users = Append(b.users, m)
        /\ Collect(b, m).assistants = << >>
    BY <1>8 DEF Collect
  <2>2. QED
    BY <1>1, <1>3, <1>4, <1>6, <1>7, <2>1, NoElements DEF Named
<1>9. CASE m.role = "assistant"
  <2>1. /\ Collect(b, m).history = FlushUsers(b) /\ Collect(b, m).users = << >>
        /\ Collect(b, m).assistants = Append(b.assistants, m)
    BY <1>9 DEF Collect
  <2>2. QED
    BY <1>1, <1>3, <1>4, <1>6, <1>7, <2>1, NoElements DEF Named
<1>10. CASE m.role = "system"
  <2>1. Collect(b, m) = b
    BY <1>10 DEF Collect
  <2>2. QED
    BY <1>1, <1>3, <1>4, <1>7, <2>1 DEF Named
<1>11. QED
  BY <1>8, <1>9, <1>10 DEF Messages

LEMMA CollectedNames ==
    ASSUME NEW n \in Nat, NEW ms \in Seq(Messages(n)), ms # << >>
    PROVE  Named(Collected(ms), Front(ms))
<1> DEFINE U == {q \in Buckets(n) \X Seq(Messages(n)) : Named(q[1], q[2])}
<1>1. <<Start, << >>>> \in U
  <2>1. Start \in Buckets(n) /\ << >> \in Seq(Messages(n))
    BY StartTypes, EmptySeq
  <2>2. ToSet(Uses(SystemPair)) = {}
    <3>1. SystemPair \in Seq(Translated(n)) /\ \A i \in 1 .. Len(SystemPair) : SystemPair[i].uses = << >>
      BY SystemPairIs
    <3>2. \A m \in ToSet(SystemPair) : m.uses = << >>
      BY <3>1, ElementsOf
    <3>3. ToSet(Uses(SystemPair)) = UNION {ToSet(m.uses) : m \in ToSet(SystemPair)}
      BY <3>1, UsesParts
    <3>4. QED
      BY <3>2, <3>3, NoElements
  <2>3. Named(Start, << >>)
    BY <2>2 DEF Named, Known, Start
  <2>4. QED
    BY <2>1, <2>3
<1>2. ASSUME NEW b \in Buckets(n), NEW pre \in Seq(Messages(n)), NEW m \in Messages(n), <<b, pre>> \in U
      PROVE  <<Collect(b, m), Append(pre, m)>> \in U
  <2>1. Collect(b, m) \in Buckets(n) /\ Append(pre, m) \in Seq(Messages(n))
    BY CollectTypes, AppendProperties
  <2>2. Named(Collect(b, m), Append(pre, m))
    BY <1>2, CollectNames
  <2>3. QED
    BY <2>1, <2>2
<1>3. <<Collected(ms), Front(ms)>> \in U
  <2> HIDE DEF U
  <2>1. QED
    BY <1>1, <1>2, CollectedInduction
<1>4. QED
  BY <1>3

Alternates(h) == \A i \in 1 .. Len(h) - 1 : h[i].role # h[i + 1].role

LEMMA AlternatesAppend ==
    ASSUME NEW T, NEW h \in Seq(T), NEW m \in T
    PROVE  /\ Append(h, m) # << >> /\ Last(Append(h, m)) = m
           /\ Alternates(h) /\ (h = << >> \/ Last(h).role # m.role) => Alternates(Append(h, m))
<1>1. PICK a : a = Append(h, m)
  OBVIOUS
<1>2. /\ a # << >> /\ Len(a) = Len(h) + 1 /\ Len(h) \in Nat
      /\ \A i \in 1 .. Len(h) : a[i] = h[i]
      /\ a[Len(h) + 1] = m
  BY <1>1, AppendProperties, LenProperties
<1>3. Last(a) = m
  BY <1>2 DEF Last
<1>4. ASSUME Alternates(h), h = << >> \/ Last(h).role # m.role, NEW i \in 1 .. Len(a) - 1
      PROVE  a[i].role # a[i + 1].role
  <2>1. i \in 1 .. Len(h)
    BY <1>2
  <2>2. CASE i = Len(h)
    <3>1. h # << >>
      BY <2>1, <2>2, EmptySeq
    <3>2. a[i] = Last(h) /\ a[i + 1] = m
      BY <1>2, <2>1, <2>2 DEF Last
    <3>3. QED
      BY <1>4, <3>1, <3>2
  <2>3. CASE i # Len(h)
    <3>1. i \in 1 .. Len(h) - 1 /\ i + 1 \in 1 .. Len(h)
      BY <1>2, <2>1, <2>3
    <3>2. QED
      BY <1>2, <1>4, <2>1, <3>1 DEF Alternates
  <2>4. QED
    BY <2>2, <2>3
<1>5. QED
  BY <1>1, <1>2, <1>3, <1>4 DEF Alternates

UserFirst(ms) == Spoken(ms) # << >> => Spoken(ms)[1].role = "user"
EndsAnswered(h) == h = << >> \/ Last(h).role = "assistant"
EndsAsked(h) == h # << >> /\ Last(h).role = "user"

\* The history ends with the other role than what is being collected has.
Shaped(b, pre) ==
    /\ b.assistants = << >> => EndsAnswered(b.history)
    /\ (b.users = << >> /\ b.assistants = << >>) <=> Spoken(pre) = << >>
    /\ UserFirst(pre) => Alternates(b.history) /\ (b.assistants # << >> => EndsAsked(b.history))

LEMMA FlushShape ==
    ASSUME NEW n \in Nat, NEW b \in Buckets(n), NEW pre, Shaped(b, pre), Apart(b)
    PROVE  /\ EndsAnswered(FlushAssistants(b))
           /\ b.users # << >> => EndsAsked(FlushUsers(b))
           /\ UserFirst(pre) => Alternates(FlushUsers(b)) /\ Alternates(FlushAssistants(b))
<1>1. PICK h, us, ans : h = b.history /\ us = b.users /\ ans = b.assistants
  OBVIOUS
<1>2. h \in Seq(Translated(n)) /\ us \in Seq(Messages(n)) /\ ans \in Seq(Messages(n))
  BY <1>1 DEF Buckets
<1>3. PICK u, a : u = merge_user_messages(us) /\ a = merge_assistant_messages(ans)
  OBVIOUS
<1>4. u \in Translated(n) /\ u.role = "user" /\ a \in Translated(n) /\ a.role = "assistant"
  BY <1>2, <1>3, UsersMerged, AssistantsMerged
<1>5. /\ Append(h, u) # << >> /\ Last(Append(h, u)) = u
      /\ Alternates(h) /\ (h = << >> \/ Last(h).role # u.role) => Alternates(Append(h, u))
  BY <1>2, <1>4, AlternatesAppend
<1>6. /\ Append(h, a) # << >> /\ Last(Append(h, a)) = a
      /\ Alternates(h) /\ (h = << >> \/ Last(h).role # a.role) => Alternates(Append(h, a))
  BY <1>2, <1>4, AlternatesAppend
<1>7. /\ FlushUsers(b) = IF us = << >> THEN h ELSE Append(h, u)
      /\ FlushAssistants(b) = IF ans = << >> THEN h ELSE Append(h, a)
  BY <1>1, <1>3 DEF FlushUsers, FlushAssistants
<1>8. /\ ans = << >> => EndsAnswered(h)
      /\ UserFirst(pre) => Alternates(h) /\ (ans # << >> => EndsAsked(h))
      /\ us = << >> \/ ans = << >>
  BY <1>1 DEF Shaped, Apart
<1>9. EndsAnswered(FlushAssistants(b))
  BY <1>4, <1>6, <1>7, <1>8 DEF EndsAnswered
<1>10. us # << >> => EndsAsked(FlushUsers(b))
  BY <1>4, <1>5, <1>7 DEF EndsAsked
<1>11. ASSUME UserFirst(pre)
       PROVE  Alternates(FlushUsers(b)) /\ Alternates(FlushAssistants(b))
  <2>1. Alternates(h) /\ (ans # << >> => EndsAsked(h))
    BY <1>8, <1>11
  <2>2. Alternates(FlushUsers(b))
    BY <1>4, <1>5, <1>7, <1>8, <2>1 DEF EndsAnswered
  <2>3. Alternates(FlushAssistants(b))
    BY <1>4, <1>6, <1>7, <2>1 DEF EndsAsked
  <2>4. QED
    BY <2>2, <2>3
<1>12. QED
  BY <1>1, <1>9, <1>10, <1>11

LEMMA CollectShape ==
    ASSUME NEW n \in Nat, NEW b \in Buckets(n), NEW pre \in Seq(Messages(n)), NEW m \in Messages(n),
           Shaped(b, pre), Apart(b)
    PROVE  Shaped(Collect(b, m), Append(pre, m))
<1>1. PICK us, ans, c, p : us = b.users /\ ans = b.assistants /\ c = Collect(b, m) /\ p = Append(pre, m)
  OBVIOUS
<1>2. us \in Seq(Messages(n)) /\ ans \in Seq(Messages(n))
  BY <1>1 DEF Buckets
<1>3. /\ EndsAnswered(FlushAssistants(b))
      /\ us # << >> => EndsAsked(FlushUsers(b))
      /\ UserFirst(pre) => Alternates(FlushUsers(b)) /\ Alternates(FlushAssistants(b))
  BY <1>1, FlushShape
<1>4. /\ (us = << >> /\ ans = << >>) <=> Spoken(pre) = << >>
      /\ UserFirst(pre) /\ ans # << >> => EndsAsked(b.history)
  BY <1>1 DEF Shaped
<1>5. Append(us, m) # << >> /\ Append(ans, m) # << >>
  <2>1. us \in Seq(Messages(n)) => Append(us, m) # << >>
    BY AppendProperties
  <2>2. ans \in Seq(Messages(n)) => Append(ans, m) # << >>
    BY AppendProperties
  <2>3. QED
    BY <1>2, <2>1, <2>2
<1>6. Spoken(p) = IF m.role = "system" THEN Spoken(pre) ELSE Append(Spoken(pre), m)
  BY <1>1, SpokenAppend
<1>7. PICK s, t : s = Spoken(pre) /\ t = Append(Spoken(pre), m)
  OBVIOUS
<1>8. /\ t # << >> /\ (s # << >> => t[1] = s[1]) /\ (s = << >> => t[1] = m)
  <2>1. s \in Seq(Messages(n)) /\ t = Append(s, m)
    BY <1>7, SpokenIs
  <2>2. /\ t # << >> /\ \A i \in 1 .. Len(s) : t[i] = s[i]
        /\ t[Len(s) + 1] = m /\ Len(s) \in Nat
    BY <2>1, AppendProperties, LenProperties
  <2>3. s # << >> => 1 \in 1 .. Len(s)
    BY <2>1, EmptySeq
  <2>4. s = << >> => Len(s) = 0
    BY EmptySeq
  <2>5. QED
    BY <2>2, <2>3, <2>4
<1>9. CASE m.role = "user"
  <2>1. c.history = FlushAssistants(b) /\ c.users = Append(us, m) /\ c.assistants = << >>
    BY <1>1, <1>9 DEF Collect
  <2>2. Spoken(p) = t
    BY <1>6, <1>7, <1>9
  <2>3. UserFirst(p) => UserFirst(pre)
    BY <1>7, <1>8, <2>2 DEF UserFirst
  <2>4. QED
    BY <1>1, <1>3, <1>5, <1>8, <2>1, <2>2, <2>3 DEF Shaped
<1>10. CASE m.role = "assistant"
  <2>1. c.history = FlushUsers(b) /\ c.users = << >> /\ c.assistants = Append(ans, m)
    BY <1>1, <1>10 DEF Collect
  <2>2. Spoken(p) = t
    BY <1>6, <1>7, <1>10
  <2>3. UserFirst(p) => UserFirst(pre) /\ s # << >>
    BY <1>7, <1>8, <1>10, <2>2 DEF UserFirst
  <2>4. us = << >> => FlushUsers(b) = b.history
    BY <1>1 DEF FlushUsers
  <2>5. UserFirst(p) => Alternates(c.history) /\ EndsAsked(c.history)
    BY <1>3, <1>4, <1>7, <2>1, <2>3, <2>4
  <2>6. QED
    BY <1>1, <1>5, <1>8, <2>1, <2>2, <2>5 DEF Shaped
<1>11. CASE m.role = "system"
  <2>1. c = b /\ Spoken(p) = Spoken(pre)
    BY <1>1, <1>6, <1>11 DEF Collect
  <2>2. UserFirst(p) <=> UserFirst(pre)
    BY <2>1 DEF UserFirst
  <2>3. QED
    BY <1>1, <2>1, <2>2 DEF Shaped
<1>12. QED
  BY <1>9, <1>10, <1>11 DEF Messages

LEMMA CollectedShape ==
    ASSUME NEW n \in Nat, NEW ms \in Seq(Messages(n)), ms # << >>
    PROVE  Shaped(Collected(ms), Front(ms)) /\ Apart(Collected(ms))
<1> DEFINE U == {q \in Buckets(n) \X Seq(Messages(n)) : Shaped(q[1], q[2]) /\ Apart(q[1])}
<1>1. <<Start, << >>>> \in U
  <2>1. Start \in Buckets(n) /\ << >> \in Seq(Messages(n))
    BY StartTypes, EmptySeq
  <2>2. /\ SystemPair \in Seq(Translated(n))
        /\ \/ SystemPair = << >>
           \/ /\ Len(SystemPair) = 2
              /\ SystemPair[1].role = "user" /\ SystemPair[2].role = "assistant"
    BY SystemPairIs
  <2>3. EndsAnswered(SystemPair) /\ Alternates(SystemPair)
    <3>1. CASE SystemPair = << >>
      <4>1. Len(SystemPair) = 0
        BY <3>1, EmptySeq
      <4>2. QED
        BY <3>1, <4>1 DEF EndsAnswered, Alternates
    <3>2. CASE SystemPair # << >>
      BY <2>2, <3>2 DEF EndsAnswered, Alternates, Last
    <3>3. QED
      BY <3>1, <3>2
  <2>4. Shaped(Start, << >>) /\ Apart(Start)
    BY <2>3, SpokenNone DEF Shaped, Apart, Start
  <2>5. QED
    BY <2>1, <2>4
<1>2. ASSUME NEW b \in Buckets(n), NEW pre \in Seq(Messages(n)), NEW m \in Messages(n), <<b, pre>> \in U
      PROVE  <<Collect(b, m), Append(pre, m)>> \in U
  <2>1. Collect(b, m) \in Buckets(n) /\ Append(pre, m) \in Seq(Messages(n))
    BY CollectTypes, AppendProperties
  <2>2. Shaped(Collect(b, m), Append(pre, m)) /\ Apart(Collect(b, m))
    BY <1>2, CollectShape, CollectGathers
  <2>3. QED
    BY <2>1, <2>2
<1>3. <<Collected(ms), Front(ms)>> \in U
  <2> HIDE DEF U
  <2>1. QED
    BY <1>1, <1>2, CollectedInduction
<1>4. QED
  BY <1>3

\* The history that is built from messages of which the last is the current one.
LEMMA BuiltHistory ==
    ASSUME NEW n \in Nat, NEW ms \in Seq(Messages(n)), ms # << >>, NEW built, built = build_history(ms)
    PROVE  /\ built \in Seq(Translated(n))
           /\ Known(built, Front(ms))
           /\ Kept(built) = Texts(Spoken(Front(ms)))
           /\ EndsAnswered(built)
           /\ UserFirst(Front(ms)) => Alternates(built)
<1>1. PICK b, pre : b = Collected(ms) /\ pre = Front(ms)
  OBVIOUS
<1>2. b \in Buckets(n)
  <2> DEFINE U == Buckets(n) \X Seq(Messages(n))
  <2>1. <<Start, << >>>> \in U
    BY StartTypes, EmptySeq
  <2>2. \A c \in Buckets(n), p \in Seq(Messages(n)), m \in Messages(n) :
              <<c, p>> \in U => <<Collect(c, m), Append(p, m)>> \in U
    BY CollectTypes, AppendProperties
  <2> HIDE DEF U
  <2>3. QED
    BY <1>1, <2>1, <2>2, CollectedInduction
<1>3. pre \in Seq(Messages(n))
  <2>1. Len(ms) - 1 \in Int /\ \A i \in 1 .. Len(ms) - 1 : ms[i] \in Messages(n)
    BY LenProperties, ElementOfSeq
  <2>2. QED
    BY <1>1, <2>1, SubSeqProperties DEF Front
<1>4. Named(b, pre) /\ Shaped(b, pre) /\ Apart(b) /\ Gathered(b) = Texts(Spoken(pre))
  BY <1>1, CollectedNames, CollectedShape, CollectedTexts
<1>5. FlushUsers(b) \in Seq(Translated(n)) /\ FlushAssistants(b) \in Seq(Translated(n))
  BY <1>2, FlushTypes
<1>6. Known(FlushUsers(b), pre) /\ Known(FlushAssistants(b), pre)
  BY <1>2, <1>3, <1>4, FlushKnown
<1>7. /\ Kept(FlushUsers(b)) = Kept(b.history) \o Texts(b.users)
      /\ Kept(FlushAssistants(b)) = Kept(b.history) \o Texts(b.assistants)
  BY <1>2, FlushKept
<1>8. /\ EndsAnswered(FlushAssistants(b))
      /\ b.users # << >> => EndsAsked(FlushUsers(b))
      /\ UserFirst(pre) => Alternates(FlushUsers(b)) /\ Alternates(FlushAssistants(b))
  BY <1>2, <1>4, FlushShape
<1>9. CASE b.users = << >>
  <2>1. built = FlushAssistants(b)
    BY <1>1, <1>9 DEF build_history
  <2>2. Kept(built) = Texts(Spoken(pre))
    BY <1>4, <1>7, <1>9, <2>1 DEF Gathered
  <2>3. QED
    BY <1>1, <1>5, <1>6, <1>8, <2>1, <2>2
<1>10. CASE b.users # << >>
  <2>1. PICK h, okay, o : h = FlushUsers(b) /\ o = <<Okay>> /\ okay = Kiro("assistant", <<Okay>>, << >>, << >>)
    OBVIOUS
  <2>2. built = Append(h, okay)
    BY <1>1, <1>10, <2>1 DEF build_history
  <2>3. Okay \in Nat /\ Okay \notin 1 .. MaxMessages
    BY ConversionAssumption DEF Okay
  <2>4. o \in Seq(Nat) /\ Len(o) = 1 /\ o[1] = Okay
    BY <2>1, <2>3
  <2>5. << >> \in Seq(1 .. n) /\ << >> \in Seq(Calls(n))
    BY EmptySeq
  <2>6. okay = [role |-> "assistant", content |-> o, results |-> << >>, uses |-> << >>]
    BY <2>1 DEF Kiro
  <2>7. okay \in Translated(n) /\ okay.role = "assistant" /\ okay.content = o /\ okay.uses = << >>
    BY <2>4, <2>5, <2>6 DEF Translated
  <2>8. h \in Seq(Translated(n))
    BY <1>5, <2>1
  <2>9. built \in Seq(Translated(n))
    BY <2>2, <2>7, <2>8, AppendProperties
  <2>10. Known(built, pre)
    <3>1. ToSet(Uses(built)) = ToSet(Uses(h)) \cup ToSet(okay.uses)
      BY <2>2, <2>7, <2>8, UsesAppend
    <3>2. QED
      BY <1>6, <2>1, <2>7, <3>1, NoElements DEF Known
  <2>11. Kept(built) = Texts(Spoken(pre))
    <3>1. Only(o, 1 .. MaxMessages) = << >>
      <4>1. \A i \in 1 .. Len(o) : o[i] \notin 1 .. MaxMessages
        BY <2>3, <2>4
      <4>2. QED
        BY <2>4, <4>1, OnlyNone
    <3>2. Kept(h) \in Seq(1 .. MaxMessages) /\ Kept(built) = Kept(h) \o Only(okay.content, 1 .. MaxMessages)
      BY <2>2, <2>7, <2>8, KeptAppend
    <3>3. Kept(h) \o << >> = Kept(h)
      BY <3>2, ConcatEmptySeq
    <3>4. Kept(h) = Texts(Spoken(pre))
      BY <1>4, <1>7, <1>10, <2>1 DEF Gathered
    <3>5. QED
      BY <2>7, <3>1, <3>2, <3>3, <3>4
  <2>12. EndsAnswered(built) /\ (UserFirst(pre) => Alternates(built))
    <3>1. /\ built # << >> /\ Last(built) = okay
          /\ Alternates(h) /\ (h = << >> \/ Last(h).role # okay.role) => Alternates(built)
      BY <2>2, <2>7, <2>8, AlternatesAppend
    <3>2. Last(h).role = "user"
      BY <1>8, <1>10, <2>1 DEF EndsAsked
    <3>3. QED
      BY <1>8, <2>1, <2>7, <3>1, <3>2 DEF EndsAnswered
  <2>13. QED
    BY <1>1, <2>9, <2>10, <2>11, <2>12
<1>11. QED
  BY <1>9, <1>10

-----------------------------------------------------------------------------
(* The messages up to the current one, which is the last of the user.       *)

LEMMA FirstUserIs ==
    ASSUME NEW ms, Len(ms) \in Nat
    PROVE  /\ FirstUser(ms) \in 0 .. Len(ms)
           /\ FirstUser(ms) = 0 => \A i \in 1 .. Len(ms) : ms[i].role # "user"
           /\ FirstUser(ms) # 0 =>
                 /\ ms[FirstUser(ms)].role = "user"
                 /\ \A i \in 1 .. Len(ms) : ms[i].role = "user" => FirstUser(ms) <= i
<1> DEFINE I == {i \in 1 .. Len(ms) : ms[i].role = "user"}
           least == CHOOSE x \in I : \A y \in I : x =< y
<1>1. FirstUser(ms) = IF I # {} THEN least ELSE 0
  BY DEF FirstUser, SelectInSeq, Min
<1>2. ASSUME I # {}
      PROVE  least \in I /\ \A y \in I : least <= y
  <2>1. I \subseteq Nat
    OBVIOUS
  <2> HIDE DEF I
  <2>2. \E x \in I : \A y \in I : x <= y
    BY <1>2, <2>1, LeastOf
  <2>3. QED
    BY <2>2
<1> HIDE DEF least
<1>3. CASE I = {}
  BY <1>1, <1>3
<1>4. CASE I # {}
  BY <1>1, <1>2, <1>4
<1>5. QED
  BY <1>3, <1>4

LEMMA LastUserIs ==
    ASSUME NEW ms, Len(ms) \in Nat
    PROVE  /\ LastUser(ms) \in 0 .. Len(ms)
           /\ LastUser(ms) = 0 => \A i \in 1 .. Len(ms) : ms[i].role # "user"
           /\ LastUser(ms) # 0 =>
                 /\ ms[LastUser(ms)].role = "user"
                 /\ \A i \in 1 .. Len(ms) : ms[i].role = "user" => i <= LastUser(ms)
<1> DEFINE I == {i \in 1 .. Len(ms) : ms[i].role = "user"}
           greatest == CHOOSE x \in I : \A y \in I : x >= y
<1>1. LastUser(ms) = IF I # {} THEN greatest ELSE 0
  BY DEF LastUser, SelectLastInSeq, Max
<1>2. ASSUME I # {}
      PROVE  greatest \in I /\ \A y \in I : y <= greatest
  <2>1. I \subseteq 0 .. Len(ms)
    OBVIOUS
  <2> HIDE DEF I
  <2>2. PICK x \in I : \A y \in I : y <= x
    BY <1>2, <2>1, GreatestOf
  <2>3. \A y \in I : x >= y
    BY <2>1, <2>2
  <2>4. greatest \in I /\ \A y \in I : greatest >= y
    BY <2>3
  <2>5. QED
    BY <2>1, <2>4
<1> HIDE DEF greatest
<1>3. CASE I = {}
  BY <1>1, <1>3
<1>4. CASE I # {}
  BY <1>1, <1>2, <1>4
<1>5. QED
  BY <1>3, <1>4

\* All but the last message, and the last.
LEMMA FrontAndLast ==
    ASSUME NEW T, NEW s \in Seq(T), s # << >>
    PROVE  /\ Front(s) \in Seq(T) /\ Last(s) \in T /\ s = Append(Front(s), Last(s))
           /\ Len(Front(s)) = Len(s) - 1 /\ \A i \in 1 .. Len(s) - 1 : Front(s)[i] = s[i]
<1>1. Len(s) \in Nat /\ Len(s) # 0
  BY EmptySeq, LenProperties
<1>2. PICK n \in Nat : Len(s) = n + 1
  BY <1>1
<1>3. n \in 0 .. Len(s) - 1 /\ Len(s) - 1 = n
  BY <1>2
<1>4. /\ s[n + 1] \in T /\ SubSeq(s, 1, n) \in Seq(T)
      /\ SubSeq(s, 1, n + 1) = Append(SubSeq(s, 1, n), s[n + 1])
  BY <1>3, OneLonger
<1>5. SubSeq(s, 1, Len(s)) = s
  BY SubSeqFull
<1>6. \A i \in 1 .. n : s[i] \in T
  BY <1>2, ElementOfSeq
<1>7. Len(SubSeq(s, 1, n)) = n /\ \A i \in 1 .. n : SubSeq(s, 1, n)[i] = s[i]
  BY <1>2, <1>6, SubSeqProperties
<1>8. QED
  BY <1>2, <1>3, <1>4, <1>5, <1>7 DEF Front, Last

Begins(T, p, s) ==
    /\ p \in Seq(T) /\ \A i \in 1 .. Len(p) : p[i] = s[i]
    /\ ToSet(p) \subseteq ToSet(s)
    /\ \E rest \in Seq(T) : s = p \o rest

LEMMA PrefixIs ==
    ASSUME NEW T, NEW s \in Seq(T), NEW n \in 0 .. Len(s)
    PROVE  Begins(T, SubSeq(s, 1, n), s) /\ Len(SubSeq(s, 1, n)) = n
<1>0. PICK p : p = SubSeq(s, 1, n)
  OBVIOUS
<1>1. Len(s) \in Nat /\ n \in Int /\ \A i \in 1 .. n : s[i] \in T /\ i \in 1 .. Len(s)
  BY LenProperties, ElementOfSeq
<1>2. p \in Seq(T) /\ Len(p) = n /\ \A i \in 1 .. n : p[i] = s[i]
  BY <1>0, <1>1, SubSeqProperties
<1>3. ToSet(p) = {p[i] : i \in 1 .. n} /\ ToSet(s) = {s[i] : i \in 1 .. Len(s)}
  <2>1. ToSet(p) = {p[i] : i \in 1 .. Len(p)}
    <3>1. \A q \in Seq(T) : ToSet(q) = {q[i] : i \in 1 .. Len(q)}
      BY ElementsOf
    <3>2. QED
      BY <1>2, <3>1
  <2>2. ToSet(s) = {s[i] : i \in 1 .. Len(s)}
    BY ElementsOf
  <2>3. QED
    BY <1>2, <2>1, <2>2
<1>4. ToSet(p) \subseteq ToSet(s)
  BY <1>1, <1>2, <1>3
<1>5. SubSeq(s, n + 1, Len(s)) \in Seq(T)
  <2>1. n + 1 \in Int /\ Len(s) \in Int /\ \A i \in n + 1 .. Len(s) : s[i] \in T
    BY <1>1, ElementOfSeq
  <2>2. QED
    BY <2>1, SubSeqProperties
<1>6. SubSeq(s, 1, n) \o SubSeq(s, n + 1, Len(s)) = SubSeq(s, 1, Len(s))
  <2>1. 1 \in 1 .. Len(s) + 1 /\ n \in 1 - 1 .. Len(s) /\ Len(s) \in n .. Len(s)
    BY <1>1
  <2>2. QED
    BY <2>1, ConcatAdjacentSubSeq
<1>7. SubSeq(s, 1, Len(s)) = s
  BY SubSeqFull
<1>8. \E rest \in Seq(T) : s = p \o rest
  BY <1>0, <1>5, <1>6, <1>7
<1>9. QED
  BY <1>0, <1>2, <1>4, <1>8 DEF Begins

\* The messages that are sent end with a message of the user.
LEMMA SentMessages ==
    ASSUME NEW n \in Nat, NEW all \in Seq(Messages(n)), LastUser(all) # 0,
           NEW ms, ms = SubSeq(all, 1, LastUser(all))
    PROVE  /\ ms \in Seq(Messages(n)) /\ ms # << >> /\ Len(ms) = LastUser(all)
           /\ ToSet(ms) \subseteq ToSet(all)
           /\ Front(ms) \in Seq(Messages(n)) /\ Last(ms) \in Messages(n) /\ ms = Append(Front(ms), Last(ms))
           /\ Last(ms).role = "user"
           /\ Begins(Messages(n), ms, all)
<1>1. Len(all) \in Nat
  BY LenProperties
<1>2. LastUser(all) \in 0 .. Len(all) /\ all[LastUser(all)].role = "user"
  BY <1>1, LastUserIs
<1>3. /\ ms \in Seq(Messages(n)) /\ Len(ms) = LastUser(all)
      /\ \A i \in 1 .. LastUser(all) : ms[i] = all[i]
      /\ ToSet(ms) \subseteq ToSet(all) /\ Begins(Messages(n), ms, all)
  <2>1. PICK k \in 0 .. Len(all) : k = LastUser(all)
    BY <1>2
  <2>2. Begins(Messages(n), SubSeq(all, 1, k), all) /\ Len(SubSeq(all, 1, k)) = k
    BY PrefixIs
  <2>3. QED
    BY <2>1, <2>2 DEF Begins
<1>4. ms # << >>
  BY <1>3, EmptySeq
<1>5. Front(ms) \in Seq(Messages(n)) /\ Last(ms) \in Messages(n) /\ ms = Append(Front(ms), Last(ms))
  BY <1>3, <1>4, FrontAndLast
<1>6. Last(ms) = all[LastUser(all)]
  <2>1. LastUser(all) \in 1 .. LastUser(all)
    BY <1>2
  <2>2. QED
    BY <1>3, <2>1 DEF Last
<1>7. QED
  BY <1>2, <1>3, <1>4, <1>5, <1>6

-----------------------------------------------------------------------------
(* Results that answer a tool use, and tool uses without a result.          *)

LEMMA ValidatedIs ==
    ASSUME NEW n \in Nat, NEW history, NEW results \in Seq(1 .. n), NEW kept,
           kept = Validated(history, results)
    PROVE  /\ kept \in Seq(1 .. n) /\ IsInjective(kept)
           /\ ToSet(kept) = ToSet(results) \cap Unpaired(history)
<1> DEFINE N == Len(results)
           open == Unpaired(history)
           Q == Seq(1 .. n)
           Keep(s, id) == IF id \in open \ ToSet(s) THEN Append(s, id) ELSE s
           step == [q \in Nat \X Q |-> IF q[1] + 1 \in 1 .. N THEN Keep(q[2], results[q[1] + 1]) ELSE q[2]]
           Turns(g) == g = [i \in 0 .. N |-> IF i = 0 THEN << >> ELSE Keep(g[i - 1], results[i])]
           after == CHOOSE g : Turns(g)
<1>1. N \in Nat /\ << >> \in Q /\ \A i \in 1 .. N : results[i] \in 1 .. n
  BY LenProperties, ElementOfSeq, EmptySeq
<1>2. step \in [Nat \X Q -> Q]
  <2> HIDE DEF N
  <2>1. \A i \in 1 .. N, s \in Q : Keep(s, results[i]) \in Q
    BY <1>1, AppendProperties
  <2> HIDE DEF Q, Keep
  <2>2. QED
    BY <2>1
<1>3. Solvable(N, Q, << >>, step)
  <2> HIDE DEF N, step, Q
  <2>1. QED
    BY <1>1, <1>2, RecursionUpTo
<1>4. PICK g \in [0 .. N -> Q] : g[0] = << >> /\ \A k \in 0 .. N - 1 : g[k + 1] = step[<<k, g[k]>>]
  <2> HIDE DEF N, step, Q
  <2>1. QED
    BY <1>3 DEF Solvable
<1>5. ASSUME NEW i \in 0 .. N, i # 0
      PROVE  g[i] = Keep(g[i - 1], results[i])
  <2> HIDE DEF N, Q, Keep
  <2>1. i - 1 \in 0 .. N - 1 /\ i - 1 \in 0 .. N /\ (i - 1) + 1 = i /\ i - 1 \in Nat /\ i \in 1 .. N
    BY <1>1, <1>5
  <2> HIDE DEF step
  <2>2. g[i] = step[<<i - 1, g[i - 1]>>] /\ g[i - 1] \in Q
    BY <1>4, <2>1
  <2>3. QED
    BY <2>1, <2>2 DEF step
<1>6. Turns(g)
  <2> HIDE DEF N, Q, Keep
  <2>1. QED
    BY <1>1, <1>4, <1>5
<1>7. Turns(after)
  <2> HIDE DEF Turns
  <2>1. QED
    BY <1>6
<1>8. kept = after[N]
  BY DEF Validated
<1> HIDE DEF after
<1>9. after[0] = << >> /\ \A i \in 1 .. N : after[i] = Keep(after[i - 1], results[i])
  <2>1. 0 \in 0 .. N /\ \A i \in 1 .. N : i \in 0 .. N /\ i # 0
    BY <1>1
  <2> HIDE DEF N, Keep
  <2>2. QED
    BY <1>7, <2>1
<1> DEFINE First(i) == {results[j] : j \in 1 .. i}
           V == {i \in 0 .. N : /\ after[i] \in Q /\ IsInjective(after[i])
                                /\ ToSet(after[i]) = First(i) \cap open}
<1>10. 0 \in V
  <2>1. IsInjective(<< >>)
    BY DEF IsInjective
  <2>2. First(0) = {}
    OBVIOUS
  <2> HIDE DEF N, Q, First
  <2>3. QED
    BY <1>1, <1>9, <2>1, <2>2, NoElements
<1>11. ASSUME NEW i \in 0 .. N - 1, i \in V
       PROVE  i + 1 \in V
  <2>1. PICK s, id, t : s = after[i] /\ id = results[i + 1] /\ t = after[i + 1]
    OBVIOUS
  <2>2. i + 1 \in 1 .. N /\ i + 1 \in 0 .. N /\ (i + 1) - 1 = i
    BY <1>1
  <2>3. s \in Q /\ IsInjective(s) /\ ToSet(s) = First(i) \cap open /\ id \in 1 .. n
    BY <1>1, <1>11, <2>1, <2>2
  <2>4. t = Keep(s, id)
    <3> HIDE DEF N, Keep
    <3>1. QED
      BY <1>9, <2>1, <2>2
  <2>5. First(i + 1) = First(i) \cup {id}
    BY <2>1
  <2>6. CASE id \in open \ ToSet(s)
    <3>1. t = Append(s, id)
      BY <2>4, <2>6
    <3>2. t \in Q /\ ToSet(t) = ToSet(s) \cup {id}
      <4>1. PICK R : R = 1 .. n
        OBVIOUS
      <4>2. s \in Seq(R) /\ id \in R
        BY <2>3, <4>1
      <4>3. Append(s, id) \in Seq(R)
        BY <4>2, AppendProperties
      <4>4. ToSet(Append(s, id)) = ToSet(s) \cup {id}
        BY <4>2, ElementsOfAppend
      <4>5. QED
        BY <3>1, <4>1, <4>3, <4>4
    <3>3. IsInjective(t)
      <4>1. /\ Len(s) \in Nat /\ Len(t) = Len(s) + 1 /\ DOMAIN t = 1 .. Len(t) /\ DOMAIN s = 1 .. Len(s)
            /\ \A j \in 1 .. Len(s) : t[j] = s[j]
            /\ t[Len(s) + 1] = id
        BY <2>3, <3>1, <3>2, AppendProperties, LenProperties
      <4>2. \A j \in 1 .. Len(s) : s[j] # id
        BY <2>3, <2>6, ElementsOf, SMTT(30)
      <4>3. SUFFICES ASSUME NEW a \in 1 .. Len(t), NEW b \in 1 .. Len(t), t[a] = t[b]
                     PROVE  a = b
        BY <4>1 DEF IsInjective
      <4>4. CASE a \in 1 .. Len(s) /\ b \in 1 .. Len(s)
        BY <2>3, <4>1, <4>3, <4>4 DEF IsInjective
      <4>5. CASE a \notin 1 .. Len(s) \/ b \notin 1 .. Len(s)
        BY <4>1, <4>2, <4>3, <4>5
      <4>6. QED
        BY <4>4, <4>5
    <3>4. ToSet(t) = First(i + 1) \cap open
      <4> HIDE DEF First, open
      <4>1. QED
        BY <2>3, <2>5, <2>6, <3>2
    <3>5. QED
      BY <2>1, <2>2, <3>2, <3>3, <3>4
  <2>7. CASE id \notin open \ ToSet(s)
    <3>1. t = s
      BY <2>4, <2>7
    <3>2. ToSet(t) = First(i + 1) \cap open
      <4> HIDE DEF First, open
      <4>1. QED
        BY <2>3, <2>5, <2>7, <3>1
    <3>3. QED
      BY <2>1, <2>2, <2>3, <3>1, <3>2
  <2>8. QED
    BY <2>6, <2>7
<1>12. N \in V
  <2> HIDE DEF V, N
  <2>1. \A k \in 0 .. N : k \in V
    BY <1>1, <1>10, <1>11, InductionUpTo
  <2>2. QED
    BY <1>1, <2>1
<1>13. ToSet(results) = First(N)
  BY ElementsOf
<1>14. QED
  <2> HIDE DEF First
  <2>1. QED
    BY <1>8, <1>12, <1>13

\* Only tool uses are taken out of the history.
LEMMA OrphansRemoved ==
    ASSUME NEW n \in Nat, NEW built \in Seq(Translated(n)), NEW orphaned,
           NEW history, history = remove_orphaned_tool_uses(built, orphaned)
    PROVE  /\ history \in Seq(Translated(n)) /\ Len(history) = Len(built)
           /\ \A i \in 1 .. Len(built) :
                 /\ history[i].role = built[i].role /\ history[i].content = built[i].content
                 /\ history[i].results = built[i].results
                 /\ ToSet(history[i].uses) = {u \in ToSet(built[i].uses) : u.id \notin orphaned}
<1>1. Len(built) \in Nat /\ DOMAIN built = 1 .. Len(built)
  BY LenProperties
<1> DEFINE Cut(m) == [m EXCEPT !.uses = Only(m.uses, {u \in ToSet(m.uses) : u.id \notin orphaned})]
<1>2. history = [i \in 1 .. Len(built) |-> Cut(built[i])]
  BY <1>1 DEF remove_orphaned_tool_uses
<1>3. ASSUME NEW m \in Translated(n)
      PROVE  /\ Cut(m) \in Translated(n) /\ Cut(m).role = m.role /\ Cut(m).content = m.content
             /\ Cut(m).results = m.results
             /\ ToSet(Cut(m).uses) = {u \in ToSet(m.uses) : u.id \notin orphaned}
  <2>1. PICK o, uses : uses = m.uses /\ o = Only(m.uses, {u \in ToSet(m.uses) : u.id \notin orphaned})
    OBVIOUS
  <2>2. uses \in Seq(Calls(n))
    BY <2>1 DEF Translated
  <2>3. o \in Seq(Calls(n) \cap {u \in ToSet(uses) : u.id \notin orphaned})
    BY <2>1, <2>2, OnlyTypes
  <2>4. o \in Seq(Calls(n))
    <3>1. Calls(n) \cap {u \in ToSet(uses) : u.id \notin orphaned} \subseteq Calls(n)
      OBVIOUS
    <3>2. QED
      BY <2>3, <3>1, SeqMonotonic
  <2>5. ToSet(o) = ToSet(uses) \cap {u \in ToSet(uses) : u.id \notin orphaned}
    BY <2>1, <2>2, ElementsOfOnly
  <2>6. Cut(m) = [m EXCEPT !.uses = o]
    BY <2>1
  <2>7. Cut(m) \in Translated(n) /\ Cut(m).uses = o /\ Cut(m).role = m.role /\ Cut(m).content = m.content
        /\ Cut(m).results = m.results
    <3> HIDE DEF Cut
    <3>1. QED
      BY <2>4, <2>6 DEF Translated
  <2>8. QED
    BY <2>1, <2>5, <2>7
<1>4. \A i \in 1 .. Len(built) : built[i] \in Translated(n)
  BY ElementOfSeq
<1> HIDE DEF Cut
<1>5. history \in Seq(Translated(n)) /\ Len(history) = Len(built)
  <2>1. history \in [1 .. Len(built) -> Translated(n)]
    BY <1>2, <1>3, <1>4
  <2>2. QED
    BY <1>1, <2>1
<1>6. QED
  BY <1>2, <1>3, <1>4, <1>5

-----------------------------------------------------------------------------
(* The request.                                                             *)

IsRequest(r, n) ==
    /\ r = [state |-> "sent", model |-> r.model, id |-> r.id, history |-> r.history,
            content |-> r.content, results |-> r.results, tools |-> r.tools, map |-> r.map]
    /\ r.history \in Seq(Translated(n)) /\ r.content \in Seq(1 .. MaxMessages)
    /\ r.results \in Seq(1 .. n)

\* The request that is made of the messages ms and of the history that is built of them.
MadeOf(r, ms, built) ==
    /\ r.model = map_model(asks.model)
    /\ r.id = stable_conversation_id(ms)
    /\ r.history = remove_orphaned_tool_uses(built, Orphaned(built, Last(ms).results))
    /\ r.content = Texts(<<Last(ms)>>)
    /\ r.results = Validated(built, Last(ms).results)
    /\ r.tools = {map_tool_name(t) : t \in tools} \cup
                 Placeholders(r.history, {map_tool_name(t) : t \in tools})
    /\ r.map = tool_name_map(ms)
    /\ r = [state |-> "sent", model |-> r.model, id |-> r.id, history |-> r.history,
            content |-> r.content, results |-> r.results, tools |-> r.tools, map |-> r.map]

Sends(all, r) ==
    /\ map_model(asks.model) # << >> /\ LastUser(all) # 0
    /\ \E ms, built : /\ ms = SubSeq(all, 1, LastUser(all)) /\ built = build_history(ms)
                      /\ MadeOf(r, ms, built)

LEMMA Converted ==
    ASSUME NEW all, NEW r, r = convert_request(all)
    PROVE  r = Refused \/ Sends(all, r)
<1>1. CASE map_model(asks.model) = << >> \/ LastUser(all) = 0
  BY <1>1 DEF convert_request
<1>2. CASE ~(map_model(asks.model) = << >> \/ LastUser(all) = 0)
  <2>1. PICK ms, built, results, history, declared :
           /\ ms = SubSeq(all, 1, LastUser(all)) /\ built = build_history(ms) /\ results = Last(ms).results
           /\ history = remove_orphaned_tool_uses(built, Orphaned(built, results))
           /\ declared = {map_tool_name(t) : t \in tools}
    OBVIOUS
  <2>2. r = [state   |-> "sent",
             model   |-> map_model(asks.model),
             id      |-> stable_conversation_id(ms),
             history |-> history,
             content |-> Texts(<<Last(ms)>>),
             results |-> Validated(built, results),
             tools   |-> declared \cup Placeholders(history, declared),
             map     |-> tool_name_map(ms)]
    BY <1>2, <2>1 DEF convert_request
  <2>3. /\ r.model = map_model(asks.model)
        /\ r.id = stable_conversation_id(ms)
        /\ r.history = history
        /\ r.content = Texts(<<Last(ms)>>)
        /\ r.results = Validated(built, results)
        /\ r.tools = declared \cup Placeholders(history, declared)
        /\ r.map = tool_name_map(ms)
    BY <2>2
  <2>4. MadeOf(r, ms, built)
    BY <2>1, <2>2, <2>3 DEF MadeOf
  <2>5. QED
    BY <1>2, <2>1, <2>4 DEF Sends
<1>3. QED
  BY <1>1, <1>2

\* Texts of one message.
LEMMA OneText ==
    ASSUME NEW n \in Nat, NEW m \in Messages(n)
    PROVE  Texts(<<m>>) = Text(m) /\ Text(m) \in Seq(1 .. MaxMessages)
<1>1. PICK e : e = << >>
  OBVIOUS
<1>2. e \in Seq(Messages(n)) /\ Append(e, m) = <<m>>
  BY <1>1
<1>3. Texts(Append(e, m)) = Texts(e) \o Text(m) /\ Texts(e) \in Seq(1 .. MaxMessages)
  BY <1>2, TextsParts
<1>4. Texts(e) = << >>
  <2>1. Texts(e) = Joined(TextOf(Messages(n)), e)
    BY <1>2, PartsJoined
  <2>2. QED
    BY <1>1, <2>1, JoinedNone
<1>5. Text(m) \in Seq(1 .. MaxMessages)
  BY TextTypes DEF Images, TextOf
<1>6. << >> \o Text(m) = Text(m)
  BY <1>5, ConcatEmptySeq
<1>7. QED
  BY <1>2, <1>3, <1>4, <1>5, <1>6

\* What is sent of a history that has been built, once tool uses have been taken out of it.
Trimmed(history, built, orphaned) ==
    /\ ToSet(Uses(history)) = {u \in ToSet(Uses(built)) : u.id \notin orphaned}
    /\ ToSet(Results(history)) = ToSet(Results(built))
    /\ Contents(history) = Contents(built)
    /\ Alternates(built) => Alternates(history)
    /\ EndsAnswered(built) => EndsAnswered(history)

LEMMA HistoryTrimmed ==
    ASSUME NEW n \in Nat, NEW built \in Seq(Translated(n)), NEW orphaned,
           NEW history, history = remove_orphaned_tool_uses(built, orphaned)
    PROVE  Trimmed(history, built, orphaned) /\ history \in Seq(Translated(n))
<1>1. /\ history \in Seq(Translated(n)) /\ Len(history) = Len(built)
      /\ \A i \in 1 .. Len(built) :
            /\ history[i].role = built[i].role /\ history[i].content = built[i].content
            /\ history[i].results = built[i].results
            /\ ToSet(history[i].uses) = {u \in ToSet(built[i].uses) : u.id \notin orphaned}
  BY OrphansRemoved
<1>2. DOMAIN history = 1 .. Len(built) /\ DOMAIN built = 1 .. Len(built) /\ Len(built) \in Nat
  BY <1>1, LenProperties
<1>3. Contents(history) = Contents(built)
  BY <1>1, <1>2 DEF Contents
<1>4. /\ ToSet(history) = {history[i] : i \in 1 .. Len(built)}
      /\ ToSet(built) = {built[i] : i \in 1 .. Len(built)}
  <2>1. \A h \in Seq(Translated(n)) : ToSet(h) = {h[i] : i \in 1 .. Len(h)}
    BY ElementsOf
  <2>2. QED
    BY <1>1, <2>1
<1>5. /\ ToSet(Uses(history)) = UNION {ToSet(m.uses) : m \in ToSet(history)}
      /\ ToSet(Results(history)) = UNION {ToSet(m.results) : m \in ToSet(history)}
  BY <1>1, UsesParts
<1>6. /\ ToSet(Uses(built)) = UNION {ToSet(m.uses) : m \in ToSet(built)}
      /\ ToSet(Results(built)) = UNION {ToSet(m.results) : m \in ToSet(built)}
  BY UsesParts
<1>7. \A u : u \in ToSet(Uses(history)) <=> u \in ToSet(Uses(built)) /\ u.id \notin orphaned
  <2> TAKE u
  <2>1. u \in ToSet(Uses(history)) <=> \E i \in 1 .. Len(built) : u \in ToSet(history[i].uses)
    BY <1>4, <1>5
  <2>2. u \in ToSet(Uses(built)) <=> \E i \in 1 .. Len(built) : u \in ToSet(built[i].uses)
    BY <1>4, <1>6
  <2>3. QED
    BY <1>1, <2>1, <2>2
<1>8. \A x : x \in ToSet(Results(history)) <=> x \in ToSet(Results(built))
  <2> TAKE x
  <2>1. x \in ToSet(Results(history)) <=> \E i \in 1 .. Len(built) : x \in ToSet(history[i].results)
    BY <1>4, <1>5
  <2>2. x \in ToSet(Results(built)) <=> \E i \in 1 .. Len(built) : x \in ToSet(built[i].results)
    BY <1>4, <1>6
  <2>3. QED
    BY <1>1, <2>1, <2>2
<1>9. Alternates(built) => Alternates(history)
  <2>1. \A i \in 1 .. Len(built) - 1 : i \in 1 .. Len(built) /\ i + 1 \in 1 .. Len(built)
    BY <1>2
  <2>2. QED
    BY <1>1, <2>1 DEF Alternates
<1>10. EndsAnswered(built) => EndsAnswered(history)
  <2>1. CASE Len(built) = 0
    BY <1>1, <2>1, EmptySeq DEF EndsAnswered
  <2>2. CASE Len(built) # 0
    <3>1. Len(built) \in 1 .. Len(built)
      BY <1>2, <2>2
    <3>2. built # << >> /\ Last(history).role = Last(built).role
      BY <1>1, <2>2, <3>1, EmptySeq DEF Last
    <3>3. QED
      BY <3>2 DEF EndsAnswered
  <2>3. QED
    BY <2>1, <2>2
<1>11. QED
  BY <1>1, <1>3, <1>7, <1>8, <1>9, <1>10 DEF Trimmed

-----------------------------------------------------------------------------
(* What each request that is sent fulfils.                                  *)

PairsUp(r) ==
    LET used == Ids(Uses(r.history))
        past == ToSet(Results(r.history))
    IN  /\ used \subseteq past \cup ToSet(r.results)
        /\ ToSet(r.results) \subseteq used \ past
        /\ IsInjective(r.results)

LEMMA RequestPairs ==
    ASSUME NEW n \in Nat, NEW all \in Seq(Messages(n)), NEW r, Sends(all, r)
    PROVE  PairsUp(r)
<1>1. PICK ms, built : /\ ms = SubSeq(all, 1, LastUser(all)) /\ built = build_history(ms)
                       /\ MadeOf(r, ms, built)
  BY DEF Sends
<1>2. ms \in Seq(Messages(n)) /\ ms # << >> /\ Last(ms) \in Messages(n)
  BY <1>1, SentMessages DEF Sends
<1>3. PICK results, orphaned : results = Last(ms).results /\ orphaned = Orphaned(built, results)
  OBVIOUS
<1>4. results \in Seq(1 .. n)
  BY <1>2, <1>3 DEF Messages
<1>5. built \in Seq(Translated(n))
  BY <1>1, <1>2, BuiltHistory
<1>6. r.history = remove_orphaned_tool_uses(built, orphaned) /\ r.results = Validated(built, results)
  BY <1>1, <1>3 DEF MadeOf
<1>7. Trimmed(r.history, built, orphaned)
  <2>1. PICK h : h = r.history
    OBVIOUS
  <2>2. QED
    BY <1>5, <1>6, <2>1, HistoryTrimmed
<1>8. PICK kept : kept = r.results
  OBVIOUS
<1>9. IsInjective(kept) /\ ToSet(kept) = ToSet(results) \cap Unpaired(built)
  BY <1>4, <1>6, <1>8, ValidatedIs
<1>10. orphaned = Unpaired(built) \ ToSet(results)
  BY <1>3 DEF Orphaned
<1>11. Unpaired(built) = {u.id : u \in ToSet(Uses(built))} \ ToSet(Results(built))
  BY DEF Unpaired, Ids
<1>12. Ids(Uses(r.history)) = {u.id : u \in ToSet(Uses(r.history))}
  BY DEF Ids
<1>13. Ids(Uses(r.history)) = {u.id : u \in ToSet(Uses(built))} \ orphaned
  BY <1>7, <1>12 DEF Trimmed
<1>14. ToSet(Results(r.history)) = ToSet(Results(built))
  BY <1>7 DEF Trimmed
<1>15. QED
  BY <1>8, <1>9, <1>10, <1>11, <1>13, <1>14 DEF PairsUp

ToldAll(r, all) ==
    Only(Contents(r.history) \o r.content, 1 .. MaxMessages) = Texts(Spoken(SubSeq(all, 1, LastUser(all))))

LEMMA RequestTells ==
    ASSUME NEW n \in Nat, NEW all \in Seq(Messages(n)), NEW r, Sends(all, r)
    PROVE  ToldAll(r, all)
<1>1. PICK ms, built : /\ ms = SubSeq(all, 1, LastUser(all)) /\ built = build_history(ms)
                       /\ MadeOf(r, ms, built)
  BY DEF Sends
<1>2. PICK pre, m : pre = Front(ms) /\ m = Last(ms)
  OBVIOUS
<1>3. /\ ms \in Seq(Messages(n)) /\ ms # << >> /\ pre \in Seq(Messages(n)) /\ m \in Messages(n)
      /\ ms = Append(pre, m) /\ m.role = "user"
  BY <1>1, <1>2, SentMessages DEF Sends
<1>4. built \in Seq(Translated(n)) /\ Kept(built) = Texts(Spoken(pre))
  BY <1>1, <1>2, <1>3, BuiltHistory
<1>5. PICK h, c : h = Contents(r.history) /\ c = r.content
  OBVIOUS
<1>6. h = Contents(built)
  <2>1. PICK g : g = r.history
    OBVIOUS
  <2>2. g = remove_orphaned_tool_uses(built, Orphaned(built, Last(ms).results))
    BY <1>1, <2>1 DEF MadeOf
  <2>3. Trimmed(g, built, Orphaned(built, Last(ms).results))
    BY <1>4, <2>2, HistoryTrimmed
  <2>4. QED
    BY <1>5, <2>1, <2>3 DEF Trimmed
<1>7. c = Text(m) /\ c \in Seq(1 .. MaxMessages)
  <2>1. c = Texts(<<m>>)
    BY <1>1, <1>2, <1>5 DEF MadeOf
  <2>2. QED
    BY <1>3, <2>1, OneText
<1>8. h \in Seq(Nat)
  BY <1>4, <1>6, ContentsParts
<1>9. Only(h \o c, 1 .. MaxMessages) = Only(h, 1 .. MaxMessages) \o Only(c, 1 .. MaxMessages)
  <2>1. c \in Seq(Nat)
    <3>1. 1 .. MaxMessages \subseteq Nat
      OBVIOUS
    <3>2. QED
      BY <1>7, <3>1, SeqMonotonic
  <2>2. QED
    BY <1>8, <2>1, OnlyConcat
<1>10. Only(c, 1 .. MaxMessages) = c
  <2>1. \A i \in 1 .. Len(c) : c[i] \in 1 .. MaxMessages
    BY <1>7, ElementOfSeq
  <2>2. QED
    BY <1>7, <2>1, OnlyAll
<1>11. Texts(Spoken(ms)) = Texts(Spoken(pre)) \o Text(m)
  <2>1. Spoken(ms) = Append(Spoken(pre), m)
    BY <1>3, SpokenAppend
  <2>2. Spoken(pre) \in Seq(Messages(n))
    BY <1>3, SpokenIs
  <2>3. QED
    BY <1>3, <2>1, <2>2, TextsParts
<1>12. QED
  BY <1>1, <1>4, <1>5, <1>6, <1>7, <1>9, <1>10, <1>11 DEF ToldAll, Kept

FormedWell(r, all) ==
    /\ \/ Spoken(all)[1].role = "assistant"
       \/ \A i \in 1..(Len(r.history) - 1) : r.history[i].role # r.history[i + 1].role
    /\ r.history # << >> => Last(r.history).role = "assistant"
    /\ \A t \in NamesOf(Uses(r.history)) : \E d \in r.tools : SameTool(t, d)
    /\ r.model \in ({"opus"} \X {"4-5", "4-6", "4-7"}) \cup ({"sonnet"} \X {"4-5", "4-6"})
                   \cup {<<"haiku", "4-5">>}

\* The user begins in what is heard of the messages before the current one, unless the assistant does in all.
LEMMA HeardFirst ==
    ASSUME NEW n \in Nat, NEW pre \in Seq(Messages(n)), NEW m \in Messages(n), NEW rest \in Seq(Messages(n)),
           NEW all, all = Append(pre, m) \o rest, Spoken(all)[1].role # "assistant"
    PROVE  UserFirst(pre)
<1>1. PICK t, s : t = Append(pre, m) /\ s = Spoken(pre)
  OBVIOUS
<1>2. t \in Seq(Messages(n)) /\ all = t \o rest /\ all \in Seq(Messages(n))
  BY <1>1, AppendProperties, ConcatProperties
<1>3. s \in Seq(Messages(n)) /\ s = Only(pre, Heard(n))
  BY <1>1, SpokenIs
<1>4. Spoken(all) = Spoken(t) \o Spoken(rest) /\ Spoken(t) \in Seq(Messages(n)) /\ Spoken(rest) \in Seq(Messages(n))
  <2>1. Only(t \o rest, Heard(n)) = Only(t, Heard(n)) \o Only(rest, Heard(n))
    BY <1>2, OnlyConcat
  <2>2. Spoken(all) = Only(all, Heard(n))
    BY <1>2, SpokenIs
  <2>3. Spoken(t) = Only(t, Heard(n)) /\ Spoken(t) \in Seq(Messages(n))
    BY <1>2, SpokenIs
  <2>4. Spoken(rest) = Only(rest, Heard(n)) /\ Spoken(rest) \in Seq(Messages(n))
    BY SpokenIs
  <2>5. QED
    BY <1>2, <2>1, <2>2, <2>3, <2>4
<1>5. ASSUME s # << >>
      PROVE  s[1].role = "user"
  <2>1. Len(s) \in Nat /\ 1 \in 1 .. Len(s)
    BY <1>3, <1>5, EmptySeq, LenProperties
  <2>2. Spoken(t)[1] = s[1] /\ 1 \in 1 .. Len(Spoken(t))
    <3>1. Spoken(t) = IF m.role = "system" THEN s ELSE Append(s, m)
      BY <1>1, SpokenAppend
    <3>2. Append(s, m)[1] = s[1] /\ Len(Append(s, m)) = Len(s) + 1
      BY <1>3, <2>1, AppendProperties
    <3>3. QED
      BY <2>1, <3>1, <3>2
  <2>3. Spoken(all)[1] = Spoken(t)[1]
    <3>1. PICK x, y : x = Spoken(t) /\ y = Spoken(rest)
      OBVIOUS
    <3>2. x \in Seq(Messages(n)) /\ y \in Seq(Messages(n)) /\ 1 \in 1 .. Len(x)
      BY <1>4, <2>2, <3>1
    <3>3. /\ Len(x) \in Nat /\ Len(y) \in Nat
          /\ \A i \in 1 .. Len(x) + Len(y) : (x \o y)[i] = IF i <= Len(x) THEN x[i] ELSE y[i - Len(x)]
      BY <3>2, ConcatProperties, LenProperties
    <3>4. (x \o y)[1] = x[1]
      BY <3>2, <3>3
    <3>5. QED
      BY <1>4, <3>1, <3>4
  <2>4. s[1] \in Heard(n)
    <3>1. s \in Seq(Messages(n) \cap Heard(n))
      BY <1>3, OnlyTypes
    <3>2. QED
      BY <2>1, <3>1, ElementOfSeq
  <2>5. s[1].role \in {"user", "assistant"}
    BY <2>4 DEF Heard, Messages
  <2>6. QED
    BY <2>2, <2>3, <2>5
<1>6. QED
  BY <1>1, <1>5 DEF UserFirst

LEMMA RequestWellFormed ==
    ASSUME NEW n \in Nat, NEW all \in Seq(Messages(n)), NEW r, Sends(all, r), asks.model \in Models
    PROVE  FormedWell(r, all)
<1>1. PICK ms, built : /\ ms = SubSeq(all, 1, LastUser(all)) /\ built = build_history(ms)
                       /\ MadeOf(r, ms, built)
  BY DEF Sends
<1>2. PICK pre, m : pre = Front(ms) /\ m = Last(ms)
  OBVIOUS
<1>3. /\ ms \in Seq(Messages(n)) /\ ms # << >> /\ pre \in Seq(Messages(n)) /\ m \in Messages(n)
      /\ ms = Append(pre, m) /\ \E rest \in Seq(Messages(n)) : all = ms \o rest
  <2>1. /\ ms \in Seq(Messages(n)) /\ ms # << >> /\ pre \in Seq(Messages(n)) /\ m \in Messages(n)
        /\ ms = Append(pre, m)
    BY <1>1, <1>2, SentMessages DEF Sends
  <2>2. LastUser(all) # 0
    BY DEF Sends
  <2>3. Begins(Messages(n), ms, all)
    BY <1>1, <2>2, SentMessages
  <2>4. QED
    BY <2>1, <2>3 DEF Begins
<1>4. built \in Seq(Translated(n)) /\ EndsAnswered(built) /\ (UserFirst(pre) => Alternates(built))
  BY <1>1, <1>2, <1>3, BuiltHistory
<1>5. Trimmed(r.history, built, Orphaned(built, Last(ms).results))
  <2>1. PICK g : g = r.history
    OBVIOUS
  <2>2. g = remove_orphaned_tool_uses(built, Orphaned(built, Last(ms).results))
    BY <1>1, <2>1 DEF MadeOf
  <2>3. QED
    BY <1>4, <2>1, <2>2, HistoryTrimmed
<1>6. Spoken(all)[1].role = "assistant" \/ Alternates(r.history)
  <2>1. SUFFICES ASSUME Spoken(all)[1].role # "assistant"
                 PROVE  Alternates(r.history)
    OBVIOUS
  <2>2. PICK rest \in Seq(Messages(n)) : all = Append(pre, m) \o rest
    BY <1>3
  <2>3. UserFirst(pre)
    BY <1>3, <2>1, <2>2, HeardFirst
  <2>4. QED
    BY <1>4, <1>5, <2>3 DEF Trimmed
<1>7. r.history # << >> => Last(r.history).role = "assistant"
  BY <1>4, <1>5 DEF Trimmed, EndsAnswered
<1>8. \A t \in NamesOf(Uses(r.history)) : \E d \in r.tools : SameTool(t, d)
  <2> TAKE t \in NamesOf(Uses(r.history))
  <2>1. PICK declared : declared = {map_tool_name(x) : x \in tools}
    OBVIOUS
  <2>2. r.tools = declared \cup Placeholders(r.history, declared)
    BY <1>1, <2>1 DEF MadeOf
  <2>3. SameTool(t, t)
    BY DEF SameTool
  <2>4. CASE \E d \in declared : SameTool(t, d)
    BY <2>2, <2>4
  <2>5. CASE \A d \in declared : ~SameTool(t, d)
    <3>1. t \in Placeholders(r.history, declared)
      BY <2>5 DEF Placeholders
    <3>2. QED
      BY <2>2, <2>3, <3>1
  <2>6. QED
    BY <2>4, <2>5
<1>9. r.model \in ({"opus"} \X {"4-5", "4-6", "4-7"}) \cup ({"sonnet"} \X {"4-5", "4-6"})
                  \cup {<<"haiku", "4-5">>}
  <2>1. r.model = map_model(asks.model) /\ r.model # << >>
    BY <1>1 DEF MadeOf, Sends
  <2>2. asks.model.family \in {"sonnet", "opus", "haiku", "other"}
        /\ asks.model.version \in {"4-5", "4-6", "4-7", "none"}
    BY DEF Models
  <2>3. CASE asks.model.family = "sonnet"
    BY <2>1, <2>2, <2>3 DEF map_model
  <2>4. CASE asks.model.family = "opus"
    BY <2>1, <2>2, <2>4 DEF map_model
  <2>5. CASE asks.model.family = "haiku"
    BY <2>1, <2>2, <2>5 DEF map_model
  <2>6. CASE asks.model.family = "other"
    BY <2>1, <2>2, <2>6 DEF map_model
  <2>7. QED
    BY <2>2, <2>3, <2>4, <2>5, <2>6
<1>10. QED
  BY <1>6, <1>7, <1>8, <1>9 DEF FormedWell, Alternates

\* A request is of the form that every later step takes it to have.
LEMMA RequestTypes ==
    ASSUME NEW n \in Nat, NEW all \in Seq(Messages(n)), NEW r, Sends(all, r)
    PROVE  IsRequest(r, n)
<1>1. PICK ms, built : /\ ms = SubSeq(all, 1, LastUser(all)) /\ built = build_history(ms)
                       /\ MadeOf(r, ms, built)
  BY DEF Sends
<1>2. ms \in Seq(Messages(n)) /\ ms # << >> /\ Last(ms) \in Messages(n)
  BY <1>1, SentMessages DEF Sends
<1>3. built \in Seq(Translated(n))
  BY <1>1, <1>2, BuiltHistory
<1>4. PICK g, c, kept, results : g = r.history /\ c = r.content /\ kept = r.results /\ results = Last(ms).results
  OBVIOUS
<1>5. /\ g = remove_orphaned_tool_uses(built, Orphaned(built, results)) /\ c = Texts(<<Last(ms)>>)
      /\ kept = Validated(built, results)
  BY <1>1, <1>4 DEF MadeOf
<1>6. g \in Seq(Translated(n))
  BY <1>3, <1>5, HistoryTrimmed
<1>7. c \in Seq(1 .. MaxMessages)
  BY <1>2, <1>5, OneText
<1>8. kept \in Seq(1 .. n)
  <2>1. results \in Seq(1 .. n)
    BY <1>2, <1>4 DEF Messages
  <2>2. QED
    BY <1>5, <2>1, ValidatedIs
<1>9. QED
  BY <1>1, <1>4, <1>6, <1>7, <1>8 DEF IsRequest, MadeOf

-----------------------------------------------------------------------------
(* The session: what its variables hold.                                    *)

SessionTypes ==
    /\ asks \in Settings /\ tools \in ToolSets
    /\ made \in 0 .. MaxMessages /\ called \in 0 .. MaxCalls /\ changes \in 0 .. MaxChanges
    /\ messages \in Seq(Messages(called))
    /\ sent = NoRequest \/ sent = Refused \/ IsRequest(sent, called)

LEMMA MoreCalls ==
    ASSUME NEW m \in Nat, NEW n \in Nat, m <= n
    PROVE  Seq(Messages(m)) \subseteq Seq(Messages(n))
<1>1. PICK M, N : M = 1 .. m /\ N = 1 .. n
  OBVIOUS
<1>2. M \subseteq N
  BY <1>1
<1>3. Seq(M) \subseteq Seq(N)
  BY <1>2, SeqMonotonic
<1>4. Calls(m) \subseteq Calls(n)
  BY <1>1, <1>2 DEF Calls
<1>5. Seq(Calls(m)) \subseteq Seq(Calls(n))
  BY <1>4, SeqMonotonic
<1>6. Messages(m) \subseteq Messages(n)
  BY <1>1, <1>3, <1>5 DEF Messages
<1>7. QED
  BY <1>6, SeqMonotonic

LEMMA ShortSeqs ==
    ASSUME NEW T, NEW k \in Nat, NEW s \in SeqOf(T, k)
    PROVE  s \in Seq(T) /\ Len(s) \in 0 .. k
<1>1. PICK m \in 0 .. k : s \in [1 .. m -> T]
  BY DEF SeqOf
<1>2. m \in Nat
  BY <1>1
<1>3. QED
  BY <1>1, <1>2

LEMMA OriginalTypes ==
    ASSUME NEW t \in Names, NEW map
    PROVE  Original(t, map) \in Names
BY DEF Original, Names

\* The new calls of an answer, as the client is told of them.
Told(names, n, map) == [i \in DOMAIN names |-> [id |-> n + i, name |-> Original(names[i], map)]]

LEMMA ToldTypes ==
    ASSUME NEW names \in Seq(Names), NEW n \in Nat, NEW map
    PROVE  /\ Told(names, n, map) \in Seq(Calls(n + Len(names)))
           /\ \A u \in ToSet(Told(names, n, map)) : \E t \in ToSet(names) : u.name = Original(t, map)
<1>1. PICK told, k, m : told = Told(names, n, map) /\ k = Len(names) /\ m = n + Len(names)
  OBVIOUS
<1>2. k \in Nat /\ m \in Nat /\ m = n + k /\ DOMAIN names = 1 .. k /\ \A i \in 1 .. k : names[i] \in Names
  BY <1>1, LenProperties, ElementOfSeq
<1>3. told = [i \in 1 .. k |-> [id |-> n + i, name |-> Original(names[i], map)]]
  BY <1>1, <1>2 DEF Told
<1>4. ASSUME NEW i \in 1 .. k
      PROVE  [id |-> n + i, name |-> Original(names[i], map)] \in Calls(m)
  <2>1. n + i \in 1 .. m /\ Original(names[i], map) \in Names
    BY <1>2, OriginalTypes
  <2>2. QED
    BY <2>1 DEF Calls
<1>5. told \in Seq(Calls(m)) /\ Len(told) = k
  <2>1. told \in [1 .. k -> Calls(m)]
    BY <1>3, <1>4
  <2>2. QED
    BY <1>2, <2>1
<1>6. ToSet(told) = {told[i] : i \in 1 .. k} /\ ToSet(names) = {names[i] : i \in 1 .. k}
  <2>1. ToSet(told) = {told[i] : i \in 1 .. Len(told)}
    BY <1>5, ElementsOf
  <2>2. ToSet(names) = {names[i] : i \in 1 .. Len(names)}
    BY ElementsOf
  <2>3. QED
    BY <1>1, <1>5, <2>1, <2>2
<1>7. \A u \in ToSet(told) : \E t \in ToSet(names) : u.name = Original(t, map)
  BY <1>3, <1>6
<1>8. QED
  BY <1>1, <1>5, <1>7

\* In every session the variables keep their types: within the bounds on messages and calls,
\* a request holds translated messages and ids of calls that were made. (converter.rs)
THEOREM SessionTyped == SessionSpec => []SessionTypes
<1>1. SessionInit => SessionTypes
  <2> SUFFICES ASSUME SessionInit
               PROVE  SessionTypes
    OBVIOUS
  <2>1. asks \in Settings /\ tools \in ToolSets
    BY ConversionAssumption DEF SessionInit
  <2>2. made \in 0 .. MaxMessages /\ called \in 0 .. MaxCalls /\ changes \in 0 .. MaxChanges
    BY ConversionAssumption DEF SessionInit
  <2>3. messages \in Seq(Messages(called)) /\ sent = NoRequest
    BY EmptySeq DEF SessionInit
  <2>4. QED
    BY <2>1, <2>2, <2>3 DEF SessionTypes
<1>2. SessionTypes /\ [SessionNext]_sessionVars => SessionTypes'
  <2> SUFFICES ASSUME SessionTypes, [SessionNext]_sessionVars
               PROVE  SessionTypes'
    OBVIOUS
  <2>0. /\ called \in Nat /\ messages \in Seq(Messages(called)) /\ made \in Nat
        /\ MaxCalls \in Nat /\ MaxMessages \in Nat /\ MaxChanges \in Nat /\ MaxResults \in Nat
    BY ConversionAssumption DEF SessionTypes
  <2>1. ASSUME NEW speaks \in BOOLEAN, NEW results \in SeqOf(1..called, MaxResults),
               UserSpeaks(speaks, results)
        PROVE  SessionTypes'
    <3>1. PICK m : m = Say("user", IF speaks THEN made' ELSE 0, results, << >>)
      OBVIOUS
    <3>2. made' \in 0 .. MaxMessages /\ results \in Seq(1 .. called)
      BY <2>0, <2>1, ShortSeqs DEF UserSpeaks
    <3>3. m \in Messages(called)
      BY <2>0, <3>1, <3>2, EmptySeq DEF Say, Messages
    <3>4. messages' \in Seq(Messages(called))
      BY <2>0, <2>1, <3>1, <3>3, AppendProperties DEF UserSpeaks
    <3>5. QED
      BY <2>1, <3>2, <3>4 DEF SessionTypes, UserSpeaks
  <2>2. CASE OtherSpeaks
    <3>1. PICK m : m = Say("system", made', << >>, << >>)
      OBVIOUS
    <3>2. made' \in 0 .. MaxMessages /\ changes' \in 0 .. MaxChanges
      BY <2>0, <2>2 DEF OtherSpeaks, SessionTypes
    <3>3. m \in Messages(called)
      BY <2>0, <3>1, <3>2, EmptySeq DEF Say, Messages
    <3>4. messages' \in Seq(Messages(called))
      BY <2>0, <2>2, <3>1, <3>3, AppendProperties DEF OtherSpeaks
    <3>5. QED
      BY <2>2, <3>2, <3>4 DEF SessionTypes, OtherSpeaks
  <2>3. CASE Send
    <3>1. PICK r : r = convert_request(messages)
      OBVIOUS
    <3>2. r = Refused \/ IsRequest(r, called)
      BY <2>0, <3>1, Converted, RequestTypes
    <3>3. sent' = r /\ UNCHANGED <<asks, messages, tools, made, called, changes>>
      BY <2>3, <3>1 DEF Send
    <3>4. QED
      BY <3>2, <3>3 DEF SessionTypes
  <2>4. ASSUME NEW speaks \in BOOLEAN, NEW names \in SeqOf(Names, MaxCalls), Answer(speaks, names)
        PROVE  SessionTypes'
    <3>1. PICK m, told, n : /\ m = Say("assistant", IF speaks THEN made' ELSE 0, << >>, told)
                            /\ told = Told(names, called, sent.map) /\ n = called + Len(names)
      OBVIOUS
    <3>2. names \in Seq(Names) /\ Len(names) \in Nat
      BY <2>0, ShortSeqs
    <3>3. told \in Seq(Calls(n))
      BY <2>0, <3>1, <3>2, ToldTypes
    <3>4. made' \in 0 .. MaxMessages /\ called' = n /\ n \in 0 .. MaxCalls /\ called <= n
      BY <2>0, <2>4, <3>1, <3>2 DEF Answer
    <3>5. m \in Messages(n)
      BY <2>0, <3>1, <3>3, <3>4, EmptySeq DEF Say, Messages
    <3>6. messages \in Seq(Messages(n))
      BY <2>0, <3>4, MoreCalls
    <3>7. messages' = Append(messages, m)
      BY <2>4, <3>1 DEF Answer, Told
    <3>8. messages' \in Seq(Messages(n))
      BY <3>5, <3>6, <3>7, AppendProperties
    <3>9. QED
      BY <2>4, <3>4, <3>8 DEF SessionTypes, Answer
  <2>5. CASE AnswerLost
    BY <2>5 DEF SessionTypes, AnswerLost
  <2>6. ASSUME NEW k \in 1 .. MaxMessages, Truncate(k)
        PROVE  SessionTypes'
    <3>1. messages' \in Seq(Messages(called))
      <4>1. /\ Len(messages) \in Nat /\ k + 1 \in Int
            /\ \A i \in k + 1 .. Len(messages) : messages[i] \in Messages(called)
        BY <2>0, LenProperties, ElementOfSeq
      <4>2. SubSeq(messages, k + 1, Len(messages)) \in Seq(Messages(called))
        BY <4>1, SubSeqProperties
      <4>3. QED
        BY <2>6, <4>2 DEF Truncate
    <3>2. changes' \in 0 .. MaxChanges
      BY <2>0, <2>6 DEF Truncate, SessionTypes
    <3>3. QED
      BY <2>6, <3>1, <3>2 DEF SessionTypes, Truncate
  <2>7. ASSUME NEW t \in ToolSets, ChangeTools(t)
        PROVE  SessionTypes'
    <3>1. changes' \in 0 .. MaxChanges
      BY <2>0, <2>7 DEF ChangeTools, SessionTypes
    <3>2. QED
      BY <2>7, <3>1 DEF SessionTypes, ChangeTools
  <2>8. CASE Stay \/ UNCHANGED sessionVars
    BY <2>8 DEF SessionTypes, Stay, sessionVars
  <2>9. QED
    BY <2>1, <2>2, <2>3, <2>4, <2>5, <2>6, <2>7, <2>8 DEF SessionNext
<1>3. QED
  BY <1>1, <1>2, PTL DEF SessionSpec

\* Only Send leaves a request that is being answered, and nothing changes while it stays.
LEMMA OnlySends ==
    ASSUME SessionTypes, [SessionNext]_sessionVars, Sent', NEW r, r = sent'
    PROVE  \/ UNCHANGED sessionVars
           \/ /\ ~Sent /\ Sends(messages, r) /\ thread' = r.id /\ r.state = "sent"
              /\ UNCHANGED <<asks, messages, tools, made, called, changes>>
<1>1. ASSUME NEW speaks \in BOOLEAN, NEW results \in SeqOf(1..called, MaxResults), UserSpeaks(speaks, results)
      PROVE  FALSE
  BY <1>1 DEF UserSpeaks, NoRequest, Sent
<1>2. ASSUME OtherSpeaks
      PROVE  FALSE
  BY <1>2 DEF OtherSpeaks, NoRequest, Sent
<1>3. CASE Send
  <2>1. r = Refused \/ Sends(messages, r)
    BY <1>3, Converted DEF Send
  <2>2. r.state = "sent"
    BY DEF Sent
  <2>3. r # Refused
    BY <2>2 DEF Refused
  <2>4. ~Sent
    BY <1>3 DEF Send, Sent, NoRequest
  <2>5. thread' = r.id /\ UNCHANGED <<asks, messages, tools, made, called, changes>>
    BY <1>3, <2>2 DEF Send
  <2>6. QED
    BY <2>1, <2>2, <2>3, <2>4, <2>5
<1>4. ASSUME NEW speaks \in BOOLEAN, NEW names \in SeqOf(Names, MaxCalls), Answer(speaks, names)
      PROVE  FALSE
  BY <1>4 DEF Answer, NoRequest, Sent
<1>5. ASSUME AnswerLost
      PROVE  FALSE
  BY <1>5 DEF AnswerLost, NoRequest, Sent
<1>6. ASSUME NEW k \in 1 .. MaxMessages, Truncate(k)
      PROVE  FALSE
  BY <1>6 DEF Truncate, NoRequest, Sent
<1>7. ASSUME NEW t \in ToolSets, ChangeTools(t)
      PROVE  FALSE
  BY <1>7 DEF ChangeTools, NoRequest, Sent
<1>8. CASE Stay \/ UNCHANGED sessionVars
  BY <1>8 DEF Stay
<1>9. QED
  BY <1>1, <1>2, <1>3, <1>4, <1>5, <1>6, <1>7, <1>8 DEF SessionNext

-----------------------------------------------------------------------------
(* The properties of a request.                                             *)

\* In every session, of any length, each tool use that is sent has a result and each result
\* in the current message answers an open tool use, once.
THEOREM ToolUsesPaired == SessionSpec => []Paired
<1>1. Paired <=> (Sent => PairsUp(sent))
  BY DEF Paired, PairsUp
<1>2. (Paired <=> (Sent => PairsUp(sent)))'
  BY DEF Paired, PairsUp
<1>3. SessionInit => Paired
  BY DEF SessionInit, Paired, Sent, NoRequest
<1>4. SessionTypes /\ Paired /\ [SessionNext]_sessionVars => Paired'
  <2> SUFFICES ASSUME SessionTypes, Paired, [SessionNext]_sessionVars, Sent'
               PROVE  Paired'
    BY <1>2
  <2>1. PICK r : r = sent'
    OBVIOUS
  <2>2. CASE UNCHANGED sessionVars
    BY <1>1, <1>2, <2>2 DEF sessionVars, Sent
  <2>3. CASE Sends(messages, r)
    <3>1. PairsUp(r)
      BY <2>3, ConversionAssumption, RequestPairs DEF SessionTypes
    <3>2. QED
      BY <1>2, <2>1, <3>1
  <2>4. QED
    BY <2>1, <2>2, <2>3, OnlySends
<1>5. QED
  BY <1>3, <1>4, SessionTyped, PTL DEF SessionSpec

\* In every session, what is sent alternates between the roles, ends with the assistant,
\* defines the tools that it mentions and names a model that upstream has.
THEOREM RequestsWellFormed == SessionSpec => []WellFormed
<1>1. WellFormed <=> (Sent => FormedWell(sent, messages))
  BY DEF WellFormed, FormedWell
<1>2. (WellFormed <=> (Sent => FormedWell(sent, messages)))'
  BY DEF WellFormed, FormedWell
<1>3. SessionInit => WellFormed
  BY DEF SessionInit, WellFormed, Sent, NoRequest
<1>4. SessionTypes /\ WellFormed /\ [SessionNext]_sessionVars => WellFormed'
  <2> SUFFICES ASSUME SessionTypes, WellFormed, [SessionNext]_sessionVars, Sent'
               PROVE  WellFormed'
    BY <1>2
  <2>1. PICK r, all : r = sent' /\ all = messages
    OBVIOUS
  <2>2. CASE UNCHANGED sessionVars
    BY <1>1, <1>2, <2>2 DEF sessionVars, Sent
  <2>3. CASE Sends(messages, r) /\ messages' = messages
    <3>1. asks.model \in Models
      BY ConversionAssumption DEF SessionTypes
    <3>2. called \in Nat /\ all \in Seq(Messages(called)) /\ Sends(all, r)
      BY <2>1, <2>3, ConversionAssumption DEF SessionTypes
    <3>3. FormedWell(r, all)
      BY <3>1, <3>2, RequestWellFormed
    <3>4. QED
      BY <1>2, <2>1, <2>3, <3>3
  <2>4. QED
    BY <2>1, <2>2, <2>3, OnlySends
<1>5. QED
  BY <1>3, <1>4, SessionTyped, PTL DEF SessionSpec

\* In every session, all that the user and the assistant have said is in the request, in order.
THEOREM AllTextsKept == SessionSpec => []TextsKept
<1>1. TextsKept <=> (Sent => ToldAll(sent, messages))
  BY DEF TextsKept, ToldAll, Contents
<1>2. (TextsKept <=> (Sent => ToldAll(sent, messages)))'
  BY DEF TextsKept, ToldAll, Contents
<1>3. SessionInit => TextsKept
  BY DEF SessionInit, TextsKept, Sent, NoRequest
<1>4. SessionTypes /\ TextsKept /\ [SessionNext]_sessionVars => TextsKept'
  <2> SUFFICES ASSUME SessionTypes, TextsKept, [SessionNext]_sessionVars, Sent'
               PROVE  TextsKept'
    BY <1>2
  <2>1. PICK r, all : r = sent' /\ all = messages
    OBVIOUS
  <2>2. CASE UNCHANGED sessionVars
    BY <1>1, <1>2, <2>2 DEF sessionVars, Sent
  <2>3. CASE Sends(messages, r) /\ messages' = messages
    <3>1. called \in Nat /\ all \in Seq(Messages(called)) /\ Sends(all, r)
      BY <2>1, <2>3, ConversionAssumption DEF SessionTypes
    <3>2. ToldAll(r, all)
      BY <3>1, RequestTells
    <3>3. QED
      BY <1>2, <2>1, <2>3, <3>2
  <2>4. QED
    BY <2>1, <2>2, <2>3, OnlySends
<1>5. QED
  BY <1>3, <1>4, SessionTyped, PTL DEF SessionSpec

-----------------------------------------------------------------------------
(* The names of tools.                                                      *)

Declared(t) == \E s \in ToolSets : t \in s
NamesIn(ms) == \A u \in ToSet(Uses(ms)) : Declared(u.name)
LeadsBack(r) == \A t \in r.tools : Declared(Original(t, r.map))

LEMMA DeclaredNames ==
    ASSUME NEW t, Declared(t)
    PROVE  t \in Names /\ ~t.short
BY ConversionAssumption DEF Declared

\* A name that has been shortened is led back to what it stands for.
LEMMA NameLedBack ==
    ASSUME NEW D, \A t \in D : Declared(t), NEW t \in D
    PROVE  Original(map_tool_name(t), NameMap(D)) = t
<1>1. t = [word |-> t.word, upper |-> t.upper, short |-> FALSE]
  <2>1. t \in Names /\ ~t.short
    BY DeclaredNames
  <2>2. t \in [word : Words, upper : BOOLEAN, short : BOOLEAN] /\ t.short = FALSE
    BY <2>1 DEF Names
  <2>3. QED
    BY <2>2
<1>2. CASE IsLong(t)
  <2>1. PICK s : s = shorten_tool_name(t)
    OBVIOUS
  <2>2. s = [word |-> t.word, upper |-> t.upper, short |-> TRUE]
    BY <1>1, <2>1 DEF shorten_tool_name
  <2>3. s \in NameMap(D) /\ map_tool_name(t) = s
    BY <1>2, <2>1 DEF NameMap, map_tool_name
  <2>4. Original(s, NameMap(D)) = [s EXCEPT !.short = FALSE]
    BY <2>3 DEF Original
  <2>5. [s EXCEPT !.short = FALSE] = t
    BY <1>1, <2>2
  <2>6. QED
    BY <2>3, <2>4, <2>5
<1>3. CASE ~IsLong(t)
  <2>1. map_tool_name(t) = t
    BY <1>3 DEF map_tool_name
  <2>2. t \notin NameMap(D)
    <3>1. ASSUME NEW x \in D
          PROVE  shorten_tool_name(x).short = TRUE
      <4>1. x \in Names
        BY DeclaredNames
      <4>2. QED
        BY <4>1 DEF Names, shorten_tool_name
    <3>2. t.short = FALSE
      BY <1>1
    <3>3. QED
      BY <3>1, <3>2 DEF NameMap
  <2>3. QED
    BY <2>1, <2>2 DEF Original
<1>4. QED
  BY <1>2, <1>3

LEMMA RequestLeadsBack ==
    ASSUME NEW n \in Nat, NEW all \in Seq(Messages(n)), NEW r, Sends(all, r), NamesIn(all),
           tools \in ToolSets
    PROVE  LeadsBack(r)
<1>1. PICK ms, built : /\ ms = SubSeq(all, 1, LastUser(all)) /\ built = build_history(ms)
                       /\ MadeOf(r, ms, built)
  BY DEF Sends
<1>2. PICK pre : pre = Front(ms)
  OBVIOUS
<1>3. /\ ms \in Seq(Messages(n)) /\ ms # << >> /\ pre \in Seq(Messages(n)) /\ Last(ms) \in Messages(n)
      /\ ms = Append(pre, Last(ms)) /\ ToSet(ms) \subseteq ToSet(all)
  <2>1. LastUser(all) # 0
    BY DEF Sends
  <2>2. QED
    BY <1>1, <1>2, <2>1, SentMessages
<1>4. built \in Seq(Translated(n)) /\ Known(built, pre)
  BY <1>1, <1>2, <1>3, BuiltHistory
<1>5. PICK g : g = r.history
  OBVIOUS
<1>6. ToSet(Uses(g)) \subseteq ToSet(Uses(built))
  <2>1. g = remove_orphaned_tool_uses(built, Orphaned(built, Last(ms).results))
    BY <1>1, <1>5 DEF MadeOf
  <2>2. Trimmed(g, built, Orphaned(built, Last(ms).results))
    BY <1>4, <2>1, HistoryTrimmed
  <2>3. QED
    BY <2>2 DEF Trimmed
<1>7. ToSet(Uses(pre)) \subseteq ToSet(Uses(all))
  <2>1. ToSet(pre) \subseteq ToSet(ms)
    <3>1. ToSet(Append(pre, Last(ms))) = ToSet(pre) \cup {Last(ms)}
      BY <1>3, ElementsOfAppend
    <3>2. QED
      BY <1>3, <3>1
  <2>2. ToSet(Uses(pre)) = UNION {ToSet(m.uses) : m \in ToSet(pre)}
    BY <1>3, UsesParts
  <2>3. ToSet(Uses(all)) = UNION {ToSet(m.uses) : m \in ToSet(all)}
    BY UsesParts
  <2>4. QED
    BY <1>3, <2>1, <2>2, <2>3
<1>8. PICK D : D = tools \cup NamesOf(Uses(pre))
  OBVIOUS
<1>9. \A t \in D : Declared(t)
  <2>1. \A t \in tools : Declared(t)
    BY DEF Declared
  <2>2. \A t \in NamesOf(Uses(pre)) : Declared(t)
    BY <1>7 DEF NamesOf, NamesIn
  <2>3. QED
    BY <1>8, <2>1, <2>2
<1>10. r.map = NameMap(D)
  BY <1>1, <1>2, <1>8 DEF MadeOf, tool_name_map
<1>11. ASSUME NEW t \in r.tools
       PROVE  \E x \in D : t = map_tool_name(x)
  <2>1. PICK declared : declared = {map_tool_name(x) : x \in tools}
    OBVIOUS
  <2>2. r.tools = declared \cup Placeholders(g, declared)
    BY <1>1, <1>5, <2>1 DEF MadeOf
  <2>3. CASE t \in declared
    BY <1>8, <2>1, <2>3
  <2>4. CASE t \in Placeholders(g, declared)
    <3>1. PICK u \in ToSet(Uses(g)) : t = u.name
      BY <2>4 DEF Placeholders, NamesOf
    <3>2. PICK v \in ToSet(Uses(pre)) : u.name = map_tool_name(v.name)
      BY <1>4, <1>6, <3>1 DEF Known
    <3>3. v.name \in D
      BY <1>8, <3>2 DEF NamesOf
    <3>4. QED
      BY <3>1, <3>2, <3>3
  <2>5. QED
    BY <2>2, <2>3, <2>4
<1>12. ASSUME NEW t \in r.tools
       PROVE  Declared(Original(t, r.map))
  <2>1. PICK x \in D : t = map_tool_name(x)
    BY <1>11
  <2>2. Original(t, r.map) = x
    BY <1>9, <1>10, <2>1, NameLedBack
  <2>3. QED
    BY <1>9, <2>1, <2>2
<1>13. QED
  BY <1>12 DEF LeadsBack

\* No message names a tool that no set of tools has.
LEMMA NamesInAppend ==
    ASSUME NEW n \in Nat, NEW ms \in Seq(Messages(n)), NEW m \in Messages(n), NamesIn(ms),
           \A u \in ToSet(m.uses) : Declared(u.name)
    PROVE  NamesIn(Append(ms, m))
<1>1. ToSet(Uses(Append(ms, m))) = ToSet(Uses(ms)) \cup ToSet(m.uses)
  BY UsesAppend
<1>2. QED
  BY <1>1 DEF NamesIn

NamesInv == NamesIn(messages) /\ (Sent => LeadsBack(sent))

LEMMA NamesNext == SessionTypes /\ NamesInv /\ [SessionNext]_sessionVars => NamesInv'
<1> SUFFICES ASSUME SessionTypes, NamesInv, [SessionNext]_sessionVars
             PROVE  NamesInv'
  OBVIOUS
<1>0. /\ called \in Nat /\ made \in Nat /\ MaxMessages \in Nat /\ MaxCalls \in Nat /\ MaxResults \in Nat
      /\ messages \in Seq(Messages(called)) /\ NamesIn(messages)
  BY ConversionAssumption DEF SessionTypes, NamesInv
<1>1. (NamesInv <=> NamesIn(messages) /\ (Sent => LeadsBack(sent)))'
  BY DEF NamesInv
<1>2. ASSUME NEW speaks \in BOOLEAN, NEW results \in SeqOf(1..called, MaxResults), UserSpeaks(speaks, results)
      PROVE  NamesInv'
  <2>1. PICK m : m = Say("user", IF speaks THEN made' ELSE 0, results, << >>)
    OBVIOUS
  <2>2. made' \in 0 .. MaxMessages /\ results \in Seq(1 .. called)
    BY <1>0, <1>2, ShortSeqs DEF UserSpeaks
  <2>3. m \in Messages(called) /\ m.uses = << >>
    BY <1>0, <2>1, <2>2, EmptySeq DEF Say, Messages
  <2>4. NamesIn(Append(messages, m))
    BY <1>0, <2>3, NamesInAppend, NoElements
  <2>5. messages' = Append(messages, m) /\ ~Sent'
    BY <1>2, <2>1 DEF UserSpeaks, Sent, NoRequest
  <2>6. QED
    BY <1>1, <2>4, <2>5
<1>3. CASE OtherSpeaks
  <2>1. PICK m : m = Say("system", made', << >>, << >>)
    OBVIOUS
  <2>2. made' \in 0 .. MaxMessages
    BY <1>0, <1>3 DEF OtherSpeaks
  <2>3. m \in Messages(called) /\ m.uses = << >>
    BY <1>0, <2>1, <2>2, EmptySeq DEF Say, Messages
  <2>4. NamesIn(Append(messages, m))
    BY <1>0, <2>3, NamesInAppend, NoElements
  <2>5. messages' = Append(messages, m) /\ ~Sent'
    BY <1>3, <2>1 DEF OtherSpeaks, Sent, NoRequest
  <2>6. QED
    BY <1>1, <2>4, <2>5
<1>4. CASE Send
  <2>1. PICK r, all : r = sent' /\ all = messages
    OBVIOUS
  <2>2. messages' = messages /\ tools \in ToolSets
    BY <1>4 DEF Send, SessionTypes
  <2>3. CASE Sent'
    <3>1. Sends(all, r) \/ UNCHANGED sessionVars
      BY <2>1, <2>3, OnlySends
    <3>2. CASE Sends(all, r)
      <4>1. all \in Seq(Messages(called)) /\ NamesIn(all)
        BY <1>0, <2>1
      <4>2. LeadsBack(r)
        BY <1>0, <2>2, <3>2, <4>1, RequestLeadsBack
      <4>3. QED
        BY <1>0, <1>1, <2>1, <2>2, <4>2
    <3>3. CASE UNCHANGED sessionVars
      BY <1>1, <3>3 DEF NamesInv, sessionVars, Sent
    <3>4. QED
      BY <3>1, <3>2, <3>3
  <2>4. CASE ~Sent'
    BY <1>0, <1>1, <2>2, <2>4
  <2>5. QED
    BY <2>3, <2>4
<1>5. ASSUME NEW speaks \in BOOLEAN, NEW names \in SeqOf(Names, MaxCalls), Answer(speaks, names)
      PROVE  NamesInv'
  <2>1. PICK m, told, n, map : /\ m = Say("assistant", IF speaks THEN made' ELSE 0, << >>, told)
                               /\ told = Told(names, called, map) /\ n = called + Len(names)
                               /\ map = sent.map
    OBVIOUS
  <2>2. names \in Seq(Names) /\ Len(names) \in Nat
    BY <1>0, ShortSeqs
  <2>3. /\ told \in Seq(Calls(n))
        /\ \A u \in ToSet(told) : \E t \in ToSet(names) : u.name = Original(t, map)
    BY <1>0, <2>1, <2>2, ToldTypes
  <2>4. made' \in 0 .. MaxMessages /\ n \in Nat /\ called <= n
    BY <1>0, <1>5, <2>1, <2>2 DEF Answer
  <2>5. m \in Messages(n) /\ m.uses = told
    BY <1>0, <2>1, <2>3, <2>4, EmptySeq DEF Say, Messages
  <2>6. messages \in Seq(Messages(n))
    BY <1>0, <2>4, MoreCalls
  <2>7. messages' = Append(messages, m) /\ ~Sent'
    <3>1. messages' = Append(messages, m)
      BY <1>5, <2>1 DEF Answer, Told
    <3>2. ~Sent'
      BY <1>5 DEF Answer, Sent, NoRequest
    <3>3. QED
      BY <3>1, <3>2
  <2>8. \A u \in ToSet(m.uses) : Declared(u.name)
    <3>1. ToSet(names) \subseteq sent.tools /\ Sent
      BY <1>5 DEF Answer, Sent
    <3>2. \A t \in sent.tools : Declared(Original(t, sent.map))
      BY <3>1 DEF NamesInv, LeadsBack
    <3>3. QED
      BY <2>1, <2>3, <2>5, <3>1, <3>2
  <2>9. NamesIn(Append(messages, m))
    BY <1>0, <2>4, <2>5, <2>6, <2>8, NamesInAppend
  <2>10. QED
    BY <1>1, <2>7, <2>9
<1>6. CASE AnswerLost
  <2>1. messages' = messages /\ ~Sent'
    BY <1>6 DEF AnswerLost, Sent, NoRequest
  <2>2. QED
    BY <1>0, <1>1, <2>1
<1>7. ASSUME NEW k \in 1 .. MaxMessages, Truncate(k)
      PROVE  NamesInv'
  <2>1. PICK rest : rest = SubSeq(messages, k + 1, Len(messages))
    OBVIOUS
  <2>2. messages' = rest /\ ~Sent' /\ k < Len(messages)
    BY <1>7, <2>1 DEF Truncate, Sent, NoRequest
  <2>3. PICK L \in Nat : L = Len(messages)
    BY <1>0, LenProperties
  <2>4. \A i \in k + 1 .. L : messages[i] \in Messages(called) /\ i \in 1 .. L
    BY <1>0, <2>3, ElementOfSeq
  <2>5. /\ rest \in Seq(Messages(called)) /\ Len(rest) = L - k
        /\ \A i \in 1 .. L - k : rest[i] = messages[k + i]
    <3>1. /\ SubSeq(messages, k + 1, L) \in Seq(Messages(called))
          /\ Len(SubSeq(messages, k + 1, L)) = IF k + 1 <= L THEN L - (k + 1) + 1 ELSE 0
          /\ \A i \in 1 .. L - (k + 1) + 1 : SubSeq(messages, k + 1, L)[i] = messages[k + 1 + i - 1]
      <4>1. k + 1 \in Int /\ L \in Int
        OBVIOUS
      <4>2. QED
        BY <2>4, <4>1, SubSeqProperties
    <3>2. QED
      BY <2>1, <2>2, <2>3, <3>1
  <2>6. ToSet(rest) \subseteq ToSet(messages)
    <3>1. ToSet(rest) = {rest[i] : i \in 1 .. Len(rest)}
      BY <2>5, ElementsOf
    <3>2. ToSet(messages) = {messages[i] : i \in 1 .. L}
      BY <1>0, <2>3, ElementsOf
    <3>3. \A i \in 1 .. L - k : k + i \in 1 .. L
      BY <2>3
    <3>4. QED
      BY <2>5, <3>1, <3>2, <3>3
  <2>7. ToSet(Uses(rest)) = UNION {ToSet(m.uses) : m \in ToSet(rest)}
    BY <1>0, <2>5, UsesParts
  <2>8. ToSet(Uses(messages)) = UNION {ToSet(m.uses) : m \in ToSet(messages)}
    BY <1>0, UsesParts
  <2>9. NamesIn(rest)
    BY <1>0, <2>6, <2>7, <2>8 DEF NamesIn
  <2>10. QED
    BY <1>1, <2>2, <2>9
<1>8. ASSUME NEW t \in ToolSets, ChangeTools(t)
      PROVE  NamesInv'
  <2>1. messages' = messages /\ ~Sent'
    BY <1>8 DEF ChangeTools, Sent, NoRequest
  <2>2. QED
    BY <1>0, <1>1, <2>1
<1>9. CASE Stay \/ UNCHANGED sessionVars
  <2>1. messages' = messages /\ sent' = sent
    BY <1>9 DEF Stay, sessionVars
  <2>2. QED
    BY <1>1, <2>1 DEF NamesInv, Sent
<1>10. QED
  BY <1>2, <1>3, <1>4, <1>5, <1>6, <1>7, <1>8, <1>9 DEF SessionNext

\* In every session the client is only told names of tools from the sets it may declare,
\* however often names have been shortened and led back: with ToolSets the sets that it
\* does declare in a session, these are names it has declared.
THEOREM OnlyDeclaredNames == SessionSpec => []NamesKnown
<1>1. SessionInit => NamesInv
  <2> SUFFICES ASSUME SessionInit
               PROVE  NamesInv
    OBVIOUS
  <2>1. PICK e : e = messages
    OBVIOUS
  <2>2. e = << >> /\ e \in Seq(Messages(0)) /\ ~Sent
    BY <2>1, EmptySeq DEF SessionInit, Sent, NoRequest
  <2>3. ToSet(Uses(e)) = UNION {ToSet(m.uses) : m \in ToSet(e)} /\ ToSet(e) = {}
    BY <2>2, UsesParts, NoElements
  <2>4. QED
    BY <2>1, <2>2, <2>3 DEF NamesInv, NamesIn
<1>2. NamesInv => NamesKnown
  BY DEF NamesInv, NamesIn, NamesKnown, Declared
<1>3. QED
  BY <1>1, <1>2, NamesNext, SessionTyped, PTL DEF SessionSpec

-----------------------------------------------------------------------------
(* The conversation.                                                        *)

Anchor(first) == [from |-> "anchor", model |-> map_model(asks.model), system |-> asks.system,
                  first |-> first, tools |-> tools]

\* The id is what all the requests have in common until the client changes something.
ThreadInv ==
    \/ thread = NoId \/ thread = RandomId
    \/ asks.session /\ thread = [from |-> "session"]
    \/ /\ ~asks.session /\ FirstUser(messages) # 0 /\ messages[FirstUser(messages)].text # 0
       /\ thread = Anchor(messages[FirstUser(messages)].text)

LEMMA FirstUserStays ==
    ASSUME NEW s, NEW t, Len(s) \in Nat, Len(t) \in Nat, Len(s) <= Len(t),
           \A i \in 1 .. Len(s) : t[i] = s[i], FirstUser(s) # 0
    PROVE  FirstUser(t) = FirstUser(s) /\ t[FirstUser(t)] = s[FirstUser(s)]
<1>1. PICK i, j : i = FirstUser(s) /\ j = FirstUser(t)
  OBVIOUS
<1>2. i \in 1 .. Len(s) /\ s[i].role = "user" /\ \A k \in 1 .. Len(s) : s[k].role = "user" => i <= k
  <2>1. FirstUser(s) \in 0 .. Len(s)
    BY FirstUserIs
  <2>2. /\ s[FirstUser(s)].role = "user"
        /\ \A k \in 1 .. Len(s) : s[k].role = "user" => FirstUser(s) <= k
    BY FirstUserIs
  <2>3. QED
    BY <1>1, <2>1, <2>2
<1>3. i \in 1 .. Len(t) /\ t[i].role = "user" /\ t[i] = s[i]
  BY <1>2
<1>4. j \in 0 .. Len(t) /\ j # 0
  <2>1. FirstUser(t) \in 0 .. Len(t) /\ (FirstUser(t) = 0 => \A k \in 1 .. Len(t) : t[k].role # "user")
    BY FirstUserIs
  <2>2. QED
    BY <1>1, <1>3, <2>1
<1>5. t[j].role = "user" /\ \A k \in 1 .. Len(t) : t[k].role = "user" => j <= k
  <2>1. FirstUser(t) # 0
    BY <1>1, <1>4
  <2>2. /\ t[FirstUser(t)].role = "user"
        /\ \A k \in 1 .. Len(t) : t[k].role = "user" => FirstUser(t) <= k
    BY <2>1, FirstUserIs
  <2>3. QED
    BY <1>1, <2>2
<1>6. j <= i
  BY <1>3, <1>5
<1>7. j \in 1 .. Len(s) /\ s[j].role = "user"
  BY <1>2, <1>4, <1>5, <1>6
<1>8. i = j
  BY <1>2, <1>4, <1>6, <1>7
<1>9. QED
  BY <1>1, <1>3, <1>8

\* The id of a request is the thread, or begins one.
LEMMA RequestThread ==
    ASSUME SessionTypes, NEW r, Sends(messages, r)
    PROVE  \/ asks.session /\ r.id = [from |-> "session"]
           \/ ~asks.session /\ r.id = RandomId /\ messages[FirstUser(messages)].text = 0
           \/ /\ ~asks.session /\ FirstUser(messages) # 0 /\ messages[FirstUser(messages)].text # 0
              /\ r.id = Anchor(messages[FirstUser(messages)].text)
<1>1. PICK ms, built : /\ ms = SubSeq(messages, 1, LastUser(messages)) /\ built = build_history(ms)
                       /\ MadeOf(r, ms, built)
  BY DEF Sends
<1>2. PICK all : all = messages
  OBVIOUS
<1>3. called \in Nat /\ all \in Seq(Messages(called)) /\ LastUser(all) # 0
  BY <1>2, ConversionAssumption DEF SessionTypes, Sends
<1>4. /\ ms \in Seq(Messages(called)) /\ Len(ms) = LastUser(all) /\ Last(ms).role = "user"
      /\ \A i \in 1 .. LastUser(all) : ms[i] = all[i]
  <2>1. PICK n : n = called
    OBVIOUS
  <2>2. ms = SubSeq(all, 1, LastUser(all))
    BY <1>1, <1>2
  <2>3. n \in Nat /\ all \in Seq(Messages(n)) /\ LastUser(all) # 0
    BY <1>3, <2>1
  <2>4. /\ ms \in Seq(Messages(n)) /\ Len(ms) = LastUser(all) /\ Last(ms).role = "user"
        /\ \A i \in 1 .. LastUser(all) : ms[i] = all[i]
    <3>1. ms \in Seq(Messages(n)) /\ Len(ms) = LastUser(all)
      BY <2>2, <2>3, SentMessages
    <3>2. Last(ms).role = "user"
      BY <2>2, <2>3, SentMessages
    <3>3. Begins(Messages(n), ms, all)
      BY <2>2, <2>3, SentMessages
    <3>4. QED
      BY <3>1, <3>2, <3>3 DEF Begins
  <2>5. QED
    BY <2>1, <2>4
<1>5. Len(all) \in Nat /\ Len(ms) \in Nat /\ LastUser(all) \in 0 .. Len(all)
  <2>1. Len(all) \in Nat /\ Len(ms) \in Nat
    BY <1>3, <1>4, LenProperties
  <2>2. QED
    BY <2>1, LastUserIs
<1>6. FirstUser(ms) # 0
  <2>1. Len(ms) \in 1 .. Len(ms) /\ ms[Len(ms)].role = "user"
    BY <1>3, <1>4, <1>5 DEF Last
  <2>2. FirstUser(ms) = 0 => \A i \in 1 .. Len(ms) : ms[i].role # "user"
    BY <1>5, FirstUserIs
  <2>3. QED
    BY <2>1, <2>2
<1>7. FirstUser(all) = FirstUser(ms) /\ all[FirstUser(all)] = ms[FirstUser(ms)]
  <2>1. Len(ms) <= Len(all) /\ \A i \in 1 .. Len(ms) : all[i] = ms[i]
    BY <1>4, <1>5
  <2>2. QED
    BY <1>5, <1>6, <2>1, FirstUserStays
<1>8. PICK first : first = ms[FirstUser(ms)].text
  OBVIOUS
<1>9. asks.session \in BOOLEAN
  BY ConversionAssumption DEF SessionTypes
<1>10. r.id = stable_conversation_id(ms)
  BY <1>1 DEF MadeOf
<1>11. CASE asks.session
  BY <1>10, <1>11 DEF stable_conversation_id
<1>12. CASE ~asks.session /\ first = 0
  <2>1. r.id = RandomId
    BY <1>8, <1>10, <1>12 DEF stable_conversation_id
  <2>2. QED
    BY <1>2, <1>7, <1>8, <1>12, <2>1
<1>13. CASE ~asks.session /\ first # 0
  <2>1. r.id = Anchor(first)
    BY <1>8, <1>10, <1>13 DEF stable_conversation_id, Anchor
  <2>2. QED
    BY <1>2, <1>6, <1>7, <1>8, <1>13, <2>1
<1>14. QED
  BY <1>9, <1>11, <1>12, <1>13

LEMMA ThreadStays ==
    ASSUME SessionTypes, ThreadInv, UNCHANGED <<asks, tools, thread>>,
           NEW n \in Nat, NEW m \in Messages(n), messages \in Seq(Messages(n)),
           messages' = Append(messages, m)
    PROVE  ThreadInv'
<1>1. PICK s, t : s = messages /\ t = messages'
  OBVIOUS
<1>2. s \in Seq(Messages(n)) /\ t = Append(s, m)
  BY <1>1
<1>3. Len(s) \in Nat /\ Len(t) = Len(s) + 1 /\ \A i \in 1 .. Len(s) : t[i] = s[i]
  BY <1>2, LenProperties, AppendProperties
<1>4. FirstUser(s) # 0 => FirstUser(t) = FirstUser(s) /\ t[FirstUser(t)] = s[FirstUser(s)]
  <2>1. Len(t) \in Nat /\ Len(s) <= Len(t)
    BY <1>3
  <2>2. QED
    BY <1>3, <2>1, FirstUserStays
<1>5. FirstUser(messages) # 0 =>
         (FirstUser(messages))' = FirstUser(messages)
         /\ (messages[FirstUser(messages)])' = messages[FirstUser(messages)]
  BY <1>1, <1>4
<1>6. CASE thread = NoId \/ thread = RandomId
  BY <1>6 DEF ThreadInv
<1>7. CASE asks.session /\ thread = [from |-> "session"]
  BY <1>7 DEF ThreadInv
<1>8. CASE /\ ~asks.session /\ FirstUser(messages) # 0 /\ messages[FirstUser(messages)].text # 0
           /\ thread = Anchor(messages[FirstUser(messages)].text)
  BY <1>5, <1>8 DEF ThreadInv, Anchor
<1>9. QED
  BY <1>6, <1>7, <1>8 DEF ThreadInv

LEMMA ThreadNext == SessionTypes /\ ThreadInv /\ [SessionNext]_sessionVars => ThreadInv'
<1> SUFFICES ASSUME SessionTypes, ThreadInv, [SessionNext]_sessionVars
             PROVE  ThreadInv'
  OBVIOUS
<1>0. /\ called \in Nat /\ made \in Nat /\ MaxMessages \in Nat /\ MaxCalls \in Nat /\ MaxResults \in Nat
      /\ messages \in Seq(Messages(called))
  BY ConversionAssumption DEF SessionTypes
<1>2. ASSUME NEW speaks \in BOOLEAN, NEW results \in SeqOf(1..called, MaxResults), UserSpeaks(speaks, results)
      PROVE  ThreadInv'
  <2>1. PICK m : m = Say("user", IF speaks THEN made' ELSE 0, results, << >>)
    OBVIOUS
  <2>2. made' \in 0 .. MaxMessages /\ results \in Seq(1 .. called)
    BY <1>0, <1>2, ShortSeqs DEF UserSpeaks
  <2>3. m \in Messages(called)
    BY <1>0, <2>1, <2>2, EmptySeq DEF Say, Messages
  <2>4. messages' = Append(messages, m) /\ UNCHANGED <<asks, tools, thread>>
    BY <1>2, <2>1 DEF UserSpeaks
  <2>5. QED
    BY <1>0, <2>3, <2>4, ThreadStays
<1>3. CASE OtherSpeaks
  <2>1. PICK m : m = Say("system", made', << >>, << >>)
    OBVIOUS
  <2>2. made' \in 0 .. MaxMessages
    BY <1>0, <1>3 DEF OtherSpeaks
  <2>3. m \in Messages(called)
    BY <1>0, <2>1, <2>2, EmptySeq DEF Say, Messages
  <2>4. messages' = Append(messages, m) /\ UNCHANGED <<asks, tools, thread>>
    BY <1>3, <2>1 DEF OtherSpeaks
  <2>5. QED
    BY <1>0, <2>3, <2>4, ThreadStays
<1>4. CASE Send
  <2>1. PICK r : r = sent'
    OBVIOUS
  <2>2. UNCHANGED <<asks, messages, tools>>
    BY <1>4 DEF Send
  <2>3. CASE Sent'
    <3>1. CASE Sends(messages, r) /\ thread' = r.id
      BY <2>2, <3>1, RequestThread DEF ThreadInv, Anchor
    <3>2. CASE UNCHANGED sessionVars
      BY <3>2 DEF ThreadInv, Anchor, sessionVars
    <3>3. QED
      BY <2>1, <2>3, <3>1, <3>2, OnlySends
  <2>4. CASE ~Sent'
    <3>1. thread' = thread
      BY <1>4, <2>4 DEF Send, Sent
    <3>2. QED
      BY <2>2, <3>1 DEF ThreadInv, Anchor
  <2>5. QED
    BY <2>3, <2>4
<1>5. ASSUME NEW speaks \in BOOLEAN, NEW names \in SeqOf(Names, MaxCalls), Answer(speaks, names)
      PROVE  ThreadInv'
  <2>1. PICK m, told, n : /\ m = Say("assistant", IF speaks THEN made' ELSE 0, << >>, told)
                          /\ told = Told(names, called, sent.map) /\ n = called + Len(names)
    OBVIOUS
  <2>2. names \in Seq(Names) /\ Len(names) \in Nat
    BY <1>0, ShortSeqs
  <2>3. told \in Seq(Calls(n))
    BY <1>0, <2>1, <2>2, ToldTypes
  <2>4. made' \in 0 .. MaxMessages /\ n \in Nat /\ called <= n
    BY <1>0, <1>5, <2>1, <2>2 DEF Answer
  <2>5. m \in Messages(n)
    BY <1>0, <2>1, <2>3, <2>4, EmptySeq DEF Say, Messages
  <2>6. messages \in Seq(Messages(n))
    BY <1>0, <2>4, MoreCalls
  <2>7. messages' = Append(messages, m) /\ UNCHANGED <<asks, tools, thread>>
    BY <1>5, <2>1 DEF Answer, Told
  <2>8. QED
    BY <2>4, <2>5, <2>6, <2>7, ThreadStays
<1>6. CASE AnswerLost
  BY <1>6 DEF AnswerLost, ThreadInv, Anchor
<1>7. ASSUME NEW k \in 1 .. MaxMessages, Truncate(k)
      PROVE  ThreadInv'
  BY <1>7 DEF Truncate, ThreadInv
<1>8. ASSUME NEW t \in ToolSets, ChangeTools(t)
      PROVE  ThreadInv'
  BY <1>8 DEF ChangeTools, ThreadInv
<1>9. CASE Stay \/ UNCHANGED sessionVars
  BY <1>9 DEF Stay, sessionVars, ThreadInv, Anchor
<1>10. QED
  BY <1>2, <1>3, <1>4, <1>5, <1>6, <1>7, <1>8, <1>9 DEF SessionNext

\* In every session, a request has the conversation id of the last one as long as the client
\* only adds to the conversation, unless its first user message has no text.
THEOREM ConversationKept == SessionSpec => OneConversation
<1>1. SessionInit => ThreadInv
  BY DEF SessionInit, ThreadInv
<1>2. ASSUME SessionTypes, ThreadInv, [SessionNext]_sessionVars, Sent', ~Sent, thread # NoId, thread # RandomId
      PROVE  sent'.id = thread
  <2>1. PICK r : r = sent'
    OBVIOUS
  <2>2. CASE UNCHANGED sessionVars
    BY <1>2, <2>2 DEF sessionVars, Sent
  <2>3. CASE Sends(messages, r)
    <3>1. r.id = thread
      BY <1>2, <2>3, RequestThread DEF ThreadInv
    <3>2. QED
      BY <2>1, <3>1
  <2>4. QED
    BY <1>2, <2>1, <2>2, <2>3, OnlySends
<1>3. SessionTypes /\ ThreadInv /\ [SessionNext]_sessionVars
         => [Sent' /\ ~Sent /\ thread # NoId /\ thread # RandomId => sent'.id = thread]_sessionVars
  BY <1>2
<1>4. QED
  BY <1>1, <1>3, ThreadNext, SessionTyped, PTL DEF SessionSpec, OneConversation

-----------------------------------------------------------------------------
(* A request with other ids, and its key.                                   *)

Labels(n) == [1 .. n -> 1 .. n]
After(n, g, f) == [x \in 1 .. n |-> g[f[x]]]

MarkedUses(uses, u) == [j \in DOMAIN uses |-> [id |-> u[uses[j].id], name |-> uses[j].name]]
MarkedAll(h, u, v) == [i \in DOMAIN h |-> Renumbered(h[i], u, v)]
KeyWith(r, u, v) ==
    [model |-> r.model, content |-> r.content, tools |-> r.tools, results |-> Mapped(v, r.results),
     history |-> MarkedAll(r.history, u, v)]

\* The numbers that the key has for ids.
Numbers(r) == [id \in ToSet(IdsInOrder(r)) |-> normalized_id(IdsInOrder(r), id)]

LEMMA KeyIs ==
    ASSUME NEW r
    PROVE  response_key(r) = KeyWith(r, Numbers(r), Numbers(r))
BY DEF response_key, KeyWith, MarkedAll, Mapped, Numbers

LEMMA RelabelledIs ==
    ASSUME NEW r, NEW u, NEW v
    PROVE  Relabelled(r, u, v) = [r EXCEPT !.results = Mapped(v, r.results), !.history = MarkedAll(r.history, u, v)]
BY DEF Relabelled, MarkedAll, Mapped

LEMMA RenumberedIs ==
    ASSUME NEW m, NEW u, NEW v
    PROVE  Renumbered(m, u, v) = [m EXCEPT !.results = Mapped(v, m.results), !.uses = MarkedUses(m.uses, u)]
BY DEF Renumbered, MarkedUses, Mapped

\* Marking what calls are named, one after the other.
LEMMA MappedTwice ==
    ASSUME NEW n \in Nat, NEW s \in Seq(1 .. n), NEW f \in Labels(n), NEW g
    PROVE  Mapped(g, Mapped(f, s)) = Mapped(After(n, g, f), s)
<1>1. DOMAIN s = 1 .. Len(s) /\ \A i \in 1 .. Len(s) : s[i] \in 1 .. n
  BY LenProperties, ElementOfSeq
<1>2. DOMAIN Mapped(f, s) = 1 .. Len(s) /\ \A i \in 1 .. Len(s) : Mapped(f, s)[i] = f[s[i]]
  BY <1>1 DEF Mapped
<1>3. PICK t : t = Mapped(f, s)
  OBVIOUS
<1>4. Mapped(g, t) = [i \in 1 .. Len(s) |-> g[f[s[i]]]]
  BY <1>2, <1>3 DEF Mapped
<1>5. Mapped(After(n, g, f), s) = [i \in 1 .. Len(s) |-> g[f[s[i]]]]
  BY <1>1 DEF Mapped, After
<1>6. QED
  BY <1>3, <1>4, <1>5

LEMMA MarkedUsesIs ==
    ASSUME NEW n \in Nat, NEW uses \in Seq(Calls(n)), NEW u
    PROVE  MarkedUses(uses, u) = [j \in 1 .. Len(uses) |-> [id |-> u[uses[j].id], name |-> uses[j].name]]
<1>1. DOMAIN uses = 1 .. Len(uses)
  BY LenProperties
<1>2. QED
  BY <1>1 DEF MarkedUses

LEMMA MarkedUsesTypes ==
    ASSUME NEW n \in Nat, NEW uses \in Seq(Calls(n)), NEW u \in Labels(n)
    PROVE  /\ MarkedUses(uses, u) \in Seq(Calls(n)) /\ Len(MarkedUses(uses, u)) = Len(uses)
           /\ \A j \in 1 .. Len(uses) : /\ MarkedUses(uses, u)[j].id = u[uses[j].id]
                                         /\ MarkedUses(uses, u)[j].name = uses[j].name
<1>1. Len(uses) \in Nat /\ \A j \in 1 .. Len(uses) : uses[j] \in Calls(n)
  BY LenProperties, ElementOfSeq
<1>2. \A j \in 1 .. Len(uses) : [id |-> u[uses[j].id], name |-> uses[j].name] \in Calls(n)
  BY <1>1 DEF Calls, Labels
<1>3. PICK m : m = MarkedUses(uses, u)
  OBVIOUS
<1>4. m = [j \in 1 .. Len(uses) |-> [id |-> u[uses[j].id], name |-> uses[j].name]]
  BY <1>3, MarkedUsesIs
<1>5. m \in [1 .. Len(uses) -> Calls(n)]
  BY <1>2, <1>4
<1>6. QED
  BY <1>1, <1>3, <1>4, <1>5

LEMMA MarkedUsesTwice ==
    ASSUME NEW n \in Nat, NEW uses \in Seq(Calls(n)), NEW f \in Labels(n), NEW g
    PROVE  MarkedUses(MarkedUses(uses, f), g) = MarkedUses(uses, After(n, g, f))
<1>1. PICK t : t = MarkedUses(uses, f)
  OBVIOUS
<1>2. /\ t \in Seq(Calls(n)) /\ Len(t) = Len(uses)
      /\ \A j \in 1 .. Len(uses) : t[j].id = f[uses[j].id] /\ t[j].name = uses[j].name
  BY <1>1, MarkedUsesTypes
<1>3. MarkedUses(t, g) = [j \in 1 .. Len(uses) |-> [id |-> g[f[uses[j].id]], name |-> uses[j].name]]
  <2>1. MarkedUses(t, g) = [j \in 1 .. Len(t) |-> [id |-> g[t[j].id], name |-> t[j].name]]
    BY <1>2, MarkedUsesIs
  <2>2. QED
    BY <1>2, <2>1
<1>4. PICK h : h = After(n, g, f)
  OBVIOUS
<1>5. MarkedUses(uses, h) = [j \in 1 .. Len(uses) |-> [id |-> h[uses[j].id], name |-> uses[j].name]]
  BY MarkedUsesIs
<1>6. \A j \in 1 .. Len(uses) : h[uses[j].id] = g[f[uses[j].id]]
  <2>1. \A j \in 1 .. Len(uses) : uses[j] \in Calls(n)
    BY ElementOfSeq
  <2>2. \A j \in 1 .. Len(uses) : uses[j].id \in 1 .. n
    BY <2>1 DEF Calls
  <2>3. QED
    BY <1>4, <2>2 DEF After
<1>7. QED
  BY <1>1, <1>3, <1>4, <1>5, <1>6, Zenon

LEMMA MarkedIs ==
    ASSUME NEW n \in Nat, NEW m \in Translated(n), NEW u, NEW v
    PROVE  Renumbered(m, u, v) = [role |-> m.role, content |-> m.content,
                              results |-> Mapped(v, m.results), uses |-> MarkedUses(m.uses, u)]
<1>1. PICK x, y : x = Mapped(v, m.results) /\ y = MarkedUses(m.uses, u)
  OBVIOUS
<1>2. [m EXCEPT !.results = x, !.uses = y] = [role |-> m.role, content |-> m.content, results |-> x, uses |-> y]
  <2>1. PICK a, b, c, d : a = m.role /\ b = m.content /\ c = m.results /\ d = m.uses
    OBVIOUS
  <2>2. m = [role |-> a, content |-> b, results |-> c, uses |-> d]
    BY <2>1 DEF Translated
  <2>3. PICK k : k = [m EXCEPT !.results = x, !.uses = y]
    OBVIOUS
  <2>4. k.role = a /\ k.content = b /\ k.results = x /\ k.uses = y /\ DOMAIN k = DOMAIN m
    BY <2>2, <2>3
  <2>5. k = [role |-> k.role, content |-> k.content, results |-> k.results, uses |-> k.uses]
    BY <2>2, <2>3
  <2>6. QED
    BY <2>1, <2>3, <2>4, <2>5
<1>3. QED
  BY <1>1, <1>2, RenumberedIs

LEMMA MarkedTypes ==
    ASSUME NEW n \in Nat, NEW m \in Translated(n), NEW u \in Labels(n), NEW v \in Labels(n),
           NEW k, k = Renumbered(m, u, v)
    PROVE  /\ k \in Translated(n) /\ k.role = m.role /\ k.content = m.content
           /\ k.results = Mapped(v, m.results) /\ k.uses = MarkedUses(m.uses, u)
<1>1. PICK x, y : x = Mapped(v, m.results) /\ y = MarkedUses(m.uses, u)
  OBVIOUS
<1>2. m.results \in Seq(1 .. n) /\ m.uses \in Seq(Calls(n))
  BY DEF Translated
<1>3. x \in Seq(1 .. n)
  <2>1. Images(v, 1 .. n) \subseteq 1 .. n
    BY DEF Images, Labels
  <2>2. QED
    BY <1>1, <1>2, <2>1, MappedTypes
<1>4. y \in Seq(Calls(n))
  BY <1>1, <1>2, MarkedUsesTypes
<1>5. k = [role |-> m.role, content |-> m.content, results |-> x, uses |-> y]
  BY <1>1, MarkedIs
<1>6. QED
  BY <1>1, <1>3, <1>4, <1>5 DEF Translated

LEMMA MarkedTwice ==
    ASSUME NEW n \in Nat, NEW m \in Translated(n), NEW u \in Labels(n), NEW v \in Labels(n),
           NEW g, NEW a, NEW b, a = After(n, g, u), b = After(n, g, v)
    PROVE  Renumbered(Renumbered(m, u, v), g, g) = Renumbered(m, a, b)
<1>1. PICK k : k = Renumbered(m, u, v)
  OBVIOUS
<1>2. /\ k \in Translated(n) /\ k.role = m.role /\ k.content = m.content
      /\ k.results = Mapped(v, m.results) /\ k.uses = MarkedUses(m.uses, u)
  BY <1>1, MarkedTypes
<1>3. m.results \in Seq(1 .. n) /\ m.uses \in Seq(Calls(n))
  BY DEF Translated
<1>4. Mapped(g, k.results) = Mapped(b, m.results)
  BY <1>2, <1>3, MappedTwice
<1>5. MarkedUses(k.uses, g) = MarkedUses(m.uses, a)
  BY <1>2, <1>3, MarkedUsesTwice
<1>6. Renumbered(k, g, g) = [role |-> k.role, content |-> k.content,
                         results |-> Mapped(g, k.results), uses |-> MarkedUses(k.uses, g)]
  BY <1>2, MarkedIs
<1>7. Renumbered(m, a, b) = [role |-> m.role, content |-> m.content,
                         results |-> Mapped(b, m.results), uses |-> MarkedUses(m.uses, a)]
  BY MarkedIs
<1>8. QED
  BY <1>1, <1>2, <1>4, <1>5, <1>6, <1>7

-----------------------------------------------------------------------------
(* When two ways to name calls make no difference.                          *)

Agree(S, f, g) == \A x \in S : f[x] = g[x]
CallsOf(m) == {u.id : u \in ToSet(m.uses)}

LEMMA MappedSame ==
    ASSUME NEW T, NEW s \in Seq(T), NEW f, NEW g
    PROVE  Mapped(f, s) = Mapped(g, s) <=> Agree(ToSet(s), f, g)
<1>1. DOMAIN s = 1 .. Len(s) /\ ToSet(s) = {s[i] : i \in 1 .. Len(s)}
  BY LenProperties, ElementsOf
<1>2. /\ DOMAIN Mapped(f, s) = 1 .. Len(s) /\ \A i \in 1 .. Len(s) : Mapped(f, s)[i] = f[s[i]]
      /\ DOMAIN Mapped(g, s) = 1 .. Len(s) /\ \A i \in 1 .. Len(s) : Mapped(g, s)[i] = g[s[i]]
  BY <1>1 DEF Mapped
<1>3. ASSUME Mapped(f, s) = Mapped(g, s)
      PROVE  Agree(ToSet(s), f, g)
  BY <1>1, <1>2, <1>3 DEF Agree
<1>4. ASSUME Agree(ToSet(s), f, g)
      PROVE  Mapped(f, s) = Mapped(g, s)
  <2>1. \A i \in 1 .. Len(s) : f[s[i]] = g[s[i]]
    BY <1>1, <1>4 DEF Agree
  <2>2. QED
    BY <1>1, <2>1 DEF Mapped
<1>5. QED
  BY <1>3, <1>4

LEMMA MarkedUsesSame ==
    ASSUME NEW n \in Nat, NEW uses \in Seq(Calls(n)), NEW f, NEW g
    PROVE  MarkedUses(uses, f) = MarkedUses(uses, g) <=> Agree({c.id : c \in ToSet(uses)}, f, g)
<1>1. ToSet(uses) = {uses[i] : i \in 1 .. Len(uses)}
  BY ElementsOf
<1>2. /\ MarkedUses(uses, f) = [j \in 1 .. Len(uses) |-> [id |-> f[uses[j].id], name |-> uses[j].name]]
      /\ MarkedUses(uses, g) = [j \in 1 .. Len(uses) |-> [id |-> g[uses[j].id], name |-> uses[j].name]]
  BY MarkedUsesIs
<1>3. ASSUME MarkedUses(uses, f) = MarkedUses(uses, g)
      PROVE  Agree({c.id : c \in ToSet(uses)}, f, g)
  <2>1. \A j \in 1 .. Len(uses) : f[uses[j].id] = g[uses[j].id]
    <3> TAKE j \in 1 .. Len(uses)
    <3>1. MarkedUses(uses, f)[j].id = f[uses[j].id]
      BY <1>2
    <3>2. MarkedUses(uses, g)[j].id = g[uses[j].id]
      BY <1>2
    <3>3. QED
      BY <1>3, <3>1, <3>2
  <2>2. QED
    BY <1>1, <2>1 DEF Agree
<1>4. ASSUME Agree({c.id : c \in ToSet(uses)}, f, g)
      PROVE  MarkedUses(uses, f) = MarkedUses(uses, g)
  <2>1. \A j \in 1 .. Len(uses) : f[uses[j].id] = g[uses[j].id]
    BY <1>1, <1>4 DEF Agree
  <2>2. QED
    BY <1>2, <2>1
<1>5. QED
  BY <1>3, <1>4

LEMMA MarkedSame ==
    ASSUME NEW n \in Nat, NEW m \in Translated(n), NEW a, NEW b, NEW c, NEW d
    PROVE  Renumbered(m, a, b) = Renumbered(m, c, d) <=> Agree(CallsOf(m), a, c) /\ Agree(ToSet(m.results), b, d)
<1>1. m.results \in Seq(1 .. n) /\ m.uses \in Seq(Calls(n))
  BY DEF Translated
<1>2. PICK x, y, z, w : /\ x = Mapped(b, m.results) /\ y = MarkedUses(m.uses, a)
                        /\ z = Mapped(d, m.results) /\ w = MarkedUses(m.uses, c)
  OBVIOUS
<1>3. /\ Renumbered(m, a, b) = [role |-> m.role, content |-> m.content, results |-> x, uses |-> y]
      /\ Renumbered(m, c, d) = [role |-> m.role, content |-> m.content, results |-> z, uses |-> w]
  BY <1>2, MarkedIs
<1>4. Renumbered(m, a, b) = Renumbered(m, c, d) <=> x = z /\ y = w
  BY <1>3
<1>5. x = z <=> Agree(ToSet(m.results), b, d)
  BY <1>1, <1>2, MappedSame
<1>6. y = w <=> Agree(CallsOf(m), a, c)
  BY <1>1, <1>2, MarkedUsesSame DEF CallsOf
<1>7. QED
  BY <1>4, <1>5, <1>6

\* The calls that results answer, and the calls that are made, in a request.
AnswersOf(r) == ToSet(r.results) \cup UNION {ToSet(m.results) : m \in ToSet(r.history)}
CallsIn(r) == UNION {CallsOf(m) : m \in ToSet(r.history)}

LEMMA MarkedAllSame ==
    ASSUME NEW n \in Nat, NEW h \in Seq(Translated(n)), NEW a, NEW b, NEW c, NEW d
    PROVE  MarkedAll(h, a, b) = MarkedAll(h, c, d) <=>
              \A m \in ToSet(h) : Agree(CallsOf(m), a, c) /\ Agree(ToSet(m.results), b, d)
<1>1. DOMAIN h = 1 .. Len(h) /\ ToSet(h) = {h[i] : i \in 1 .. Len(h)} /\ \A i \in 1 .. Len(h) : h[i] \in Translated(n)
  BY LenProperties, ElementsOf, ElementOfSeq
<1>2. /\ MarkedAll(h, a, b) = [i \in 1 .. Len(h) |-> Renumbered(h[i], a, b)]
      /\ MarkedAll(h, c, d) = [i \in 1 .. Len(h) |-> Renumbered(h[i], c, d)]
  BY <1>1 DEF MarkedAll
<1>3. \A i \in 1 .. Len(h) : Renumbered(h[i], a, b) = Renumbered(h[i], c, d) <=>
              Agree(CallsOf(h[i]), a, c) /\ Agree(ToSet(h[i].results), b, d)
  BY <1>1, MarkedSame
<1>4. MarkedAll(h, a, b) = MarkedAll(h, c, d) <=> \A i \in 1 .. Len(h) : Renumbered(h[i], a, b) = Renumbered(h[i], c, d)
  BY <1>2
<1>5. QED
  BY <1>1, <1>3, <1>4

LEMMA AgreeEverywhere ==
    ASSUME NEW r, NEW a, NEW b, NEW c, NEW d
    PROVE  (/\ Agree(ToSet(r.results), b, d)
            /\ (\A m \in ToSet(r.history) : Agree(CallsOf(m), a, c) /\ Agree(ToSet(m.results), b, d)))
           <=> Agree(CallsIn(r), a, c) /\ Agree(AnswersOf(r), b, d)
BY DEF Agree, CallsIn, AnswersOf

LEMMA KeySame ==
    ASSUME NEW n \in Nat, NEW r, IsRequest(r, n), NEW a, NEW b, NEW c, NEW d
    PROVE  KeyWith(r, a, b) = KeyWith(r, c, d) <=> Agree(CallsIn(r), a, c) /\ Agree(AnswersOf(r), b, d)
<1>1. PICK h, s : h = r.history /\ s = r.results
  OBVIOUS
<1>2. h \in Seq(Translated(n)) /\ s \in Seq(1 .. n)
  BY <1>1 DEF IsRequest
<1>3. PICK x, y, z, w : x = Mapped(b, s) /\ y = MarkedAll(h, a, b) /\ z = Mapped(d, s) /\ w = MarkedAll(h, c, d)
  OBVIOUS
<1>4. /\ KeyWith(r, a, b) = [model |-> r.model, content |-> r.content, results |-> x, tools |-> r.tools, history |-> y]
      /\ KeyWith(r, c, d) = [model |-> r.model, content |-> r.content, results |-> z, tools |-> r.tools, history |-> w]
  BY <1>1, <1>3 DEF KeyWith
<1>5. KeyWith(r, a, b) = KeyWith(r, c, d) <=> x = z /\ y = w
  BY <1>4
<1>6. x = z <=> Agree(ToSet(r.results), b, d)
  BY <1>1, <1>2, <1>3, MappedSame
<1>7. y = w <=> \A m \in ToSet(r.history) : Agree(CallsOf(m), a, c) /\ Agree(ToSet(m.results), b, d)
  BY <1>1, <1>2, <1>3, MarkedAllSame
<1>8. QED
  BY <1>5, <1>6, <1>7, AgreeEverywhere

LEMMA RelabelledSame ==
    ASSUME NEW n \in Nat, NEW r, IsRequest(r, n), NEW a, NEW b, NEW c, NEW d,
           Agree(CallsIn(r), a, c), Agree(AnswersOf(r), b, d)
    PROVE  Relabelled(r, a, b) = Relabelled(r, c, d)
<1>1. PICK h, s : h = r.history /\ s = r.results
  OBVIOUS
<1>2. h \in Seq(Translated(n)) /\ s \in Seq(1 .. n)
  BY <1>1 DEF IsRequest
<1>3. Mapped(b, s) = Mapped(d, s)
  BY <1>1, <1>2, AgreeEverywhere, MappedSame
<1>4. MarkedAll(h, a, b) = MarkedAll(h, c, d)
  BY <1>1, <1>2, AgreeEverywhere, MarkedAllSame
<1>5. QED
  BY <1>1, <1>3, <1>4, RelabelledIs

-----------------------------------------------------------------------------
(* The number of an id.                                                     *)

FirstAt(ids, id) == SelectInSeq(ids, LAMBDA x : x = id)
UpTo(ids, k) == {ids[i] : i \in 1 .. k}

LEMMA FirstAtIs ==
    ASSUME NEW T, NEW ids \in Seq(T), NEW id \in ToSet(ids), NEW k, k = FirstAt(ids, id)
    PROVE  /\ k \in 1 .. Len(ids) /\ ids[k] = id
           /\ \A i \in 1 .. Len(ids) : ids[i] = id => k <= i
<1> DEFINE I == {i \in 1 .. Len(ids) : ids[i] = id}
           least == CHOOSE x \in I : \A y \in I : x =< y
<1>1. k = IF I # {} THEN least ELSE 0
  BY DEF FirstAt, SelectInSeq, Min
<1>2. I # {} /\ I \subseteq Nat
  <2>1. ToSet(ids) = {ids[i] : i \in 1 .. Len(ids)} /\ Len(ids) \in Nat
    BY ElementsOf, LenProperties
  <2>2. QED
    BY <2>1
<1>3. least \in I /\ \A y \in I : least <= y
  <2> HIDE DEF I
  <2>1. \E x \in I : \A y \in I : x <= y
    BY <1>2, LeastOf
  <2>2. QED
    BY <2>1
<1> HIDE DEF least
<1>4. QED
  BY <1>1, <1>2, <1>3

LEMMA NumberIs ==
    ASSUME NEW T, NEW ids \in Seq(T), NEW id \in ToSet(ids), NEW k, k = FirstAt(ids, id)
    PROVE  normalized_id(ids, id) = Cardinality(UpTo(ids, k))
<1>1. k \in 1 .. Len(ids) /\ Len(ids) \in Nat
  BY FirstAtIs, LenProperties
<1>2. PICK s : s = SubSeq(ids, 1, k)
  OBVIOUS
<1>3. s \in Seq(T) /\ Len(s) = k /\ \A i \in 1 .. k : s[i] = ids[i]
  BY <1>1, <1>2, SubSeqProperties
<1>4. ToSet(s) = {s[i] : i \in 1 .. k}
  BY <1>3, ElementsOf
<1>5. ToSet(s) = UpTo(ids, k)
  BY <1>3, <1>4 DEF UpTo
<1>6. QED
  BY <1>2, <1>5 DEF normalized_id, FirstAt

LEMMA UpToFinite ==
    ASSUME NEW n \in Nat, NEW ids \in Seq(1 .. n), NEW k \in 0 .. Len(ids)
    PROVE  IsFiniteSet(UpTo(ids, k)) /\ UpTo(ids, k) \subseteq 1 .. n
<1>1. \A i \in 1 .. Len(ids) : ids[i] \in 1 .. n
  BY ElementOfSeq
<1>2. UpTo(ids, k) \subseteq 1 .. n
  <2>1. 1 .. k \subseteq 1 .. Len(ids)
    BY LenProperties
  <2>2. QED
    BY <1>1, <2>1 DEF UpTo
<1>3. IsFiniteSet(1 .. n)
  BY FS_Interval
<1>4. PICK S, R : S = UpTo(ids, k) /\ R = 1 .. n
  OBVIOUS
<1>5. IsFiniteSet(S)
  BY <1>2, <1>3, <1>4, FS_Subset
<1>6. QED
  BY <1>2, <1>4, <1>5

\* An id that occurs later first has a greater number.
LEMMA NumberGrows ==
    ASSUME NEW n \in Nat, NEW ids \in Seq(1 .. n), NEW x \in ToSet(ids), NEW y \in ToSet(ids),
           FirstAt(ids, x) < FirstAt(ids, y)
    PROVE  normalized_id(ids, x) # normalized_id(ids, y)
<1>1. PICK j, k : j = FirstAt(ids, x) /\ k = FirstAt(ids, y)
  OBVIOUS
<1>2. /\ j \in 1 .. Len(ids) /\ ids[j] = x
      /\ \A i \in 1 .. Len(ids) : ids[i] = x => j <= i
  BY <1>1, FirstAtIs
<1>3. /\ k \in 1 .. Len(ids) /\ ids[k] = y
      /\ \A i \in 1 .. Len(ids) : ids[i] = y => k <= i
  BY <1>1, FirstAtIs
<1>4. j < k /\ Len(ids) \in Nat
  BY <1>1, LenProperties
<1>5. PICK P, Q : P = UpTo(ids, j) /\ Q = UpTo(ids, k)
  OBVIOUS
<1>6. P \subseteq Q
  BY <1>2, <1>3, <1>4, <1>5 DEF UpTo
<1>7. y \in Q
  BY <1>3, <1>5 DEF UpTo
<1>8. y \notin P
  BY <1>2, <1>3, <1>4, <1>5 DEF UpTo
<1>9. IsFiniteSet(Q)
  BY <1>3, <1>5, UpToFinite
<1>10. Cardinality(P) # Cardinality(Q)
  BY <1>6, <1>7, <1>8, <1>9, FS_Subset
<1>11. normalized_id(ids, x) = Cardinality(P) /\ normalized_id(ids, y) = Cardinality(Q)
  BY <1>1, <1>5, NumberIs
<1>12. QED
  BY <1>10, <1>11

\* Ids with the same number are the same.
LEMMA NumbersDiffer ==
    ASSUME NEW n \in Nat, NEW ids \in Seq(1 .. n), NEW x \in ToSet(ids), NEW y \in ToSet(ids),
           normalized_id(ids, x) = normalized_id(ids, y)
    PROVE  x = y
<1>1. PICK j, k : j = FirstAt(ids, x) /\ k = FirstAt(ids, y)
  OBVIOUS
<1>2. j \in 1 .. Len(ids) /\ ids[j] = x /\ k \in 1 .. Len(ids) /\ ids[k] = y
  BY <1>1, FirstAtIs
<1>3. ~(j < k) /\ ~(k < j)
  BY <1>1, NumberGrows
<1>4. QED
  BY <1>2, <1>3, LenProperties

OneToOne(f, S) == \A a \in S, b \in S : f[a] = f[b] => a = b

LEMMA SameSize ==
    ASSUME NEW S, IsFiniteSet(S), NEW f, OneToOne(f, S)
    PROVE  Cardinality(Images(f, S)) = Cardinality(S)
<1>1. PICK T : T = Images(f, S)
  OBVIOUS
<1>2. PICK g : g = [x \in S |-> f[x]]
  OBVIOUS
<1>3. g \in Bijection(S, T)
  BY <1>1, <1>2 DEF OneToOne, Images, Bijection, Injection, Surjection, IsInjective
<1>4. ExistsBijection(S, T)
  BY <1>3 DEF ExistsBijection
<1>5. QED
  BY <1>1, <1>4, FS_Bijection

\* Other ids have the same numbers.
LEMMA NumberKept ==
    ASSUME NEW n \in Nat, NEW ids \in Seq(1 .. n), NEW p \in Labels(n), OneToOne(p, 1 .. n),
           NEW x \in ToSet(ids), NEW t, t = Mapped(p, ids)
    PROVE  p[x] \in ToSet(t) /\ normalized_id(t, p[x]) = normalized_id(ids, x)
<1>1. Images(p, 1 .. n) \subseteq 1 .. n
  BY DEF Images, Labels
<1>2. t \in Seq(1 .. n)
  BY <1>1, MappedTypes
<1>3. Len(t) = Len(ids) /\ \A i \in 1 .. Len(ids) : t[i] = p[ids[i]]
  BY MappedIs
<1>4. \A i \in 1 .. Len(ids) : ids[i] \in 1 .. n
  BY ElementOfSeq
<1>5. ToSet(ids) \subseteq 1 .. n
  BY ElementsOf
<1>6. PICK y : y = p[x]
  OBVIOUS
<1>7. y \in ToSet(t)
  BY <1>6, MappedElements DEF Images
<1>8. \A i \in 1 .. Len(ids) : t[i] = y <=> ids[i] = x
  BY <1>3, <1>4, <1>5, <1>6 DEF OneToOne
<1>9. PICK j, k : j = FirstAt(ids, x) /\ k = FirstAt(t, y)
  OBVIOUS
<1>10. j \in 1 .. Len(ids) /\ ids[j] = x /\ \A i \in 1 .. Len(ids) : ids[i] = x => j <= i
  BY <1>9, FirstAtIs
<1>11. k \in 1 .. Len(t) /\ t[k] = y /\ \A i \in 1 .. Len(t) : t[i] = y => k <= i
  BY <1>2, <1>7, <1>9, FirstAtIs
<1>12. j = k
  BY <1>3, <1>8, <1>10, <1>11, LenProperties
<1>13. PICK P, Q : P = UpTo(ids, j) /\ Q = UpTo(t, j)
  OBVIOUS
<1>14. Q = Images(p, P)
  <2>1. \A i \in 1 .. j : t[i] = p[ids[i]]
    BY <1>3, <1>10, LenProperties
  <2>2. QED
    BY <1>13, <2>1 DEF UpTo, Images
<1>15. IsFiniteSet(P) /\ P \subseteq 1 .. n
  <2>1. j \in 0 .. Len(ids)
    BY <1>10, LenProperties
  <2>2. QED
    BY <1>13, <2>1, UpToFinite
<1>16. OneToOne(p, P)
  BY <1>15 DEF OneToOne
<1>17. Cardinality(Q) = Cardinality(P)
  BY <1>14, <1>15, <1>16, SameSize
<1>18. normalized_id(ids, x) = Cardinality(P)
  BY <1>9, <1>13, NumberIs
<1>19. normalized_id(t, y) = Cardinality(Q)
  BY <1>2, <1>7, <1>9, <1>12, <1>13, NumberIs
<1>20. QED
  BY <1>6, <1>7, <1>17, <1>18, <1>19

-----------------------------------------------------------------------------
(* What some ids are called can be completed to what all are.               *)

LEMMA Completed ==
    ASSUME NEW n \in Nat, NEW D, D \subseteq 1 .. n, NEW f, Images(f, D) \subseteq 1 .. n, OneToOne(f, D)
    PROVE  \E q \in Labels(n) : OneToOne(q, 1 .. n) /\ Agree(D, q, f)
<1>1. PICK N, R : N = 1 .. n /\ R = Images(f, D)
  OBVIOUS
<1>2. IsFiniteSet(N)
  BY <1>1, FS_Interval
<1>3. IsFiniteSet(D) /\ IsFiniteSet(R)
  BY <1>1, <1>2, FS_Subset
<1>4. Cardinality(R) = Cardinality(D)
  BY <1>1, <1>3, SameSize
<1>5. PICK S, T : S = N \ D /\ T = N \ R
  OBVIOUS
<1>6. N \cap D = D /\ N \cap R = R
  BY <1>1
<1>7. IsFiniteSet(S) /\ Cardinality(S) = Cardinality(N) - Cardinality(D)
  <2>1. /\ IsFiniteSet(N \ D)
        /\ Cardinality(N \ D) = Cardinality(N) - Cardinality(N \cap D)
    BY <1>2, FS_Difference
  <2>2. QED
    BY <1>5, <1>6, <2>1
<1>8. IsFiniteSet(T) /\ Cardinality(T) = Cardinality(N) - Cardinality(R)
  <2>1. /\ IsFiniteSet(N \ R)
        /\ Cardinality(N \ R) = Cardinality(N) - Cardinality(N \cap R)
    BY <1>2, FS_Difference
  <2>2. QED
    BY <1>5, <1>6, <2>1
<1>9. ExistsBijection(S, T)
  BY <1>4, <1>7, <1>8, FS_SameCardinalityBij
<1>10. PICK g : g \in Bijection(S, T)
  BY <1>9 DEF ExistsBijection
<1>11. g \in [S -> T] /\ OneToOne(g, S)
  BY <1>10 DEF Bijection, Injection, IsInjective, OneToOne
<1>12. PICK q : q = [x \in N |-> IF x \in D THEN f[x] ELSE g[x]]
  OBVIOUS
<1>13. \A x \in D : f[x] \in R
  BY <1>1 DEF Images
<1>14. R \subseteq N /\ D \subseteq N
  BY <1>1
<1>15. q \in [N -> N]
  BY <1>5, <1>11, <1>12, <1>13, <1>14
<1>16. OneToOne(q, N)
  <2> SUFFICES ASSUME NEW a \in N, NEW b \in N, q[a] = q[b]
               PROVE  a = b
    BY DEF OneToOne
  <2>1. CASE a \in D /\ b \in D
    BY <1>12, <2>1 DEF OneToOne
  <2>2. CASE a \in D /\ b \notin D
    BY <1>5, <1>11, <1>12, <1>13, <2>2
  <2>3. CASE a \notin D /\ b \in D
    BY <1>5, <1>11, <1>12, <1>13, <2>3
  <2>4. CASE a \notin D /\ b \notin D
    BY <1>5, <1>11, <1>12, <2>4 DEF OneToOne
  <2>5. QED
    BY <2>1, <2>2, <2>3, <2>4
<1>17. Agree(D, q, f)
  BY <1>12, <1>14 DEF Agree
<1>18. QED
  BY <1>1, <1>15, <1>16, <1>17 DEF Labels

-----------------------------------------------------------------------------
(* The ids of a request in which calls have other ids.                      *)

IdsOf(m) == m.results \o [j \in DOMAIN m.uses |-> m.uses[j].id]

LEMMA IdsInOrderIs ==
    ASSUME NEW r
    PROVE  IdsInOrder(r) = r.results \o FlattenSeq([i \in DOMAIN r.history |-> IdsOf(r.history[i])])
BY DEF IdsInOrder, IdsOf

LEMMA CallIdsAre ==
    ASSUME NEW n \in Nat, NEW uses \in Seq(Calls(n)), NEW s, s = [j \in DOMAIN uses |-> uses[j].id]
    PROVE  /\ s \in Seq(1 .. n) /\ Len(s) = Len(uses) /\ \A j \in 1 .. Len(uses) : s[j] = uses[j].id
           /\ ToSet(s) = {c.id : c \in ToSet(uses)}
<1>1. PICK k \in Nat : k = Len(uses)
  BY LenProperties
<1>2. DOMAIN uses = 1 .. k /\ \A j \in 1 .. k : uses[j] \in Calls(n)
  BY <1>1, LenProperties, ElementOfSeq
<1>3. s \in [1 .. k -> 1 .. n] /\ \A j \in 1 .. k : s[j] = uses[j].id
  BY <1>2 DEF Calls
<1>4. s \in Seq(1 .. n)
  <2>1. PICK N : N = 1 .. n
    OBVIOUS
  <2>2. s \in [1 .. k -> N]
    BY <1>3, <2>1
  <2>3. s \in Seq(N)
    BY <2>2, SeqDef
  <2>4. QED
    BY <2>1, <2>3
<1>5. Len(s) = k
  <2>1. DOMAIN s = 1 .. k /\ DOMAIN s = 1 .. Len(s) /\ Len(s) \in Nat
    BY <1>3, <1>4, LenProperties
  <2>2. QED
    BY <2>1
<1>6. ToSet(s) = {s[j] : j \in 1 .. k} /\ ToSet(uses) = {uses[j] : j \in 1 .. k}
  <2>0. \A q \in Seq(1 .. n) : ToSet(q) = {q[j] : j \in 1 .. Len(q)}
    BY ElementsOf
  <2>1. ToSet(s) = {s[j] : j \in 1 .. Len(s)}
    BY <1>4, <2>0, Zenon
  <2>2. ToSet(uses) = {uses[j] : j \in 1 .. Len(uses)}
    BY ElementsOf
  <2>3. QED
    BY <1>1, <1>5, <2>1, <2>2
<1>7. ToSet(s) = {c.id : c \in ToSet(uses)}
  BY <1>3, <1>6
<1>8. QED
  BY <1>1, <1>3, <1>4, <1>5, <1>7

LEMMA IdsOfTypes ==
    ASSUME NEW n \in Nat, NEW m \in Translated(n), NEW s, s = IdsOf(m)
    PROVE  s \in Seq(1 .. n) /\ ToSet(s) = ToSet(m.results) \cup CallsOf(m)
<1>1. PICK a, u, b : a = m.results /\ u = m.uses /\ b = [j \in DOMAIN u |-> u[j].id]
  OBVIOUS
<1>2. a \in Seq(1 .. n) /\ u \in Seq(Calls(n))
  BY <1>1 DEF Translated
<1>3. b \in Seq(1 .. n) /\ ToSet(b) = {c.id : c \in ToSet(u)}
  BY <1>1, <1>2, CallIdsAre
<1>4. s = a \o b
  BY <1>1 DEF IdsOf
<1>5. a \o b \in Seq(1 .. n)
  BY <1>2, <1>3, ConcatProperties
<1>6. ToSet(a \o b) = ToSet(a) \cup ToSet(b)
  BY <1>2, <1>3, ElementsOfConcat
<1>7. QED
  BY <1>1, <1>3, <1>4, <1>5, <1>6 DEF CallsOf

LEMMA IdsOfMarked ==
    ASSUME NEW n \in Nat, NEW m \in Translated(n), NEW p \in Labels(n)
    PROVE  IdsOf(Renumbered(m, p, p)) = Mapped(p, IdsOf(m))
<1>1. PICK k : k = Renumbered(m, p, p)
  OBVIOUS
<1>2. k \in Translated(n) /\ k.results = Mapped(p, m.results) /\ k.uses = MarkedUses(m.uses, p)
  BY <1>1, MarkedTypes
<1>3. m.results \in Seq(1 .. n) /\ m.uses \in Seq(Calls(n)) /\ k.uses \in Seq(Calls(n))
  BY <1>2 DEF Translated
<1>4. PICK a, u, b, w, c : /\ a = m.results /\ u = m.uses /\ b = [j \in DOMAIN u |-> u[j].id]
                           /\ w = k.uses /\ c = [j \in DOMAIN w |-> w[j].id]
  OBVIOUS
<1>5. b \in Seq(1 .. n) /\ Len(b) = Len(u) /\ \A j \in 1 .. Len(u) : b[j] = u[j].id
  BY <1>3, <1>4, CallIdsAre
<1>6. c \in Seq(1 .. n) /\ Len(c) = Len(w) /\ \A j \in 1 .. Len(w) : c[j] = w[j].id
  BY <1>3, <1>4, CallIdsAre
<1>7. w = MarkedUses(u, p) /\ u \in Seq(Calls(n))
  BY <1>2, <1>3, <1>4
<1>8. Len(w) = Len(u) /\ \A j \in 1 .. Len(u) : w[j].id = p[u[j].id]
  BY <1>7, MarkedUsesTypes
<1>9. PICK d : d = Mapped(p, b)
  OBVIOUS
<1>10. d \in Seq(Images(p, 1 .. n)) /\ Len(d) = Len(b) /\ \A j \in 1 .. Len(b) : d[j] = p[b[j]]
  BY <1>5, <1>9, MappedIs
<1>11. c = d
  <2>1. PICK z : z = Len(u)
    OBVIOUS
  <2>2. Len(c) = z /\ Len(d) = z /\ Len(w) = z /\ Len(b) = z
    BY <1>5, <1>6, <1>8, <1>10, <2>1
  <2>3. \A j \in 1 .. z : c[j] = w[j].id /\ w[j].id = p[u[j].id]
    BY <1>6, <1>8, <2>1, <2>2
  <2>4. \A j \in 1 .. z : d[j] = p[b[j]] /\ b[j] = u[j].id
    BY <1>5, <1>10, <2>1, <2>2
  <2>5. \A j \in 1 .. Len(c) : c[j] = d[j]
    BY <2>2, <2>3, <2>4
  <2>6. Len(c) = Len(d)
    BY <2>2
  <2>7. Images(p, 1 .. n) \subseteq 1 .. n
    BY DEF Images, Labels
  <2>8. PICK R : R = Seq(1 .. n)
    OBVIOUS
  <2>9. d \in R
    BY <1>5, <1>9, <2>7, <2>8, MappedTypes
  <2>10. QED
    BY <1>6, <2>5, <2>6, <2>8, <2>9, SeqEqual
<1>12. IdsOf(k) = Mapped(p, a) \o c
  BY <1>2, <1>4 DEF IdsOf
<1>13. IdsOf(m) = a \o b
  BY <1>4 DEF IdsOf
<1>14. MapsConcat(p, a, b)
  BY <1>3, <1>4, <1>5, MappedConcat
<1>15. QED
  BY <1>1, <1>9, <1>11, <1>12, <1>13, <1>14 DEF MapsConcat

\* The ids of every message of a history.
Lists(h) == [i \in DOMAIN h |-> IdsOf(h[i])]

\* The calls that a history answers, and those that it makes.
AnsweredIn(h) == UNION {ToSet(m.results) : m \in ToSet(h)}
CalledIn(h) == UNION {CallsOf(m) : m \in ToSet(h)}

LEMMA ListsAre ==
    ASSUME NEW n \in Nat, NEW h \in Seq(Translated(n)), NEW s, s = Lists(h)
    PROVE  /\ s \in Seq(Seq(1 .. n)) /\ Len(s) = Len(h)
           /\ \A i \in 1 .. Len(h) : s[i] = IdsOf(h[i])
           /\ Parts(s) = AnsweredIn(h) \cup CalledIn(h)
<1>1. PICK k \in Nat : k = Len(h)
  BY LenProperties
<1>2. DOMAIN h = 1 .. k /\ \A i \in 1 .. k : h[i] \in Translated(n)
  BY <1>1, LenProperties, ElementOfSeq
<1>3. PICK R : R = Seq(1 .. n)
  OBVIOUS
<1>4. s \in [1 .. k -> R] /\ \A i \in 1 .. k : s[i] = IdsOf(h[i])
  <2>1. \A i \in 1 .. k : IdsOf(h[i]) \in R
    BY <1>2, <1>3, IdsOfTypes
  <2>2. s = [i \in 1 .. k |-> IdsOf(h[i])]
    BY <1>2 DEF Lists
  <2>3. QED
    BY <2>1, <2>2
<1>5. s \in Seq(R)
  BY <1>4, SeqDef
<1>6. Len(s) = k /\ DOMAIN s = 1 .. k
  <2>1. DOMAIN s = 1 .. k /\ DOMAIN s = 1 .. Len(s) /\ Len(s) \in Nat
    BY <1>4, <1>5, LenProperties
  <2>2. QED
    BY <2>1
<1>7. \A i \in 1 .. k : ToSet(s[i]) = ToSet(h[i].results) \cup CallsOf(h[i])
  BY <1>2, <1>4, IdsOfTypes
<1>8. ToSet(h) = {h[i] : i \in 1 .. k}
  BY <1>1, ElementsOf
<1>9. Parts(s) = AnsweredIn(h) \cup CalledIn(h)
  <2>1. Parts(s) = UNION {ToSet(s[i]) : i \in 1 .. k}
    BY <1>6 DEF Parts
  <2>2. ASSUME NEW x \in Parts(s)
        PROVE  \E m \in ToSet(h) : x \in ToSet(m.results) \/ x \in CallsOf(m)
    <3>1. PICK i \in 1 .. k : x \in ToSet(s[i])
      BY <2>1, <2>2
    <3>2. x \in ToSet(h[i].results) \/ x \in CallsOf(h[i])
      BY <1>7, <3>1
    <3>3. h[i] \in ToSet(h)
      BY <1>8
    <3>4. QED
      BY <3>2, <3>3
  <2>3. ASSUME NEW m \in ToSet(h), NEW x, x \in ToSet(m.results) \/ x \in CallsOf(m)
        PROVE  x \in Parts(s)
    <3>1. PICK i \in 1 .. k : m = h[i]
      BY <1>8
    <3>2. x \in ToSet(s[i])
      BY <1>7, <2>3, <3>1
    <3>3. QED
      BY <2>1, <3>2
  <2>4. PICK A, B, P : A = AnsweredIn(h) /\ B = CalledIn(h) /\ P = Parts(s)
    OBVIOUS
  <2>5. \A x : x \in A <=> \E m \in ToSet(h) : x \in ToSet(m.results)
    BY <2>4 DEF AnsweredIn
  <2>6. \A x : x \in B <=> \E m \in ToSet(h) : x \in CallsOf(m)
    BY <2>4 DEF CalledIn
  <2>7. \A x \in P : x \in A \/ x \in B
    BY <2>2, <2>4, <2>5, <2>6
  <2>8. \A x : x \in A \/ x \in B => x \in P
    BY <2>3, <2>4, <2>5, <2>6
  <2>9. P = A \cup B
    BY <2>7, <2>8
  <2>10. QED
    BY <2>4, <2>9
<1>10. QED
  BY <1>1, <1>3, <1>4, <1>5, <1>6, <1>9

LEMMA IdsTypes ==
    ASSUME NEW n \in Nat, NEW r, IsRequest(r, n), NEW s, s = IdsInOrder(r)
    PROVE  s \in Seq(1 .. n) /\ ToSet(s) = AnswersOf(r) \cup CallsIn(r)
<1>1. PICK h, a, l, b : h = r.history /\ a = r.results /\ l = Lists(h) /\ b = FlattenSeq(l)
  OBVIOUS
<1>2. h \in Seq(Translated(n)) /\ a \in Seq(1 .. n)
  BY <1>1 DEF IsRequest
<1>3. /\ l \in Seq(Seq(1 .. n))
      /\ Parts(l) = AnsweredIn(h) \cup CalledIn(h)
  BY <1>1, <1>2, ListsAre
<1>4. b \in Seq(1 .. n)
  BY <1>1, <1>3, FlattenTypes
<1>5. ToSet(b) = Parts(l)
  BY <1>1, <1>3, FlattenElements
<1>6. s = a \o b
  BY <1>1, IdsInOrderIs DEF Lists
<1>7. a \o b \in Seq(1 .. n)
  BY <1>2, <1>4, ConcatProperties
<1>8. ToSet(a \o b) = ToSet(a) \cup ToSet(b)
  BY <1>2, <1>4, ElementsOfConcat
<1>9. PICK A, B : A = AnsweredIn(h) /\ B = CalledIn(h)
  OBVIOUS
<1>10. ToSet(b) = A \cup B
  BY <1>3, <1>5, <1>9
<1>11. AnswersOf(r) = ToSet(a) \cup A /\ CallsIn(r) = B
  BY <1>1, <1>9, Zenon DEF AnswersOf, CallsIn, AnsweredIn, CalledIn
<1>12. ToSet(s) = AnswersOf(r) \cup CallsIn(r)
  <2>1. ToSet(s) = ToSet(a) \cup (A \cup B)
    BY <1>6, <1>8, <1>10
  <2>2. QED
    BY <1>11, <2>1
<1>13. QED
  BY <1>6, <1>7, <1>12

LEMMA MarkedAllIs ==
    ASSUME NEW n \in Nat, NEW h \in Seq(Translated(n)), NEW u \in Labels(n), NEW v \in Labels(n),
           NEW t, t = MarkedAll(h, u, v)
    PROVE  /\ t \in Seq(Translated(n)) /\ Len(t) = Len(h)
           /\ \A i \in 1 .. Len(h) : t[i] = Renumbered(h[i], u, v)
<1>1. PICK k \in Nat : k = Len(h)
  BY LenProperties
<1>2. DOMAIN h = 1 .. k /\ \A i \in 1 .. k : h[i] \in Translated(n)
  BY <1>1, LenProperties, ElementOfSeq
<1>3. \A i \in 1 .. k : Renumbered(h[i], u, v) \in Translated(n)
  BY <1>2, MarkedTypes
<1>4. t = [i \in 1 .. k |-> Renumbered(h[i], u, v)]
  BY <1>2 DEF MarkedAll
<1>5. t \in [1 .. k -> Translated(n)]
  BY <1>3, <1>4
<1>6. t \in Seq(Translated(n))
  BY <1>5, SeqDef
<1>7. Len(t) = k
  <2>1. DOMAIN t = 1 .. k /\ DOMAIN t = 1 .. Len(t) /\ Len(t) \in Nat
    BY <1>5, <1>6, LenProperties
  <2>2. QED
    BY <2>1
<1>8. QED
  BY <1>1, <1>4, <1>6, <1>7

LEMMA RelabelledFields ==
    ASSUME NEW n \in Nat, NEW r, IsRequest(r, n), NEW u, NEW v, NEW o, o = Relabelled(r, u, v)
    PROVE  /\ o.results = Mapped(v, r.results) /\ o.history = MarkedAll(r.history, u, v)
           /\ o.state = r.state /\ o.model = r.model /\ o.id = r.id /\ o.content = r.content
           /\ o.tools = r.tools /\ o.map = r.map
           /\ o = [state |-> o.state, model |-> o.model, id |-> o.id, history |-> o.history,
                   content |-> o.content, results |-> o.results, tools |-> o.tools, map |-> o.map]
<1>1. PICK x, y : x = Mapped(v, r.results) /\ y = MarkedAll(r.history, u, v)
  OBVIOUS
<1>2. o = [r EXCEPT !.results = x, !.history = y]
  BY <1>1, RelabelledIs
<1>3. r = [state |-> "sent", model |-> r.model, id |-> r.id, history |-> r.history,
           content |-> r.content, results |-> r.results, tools |-> r.tools, map |-> r.map]
  BY DEF IsRequest
<1>4. /\ o.results = x /\ o.history = y
      /\ o.state = r.state /\ o.model = r.model /\ o.id = r.id /\ o.content = r.content
      /\ o.tools = r.tools /\ o.map = r.map
  BY <1>2, <1>3
<1>5. o = [state |-> o.state, model |-> o.model, id |-> o.id, history |-> o.history,
           content |-> o.content, results |-> o.results, tools |-> o.tools, map |-> o.map]
  BY <1>2, <1>3
<1>6. QED
  BY <1>1, <1>4, <1>5

LEMMA RelabelledTypes ==
    ASSUME NEW n \in Nat, NEW r, IsRequest(r, n), NEW u \in Labels(n), NEW v \in Labels(n),
           NEW o, o = Relabelled(r, u, v)
    PROVE  IsRequest(o, n)
<1>1. PICK h, a, k, b : h = r.history /\ a = r.results /\ k = o.history /\ b = o.results
  OBVIOUS
<1>2. h \in Seq(Translated(n)) /\ a \in Seq(1 .. n) /\ r.content \in Seq(1 .. MaxMessages) /\ r.state = "sent"
  BY <1>1 DEF IsRequest
<1>3. k = MarkedAll(h, u, v) /\ b = Mapped(v, a)
  BY <1>1, RelabelledFields
<1>4. k \in Seq(Translated(n))
  BY <1>2, <1>3, MarkedAllIs
<1>5. b \in Seq(1 .. n)
  <2>1. Images(v, 1 .. n) \subseteq 1 .. n
    BY DEF Images, Labels
  <2>2. QED
    BY <1>2, <1>3, <2>1, MappedTypes
<1>6. o.content = r.content /\ o.state = r.state
  BY RelabelledFields
<1>7. o = [state |-> o.state, model |-> o.model, id |-> o.id, history |-> o.history,
           content |-> o.content, results |-> o.results, tools |-> o.tools, map |-> o.map]
  BY RelabelledFields
<1>8. QED
  BY <1>1, <1>2, <1>4, <1>5, <1>6, <1>7 DEF IsRequest

\* Relabelled alike, the ids are in the same order.
LEMMA IdsMapped ==
    ASSUME NEW n \in Nat, NEW r, IsRequest(r, n), NEW p \in Labels(n)
    PROVE  IdsInOrder(Relabelled(r, p, p)) = Mapped(p, IdsInOrder(r))
<1>1. PICK h, a, o : h = r.history /\ a = r.results /\ o = Relabelled(r, p, p)
  OBVIOUS
<1>2. PICK k, l, g : k = o.history /\ l = Lists(h) /\ g = Lists(k)
  OBVIOUS
<1>3. h \in Seq(Translated(n)) /\ a \in Seq(1 .. n)
  BY <1>1 DEF IsRequest
<1>4. k = MarkedAll(h, p, p) /\ o.results = Mapped(p, a)
  BY <1>1, <1>2, RelabelledFields
<1>5. /\ k \in Seq(Translated(n)) /\ Len(k) = Len(h)
      /\ \A i \in 1 .. Len(h) : k[i] = Renumbered(h[i], p, p)
  BY <1>3, <1>4, MarkedAllIs
<1>6. l \in Seq(Seq(1 .. n)) /\ Len(l) = Len(h) /\ \A i \in 1 .. Len(h) : l[i] = IdsOf(h[i])
  BY <1>2, <1>3, ListsAre
<1>7. g \in Seq(Seq(1 .. n)) /\ Len(g) = Len(k) /\ \A i \in 1 .. Len(k) : g[i] = IdsOf(k[i])
  BY <1>2, <1>5, ListsAre
<1>8. PICK f : f = MappedParts(p, l)
  OBVIOUS
<1>9. /\ f \in Seq(Seq(Images(p, 1 .. n))) /\ Len(f) = Len(l)
      /\ \A i \in 1 .. Len(l) : f[i] = Mapped(p, l[i])
  BY <1>6, <1>8, MappedPartsIs
<1>10. \A i \in 1 .. Len(h) : h[i] \in Translated(n)
  BY <1>3, ElementOfSeq
<1>11. \A i \in 1 .. Len(h) : IdsOf(Renumbered(h[i], p, p)) = Mapped(p, IdsOf(h[i]))
  BY <1>10, IdsOfMarked
<1>12. Len(g) = Len(f) /\ \A i \in 1 .. Len(g) : g[i] = f[i]
  BY <1>5, <1>6, <1>7, <1>9, <1>11
<1>13. g = f
  <2>1. PICK R, S : R = Seq(1 .. n) /\ S = Seq(Images(p, 1 .. n))
    OBVIOUS
  <2>2. g \in Seq(R) /\ f \in Seq(S)
    BY <1>7, <1>9, <2>1
  <2>3. QED
    BY <1>12, <2>2, SeqEqual
<1>14. PICK b : b = FlattenSeq(l)
  OBVIOUS
<1>15. b \in Seq(1 .. n)
  BY <1>6, <1>14, FlattenTypes
<1>16. FlattenSeq(g) = Mapped(p, b)
  BY <1>6, <1>8, <1>13, <1>14, MappedFlatten
<1>17. IdsInOrder(r) = a \o b
  BY <1>1, <1>2, <1>14, IdsInOrderIs DEF Lists
<1>18. IdsInOrder(o) = Mapped(p, a) \o Mapped(p, b)
  BY <1>2, <1>4, <1>16, IdsInOrderIs DEF Lists
<1>19. MapsConcat(p, a, b)
  BY <1>3, <1>15, MappedConcat
<1>20. QED
  BY <1>1, <1>17, <1>18, <1>19 DEF MapsConcat

\* The calls of a request in which the calls that are made have other ids.
LEMMA RelabelledIds ==
    ASSUME NEW n \in Nat, NEW r, IsRequest(r, n), NEW u \in Labels(n), NEW v \in Labels(n),
           NEW o, o = Relabelled(r, u, v)
    PROVE  AnswersOf(o) = Images(v, AnswersOf(r)) /\ CallsIn(o) = Images(u, CallsIn(r))
<1>1. PICK h, a, k, b : h = r.history /\ a = r.results /\ k = o.history /\ b = o.results
  OBVIOUS
<1>2. h \in Seq(Translated(n)) /\ a \in Seq(1 .. n)
  BY <1>1 DEF IsRequest
<1>3. k = MarkedAll(h, u, v) /\ b = Mapped(v, a)
  BY <1>1, RelabelledFields
<1>4. /\ k \in Seq(Translated(n)) /\ Len(k) = Len(h)
      /\ \A i \in 1 .. Len(h) : k[i] = Renumbered(h[i], u, v)
  <2>1. PICK t : t = MarkedAll(h, u, v)
    OBVIOUS
  <2>2. /\ t \in Seq(Translated(n)) /\ Len(t) = Len(h)
        /\ \A i \in 1 .. Len(h) : t[i] = Renumbered(h[i], u, v)
    BY <1>2, <2>1, MarkedAllIs
  <2>3. k = t
    BY <1>3, <2>1
  <2>4. QED
    BY <2>2, <2>3, Zenon
<1>5. PICK z : z = Len(h)
  OBVIOUS
<1>6. ToSet(h) = {h[i] : i \in 1 .. z} /\ ToSet(k) = {k[i] : i \in 1 .. z}
  BY <1>2, <1>4, <1>5, ElementsOf
<1>7. \A i \in 1 .. z : h[i] \in Translated(n)
  BY <1>2, <1>5, ElementOfSeq
<1>8. \A i \in 1 .. z : k[i].results = Mapped(v, h[i].results) /\ k[i].uses = MarkedUses(h[i].uses, u)
  BY <1>4, <1>5, <1>7, MarkedTypes
<1>9. \A i \in 1 .. z : ToSet(k[i].results) = Images(v, ToSet(h[i].results))
  <2> TAKE i \in 1 .. z
  <2>1. h[i].results \in Seq(1 .. n)
    BY <1>7 DEF Translated
  <2>2. QED
    BY <1>8, <2>1, MappedElements
<1>10. \A i \in 1 .. z : CallsOf(k[i]) = Images(u, CallsOf(h[i]))
  <2> TAKE i \in 1 .. z
  <2>1. PICK s, t : s = h[i].uses /\ t = k[i].uses
    OBVIOUS
  <2>2. s \in Seq(Calls(n))
    BY <1>7, <2>1 DEF Translated
  <2>3. t = MarkedUses(s, u)
    BY <1>8, <2>1
  <2>4. t \in Seq(Calls(n)) /\ Len(t) = Len(s) /\ \A j \in 1 .. Len(s) : t[j].id = u[s[j].id]
    BY <2>2, <2>3, MarkedUsesTypes
  <2>5. ToSet(s) = {s[j] : j \in 1 .. Len(s)} /\ ToSet(t) = {t[j] : j \in 1 .. Len(s)}
    BY <2>2, <2>4, ElementsOf
  <2>6. CallsOf(h[i]) = {s[j].id : j \in 1 .. Len(s)}
    BY <2>1, <2>5 DEF CallsOf
  <2>7. CallsOf(k[i]) = {t[j].id : j \in 1 .. Len(s)}
    BY <2>1, <2>5 DEF CallsOf
  <2>8. QED
    BY <2>4, <2>6, <2>7 DEF Images
<1>11. ToSet(b) = Images(v, ToSet(a))
  BY <1>2, <1>3, MappedElements
<1>12. AnswersOf(r) = ToSet(a) \cup UNION {ToSet(h[i].results) : i \in 1 .. z}
  BY <1>1, <1>6 DEF AnswersOf
<1>13. AnswersOf(o) = ToSet(b) \cup UNION {ToSet(k[i].results) : i \in 1 .. z}
  BY <1>1, <1>6 DEF AnswersOf
<1>14. CallsIn(r) = UNION {CallsOf(h[i]) : i \in 1 .. z}
  BY <1>1, <1>6 DEF CallsIn
<1>15. CallsIn(o) = UNION {CallsOf(k[i]) : i \in 1 .. z}
  BY <1>1, <1>6 DEF CallsIn
<1>16. AnswersOf(o) = Images(v, AnswersOf(r))
  BY <1>9, <1>11, <1>12, <1>13 DEF Images
<1>17. CallsIn(o) = Images(u, CallsIn(r))
  <2>1. \A y : y \in CallsIn(o) <=> \E i \in 1 .. z : y \in CallsOf(k[i])
    BY <1>15
  <2>2. \A y : y \in Images(u, CallsIn(r)) <=> \E i \in 1 .. z : \E x \in CallsOf(h[i]) : y = u[x]
    BY <1>14 DEF Images
  <2>3. \A i \in 1 .. z : \A y : y \in CallsOf(k[i]) <=> \E x \in CallsOf(h[i]) : y = u[x]
    BY <1>10 DEF Images
  <2>4. \A y : y \in CallsIn(o) <=> y \in Images(u, CallsIn(r))
    <3> TAKE y
    <3>1. ASSUME y \in CallsIn(o)
          PROVE  y \in Images(u, CallsIn(r))
      <4>1. PICK i \in 1 .. z : y \in CallsOf(k[i])
        BY <2>1, <3>1
      <4>2. \E x \in CallsOf(h[i]) : y = u[x]
        BY <2>3, <4>1
      <4>3. QED
        BY <2>2, <4>2
    <3>2. ASSUME y \in Images(u, CallsIn(r))
          PROVE  y \in CallsIn(o)
      <4>1. PICK i \in 1 .. z : \E x \in CallsOf(h[i]) : y = u[x]
        BY <2>2, <3>2
      <4>2. y \in CallsOf(k[i])
        BY <2>3, <4>1
      <4>3. QED
        BY <2>1, <4>2
    <3>3. QED
      BY <3>1, <3>2
  <2>5. QED
    BY <2>4
<1>18. QED
  BY <1>16, <1>17

-----------------------------------------------------------------------------
(* The key tells requests apart.                                            *)

LEMMA NumbersAre ==
    ASSUME NEW r, NEW x \in ToSet(IdsInOrder(r))
    PROVE  Numbers(r)[x] = normalized_id(IdsInOrder(r), x)
BY DEF Numbers

LEMMA HistoryMarkedTwice ==
    ASSUME NEW n \in Nat, NEW h \in Seq(Translated(n)), NEW u \in Labels(n), NEW v \in Labels(n),
           NEW g
    PROVE  MarkedAll(MarkedAll(h, u, v), g, g) = MarkedAll(h, After(n, g, u), After(n, g, v))
<1>1. PICK t : t = MarkedAll(h, u, v)
  OBVIOUS
<1>2. /\ t \in Seq(Translated(n)) /\ Len(t) = Len(h)
      /\ \A i \in 1 .. Len(h) : t[i] = Renumbered(h[i], u, v)
  <2>1. t \in Seq(Translated(n))
    BY <1>1, MarkedAllIs
  <2>2. Len(t) = Len(h)
    BY <1>1, MarkedAllIs
  <2>3. \A i \in 1 .. Len(h) : t[i] = Renumbered(h[i], u, v)
    BY <1>1, MarkedAllIs
  <2>4. QED
    BY <2>1, <2>2, <2>3
<1>3. PICK a, b : a = After(n, g, u) /\ b = After(n, g, v)
  OBVIOUS
<1>4. DOMAIN h = 1 .. Len(h) /\ DOMAIN t = 1 .. Len(h) /\ \A i \in 1 .. Len(h) : h[i] \in Translated(n)
  BY <1>2, LenProperties, ElementOfSeq
<1>5. \A i \in 1 .. Len(h) : Renumbered(Renumbered(h[i], u, v), g, g) = Renumbered(h[i], a, b)
  BY <1>4, <1>3, MarkedTwice
<1>6. MarkedAll(t, g, g) = [i \in 1 .. Len(h) |-> Renumbered(t[i], g, g)]
  BY <1>4 DEF MarkedAll
<1>7. MarkedAll(h, a, b) = [i \in 1 .. Len(h) |-> Renumbered(h[i], a, b)]
  BY <1>4 DEF MarkedAll
<1>8. \A i \in 1 .. Len(h) : Renumbered(t[i], g, g) = Renumbered(h[i], a, b)
  BY <1>2, <1>5
<1>9. QED
  BY <1>1, <1>6, <1>7, <1>8, <1>3

LEMMA KeyOfRelabelled ==
    ASSUME NEW n \in Nat, NEW r, IsRequest(r, n), NEW u \in Labels(n), NEW v \in Labels(n),
           NEW o, o = Relabelled(r, u, v), NEW g, g = Numbers(o)
    PROVE  response_key(o) = KeyWith(r, After(n, g, u), After(n, g, v))
<1>1. PICK h, s, a, b : h = r.history /\ s = r.results /\ a = After(n, g, u) /\ b = After(n, g, v)
  OBVIOUS
<1>2. h \in Seq(Translated(n)) /\ s \in Seq(1 .. n)
  BY <1>1 DEF IsRequest
<1>3. /\ o.results = Mapped(v, s) /\ o.history = MarkedAll(h, u, v)
      /\ o.model = r.model /\ o.content = r.content /\ o.tools = r.tools
  BY <1>1, RelabelledFields
<1>4. Mapped(g, Mapped(v, s)) = Mapped(b, s)
  BY <1>1, <1>2, MappedTwice
<1>5. MarkedAll(MarkedAll(h, u, v), g, g) = MarkedAll(h, a, b)
  BY <1>1, <1>2, HistoryMarkedTwice
<1>6. response_key(o) = KeyWith(o, g, g)
  BY KeyIs
<1>7. KeyWith(o, g, g) = KeyWith(r, a, b)
  BY <1>1, <1>3, <1>4, <1>5 DEF KeyWith
<1>8. QED
  BY <1>1, <1>6, <1>7

\* What all calls are named makes no difference.
LEMMA KeyKept ==
    ASSUME NEW n \in Nat, NEW r, IsRequest(r, n), NEW p \in Labels(n), OneToOne(p, 1 .. n)
    PROVE  response_key(Relabelled(r, p, p)) = response_key(r)
<1>1. PICK o, g, k, a, ids : /\ o = Relabelled(r, p, p) /\ g = Numbers(o) /\ k = Numbers(r)
                             /\ a = After(n, g, p) /\ ids = IdsInOrder(r)
  OBVIOUS
<1>2. ids \in Seq(1 .. n) /\ ToSet(ids) = AnswersOf(r) \cup CallsIn(r) /\ ToSet(ids) \subseteq 1 .. n
  <2>1. ids \in Seq(1 .. n) /\ ToSet(ids) = AnswersOf(r) \cup CallsIn(r)
    BY <1>1, IdsTypes
  <2>2. QED
    BY <2>1, ElementsOf
<1>3. PICK t : t = Mapped(p, ids)
  OBVIOUS
<1>4. IdsInOrder(o) = t
  BY <1>1, <1>3, IdsMapped
<1>5. ASSUME NEW x \in ToSet(ids)
      PROVE  a[x] = k[x]
  <2>1. a[x] = g[p[x]]
    <3>1. \A y \in 1 .. n : a[y] = g[p[y]]
      BY <1>1 DEF After
    <3>2. QED
      BY <1>2, <3>1
  <2>2. p[x] \in ToSet(t) /\ normalized_id(t, p[x]) = normalized_id(ids, x)
    BY <1>2, <1>3, NumberKept
  <2>3. g[p[x]] = normalized_id(t, p[x])
    BY <1>1, <1>4, <2>2, NumbersAre
  <2>4. k[x] = normalized_id(ids, x)
    BY <1>1, NumbersAre
  <2>5. QED
    BY <2>1, <2>2, <2>3, <2>4
<1>6. Agree(CallsIn(r), a, k) /\ Agree(AnswersOf(r), a, k)
  BY <1>2, <1>5 DEF Agree
<1>7. KeyWith(r, a, a) = KeyWith(r, k, k)
  BY <1>6, KeySame
<1>8. response_key(o) = KeyWith(r, a, a)
  BY <1>1, KeyOfRelabelled
<1>9. QED
  BY <1>1, <1>7, <1>8, KeyIs

\* Which result answers which call does: only what calls are named can have changed.
LEMMA KeyTells ==
    ASSUME NEW n \in Nat, NEW r, IsRequest(r, n), NEW p \in Labels(n), OneToOne(p, 1 .. n),
           NEW same, same = [i \in 1 .. n |-> i], NEW o, o = Relabelled(r, same, p),
           response_key(o) = response_key(r)
    PROVE  \E q \in Labels(n) : OneToOne(q, 1 .. n) /\ Relabelled(r, q, q) = o
<1>1. PICK ids, os, A, C, D : /\ ids = IdsInOrder(r) /\ os = IdsInOrder(o)
                              /\ A = AnswersOf(r) /\ C = CallsIn(r) /\ D = A \cup C
  OBVIOUS
<1>2. same \in Labels(n) /\ \A x \in 1 .. n : same[x] = x
  BY DEF Labels
<1>3. ids \in Seq(1 .. n) /\ ToSet(ids) = D /\ D \subseteq 1 .. n
  <2>1. ids \in Seq(1 .. n) /\ ToSet(ids) = AnswersOf(r) \cup CallsIn(r)
    BY <1>1, IdsTypes
  <2>2. ToSet(ids) \subseteq 1 .. n
    BY <2>1, ElementsOf
  <2>3. QED
    BY <1>1, <2>1, <2>2
<1>4. IsRequest(o, n) /\ AnswersOf(o) = Images(p, A) /\ CallsIn(o) = Images(same, C)
  BY <1>1, <1>2, RelabelledTypes, RelabelledIds
<1>5. os \in Seq(1 .. n) /\ ToSet(os) = Images(p, A) \cup Images(same, C)
  BY <1>1, <1>4, IdsTypes
<1>6. PICK g, k, a, b : g = Numbers(o) /\ k = Numbers(r) /\ a = After(n, g, same) /\ b = After(n, g, p)
  OBVIOUS
<1>7. KeyWith(r, a, b) = KeyWith(r, k, k)
  <2>1. response_key(o) = KeyWith(r, a, b)
    BY <1>2, <1>6, KeyOfRelabelled
  <2>2. QED
    BY <1>6, <2>1, KeyIs
<1>8. Agree(C, a, k) /\ Agree(A, b, k)
  BY <1>1, <1>7, KeySame
<1>9. A \subseteq 1 .. n /\ C \subseteq 1 .. n
  BY <1>1, <1>3
<1>10. \A x \in C : g[x] = k[x] /\ x \in ToSet(os)
  <2> TAKE x \in C
  <2>1. a[x] = g[same[x]] /\ same[x] = x
    <3>1. \A y \in 1 .. n : a[y] = g[same[y]]
      BY <1>6 DEF After
    <3>2. QED
      BY <1>2, <1>9, <3>1
  <2>2. a[x] = k[x]
    BY <1>8 DEF Agree
  <2>3. x \in Images(same, C)
    BY <2>1 DEF Images
  <2>4. QED
    BY <1>5, <2>1, <2>2, <2>3
<1>11. \A x \in A : g[p[x]] = k[x] /\ p[x] \in ToSet(os)
  <2> TAKE x \in A
  <2>1. b[x] = g[p[x]]
    <3>1. \A y \in 1 .. n : b[y] = g[p[y]]
      BY <1>6 DEF After
    <3>2. QED
      BY <1>9, <3>1
  <2>2. b[x] = k[x]
    BY <1>8 DEF Agree
  <2>3. p[x] \in Images(p, A)
    BY DEF Images
  <2>4. QED
    BY <1>5, <2>1, <2>2, <2>3
<1>12. \A x \in D, y \in D : k[x] = k[y] => x = y
  <2> SUFFICES ASSUME NEW x \in D, NEW y \in D, k[x] = k[y]
               PROVE  x = y
    OBVIOUS
  <2>1. k[x] = normalized_id(ids, x) /\ k[y] = normalized_id(ids, y)
    BY <1>1, <1>3, <1>6, NumbersAre
  <2>2. QED
    BY <1>3, <2>1, NumbersDiffer
<1>13. \A x \in ToSet(os), y \in ToSet(os) : g[x] = g[y] => x = y
  <2> SUFFICES ASSUME NEW x \in ToSet(os), NEW y \in ToSet(os), g[x] = g[y]
               PROVE  x = y
    OBVIOUS
  <2>1. g[x] = normalized_id(os, x) /\ g[y] = normalized_id(os, y)
    BY <1>1, <1>6, NumbersAre
  <2>2. QED
    BY <1>5, <2>1, NumbersDiffer
\* A call that is made and answered keeps its id.
<1>14. \A x \in A \cap C : p[x] = x
  BY <1>10, <1>11, <1>13
<1>15. PICK f : f = [x \in D |-> IF x \in A THEN p[x] ELSE x]
  OBVIOUS
<1>16. (\A x \in A : f[x] = p[x]) /\ (\A x \in C : f[x] = x)
  BY <1>1, <1>14, <1>15
<1>17. \A x \in D : g[f[x]] = k[x]
  BY <1>1, <1>10, <1>11, <1>16
<1>18. OneToOne(f, D)
  BY <1>12, <1>17 DEF OneToOne
<1>19. Images(f, D) \subseteq 1 .. n
  <2>1. \A x \in A : p[x] \in 1 .. n
    BY <1>9 DEF Labels
  <2>2. \A x \in D : f[x] \in 1 .. n
    BY <1>1, <1>9, <1>16, <2>1
  <2>3. QED
    BY <2>2 DEF Images
<1>20. PICK q \in Labels(n) : OneToOne(q, 1 .. n) /\ Agree(D, q, f)
  BY <1>3, <1>18, <1>19, Completed
<1>21. Agree(C, q, same) /\ Agree(A, q, p)
  BY <1>1, <1>2, <1>9, <1>16, <1>20 DEF Agree
<1>22. Relabelled(r, q, q) = o
  BY <1>1, <1>21, RelabelledSame
<1>23. QED
  BY <1>20, <1>22

LEMMA TypesTellApart == SessionTypes => KeyTellsApart
<1> SUFFICES ASSUME SessionTypes, Sent,
                    NEW p \in {q \in [1 .. called -> 1 .. called] : IsInjective(q)}
             PROVE  LET orders == {q \in [1 .. called -> 1 .. called] : IsInjective(q)}
                        same   == [i \in 1 .. called |-> i]
                        other  == Relabelled(sent, same, p)
                    IN  /\ response_key(Relabelled(sent, p, p)) = response_key(sent)
                        /\ response_key(other) = response_key(sent) <=>
                              \E q \in orders : Relabelled(sent, q, q) = other
  BY DEF KeyTellsApart
<1>1. called \in Nat
  BY DEF SessionTypes
<1>2. PICK n \in Nat : n = called
  BY <1>1
<1>3. IsRequest(sent, n)
  BY <1>2 DEF SessionTypes, Sent, NoRequest, Refused
<1>4. PICK same, other : same = [i \in 1 .. called |-> i] /\ other = Relabelled(sent, same, p)
  OBVIOUS
<1>5. \A q : q \in {f \in [1 .. called -> 1 .. called] : IsInjective(f)} <=> q \in Labels(n) /\ OneToOne(q, 1 .. n)
  BY <1>2 DEF Labels, IsInjective, OneToOne
<1>6. \A q \in Labels(n) : OneToOne(q, 1 .. n) => response_key(Relabelled(sent, q, q)) = response_key(sent)
  BY <1>3, KeyKept
<1>7. p \in Labels(n) /\ OneToOne(p, 1 .. n)
  BY <1>5
<1>8. response_key(Relabelled(sent, p, p)) = response_key(sent)
  BY <1>6, <1>7
<1>9. ASSUME NEW q \in Labels(n), OneToOne(q, 1 .. n), Relabelled(sent, q, q) = other
      PROVE  response_key(other) = response_key(sent)
  BY <1>6, <1>9
<1>10. ASSUME response_key(other) = response_key(sent)
       PROVE  \E q \in Labels(n) : OneToOne(q, 1 .. n) /\ Relabelled(sent, q, q) = other
  <2>1. PICK r, s, o : r = sent /\ s = [i \in 1 .. n |-> i] /\ o = Relabelled(r, s, p)
    OBVIOUS
  <2>2. o = other
    BY <1>2, <1>4, <2>1
  <2>3. IsRequest(r, n) /\ response_key(o) = response_key(r)
    BY <1>3, <1>10, <2>1, <2>2
  <2>4. \E q \in Labels(n) : OneToOne(q, 1 .. n) /\ Relabelled(r, q, q) = o
    BY <1>7, <2>1, <2>3, KeyTells
  <2>5. QED
    BY <2>1, <2>2, <2>4
<1>11. response_key(other) = response_key(sent) <=>
          \E q \in {f \in [1 .. called -> 1 .. called] : IsInjective(f)} : Relabelled(sent, q, q) = other
  BY <1>5, <1>9, <1>10
<1>12. QED
  BY <1>4, <1>8, <1>11

\* Two requests have the same key in the true cache exactly if they differ in the ids of
\* calls alone. (true_cache.rs, response_key)
THEOREM KeysTellApart == SessionSpec => []KeyTellsApart
<1>1. SessionSpec => []SessionTypes
  BY SessionTyped
<1>2. QED
  BY <1>1, TypesTellApart, PTL

(***************************************************************************)
(* The true cache.                                                          *)
(***************************************************************************)

-----------------------------------------------------------------------------
(* The inductive invariant.                                                  *)

Began    == {"start", "remove", "upstream", "body"}
Answered == {"reply", "done", "gone"}

\* No file was written after now.
ClockAhead ==
    /\ \A k \in Keys : files[k].at <= now
    /\ \A c \in Clients : since[c] <= now

\* Who stores an answer may use the cache, and has one that may be stored.
WritersStore ==
    \A c \in Clients : pc[c] \in {"open", "write"} =>
        is_true_cache_eligible(c) /\ Storable(answer[c])

\* Client o has stored its answer under key k.
Stored(o, k) ==
    /\ o \in Clients /\ response_cache_key(o) = k
    /\ is_true_cache_eligible(o) /\ Storable(answer[o])
    /\ pc[o] \in Answered

FilesStored == \A k \in Keys : files[k].state = "whole" => Stored(files[k].from, k)

HitsStored ==
    \A c \in Clients : got[c].how = "hit" =>
        /\ got[c].from # c /\ Stored(got[c].from, response_cache_key(c))
        /\ is_true_cache_eligible(c) /\ got[c].age < TTL

\* Nothing is logged before the end.
LogsAtEnd ==
    /\ \A c \in Clients : pc[c] \notin {"done", "gone"} => logged[c] = << >>
    /\ LoggedOnce

CacheInv ==
    /\ TypeOK /\ ClockAhead
    /\ WritersStore /\ FilesStored /\ HitsStored
    /\ TornOnlyByFault /\ LogsAtEnd

-----------------------------------------------------------------------------
(* Types.                                                                    *)

Files  == [state : {"absent", "torn", "whole"},
           from : Clients \cup {NoClient}, at : 0 .. MaxTime]
Gotten == [how : {"nothing", "hit", "own", "part", "error"},
           from : Clients \cup {NoClient}, age : 0 .. MaxTime]

LEMMA FileTypes ==
    /\ 0 \in 0 .. MaxTime
    /\ NoFile \in Files /\ TornFile \in Files /\ Nothing \in Gotten
    /\ NoFile.state = "absent" /\ TornFile.state = "torn" /\ TornFile.at = 0 /\ NoFile.at = 0
  BY CacheAssumption DEF NoFile, TornFile, Nothing, Files, Gotten

LEMMA KeyType ==
    ASSUME TypeOK, NEW c \in Clients
    PROVE  response_cache_key(c) \in Keys
<1>1. request[c] \in Requests
  BY CacheAssumption DEF TypeOK
<1>2. QED
  BY <1>1 DEF Requests, Keys, response_cache_key

LEMMA TypesInit ==
    ASSUME Init
    PROVE  TypeOK
  BY FileTypes, CacheAssumption DEF Init, TypeOK, Places, Files, Gotten

\* A record of a call is its only one, when nothing is logged before the end.
LEMMA LogTyped ==
    ASSUME TypeOK, LogsAtEnd, NEW c \in Clients, pc[c] \notin {"done", "gone"},
           NEW s \in {"success", "error"}, Log(c, s)
    PROVE  /\ logged' \in [Clients -> {<< >>, <<"success">>, <<"error">>}]
           /\ logged' = [logged EXCEPT ![c] = <<s>>]
<1>1. logged[c] = << >>
  BY DEF LogsAtEnd
<1>2. Append(logged[c], s) = <<s>>
  BY <1>1
<1>3. QED
  BY <1>2 DEF Log, TypeOK

LEMMA ReceiveTyped ==
    ASSUME TypeOK, NEW c \in Clients, NEW h \in {"hit", "own", "part", "error"},
           NEW f \in Clients \cup {NoClient}, NEW age \in 0 .. MaxTime,
           Receive(c, h, f, age)
    PROVE  got' \in [Clients -> Gotten]
  BY DEF Receive, TypeOK, Gotten

LEMMA TypesNext ==
    ASSUME TypeOK, ClockAhead, LogsAtEnd, [Next]_vars
    PROVE  TypeOK'
<1>0. MaxCrashes \in Nat /\ MaxTime \in Nat /\ 0 \in 0 .. MaxTime /\ NoFile \in Files /\ TornFile \in Files
  BY FileTypes, CacheAssumption
<1> USE <1>0
<1>1. ASSUME NEW c \in Clients, Handle(c)
      PROVE  TypeOK'
  <2> DEFINE k == response_cache_key(c)
  <2>0. k \in Keys /\ files[k] \in Files
    BY KeyType DEF TypeOK, Files
  <2>1. CASE Bypass(c) \/ LookupMisses(c) \/ LookupExpired(c) \/ UpstreamAnswers(c)
             \/ OpenFails(c) \/ Disconnect(c)
    BY <2>1 DEF Bypass, LookupMisses, LookupExpired, UpstreamAnswers, OpenFails, Disconnect,
                Goto, TypeOK, Places
  <2>2. CASE LookupHits(c)
    <3>1. now - files[k].at \in 0 .. MaxTime /\ files[k].from \in Clients \cup {NoClient}
      BY <2>0 DEF TypeOK, ClockAhead, Files
    <3>2. pc[c] = "start" /\ Log(c, "success") /\ Receive(c, "hit", files[k].from, now - files[k].at)
      BY <2>2 DEF LookupHits
    <3>3. /\ got' \in [Clients -> Gotten]
          /\ logged' \in [Clients -> {<< >>, <<"success">>, <<"error">>}]
      BY <3>1, <3>2, ReceiveTyped, LogTyped
    <3>4. QED
      BY <2>2, <3>3 DEF LookupHits, Goto, TypeOK, Places, Gotten
  <2>3. CASE RemoveFile(c)
    BY <2>3, <2>0 DEF RemoveFile, Goto, TypeOK, Places, Files
  <2>4. CASE UpstreamFails(c)
    <3> DEFINE h == "error"
    <3>1. /\ NoClient \in Clients \cup {NoClient}
          /\ pc[c] = "upstream" /\ h \in {"own", "part", "error"} /\ Log(c, "error") /\ Receive(c, h, NoClient, 0)
      BY <2>4 DEF UpstreamFails
    <3> HIDE DEF h
    <3>2. /\ got' \in [Clients -> Gotten]
          /\ logged' \in [Clients -> {<< >>, <<"success">>, <<"error">>}]
      BY <3>1, ReceiveTyped, LogTyped
    <3>3. QED
      BY <2>4, <3>2 DEF UpstreamFails, Goto, TypeOK, Places, Gotten
  <2>5. CASE BodyFails(c)
    <3> DEFINE h == IF request[c].handler = "whole" THEN "error" ELSE "part"
    <3>1. pc[c] = "body" /\ h \in {"own", "part", "error"} /\ Log(c, "error") /\ Receive(c, h, c, 0)
      BY <2>5 DEF BodyFails
    <3> HIDE DEF h
    <3>2. /\ got' \in [Clients -> Gotten]
          /\ logged' \in [Clients -> {<< >>, <<"success">>, <<"error">>}]
      BY <3>1, ReceiveTyped, LogTyped
    <3>3. QED
      BY <2>5, <3>2 DEF BodyFails, Goto, TypeOK, Places, Gotten
  <2>6. CASE \E a \in Answers : BodyEnds(c, a)
    BY <2>6 DEF BodyEnds, Goto, TypeOK, Places
  <2>7. CASE OpenFile(c)
    BY <2>7, <2>0 DEF OpenFile, Goto, TypeOK, Places, Files
  <2>8. CASE WriteFile(c)
    <3> DEFINE mine == [state |-> "whole", from |-> c, at |-> since[c]]
    <3>1. mine \in Files
      BY DEF TypeOK, Files
    <3>2. files' \in [Keys -> Files] /\ broken' \subseteq Keys
      <4>1. CASE linked[c]
        <5>1. PICK f \in {mine, TornFile} :
                  /\ files' = [files EXCEPT ![k] = f]
                  /\ broken' = IF f = TornFile THEN broken \cup {k} ELSE broken \ {k}
          BY <2>8, <4>1 DEF WriteFile
        <5>2. f \in Files
          BY <3>1, <5>1
        <5> HIDE DEF mine
        <5>3. QED
          BY <2>0, <5>1, <5>2 DEF TypeOK, Files
      <4>2. CASE ~linked[c]
        BY <2>8, <4>2 DEF WriteFile, TypeOK, Files
      <4>3. QED
        BY <4>1, <4>2
    <3>3. QED
      BY <2>8, <3>2 DEF WriteFile, Goto, TypeOK, Places, Files
  <2>9. CASE WriteFails(c)
    <3>1. files' \in [Keys -> Files] /\ broken' \subseteq Keys
      BY <2>9, <2>0, ZenonT(30) DEF WriteFails, TypeOK, Files
    <3>2. QED
      BY <2>9, <3>1 DEF WriteFails, Goto, TypeOK, Places, Files
  <2>10. CASE Reply(c)
    <3> DEFINE h == "own"
    <3>1. pc[c] = "reply" /\ h \in {"own", "part", "error"} /\ Log(c, "success") /\ Receive(c, h, c, 0)
      BY <2>10 DEF Reply
    <3> HIDE DEF h
    <3>2. /\ got' \in [Clients -> Gotten]
          /\ logged' \in [Clients -> {<< >>, <<"success">>, <<"error">>}]
      BY <3>1, ReceiveTyped, LogTyped
    <3>3. QED
      BY <2>10, <3>2 DEF Reply, Goto, TypeOK, Places, Gotten
  <2>11. QED
    BY <1>1, <2>1, <2>2, <2>3, <2>4, <2>5, <2>6, <2>7, <2>8, <2>9, <2>10 DEF Handle
<1>2. CASE Tick
  BY <1>2 DEF Tick, TypeOK
<1>3. CASE Crash
  BY <1>3 DEF Crash, TypeOK, Places
<1>4. CASE UNCHANGED vars
  BY <1>4 DEF vars, TypeOK
<1>5. QED
  BY <1>1, <1>2, <1>3, <1>4 DEF Next

\* Time does not run backwards, and a file is dated when it is begun.
LEMMA ClockNext ==
    ASSUME TypeOK, ClockAhead, [Next]_vars
    PROVE  ClockAhead'
<1>0. MaxTime \in Nat /\ now \in Nat /\ NoFile.at = 0 /\ TornFile.at = 0
  BY FileTypes, CacheAssumption DEF TypeOK
<1>1. ASSUME NEW c \in Clients, Handle(c)
      PROVE  ClockAhead'
  <2> DEFINE k == response_cache_key(c)
  <2>0. k \in Keys
    BY KeyType
  <2>1. now' = now
    BY <1>1 DEF Handle, Bypass, LookupMisses, LookupExpired, LookupHits, RemoveFile,
                UpstreamFails, UpstreamAnswers, BodyFails, BodyEnds, OpenFile, OpenFails,
                WriteFile, WriteFails, Reply, Disconnect
  <2>2. \A d \in Clients : since'[d] <= now
    <3>1. CASE \E a \in Answers : BodyEnds(c, a)
      BY <1>0, <3>1 DEF BodyEnds, ClockAhead, TypeOK
    <3>2. CASE since' = since
      BY <3>2 DEF ClockAhead
    <3>3. QED
      BY <1>1, <3>1, <3>2
         DEF Handle, Bypass, LookupMisses, LookupExpired, LookupHits, RemoveFile,
             UpstreamFails, UpstreamAnswers, BodyFails, OpenFile, OpenFails,
             WriteFile, WriteFails, Reply, Disconnect
  <2>3. \A j \in Keys : files'[j].at <= now
    <3>1. CASE RemoveFile(c) \/ OpenFile(c) \/ WriteFails(c)
      BY <1>0, <2>0, <3>1 DEF RemoveFile, OpenFile, WriteFails, ClockAhead, TypeOK
    <3>2. CASE WriteFile(c)
      <4> DEFINE mine == [state |-> "whole", from |-> c, at |-> since[c]]
      <4>1. CASE linked[c]
        <5>1. PICK f \in {mine, TornFile} : files' = [files EXCEPT ![k] = f]
          BY <3>2, <4>1 DEF WriteFile
        <5>2. f.at <= now
          BY <1>0, <5>1 DEF ClockAhead
        <5>3. QED
          BY <2>0, <5>1, <5>2 DEF ClockAhead, TypeOK
      <4>2. CASE ~linked[c]
        BY <3>2, <4>2 DEF WriteFile, ClockAhead
      <4>3. QED
        BY <4>1, <4>2
    <3>3. CASE files' = files
      BY <3>3 DEF ClockAhead
    <3>4. QED
      BY <1>1, <3>1, <3>2, <3>3
         DEF Handle, Bypass, LookupMisses, LookupExpired, LookupHits,
             UpstreamFails, UpstreamAnswers, BodyFails, BodyEnds, OpenFails, Reply, Disconnect
  <2>4. QED
    BY <2>1, <2>2, <2>3 DEF ClockAhead
<1>2. CASE Tick
  BY <1>0, <1>2 DEF Tick, ClockAhead, TypeOK
<1>3. CASE Crash \/ UNCHANGED vars
  BY <1>3 DEF Crash, vars, ClockAhead
<1>4. QED
  BY <1>1, <1>2, <1>3 DEF Next

-----------------------------------------------------------------------------
(* Who stores, and what is stored.                                           *)

LEMMA WritersNext ==
    ASSUME TypeOK, WritersStore, [Next]_vars
    PROVE  WritersStore'
<1>1. ASSUME NEW c \in Clients, Handle(c)
      PROVE  WritersStore'
  <2>1. CASE \E a \in Answers : BodyEnds(c, a)
    BY <2>1 DEF BodyEnds, Goto, WritersStore, TypeOK, is_true_cache_eligible
  <2>2. CASE OpenFile(c)
    BY <2>2 DEF OpenFile, Goto, WritersStore, TypeOK, is_true_cache_eligible
  <2>3. CASE /\ UNCHANGED <<request, answer>>
             /\ \E l \in {"upstream", "remove", "done", "body", "reply", "gone"} : Goto(c, l)
    BY <2>3 DEF Goto, WritersStore, TypeOK, is_true_cache_eligible
  <2>4. QED
    BY <1>1, <2>1, <2>2, <2>3
       DEF Handle, Bypass, LookupMisses, LookupExpired, LookupHits, RemoveFile,
           UpstreamFails, UpstreamAnswers, BodyFails, OpenFails, WriteFile, WriteFails,
           Reply, Disconnect
<1>2. CASE Crash
  BY <1>2 DEF Crash, WritersStore, TypeOK, is_true_cache_eligible
<1>3. CASE Tick \/ UNCHANGED vars
  BY <1>3 DEF Tick, vars, WritersStore, is_true_cache_eligible
<1>4. QED
  BY <1>1, <1>2, <1>3 DEF Next

\* The answer to a client that is past storing it stays as it is.
LEMMA AnswerKept ==
    ASSUME TypeOK, [Next]_vars, NEW o \in Clients, pc[o] \in Answered
    PROVE  request' = request /\ answer'[o] = answer[o] /\ pc'[o] \in Answered
<1>1. request' = request
  BY DEF Next, Handle, Bypass, LookupMisses, LookupExpired, LookupHits, RemoveFile,
         UpstreamFails, UpstreamAnswers, BodyFails, BodyEnds, OpenFile, OpenFails,
         WriteFile, WriteFails, Reply, Disconnect, Tick, Crash, vars
<1>2. answer'[o] = answer[o] /\ pc'[o] \in Answered
  <2>1. ASSUME NEW c \in Clients, Handle(c)
        PROVE  answer'[o] = answer[o] /\ pc'[o] \in Answered
    <3>1. CASE \E a \in Answers : BodyEnds(c, a)
      BY <3>1 DEF BodyEnds, Goto, Answered, TypeOK
    <3>2. CASE Reply(c)
      BY <3>2 DEF Reply, Goto, Answered, TypeOK
    <3>3. CASE answer' = answer /\ pc[c] \notin Answered /\ \E l \in Places : Goto(c, l)
      BY <3>3 DEF Goto, TypeOK
    <3>4. QED
      BY <2>1, <3>1, <3>2, <3>3
         DEF Handle, Bypass, LookupMisses, LookupExpired, LookupHits, RemoveFile,
             UpstreamFails, UpstreamAnswers, BodyFails, OpenFile, OpenFails,
             WriteFile, WriteFails, Disconnect, Answered, Places
  <2>2. CASE Crash
    BY <2>2 DEF Crash, Answered
  <2>3. CASE Tick \/ UNCHANGED vars
    BY <2>3 DEF Tick, vars
  <2>4. QED
    BY <2>1, <2>2, <2>3 DEF Next
<1>3. QED
  BY <1>1, <1>2

LEMMA FilesNext ==
    ASSUME TypeOK, WritersStore, FilesStored, [Next]_vars
    PROVE  FilesStored'
<1>0. NoFile.state # "whole" /\ TornFile.state # "whole"
  BY FileTypes
\* A whole file has just been written, or was there.
<1>1. ASSUME NEW k \in Keys, files'[k].state = "whole"
      PROVE  Stored(files[k].from, k)'
  <2>1. CASE files'[k] = files[k]
    <3>1. Stored(files[k].from, k)
      BY <1>1, <2>1 DEF FilesStored
    <3>2. LET o == files[k].from IN
          request' = request /\ answer'[o] = answer[o] /\ pc'[o] \in Answered
      BY <3>1, AnswerKept DEF Stored
    <3>3. QED
      BY <2>1, <3>1, <3>2
         DEF Stored, response_cache_key, is_true_cache_eligible, Storable
  <2>2. ASSUME NEW c \in Clients, Handle(c), files'[k] # files[k]
        PROVE  Stored(files[k].from, k)'
    <3> DEFINE kc == response_cache_key(c)
    <3>0. kc \in Keys
      BY KeyType
    <3>1. CASE RemoveFile(c) \/ OpenFile(c) \/ WriteFails(c)
      BY <1>0, <1>1, <2>2, <3>0, <3>1 DEF RemoveFile, OpenFile, WriteFails, TypeOK
    <3>2. CASE WriteFile(c)
      <4> DEFINE mine == [state |-> "whole", from |-> c, at |-> since[c]]
      <4>1. linked[c] /\ pc[c] = "write"
        BY <2>2, <3>2 DEF WriteFile
      <4>2. PICK f \in {mine, TornFile} : files' = [files EXCEPT ![kc] = f]
        BY <3>2, <4>1 DEF WriteFile
      <4>3. kc = k /\ files'[k] = f
        BY <2>2, <3>0, <4>2 DEF TypeOK
      <4>4. files'[k] = mine
        BY <1>0, <1>1, <4>2, <4>3
      <4>5. is_true_cache_eligible(c) /\ Storable(answer[c])
        BY <4>1 DEF WritersStore
      <4>6. pc'[c] = "reply" /\ UNCHANGED <<request, answer>>
        BY <3>2 DEF WriteFile, Goto, TypeOK
      <4>7. QED
        BY <4>3, <4>4, <4>5, <4>6
           DEF Stored, Answered, response_cache_key, is_true_cache_eligible, Storable
    <3>3. QED
      BY <2>2, <3>1, <3>2
         DEF Handle, Bypass, LookupMisses, LookupExpired, LookupHits,
             UpstreamFails, UpstreamAnswers, BodyFails, BodyEnds, OpenFails, Reply, Disconnect
  <2>3. CASE Tick \/ Crash \/ UNCHANGED vars
    BY <2>1, <2>3 DEF Tick, Crash, vars
  <2>4. QED
    BY <2>1, <2>2, <2>3 DEF Next
<1>2. QED
  BY <1>1 DEF FilesStored

LEMMA HitsNext ==
    ASSUME TypeOK, ClockAhead, FilesStored, HitsStored, [Next]_vars
    PROVE  HitsStored'
<1>0. request' = request
  BY DEF Next, Handle, Bypass, LookupMisses, LookupExpired, LookupHits, RemoveFile,
         UpstreamFails, UpstreamAnswers, BodyFails, BodyEnds, OpenFile, OpenFails,
         WriteFile, WriteFails, Reply, Disconnect, Tick, Crash, vars
<1>1. ASSUME NEW d \in Clients, got'[d].how = "hit"
      PROVE  /\ got'[d].from # d /\ Stored(got[d].from, response_cache_key(d))'
             /\ is_true_cache_eligible(d)' /\ got'[d].age < TTL
  <2>0. \A o \in Clients : pc[o] \in Answered => answer'[o] = answer[o] /\ pc'[o] \in Answered
    BY AnswerKept
  <2>1. CASE got'[d] = got[d]
    BY <1>0, <1>1, <2>0, <2>1
       DEF HitsStored, Stored, response_cache_key, is_true_cache_eligible, Storable
  <2>2. ASSUME NEW c \in Clients, Handle(c), got'[d] # got[d]
        PROVE  /\ got'[d].from # d /\ Stored(got[d].from, response_cache_key(d))'
               /\ is_true_cache_eligible(d)' /\ got'[d].age < TTL
    <3>1. CASE LookupHits(c)
      <4> DEFINE f == files[response_cache_key(c)]
      <4>1. /\ pc[c] = "start" /\ is_true_cache_eligible(c)
            /\ f.state = "whole" /\ ~is_expired(f.at)
            /\ got' = [got EXCEPT ![c] = [how |-> "hit", from |-> f.from, age |-> now - f.at]]
        BY <3>1 DEF LookupHits, Receive
      <4>2. c = d /\ got'[d] = [how |-> "hit", from |-> f.from, age |-> now - f.at]
        BY <2>2, <4>1 DEF TypeOK
      <4>3. Stored(f.from, response_cache_key(d))
        BY <4>1, <4>2, KeyType DEF FilesStored
      <4>4. f.from # d
        BY <4>1, <4>2, <4>3 DEF Stored, Answered
      <4>5. now - f.at < TTL
        <5>1. now \in Nat /\ f.at \in Nat /\ TTL \in Nat
          BY KeyType, CacheAssumption DEF TypeOK
        <5>2. QED
          BY <4>1, <5>1 DEF is_expired
      <4>6. is_true_cache_eligible(d)'
        BY <1>0, <4>1, <4>2 DEF is_true_cache_eligible
      <4>7. QED
        BY <1>0, <2>0, <4>2, <4>3, <4>4, <4>5, <4>6, SMTT(30)
           DEF Stored, response_cache_key, is_true_cache_eligible, Storable
    <3>2. CASE UpstreamFails(c) \/ BodyFails(c) \/ Reply(c)
      BY <1>1, <2>2, <3>2 DEF UpstreamFails, BodyFails, Reply, Receive, TypeOK
    <3>3. QED
      BY <2>2, <3>1, <3>2
         DEF Handle, Bypass, LookupMisses, LookupExpired, RemoveFile, UpstreamAnswers,
             BodyEnds, OpenFile, OpenFails, WriteFile, WriteFails, Disconnect
  <2>3. CASE Tick \/ Crash \/ UNCHANGED vars
    BY <2>1, <2>3 DEF Tick, Crash, vars
  <2>4. QED
    BY <2>1, <2>2, <2>3 DEF Next
<1>2. QED
  BY <1>1 DEF HitsStored

-----------------------------------------------------------------------------
(* Files that cannot be read.                                                *)

\* Client c is writing the file of key k.
Writing(c, k) == pc[c] = "write" /\ linked[c] /\ response_cache_key(c) = k

LEMMA TornNext ==
    ASSUME TypeOK, TornOnlyByFault, [Next]_vars
    PROVE  TornOnlyByFault'
<1>0. /\ NoFile.state # "torn" /\ request' = request
      /\ \A d : response_cache_key(d)' = response_cache_key(d)
  <2>1. request' = request
    BY DEF Next, Handle, Bypass, LookupMisses, LookupExpired, LookupHits, RemoveFile,
           UpstreamFails, UpstreamAnswers, BodyFails, BodyEnds, OpenFile, OpenFails,
           WriteFile, WriteFails, Reply, Disconnect, Tick, Crash, vars
  <2>2. QED
    BY <2>1, FileTypes DEF response_cache_key
<1>1. ASSUME NEW k \in Keys, files'[k].state = "torn"
      PROVE  k \in broken' \/ \E d \in Clients : Writing(d, k)'
  <2>1. ASSUME NEW c \in Clients, Handle(c)
        PROVE  k \in broken' \/ \E d \in Clients : Writing(d, k)'
    <3> DEFINE kc == response_cache_key(c)
    <3>0. kc \in Keys
      BY KeyType
    <3>1. CASE OpenFile(c)
      <4>1. CASE kc = k
        BY <1>0, <3>1, <4>1 DEF OpenFile, Goto, Writing, TypeOK
      <4>2. CASE kc # k
        BY <1>0, <1>1, <3>0, <3>1, <4>2
           DEF OpenFile, Goto, Writing, TornOnlyByFault, TypeOK
      <4>3. QED
        BY <4>1, <4>2
    <3>2. CASE RemoveFile(c)
      BY <1>0, <1>1, <3>0, <3>2 DEF RemoveFile, Goto, Writing, TornOnlyByFault, TypeOK
    <3>3. CASE WriteFails(c)
      BY <1>0, <1>1, <3>0, <3>3 DEF WriteFails, Goto, Writing, TornOnlyByFault, TypeOK
    <3>4. CASE WriteFile(c)
      <4> DEFINE mine == [state |-> "whole", from |-> c, at |-> since[c]]
      <4>1. CASE linked[c]
        <5>1. PICK f \in {mine, TornFile} :
                  /\ files' = [files EXCEPT ![kc] = f]
                  /\ broken' = IF f = TornFile THEN broken \cup {kc} ELSE broken \ {kc}
          BY <3>4, <4>1 DEF WriteFile
        <5>2. mine.state # "torn"
          OBVIOUS
        <5> HIDE DEF mine
        <5>3. CASE kc = k
          BY <1>1, <3>0, <5>1, <5>2, <5>3 DEF TypeOK
        <5>4. CASE kc # k
          <6>1. files'[k] = files[k] /\ (k \in broken => k \in broken')
            BY <3>0, <5>1, <5>4 DEF TypeOK
          <6>2. \A d \in Clients : Writing(d, k) => Writing(d, k)'
            BY <1>0, <3>4, <5>4 DEF WriteFile, Goto, Writing, TypeOK
          <6>3. QED
            BY <1>1, <6>1, <6>2 DEF TornOnlyByFault, Writing
        <5>5. QED
          BY <5>3, <5>4
      <4>2. CASE ~linked[c]
        BY <1>0, <1>1, <3>4, <4>2 DEF WriteFile, Goto, Writing, TornOnlyByFault, TypeOK
      <4>3. QED
        BY <4>1, <4>2
    <3>5. CASE /\ UNCHANGED <<files, linked, broken>> /\ pc[c] # "write"
               /\ \E l \in Places : Goto(c, l)
      BY <1>0, <1>1, <3>5 DEF Goto, Writing, TornOnlyByFault, TypeOK
    <3>6. QED
      BY <2>1, <3>1, <3>2, <3>3, <3>4, <3>5
         DEF Handle, Bypass, LookupMisses, LookupExpired, LookupHits, Places,
             UpstreamFails, UpstreamAnswers, BodyFails, BodyEnds, OpenFails, Reply, Disconnect
  <2>2. CASE Crash
    BY <1>1, <2>2 DEF Crash
  <2>3. CASE Tick \/ UNCHANGED vars
    BY <1>0, <1>1, <2>3 DEF Tick, vars, Writing, TornOnlyByFault
  <2>4. QED
    BY <2>1, <2>2, <2>3 DEF Next
<1>2. QED
  BY <1>1 DEF TornOnlyByFault, Writing

-----------------------------------------------------------------------------
(* The call log.                                                             *)

\* What the handler of a client that has come to its end has logged.
Logged(c) ==
    logged[c] = IF got[c].how \in {"hit", "own"} THEN <<"success">> ELSE <<"error">>

LEMMA LogsNext ==
    ASSUME TypeOK, LogsAtEnd, [Next]_vars
    PROVE  LogsAtEnd'
<1>1. ASSUME NEW c \in Clients, Handle(c)
      PROVE  LogsAtEnd'
  <2>1. ASSUME pc[c] \notin {"done", "gone"}, Goto(c, "done"),
               NEW s \in {"success", "error"}, Log(c, s),
               NEW h \in {"hit", "own", "part", "error"}, NEW f, NEW age, Receive(c, h, f, age),
               s = IF h \in {"hit", "own"} THEN "success" ELSE "error"
        PROVE  LogsAtEnd'
    <3>1. logged' = [logged EXCEPT ![c] = <<s>>]
      BY <2>1, LogTyped
    <3>2. /\ pc' = [pc EXCEPT ![c] = "done"]
          /\ got' = [got EXCEPT ![c] = [how |-> h, from |-> f, age |-> age]]
      BY <2>1 DEF Goto, Receive
    <3>3. \A d \in Clients \ {c} :
              pc'[d] = pc[d] /\ got'[d] = got[d] /\ logged'[d] = logged[d]
      BY <3>1, <3>2 DEF TypeOK
    <3>4. pc'[c] = "done" /\ got'[c].how = h /\ logged'[c] = <<s>>
      BY <3>1, <3>2 DEF TypeOK
    <3>5. QED
      BY <2>1, <3>3, <3>4 DEF LogsAtEnd, LoggedOnce
  <2>2. CASE LookupHits(c)
    BY <2>1, <2>2 DEF LookupHits
  <2>3. CASE UpstreamFails(c)
    BY <2>1, <2>3 DEF UpstreamFails
  <2>4. CASE BodyFails(c)
    BY <2>1, <2>4 DEF BodyFails
  <2>5. CASE Reply(c)
    BY <2>1, <2>5 DEF Reply
  <2>6. CASE /\ UNCHANGED <<got, logged>> /\ pc[c] \notin {"done", "gone"}
             /\ \E l \in Places \ {"done"} : Goto(c, l)
    BY <2>6 DEF Goto, Places, LogsAtEnd, LoggedOnce, TypeOK
  <2>7. QED
    BY <1>1, <2>2, <2>3, <2>4, <2>5, <2>6
       DEF Handle, Bypass, LookupMisses, LookupExpired, RemoveFile, UpstreamAnswers,
           BodyEnds, OpenFile, OpenFails, WriteFile, WriteFails, Disconnect, Places
<1>2. CASE Crash
  BY <1>2 DEF Crash, LogsAtEnd, LoggedOnce
<1>3. CASE Tick \/ UNCHANGED vars
  BY <1>3 DEF Tick, vars, LogsAtEnd, LoggedOnce
<1>4. QED
  BY <1>1, <1>2, <1>3 DEF Next

-----------------------------------------------------------------------------
LEMMA CacheInit ==
    ASSUME Init
    PROVE  CacheInv
<1>1. TypeOK
  BY TypesInit
<1>2. ClockAhead
  BY FileTypes DEF Init, ClockAhead
<1>3. FilesStored /\ TornOnlyByFault
  BY FileTypes DEF Init, FilesStored, TornOnlyByFault
<1>4. WritersStore /\ HitsStored /\ LogsAtEnd
  BY DEF Init, WritersStore, HitsStored, LogsAtEnd, LoggedOnce, Nothing
<1>5. QED
  BY <1>1, <1>2, <1>3, <1>4 DEF CacheInv

LEMMA CacheNext ==
    ASSUME CacheInv, [Next]_vars
    PROVE  CacheInv'
<1> USE DEF CacheInv
<1>1. TypeOK' /\ ClockAhead'
  BY TypesNext, ClockNext
<1>2. WritersStore' /\ FilesStored'
  BY WritersNext, FilesNext
<1>3. HitsStored'
  BY HitsNext
<1>4. TornOnlyByFault' /\ LogsAtEnd'
  BY TornNext, LogsNext
<1>5. QED
  BY <1>1, <1>2, <1>3, <1>4

LEMMA CacheInvariant == Spec => []CacheInv
  BY CacheInit, CacheNext, PTL DEF Spec

\* The clock, the files and what the handlers keep of every request have their
\* types, and a request is logged at most once, whatever the handlers of any
\* number of clients do to each other's files (get_response, put_response).
THEOREM CacheTypes == Spec => []TypeOK
  BY CacheInvariant, PTL DEF CacheInv

\* An answer is replayed only to a client that asks the same in the same form,
\* only if it is complete, shows something and is younger than the TTL, for any
\* number of handlers that look up, expire, remove, overwrite and write the
\* same file at once, and any crash between two of their calls (true_cache.rs).
THEOREM OnlyCompleteAnswersReplayed == Spec => []ReplayedAnswers
<1>1. CacheInv => ReplayedAnswers
  <2> SUFFICES ASSUME CacheInv, NEW c \in Clients, got[c].how = "hit"
               PROVE  LET o == got[c].from IN
                      /\ o \in Clients /\ o # c
                      /\ request[o].body = request[c].body
                      /\ (request[o].handler = "whole") = (request[c].handler = "whole")
                      /\ request[o].passive_tools /\ request[c].passive_tools
                      /\ answer[o].stop \in {"end_turn", "tool_use"} /\ answer[o].shows
                      /\ got[c].age < TTL
    BY DEF ReplayedAnswers
  <2> DEFINE o == got[c].from
  <2>1. /\ o # c /\ o \in Clients /\ got[c].age < TTL
        /\ response_cache_key(o) = response_cache_key(c)
        /\ is_true_cache_eligible(o) /\ is_true_cache_eligible(c) /\ Storable(answer[o])
    BY DEF CacheInv, HitsStored, Stored
  <2>2. /\ request[o].body = request[c].body
        /\ (request[o].handler = "whole") = (request[c].handler = "whole")
    BY <2>1 DEF response_cache_key
  <2>3. QED
    BY <2>1, <2>2 DEF is_true_cache_eligible, Storable
<1>2. QED
  BY <1>1, CacheInvariant, PTL

\* A file that cannot be read is one that a handler is writing, or that a
\* crash, a full disk or two writers at once have spoilt: no removal or
\* overwriting by others does (put_response writes in place).
THEOREM TornFilesExplained == Spec => []TornOnlyByFault
  BY CacheInvariant, PTL DEF CacheInv

\* Every handler of the model that comes to its end has made one record of its call,
\* and that one says what its client has got (the ends of handlers.rs from the lookup
\* in the cache on).
THEOREM EveryEndLogged == Spec => []LoggedOnce
  BY CacheInvariant, PTL DEF CacheInv, LogsAtEnd
==============================================================================
