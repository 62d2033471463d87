-------------------------- MODULE SseStreamProofs --------------------------
(* Theorems about SseStream: its types, that it implements SseProtocol, that a *)
(* stream that has been sent whole is a whole message, that it has brought the *)
(* whole text, and that it has told the thinking from it as if it had seen the *)
(* text whole.                                                                *)
EXTENDS SseStream, SequenceTheorems, FiniteSetTheorems, Induction, TLAPS

-----------------------------------------------------------------------------
(* Sequences whose elements may be anything.                                 *)

IsSeq(o) == o \in Seq({o[i] : i \in DOMAIN o})

LEMMA SeqIsSeq ==
    ASSUME NEW S, NEW o \in Seq(S)
    PROVE  IsSeq(o) /\ Len(o) \in Nat /\ DOMAIN o = 1 .. Len(o) /\ \A i \in 1 .. Len(o) : o[i] \in S
<1>1. /\ Len(o) \in Nat /\ DOMAIN o = 1 .. Len(o) /\ o \in [1 .. Len(o) -> S]
  BY LenProperties
<1>2. o \in [1 .. Len(o) -> {o[i] : i \in DOMAIN o}]
  BY <1>1
<1>3. o \in Seq({o[i] : i \in DOMAIN o})
  BY <1>1, <1>2, SeqDef
<1>4. QED
  BY <1>1, <1>3 DEF IsSeq

LEMMA IsSeqLen ==
    ASSUME NEW o, IsSeq(o)
    PROVE  Len(o) \in Nat /\ DOMAIN o = 1 .. Len(o)
BY LenProperties DEF IsSeq

LEMMA IsSeqAppend ==
    ASSUME NEW o, NEW e, IsSeq(o)
    PROVE  /\ IsSeq(Append(o, e))
           /\ Len(Append(o, e)) = Len(o) + 1
           /\ \A i \in 1 .. Len(o) : Append(o, e)[i] = o[i]
           /\ Append(o, e)[Len(o) + 1] = e
<1> DEFINE S == {o[i] : i \in DOMAIN o} \cup {e}
<1>1. o \in Seq(S) /\ e \in S
  BY SeqMonotonic DEF IsSeq
<1> HIDE DEF S
<1>2. Append(o, e) \in Seq(S)
  BY <1>1, AppendProperties
<1>3. IsSeq(Append(o, e))
  BY <1>2, SeqIsSeq
<1>4. QED
  BY <1>1, <1>3, AppendProperties

LEMMA IsSeqConcat ==
    ASSUME NEW o, NEW q, IsSeq(o), IsSeq(q)
    PROVE  /\ IsSeq(o \o q)
           /\ Len(o \o q) = Len(o) + Len(q)
           /\ \A i \in 1 .. Len(o) : (o \o q)[i] = o[i]
           /\ \A i \in 1 .. Len(q) : (o \o q)[Len(o) + i] = q[i]
<1> DEFINE S == {o[i] : i \in DOMAIN o} \cup {q[i] : i \in DOMAIN q}
<1>1. o \in Seq(S) /\ q \in Seq(S)
  BY SeqMonotonic DEF IsSeq
<1> HIDE DEF S
<1>2. /\ o \o q \in Seq(S)
      /\ Len(o \o q) = Len(o) + Len(q)
      /\ \A i \in 1 .. Len(o) + Len(q) : (o \o q)[i] = IF i <= Len(o) THEN o[i] ELSE q[i - Len(o)]
  BY <1>1, ConcatProperties
<1>3. IsSeq(o \o q)
  BY <1>2, SeqIsSeq
<1>4. Len(o) \in Nat /\ Len(q) \in Nat
  BY IsSeqLen
<1>5. \A i \in 1 .. Len(o) : (o \o q)[i] = o[i]
  <2> TAKE i \in 1 .. Len(o)
  <2>1. i \in 1 .. Len(o) + Len(q) /\ i <= Len(o)
    BY <1>4
  <2>2. QED
    BY <1>2, <2>1
<1>6. \A i \in 1 .. Len(q) : (o \o q)[Len(o) + i] = q[i]
  <2> TAKE i \in 1 .. Len(q)
  <2>1. Len(o) + i \in 1 .. Len(o) + Len(q) /\ ~(Len(o) + i <= Len(o)) /\ Len(o) + i - Len(o) = i
    BY <1>4
  <2>2. QED
    BY <1>2, <2>1
<1>7. QED
  BY <1>2, <1>3, <1>5, <1>6

LEMMA IsSeqTail ==
    ASSUME NEW o, IsSeq(o), o # << >>
    PROVE  /\ IsSeq(Tail(o)) /\ Head(o) = o[1]
           /\ Len(o) >= 1 /\ Len(Tail(o)) = Len(o) - 1
           /\ \A i \in 1 .. Len(o) - 1 : Tail(o)[i] = o[i + 1]
<1> DEFINE S == {o[i] : i \in DOMAIN o}
<1>1. o \in Seq(S)
  BY DEF IsSeq
<1> HIDE DEF S
<1>2. Tail(o) \in Seq(S) /\ Len(Tail(o)) = Len(o) - 1 /\ \A i \in 1 .. Len(Tail(o)) : Tail(o)[i] = o[i + 1]
  BY <1>1, HeadTailProperties
<1>3. Len(o) \in Nat /\ Len(o) # 0
  BY <1>1, LenProperties, EmptySeq
<1>4. Head(o) = o[1]
  BY <1>1, HeadTailProperties
<1>5. IsSeq(Tail(o))
  BY <1>2, SeqIsSeq
<1>6. Len(o) >= 1
  BY <1>3
<1>7. QED
  BY <1>2, <1>4, <1>5, <1>6

LEMMA IsSeqSmall ==
    /\ IsSeq(<< >>) /\ Len(<< >>) = 0
    /\ \A e : IsSeq(<< e >>) /\ Len(<< e >>) = 1 /\ << e >>[1] = e
<1>1. << >> \in Seq({}) /\ Len(<< >>) = 0
  BY EmptySeq
<1>2. IsSeq(<< >>)
  BY <1>1, SeqIsSeq
<1>3. ASSUME NEW e
      PROVE  IsSeq(<< e >>) /\ Len(<< e >>) = 1 /\ << e >>[1] = e
  <2>1. << e >> \in Seq({e})
    OBVIOUS
  <2>2. QED
    BY <2>1, SeqIsSeq
<1>4. QED
  BY <1>1, <1>2, <1>3

\* SetToSeq lists each element of a finite set once.
LEMMA SetToSeqLists ==
    ASSUME NEW S, IsFiniteSet(S)
    PROVE  LET s == SetToSeq(S) IN
           /\ IsSeq(s) /\ \A i \in 1 .. Len(s) : s[i] \in S
           /\ \A i, j \in 1 .. Len(s) : s[i] = s[j] => i = j
           /\ \A x \in S : \E i \in 1 .. Len(s) : s[i] = x
<1> DEFINE n == Cardinality(S)
           s == SetToSeq(S)
<1>1. n \in Nat /\ ExistsBijection(1 .. n, S)
  BY FS_CardinalityType
<1>2. PICK b \in Bijection(1 .. n, S) : TRUE
  BY <1>1 DEF ExistsBijection
<1>3. b \in [1 .. n -> S] /\ IsInjective(b)
  BY <1>2 DEF Bijection, Injection, IsInjective
<1>4. s \in [1 .. n -> S] /\ IsInjective(s)
  BY <1>3 DEF SetToSeq
<1>5. s \in Injection(1 .. n, S)
  BY <1>4 DEF Injection
<1>6. Cardinality(1 .. n) = n
  BY <1>1, FS_Interval
<1> HIDE DEF s
<1>7. s \in Surjection(1 .. n, S)
  <2> HIDE DEF n
  <2>1. Cardinality(1 .. n) = Cardinality(S)
    BY <1>6 DEF n
  <2>2. QED
    BY <1>5, <2>1, FS_Injection
<1>8. s \in Seq(S) /\ Len(s) = n
  <2> HIDE DEF n
  <2>1. s \in Seq(S)
    BY <1>1, <1>4, SeqDef
  <2>2. DOMAIN s = 1 .. n
    BY <1>4
  <2>3. QED
    BY <1>1, <2>1, <2>2, LenProperties
<1>9. IsSeq(s) /\ \A i \in 1 .. Len(s) : s[i] \in S
  BY <1>8, SeqIsSeq
<1>10. \A i, j \in 1 .. Len(s) : s[i] = s[j] => i = j
  BY <1>4, <1>8 DEF IsInjective
<1>11. \A x \in S : \E i \in 1 .. Len(s) : s[i] = x
  BY <1>7, <1>8 DEF Surjection
<1>12. QED
  BY <1>9, <1>10, <1>11 DEF s

-----------------------------------------------------------------------------
(* Readers of a sequence of events: a client that starts as k, accepts each    *)
(* event of o and ends as t.                                                 *)

Block == [type : Client!Types, open : BOOLEAN]
Readers == [phase : {"new", "open", "closing", "done", "broken"}, blocks : Seq(Block)]

Reads(r, o) ==
    \A i \in 1 .. Len(o) : Client!Accepts(r[i - 1], o[i]) /\ r[i] = Client!Receive(r[i - 1], o[i])

Leads(k, o, t) ==
    /\ IsSeq(o)
    /\ \E r \in [0 .. Len(o) -> Readers] : r[0] = k /\ r[Len(o)] = t /\ Reads(r, o)

LEMMA LeadsTypes ==
    ASSUME NEW k, NEW o, NEW t, Leads(k, o, t)
    PROVE  IsSeq(o) /\ Len(o) \in Nat /\ k \in Readers /\ t \in Readers
<1>1. IsSeq(o) /\ Len(o) \in Nat
  BY IsSeqLen DEF Leads
<1>2. PICK r \in [0 .. Len(o) -> Readers] : r[0] = k /\ r[Len(o)] = t
  BY DEF Leads
<1>3. 0 \in 0 .. Len(o) /\ Len(o) \in 0 .. Len(o)
  BY <1>1
<1>4. QED
  BY <1>1, <1>2, <1>3

LEMMA LeadsNowhere ==
    ASSUME NEW k \in Readers
    PROVE  Leads(k, << >>, k)
<1>1. IsSeq(<< >>) /\ Len(<< >>) = 0
  BY IsSeqSmall
<1>2. [i \in 0 .. 0 |-> k] \in [0 .. 0 -> Readers] /\ [i \in 0 .. 0 |-> k][0] = k
  OBVIOUS
<1>3. Reads([i \in 0 .. 0 |-> k], << >>)
  BY <1>1 DEF Reads
<1>4. QED
  BY <1>1, <1>2, <1>3 DEF Leads

LEMMA LeadsConcat ==
    ASSUME NEW k, NEW o, NEW t, NEW q, NEW u, Leads(k, o, t), Leads(t, q, u)
    PROVE  Leads(k, o \o q, u)
<1> DEFINE m == Len(o)
           n == Len(q)
<1>1. IsSeq(o) /\ m \in Nat /\ IsSeq(q) /\ n \in Nat
  BY LeadsTypes
<1>2. PICK r \in [0 .. m -> Readers] : r[0] = k /\ r[m] = t /\ Reads(r, o)
  BY DEF Leads
<1>3. PICK s \in [0 .. n -> Readers] : s[0] = t /\ s[n] = u /\ Reads(s, q)
  BY DEF Leads
<1>4. /\ IsSeq(o \o q) /\ Len(o \o q) = m + n
      /\ \A i \in 1 .. m : (o \o q)[i] = o[i]
      /\ \A i \in 1 .. n : (o \o q)[m + i] = q[i]
  BY <1>1, IsSeqConcat
<1>5. \A i \in 1 .. m : Client!Accepts(r[i - 1], o[i]) /\ r[i] = Client!Receive(r[i - 1], o[i])
  BY <1>2 DEF Reads
<1>6. \A i \in 1 .. n : Client!Accepts(s[i - 1], q[i]) /\ s[i] = Client!Receive(s[i - 1], q[i])
  BY <1>3 DEF Reads
<1> HIDE DEF m, n
<1> DEFINE z == [i \in 0 .. m + n |-> IF i <= m THEN r[i] ELSE s[i - m]]
<1>7. \A i \in 0 .. m : z[i] = r[i]
  BY <1>1
<1>8. \A i \in 0 .. n : z[m + i] = s[i]
  <2> TAKE i \in 0 .. n
  <2>1. m + i \in 0 .. m + n /\ m + i - m = i
    BY <1>1
  <2>2. CASE i = 0
    BY <1>1, <1>2, <1>3, <2>1, <2>2
  <2>3. CASE i # 0
    <3>1. ~(m + i <= m)
      BY <1>1, <2>3
    <3>2. z[m + i] = s[m + i - m]
      BY <1>1, <2>1, <3>1
    <3>3. QED
      BY <2>1, <3>2
  <2>4. QED
    BY <2>2, <2>3
<1>9. z \in [0 .. m + n -> Readers]
  <2> SUFFICES ASSUME NEW i \in 0 .. m + n
               PROVE  (IF i <= m THEN r[i] ELSE s[i - m]) \in Readers
    OBVIOUS
  <2>1. CASE i <= m
    <3>1. i \in 0 .. m
      BY <2>1
    <3>2. QED
      BY <2>1, <3>1
  <2>2. CASE ~(i <= m)
    <3>1. i - m \in 0 .. n
      BY <1>1, <2>2
    <3>2. QED
      BY <2>2, <3>1
  <2>3. QED
    BY <2>1, <2>2
<1>10. z[0] = k /\ z[m + n] = u
  <2>1. 0 \in 0 .. m /\ n \in 0 .. n
    BY <1>1
  <2>2. QED
    BY <1>2, <1>3, <1>7, <1>8, <2>1
<1> HIDE DEF z
<1>11. ASSUME NEW i \in 1 .. m + n
       PROVE  /\ Client!Accepts(z[i - 1], (o \o q)[i])
              /\ z[i] = Client!Receive(z[i - 1], (o \o q)[i])
  <2>1. CASE i <= m
    <3>1. i \in 1 .. m /\ i \in 0 .. m /\ i - 1 \in 0 .. m
      BY <1>1, <2>1
    <3>2. z[i - 1] = r[i - 1] /\ z[i] = r[i] /\ (o \o q)[i] = o[i]
      BY <1>4, <1>7, <3>1
    <3>3. QED
      BY <1>5, <3>1, <3>2
  <2>2. CASE ~(i <= m)
    <3> DEFINE j == i - m
    <3>1. j \in 1 .. n /\ j \in 0 .. n /\ j - 1 \in 0 .. n /\ i = m + j /\ i - 1 = m + (j - 1)
      BY <1>1, <2>2
    <3> HIDE DEF j
    <3>2. z[m + (j - 1)] = s[j - 1] /\ z[m + j] = s[j] /\ (o \o q)[m + j] = q[j]
      BY <1>4, <1>8, <3>1
    <3>3. Client!Accepts(s[j - 1], q[j]) /\ s[j] = Client!Receive(s[j - 1], q[j])
      BY <1>6, <3>1
    <3>4. QED
      BY <3>1, <3>2, <3>3
  <2>3. QED
    BY <2>1, <2>2
<1>12. Reads(z, o \o q)
  BY <1>4, <1>11 DEF Reads
<1>13. QED
  BY <1>4, <1>9, <1>10, <1>12 DEF Leads

LEMMA LeadsOnce ==
    ASSUME NEW t \in Readers, NEW e, Client!Accepts(t, e), Client!Receive(t, e) \in Readers
    PROVE  Leads(t, << e >>, Client!Receive(t, e))
<1> DEFINE u == Client!Receive(t, e)
<1>1. IsSeq(<< e >>) /\ Len(<< e >>) = 1 /\ << e >>[1] = e
  BY IsSeqSmall
<1>2. u \in Readers
  OBVIOUS
<1> HIDE DEF u
<1> DEFINE r == [i \in 0 .. 1 |-> IF i = 0 THEN t ELSE u]
<1>3. r \in [0 .. 1 -> Readers] /\ r[0] = t /\ r[1] = u
  BY <1>2
<1> HIDE DEF r
<1>4. Reads(r, << e >>)
  BY <1>1, <1>3 DEF Reads, u
<1>5. Leads(t, << e >>, u)
  BY <1>1, <1>3, <1>4 DEF Leads
<1>6. QED
  BY <1>5 DEF u

\* One more event that the reader accepts at the end.
LEMMA LeadsAppend ==
    ASSUME NEW k, NEW o, NEW t, NEW e, Leads(k, o, t),
           Client!Accepts(t, e), Client!Receive(t, e) \in Readers
    PROVE  Leads(k, Append(o, e), Client!Receive(t, e))
<1> DEFINE u == Client!Receive(t, e)
<1>1. Leads(t, << e >>, u)
  BY LeadsTypes, LeadsOnce
<1> HIDE DEF u
<1>2. Leads(k, o \o << e >>, u)
  BY <1>1, LeadsConcat
<1>3. IsSeq(o)
  BY LeadsTypes
<1>4. Append(o, e) = o \o << e >>
  <2> DEFINE S == {o[i] : i \in DOMAIN o} \cup {e}
  <2>1. o \in Seq(S) /\ e \in S
    BY <1>3, SeqMonotonic DEF IsSeq
  <2> HIDE DEF S
  <2>2. QED
    BY <2>1, AppendIsConcat
<1>5. QED
  BY <1>2, <1>4 DEF u

\* The first event is accepted, and the rest leads on.
LEMMA LeadsTail ==
    ASSUME NEW k, NEW o, NEW t, Leads(k, o, t), o # << >>
    PROVE  /\ Client!Accepts(k, Head(o))
           /\ Client!Receive(k, Head(o)) \in Readers
           /\ Leads(Client!Receive(k, Head(o)), Tail(o), t)
<1>1. IsSeq(o) /\ Len(o) \in Nat
  BY LeadsTypes
<1>2. PICK r \in [0 .. Len(o) -> Readers] : r[0] = k /\ r[Len(o)] = t /\ Reads(r, o)
  BY DEF Leads
<1>3. /\ IsSeq(Tail(o)) /\ Head(o) = o[1] /\ Len(o) >= 1 /\ Len(Tail(o)) = Len(o) - 1
      /\ \A i \in 1 .. Len(o) - 1 : Tail(o)[i] = o[i + 1]
  BY <1>1, IsSeqTail
<1> DEFINE n == Len(o)
<1>4. \A i \in 1 .. n : Client!Accepts(r[i - 1], o[i]) /\ r[i] = Client!Receive(r[i - 1], o[i])
  BY <1>2 DEF Reads
<1>5. n \in Nat /\ n >= 1
  BY <1>1, <1>3
<1> HIDE DEF n
<1>6. Client!Accepts(k, Head(o)) /\ r[1] = Client!Receive(k, Head(o)) /\ r[1] \in Readers
  <2>1. 1 \in 1 .. n /\ 1 \in 0 .. n /\ 1 - 1 = 0
    BY <1>5
  <2>2. QED
    BY <1>2, <1>3, <1>4, <2>1 DEF n
<1> DEFINE s == [i \in 0 .. n - 1 |-> r[i + 1]]
<1>7. s \in [0 .. n - 1 -> Readers] /\ s[0] = r[1] /\ s[n - 1] = t
  <2>1. \A i \in 0 .. n - 1 : i + 1 \in 0 .. n
    BY <1>5
  <2>2. 0 \in 0 .. n - 1 /\ n - 1 \in 0 .. n - 1 /\ n - 1 + 1 = n /\ 0 + 1 = 1
    BY <1>5
  <2>3. s[0] = r[1] /\ s[n - 1] = r[n]
    BY <2>2
  <2>4. QED
    BY <1>2, <2>1, <2>3 DEF n
<1>8. ASSUME NEW i \in 1 .. n - 1
      PROVE  Client!Accepts(s[i - 1], Tail(o)[i]) /\ s[i] = Client!Receive(s[i - 1], Tail(o)[i])
  <2>1. i + 1 \in 1 .. n /\ i + 1 - 1 = i /\ i - 1 \in 0 .. n - 1 /\ i \in 0 .. n - 1 /\ i - 1 + 1 = i
    BY <1>5
  <2>2. s[i - 1] = r[i] /\ s[i] = r[i + 1]
    BY <2>1
  <2>3. Tail(o)[i] = o[i + 1]
    BY <1>3 DEF n
  <2>4. Client!Accepts(r[i], o[i + 1]) /\ r[i + 1] = Client!Receive(r[i], o[i + 1])
    BY <1>4, <2>1
  <2> HIDE DEF s
  <2>5. QED
    BY <2>2, <2>3, <2>4
<1> HIDE DEF s
<1>9. Reads(s, Tail(o))
  BY <1>3, <1>8 DEF Reads, n
<1>10. Leads(r[1], Tail(o), t)
  BY <1>3, <1>7, <1>9 DEF Leads, n
<1>11. QED
  BY <1>6, <1>10

-----------------------------------------------------------------------------
(* What a reader of an open message makes of the events.                      *)

Open(b) == [phase |-> "open", blocks |-> b]

Closed(b, is) == [i \in DOMAIN b |-> IF i \in is THEN [b[i] EXCEPT !.open = FALSE] ELSE b[i]]

LEMMA BlocksHave ==
    ASSUME NEW b \in Seq(Block)
    PROVE  /\ Len(b) \in Nat /\ DOMAIN b = 1 .. Len(b)
           /\ \A i \in DOMAIN b : /\ b[i] \in Block /\ b[i].type \in Client!Types
                                  /\ b[i].open \in BOOLEAN
<1>1. Len(b) \in Nat /\ DOMAIN b = 1 .. Len(b) /\ \A i \in DOMAIN b : b[i] \in Block
  BY LenProperties, ElementOfSeq
<1>2. QED
  BY <1>1 DEF Block

LEMMA OpenReader ==
    ASSUME NEW b \in Seq(Block)
    PROVE  Open(b) \in Readers /\ Open(b).phase = "open" /\ Open(b).blocks = b
BY DEF Open, Readers

LEMMA ClosedBlocks ==
    ASSUME NEW b \in Seq(Block), NEW is
    PROVE  /\ Closed(b, is) \in Seq(Block) /\ Len(Closed(b, is)) = Len(b)
           /\ DOMAIN Closed(b, is) = DOMAIN b
           /\ \A i \in DOMAIN b :
                 /\ Closed(b, is)[i].type = b[i].type
                 /\ Closed(b, is)[i].open = (b[i].open /\ i \notin is)
<1>1. /\ Len(b) \in Nat /\ DOMAIN b = 1 .. Len(b)
      /\ \A i \in DOMAIN b : b[i] \in Block /\ b[i].open \in BOOLEAN
  BY BlocksHave
<1>2. \A i \in DOMAIN b :
         /\ Closed(b, is)[i] = IF i \in is THEN [b[i] EXCEPT !.open = FALSE] ELSE b[i]
         /\ [b[i] EXCEPT !.open = FALSE] \in Block
         /\ [b[i] EXCEPT !.open = FALSE].type = b[i].type
         /\ [b[i] EXCEPT !.open = FALSE].open = FALSE
  BY <1>1 DEF Closed, Block
<1>3. DOMAIN Closed(b, is) = 1 .. Len(b)
  BY <1>1 DEF Closed
<1>4. \A i \in DOMAIN b : Closed(b, is)[i] \in Block
  BY <1>1, <1>2
<1>5. Closed(b, is) \in [1 .. Len(b) -> Block]
  BY <1>1, <1>4 DEF Closed
<1>6. Closed(b, is) \in Seq(Block)
  BY <1>1, <1>5, SeqDef
<1>7. Len(Closed(b, is)) = Len(b)
  BY <1>1, <1>3, <1>6, LenProperties
<1>8. \A i \in DOMAIN b :
         /\ Closed(b, is)[i].type = b[i].type
         /\ Closed(b, is)[i].open = (b[i].open /\ i \notin is)
  <2> TAKE i \in DOMAIN b
  <2>1. b[i].open \in BOOLEAN
    BY <1>1
  <2>2. CASE i \in is
    BY <1>2, <2>1, <2>2
  <2>3. CASE i \notin is
    BY <1>2, <2>1, <2>3
  <2>4. QED
    BY <2>2, <2>3
<1>9. QED
  BY <1>1, <1>3, <1>6, <1>7, <1>8

LEMMA StartsBlock ==
    ASSUME NEW b \in Seq(Block), NEW t \in Client!Types
    PROVE  LET e == Ev("block_start", Len(b) + 1, t, << >>)
               d == Append(b, [type |-> t, open |-> TRUE])
           IN  /\ d \in Seq(Block)
               /\ Client!Accepts(Open(b), e) /\ Client!Receive(Open(b), e) = Open(d)
<1> DEFINE e == Ev("block_start", Len(b) + 1, t, << >>)
           n == [type |-> t, open |-> TRUE]
<1>1. n \in Block
  BY DEF Block
<1>2. Append(b, n) \in Seq(Block)
  BY <1>1, AppendProperties
<1>3. e.ev = "block_start" /\ e.at = Len(b) + 1 /\ e.type = t
  BY DEF Ev
<1>4. Open(b).phase = "open" /\ Open(b).blocks = b
  BY OpenReader
<1>5. Client!Accepts(Open(b), e)
  BY <1>3, <1>4 DEF Client!Accepts
<1>6. Client!Receive(Open(b), e) = [Open(b) EXCEPT !.blocks = Append(@, n)]
  BY <1>3 DEF Client!Receive
<1>7. [Open(b) EXCEPT !.blocks = Append(@, n)] = Open(Append(b, n))
  <2>1. PICK d : d = Append(b, n)
    OBVIOUS
  <2>2. PICK k : k = Open(b)
    OBVIOUS
  <2>3. [k EXCEPT !.blocks = d] = Open(d)
    BY <2>2 DEF Open
  <2>4. k.blocks = b
    BY <1>4, <2>2
  <2>5. QED
    BY <2>1, <2>2, <2>3, <2>4
<1>8. QED
  BY <1>2, <1>5, <1>6, <1>7

LEMMA GetsDelta ==
    ASSUME NEW b \in Seq(Block), NEW i \in DOMAIN b, b[i].open, NEW s
    PROVE  LET e == Ev("delta", i, b[i].type, s)
           IN  Client!Accepts(Open(b), e) /\ Client!Receive(Open(b), e) = Open(b)
<1> DEFINE e == Ev("delta", i, b[i].type, s)
<1>1. e.ev = "delta" /\ e.at = i /\ e.type = b[i].type
  BY DEF Ev
<1>2. Open(b).phase = "open" /\ Open(b).blocks = b
  BY OpenReader
<1>3. Client!Started(i, Open(b))
  BY <1>2 DEF Client!Started
<1>4. Client!Accepts(Open(b), e)
  BY <1>1, <1>2, <1>3 DEF Client!Accepts
<1>5. Client!Receive(Open(b), e) = Open(b)
  BY <1>1 DEF Client!Receive
<1>6. QED
  BY <1>4, <1>5

LEMMA StopsBlock ==
    ASSUME NEW b \in Seq(Block), NEW i \in DOMAIN b, b[i].open, NEW e,
           e.ev = "block_stop", e.at = i
    PROVE  Client!Accepts(Open(b), e) /\ Client!Receive(Open(b), e) = Open(Closed(b, {i}))
<1>1. Open(b).phase = "open" /\ Open(b).blocks = b
  BY OpenReader
<1>2. Client!Started(i, Open(b))
  BY <1>1 DEF Client!Started
<1>3. Client!Accepts(Open(b), e)
  BY <1>1, <1>2 DEF Client!Accepts
<1>4. Client!Receive(Open(b), e) = [Open(b) EXCEPT !.blocks[i].open = FALSE]
  BY DEF Client!Receive
<1>5. [b EXCEPT ![i].open = FALSE] = Closed(b, {i})
  BY DEF Closed
<1>6. PICK d : d = [b EXCEPT ![i].open = FALSE]
  OBVIOUS
<1>7. [Open(b) EXCEPT !.blocks[i].open = FALSE] = [Open(b) EXCEPT !.blocks = d]
  BY <1>1, <1>6
<1>8. [Open(b) EXCEPT !.blocks = d] = Open(d)
  BY DEF Open
<1>9. QED
  BY <1>3, <1>4, <1>5, <1>6, <1>7, <1>8

LEMMA ClosedTwice ==
    ASSUME NEW b \in Seq(Block), NEW is, NEW i \in DOMAIN b
    PROVE  Closed(Closed(b, is), {i}) = Closed(b, is \cup {i})
<1>1. \A j \in DOMAIN b : b[j] \in Block
  BY BlocksHave
<1>2. ASSUME NEW j \in DOMAIN b
      PROVE  Closed(Closed(b, is), {i})[j] = Closed(b, is \cup {i})[j]
  <2>1. b[j] \in [type : Client!Types, open : BOOLEAN]
    BY <1>1 DEF Block
  <2>2. [[b[j] EXCEPT !.open = FALSE] EXCEPT !.open = FALSE] = [b[j] EXCEPT !.open = FALSE]
    BY <2>1
  <2>3. Closed(b, is)[j] = IF j \in is THEN [b[j] EXCEPT !.open = FALSE] ELSE b[j]
    BY DEF Closed
  <2>4. Closed(Closed(b, is), {i})[j]
            = IF j \in {i} THEN [Closed(b, is)[j] EXCEPT !.open = FALSE] ELSE Closed(b, is)[j]
    BY DEF Closed
  <2>5. Closed(b, is \cup {i})[j] = IF j \in is \cup {i} THEN [b[j] EXCEPT !.open = FALSE] ELSE b[j]
    BY DEF Closed
  <2>6. CASE j \in is
    BY <2>2, <2>3, <2>4, <2>5, <2>6
  <2>7. CASE j \notin is
    BY <2>2, <2>3, <2>4, <2>5, <2>7
  <2>8. QED
    BY <2>6, <2>7
<1>3. QED
  BY <1>2 DEF Closed

\* The ends of several blocks, in any order.
Stops(b, is) == {Ev("block_stop", i, b[i].type, << >>) : i \in is}

LEMMA LeadsStops ==
    ASSUME NEW b \in Seq(Block), NEW is, is \subseteq {i \in DOMAIN b : b[i].open}
    PROVE  Leads(Open(b), SetToSeq(Stops(b, is)), Open(Closed(b, is)))
<1> DEFINE s == SetToSeq(Stops(b, is))
           stop(i) == Ev("block_stop", i, b[i].type, << >>)
<1>1. IsFiniteSet(Stops(b, is))
  <2>1. Len(b) \in Nat /\ is \in SUBSET (1 .. Len(b))
    BY BlocksHave
  <2>2. IsFiniteSet(is)
    BY <2>1, FS_Interval, FS_Subset
  <2> DEFINE f == [i \in is |-> stop(i)]
  <2>3. f \in Surjection(is, Stops(b, is))
    BY DEF Surjection, Stops
  <2> HIDE DEF f
  <2>4. QED
    BY <2>2, <2>3, FS_Surjection
<1>2. /\ IsSeq(s) /\ \A k \in 1 .. Len(s) : s[k] \in Stops(b, is)
      /\ \A k, l \in 1 .. Len(s) : s[k] = s[l] => k = l
      /\ \A x \in Stops(b, is) : \E k \in 1 .. Len(s) : s[k] = x
  BY <1>1, SetToSeqLists
<1> HIDE DEF s
<1> DEFINE n == Len(s)
<1>3. n \in Nat
  BY <1>2, IsSeqLen
<1>4. \A k \in 1 .. n : s[k].at \in is /\ s[k].ev = "block_stop" /\ s[k] = stop(s[k].at)
  <2> TAKE k \in 1 .. n
  <2>1. PICK i \in is : s[k] = stop(i)
    BY <1>2 DEF Stops
  <2>2. stop(i).at = i /\ stop(i).ev = "block_stop"
    BY DEF Ev
  <2>3. QED
    BY <2>1, <2>2
<1>5. \A k, l \in 1 .. n : s[k].at = s[l].at => k = l
  <2> HIDE DEF stop
  <2>1. QED
    BY <1>2, <1>4
<1>6. \A i \in is : \E k \in 1 .. n : s[k].at = i
  <2> TAKE i \in is
  <2>1. stop(i) \in Stops(b, is) /\ stop(i).at = i
    BY DEF Stops, Ev
  <2> HIDE DEF stop
  <2>2. PICK k \in 1 .. n : s[k] = stop(i)
    BY <1>2, <2>1
  <2>3. QED
    BY <2>1, <2>2
<1> HIDE DEF stop
<1> DEFINE first(k) == {s[l].at : l \in 1 .. k}
           r == [k \in 0 .. n |-> Open(Closed(b, first(k)))]
<1> HIDE DEF n
<1>7. \A k \in 0 .. n : Closed(b, first(k)) \in Seq(Block)
  <2> HIDE DEF first
  <2>1. QED
    BY ClosedBlocks
<1>8. r \in [0 .. n -> Readers]
  <2> HIDE DEF first
  <2>1. QED
    BY <1>7, OpenReader
<1>9. r[0] = Open(b)
  <2>1. first(0) = {}
    OBVIOUS
  <2>2. Closed(b, {}) = b
    <3>1. \A i \in DOMAIN b : Closed(b, {})[i] = b[i]
      BY DEF Closed
    <3>2. DOMAIN Closed(b, {}) = DOMAIN b
      BY DEF Closed
    <3>3. b = [i \in DOMAIN b |-> b[i]]
      BY BlocksHave, LenProperties
    <3>4. Closed(b, {}) = [i \in DOMAIN b |-> b[i]]
      BY DEF Closed
    <3>5. QED
      BY <3>3, <3>4
  <2> HIDE DEF first
  <2>3. 0 \in 0 .. n
    BY <1>3
  <2>4. QED
    BY <2>1, <2>2, <2>3
<1>10. r[n] = Open(Closed(b, is))
  <2>1. first(n) = is
    <3>1. first(n) \subseteq is
      BY <1>4
    <3>2. is \subseteq first(n)
      BY <1>6
    <3>3. QED
      BY <3>1, <3>2
  <2> HIDE DEF first
  <2>2. n \in 0 .. n
    BY <1>3
  <2>3. QED
    BY <2>1, <2>2
<1>11. ASSUME NEW k \in 1 .. n
       PROVE  Client!Accepts(r[k - 1], s[k]) /\ r[k] = Client!Receive(r[k - 1], s[k])
  <2> DEFINE i == s[k].at
             c == Closed(b, first(k - 1))
  <2>1. k - 1 \in 0 .. n /\ k \in 0 .. n
    BY <1>3
  <2>2. r[k - 1] = Open(c) /\ r[k] = Open(Closed(b, first(k)))
    <3> HIDE DEF first
    <3>1. QED
      BY <2>1
  <2>3. i \in is /\ i \in DOMAIN b /\ b[i].open
    BY <1>4
  <2>4. i \notin first(k - 1)
    <3> SUFFICES ASSUME NEW l \in 1 .. k - 1, s[l].at = i
                 PROVE  FALSE
      OBVIOUS
    <3>1. l \in 1 .. n /\ l # k
      BY <1>3
    <3>2. QED
      BY <1>5, <3>1
  <2>5. first(k) = first(k - 1) \cup {i}
    <3>1. 1 .. k = (1 .. k - 1) \cup {k}
      BY <1>3
    <3>2. QED
      BY <3>1
  <2> HIDE DEF first, i
  <2>6. c \in Seq(Block) /\ i \in DOMAIN c /\ c[i].open
    BY <2>3, <2>4, ClosedBlocks
  <2>7. s[k].ev = "block_stop" /\ s[k].at = i
    BY <1>4 DEF i
  <2> HIDE DEF c
  <2>8. Client!Accepts(Open(c), s[k]) /\ Client!Receive(Open(c), s[k]) = Open(Closed(c, {i}))
    BY <2>6, <2>7, StopsBlock
  <2>9. Closed(c, {i}) = Closed(b, first(k))
    BY <2>3, <2>5, ClosedTwice DEF c
  <2> HIDE DEF r
  <2>10. QED
    BY <2>2, <2>8, <2>9
<1> HIDE DEF r
<1>12. Reads(r, s)
  BY <1>11 DEF Reads, n
<1>13. Leads(Open(b), s, Open(Closed(b, is)))
  BY <1>2, <1>8, <1>9, <1>10, <1>12 DEF Leads, n
<1>14. QED
  BY <1>13 DEF s

-----------------------------------------------------------------------------
(* The context: a reader of what it has not sent yet has its blocks in the     *)
(* end, and the indices it keeps are those of blocks of the right type.       *)

Fields == {"buf", "inThinking", "extracted", "strip", "thinkAt", "textAt", "tool", "blocks",
           "hasToolUse", "reason", "out"}

Writes(k, c) == DOMAIN c = Fields /\ c.blocks \in Seq(Block) /\ Leads(k, c.out, Open(c.blocks))

Indexed(c) ==
    /\ c.inThinking \in BOOLEAN /\ c.extracted \in BOOLEAN
    /\ c.inThinking => ~c.extracted /\ c.thinkAt # 0
    /\ c.thinkAt \in 0 .. Len(c.blocks) /\ c.textAt \in 0 .. Len(c.blocks)
    /\ c.thinkAt # 0 => c.blocks[c.thinkAt].type = "thinking"
    /\ c.textAt # 0 => c.blocks[c.textAt].type = "text"
    /\ \A i \in DOMAIN c.blocks : c.blocks[i].type = "text" /\ c.blocks[i].open => i = c.textAt
    /\ \A i \in DOMAIN c.blocks : c.blocks[i].type = "thinking" => c.thinkAt # 0
    /\ c.tool \in [Tools -> 0 .. Len(c.blocks)]
    /\ \A id \in Tools : c.tool[id] # 0 => c.blocks[c.tool[id]].type = "tool_use"

Fit(k, c) == Writes(k, c) /\ Indexed(c)

\* the thinking block is open as long as the context is inside it
Still(c) == c.inThinking => c.blocks[c.thinkAt].open

SameIndices(c, d) ==
    /\ d.inThinking = c.inThinking /\ d.extracted = c.extracted
    /\ d.thinkAt = c.thinkAt /\ d.textAt = c.textAt /\ d.tool = c.tool

SameBuffer(c, d) ==
    d.buf = c.buf /\ d.strip = c.strip /\ d.hasToolUse = c.hasToolUse /\ d.reason = c.reason

\* d has the blocks of c, whose thinking is as it was
KeepsThinking(c, d) ==
    /\ d.inThinking = c.inThinking /\ d.extracted = c.extracted /\ d.thinkAt = c.thinkAt
    /\ Len(c.blocks) <= Len(d.blocks)
    /\ \A i \in DOMAIN c.blocks :
          /\ d.blocks[i].type = c.blocks[i].type
          /\ c.blocks[i].type = "thinking" => d.blocks[i].open = c.blocks[i].open

LEMMA StillKept ==
    ASSUME NEW k, NEW c, NEW d, Fit(k, c), KeepsThinking(c, d), Still(c)
    PROVE  Still(d)
<1>1. Len(c.blocks) \in Nat /\ DOMAIN c.blocks = 1 .. Len(c.blocks)
  BY BlocksHave DEF Fit, Writes
<1>2. CASE d.inThinking
  <2>1. c.inThinking /\ d.thinkAt = c.thinkAt
    BY <1>2 DEF KeepsThinking
  <2>2. c.thinkAt \in DOMAIN c.blocks /\ c.blocks[c.thinkAt].type = "thinking"
    BY <1>1, <2>1 DEF Fit, Indexed
  <2>3. d.blocks[c.thinkAt].open = c.blocks[c.thinkAt].open
    BY <2>2 DEF KeepsThinking
  <2>4. c.blocks[c.thinkAt].open
    BY <2>1 DEF Still
  <2>5. QED
    BY <2>1, <2>3, <2>4 DEF Still
<1>3. CASE ~d.inThinking
  BY <1>3 DEF Still
<1>4. QED
  BY <1>2, <1>3

\* What is kept in the buffer and the other fields does not matter.
LEMMA FitAlike ==
    ASSUME NEW k, NEW c, NEW d, Fit(k, c), DOMAIN d = Fields, SameIndices(c, d),
           d.blocks = c.blocks, d.out = c.out
    PROVE  Fit(k, d) /\ KeepsThinking(c, d)
<1>1. Len(c.blocks) \in Nat
  BY BlocksHave DEF Fit, Writes
<1>2. Writes(k, d)
  BY DEF Fit, Writes
<1>3. Indexed(d)
  BY DEF Fit, Indexed, SameIndices
<1>4. KeepsThinking(c, d)
  BY <1>1 DEF KeepsThinking, SameIndices
<1>5. QED
  BY <1>2, <1>3, <1>4 DEF Fit

\* d has one more block than c, open and of type t
Longer(c, d, t) ==
    /\ d.blocks = Append(c.blocks, [type |-> t, open |-> TRUE])
    /\ Len(d.blocks) = Len(c.blocks) + 1 /\ Len(c.blocks) \in Nat
    /\ \A i \in DOMAIN c.blocks : d.blocks[i] = c.blocks[i]
    /\ d.blocks[Len(d.blocks)].type = t /\ d.blocks[Len(d.blocks)].open = TRUE

LEMMA BlockStarted ==
    ASSUME NEW k, NEW c, NEW t \in Client!Types, Writes(k, c)
    PROVE  LET d == StartBlock(c, t) IN
           Writes(k, d) /\ SameIndices(c, d) /\ SameBuffer(c, d) /\ Longer(c, d, t)
<1> DEFINE d == StartBlock(c, t)
           b == c.blocks
           n == [type |-> t, open |-> TRUE]
           e == Ev("block_start", Len(b) + 1, t, << >>)
<1>1. DOMAIN c = Fields /\ b \in Seq(Block) /\ Leads(k, c.out, Open(b))
  BY DEF Writes
<1>2. /\ Append(b, n) \in Seq(Block)
      /\ Client!Accepts(Open(b), e) /\ Client!Receive(Open(b), e) = Open(Append(b, n))
  BY <1>1, StartsBlock
<1>3. Leads(k, Append(c.out, e), Open(Append(b, n)))
  <2> HIDE DEF e, n
  <2>1. Open(Append(b, n)) \in Readers
    BY <1>2, OpenReader
  <2>2. QED
    BY <1>1, <1>2, <2>1, LeadsAppend
<1>4. /\ DOMAIN d = Fields /\ d.blocks = Append(b, n) /\ d.out = Append(c.out, e)
      /\ SameIndices(c, d) /\ SameBuffer(c, d)
  <2> HIDE DEF e
  <2>1. d = [[c EXCEPT !.blocks = Append(@, n)] EXCEPT !.out = Append(@, e)]
    BY DEF StartBlock, Emit, e
  <2> HIDE DEF d, n
  <2>2. QED
    BY <1>1, <2>1 DEF Fields, SameIndices, SameBuffer
<1> HIDE DEF d
<1>5. Writes(k, d)
  BY <1>2, <1>3, <1>4 DEF Writes
<1>6. n \in Block /\ n.type = t /\ n.open = TRUE
  BY DEF Block
<1> HIDE DEF n
<1>7. Len(b) \in Nat /\ DOMAIN b = 1 .. Len(b)
  BY <1>1, BlocksHave
<1>8. /\ Len(Append(b, n)) = Len(b) + 1
      /\ \A i \in 1 .. Len(b) : Append(b, n)[i] = b[i]
      /\ Append(b, n)[Len(b) + 1] = n
  BY <1>1, <1>6, AppendProperties
<1> HIDE DEF b
<1>9. QED
  BY <1>4, <1>5, <1>6, <1>7, <1>8 DEF Longer, b, n, d

LEMMA DeltaSent ==
    ASSUME NEW k, NEW c, NEW i \in DOMAIN c.blocks, NEW s, Fit(k, c), c.blocks[i].open
    PROVE  LET d == Emit(c, Ev("delta", i, c.blocks[i].type, s)) IN
           /\ Fit(k, d) /\ KeepsThinking(c, d)
           /\ SameIndices(c, d) /\ SameBuffer(c, d) /\ d.blocks = c.blocks
<1> DEFINE e == Ev("delta", i, c.blocks[i].type, s)
           d == Emit(c, e)
<1>1. DOMAIN c = Fields /\ c.blocks \in Seq(Block) /\ Leads(k, c.out, Open(c.blocks))
  BY DEF Fit, Writes
<1>2. Client!Accepts(Open(c.blocks), e) /\ Client!Receive(Open(c.blocks), e) = Open(c.blocks)
  BY <1>1, GetsDelta
<1> HIDE DEF e
<1>3. /\ DOMAIN d = Fields /\ d.blocks = c.blocks /\ d.out = Append(c.out, e)
      /\ SameIndices(c, d) /\ SameBuffer(c, d)
  BY <1>1 DEF Emit, Fields, SameIndices, SameBuffer
<1> HIDE DEF d
<1>4. Leads(k, Append(c.out, e), Open(c.blocks))
  <2>1. Open(c.blocks) \in Readers
    BY <1>1, OpenReader
  <2>2. QED
    BY <1>1, <1>2, <2>1, LeadsAppend
<1>5. Writes(k, d)
  BY <1>1, <1>3, <1>4 DEF Writes
<1>6. Indexed(d)
  BY <1>3 DEF Fit, Indexed, SameIndices
<1>7. KeepsThinking(c, d)
  <2>1. Len(c.blocks) \in Nat
    BY <1>1, BlocksHave
  <2>2. QED
    BY <1>3, <2>1 DEF KeepsThinking, SameIndices
<1>8. QED
  BY <1>3, <1>5, <1>6, <1>7 DEF Fit, d, e

LEMMA DeltaAppended ==
    ASSUME NEW k, NEW c, NEW i \in DOMAIN c.blocks, NEW s, Fit(k, c), c.blocks[i].open,
           NEW d, d = Emit(c, Ev("delta", i, c.blocks[i].type, s))
    PROVE  Fit(k, d) /\ SameIndices(c, d) /\ SameBuffer(c, d) /\ d.blocks = c.blocks
BY DeltaSent

LEMMA DeltaFits ==
    ASSUME NEW k, NEW c, NEW i \in DOMAIN c.blocks, NEW s, Fit(k, c)
    PROVE  LET d == Delta(c, i, s) IN
           /\ Fit(k, d) /\ KeepsThinking(c, d)
           /\ SameIndices(c, d) /\ SameBuffer(c, d) /\ d.blocks = c.blocks
<1>1. CASE c.blocks[i].open
  BY <1>1, DeltaSent, SMTT(30) DEF Delta
<1>2. CASE ~c.blocks[i].open
  <2>1. Len(c.blocks) \in Nat
    BY BlocksHave DEF Fit, Writes
  <2>2. QED
    BY <1>2, <2>1 DEF Delta, KeepsThinking, SameIndices, SameBuffer
<1>3. QED
  BY <1>1, <1>2

\* d has the blocks of c, and of the open ones those outside is are open
StoppedIn(c, d, is) ==
    /\ DOMAIN d.blocks = DOMAIN c.blocks /\ Len(d.blocks) = Len(c.blocks)
    /\ \A i \in DOMAIN c.blocks :
          /\ d.blocks[i].type = c.blocks[i].type
          /\ d.blocks[i].open = (c.blocks[i].open /\ i \notin is)

LEMMA BlocksStopped ==
    ASSUME NEW k, NEW c, NEW is, Fit(k, c),
           \A i \in is : i \in DOMAIN c.blocks /\ c.blocks[i].open
    PROVE  LET d == StopBlocks(c, is) IN
           Fit(k, d) /\ SameIndices(c, d) /\ SameBuffer(c, d) /\ StoppedIn(c, d, is)
<1> DEFINE d == StopBlocks(c, is)
           b == c.blocks
<1>1. DOMAIN c = Fields /\ b \in Seq(Block) /\ Leads(k, c.out, Open(b))
  BY DEF Fit, Writes
<1>2. Leads(Open(b), SetToSeq(Stops(b, is)), Open(Closed(b, is)))
  BY <1>1, LeadsStops
<1>3. Leads(k, c.out \o SetToSeq(Stops(b, is)), Open(Closed(b, is)))
  BY <1>1, <1>2, LeadsConcat
<1>4. /\ DOMAIN d = Fields /\ d.blocks = Closed(b, is)
      /\ d.out = c.out \o SetToSeq(Stops(b, is))
      /\ SameIndices(c, d) /\ SameBuffer(c, d)
  BY <1>1 DEF StopBlocks, Closed, Stops, Fields, SameIndices, SameBuffer
<1> HIDE DEF d, b
<1>5. /\ Closed(b, is) \in Seq(Block) /\ Len(Closed(b, is)) = Len(b)
      /\ DOMAIN Closed(b, is) = DOMAIN b
      /\ \A i \in DOMAIN b : /\ Closed(b, is)[i].type = b[i].type
                             /\ Closed(b, is)[i].open = (b[i].open /\ i \notin is)
  BY <1>1, ClosedBlocks
<1>6. Writes(k, d)
  BY <1>3, <1>4, <1>5 DEF Writes
<1>7. Indexed(d)
  <2>1. Indexed(c)
    BY DEF Fit
  <2>2. Len(b) \in Nat /\ DOMAIN b = 1 .. Len(b)
    BY <1>1, BlocksHave
  <2>3. /\ d.inThinking \in BOOLEAN /\ d.extracted \in BOOLEAN
        /\ d.inThinking => ~d.extracted /\ d.thinkAt # 0
    BY <1>4, <2>1 DEF Indexed, SameIndices
  <2>4. /\ d.thinkAt \in 0 .. Len(d.blocks) /\ d.textAt \in 0 .. Len(d.blocks)
        /\ d.tool \in [Tools -> 0 .. Len(d.blocks)]
    BY <1>4, <1>5, <2>1 DEF Indexed, SameIndices, b
  <2>5. /\ c.thinkAt # 0 => c.thinkAt \in DOMAIN b
        /\ c.textAt # 0 => c.textAt \in DOMAIN b
        /\ \A id \in Tools : c.tool[id] # 0 => c.tool[id] \in DOMAIN b
    BY <2>1, <2>2 DEF Indexed, b
  <2>6. /\ d.thinkAt # 0 => d.blocks[d.thinkAt].type = "thinking"
        /\ d.textAt # 0 => d.blocks[d.textAt].type = "text"
    BY <1>4, <1>5, <2>1, <2>5 DEF Indexed, SameIndices, b
  <2>7. \A id \in Tools : d.tool[id] # 0 => d.blocks[d.tool[id]].type = "tool_use"
    BY <1>4, <1>5, <2>1, <2>5 DEF Indexed, SameIndices, b
  <2>8. \A i \in DOMAIN d.blocks : d.blocks[i].type = "text" /\ d.blocks[i].open => i = d.textAt
    BY <1>4, <1>5, <2>1 DEF Indexed, SameIndices, b
  <2>9. \A i \in DOMAIN d.blocks : d.blocks[i].type = "thinking" => d.thinkAt # 0
    BY <1>4, <1>5, <2>1 DEF Indexed, SameIndices, b
  <2>10. QED
    BY <2>3, <2>4, <2>6, <2>7, <2>8, <2>9 DEF Indexed
<1>8. QED
  BY <1>4, <1>5, <1>6, <1>7 DEF Fit, StoppedIn, b, d

LEMMA StopFits ==
    ASSUME NEW k, NEW c, NEW i \in DOMAIN c.blocks, Fit(k, c)
    PROVE  LET d == StopBlock(c, i) IN
           /\ Fit(k, d) /\ SameIndices(c, d) /\ SameBuffer(c, d)
           /\ DOMAIN d.blocks = DOMAIN c.blocks /\ Len(d.blocks) = Len(c.blocks)
           /\ \A j \in DOMAIN c.blocks :
                 /\ d.blocks[j].type = c.blocks[j].type
                 /\ j # i => d.blocks[j].open = c.blocks[j].open
<1>1. CASE c.blocks[i].open
  <2>1. PICK is : is = {i}
    OBVIOUS
  <2>5. StopBlock(c, i) = StopBlocks(c, is) /\ \A j \in is : j \in DOMAIN c.blocks /\ c.blocks[j].open
    BY <1>1, <2>1 DEF StopBlock
  <2>2. \A j \in DOMAIN c.blocks : c.blocks[j].open \in BOOLEAN
    BY BlocksHave DEF Fit, Writes
  <2> DEFINE d == StopBlocks(c, is)
  <2>3. Fit(k, d) /\ SameIndices(c, d) /\ SameBuffer(c, d) /\ StoppedIn(c, d, is)
    BY <2>5, BlocksStopped
  <2> HIDE DEF d
  <2>4. \A j \in DOMAIN c.blocks : j # i => d.blocks[j].open = c.blocks[j].open
    BY <2>1, <2>2, <2>3 DEF StoppedIn
  <2>6. QED
    BY <2>3, <2>4, <2>5 DEF d, StoppedIn
<1>2. CASE ~c.blocks[i].open
  BY <1>2 DEF StopBlock, SameIndices, SameBuffer
<1>3. QED
  BY <1>1, <1>2

LEMMA TypesAre ==
    "text" \in Client!Types /\ "thinking" \in Client!Types /\ "tool_use" \in Client!Types
BY DEF Client!Types

LEMMA TextFits ==
    ASSUME NEW k, NEW c, NEW s, Fit(k, c)
    PROVE  LET d == TextDelta(c, s) IN
           Fit(k, d) /\ KeepsThinking(c, d) /\ SameBuffer(c, d) /\ d.textAt # 0
<1>1. /\ Indexed(c) /\ Writes(k, c) /\ c.blocks \in Seq(Block)
      /\ Len(c.blocks) \in Nat /\ DOMAIN c.blocks = 1 .. Len(c.blocks)
  BY BlocksHave DEF Fit, Writes
<1>2. CASE c.textAt # 0 /\ c.blocks[c.textAt].open
  <2>1. c.textAt \in DOMAIN c.blocks
    BY <1>1, <1>2 DEF Indexed
  <2>2. TextDelta(c, s) = Delta(c, c.textAt, s)
    BY <1>2 DEF TextDelta
  <2>3. QED
    BY <1>2, <2>1, <2>2, DeltaFits DEF SameIndices
<1>3. CASE ~(c.textAt # 0 /\ c.blocks[c.textAt].open)
  <2> DEFINE g == StartBlock(c, "text")
             e == [g EXCEPT !.textAt = Len(c.blocks) + 1]
  <2>1. Writes(k, g) /\ SameIndices(c, g) /\ SameBuffer(c, g) /\ Longer(c, g, "text")
    BY <1>1, BlockStarted, TypesAre
  <2> HIDE DEF g
  <2>2. /\ DOMAIN e = Fields /\ e.blocks = g.blocks /\ e.out = g.out /\ SameBuffer(c, e)
        /\ e.textAt = Len(c.blocks) + 1 /\ e.tool = c.tool
        /\ e.inThinking = c.inThinking /\ e.extracted = c.extracted /\ e.thinkAt = c.thinkAt
    BY <2>1 DEF Writes, Fields, SameIndices, SameBuffer
  <2>3. TextDelta(c, s) = Delta(e, e.textAt, s)
    BY <1>3 DEF TextDelta, g
  <2> HIDE DEF e
  <2>4. Writes(k, e)
    BY <2>1, <2>2 DEF Writes
  <2>5. /\ e.blocks \in Seq(Block) /\ Len(e.blocks) = Len(c.blocks) + 1
        /\ DOMAIN e.blocks = 1 .. Len(c.blocks) + 1
        /\ \A i \in 1 .. Len(c.blocks) : e.blocks[i] = c.blocks[i]
        /\ e.blocks[Len(c.blocks) + 1].type = "text"
    BY <1>1, <2>1, <2>2, <2>4, BlocksHave DEF Writes, Longer
  <2>6. Indexed(e)
    <3>1. /\ e.inThinking \in BOOLEAN /\ e.extracted \in BOOLEAN
          /\ e.inThinking => ~e.extracted /\ e.thinkAt # 0
      BY <1>1, <2>2 DEF Indexed
    <3>2. /\ e.thinkAt \in 0 .. Len(e.blocks) /\ e.textAt \in 0 .. Len(e.blocks)
          /\ e.tool \in [Tools -> 0 .. Len(e.blocks)]
      BY <1>1, <2>2, <2>5 DEF Indexed
    <3>3. e.thinkAt # 0 => e.blocks[e.thinkAt].type = "thinking"
      BY <1>1, <2>2, <2>5 DEF Indexed
    <3>4. e.textAt # 0 => e.blocks[e.textAt].type = "text"
      BY <2>2, <2>5
    <3>5. \A i \in DOMAIN e.blocks : e.blocks[i].type = "text" /\ e.blocks[i].open => i = e.textAt
      <4> TAKE i \in DOMAIN e.blocks
      <4>1. CASE i \in 1 .. Len(c.blocks)
        BY <1>1, <1>3, <2>5, <4>1 DEF Indexed
      <4>2. CASE i \notin 1 .. Len(c.blocks)
        BY <1>1, <2>2, <2>5, <4>2
      <4>3. QED
        BY <4>1, <4>2
    <3>6. \A i \in DOMAIN e.blocks : e.blocks[i].type = "thinking" => e.thinkAt # 0
      <4> TAKE i \in DOMAIN e.blocks
      <4>1. CASE i \in 1 .. Len(c.blocks)
        BY <1>1, <2>2, <2>5, <4>1 DEF Indexed
      <4>2. CASE i \notin 1 .. Len(c.blocks)
        BY <1>1, <2>5, <4>2
      <4>3. QED
        BY <4>1, <4>2
    <3>7. \A id \in Tools : e.tool[id] # 0 => e.blocks[e.tool[id]].type = "tool_use"
      BY <1>1, <2>2, <2>5 DEF Indexed
    <3>8. QED
      BY <3>1, <3>2, <3>3, <3>4, <3>5, <3>6, <3>7 DEF Indexed
  <2>7. e.textAt \in DOMAIN e.blocks
    BY <1>1, <2>2, <2>5
  <2> DEFINE d == Delta(e, e.textAt, s)
  <2>8. /\ Fit(k, d) /\ SameIndices(e, d) /\ SameBuffer(e, d) /\ d.blocks = e.blocks
    BY <2>4, <2>6, <2>7, DeltaFits DEF Fit
  <2> HIDE DEF d
  <2>9. KeepsThinking(c, d)
    BY <1>1, <2>2, <2>5, <2>8 DEF KeepsThinking, SameIndices
  <2>10. d.textAt # 0 /\ SameBuffer(c, d)
    BY <1>1, <2>2, <2>8 DEF SameIndices, SameBuffer
  <2>11. QED
    BY <2>3, <2>8, <2>9, <2>10 DEF d
<1>4. QED
  BY <1>2, <1>3

\* The block of the thinking, which starts once.
LEMMA ThinkingStarts ==
    ASSUME NEW k, NEW c, NEW e, Fit(k, c), ~c.inThinking, ~c.extracted,
           DOMAIN e = Fields, e.inThinking = TRUE, e.extracted = c.extracted,
           e.textAt = c.textAt, e.tool = c.tool,
           e.blocks = StartBlock(c, "thinking").blocks, e.out = StartBlock(c, "thinking").out,
           e.thinkAt = Len(StartBlock(c, "thinking").blocks)
    PROVE  Fit(k, e) /\ Still(e)
<1> DEFINE g == StartBlock(c, "thinking")
<1>1. /\ Indexed(c) /\ Writes(k, c) /\ c.blocks \in Seq(Block)
      /\ Len(c.blocks) \in Nat /\ DOMAIN c.blocks = 1 .. Len(c.blocks)
  BY BlocksHave DEF Fit, Writes
<1>2. Writes(k, g) /\ SameIndices(c, g) /\ SameBuffer(c, g) /\ Longer(c, g, "thinking")
  BY <1>1, BlockStarted, TypesAre
<1>3. e.blocks = g.blocks /\ e.out = g.out /\ e.thinkAt = Len(g.blocks)
  OBVIOUS
<1> HIDE DEF g
<1>4. Writes(k, e)
  BY <1>2, <1>3 DEF Writes
<1>5. /\ e.blocks \in Seq(Block) /\ Len(e.blocks) = Len(c.blocks) + 1
      /\ DOMAIN e.blocks = 1 .. Len(c.blocks) + 1
      /\ \A i \in 1 .. Len(c.blocks) : e.blocks[i] = c.blocks[i]
      /\ e.blocks[Len(c.blocks) + 1].type = "thinking" /\ e.blocks[Len(c.blocks) + 1].open = TRUE
  BY <1>1, <1>2, <1>3, <1>4, BlocksHave, ZenonT(30) DEF Writes, Longer
<1>6. e.thinkAt = Len(c.blocks) + 1
  BY <1>3, <1>5
<1>7. Indexed(e)
  <2>1. /\ e.inThinking \in BOOLEAN /\ e.extracted \in BOOLEAN
        /\ e.inThinking => ~e.extracted /\ e.thinkAt # 0
    <3>1. e.inThinking \in BOOLEAN
      OBVIOUS
    <3>2. e.extracted \in BOOLEAN
      BY <1>1 DEF Indexed
    <3>3. ~e.extracted
      OBVIOUS
    <3>4. e.thinkAt # 0
      BY <1>1, <1>6
    <3>5. QED
      BY <3>1, <3>2, <3>3, <3>4, Zenon
  <2>2. /\ e.thinkAt \in 0 .. Len(e.blocks) /\ e.textAt \in 0 .. Len(e.blocks)
        /\ e.tool \in [Tools -> 0 .. Len(e.blocks)]
    BY <1>1, <1>5, <1>6 DEF Indexed
  <2>3. e.thinkAt # 0 => e.blocks[e.thinkAt].type = "thinking"
    BY <1>5, <1>6
  <2>4. e.textAt # 0 => e.blocks[e.textAt].type = "text"
    BY <1>1, <1>5 DEF Indexed
  <2>5. \A i \in DOMAIN e.blocks : e.blocks[i].type = "text" /\ e.blocks[i].open => i = e.textAt
    <3> TAKE i \in DOMAIN e.blocks
    <3>1. CASE i \in 1 .. Len(c.blocks)
      BY <1>1, <1>5, <3>1 DEF Indexed
    <3>2. CASE i \notin 1 .. Len(c.blocks)
      <4>1. i = Len(c.blocks) + 1
        BY <1>1, <1>5, <3>2
      <4>2. QED
        BY <1>5, <4>1
    <3>3. QED
      BY <3>1, <3>2
  <2>6. \A i \in DOMAIN e.blocks : e.blocks[i].type = "thinking" => e.thinkAt # 0
    BY <1>1, <1>6
  <2>7. \A id \in Tools : e.tool[id] # 0 => e.blocks[e.tool[id]].type = "tool_use"
    BY <1>1, <1>5 DEF Indexed
  <2>8. QED
    BY <2>1, <2>2, <2>3, <2>4, <2>5, <2>6, <2>7 DEF Indexed
<1>8. Still(e)
  BY <1>5, <1>6 DEF Still
<1>9. QED
  BY <1>4, <1>7, <1>8 DEF Fit

LEMMA ThinkingCloses ==
    ASSUME NEW k, NEW c, NEW s, Fit(k, c), c.thinkAt # 0, c.blocks[c.thinkAt].open
    PROVE  LET d == CloseThinking(c, s) IN
           Fit(k, d) /\ SameIndices(c, d) /\ SameBuffer(c, d)
<1>1. PICK i \in DOMAIN c.blocks : i = c.thinkAt /\ c.blocks[i].type = "thinking" /\ c.blocks[i].open
  BY BlocksHave DEF Fit, Writes, Indexed
<1>2. PICK d : d = IF s = << >> THEN c ELSE ThinkingDelta(c, s)
  OBVIOUS
<1>3. /\ Fit(k, d) /\ SameIndices(c, d) /\ SameBuffer(c, d) /\ d.blocks = c.blocks
  <2>1. CASE s = << >>
    BY <1>2, <2>1 DEF SameIndices, SameBuffer
  <2>2. CASE s # << >>
    <3>1. d = Emit(c, Ev("delta", i, c.blocks[i].type, s))
      BY <1>1, <1>2, <2>2 DEF ThinkingDelta
    <3>2. QED
      BY <1>1, <3>1, DeltaAppended, SMTT(30)
  <2>3. QED
    BY <2>1, <2>2
<1>4. PICK e : e = ThinkingDelta(d, << >>)
  OBVIOUS
<1>5. d.thinkAt = i /\ i \in DOMAIN d.blocks /\ d.blocks[i].type = "thinking" /\ d.blocks[i].open
  BY <1>1, <1>3 DEF SameIndices
<1>6. Fit(k, e) /\ SameIndices(d, e) /\ SameBuffer(d, e) /\ e.blocks = d.blocks
  <2>1. e = Emit(d, Ev("delta", i, d.blocks[i].type, << >>))
    BY <1>4, <1>5 DEF ThinkingDelta
  <2>2. Fit(k, d)
    BY <1>3
  <2>3. i \in DOMAIN d.blocks /\ d.blocks[i].open
    BY <1>5
  <2>4. QED
    BY <2>1, <2>2, <2>3, DeltaAppended
<1>7. CloseThinking(c, s) = StopBlock(e, i) /\ i \in DOMAIN e.blocks
  BY <1>1, <1>2, <1>4, <1>5, <1>6 DEF CloseThinking
<1>8. PICK f : f = StopBlock(e, i)
  OBVIOUS
<1>9. Fit(k, f) /\ SameIndices(e, f) /\ SameBuffer(e, f)
  BY <1>6, <1>7, <1>8, StopFits
<1>10. SameIndices(c, f) /\ SameBuffer(c, f)
  BY <1>3, <1>6, <1>9 DEF SameIndices, SameBuffer
<1>11. QED
  BY <1>7, <1>8, <1>9, <1>10

LEMMA ThinkingEnds ==
    ASSUME NEW k, NEW c, NEW s, NEW rest, Fit(k, c), c.inThinking, Still(c)
    PROVE  LET d == EndThinking(c, s, rest) IN Fit(k, d) /\ Still(d) /\ d.extracted = TRUE
<1>1. c.thinkAt # 0 /\ c.blocks[c.thinkAt].open
  BY DEF Fit, Indexed, Still
<1>2. PICK e : e = CloseThinking(c, s)
  OBVIOUS
<1>3. Fit(k, e) /\ SameIndices(c, e) /\ SameBuffer(c, e)
  BY <1>1, <1>2, ThinkingCloses
<1>4. PICK d : d = [e EXCEPT !.inThinking = FALSE, !.extracted = TRUE, !.buf = rest]
  OBVIOUS
<1>5. DOMAIN e = Fields
  BY <1>3 DEF Fit, Writes
<1>6. /\ DOMAIN d = Fields /\ d.inThinking = FALSE /\ d.extracted = TRUE
      /\ d.thinkAt = e.thinkAt /\ d.textAt = e.textAt /\ d.tool = e.tool
      /\ d.blocks = e.blocks /\ d.out = e.out
  BY <1>4, <1>5 DEF Fields
<1>7. Writes(k, d)
  BY <1>3, <1>6 DEF Fit, Writes
<1>8. Indexed(d)
  <2>1. d.inThinking \in BOOLEAN /\ d.extracted \in BOOLEAN /\ ~d.inThinking
    BY <1>6
  <2>2. Indexed(e)
    BY <1>3 DEF Fit
  <2>3. /\ d.thinkAt \in 0 .. Len(d.blocks) /\ d.textAt \in 0 .. Len(d.blocks)
        /\ d.thinkAt # 0 => d.blocks[d.thinkAt].type = "thinking"
        /\ d.textAt # 0 => d.blocks[d.textAt].type = "text"
    BY <1>6, <2>2 DEF Indexed
  <2>4. /\ \A i \in DOMAIN d.blocks :
              d.blocks[i].type = "text" /\ d.blocks[i].open => i = d.textAt
        /\ \A i \in DOMAIN d.blocks : d.blocks[i].type = "thinking" => d.thinkAt # 0
    BY <1>6, <2>2 DEF Indexed
  <2>5. /\ d.tool \in [Tools -> 0 .. Len(d.blocks)]
        /\ \A id \in Tools : d.tool[id] # 0 => d.blocks[d.tool[id]].type = "tool_use"
    BY <1>6, <2>2 DEF Indexed
  <2>6. QED
    BY <2>1, <2>3, <2>4, <2>5 DEF Indexed
<1>9. EndThinking(c, s, rest) = d
  BY <1>2, <1>4 DEF EndThinking
<1>10. QED
  BY <1>6, <1>7, <1>8, <1>9 DEF Fit, Still

\* A text delta, and a new buffer.
LEMMA TextAndBuffer ==
    ASSUME NEW k, NEW c, NEW s, NEW rest, Fit(k, c)
    PROVE  LET d == [TextDelta(c, s) EXCEPT !.buf = rest] IN Fit(k, d) /\ KeepsThinking(c, d)
<1>1. PICK e : e = TextDelta(c, s)
  OBVIOUS
<1>2. Fit(k, e) /\ KeepsThinking(c, e)
  BY <1>1, TextFits
<1>3. PICK d : d = [e EXCEPT !.buf = rest]
  OBVIOUS
<1>4. DOMAIN d = Fields /\ SameIndices(e, d) /\ d.blocks = e.blocks /\ d.out = e.out
  <2>1. DOMAIN e = Fields
    BY <1>2 DEF Fit, Writes
  <2>2. QED
    BY <1>3, <2>1 DEF Fields, SameIndices
<1>5. Fit(k, d)
  BY <1>2, <1>4, FitAlike
<1>6. KeepsThinking(c, d)
  BY <1>2, <1>4 DEF KeepsThinking, SameIndices
<1>7. QED
  BY <1>1, <1>3, <1>5, <1>6

LEMMA BeforeFits ==
    ASSUME NEW k, NEW c, Fit(k, c), ~c.inThinking, ~c.extracted
    PROVE  LET d == BeforeThinking(c) IN Fit(k, d) /\ Still(d)
<1>1. CASE StartTag(c.buf) # 0
  <2> DEFINE before == Take(c.buf, StartTag(c.buf) - 1)
             rest == StartTag(c.buf) + Len(OpenTag) - 1
  <2>1. PICK e : e = IF Blank(before) THEN c ELSE TextDelta(c, before)
    OBVIOUS
  <2>2. Fit(k, e) /\ ~e.inThinking /\ ~e.extracted
    <3>1. CASE Blank(before)
      BY <2>1, <3>1
    <3>2. CASE ~Blank(before)
      <4>1. Fit(k, e) /\ KeepsThinking(c, e)
        BY <2>1, <3>2, TextFits
      <4>2. QED
        BY <4>1 DEF KeepsThinking
    <3>3. QED
      BY <3>1, <3>2
  <2>3. PICK g : g = StartBlock(e, "thinking")
    OBVIOUS
  <2>4. DOMAIN g = Fields /\ SameIndices(e, g)
    <3>1. Writes(k, g) /\ SameIndices(e, g)
      BY <2>2, <2>3, BlockStarted, TypesAre DEF Fit
    <3>2. QED
      BY <3>1 DEF Writes
  <2>5. PICK d : d = [g EXCEPT !.inThinking = TRUE, !.strip = TRUE, !.thinkAt = Len(g.blocks),
                               !.buf = Drop(@, rest)]
    OBVIOUS
  <2>6. /\ DOMAIN d = Fields /\ d.inThinking = TRUE /\ d.extracted = g.extracted
        /\ d.textAt = g.textAt /\ d.tool = g.tool
        /\ d.blocks = g.blocks /\ d.out = g.out /\ d.thinkAt = Len(g.blocks)
    <3> HIDE DEF rest
    <3>1. QED
      BY <2>4, <2>5 DEF Fields
  <2>7. /\ d.extracted = e.extracted /\ d.textAt = e.textAt /\ d.tool = e.tool
        /\ d.blocks = StartBlock(e, "thinking").blocks /\ d.out = StartBlock(e, "thinking").out
        /\ d.thinkAt = Len(StartBlock(e, "thinking").blocks)
    BY <2>3, <2>4, <2>6 DEF SameIndices
  <2>8. Fit(k, d) /\ Still(d)
    BY <2>2, <2>6, <2>7, ThinkingStarts
  <2>9. BeforeThinking(c) = d
    BY <1>1, <2>1, <2>3, <2>5 DEF BeforeThinking
  <2>10. QED
    BY <2>8, <2>9
<1>2. CASE StartTag(c.buf) = 0
  <2> DEFINE safe == Len(c.buf) - Len(OpenTag)
  <2>1. CASE Blank(Take(c.buf, safe))
    <3>1. BeforeThinking(c) = c
      BY <1>2, <2>1 DEF BeforeThinking
    <3>2. QED
      BY <3>1 DEF Still
  <2>2. CASE ~Blank(Take(c.buf, safe))
    <3>1. PICK d : d = [TextDelta(c, Take(c.buf, safe)) EXCEPT !.buf = Drop(@, safe)]
      OBVIOUS
    <3>2. PICK rest : d = [TextDelta(c, Take(c.buf, safe)) EXCEPT !.buf = rest]
      BY <3>1
    <3>3. Fit(k, d) /\ KeepsThinking(c, d)
      <4> HIDE DEF safe
      <4>1. QED
        BY <3>2, TextAndBuffer
    <3>4. BeforeThinking(c) = d
      BY <1>2, <2>2, <3>1 DEF BeforeThinking
    <3>5. QED
      BY <3>3, <3>4 DEF Still, KeepsThinking
  <2>3. QED
    BY <2>1, <2>2
<1>3. QED
  BY <1>1, <1>2

LEMMA StripFits ==
    ASSUME NEW k, NEW c, Fit(k, c), Still(c)
    PROVE  LET d == Strip(c) IN Fit(k, d) /\ Still(d) /\ d.inThinking = c.inThinking
<1>1. PICK d : d = Strip(c)
  OBVIOUS
<1>2. DOMAIN c = Fields
  BY DEF Fit, Writes
<1>3. DOMAIN d = Fields /\ SameIndices(c, d) /\ d.blocks = c.blocks /\ d.out = c.out
  <2>1. CASE ~c.strip \/ c.buf = << >>
    BY <1>1, <1>2, <2>1 DEF Strip, SameIndices
  <2>2. CASE ~(~c.strip \/ c.buf = << >>)
    <3>1. d = [c EXCEPT !.strip = FALSE, !.buf = IF Head(@) = NL THEN Tail(@) ELSE @]
      BY <1>1, <2>2 DEF Strip
    <3>2. QED
      BY <1>2, <3>1 DEF Fields, SameIndices
  <2>3. QED
    BY <2>1, <2>2
<1>4. Fit(k, d) /\ KeepsThinking(c, d)
  BY <1>3, FitAlike
<1>5. Still(d)
  BY <1>4, StillKept
<1>6. QED
  BY <1>1, <1>3, <1>4, <1>5 DEF SameIndices

LEMMA InsideFits ==
    ASSUME NEW k, NEW c, Fit(k, c), Still(c), c.inThinking
    PROVE  LET d == InThinking(c) IN Fit(k, d) /\ Still(d)
<1>1. PICK d : d = Strip(c)
  OBVIOUS
<1>2. Fit(k, d) /\ Still(d) /\ d.inThinking
  BY <1>1, StripFits
<1> DEFINE p == EndTag(d.buf)
           safe == Len(d.buf) - KeptBack
<1>3. CASE p # 0
  <2>1. PICK s, rest : InThinking(c) = EndThinking(d, s, rest)
    BY <1>1, <1>3 DEF InThinking
  <2>2. QED
    BY <1>2, <2>1, ThinkingEnds
<1>4. CASE p = 0 /\ safe <= 0
  <2>1. InThinking(c) = d
    BY <1>1, <1>4 DEF InThinking
  <2>2. QED
    BY <1>2, <2>1
<1>5. CASE p = 0 /\ ~(safe <= 0)
  <2>1. PICK s, n : InThinking(c) = [ThinkingDelta(d, s) EXCEPT !.buf = Drop(@, n)]
    BY <1>1, <1>5 DEF InThinking
  <2>2. PICK i \in DOMAIN d.blocks : i = d.thinkAt /\ d.blocks[i].type = "thinking" /\ d.blocks[i].open
    BY <1>2, BlocksHave DEF Fit, Writes, Indexed, Still
  <2>3. PICK e : e = ThinkingDelta(d, s)
    OBVIOUS
  <2>4. e = Emit(d, Ev("delta", i, d.blocks[i].type, s))
    BY <2>2, <2>3 DEF ThinkingDelta
  <2>5. Fit(k, e) /\ SameIndices(d, e) /\ e.blocks = d.blocks
    <3>1. Fit(k, d)
      BY <1>2
    <3>2. d.blocks[i].open
      BY <2>2
    <3>3. QED
      BY <2>4, <3>1, <3>2, DeltaAppended, SMTT(30)
  <2>6. PICK f : f = [e EXCEPT !.buf = Drop(@, n)]
    OBVIOUS
  <2>7. DOMAIN f = Fields /\ SameIndices(e, f) /\ f.blocks = e.blocks /\ f.out = e.out
    <3>1. DOMAIN e = Fields
      BY <2>5 DEF Fit, Writes
    <3>2. QED
      BY <2>6, <3>1 DEF Fields, SameIndices
  <2>8. Fit(k, f)
    BY <2>5, <2>7, FitAlike
  <2>9. Still(f)
    BY <1>2, <2>5, <2>7 DEF Still, SameIndices
  <2>10. QED
    BY <2>1, <2>3, <2>6, <2>8, <2>9
<1>6. QED
  BY <1>3, <1>4, <1>5

LEMMA AfterFits ==
    ASSUME NEW k, NEW c, Fit(k, c)
    PROVE  LET d == AfterThinking(c) IN Fit(k, d) /\ KeepsThinking(c, d)
<1>1. CASE c.buf = << >>
  <2>1. Len(c.blocks) \in Nat
    BY BlocksHave DEF Fit, Writes
  <2>2. QED
    BY <1>1, <2>1 DEF AfterThinking, KeepsThinking
<1>2. CASE c.buf # << >>
  BY <1>2, TextAndBuffer DEF AfterThinking
<1>3. QED
  BY <1>1, <1>2

\* One chunk of text.
LEMMA ContentFits ==
    ASSUME NEW k, NEW c, NEW s, Fit(k, c), Still(c)
    PROVE  LET d == Content(c, s) IN Fit(k, d) /\ Still(d)
<1>1. CASE ~thinking
  <2>1. PICK d : d = TextDelta(c, s)
    OBVIOUS
  <2>2. Fit(k, d) /\ KeepsThinking(c, d)
    BY <2>1, TextFits
  <2>3. Still(d)
    BY <2>2, StillKept
  <2>4. QED
    BY <1>1, <2>1, <2>2, <2>3 DEF Content
<1>2. CASE thinking
  <2>1. PICK c0 : c0 = [c EXCEPT !.buf = @ \o s]
    OBVIOUS
  <2>2. Fit(k, c0) /\ Still(c0)
    <3>1. DOMAIN c0 = Fields /\ SameIndices(c, c0) /\ c0.blocks = c.blocks /\ c0.out = c.out
      <4>1. DOMAIN c = Fields
        BY DEF Fit, Writes
      <4>2. QED
        BY <2>1, <4>1 DEF Fields, SameIndices
    <3>2. QED
      BY <3>1, FitAlike, StillKept
  <2>3. PICK c1 : c1 = IF c0.inThinking \/ c0.extracted THEN c0 ELSE BeforeThinking(c0)
    OBVIOUS
  <2>4. Fit(k, c1) /\ Still(c1)
    <3>1. CASE c0.inThinking \/ c0.extracted
      BY <2>2, <2>3, <3>1
    <3>2. CASE ~(c0.inThinking \/ c0.extracted)
      <4>1. c1 = BeforeThinking(c0)
        BY <2>3, <3>2
      <4>2. QED
        BY <2>2, <3>2, <4>1, BeforeFits
    <3>3. QED
      BY <3>1, <3>2
  <2>5. PICK c2 : c2 = IF c1.inThinking THEN InThinking(c1) ELSE c1
    OBVIOUS
  <2>6. Fit(k, c2) /\ Still(c2)
    <3>1. CASE c1.inThinking
      <4>1. c2 = InThinking(c1)
        BY <2>5, <3>1
      <4>2. QED
        BY <2>4, <3>1, <4>1, InsideFits
    <3>2. CASE ~c1.inThinking
      BY <2>4, <2>5, <3>2
    <3>3. QED
      BY <3>1, <3>2
  <2>7. PICK d : d = IF c2.extracted THEN AfterThinking(c2) ELSE c2
    OBVIOUS
  <2>8. Fit(k, d) /\ Still(d)
    <3>1. CASE c2.extracted
      <4>1. d = AfterThinking(c2)
        BY <2>7, <3>1
      <4>2. Fit(k, d) /\ KeepsThinking(c2, d)
        BY <2>6, <4>1, AfterFits
      <4>3. QED
        BY <2>6, <4>2, StillKept
    <3>2. CASE ~c2.extracted
      BY <2>6, <2>7, <3>2
    <3>3. QED
      BY <3>1, <3>2
  <2>9. Content(c, s) = d
    BY <1>2, <2>1, <2>3, <2>5, <2>7 DEF Content
  <2>10. QED
    BY <2>8, <2>9
<1>3. QED
  BY <1>1, <1>2

LEMMA FlushedFits ==
    ASSUME NEW k, NEW c, Fit(k, c), Still(c)
    PROVE  LET d == Flushed(c) IN Fit(k, d) /\ Still(d)
<1> DEFINE p == EndTagAtEnd(c.buf)
<1>1. CASE c.inThinking /\ p # 0
  <2>1. PICK s, rest : Flushed(c) = EndThinking(c, s, rest)
    BY <1>1 DEF Flushed
  <2>2. QED
    BY <1>1, <2>1, ThinkingEnds
<1>2. CASE ~(c.inThinking /\ p # 0) /\ ~c.inThinking /\ ~c.extracted
  <2>1. PICK d : d = AfterThinking(c)
    OBVIOUS
  <2>2. Fit(k, d) /\ KeepsThinking(c, d)
    BY <2>1, AfterFits
  <2>3. Still(d)
    BY <2>2, StillKept
  <2>4. QED
    BY <1>2, <2>1, <2>2, <2>3 DEF Flushed
<1>3. CASE ~(c.inThinking /\ p # 0) /\ ~(~c.inThinking /\ ~c.extracted)
  BY <1>3 DEF Flushed
<1>4. QED
  BY <1>1, <1>2, <1>3

LEMMA TextStopped ==
    ASSUME NEW k, NEW c, NEW ts, Fit(k, c)
    PROVE  LET d == StopBlocks(c, OpenBlocks(c, ts)) IN
           Fit(k, d) /\ SameIndices(c, d) /\ SameBuffer(c, d) /\ StoppedIn(c, d, OpenBlocks(c, ts))
<1>1. \A i \in OpenBlocks(c, ts) : i \in DOMAIN c.blocks /\ c.blocks[i].open
  BY DEF OpenBlocks
<1>2. QED
  BY <1>1, BlocksStopped

\* The index of the call's block.
HasTool(c, id) == c.tool[id] \in DOMAIN c.blocks /\ c.blocks[c.tool[id]].type = "tool_use"

LEMMA ToolBlockFits ==
    ASSUME NEW k, NEW c, NEW id \in Tools, Fit(k, c), Still(c)
    PROVE  LET d == ToolBlock(c, id) IN Fit(k, d) /\ Still(d) /\ HasTool(d, id)
<1>1. PICK e : e = StopBlocks(c, OpenBlocks(c, {"text"}))
  OBVIOUS
<1>2. /\ Fit(k, e) /\ SameIndices(c, e) /\ StoppedIn(c, e, OpenBlocks(c, {"text"}))
  BY <1>1, TextStopped
<1>3. Still(e)
  <2>1. \A i \in DOMAIN c.blocks : c.blocks[i].open \in BOOLEAN
    BY BlocksHave DEF Fit, Writes
  <2>2. Len(c.blocks) \in Nat
    BY BlocksHave DEF Fit, Writes
  <2>3. \A i \in DOMAIN c.blocks : c.blocks[i].type = "thinking" => i \notin OpenBlocks(c, {"text"})
    BY DEF OpenBlocks
  <2>4. ASSUME NEW i \in DOMAIN c.blocks, c.blocks[i].type = "thinking"
        PROVE  e.blocks[i].open = c.blocks[i].open
    BY <1>2, <2>1, <2>3, <2>4 DEF StoppedIn
  <2>5. KeepsThinking(c, e)
    BY <1>2, <2>2, <2>4 DEF KeepsThinking, SameIndices, StoppedIn
  <2>6. QED
    BY <2>5, StillKept
<1>4. /\ Indexed(e) /\ Writes(k, e) /\ e.blocks \in Seq(Block)
      /\ Len(e.blocks) \in Nat /\ DOMAIN e.blocks = 1 .. Len(e.blocks)
  BY <1>2, BlocksHave DEF Fit, Writes
<1>5. CASE e.tool[id] # 0
  <2>1. HasTool(e, id)
    BY <1>4, <1>5 DEF Indexed, HasTool
  <2>2. ToolBlock(c, id) = e
    BY <1>1, <1>5 DEF ToolBlock
  <2>3. QED
    BY <1>2, <1>3, <2>1, <2>2
<1>6. CASE e.tool[id] = 0
  <2>1. PICK g : g = StartBlock(e, "tool_use")
    OBVIOUS
  <2>2. Writes(k, g) /\ SameIndices(e, g) /\ Longer(e, g, "tool_use")
    BY <1>4, <2>1, BlockStarted, TypesAre
  <2>3. PICK d : d = [g EXCEPT !.tool[id] = Len(e.blocks) + 1]
    OBVIOUS
  <2>4. PICK tool : tool = [e.tool EXCEPT ![id] = Len(e.blocks) + 1]
    OBVIOUS
  <2>5. /\ DOMAIN d = Fields /\ d.blocks = g.blocks /\ d.out = g.out /\ d.tool = tool
        /\ d.inThinking = e.inThinking /\ d.extracted = e.extracted
        /\ d.thinkAt = e.thinkAt /\ d.textAt = e.textAt
    <3>1. DOMAIN g = Fields /\ g.tool = e.tool
      BY <2>2 DEF Writes, SameIndices
    <3>2. d = [g EXCEPT !.tool = tool]
      BY <2>3, <2>4, <3>1
    <3>3. QED
      BY <2>2, <3>1, <3>2 DEF Fields, SameIndices
  <2>6. Writes(k, d)
    BY <2>2, <2>5 DEF Writes
  <2>7. /\ Len(d.blocks) = Len(e.blocks) + 1 /\ DOMAIN d.blocks = 1 .. Len(e.blocks) + 1
        /\ \A i \in 1 .. Len(e.blocks) : d.blocks[i] = e.blocks[i]
        /\ d.blocks[Len(e.blocks) + 1].type = "tool_use"
    BY <1>4, <2>2, <2>5, <2>6, BlocksHave DEF Writes, Longer
  <2>8. /\ tool \in [Tools -> 0 .. Len(d.blocks)]
        /\ \A j \in Tools : tool[j] = IF j = id THEN Len(e.blocks) + 1 ELSE e.tool[j]
    <3>1. e.tool \in [Tools -> 0 .. Len(e.blocks)]
      BY <1>4 DEF Indexed
    <3>2. Len(e.blocks) + 1 \in 0 .. Len(d.blocks)
          /\ \A x \in 0 .. Len(e.blocks) : x \in 0 .. Len(d.blocks)
      BY <1>4, <2>7
    <3>3. QED
      BY <2>4, <3>1, <3>2
  <2>9. Indexed(d)
    <3>1. /\ d.inThinking \in BOOLEAN /\ d.extracted \in BOOLEAN
          /\ d.inThinking => ~d.extracted /\ d.thinkAt # 0
      BY <1>4, <2>5 DEF Indexed
    <3>2. /\ d.thinkAt \in 0 .. Len(d.blocks) /\ d.textAt \in 0 .. Len(d.blocks)
          /\ d.tool \in [Tools -> 0 .. Len(d.blocks)]
      BY <1>4, <2>5, <2>7, <2>8 DEF Indexed
    <3>3. /\ d.thinkAt # 0 => d.blocks[d.thinkAt].type = "thinking"
          /\ d.textAt # 0 => d.blocks[d.textAt].type = "text"
      BY <1>4, <2>5, <2>7 DEF Indexed
    <3>4. \A i \in DOMAIN d.blocks : d.blocks[i].type = "text" /\ d.blocks[i].open => i = d.textAt
      <4> TAKE i \in DOMAIN d.blocks
      <4>1. CASE i \in 1 .. Len(e.blocks)
        BY <1>4, <2>5, <2>7, <4>1 DEF Indexed
      <4>2. CASE i \notin 1 .. Len(e.blocks)
        <5>1. i = Len(e.blocks) + 1
          BY <1>4, <2>7, <4>2
        <5>2. QED
          BY <2>7, <5>1
      <4>3. QED
        BY <4>1, <4>2
    <3>5. \A i \in DOMAIN d.blocks : d.blocks[i].type = "thinking" => d.thinkAt # 0
      <4> TAKE i \in DOMAIN d.blocks
      <4>1. CASE i \in 1 .. Len(e.blocks)
        BY <1>4, <2>5, <2>7, <4>1 DEF Indexed
      <4>2. CASE i \notin 1 .. Len(e.blocks)
        <5>1. i = Len(e.blocks) + 1
          BY <1>4, <2>7, <4>2
        <5>2. QED
          BY <2>7, <5>1
      <4>3. QED
        BY <4>1, <4>2
    <3>6. ASSUME NEW j \in Tools, d.tool[j] # 0
          PROVE  d.blocks[d.tool[j]].type = "tool_use"
      <4>1. CASE j = id
        BY <2>5, <2>7, <2>8, <4>1
      <4>2. CASE j # id
        <5>1. d.tool[j] = e.tool[j]
          BY <2>5, <2>8, <4>2
        <5>2. e.tool[j] \in 1 .. Len(e.blocks) /\ e.blocks[e.tool[j]].type = "tool_use"
          BY <1>4, <3>6, <5>1 DEF Indexed
        <5>3. QED
          BY <2>7, <5>1, <5>2
      <4>3. QED
        BY <4>1, <4>2
    <3>7. QED
      BY <3>1, <3>2, <3>3, <3>4, <3>5, <3>6 DEF Indexed
  <2>10. Still(d)
    <3>1. CASE d.inThinking
      <4>1. e.inThinking /\ e.thinkAt \in 1 .. Len(e.blocks)
        BY <1>4, <2>5, <3>1 DEF Indexed
      <4>2. d.blocks[d.thinkAt] = e.blocks[e.thinkAt]
        BY <2>5, <2>7, <4>1
      <4>3. QED
        BY <1>3, <4>1, <4>2 DEF Still
    <3>2. CASE ~d.inThinking
      BY <3>2 DEF Still
    <3>3. QED
      BY <3>1, <3>2
  <2>11. HasTool(d, id)
    <3>1. d.tool[id] = Len(e.blocks) + 1 /\ Len(e.blocks) + 1 \in DOMAIN d.blocks
      BY <1>4, <2>5, <2>7, <2>8
    <3>2. QED
      BY <2>7, <3>1 DEF HasTool
  <2>12. ToolBlock(c, id) = d
    BY <1>1, <1>6, <2>1, <2>3 DEF ToolBlock
  <2>13. QED
    BY <2>6, <2>9, <2>10, <2>11, <2>12 DEF Fit
<1>7. QED
  BY <1>5, <1>6

LEMMA ToolUseFits ==
    ASSUME NEW k, NEW c, NEW id \in Tools, NEW input \in BOOLEAN, NEW stop \in BOOLEAN,
           Fit(k, c), Still(c)
    PROVE  LET d == ToolUse(c, id, input, stop) IN Fit(k, d) /\ Still(d)
<1>1. PICK f : f = Flushed(c)
  OBVIOUS
<1>2. Fit(k, f) /\ Still(f)
  BY <1>1, FlushedFits
<1>3. PICK g : g = ToolBlock(f, id)
  OBVIOUS
<1>4. Fit(k, g) /\ Still(g) /\ HasTool(g, id)
  BY <1>2, <1>3, ToolBlockFits
<1>5. PICK c1 : c1 = [g EXCEPT !.hasToolUse = TRUE]
  OBVIOUS
<1>6. DOMAIN c1 = Fields /\ SameIndices(g, c1) /\ c1.blocks = g.blocks /\ c1.out = g.out
  <2>1. DOMAIN g = Fields
    BY <1>4 DEF Fit, Writes
  <2>2. QED
    BY <1>5, <2>1 DEF Fields, SameIndices
<1>7. Fit(k, c1) /\ KeepsThinking(g, c1)
  BY <1>4, <1>6, FitAlike
<1>8. Still(c1)
  BY <1>4, <1>7, StillKept
<1>9. PICK i \in DOMAIN c1.blocks : i = c1.tool[id] /\ c1.blocks[i].type = "tool_use"
  BY <1>4, <1>6 DEF HasTool, SameIndices
<1>10. PICK c2 : c2 = IF input THEN Delta(c1, c1.tool[id], << >>) ELSE c1
  OBVIOUS
<1>11. Fit(k, c2) /\ Still(c2) /\ SameIndices(c1, c2) /\ c2.blocks = c1.blocks
  <2>1. CASE input
    <3>1. c2 = Delta(c1, i, << >>)
      BY <1>9, <1>10, <2>1
    <3>2. Fit(k, c2) /\ KeepsThinking(c1, c2) /\ SameIndices(c1, c2) /\ c2.blocks = c1.blocks
      BY <1>7, <3>1, DeltaFits
    <3>3. Still(c2)
      BY <1>7, <1>8, <3>2, StillKept
    <3>4. QED
      BY <3>2, <3>3
  <2>2. CASE ~input
    BY <1>7, <1>8, <1>10, <2>2 DEF SameIndices
  <2>3. QED
    BY <2>1, <2>2
<1>12. i \in DOMAIN c2.blocks /\ i = c2.tool[id] /\ c2.blocks[i].type = "tool_use"
  BY <1>9, <1>11 DEF SameIndices
<1>13. PICK d : d = IF stop THEN StopBlock(c2, c2.tool[id]) ELSE c2
  OBVIOUS
<1>14. Fit(k, d) /\ Still(d)
  <2>1. CASE stop
    <3>1. d = StopBlock(c2, i)
      BY <1>12, <1>13, <2>1
    <3>2. Fit(k, c2)
      BY <1>11
    <3>3. i \in DOMAIN c2.blocks
      BY <1>12
    <3>4. /\ Fit(k, d) /\ SameIndices(c2, d)
          /\ DOMAIN d.blocks = DOMAIN c2.blocks /\ Len(d.blocks) = Len(c2.blocks)
          /\ \A j \in DOMAIN c2.blocks :
                /\ d.blocks[j].type = c2.blocks[j].type
                /\ j # i => d.blocks[j].open = c2.blocks[j].open
      BY <3>1, <3>2, <3>3, StopFits
    <3>5. KeepsThinking(c2, d)
      <4>1. Len(c2.blocks) \in Nat
        BY <3>2, BlocksHave DEF Fit, Writes
      <4>2. ASSUME NEW j \in DOMAIN c2.blocks, c2.blocks[j].type = "thinking"
            PROVE  d.blocks[j].open = c2.blocks[j].open
        BY <1>12, <3>4, <4>2
      <4>3. QED
        BY <3>4, <4>1, <4>2 DEF KeepsThinking, SameIndices
    <3>6. Still(d)
      BY <1>11, <3>5, StillKept
    <3>7. QED
      BY <3>4, <3>6
  <2>2. CASE ~stop
    BY <1>11, <1>13, <2>2
  <2>3. QED
    BY <2>1, <2>2
<1>15. ToolUse(c, id, input, stop) = d
  BY <1>1, <1>3, <1>5, <1>10, <1>13 DEF ToolUse
<1>16. QED
  BY <1>14, <1>15

LEMMA LastFits ==
    ASSUME NEW k, NEW c, Fit(k, c), Still(c)
    PROVE  Fit(k, LastOfBuffer(c))
<1> DEFINE p == EndTagAtEnd(c.buf)
<1>1. CASE c.buf = << >> \/ ~thinking
  BY <1>1 DEF LastOfBuffer
<1>2. CASE ~(c.buf = << >> \/ ~thinking) /\ ~c.inThinking
  <2>1. PICK d : d = AfterThinking(c)
    OBVIOUS
  <2>2. Fit(k, d)
    BY <2>1, AfterFits
  <2>3. QED
    BY <1>2, <2>1, <2>2 DEF LastOfBuffer
<1>3. CASE ~(c.buf = << >> \/ ~thinking) /\ c.inThinking /\ p # 0
  <2>1. PICK s, rest : LastOfBuffer(c) = EndThinking(c, s, rest)
    BY <1>3 DEF LastOfBuffer
  <2>2. QED
    BY <1>3, <2>1, ThinkingEnds
<1>4. CASE ~(c.buf = << >> \/ ~thinking) /\ c.inThinking /\ p = 0
  <2>1. PICK e : e = CloseThinking(c, c.buf)
    OBVIOUS
  <2>2. c.thinkAt # 0 /\ c.blocks[c.thinkAt].open
    BY <1>4 DEF Fit, Indexed, Still
  <2>3. Fit(k, e)
    BY <2>1, <2>2, ThinkingCloses
  <2>4. PICK d : d = [e EXCEPT !.buf = << >>]
    OBVIOUS
  <2>5. DOMAIN d = Fields /\ SameIndices(e, d) /\ d.blocks = e.blocks /\ d.out = e.out
    <3>1. DOMAIN e = Fields
      BY <2>3 DEF Fit, Writes
    <3>2. QED
      BY <2>4, <3>1 DEF Fields, SameIndices
  <2>6. Fit(k, d)
    BY <2>3, <2>5, FitAlike
  <2>7. QED
    BY <1>4, <2>1, <2>4, <2>6 DEF LastOfBuffer
<1>5. QED
  BY <1>1, <1>2, <1>3, <1>4

\* A client that has got something to show beside the thinking, and the end.
Showing(b) == b # << >> => \E i \in DOMAIN b : b[i].type # "thinking"
Whole(t) == t.phase = "done" /\ Showing(t.blocks)
EndsWhole(k, c) == \E t \in Readers : Whole(t) /\ Leads(k, c.out, t)

\* The two events at the end of a message whose blocks are closed.
LEMMA MessageEnds ==
    ASSUME NEW k, NEW o, NEW b \in Seq(Block), NEW reason, NEW none,
           Leads(k, o, Open(b)), \A i \in DOMAIN b : ~b[i].open
    PROVE  Leads(k, Append(Append(o, Ev("message_delta", 0, reason, << >>)),
                           Ev("message_stop", 0, none, << >>)),
                 [phase |-> "done", blocks |-> b])
<1> DEFINE d == Ev("message_delta", 0, reason, << >>)
           s == Ev("message_stop", 0, none, << >>)
           t == [phase |-> "closing", blocks |-> b]
           u == [phase |-> "done", blocks |-> b]
<1>1. d.ev = "message_delta" /\ s.ev = "message_stop"
  BY DEF Ev
<1>2. t \in Readers /\ u \in Readers
  BY DEF Readers
<1>3. Client!Accepts(Open(b), d) /\ Client!Receive(Open(b), d) = t
  <2>1. Open(b).phase = "open" /\ Open(b).blocks = b
    BY OpenReader
  <2>2. Client!AllClosed(Open(b))
    BY <2>1 DEF Client!AllClosed
  <2>3. Client!Accepts(Open(b), d)
    BY <1>1, <2>1, <2>2 DEF Client!Accepts
  <2>4. Client!Receive(Open(b), d) = [Open(b) EXCEPT !.phase = "closing"]
    BY <1>1 DEF Client!Receive
  <2>5. QED
    BY <2>3, <2>4 DEF Open
<1>4. Client!Accepts(t, s) /\ Client!Receive(t, s) = u
  <2>1. t.phase = "closing"
    OBVIOUS
  <2>2. Client!Accepts(t, s)
    BY <1>1, <2>1 DEF Client!Accepts
  <2>3. Client!Receive(t, s) = [t EXCEPT !.phase = "done"]
    BY <1>1 DEF Client!Receive
  <2>4. QED
    BY <2>2, <2>3
<1> HIDE DEF d, s, t, u
<1>5. Leads(k, Append(o, d), t)
  BY <1>2, <1>3, LeadsAppend
<1>6. Leads(k, Append(Append(o, d), s), u)
  BY <1>2, <1>4, <1>5, LeadsAppend
<1>7. QED
  BY <1>6 DEF d, s, u

LEMMA FinalEnds ==
    ASSUME NEW k, NEW c, Fit(k, c), Still(c)
    PROVE  LET d == Final(c) IN DOMAIN d = Fields /\ Indexed(d) /\ EndsWhole(k, d)
<1>1. PICK c1 : c1 = LastOfBuffer(c)
  OBVIOUS
<1>2. Fit(k, c1)
  BY <1>1, LastFits
<1>3. PICK c2 : c2 = IF OnlyThinking(c1)
                     THEN TextDelta([c1 EXCEPT !.reason = "max_tokens"], <<NL>>) ELSE c1
  OBVIOUS
<1>4. Fit(k, c2) /\ Showing(c2.blocks)
  <2>1. CASE OnlyThinking(c1)
    <3>1. PICK e : e = [c1 EXCEPT !.reason = "max_tokens"]
      OBVIOUS
    <3>2. DOMAIN e = Fields /\ SameIndices(c1, e) /\ e.blocks = c1.blocks /\ e.out = c1.out
      <4>1. DOMAIN c1 = Fields
        BY <1>2 DEF Fit, Writes
      <4>2. QED
        BY <3>1, <4>1 DEF Fields, SameIndices
    <3>3. Fit(k, e)
      BY <1>2, <3>2, FitAlike
    <3>4. c2 = TextDelta(e, <<NL>>)
      BY <1>3, <2>1, <3>1
    <3>5. Fit(k, c2) /\ c2.textAt # 0
      BY <3>3, <3>4, TextFits
    <3>6. c2.textAt \in DOMAIN c2.blocks /\ c2.blocks[c2.textAt].type = "text"
      BY <3>5, BlocksHave DEF Fit, Writes, Indexed
    <3>7. QED
      BY <3>5, <3>6 DEF Showing
  <2>2. CASE ~OnlyThinking(c1)
    <3>1. c2 = c1
      BY <1>3, <2>2
    <3>2. CASE c1.thinkAt = 0
      <4>1. \A i \in DOMAIN c1.blocks : c1.blocks[i].type # "thinking"
        BY <1>2, <3>2 DEF Fit, Indexed
      <4>2. c1.blocks # << >> => 1 \in DOMAIN c1.blocks
        <5>1. c1.blocks \in Seq(Block)
          BY <1>2 DEF Fit, Writes
        <5>2. Len(c1.blocks) \in Nat /\ DOMAIN c1.blocks = 1 .. Len(c1.blocks)
          BY <5>1, BlocksHave
        <5>3. c1.blocks # << >> => Len(c1.blocks) # 0
          BY <5>1, EmptySeq
        <5>4. QED
          BY <5>2, <5>3
      <4>3. QED
        BY <1>2, <3>1, <4>1, <4>2 DEF Showing
    <3>3. CASE c1.thinkAt # 0
      BY <1>2, <2>2, <3>1, <3>3 DEF OnlyThinking, Showing
    <3>4. QED
      BY <3>2, <3>3
  <2>3. QED
    BY <2>1, <2>2
<1>5. PICK c3 : c3 = StopBlocks(c2, OpenBlocks(c2, Client!Types))
  OBVIOUS
<1>6. Fit(k, c3) /\ StoppedIn(c2, c3, OpenBlocks(c2, Client!Types))
  BY <1>4, <1>5, TextStopped
<1>7. \A i \in DOMAIN c3.blocks : ~c3.blocks[i].open
  <2>1. \A i \in DOMAIN c2.blocks : c2.blocks[i].type \in Client!Types
    BY <1>4, BlocksHave DEF Fit, Writes
  <2>2. \A i \in DOMAIN c2.blocks : c2.blocks[i].open => i \in OpenBlocks(c2, Client!Types)
    BY <2>1 DEF OpenBlocks
  <2>3. DOMAIN c3.blocks = DOMAIN c2.blocks
    BY <1>6 DEF StoppedIn
  <2>4. \A i \in DOMAIN c2.blocks :
            c3.blocks[i].open = (c2.blocks[i].open /\ i \notin OpenBlocks(c2, Client!Types))
    BY <1>6 DEF StoppedIn
  <2>5. QED
    BY <2>2, <2>3, <2>4
<1>8. Showing(c3.blocks)
  <2>1. DOMAIN c3.blocks = DOMAIN c2.blocks /\ Len(c3.blocks) = Len(c2.blocks)
        /\ \A i \in DOMAIN c2.blocks : c3.blocks[i].type = c2.blocks[i].type
    BY <1>6 DEF StoppedIn
  <2>2. c3.blocks \in Seq(Block) /\ c2.blocks \in Seq(Block)
    BY <1>4, <1>6 DEF Fit, Writes
  <2>3. c3.blocks # << >> => c2.blocks # << >>
    BY <2>1, <2>2, EmptySeq
  <2>4. QED
    BY <1>4, <2>1, <2>3 DEF Showing
<1> DEFINE e == Ev("message_delta", 0, StopReason(c3), << >>)
           f == Ev("message_stop", 0, "none", << >>)
<1>9. PICK d : d = Emit(Emit(c3, e), f)
  OBVIOUS
<1>10. DOMAIN c3 = Fields /\ c3.blocks \in Seq(Block) /\ Leads(k, c3.out, Open(c3.blocks))
  BY <1>6 DEF Fit, Writes
<1>11. /\ DOMAIN d = Fields /\ SameIndices(c3, d) /\ d.blocks = c3.blocks
       /\ d.out = Append(Append(c3.out, e), f)
  <2> HIDE DEF e, f
  <2>1. QED
    BY <1>9, <1>10 DEF Emit, Fields, SameIndices
<1>12. Indexed(d)
  BY <1>6, <1>11 DEF Fit, Indexed, SameIndices
<1>13. Leads(k, d.out, [phase |-> "done", blocks |-> c3.blocks])
  BY <1>7, <1>10, <1>11, MessageEnds
<1>14. EndsWhole(k, d)
  <2>1. [phase |-> "done", blocks |-> c3.blocks] \in Readers
    BY <1>10 DEF Readers
  <2>2. Whole([phase |-> "done", blocks |-> c3.blocks])
    BY <1>8 DEF Whole
  <2>3. QED
    BY <1>13, <2>1, <2>2 DEF EndsWhole
<1>15. Final(c) = d
  BY <1>1, <1>3, <1>5, <1>9 DEF Final
<1>16. QED
  BY <1>11, <1>12, <1>14, <1>15

-----------------------------------------------------------------------------
(* The answer to a search.                                                    *)

Shut(b) == \A i \in DOMAIN b : ~b[i].open

LEMMA DeltasLead ==
    ASSUME NEW b \in Seq(Block), NEW i \in DOMAIN b, b[i].open,
           NEW n \in Nat, NEW deltas, DOMAIN deltas = 1 .. n
    PROVE  Leads(Open(b), [k \in DOMAIN deltas |-> Ev("delta", i, b[i].type, deltas[k])], Open(b))
<1> DEFINE q == [k \in DOMAIN deltas |-> Ev("delta", i, b[i].type, deltas[k])]
           r == [k \in 0 .. n |-> Open(b)]
<1>1. IsSeq(q) /\ Len(q) = n
  <2>1. q \in [1 .. n -> {q[k] : k \in DOMAIN q}]
    OBVIOUS
  <2>2. DOMAIN q = 1 .. n
    OBVIOUS
  <2> HIDE DEF q
  <2>3. q \in Seq({q[k] : k \in DOMAIN q})
    BY <2>1, SeqDef
  <2>4. QED
    BY <2>2, <2>3, LenProperties DEF IsSeq
<1>2. r \in [0 .. n -> Readers] /\ r[0] = Open(b) /\ r[n] = Open(b)
  BY OpenReader
<1>3. ASSUME NEW k \in 1 .. n
      PROVE  Client!Accepts(r[k - 1], q[k]) /\ r[k] = Client!Receive(r[k - 1], q[k])
  <2>1. k - 1 \in 0 .. n /\ k \in 0 .. n
    OBVIOUS
  <2>2. r[k - 1] = Open(b) /\ r[k] = Open(b) /\ q[k] = Ev("delta", i, b[i].type, deltas[k])
    BY <2>1
  <2> HIDE DEF r, q
  <2>3. QED
    BY <2>2, GetsDelta
<1> HIDE DEF q, r
<1>4. Reads(r, q)
  BY <1>1, <1>3 DEF Reads
<1>5. Leads(Open(b), q, Open(b))
  BY <1>1, <1>2, <1>4 DEF Leads
<1>6. QED
  BY <1>5 DEF q

\* The events o add a block of type t, which is closed, to the blocks b.
AddsBlock(b, o, t) ==
    \E d \in Seq(Block) :
        /\ Leads(Open(b), o, Open(d))
        /\ Len(d) = Len(b) + 1 /\ Shut(d) /\ d[Len(b) + 1].type = t
        /\ \A i \in DOMAIN b : d[i].type = b[i].type

LEMMA SearchBlockLeads ==
    ASSUME NEW b \in Seq(Block), Shut(b), NEW t \in Client!Types,
           NEW n \in Nat, NEW deltas, DOMAIN deltas = 1 .. n
    PROVE  AddsBlock(b, SearchBlock(Len(b) + 1, t, deltas), t)
<1> DEFINE m == Len(b) + 1
           s == Ev("block_start", m, t, << >>)
           e == Ev("block_stop", m, t, << >>)
<1>1. Len(b) \in Nat /\ DOMAIN b = 1 .. Len(b)
  BY BlocksHave
<1>2. PICK x : x = [type |-> t, open |-> TRUE]
  OBVIOUS
<1>3. x \in Block /\ x.type = t /\ x.open
  BY <1>2 DEF Block
<1>4. PICK g : g = Append(b, x)
  OBVIOUS
<1>5. /\ g \in Seq(Block)
      /\ Client!Accepts(Open(b), s) /\ Client!Receive(Open(b), s) = Open(g)
  BY <1>2, <1>4, StartsBlock
<1>6. /\ Len(g) = m /\ m \in DOMAIN g /\ g[m] = x
      /\ \A i \in DOMAIN b : g[i] = b[i]
      /\ DOMAIN g = 1 .. m
  <2>1. /\ Len(g) = Len(b) + 1 /\ g[Len(b) + 1] = x /\ \A i \in 1 .. Len(b) : g[i] = b[i]
    BY <1>3, <1>4, AppendProperties
  <2>2. DOMAIN g = 1 .. Len(b) + 1
    BY <1>5, <2>1, BlocksHave
  <2>3. QED
    BY <1>1, <2>1, <2>2
<1> HIDE DEF s, e
<1>7. Leads(Open(b), << s >>, Open(g))
  BY <1>5, OpenReader, LeadsOnce
<1> DEFINE q == [k \in DOMAIN deltas |-> Ev("delta", m, t, deltas[k])]
<1>8. Leads(Open(g), q, Open(g))
  <2>1. Leads(Open(g), [k \in DOMAIN deltas |-> Ev("delta", m, g[m].type, deltas[k])], Open(g))
    <3>1. g[m].open
      BY <1>3, <1>6
    <3> HIDE DEF m
    <3>2. QED
      BY <1>5, <1>6, <3>1, DeltasLead
  <2>2. QED
    BY <1>3, <1>6, <2>1
<1>9. PICK d : d = Closed(g, {m})
  OBVIOUS
<1>10. /\ d \in Seq(Block) /\ Len(d) = m /\ DOMAIN d = 1 .. m
       /\ \A i \in 1 .. m : d[i].type = g[i].type /\ d[i].open = (g[i].open /\ i \notin {m})
  BY <1>5, <1>6, <1>9, ClosedBlocks
<1>11. Leads(Open(g), << e >>, Open(d))
  <2>1. e.ev = "block_stop" /\ e.at = m
    BY DEF e, Ev
  <2>2. Client!Accepts(Open(g), e) /\ Client!Receive(Open(g), e) = Open(d)
    BY <1>3, <1>5, <1>6, <1>9, <2>1, StopsBlock
  <2>3. Open(g) \in Readers /\ Open(d) \in Readers
    BY <1>5, <1>10, OpenReader
  <2>4. QED
    BY <2>2, <2>3, LeadsOnce
<1> HIDE DEF q
<1>12. Leads(Open(b), << s >> \o q \o << e >>, Open(d))
  <2>1. Leads(Open(b), << s >> \o q, Open(g))
    BY <1>7, <1>8, LeadsConcat
  <2>2. QED
    BY <1>11, <2>1, LeadsConcat
<1>13. SearchBlock(Len(b) + 1, t, deltas) = << s >> \o q \o << e >>
  BY DEF SearchBlock, s, q, e
<1>14. Shut(d)
  <2> SUFFICES ASSUME NEW i \in 1 .. m
               PROVE  ~d[i].open
    BY <1>10 DEF Shut
  <2>1. CASE i = m
    BY <1>10, <2>1
  <2>2. CASE i # m
    <3>1. i \in DOMAIN b
      BY <1>1, <2>2
    <3>2. ~g[i].open
      BY <1>6, <3>1 DEF Shut
    <3>3. QED
      BY <1>10, <3>2
  <2>3. QED
    BY <2>1, <2>2
<1>15. /\ d[Len(b) + 1].type = t
       /\ \A i \in DOMAIN b : d[i].type = b[i].type
  BY <1>1, <1>3, <1>6, <1>10
<1>16. QED
  BY <1>10, <1>12, <1>13, <1>14, <1>15 DEF AddsBlock

\* b has m blocks, all closed, and text in the first
TextFirst(b, m) == b \in Seq(Block) /\ Len(b) = m /\ Shut(b) /\ b[1].type = "text"

LEMMA NextBlockLeads ==
    ASSUME NEW m \in Nat, m > 0, NEW b, TextFirst(b, m), NEW t \in Client!Types,
           NEW n \in Nat, NEW deltas, DOMAIN deltas = 1 .. n,
           NEW j, j = m + 1, NEW o, o = SearchBlock(j, t, deltas)
    PROVE  \E d : TextFirst(d, j) /\ Leads(Open(b), o, Open(d))
<1>1. b \in Seq(Block) /\ Len(b) = m /\ Shut(b) /\ b[1].type = "text"
  BY DEF TextFirst
<1>2. AddsBlock(b, o, t)
  BY <1>1, SearchBlockLeads
<1>3. PICK d \in Seq(Block) :
              /\ Leads(Open(b), o, Open(d))
              /\ Len(d) = Len(b) + 1 /\ Shut(d)
              /\ \A i \in DOMAIN b : d[i].type = b[i].type
  BY <1>2 DEF AddsBlock
<1>4. 1 \in DOMAIN b
  BY <1>1, BlocksHave
<1>5. TextFirst(d, j)
  BY <1>1, <1>3, <1>4 DEF TextFirst
<1>6. QED
  BY <1>3, <1>5

LEMMA StartLeads ==
    LET e == Ev("message_start", 0, "none", << >>) IN
    /\ Client!NewClient \in Readers /\ << >> \in Seq(Block)
    /\ Client!Accepts(Client!NewClient, e) /\ Client!Receive(Client!NewClient, e) = Open(<< >>)
    /\ Leads(Client!NewClient, << e >>, Open(<< >>))
<1> DEFINE e == Ev("message_start", 0, "none", << >>)
<1>1. << >> \in Seq(Block)
  BY EmptySeq
<1>2. Client!NewClient \in Readers /\ Open(<< >>) \in Readers
  BY <1>1, OpenReader DEF Readers, Client!NewClient
<1>3. e.ev = "message_start"
  BY DEF Ev
<1>4. Client!Accepts(Client!NewClient, e)
  BY <1>3 DEF Client!Accepts, Client!NewClient
<1>5. Client!Receive(Client!NewClient, e) = [Client!NewClient EXCEPT !.phase = "open"]
  BY <1>3 DEF Client!Receive
<1>6. [Client!NewClient EXCEPT !.phase = "open"] = Open(<< >>)
  BY DEF Open, Client!NewClient
<1>7. Client!Receive(Client!NewClient, e) = Open(<< >>)
  BY <1>5, <1>6
<1> HIDE DEF e
<1>8. Leads(Client!NewClient, << e >>, Open(<< >>))
  BY <1>2, <1>4, <1>7, LeadsOnce
<1>9. QED
  BY <1>1, <1>2, <1>4, <1>7, <1>8 DEF e

LEMMA SearchLeads ==
    ASSUME NEW s \in Seq(STRING), s # << >>, NEW c, c.out = generate_websearch_events(s)
    PROVE  EndsWhole(Client!NewClient, c)
<1> DEFINE k == Client!NewClient
           e0 == Ev("message_start", 0, "none", << >>)
           e1 == SearchBlock(1, "text", << Take(s, 1) >>)
           e2 == SearchBlock(2, "server_tool_use", << >>)
           e3 == SearchBlock(3, "web_search_tool_result", << >>)
           e4 == SearchBlock(4, "text", Chunks(Drop(s, 1)))
           e5 == << Ev("message_delta", 0, "end_turn", << >>), Ev("message_stop", 0, "none", << >>) >>
<1>1. << >> \in Seq(Block) /\ Len(<< >>) = 0 /\ Shut(<< >>) /\ Leads(k, << e0 >>, Open(<< >>))
  BY StartLeads, EmptySeq DEF Shut
<1>2. /\ "text" \in Client!Types /\ "server_tool_use" \in Client!Types
      /\ "web_search_tool_result" \in Client!Types
  BY DEF Client!Types
<1>3. PICK n \in Nat : DOMAIN Chunks(Drop(s, 1)) = 1 .. n
  <2>1. Len(Drop(s, 1)) \in Nat
    <3>1. Len(s) \in Nat
      BY LenProperties
    <3>2. Drop(s, 1) \in Seq(STRING)
      BY <3>1, SubSeqProperties DEF Drop
    <3>3. QED
      BY <3>2, LenProperties
  <2>2. SummaryChunk \in Nat \ {0}
    BY BoundAssumption
  <2>3. DOMAIN Chunks(Drop(s, 1)) = 1 .. ((Len(Drop(s, 1)) + SummaryChunk - 1) \div SummaryChunk)
    BY DEF Chunks
  <2> HIDE DEF k, e0, e1, e2, e3, e4, e5
  <2>4. (Len(Drop(s, 1)) + SummaryChunk - 1) \div SummaryChunk \in Nat
    <3>1. \A a, d \in Nat : d # 0 => a \div d \in Nat
      OBVIOUS
    <3>2. Len(Drop(s, 1)) + SummaryChunk - 1 \in Nat
      BY <2>1, <2>2
    <3>3. QED
      BY <2>2, <3>1, <3>2
  <2>5. QED
    BY <2>3, <2>4
<1>4. PICK b1 : TextFirst(b1, 1) /\ Leads(Open(<< >>), e1, Open(b1))
  <2>1. PICK deltas : deltas = << Take(s, 1) >>
    OBVIOUS
  <2>2. DOMAIN deltas = 1 .. 1 /\ 1 \in Nat
    BY <2>1
  <2>3. PICK b : b = << >>
    OBVIOUS
  <2>4. b \in Seq(Block) /\ Shut(b) /\ Len(b) + 1 = 1
    BY <1>1, <2>3
  <2>5. AddsBlock(b, SearchBlock(Len(b) + 1, "text", deltas), "text")
    BY <1>2, <2>2, <2>4, SearchBlockLeads
  <2>6. PICK d \in Seq(Block) :
           /\ Leads(Open(b), SearchBlock(1, "text", deltas), Open(d))
           /\ Len(d) = 1 /\ Shut(d) /\ d[1].type = "text"
    BY <2>4, <2>5 DEF AddsBlock
  <2>7. TextFirst(d, 1) /\ Leads(Open(<< >>), e1, Open(d))
    BY <2>1, <2>3, <2>6 DEF TextFirst
  <2>8. QED
    BY <2>7
<1>6. PICK none : none = << >>
  OBVIOUS
<1>7. DOMAIN none = 1 .. 0 /\ 0 \in Nat
  BY <1>6
<1> HIDE DEF k, e0, e1, e5
<1>8. PICK b2 : TextFirst(b2, 2) /\ Leads(Open(b1), e2, Open(b2))
  <2>1. e2 = SearchBlock(2, "server_tool_use", none) /\ 2 = 1 + 1 /\ 1 \in Nat /\ 1 > 0
    BY <1>6
  <2> HIDE DEF e2
  <2>2. QED
    BY <1>2, <1>4, <1>7, <2>1, NextBlockLeads
<1> HIDE DEF e2
<1>9. PICK b3 : TextFirst(b3, 3) /\ Leads(Open(b2), e3, Open(b3))
  <2>1. e3 = SearchBlock(3, "web_search_tool_result", none) /\ 3 = 2 + 1 /\ 2 \in Nat /\ 2 > 0
    BY <1>6
  <2> HIDE DEF e3
  <2>2. QED
    BY <1>2, <1>7, <1>8, <2>1, NextBlockLeads
<1> HIDE DEF e3
<1>10. PICK b4 : TextFirst(b4, 4) /\ Leads(Open(b3), e4, Open(b4))
  <2>1. PICK deltas : deltas = Chunks(Drop(s, 1))
    OBVIOUS
  <2>2. DOMAIN deltas = 1 .. n
    BY <1>3, <2>1
  <2>3. e4 = SearchBlock(4, "text", deltas) /\ 4 = 3 + 1 /\ 3 \in Nat /\ 3 > 0
    BY <2>1
  <2> HIDE DEF e4
  <2>4. QED
    BY <1>2, <1>9, <2>2, <2>3, NextBlockLeads
<1> HIDE DEF e4
<1> DEFINE t == [phase |-> "done", blocks |-> b4]
<1>11. Leads(Open(b4), e5, t)
  <2>1. b4 \in Seq(Block) /\ \A i \in DOMAIN b4 : ~b4[i].open
    BY <1>10 DEF Shut, TextFirst
  <2>2. Leads(Open(b4), << >>, Open(b4))
    BY <2>1, OpenReader, LeadsNowhere
  <2>3. PICK o : o = << >>
    OBVIOUS
  <2>4. PICK f, g : f = Ev("message_delta", 0, "end_turn", << >>) /\ g = Ev("message_stop", 0, "none", << >>)
    OBVIOUS
  <2>5. Leads(Open(b4), Append(Append(o, f), g), t)
    BY <2>1, <2>2, <2>3, <2>4, MessageEnds
  <2>6. Append(Append(o, f), g) = << f, g >>
    <3>1. Append(o, f) = << f >>
      BY <2>3, AppendProperties, EmptySeq, SMTT(30)
    <3>2. Append(<< f >>, g) = << f, g >>
      <4>1. PICK q : q = << f >>
        OBVIOUS
      <4>2. q \in Seq({f, g}) /\ Len(q) = 1 /\ q[1] = f
        BY <4>1
      <4>3. /\ Append(q, g) \in Seq({f, g}) /\ Len(Append(q, g)) = 2
            /\ Append(q, g)[1] = f /\ Append(q, g)[2] = g
        <5>1. PICK S : S = {f, g}
          OBVIOUS
        <5>2. q \in Seq(S) /\ g \in S /\ Len(q) = 1
          BY <4>2, <5>1
        <5>3. Append(q, g) \in Seq(S)
          BY <5>2, AppendProperties
        <5>4. /\ Len(Append(q, g)) = Len(q) + 1
              /\ \A i \in 1 .. Len(q) : Append(q, g)[i] = q[i]
              /\ Append(q, g)[Len(q) + 1] = g
          <6>1. IsSeq(q)
            BY <5>2, SeqIsSeq
          <6>2. QED
            BY <6>1, IsSeqAppend
        <5>5. QED
          BY <4>2, <5>1, <5>2, <5>3, <5>4
      <4>4. PICK h : h = << f, g >>
        OBVIOUS
      <4>5. h \in Seq({f, g}) /\ Len(h) = 2 /\ h[1] = f /\ h[2] = g
        BY <4>4
      <4>6. \A i \in 1 .. 2 : Append(q, g)[i] = h[i]
        <5>1. \A i \in 1 .. 2 : i = 1 \/ i = 2
          OBVIOUS
        <5>2. QED
          BY <4>3, <4>5, <5>1
      <4>7. Append(q, g) = h
        BY <4>3, <4>5, <4>6, SeqEqual
      <4>8. QED
        BY <4>1, <4>4, <4>7
    <3>3. QED
      BY <3>1, <3>2
  <2>7. e5 = << f, g >>
    BY <2>4 DEF e5
  <2>8. QED
    BY <2>5, <2>6, <2>7
<1> HIDE DEF t
<1>12. Leads(k, << e0 >> \o e1 \o e2 \o e3 \o e4 \o e5, t)
  <2>1. Leads(k, << e0 >> \o e1, Open(b1))
    BY <1>1, <1>4, LeadsConcat
  <2>2. Leads(k, << e0 >> \o e1 \o e2, Open(b2))
    BY <1>8, <2>1, LeadsConcat
  <2>3. Leads(k, << e0 >> \o e1 \o e2 \o e3, Open(b3))
    BY <1>9, <2>2, LeadsConcat
  <2>4. Leads(k, << e0 >> \o e1 \o e2 \o e3 \o e4, Open(b4))
    BY <1>10, <2>3, LeadsConcat
  <2>5. QED
    BY <1>11, <2>4, LeadsConcat
<1>13. generate_websearch_events(s) = << e0 >> \o e1 \o e2 \o e3 \o e4 \o e5
  BY DEF generate_websearch_events, e0, e1, e2, e3, e4, e5
<1>14. Whole(t) /\ t \in Readers
  <2>1. b4 \in Seq(Block) /\ Len(b4) = 4 /\ b4[1].type = "text"
    BY <1>10 DEF TextFirst
  <2>2. 1 \in DOMAIN b4
    BY <2>1, BlocksHave
  <2>3. QED
    BY <2>1, <2>2 DEF Whole, Showing, Readers, t
<1>15. QED
  BY <1>12, <1>13, <1>14 DEF EndsWhole, k

-----------------------------------------------------------------------------
(* The inductive invariant: what has been sent and what has not lead the client *)
(* to the blocks of the context, or to the end of a whole message.              *)

Typed ==
    /\ thinking \in BOOLEAN /\ buffered \in BOOLEAN /\ searching \in BOOLEAN
    /\ text \in Texts \cup SearchTexts /\ pos \in 0 .. Len(text)
    /\ ended \in BOOLEAN /\ limited \in BOOLEAN /\ toolEvents \in 0 .. MaxToolEvents
    /\ searching => text \in SearchTexts

Underway == ~ended /\ ~searching => Fit(client, ctx) /\ Still(ctx)
Waiting  == ~ended /\ searching => ctx = NewContext /\ client = Client!NewClient
Ending   == ended => EndsWhole(client, ctx)

StreamInv ==
    /\ Typed
    /\ client \in Readers /\ DOMAIN ctx = Fields /\ Indexed(ctx)
    /\ Underway /\ Waiting /\ Ending

LEMMA TextLength ==
    ASSUME Typed
    PROVE  text \in Seq(STRING) /\ Len(text) \in Nat
<1>1. text \in Seq(STRING)
  BY BoundAssumption DEF Typed
<1>2. QED
  BY <1>1, LenProperties

LEMMA NewContextIs ==
    /\ DOMAIN NewContext = Fields /\ Indexed(NewContext) /\ Still(NewContext)
    /\ NewContext.out = << >> /\ NewContext.blocks = << >>
<1>1. /\ DOMAIN NewContext = Fields /\ NewContext.inThinking = FALSE /\ NewContext.extracted = FALSE
      /\ NewContext.thinkAt = 0 /\ NewContext.textAt = 0 /\ NewContext.blocks = << >>
      /\ NewContext.tool = [id \in Tools |-> 0] /\ NewContext.out = << >>
  BY DEF NewContext, Fields
<1>2. PICK c : c = NewContext
  OBVIOUS
<1>3. Len(c.blocks) = 0 /\ DOMAIN c.blocks = {} /\ 0 \in 0 .. 0
  BY <1>1, <1>2, EmptySeq
<1>4. c.tool \in [Tools -> 0 .. 0] /\ \A id \in Tools : c.tool[id] = 0
  BY <1>1, <1>2
<1>5. Indexed(c)
  BY <1>1, <1>2, <1>3, <1>4 DEF Indexed
<1>6. QED
  BY <1>1, <1>2, <1>5 DEF Still

LEMMA InitialFits ==
    ASSUME NEW t \in BOOLEAN
    PROVE  Fit(Client!NewClient, Initial(t)) /\ Still(Initial(t))
<1> DEFINE e == Ev("message_start", 0, "none", << >>)
           k == Client!NewClient
<1>1. PICK c : c = Emit(NewContext, e)
  OBVIOUS
<1>2. /\ DOMAIN c = Fields /\ c.blocks = << >> /\ c.out = << e >>
      /\ SameIndices(NewContext, c) /\ c.inThinking = FALSE
  <2>1. c = [NewContext EXCEPT !.out = Append(@, e)]
    BY <1>1 DEF Emit
  <2>2. Append(<< >>, e) = << e >>
    BY AppendProperties, EmptySeq, SMTT(30)
  <2>3. PICK n : n = NewContext
    OBVIOUS
  <2>4. DOMAIN n = Fields /\ n.out = << >> /\ n.blocks = << >> /\ n.inThinking = FALSE
    BY <2>3, NewContextIs DEF NewContext
  <2>5. c = [n EXCEPT !.out = Append(@, e)]
    BY <2>1, <2>3
  <2> HIDE DEF e
  <2>6. QED
    BY <2>2, <2>3, <2>4, <2>5 DEF Fields, SameIndices
<1>3. Fit(k, c) /\ Still(c)
  <2>1. c.blocks \in Seq(Block) /\ Leads(k, c.out, Open(c.blocks))
    BY <1>2, StartLeads
  <2>2. Indexed(c)
    BY <1>2, NewContextIs DEF Indexed, SameIndices
  <2> HIDE DEF k
  <2>3. QED
    BY <1>2, <2>1, <2>2 DEF Fit, Writes, Still
<1> HIDE DEF k, e
<1>4. CASE t
  BY <1>1, <1>3, <1>4 DEF Initial, e, k
<1>5. CASE ~t
  <2>1. PICK d : d = StartBlock(c, "text")
    OBVIOUS
  <2>2. Writes(k, d) /\ SameIndices(c, d) /\ SameBuffer(c, d) /\ Longer(c, d, "text")
    <3>1. "text" \in Client!Types /\ Writes(k, c)
      BY <1>3 DEF Client!Types, Fit
    <3>2. QED
      BY <2>1, <3>1, BlockStarted
  <2>3. PICK f : f = [d EXCEPT !.textAt = 1]
    OBVIOUS
  <2>4. DOMAIN d = Fields
    BY <2>2 DEF Writes
  <2>5. /\ DOMAIN f = Fields /\ f.textAt = 1 /\ f.inThinking = d.inThinking
        /\ f.extracted = d.extracted /\ f.thinkAt = d.thinkAt /\ f.tool = d.tool
        /\ f.blocks = d.blocks /\ f.out = d.out
    BY <2>3, <2>4 DEF Fields
  <2>6. Writes(k, f)
    BY <2>2, <2>5 DEF Writes
  <2>7. Len(f.blocks) = 1 /\ DOMAIN f.blocks = 1 .. 1 /\ f.blocks[1].type = "text"
    <3>1. Len(c.blocks) = 0
      BY <1>2
    <3>2. f.blocks \in Seq(Block)
      BY <2>6 DEF Writes
    <3>3. Len(f.blocks) = 1 /\ f.blocks[1].type = "text"
      BY <2>2, <2>5, <3>1 DEF Longer
    <3>4. QED
      BY <3>2, <3>3, BlocksHave
  <2>8. /\ f.inThinking = FALSE /\ f.extracted = FALSE /\ f.thinkAt = 0
        /\ f.tool = [id \in Tools |-> 0]
    BY <1>2, <2>2, <2>5 DEF SameIndices, NewContext
  <2>9. f.tool \in [Tools -> 0 .. 1] /\ \A id \in Tools : f.tool[id] = 0
    BY <2>8
  <2>10. \A i \in 1 .. 1 : i = 1
    OBVIOUS
  <2>11. Indexed(f)
    <3>1. 0 \in 0 .. 1 /\ 1 \in 0 .. 1 /\ f.textAt = 1
      BY <2>5
    <3>2. \A i \in DOMAIN f.blocks : i = 1 /\ f.blocks[i].type = "text"
      BY <2>7, <2>10
    <3>3. \A i \in DOMAIN f.blocks : f.blocks[i].type # "thinking"
      BY <3>2
    <3>4. QED
      BY <2>7, <2>8, <2>9, <3>1, <3>2, <3>3 DEF Indexed
  <2>12. Initial(t) = f
    BY <1>1, <1>5, <2>1, <2>3 DEF Initial, e
  <2>13. QED
    BY <2>6, <2>8, <2>11, <2>12 DEF Fit, Still, k
<1>6. QED
  BY <1>4, <1>5

LEMMA InitInv ==
    ASSUME Init
    PROVE  StreamInv
<1>1. /\ pos = 0 /\ ended = FALSE /\ limited = FALSE /\ toolEvents = 0
      /\ client = Client!NewClient
  BY DEF Init
<1>2. /\ thinking \in BOOLEAN /\ buffered \in BOOLEAN /\ searching \in BOOLEAN
      /\ text \in Texts \cup SearchTexts
      /\ searching => text \in SearchTexts
  BY BoundAssumption DEF Init
<1>3. Typed
  <2>1. \A s \in Texts \cup SearchTexts : s \in Seq(STRING)
    BY BoundAssumption
  <2>2. Len(text) \in Nat
    BY <1>2, <2>1, LenProperties
  <2>3. MaxToolEvents \in Nat
    BY BoundAssumption
  <2>4. pos \in 0 .. Len(text) /\ toolEvents \in 0 .. MaxToolEvents
    BY <1>1, <2>2, <2>3
  <2>5. ended \in BOOLEAN /\ limited \in BOOLEAN
    BY <1>1
  <2>6. QED
    BY <1>2, <2>4, <2>5 DEF Typed
<1>4. client \in Readers
  BY <1>1, StartLeads
<1>5. CASE ~searching
  <2>1. ctx = Initial(thinking)
    BY <1>5 DEF Init
  <2>2. Fit(client, ctx) /\ Still(ctx)
    BY <1>1, <1>2, <2>1, InitialFits
  <2>3. QED
    BY <1>1, <1>3, <1>4, <1>5, <2>2 DEF StreamInv, Underway, Waiting, Ending, Fit, Writes
<1>6. CASE searching
  <2>1. ctx = NewContext
    BY <1>6 DEF Init
  <2>2. QED
    BY <1>1, <1>3, <1>4, <1>6, <2>1, NewContextIs DEF StreamInv, Underway, Waiting, Ending
<1>7. QED
  BY <1>2, <1>5, <1>6

\* What a step that reads an event has to keep.
LEMMA ReadingKeeps ==
    ASSUME StreamInv, Reading, Typed', UNCHANGED <<searching, ended, client>>,
           NEW d, ctx' = d, Fit(client, d), Still(d)
    PROVE  StreamInv'
<1>1. ~ended /\ ~searching /\ client \in Readers
  BY DEF Reading, StreamInv
<1>2. ~ended' /\ ~searching' /\ client' = client /\ client' \in Readers
  BY <1>1
<1>3. Fit(client, ctx)' /\ Still(ctx)'
  BY <1>2
<1>4. DOMAIN ctx' = Fields /\ Indexed(ctx)'
  BY DEF Fit, Writes
<1>5. QED
  BY <1>2, <1>3, <1>4 DEF StreamInv, Underway, Waiting, Ending

LEMMA AssistantKeeps ==
    ASSUME StreamInv, Assistant
    PROVE  StreamInv'
<1>1. Typed /\ Fit(client, ctx) /\ Still(ctx) /\ Reading
  BY DEF StreamInv, Underway, Assistant, Reading
<1>2. Len(text) \in Nat /\ pos \in 0 .. Len(text)
  BY <1>1, TextLength DEF Typed
<1>3. PICK n \in 1 .. (Len(text) - pos) :
         ctx' = Content(ctx, SubSeq(text, pos + 1, pos + n)) /\ pos' = pos + n
  BY DEF Assistant
<1>4. PICK d : d = Content(ctx, SubSeq(text, pos + 1, pos + n))
  OBVIOUS
<1>5. Fit(client, d) /\ Still(d)
  BY <1>1, <1>4, ContentFits
<1>6. Typed'
  <2>1. pos' \in 0 .. Len(text)
    BY <1>2, <1>3
  <2>2. QED
    BY <1>1, <2>1 DEF Typed, Assistant, upstream
<1>7. UNCHANGED <<searching, ended, client>>
  BY DEF Assistant, upstream
<1>8. QED
  BY <1>1, <1>3, <1>4, <1>5, <1>6, <1>7, ReadingKeeps

LEMMA ToolKeeps ==
    ASSUME StreamInv, Tool
    PROVE  StreamInv'
<1>1. Typed /\ Fit(client, ctx) /\ Still(ctx) /\ Reading
  BY DEF StreamInv, Underway, Tool, Reading
<1>2. PICK id \in Tools, input \in BOOLEAN, stop \in BOOLEAN : ctx' = ToolUse(ctx, id, input, stop)
  BY DEF Tool
<1>3. PICK d : d = ToolUse(ctx, id, input, stop)
  OBVIOUS
<1>4. Fit(client, d) /\ Still(d)
  BY <1>1, <1>3, ToolUseFits
<1>5. Typed'
  <2>1. toolEvents' \in 0 .. MaxToolEvents
    BY <1>1, BoundAssumption DEF Typed, Tool
  <2>2. QED
    BY <1>1, <2>1 DEF Typed, Tool, upstream
<1>6. UNCHANGED <<searching, ended, client>>
  BY DEF Tool, upstream
<1>7. QED
  BY <1>1, <1>2, <1>3, <1>4, <1>5, <1>6, ReadingKeeps

LEMMA LimitKeeps ==
    ASSUME StreamInv, Limit
    PROVE  StreamInv'
<1>1. Typed /\ Fit(client, ctx) /\ Still(ctx) /\ Reading
  BY DEF StreamInv, Underway, Limit, Reading
<1>2. PICK r : ctx' = [ctx EXCEPT !.reason = r]
  BY DEF Limit
<1>3. PICK d : d = [ctx EXCEPT !.reason = r]
  OBVIOUS
<1>4. DOMAIN d = Fields /\ SameIndices(ctx, d) /\ d.blocks = ctx.blocks /\ d.out = ctx.out
  <2>1. DOMAIN ctx = Fields
    BY DEF StreamInv
  <2>2. QED
    BY <1>3, <2>1 DEF Fields, SameIndices
<1>5. Fit(client, d) /\ KeepsThinking(ctx, d)
  BY <1>1, <1>4, FitAlike
<1>6. Still(d)
  BY <1>1, <1>5, StillKept
<1>7. Typed'
  BY <1>1 DEF Typed, Limit, upstream
<1>8. UNCHANGED <<searching, ended, client>>
  BY DEF Limit, upstream
<1>9. QED
  BY <1>1, <1>2, <1>3, <1>5, <1>6, <1>7, <1>8, ReadingKeeps

LEMMA EndKeeps ==
    ASSUME StreamInv, End
    PROVE  StreamInv'
<1>1. Typed /\ Fit(client, ctx) /\ Still(ctx) /\ client \in Readers
  BY DEF StreamInv, Underway, End, Reading
<1>2. PICK d : d = Final(ctx)
  OBVIOUS
<1>3. DOMAIN d = Fields /\ Indexed(d) /\ EndsWhole(client, d)
  BY <1>1, <1>2, FinalEnds
<1>4. ctx' = d /\ client' = client /\ ended' = TRUE
  BY <1>2 DEF End
<1>5. DOMAIN ctx' = Fields /\ Indexed(ctx)' /\ EndsWhole(client, ctx)' /\ client' \in Readers
  BY <1>1, <1>3, <1>4
<1>6. Typed'
  BY <1>1 DEF Typed, End, upstream
<1>7. QED
  BY <1>4, <1>5, <1>6 DEF StreamInv, Underway, Waiting, Ending

LEMMA SearchKeeps ==
    ASSUME StreamInv, Search
    PROVE  StreamInv'
<1>1. Typed /\ ctx = NewContext /\ client = Client!NewClient /\ searching /\ text \in SearchTexts
  BY DEF StreamInv, Waiting, Search, Typed
<1>2. text \in Seq(STRING) /\ Len(text) \in Nat /\ text # << >>
  BY <1>1, TextLength, BoundAssumption
<1>3. PICK d : d = [ctx EXCEPT !.out = generate_websearch_events(text)]
  OBVIOUS
<1>4. /\ DOMAIN d = Fields /\ SameIndices(ctx, d) /\ d.blocks = ctx.blocks
      /\ d.out = generate_websearch_events(text)
  <2>1. DOMAIN ctx = Fields
    BY DEF StreamInv
  <2>2. QED
    BY <1>3, <2>1 DEF Fields, SameIndices
<1>5. Indexed(d)
  <2>1. Indexed(ctx)
    BY DEF StreamInv
  <2>2. QED
    BY <1>4, <2>1 DEF Indexed, SameIndices
<1>6. EndsWhole(client, d)
  BY <1>1, <1>2, <1>4, SearchLeads
<1>7. ctx' = d /\ client' = client /\ ended' = TRUE /\ client \in Readers
  BY <1>3 DEF Search, StreamInv
<1>8. DOMAIN ctx' = Fields /\ Indexed(ctx)' /\ EndsWhole(client, ctx)' /\ client' \in Readers
  BY <1>4, <1>5, <1>6, <1>7
<1>9. Typed'
  <2>1. pos' \in 0 .. Len(text)
    BY <1>2 DEF Search
  <2>2. QED
    BY <1>1, <1>7, <2>1 DEF Typed, Search, upstream
<1>10. QED
  BY <1>7, <1>8, <1>9 DEF StreamInv, Underway, Waiting, Ending

\* What the head of the unsent events does to the client.
Delivers(k, c, l, d) ==
    /\ Client!Accepts(k, Head(c.out)) /\ l = Client!Receive(k, Head(c.out)) /\ l \in Readers
    /\ DOMAIN d = Fields /\ SameIndices(c, d) /\ d.blocks = c.blocks /\ d.out = Tail(c.out)

LEMMA SendDelivers ==
    ASSUME StreamInv, Send
    PROVE  Delivers(client, ctx, client', ctx')
<1>1. ctx.out # << >> /\ DOMAIN ctx = Fields /\ ctx' = [ctx EXCEPT !.out = Tail(@)]
  BY DEF Send, StreamInv
<1>2. DOMAIN ctx' = Fields /\ SameIndices(ctx, ctx') /\ ctx'.blocks = ctx.blocks /\ ctx'.out = Tail(ctx.out)
  BY <1>1 DEF Fields, SameIndices
<1>3. \E t : Leads(client, ctx.out, t)
  <2>1. CASE ended
    BY <2>1 DEF StreamInv, Ending, EndsWhole
  <2>2. CASE ~ended /\ ~searching
    BY <2>2 DEF StreamInv, Underway, Fit, Writes
  <2>3. CASE ~ended /\ searching
    <3>1. ctx = NewContext
      BY <2>3 DEF StreamInv, Waiting
    <3>2. QED
      BY <1>1, <3>1, NewContextIs
  <2>4. QED
    BY <2>1, <2>2, <2>3
<1>4. /\ Client!Accepts(client, Head(ctx.out))
      /\ Client!Receive(client, Head(ctx.out)) \in Readers
  BY <1>1, <1>3, LeadsTail
<1>5. client' = Client!Receive(client, Head(ctx.out))
  BY <1>4 DEF Send
<1>6. QED
  BY <1>2, <1>4, <1>5 DEF Delivers

LEMMA SendKeeps ==
    ASSUME StreamInv, Send
    PROVE  StreamInv'
<1>1. PICK l, d : l = client' /\ d = ctx'
  OBVIOUS
<1>2. Delivers(client, ctx, l, d)
  BY <1>1, SendDelivers
<1>3. /\ Typed /\ DOMAIN ctx = Fields /\ Indexed(ctx) /\ ctx.out # << >>
      /\ UNCHANGED <<searching, ended>>
  BY DEF StreamInv, Send, upstream
<1>4. Indexed(d)
  BY <1>2, <1>3 DEF Delivers, Indexed, SameIndices
<1>5. l \in Readers /\ DOMAIN d = Fields
  BY <1>2 DEF Delivers
<1>6. ASSUME NEW t, Leads(client, ctx.out, t)
      PROVE  Leads(l, d.out, t)
  BY <1>2, <1>3, <1>6, LeadsTail DEF Delivers
<1>7. CASE ended
  <2>1. EndsWhole(l, d)
    BY <1>6, <1>7 DEF StreamInv, Ending, EndsWhole
  <2>2. QED
    BY <1>1, <1>3, <1>4, <1>5, <1>7, <2>1 DEF StreamInv, Underway, Waiting, Ending, Typed, Send, upstream
<1>8. CASE ~ended /\ ~searching
  <2>1. Fit(client, ctx) /\ Still(ctx)
    BY <1>8 DEF StreamInv, Underway
  <2>2. Leads(l, d.out, Open(d.blocks)) /\ d.blocks \in Seq(Block)
    BY <1>2, <1>6, <2>1 DEF Fit, Writes, Delivers
  <2>3. Fit(l, d)
    BY <1>4, <1>5, <2>2 DEF Fit, Writes
  <2>4. Still(d)
    BY <1>2, <2>1 DEF Still, Delivers, SameIndices
  <2>5. QED
    BY <1>1, <1>3, <1>4, <1>5, <1>8, <2>3, <2>4
       DEF StreamInv, Underway, Waiting, Ending, Typed, Send, upstream
<1>9. CASE ~ended /\ searching
  <2>1. ctx = NewContext
    BY <1>9 DEF StreamInv, Waiting
  <2>2. QED
    BY <1>3, <2>1, NewContextIs
<1>10. QED
  BY <1>3, <1>7, <1>8, <1>9 DEF Typed

LEMMA StutterKeeps ==
    ASSUME StreamInv, UNCHANGED vars
    PROVE  StreamInv'
<1>1. /\ client' = client /\ ctx' = ctx
      /\ UNCHANGED <<thinking, buffered, searching, text, pos, ended, limited, toolEvents>>
  BY DEF vars, upstream
<1>2. Typed'
  BY <1>1 DEF StreamInv, Typed
<1>3. DOMAIN ctx' = Fields /\ Indexed(ctx)' /\ client' \in Readers
  BY <1>1 DEF StreamInv
<1>4. Underway' /\ Waiting' /\ Ending'
  BY <1>1 DEF StreamInv, Underway, Waiting, Ending
<1>5. QED
  BY <1>2, <1>3, <1>4 DEF StreamInv

LEMMA NextKeeps ==
    ASSUME StreamInv, [Next]_vars
    PROVE  StreamInv'
<1>1. CASE Assistant
  BY <1>1, AssistantKeeps
<1>2. CASE Tool
  BY <1>2, ToolKeeps
<1>3. CASE Limit
  BY <1>3, LimitKeeps
<1>4. CASE End
  BY <1>4, EndKeeps
<1>5. CASE Search
  BY <1>5, SearchKeeps
<1>6. CASE Send
  BY <1>6, SendKeeps
<1>7. CASE Stay \/ UNCHANGED vars
  BY <1>7, StutterKeeps DEF Stay
<1>8. QED
  BY <1>1, <1>2, <1>3, <1>4, <1>5, <1>6, <1>7 DEF Next

LEMMA Inductive == Spec => []StreamInv
<1>1. Init => StreamInv
  BY InitInv
<1>2. StreamInv /\ [Next]_vars => StreamInv'
  BY NextKeeps
<1>3. QED
  BY <1>1, <1>2, PTL DEF Spec

-----------------------------------------------------------------------------
(* The results.                                                              *)

LEMMA InvTypes ==
    ASSUME StreamInv
    PROVE  TypeOK
<1>1. Typed /\ Indexed(ctx) /\ client \in Readers
  BY DEF StreamInv
<1>2. Cardinality(OpenBlocks(ctx, {"text"})) <= 1
  <2>1. \A i \in OpenBlocks(ctx, {"text"}) : i = ctx.textAt
    BY <1>1 DEF OpenBlocks, Indexed
  <2>2. OpenBlocks(ctx, {"text"}) = {} \/ OpenBlocks(ctx, {"text"}) = {ctx.textAt}
    BY <2>1
  <2>3. CASE OpenBlocks(ctx, {"text"}) = {}
    <3>1. Cardinality(OpenBlocks(ctx, {"text"})) = 0
      BY <2>3, FS_EmptySet
    <3>2. QED
      BY <3>1
  <2>4. CASE OpenBlocks(ctx, {"text"}) = {ctx.textAt}
    <3>1. Cardinality(OpenBlocks(ctx, {"text"})) = 1
      BY <2>4, FS_Singleton
    <3>2. QED
      BY <3>1
  <2>5. QED
    BY <2>2, <2>3, <2>4
<1>3. ctx.inThinking => ended \/ ctx.blocks[ctx.thinkAt].open
  <2>1. CASE searching /\ ~ended
    BY <2>1, NewContextIs DEF StreamInv, Waiting, Still
  <2>2. CASE ~searching /\ ~ended
    BY <2>2 DEF StreamInv, Underway, Still
  <2>3. QED
    BY <1>1, <2>1, <2>2 DEF Typed
<1>4. /\ ctx.inThinking => ~ctx.extracted /\ ctx.thinkAt # 0
      /\ ctx.thinkAt # 0 => ctx.blocks[ctx.thinkAt].type = "thinking"
      /\ ctx.textAt # 0 => ctx.blocks[ctx.textAt].type = "text"
      /\ \A id \in Tools : ctx.tool[id] # 0 => ctx.blocks[ctx.tool[id]].type = "tool_use"
  BY <1>1 DEF Indexed
<1>5. client.phase \in {"new", "open", "closing", "done", "broken"}
  BY <1>1 DEF Readers
<1>6. QED
  BY <1>1, <1>2, <1>3, <1>4, <1>5 DEF TypeOK, Typed

\* StreamContext, for any texts, chunks, tools and order of its handlers: at most one
\* text block is open, the thinking block is open as long as the context is inside
\* it, and the block indices it keeps (SseStateManager's active_blocks, tool_block_indices)
\* are those of blocks of the right type.
THEOREM StreamTypes == Spec => []TypeOK
<1>1. StreamInv => TypeOK
  BY InvTypes
<1>2. QED
  BY <1>1, Inductive, PTL

LEMMA NewBlockTyped ==
    ASSUME NEW k \in Readers, NEW e, Client!Accepts(k, e), Client!Receive(k, e) \in Readers,
           e.ev = "block_start"
    PROVE  e.type \in Client!Types
<1>1. k.blocks \in Seq(Block) /\ DOMAIN k = {"phase", "blocks"}
  BY DEF Readers
<1>2. PICK n : n = [type |-> e.type, open |-> TRUE]
  OBVIOUS
<1>3. Client!Receive(k, e) = [k EXCEPT !.blocks = Append(@, n)]
  BY <1>2 DEF Client!Receive
<1>4. Append(k.blocks, n) \in Seq(Block)
  BY <1>1, <1>3 DEF Readers
<1>5. IsSeq(k.blocks)
  BY <1>1, SeqIsSeq
<1>6. Append(k.blocks, n)[Len(k.blocks) + 1] = n /\ Len(Append(k.blocks, n)) = Len(k.blocks) + 1
  BY <1>5, IsSeqAppend
<1>7. Len(k.blocks) \in Nat
  BY <1>1, BlocksHave
<1>8. Len(k.blocks) + 1 \in DOMAIN Append(k.blocks, n)
  <2>1. DOMAIN Append(k.blocks, n) = 1 .. Len(k.blocks) + 1
    BY <1>4, <1>6, BlocksHave
  <2>2. QED
    BY <1>7, <2>1
<1>9. n.type \in Client!Types
  BY <1>4, <1>6, <1>8, BlocksHave
<1>10. QED
  BY <1>2, <1>9

\* SseProtocol names only what an event must tell the client: what else is in it
\* makes no difference.
LEMMA EventRead ==
    ASSUME NEW e, Client!Accepts(client, e), client' = Client!Receive(client, e),
           client \in Readers, Len(client.blocks) \in Nat,
           DOMAIN client.blocks = 1 .. Len(client.blocks),
           e.ev = "block_start" => e.type \in Client!Types
    PROVE  [Client!Next]_client
<1> DEFINE n == Len(client.blocks)
<1>1. e.ev \in {"message_start", "block_start", "delta", "block_stop", "message_delta", "message_stop"}
  BY DEF Client!Accepts
<1>2. CASE e.ev = "delta"
  BY <1>2 DEF Client!Receive
<1>3. CASE e.ev \in {"message_start", "message_delta", "message_stop"}
  <2>1. PICK f : f = [ev |-> e.ev, at |-> 1, type |-> "text"]
    OBVIOUS
  <2>2. f \in Client!Event(client)
    BY <1>3, <2>1 DEF Client!Event, Client!Types
  <2>3. Client!Accepts(client, f) /\ Client!Receive(client, f) = Client!Receive(client, e)
    BY <1>3, <2>1 DEF Client!Accepts, Client!Receive
  <2>4. QED
    BY <2>2, <2>3 DEF Client!Next
<1>4. CASE e.ev = "block_start"
  <2>1. PICK f : f = [ev |-> e.ev, at |-> e.at, type |-> e.type]
    OBVIOUS
  <2>2. e.at = n + 1 /\ client.phase = "open"
    BY <1>4 DEF Client!Accepts
  <2>3. f \in Client!Event(client)
    BY <1>4, <2>1, <2>2 DEF Client!Event
  <2>4. Client!Accepts(client, f) /\ Client!Receive(client, f) = Client!Receive(client, e)
    BY <1>4, <2>1, <2>2 DEF Client!Accepts, Client!Receive
  <2>5. QED
    BY <2>3, <2>4 DEF Client!Next
<1>5. CASE e.ev = "block_stop"
  <2>1. PICK f : f = [ev |-> e.ev, at |-> e.at, type |-> "text"]
    OBVIOUS
  <2>2. e.at \in 1 .. n + 1
    BY <1>5 DEF Client!Accepts, Client!Started
  <2>3. f \in Client!Event(client)
    BY <1>5, <2>1, <2>2 DEF Client!Event, Client!Types
  <2>4. Client!Accepts(client, f) /\ Client!Receive(client, f) = Client!Receive(client, e)
    BY <1>5, <2>1 DEF Client!Accepts, Client!Receive, Client!Started
  <2>5. QED
    BY <2>3, <2>4 DEF Client!Next
<1>6. QED
  BY <1>1, <1>2, <1>3, <1>4, <1>5

\* The events that a client gets: whatever is sent, it accepts.
LEMMA StepKeepsProtocol ==
    ASSUME StreamInv, [Next]_vars
    PROVE  [Client!Next]_client
<1>1. CASE Send
  <2>1. PICK e : e = Head(ctx.out)
    OBVIOUS
  <2>2. /\ Client!Accepts(client, e) /\ client' = Client!Receive(client, e)
        /\ client \in Readers /\ Client!Receive(client, e) \in Readers
    BY <1>1, <2>1, SendDelivers DEF Delivers, StreamInv
  <2>3. Len(client.blocks) \in Nat /\ DOMAIN client.blocks = 1 .. Len(client.blocks)
    <3>1. client.blocks \in Seq(Block)
      BY <2>2 DEF Readers
    <3>2. QED
      BY <3>1, BlocksHave
  <2>4. e.ev = "block_start" => e.type \in Client!Types
    BY <2>2, NewBlockTyped
  <2>5. QED
    BY <2>2, <2>3, <2>4, EventRead
<1>2. CASE ~Send
  BY <1>2 DEF Next, Assistant, Tool, Limit, End, Search, Stay, vars
<1>3. QED
  BY <1>1, <1>2

\* The stream implements SseProtocol (the rules that SseStateManager states: one
\* message_start, deltas and stops only for started blocks, message_delta once, when
\* every block has stopped), however handler calls and sending interleave.
THEOREM ProtocolKept == Spec => KeepsProtocol
<1>1. Init => Client!Init
  BY DEF Init, Client!Init
<1>2. StreamInv /\ [Next]_vars => [Client!Next]_client
  BY StepKeepsProtocol
<1>3. QED
  BY <1>1, <1>2, Inductive, PTL DEF Spec, KeepsProtocol, Client!Spec

LEMMA InvWhole ==
    ASSUME StreamInv
    PROVE  WholeMessage
<1>1. SUFFICES ASSUME Over
               PROVE  Whole(client)
  BY DEF WholeMessage, Whole, Showing
<1>2. PICK t \in Readers : Whole(t) /\ Leads(client, ctx.out, t)
  BY <1>1 DEF Over, StreamInv, Ending, EndsWhole
<1>3. PICK k, o : k = client /\ o = ctx.out
  OBVIOUS
<1>4. PICK r : r[0] = k /\ r[Len(o)] = t
  BY <1>2, <1>3 DEF Leads
<1>5. Len(o) = 0
  BY <1>1, <1>3 DEF Over
<1>6. QED
  BY <1>2, <1>3, <1>4, <1>5

\* generate_final_events and generate_websearch_events: a stream that has been sent
\* whole has brought the client to the end of the message, with something to show
\* beside its thinking, wherever the upstream body broke off.
THEOREM MessagesWhole == Spec => []WholeMessage
<1>1. StreamInv => WholeMessage
  BY InvWhole
<1>2. QED
  BY <1>1, Inductive, PTL

-----------------------------------------------------------------------------
(* Text without its markup.                                                  *)

Letters == STRING \cup Markup

LEMMA PlainTypes ==
    ASSUME NEW s \in Seq(Letters)
    PROVE  Plain(s) \in Seq(Letters)
<1> DEFINE S == STRING \ Markup
<1>1. Only(s, S) \in Seq(Letters \cap S)
  BY OnlyTypes
<1>2. PICK r : r = Only(s, S)
  OBVIOUS
<1>3. r \in Seq(Letters)
  <2>1. Letters \cap S \subseteq Letters
    OBVIOUS
  <2> HIDE DEF S
  <2>2. QED
    BY <1>1, <1>2, <2>1, SeqMonotonic
<1>4. QED
  BY <1>2, <1>3 DEF Plain

LEMMA PlainConcat ==
    ASSUME NEW s \in Seq(Letters), NEW t \in Seq(Letters)
    PROVE  s \o t \in Seq(Letters) /\ Plain(s \o t) = Plain(s) \o Plain(t)
BY OnlyConcat, ConcatProperties DEF Plain

LEMMA PlainMarkup ==
    ASSUME NEW s \in Seq(Letters), \A i \in 1 .. Len(s) : s[i] \in Markup
    PROVE  Plain(s) = << >>
<1>1. \A i \in 1 .. Len(s) : s[i] \notin STRING \ Markup
  OBVIOUS
<1>2. QED
  BY <1>1, OnlyNone DEF Plain

Regrouped(s, t, u) == (s \o t) \o u = s \o (t \o u)

LEMMA Regroup ==
    ASSUME NEW s \in Seq(Letters), NEW t \in Seq(Letters), NEW u \in Seq(Letters)
    PROVE  Regrouped(s, t, u) /\ s \o t \in Seq(Letters)
BY ConcatAssociative, ConcatProperties DEF Regrouped

LEMMA PlainEmpty == << >> \in Seq(Letters) /\ Plain(<< >>) = << >>
BY OnlyEmpty, EmptySeq DEF Plain

-----------------------------------------------------------------------------
(* What a sequence of events tells: the text of its deltas.                   *)

Words(e) == IF e.ev = "delta" THEN e.text ELSE << >>

Texted(o) == IsSeq(o) /\ \A i \in 1 .. Len(o) : Words(o[i]) \in Seq(Letters)

Told(o) ==
    LET told[i \in 0 .. Len(o)] == IF i = 0 THEN << >> ELSE told[i - 1] \o Words(o[i])
    IN  told[Len(o)]

\* g[n] is what the first n events of o tell
Adds(p, e) == p \o Words(e)
Tells(g, o) == g[0] = << >> /\ \A n \in 1 .. Len(o) : g[n] = Adds(g[n - 1], o[n])

ToldBy(o) == \E g \in [0 .. Len(o) -> Seq(Letters)] : Tells(g, o) /\ Told(o) = g[Len(o)]

LEMMA ToldIs ==
    ASSUME NEW o, Texted(o)
    PROVE  ToldBy(o)
<1> DEFINE N == Len(o)
           Q == Seq(Letters)
           step == [q \in Nat \X Q |-> IF q[1] + 1 \in 1 .. N THEN Adds(q[2], o[q[1] + 1]) ELSE q[2]]
           Turns(g) == g = [n \in 0 .. N |-> IF n = 0 THEN << >> ELSE Adds(g[n - 1], o[n])]
           told == CHOOSE g : Turns(g)
<1>0. N \in Nat /\ << >> \in Q
  BY IsSeqLen, EmptySeq DEF Texted
<1>1. \A n \in 1 .. N, p \in Q : Adds(p, o[n]) \in Q
  <2> TAKE n \in 1 .. N, p \in Q
  <2>1. Words(o[n]) \in Q
    BY DEF Texted
  <2>2. QED
    BY <2>1, ConcatProperties DEF Adds
<1>2. step \in [Nat \X Q -> Q]
  <2> HIDE DEF N, Q
  <2>1. QED
    BY <1>1
<1>3. Solvable(N, Q, << >>, step)
  <2> HIDE DEF N, step, Q
  <2>1. QED
    BY <1>0, <1>2, RecursionUpTo
<1>4. PICK g \in [0 .. N -> Q] : g[0] = << >> /\ \A k \in 0 .. N - 1 : g[k + 1] = step[<<k, g[k]>>]
  <2> HIDE DEF N, step, Q
  <2>1. QED
    BY <1>3 DEF Solvable
<1>5. ASSUME NEW n \in 0 .. N, n # 0
      PROVE  g[n] = Adds(g[n - 1], o[n])
  <2> HIDE DEF N, Q
  <2>1. n - 1 \in 0 .. N - 1 /\ n - 1 \in 0 .. N /\ (n - 1) + 1 = n /\ n - 1 \in Nat /\ n \in 1 .. N
    BY <1>0, <1>5
  <2>2. g[n] = step[<<n - 1, g[n - 1]>>] /\ g[n - 1] \in Q
    BY <1>4, <2>1, ZenonT(30)
  <2>3. QED
    BY <2>1, <2>2
<1>6. Turns(g)
  <2> HIDE DEF N, Q
  <2>1. QED
    BY <1>0, <1>4, <1>5
<1>7. Turns(told)
  <2> HIDE DEF Turns
  <2>1. QED
    BY <1>6
<1>8. Told(o) = told[N]
  BY DEF Told, Adds
<1> HIDE DEF told
<1>9. told[0] = << >> /\ \A n \in 1 .. N : told[n] = Adds(told[n - 1], o[n])
  <2>1. 0 \in 0 .. N /\ \A n \in 1 .. N : n \in 0 .. N /\ n # 0
    BY <1>0
  <2> HIDE DEF N
  <2>2. QED
    BY <1>7, <2>1
<1>10. told \in [0 .. N -> Q]
  <2> DEFINE U == {n \in 0 .. N : told[n] \in Q}
  <2>1. 0 \in U
    <3>1. told[0] = << >> /\ 0 \in 0 .. N
      BY <1>0, <1>9
    <3> HIDE DEF N, Q
    <3>2. QED
      BY <1>0, <3>1
  <2>2. ASSUME NEW n \in 0 .. N - 1, n \in U
        PROVE  n + 1 \in U
    <3>1. n + 1 \in 1 .. N /\ n + 1 \in 0 .. N /\ n + 1 - 1 = n
      BY <1>0
    <3>2. told[n] \in Q /\ told[n + 1] = Adds(told[n], o[n + 1])
      BY <1>9, <2>2, <3>1
    <3> HIDE DEF N, Q
    <3>3. QED
      BY <1>1, <3>1, <3>2
  <2>3. \A n \in 0 .. N : n \in U
    <3> HIDE DEF U, N
    <3>1. QED
      BY <1>0, <2>1, <2>2, InductionUpTo
  <2>4. told = [n \in 0 .. N |-> told[n]]
    <3> HIDE DEF N
    <3>1. QED
      BY <1>7
  <2> HIDE DEF N, Q
  <2>5. QED
    BY <2>3, <2>4
<1>11. Tells(told, o)
  BY <1>9 DEF Tells
<1>12. QED
  BY <1>8, <1>10, <1>11 DEF ToldBy

LEMMA ToldTypes ==
    ASSUME NEW o, Texted(o)
    PROVE  Told(o) \in Seq(Letters) /\ IsSeq(o) /\ Len(o) \in Nat
<1>1. IsSeq(o) /\ Len(o) \in Nat
  BY IsSeqLen DEF Texted
<1>2. PICK g \in [0 .. Len(o) -> Seq(Letters)] : Told(o) = g[Len(o)]
  BY ToldIs DEF ToldBy
<1>3. Len(o) \in 0 .. Len(o)
  BY <1>1
<1>4. QED
  BY <1>1, <1>2, <1>3

LEMMA ToldConcat ==
    ASSUME NEW a, NEW b, Texted(a), Texted(b)
    PROVE  Texted(a \o b) /\ Told(a \o b) = Told(a) \o Told(b)
<1>0. PICK o : o = a \o b
  OBVIOUS
<1>1. PICK m \in Nat, n \in Nat : m = Len(a) /\ n = Len(b)
  BY ToldTypes
<1>2. /\ IsSeq(o) /\ Len(o) = m + n
      /\ \A i \in 1 .. m : o[i] = a[i]
      /\ \A i \in 1 .. n : o[m + i] = b[i]
  BY <1>0, <1>1, IsSeqConcat DEF Texted
<1>3. Texted(o)
  <2>1. ASSUME NEW i \in 1 .. m + n
        PROVE  Words(o[i]) \in Seq(Letters)
    <3>1. CASE i <= m
      <4>1. i \in 1 .. m
        BY <3>1
      <4>2. QED
        BY <1>1, <1>2, <4>1 DEF Texted
    <3>2. CASE ~(i <= m)
      <4>1. PICK j \in 1 .. n : i = m + j
        <5>1. i - m \in 1 .. n /\ i = m + (i - m)
          BY <3>2
        <5>2. QED
          BY <5>1
      <4>2. QED
        BY <1>1, <1>2, <4>1 DEF Texted
    <3>3. QED
      BY <3>1, <3>2
  <2>2. QED
    BY <1>2, <2>1 DEF Texted
<1>4. PICK f \in [0 .. m -> Seq(Letters)] : Tells(f, a) /\ Told(a) = f[m]
  BY <1>1, ToldIs DEF ToldBy
<1>5. PICK g \in [0 .. n -> Seq(Letters)] : Tells(g, b) /\ Told(b) = g[n]
  BY <1>1, ToldIs DEF ToldBy
<1>6. PICK h \in [0 .. m + n -> Seq(Letters)] : Tells(h, o) /\ Told(o) = h[m + n]
  BY <1>2, <1>3, ToldIs DEF ToldBy
<1>7. \A i \in 1 .. m : f[i] = Adds(f[i - 1], a[i])
  BY <1>1, <1>4 DEF Tells
<1>8. \A i \in 1 .. n : g[i] = Adds(g[i - 1], b[i])
  BY <1>1, <1>5 DEF Tells
<1>9. \A i \in 1 .. m + n : h[i] = Adds(h[i - 1], o[i])
  BY <1>2, <1>6 DEF Tells
<1>10. f[0] = << >> /\ g[0] = << >> /\ h[0] = << >>
  BY <1>4, <1>5, <1>6 DEF Tells
<1>11. \A i \in 0 .. m : h[i] = f[i]
  <2> DEFINE U == {i \in 0 .. m : h[i] = f[i]}
  <2>1. 0 \in U
    BY <1>10
  <2>2. ASSUME NEW i \in 0 .. m - 1, i \in U
        PROVE  i + 1 \in U
    <3>1. i + 1 \in 1 .. m /\ i + 1 \in 1 .. m + n /\ i + 1 \in 0 .. m /\ i + 1 - 1 = i
      OBVIOUS
    <3>2. h[i + 1] = Adds(h[i], o[i + 1]) /\ f[i + 1] = Adds(f[i], a[i + 1])
      BY <1>7, <1>9, <3>1
    <3>3. o[i + 1] = a[i + 1] /\ h[i] = f[i]
      BY <1>2, <2>2, <3>1
    <3>4. QED
      BY <3>1, <3>2, <3>3
  <2> HIDE DEF U
  <2>3. \A i \in 0 .. m : i \in U
    BY <2>1, <2>2, InductionUpTo
  <2>4. QED
    BY <2>3 DEF U
<1>12. \A i \in 0 .. n : h[m + i] = f[m] \o g[i]
  <2> DEFINE U == {i \in 0 .. n : h[m + i] = f[m] \o g[i]}
  <2>1. 0 \in U
    <3>1. m + 0 = m /\ m \in 0 .. m
      OBVIOUS
    <3>2. h[m] = f[m] /\ f[m] \in Seq(Letters)
      BY <1>11, <3>1
    <3>3. PICK x : x = f[m]
      OBVIOUS
    <3>4. x \o << >> = x
      BY <3>2, <3>3, ConcatEmptySeq
    <3>5. h[m + 0] = f[m] \o g[0]
      BY <1>10, <3>1, <3>2, <3>3, <3>4
    <3>6. 0 \in 0 .. n
      OBVIOUS
    <3>7. QED
      BY <3>5, <3>6
  <2>2. ASSUME NEW i \in 0 .. n - 1, i \in U
        PROVE  i + 1 \in U
    <3>1. /\ i + 1 \in 1 .. n /\ i + 1 \in 0 .. n /\ i + 1 - 1 = i /\ i \in 0 .. n
          /\ m + (i + 1) \in 1 .. m + n /\ m + (i + 1) - 1 = m + i /\ m \in 0 .. m
      OBVIOUS
    <3>2. PICK w : w = Words(b[i + 1])
      OBVIOUS
    <3>3. h[m + (i + 1)] = h[m + i] \o w
      <4>1. h[m + (i + 1)] = Adds(h[m + i], o[m + (i + 1)])
        BY <1>9, <3>1
      <4>2. QED
        BY <1>2, <3>1, <3>2, <4>1 DEF Adds
    <3>4. g[i + 1] = g[i] \o w /\ w \in Seq(Letters)
      <4>1. g[i + 1] = Adds(g[i], b[i + 1])
        BY <1>8, <3>1
      <4>2. QED
        BY <1>1, <3>1, <3>2, <4>1 DEF Adds, Texted
    <3>5. f[m] \in Seq(Letters) /\ g[i] \in Seq(Letters)
      BY <3>1
    <3>6. (f[m] \o g[i]) \o w = f[m] \o (g[i] \o w)
      <4>1. PICK x \in Seq(Letters), y \in Seq(Letters) : x = f[m] /\ y = g[i]
        BY <3>5
      <4>2. Regrouped(x, y, w)
        BY <3>4, Regroup
      <4>3. QED
        BY <4>1, <4>2 DEF Regrouped
    <3>7. h[m + i] = f[m] \o g[i]
      BY <2>2
    <3>8. QED
      BY <3>1, <3>3, <3>4, <3>6, <3>7
  <2> HIDE DEF U
  <2>3. \A i \in 0 .. n : i \in U
    BY <2>1, <2>2, InductionUpTo
  <2>4. QED
    BY <2>3 DEF U
<1>13. n \in 0 .. n
  OBVIOUS
<1>14. QED
  BY <1>0, <1>1, <1>3, <1>4, <1>5, <1>6, <1>12, <1>13

LEMMA ToldOnce ==
    ASSUME NEW e, Words(e) \in Seq(Letters)
    PROVE  Texted(<< e >>) /\ Told(<< e >>) = Words(e)
<1>1. PICK o : o = << e >>
  OBVIOUS
<1>2. IsSeq(o) /\ Len(o) = 1 /\ o[1] = e
  BY <1>1, IsSeqSmall
<1>3. Texted(o)
  <2>1. \A i \in 1 .. 1 : i = 1
    OBVIOUS
  <2>2. QED
    BY <1>2, <2>1 DEF Texted
<1>4. PICK g \in [0 .. 1 -> Seq(Letters)] : Tells(g, o) /\ Told(o) = g[1]
  BY <1>2, <1>3, ToldIs DEF ToldBy
<1>5. g[1] = Adds(g[1 - 1], o[1]) /\ g[0] = << >>
  <2>1. 1 \in 1 .. Len(o)
    BY <1>2
  <2>2. QED
    BY <1>4, <2>1 DEF Tells
<1>6. g[1] = << >> \o Words(e)
  <2>1. 1 - 1 = 0
    OBVIOUS
  <2>2. QED
    BY <1>2, <1>5, <2>1 DEF Adds
<1>7. << >> \o Words(e) = Words(e)
  BY ConcatEmptySeq
<1>8. QED
  BY <1>1, <1>3, <1>4, <1>6, <1>7

LEMMA ToldNothing == Texted(<< >>) /\ Told(<< >>) = << >>
<1>1. PICK o : o = << >>
  OBVIOUS
<1>2. IsSeq(o) /\ Len(o) = 0
  BY <1>1, IsSeqSmall
<1>3. Texted(o)
  BY <1>2 DEF Texted
<1>4. PICK g : Tells(g, o) /\ Told(o) = g[0]
  BY <1>2, <1>3, ToldIs DEF ToldBy
<1>5. QED
  BY <1>1, <1>3, <1>4 DEF Tells

LEMMA AppendsOne ==
    ASSUME NEW o, NEW e, IsSeq(o)
    PROVE  Append(o, e) = o \o << e >>
<1> DEFINE S == {o[i] : i \in DOMAIN o} \cup {e}
<1>1. o \in Seq(S) /\ e \in S
  BY SeqMonotonic DEF IsSeq
<1> HIDE DEF S
<1>2. QED
  BY <1>1, AppendIsConcat

LEMMA ToldAppend ==
    ASSUME NEW o, NEW e, Texted(o), Words(e) \in Seq(Letters)
    PROVE  Texted(Append(o, e)) /\ Told(Append(o, e)) = Told(o) \o Words(e)
<1>1. Texted(<< e >>) /\ Told(<< e >>) = Words(e)
  BY ToldOnce
<1>2. PICK q : q = << e >>
  OBVIOUS
<1>3. Texted(o \o q) /\ Told(o \o q) = Told(o) \o Told(q)
  BY <1>1, <1>2, ToldConcat
<1>4. Append(o, e) = o \o q
  BY <1>2, AppendsOne DEF Texted
<1>5. QED
  BY <1>1, <1>2, <1>3, <1>4

LEMMA ToldTail ==
    ASSUME NEW o, Texted(o), o # << >>
    PROVE  /\ Words(Head(o)) \in Seq(Letters) /\ Texted(Tail(o))
           /\ Told(o) = Words(Head(o)) \o Told(Tail(o))
<1>1. IsSeq(o) /\ Len(o) \in Nat
  BY ToldTypes
<1>2. PICK e, t : e = Head(o) /\ t = Tail(o)
  OBVIOUS
<1>3. /\ IsSeq(t) /\ e = o[1] /\ Len(o) >= 1 /\ Len(t) = Len(o) - 1
      /\ \A i \in 1 .. Len(o) - 1 : t[i] = o[i + 1]
  BY <1>1, <1>2, IsSeqTail
<1>4. Words(e) \in Seq(Letters)
  <2>1. 1 \in 1 .. Len(o)
    BY <1>1, <1>3
  <2>2. QED
    BY <1>3, <2>1 DEF Texted
<1>5. Texted(t)
  <2>1. \A i \in 1 .. Len(t) : i + 1 \in 1 .. Len(o) /\ t[i] = o[i + 1]
    BY <1>1, <1>3
  <2>2. QED
    BY <1>3, <2>1 DEF Texted
<1>6. o = << e >> \o t
  <2> DEFINE S == {o[i] : i \in DOMAIN o}
  <2>1. o \in Seq(S)
    BY <1>1 DEF IsSeq
  <2> HIDE DEF S
  <2>2. 1 \in 1 .. Len(o) /\ Len(o) \in 1 .. Len(o) /\ 1 + 1 = 2
    BY <1>1, <1>3
  <2>3. SubSeq(o, 1, Len(o)) = << o[1] >> \o SubSeq(o, 2, Len(o))
    BY <2>1, <2>2, SubSeqRecursiveFirst
  <2>4. SubSeq(o, 1, Len(o)) = o /\ Tail(o) = SubSeq(o, 2, Len(o))
    BY <2>1, SubSeqFull, TailIsSubSeq
  <2>5. QED
    BY <1>2, <1>3, <2>3, <2>4
<1>7. Texted(<< e >>) /\ Told(<< e >>) = Words(e)
  BY <1>4, ToldOnce
<1>8. PICK q : q = << e >>
  OBVIOUS
<1>9. Told(q \o t) = Told(q) \o Told(t)
  BY <1>5, <1>7, <1>8, ToldConcat
<1>10. QED
  BY <1>2, <1>4, <1>5, <1>6, <1>7, <1>8, <1>9

\* Events without a text tell nothing.
LEMMA ToldSilent ==
    ASSUME NEW o, IsSeq(o), \A i \in 1 .. Len(o) : Words(o[i]) = << >>
    PROVE  Texted(o) /\ Told(o) = << >>
<1>1. << >> \in Seq(Letters) /\ Len(o) \in Nat
  BY EmptySeq, IsSeqLen
<1>2. Texted(o)
  BY <1>1 DEF Texted
<1>3. PICK g \in [0 .. Len(o) -> Seq(Letters)] : Tells(g, o) /\ Told(o) = g[Len(o)]
  BY <1>2, ToldIs DEF ToldBy
<1> DEFINE U == {i \in 0 .. Len(o) : g[i] = << >>}
<1>4. 0 \in U
  BY <1>1, <1>3 DEF Tells
<1>5. ASSUME NEW i \in 0 .. Len(o) - 1, i \in U
      PROVE  i + 1 \in U
  <2>1. i + 1 \in 1 .. Len(o) /\ i + 1 \in 0 .. Len(o) /\ i + 1 - 1 = i
    BY <1>1
  <2>2. g[i + 1] = Adds(g[i], o[i + 1])
    BY <1>3, <2>1 DEF Tells
  <2>3. << >> \o << >> = << >>
    BY <1>1, ConcatEmptySeq
  <2>4. QED
    BY <1>5, <2>1, <2>2, <2>3 DEF Adds
<1> HIDE DEF U
<1>6. \A i \in 0 .. Len(o) : i \in U
  BY <1>1, <1>4, <1>5, InductionUpTo
<1>7. Len(o) \in 0 .. Len(o)
  BY <1>1
<1>8. QED
  BY <1>2, <1>3, <1>6, <1>7 DEF U

-----------------------------------------------------------------------------
(* The tags are markup, and so is the white space that goes with them.        *)

\* What is left of a text from which the markup between m and n is taken.
LEMMA CutMarkup ==
    ASSUME NEW s \in Seq(Letters), NEW m \in Nat, NEW n \in Nat, m <= n, n <= Len(s),
           \A i \in m + 1 .. n : s[i] \in Markup
    PROVE  /\ Take(s, m) \in Seq(Letters) /\ Drop(s, n) \in Seq(Letters)
           /\ Plain(s) = Plain(Take(s, m)) \o Plain(Drop(s, n))
<1>1. Len(s) \in Nat /\ \A i \in 1 .. Len(s) : s[i] \in Letters
  BY LenProperties, ElementOfSeq
<1>2. PICK a, b, c : a = SubSeq(s, 1, m) /\ b = SubSeq(s, m + 1, n) /\ c = SubSeq(s, n + 1, Len(s))
  OBVIOUS
<1>3. a \in Seq(Letters)
  <2>1. 1 \in Int /\ m \in Int /\ \A i \in 1 .. m : s[i] \in Letters
    BY <1>1
  <2>2. QED
    BY <1>2, <2>1, SubSeqProperties
<1>4. b \in Seq(Letters) /\ \A i \in 1 .. Len(b) : b[i] \in Markup
  <2>1. m + 1 \in Int /\ n \in Int /\ \A i \in m + 1 .. n : s[i] \in Letters
    BY <1>1
  <2>2. /\ b \in Seq(Letters) /\ Len(b) = IF m + 1 <= n THEN n - (m + 1) + 1 ELSE 0
        /\ \A i \in 1 .. n - (m + 1) + 1 : b[i] = s[(m + 1) + i - 1]
    BY <1>2, <2>1, SubSeqProperties, SMTT(30)
  <2>3. ASSUME NEW i \in 1 .. Len(b)
        PROVE  b[i] \in Markup
    <3>1. i \in 1 .. n - (m + 1) + 1 /\ (m + 1) + i - 1 \in m + 1 .. n
      BY <2>2
    <3>2. QED
      BY <2>2, <3>1
  <2>4. QED
    BY <2>2, <2>3
<1>5. c \in Seq(Letters)
  <2>1. n + 1 \in Int /\ Len(s) \in Int /\ \A i \in n + 1 .. Len(s) : s[i] \in Letters
    BY <1>1
  <2>2. QED
    BY <1>2, <2>1, SubSeqProperties
<1>6. s = a \o (b \o c)
  <2>1. /\ 1 \in 1 .. Len(s) + 1 /\ m + 1 \in 1 .. Len(s) + 1
        /\ m \in 1 - 1 .. Len(s) /\ n \in (m + 1) - 1 .. Len(s)
        /\ Len(s) \in m .. Len(s) /\ Len(s) \in n .. Len(s)
    BY <1>1
  <2>2. SubSeq(s, m + 1, n) \o SubSeq(s, n + 1, Len(s)) = SubSeq(s, m + 1, Len(s))
    BY <2>1, ConcatAdjacentSubSeq
  <2>3. SubSeq(s, 1, m) \o SubSeq(s, m + 1, Len(s)) = SubSeq(s, 1, Len(s))
    BY <2>1, ConcatAdjacentSubSeq
  <2>4. SubSeq(s, 1, Len(s)) = s
    BY SubSeqFull
  <2>5. QED
    BY <1>2, <2>2, <2>3, <2>4
<1>7. Plain(b) = << >>
  BY <1>4, PlainMarkup
<1>8. b \o c \in Seq(Letters) /\ Plain(b \o c) = Plain(b) \o Plain(c)
  BY <1>4, <1>5, PlainConcat
<1>9. Plain(b \o c) = Plain(c)
  <2>1. Plain(c) \in Seq(Letters)
    BY <1>5, PlainTypes
  <2>2. << >> \o Plain(c) = Plain(c)
    BY <2>1, ConcatEmptySeq
  <2>3. QED
    BY <1>7, <1>8, <2>2
<1>10. PICK d : d = b \o c
  OBVIOUS
<1>11. Plain(a \o d) = Plain(a) \o Plain(d)
  BY <1>3, <1>8, <1>10, PlainConcat
<1>12. QED
  BY <1>2, <1>3, <1>5, <1>6, <1>9, <1>10, <1>11 DEF Take, Drop

LEMMA CutInTwo ==
    ASSUME NEW s \in Seq(Letters), NEW n \in Nat, n <= Len(s)
    PROVE  /\ Take(s, n) \in Seq(Letters) /\ Drop(s, n) \in Seq(Letters)
           /\ Plain(s) = Plain(Take(s, n)) \o Plain(Drop(s, n))
<1>1. PICK m \in Nat : m = n
  OBVIOUS
<1>2. m <= n /\ \A i \in m + 1 .. n : s[i] \in Markup
  BY <1>1
<1>3. /\ Take(s, m) \in Seq(Letters) /\ Drop(s, n) \in Seq(Letters)
      /\ Plain(s) = Plain(Take(s, m)) \o Plain(Drop(s, n))
  BY <1>2, CutMarkup
<1>4. QED
  BY <1>1, <1>3

LEMMA TagsAre ==
    /\ Len(OpenTag) = 2 /\ Len(CloseTag) = 2 /\ NL \in Markup
    /\ OpenTag[1] \in Markup /\ OpenTag[2] \in Markup
    /\ CloseTag[1] \in Markup /\ CloseTag[2] \in Markup
    /\ << NL >> \in Seq(Letters) /\ Plain(<< NL >>) = << >>
<1>1. Len(OpenTag) = 2 /\ Len(CloseTag) = 2 /\ DOMAIN OpenTag = 1 .. 2 /\ DOMAIN CloseTag = 1 .. 2
  BY DEF OpenTag, CloseTag
<1>2. \A i \in 1 .. 2 : OpenTag[i] \in Markup /\ CloseTag[i] \in Markup
  BY <1>1 DEF Markup, Range
<1>3. NL \in Markup
  BY DEF Markup
<1>4. << NL >> \in Seq(Letters)
  BY <1>3 DEF Letters
<1>5. \A i \in 1 .. Len(<< NL >>) : << NL >>[i] \in Markup
  BY <1>3
<1>6. Plain(<< NL >>) = << >>
  BY <1>4, <1>5, PlainMarkup
<1>7. 1 \in 1 .. 2 /\ 2 \in 1 .. 2
  OBVIOUS
<1>8. QED
  BY <1>1, <1>2, <1>3, <1>4, <1>6, <1>7

LEMMA FirstIs ==
    ASSUME NEW ps, ps \subseteq Nat, First(ps) # 0
    PROVE  First(ps) \in ps
<1>1. ps # {} /\ First(ps) = Min(ps)
  BY DEF First
<1>2. \E x \in ps : \A y \in ps : x <= y
  BY <1>1, LeastOf
<1>3. Min(ps) \in ps
  BY <1>2 DEF Min
<1>4. QED
  BY <1>1, <1>3

\* Where a tag stands.
LEMMA TagStands ==
    ASSUME NEW s \in Seq(Letters), NEW tag \in {OpenTag, CloseTag}, NEW p \in Unquoted(s, tag)
    PROVE  /\ p \in Nat /\ p - 1 \in Nat /\ p + 1 <= Len(s) /\ Len(s) \in Nat
           /\ \A i \in p .. p + 1 : s[i] \in Markup
<1>1. Len(tag) = 2 /\ tag[1] \in Markup /\ tag[2] \in Markup
  BY TagsAre
<1>2. Len(s) \in Nat /\ \A i \in 1 .. Len(s) : s[i] \in Letters
  BY LenProperties, ElementOfSeq
<1>3. p \in 1 .. Len(s) + 1 - 2 /\ SubSeq(s, p, p + 2 - 1) = tag
  BY <1>1 DEF Unquoted
<1>4. p \in Int /\ p + 1 \in Int /\ p + 1 <= Len(s) /\ p + 2 - 1 = p + 1 /\ p >= 1
  BY <1>2, <1>3
<1>5. \A i \in 1 .. (p + 1) - p + 1 : SubSeq(s, p, p + 1)[i] = s[p + i - 1]
  <2>1. \A i \in p .. p + 1 : s[i] \in Letters
    BY <1>2, <1>4
  <2>2. QED
    BY <1>4, <2>1, SubSeqProperties
<1>6. tag[1] = s[p] /\ tag[2] = s[p + 1]
  <2>1. 1 \in 1 .. (p + 1) - p + 1 /\ 2 \in 1 .. (p + 1) - p + 1 /\ p + 1 - 1 = p /\ p + 2 - 1 = p + 1
    BY <1>4
  <2>2. SubSeq(s, p, p + 1) = tag
    BY <1>3, <1>4
  <2>3. QED
    BY <1>5, <2>1, <2>2
<1>7. \A i \in p .. p + 1 : i = p \/ i = p + 1
  BY <1>4
<1>8. \A i \in p .. p + 1 : s[i] \in Markup
  BY <1>1, <1>6, <1>7
<1>9. QED
  BY <1>2, <1>4, <1>8

LEMMA StartTagIs ==
    ASSUME NEW s \in Seq(Letters), StartTag(s) # 0
    PROVE  LET p == StartTag(s) IN
           /\ p \in Nat /\ p - 1 \in Nat /\ p + 1 <= Len(s) /\ Len(s) \in Nat
           /\ \A i \in p .. p + 1 : s[i] \in Markup
<1>1. PICK ps : ps = Unquoted(s, OpenTag)
  OBVIOUS
<1>2. ps \subseteq Nat
  BY <1>1 DEF Unquoted
<1>3. PICK p : p = First(ps)
  OBVIOUS
<1>4. StartTag(s) = p /\ p \in Unquoted(s, OpenTag)
  BY <1>1, <1>2, <1>3, FirstIs DEF StartTag
<1>5. QED
  BY <1>4, TagStands

LEMMA EndTagIs ==
    ASSUME NEW s \in Seq(Letters), EndTag(s) # 0
    PROVE  LET p == EndTag(s) IN
           /\ p \in Nat /\ p - 1 \in Nat /\ p + 3 <= Len(s) /\ Len(s) \in Nat
           /\ \A i \in p .. p + 3 : s[i] \in Markup
<1> DEFINE cut(p) == Drop(s, p + Len(CloseTag) - 1)
<1>1. PICK ps : ps = {p \in Unquoted(s, CloseTag) : IsPrefix(<<NL, NL>>, cut(p))}
  OBVIOUS
<1>2. ps \subseteq Nat
  BY <1>1 DEF Unquoted
<1>3. PICK p : p = First(ps)
  OBVIOUS
<1>4. EndTag(s) = p /\ p \in ps
  BY <1>1, <1>2, <1>3, FirstIs DEF EndTag
<1>5. p \in Unquoted(s, CloseTag) /\ IsPrefix(<<NL, NL>>, cut(p))
  BY <1>1, <1>4
<1>6. /\ p \in Nat /\ p - 1 \in Nat /\ p + 1 <= Len(s) /\ Len(s) \in Nat
      /\ \A i \in p .. p + 1 : s[i] \in Markup
  BY <1>5, TagStands
<1>7. PICK r : r = SubSeq(s, p + 2, Len(s))
  OBVIOUS
<1>8. cut(p) = r
  <2>1. p + 2 - 1 + 1 = p + 2
    BY <1>6
  <2>2. QED
    BY <1>7, <2>1, TagsAre DEF Drop
<1> HIDE DEF cut
<1>9. /\ r \in Seq(Letters) /\ Len(r) = IF p + 2 <= Len(s) THEN Len(s) - (p + 2) + 1 ELSE 0
      /\ \A i \in 1 .. Len(s) - (p + 2) + 1 : r[i] = s[(p + 2) + i - 1]
  <2>1. p + 2 \in Int /\ Len(s) \in Int /\ \A i \in p + 2 .. Len(s) : s[i] \in Letters
    BY <1>6, ElementOfSeq
  <2>2. QED
    BY <1>7, <2>1, SubSeqProperties
<1>10. Len(<<NL, NL>>) = 2 /\ <<NL, NL>>[1] = NL /\ <<NL, NL>>[2] = NL
  OBVIOUS
<1>11. PICK q : q = <<NL, NL>>
  OBVIOUS
<1>12. 2 <= Len(r) /\ SubSeq(q, 1, 2) = SubSeq(r, 1, 2)
  BY <1>5, <1>8, <1>10, <1>11 DEF IsPrefix
<1>13. r[1] = NL /\ r[2] = NL
  <2>1. q \in Seq({NL})
    BY <1>11
  <2>2. SubSeq(q, 1, 2) = q
    BY <1>10, <1>11, <2>1, SubSeqFull
  <2>3. \A i \in 1 .. 2 - 1 + 1 : SubSeq(r, 1, 2)[i] = r[1 + i - 1]
    <3>1. \A i \in 1 .. 2 : r[i] \in Letters
      BY <1>6, <1>9, <1>12, ElementOfSeq
    <3>2. QED
      BY <3>1, SubSeqProperties
  <2>4. 1 \in 1 .. 2 - 1 + 1 /\ 2 \in 1 .. 2 - 1 + 1 /\ 1 + 1 - 1 = 1 /\ 1 + 2 - 1 = 2
    OBVIOUS
  <2>5. QED
    BY <1>10, <1>11, <1>12, <2>2, <2>3, <2>4
<1>14. p + 3 <= Len(s) /\ s[p + 2] = NL /\ s[p + 3] = NL
  <2>1. p + 3 <= Len(s)
    BY <1>6, <1>9, <1>12
  <2>2. 1 \in 1 .. Len(s) - (p + 2) + 1 /\ 2 \in 1 .. Len(s) - (p + 2) + 1
    BY <1>6, <2>1
  <2>3. (p + 2) + 1 - 1 = p + 2 /\ (p + 2) + 2 - 1 = p + 3
    BY <1>6
  <2>4. QED
    BY <1>9, <1>13, <2>1, <2>2, <2>3
<1>15. \A i \in p .. p + 3 : i \in p .. p + 1 \/ i = p + 2 \/ i = p + 3
  BY <1>6
<1>16. \A i \in p .. p + 3 : s[i] \in Markup
  BY <1>6, <1>14, <1>15, TagsAre
<1>17. QED
  BY <1>4, <1>6, <1>14, <1>16

LEMMA EndTagAtEndIs ==
    ASSUME NEW s \in Seq(Letters), EndTagAtEnd(s) # 0
    PROVE  LET p == EndTagAtEnd(s) IN
           /\ p \in Nat /\ p - 1 \in Nat /\ p - 1 <= Len(s) /\ Len(s) \in Nat
           /\ \A i \in p .. Len(s) : s[i] \in Markup
<1> DEFINE cut(p) == Drop(s, p + Len(CloseTag) - 1)
<1>1. PICK ps : ps = {p \in Unquoted(s, CloseTag) : Blank(cut(p))}
  OBVIOUS
<1>2. ps \subseteq Nat
  BY <1>1 DEF Unquoted
<1>3. PICK p : p = First(ps)
  OBVIOUS
<1>4. EndTagAtEnd(s) = p /\ p \in ps
  BY <1>1, <1>2, <1>3, FirstIs DEF EndTagAtEnd
<1>5. p \in Unquoted(s, CloseTag) /\ Blank(cut(p))
  BY <1>1, <1>4
<1>6. /\ p \in Nat /\ p - 1 \in Nat /\ p + 1 <= Len(s) /\ Len(s) \in Nat
      /\ \A i \in p .. p + 1 : s[i] \in Markup
  BY <1>5, TagStands
<1>7. PICK r : r = SubSeq(s, p + 2, Len(s))
  OBVIOUS
<1>8. cut(p) = r
  <2>1. p + 2 - 1 + 1 = p + 2
    BY <1>6
  <2>2. QED
    BY <1>7, <2>1, TagsAre DEF Drop
<1> HIDE DEF cut
<1>9. /\ r \in Seq(Letters) /\ Len(r) = IF p + 2 <= Len(s) THEN Len(s) - (p + 2) + 1 ELSE 0
      /\ \A i \in 1 .. Len(s) - (p + 2) + 1 : r[i] = s[(p + 2) + i - 1]
  <2>1. p + 2 \in Int /\ Len(s) \in Int /\ \A i \in p + 2 .. Len(s) : s[i] \in Letters
    BY <1>6, ElementOfSeq
  <2>2. QED
    BY <1>7, <2>1, SubSeqProperties
<1>10. \A i \in 1 .. Len(r) : r[i] = NL
  <2>1. DOMAIN r = 1 .. Len(r)
    BY <1>9, LenProperties
  <2>2. QED
    BY <1>5, <1>8, <2>1 DEF Blank
<1>11. ASSUME NEW i \in p .. Len(s)
       PROVE  s[i] \in Markup
  <2>1. CASE i <= p + 1
    <3>1. i \in p .. p + 1
      BY <1>6, <2>1
    <3>2. QED
      BY <1>6, <3>1
  <2>2. CASE ~(i <= p + 1)
    <3>1. PICK j \in Int : j = i - (p + 1)
      BY <1>6
    <3>2. j \in 1 .. Len(s) - (p + 2) + 1 /\ (p + 2) + j - 1 = i /\ j \in 1 .. Len(r)
      BY <1>6, <1>9, <2>2, <3>1
    <3>3. s[i] = NL
      BY <1>9, <1>10, <3>2
    <3>4. QED
      BY <3>3, TagsAre
  <2>3. QED
    BY <2>1, <2>2
<1>12. p - 1 <= Len(s)
  BY <1>6
<1>13. QED
  BY <1>4, <1>6, <1>11, <1>12

-----------------------------------------------------------------------------
(* What is told and what the buffer still holds.                              *)

Lettered(c) == DOMAIN c = Fields /\ Texted(c.out) /\ c.buf \in Seq(Letters)
Kept(c) == Plain(Told(c.out)) \o Plain(c.buf)

\* d tells s after what c tells, and holds the rest
Moves(c, d, s, rest) == Lettered(d) /\ Told(d.out) = Told(c.out) \o s /\ d.buf = rest
Silent(c, d) == Lettered(d) /\ Told(d.out) = Told(c.out) /\ d.buf = c.buf
Keeps(c, d) == Lettered(d) /\ Kept(d) = Kept(c)

LEMMA SilentMoves ==
    ASSUME NEW c, NEW d, NEW e, NEW s, NEW rest
    PROVE  /\ Silent(c, d) /\ Moves(d, e, s, rest) => Moves(c, e, s, rest)
           /\ Silent(d, e) /\ Moves(c, d, s, rest) => Moves(c, e, s, rest)
           /\ Silent(c, d) /\ Silent(d, e) => Silent(c, e)
           /\ Lettered(c) /\ Silent(c, d) => Moves(c, d, << >>, c.buf) /\ Keeps(c, d)
<1>1. ASSUME Lettered(c), Silent(c, d)
      PROVE  Moves(c, d, << >>, c.buf) /\ Keeps(c, d)
  <2>1. Told(c.out) \in Seq(Letters)
    BY <1>1, ToldTypes DEF Lettered
  <2>2. Told(c.out) \o << >> = Told(c.out)
    BY <2>1, ConcatEmptySeq
  <2>3. QED
    BY <1>1, <2>2 DEF Silent, Moves, Keeps, Kept
<1>2. QED
  BY <1>1 DEF Silent, Moves

\* What is told left the buffer, with nothing but markup.
LEMMA MovesKeep ==
    ASSUME NEW c, NEW d, NEW s \in Seq(Letters), NEW rest, Lettered(c), Moves(c, d, s, rest),
           Plain(c.buf) = Plain(s) \o Plain(rest)
    PROVE  Keeps(c, d)
<1>1. PICK t : t = Told(c.out)
  OBVIOUS
<1>2. t \in Seq(Letters) /\ rest \in Seq(Letters) /\ Told(d.out) = t \o s
  BY <1>1, ToldTypes DEF Lettered, Moves
<1>3. Plain(t \o s) = Plain(t) \o Plain(s)
  BY <1>2, PlainConcat
<1>4. PICK x \in Seq(Letters), y \in Seq(Letters), z \in Seq(Letters) :
          x = Plain(t) /\ y = Plain(s) /\ z = Plain(rest)
  BY <1>2, PlainTypes
<1>5. Regrouped(x, y, z)
  BY Regroup
<1>6. Kept(d) = (x \o y) \o z
  BY <1>2, <1>3, <1>4 DEF Kept, Moves
<1>7. Kept(c) = x \o (y \o z)
  BY <1>1, <1>4 DEF Kept
<1>8. QED
  BY <1>5, <1>6, <1>7 DEF Keeps, Moves, Regrouped

LEMMA EmitMoves ==
    ASSUME NEW c, NEW e, Lettered(c), Words(e) \in Seq(Letters)
    PROVE  Moves(c, Emit(c, e), Words(e), c.buf)
<1>1. PICK d : d = Emit(c, e)
  OBVIOUS
<1>2. DOMAIN d = Fields /\ d.out = Append(c.out, e) /\ d.buf = c.buf
  BY <1>1 DEF Lettered, Fields, Emit
<1>3. Texted(Append(c.out, e)) /\ Told(Append(c.out, e)) = Told(c.out) \o Words(e)
  BY ToldAppend DEF Lettered
<1>4. QED
  BY <1>1, <1>2, <1>3 DEF Moves, Lettered

LEMMA EmitSilent ==
    ASSUME NEW c, NEW e, Lettered(c), Words(e) = << >>
    PROVE  Silent(c, Emit(c, e))
<1>1. PICK d : d = Emit(c, e)
  OBVIOUS
<1>2. Moves(c, d, << >>, c.buf)
  BY <1>1, EmitMoves, PlainEmpty
<1>3. Told(c.out) \in Seq(Letters)
  BY ToldTypes DEF Lettered
<1>4. Told(c.out) \o << >> = Told(c.out)
  BY <1>3, ConcatEmptySeq
<1>5. QED
  BY <1>1, <1>2, <1>4 DEF Moves, Silent

LEMMA EventWords ==
    ASSUME NEW i, NEW t, NEW s
    PROVE  /\ Words(Ev("delta", i, t, s)) = s
           /\ \A v : v # "delta" => Words(Ev(v, i, t, s)) = << >>
BY DEF Words, Ev

LEMMA StartSilent ==
    ASSUME NEW c, NEW t, Lettered(c)
    PROVE  Silent(c, StartBlock(c, t))
<1>1. PICK n, e : n = [type |-> t, open |-> TRUE] /\ e = Ev("block_start", Len(c.blocks) + 1, t, << >>)
  OBVIOUS
<1>2. PICK g : g = [c EXCEPT !.blocks = Append(@, n)]
  OBVIOUS
<1>3. DOMAIN g = Fields /\ g.out = c.out /\ g.buf = c.buf
  BY <1>2 DEF Lettered, Fields
<1>4. Words(e) = << >>
  BY <1>1 DEF Words, Ev
<1>5. Lettered(g)
  BY <1>3 DEF Lettered
<1>6. Silent(g, Emit(g, e))
  BY <1>4, <1>5, EmitSilent
<1>7. StartBlock(c, t) = Emit(g, e)
  BY <1>1, <1>2 DEF StartBlock
<1>8. QED
  BY <1>3, <1>6, <1>7 DEF Silent

LEMMA StopsSilent ==
    ASSUME NEW c, NEW is, Lettered(c), IsFiniteSet(is)
    PROVE  Silent(c, StopBlocks(c, is))
<1> DEFINE stop(i) == Ev("block_stop", i, c.blocks[i].type, << >>)
           f == [i \in is |-> stop(i)]
<1>1. PICK S : S = {Ev("block_stop", i, c.blocks[i].type, << >>) : i \in is}
  OBVIOUS
<1>2. IsFiniteSet(S)
  <2>1. f \in Surjection(is, S)
    BY <1>1 DEF Surjection
  <2> HIDE DEF f
  <2>2. QED
    BY <2>1, FS_Surjection
<1>3. \A e \in S : Words(e) = << >>
  BY <1>1 DEF Words, Ev
<1>4. PICK q : q = SetToSeq(S)
  OBVIOUS
<1>5. IsSeq(q) /\ \A i \in 1 .. Len(q) : q[i] \in S
  BY <1>2, <1>4, SetToSeqLists
<1>6. Texted(q) /\ Told(q) = << >>
  BY <1>3, <1>5, ToldSilent
<1>7. PICK d : d = StopBlocks(c, is)
  OBVIOUS
<1>8. DOMAIN d = Fields /\ d.out = c.out \o q /\ d.buf = c.buf
  BY <1>1, <1>4, <1>7 DEF StopBlocks, Lettered, Fields
<1>9. Texted(c.out \o q) /\ Told(c.out \o q) = Told(c.out) \o << >> /\ Told(c.out) \in Seq(Letters)
  BY <1>6, ToldConcat, ToldTypes DEF Lettered
<1>10. Told(c.out) \o << >> = Told(c.out)
  BY <1>9, ConcatEmptySeq
<1>11. QED
  BY <1>7, <1>8, <1>9, <1>10 DEF Silent, Lettered

LEMMA StopSilent ==
    ASSUME NEW c, NEW i, Lettered(c)
    PROVE  Silent(c, StopBlock(c, i))
<1>1. IsFiniteSet({i})
  BY FS_Singleton
<1>2. Silent(c, StopBlocks(c, {i}))
  BY <1>1, StopsSilent
<1>3. QED
  BY <1>2 DEF StopBlock, Silent

LEMMA OpenSilent ==
    ASSUME NEW k, NEW c, NEW ts, Fit(k, c), Lettered(c)
    PROVE  Silent(c, StopBlocks(c, OpenBlocks(c, ts)))
<1>1. PICK is, n : is = OpenBlocks(c, ts) /\ n = Len(c.blocks)
  OBVIOUS
<1>2. n \in Nat /\ is \in SUBSET (1 .. n)
  BY <1>1, BlocksHave DEF Fit, Writes, OpenBlocks
<1>3. IsFiniteSet(1 .. n)
  BY <1>2, FS_Interval
<1>4. IsFiniteSet(is)
  BY <1>2, <1>3, FS_Subset
<1>5. QED
  BY <1>1, <1>4, StopsSilent

LEMMA DeltaMoves ==
    ASSUME NEW c, NEW i, NEW s \in Seq(Letters), Lettered(c), c.blocks[i].open
    PROVE  Moves(c, Delta(c, i, s), s, c.buf)
<1>1. PICK e : e = Ev("delta", i, c.blocks[i].type, s)
  OBVIOUS
<1>2. Words(e) = s
  BY <1>1, EventWords
<1>3. Moves(c, Emit(c, e), s, c.buf)
  BY <1>2, EmitMoves
<1>4. QED
  BY <1>1, <1>3 DEF Delta

LEMMA DeltaSilent ==
    ASSUME NEW c, NEW i, Lettered(c)
    PROVE  Silent(c, Delta(c, i, << >>))
<1>1. PICK e : e = Ev("delta", i, c.blocks[i].type, << >>)
  OBVIOUS
<1>2. Silent(c, Emit(c, e))
  BY <1>1, EventWords, EmitSilent
<1>3. QED
  BY <1>1, <1>2 DEF Delta, Silent

LEMMA ThinkingMoves ==
    ASSUME NEW c, NEW s \in Seq(Letters), Lettered(c)
    PROVE  Moves(c, ThinkingDelta(c, s), s, c.buf)
<1>1. PICK e : e = Ev("delta", c.thinkAt, "thinking", s)
  OBVIOUS
<1>2. Words(e) = s
  BY <1>1, EventWords
<1>3. QED
  BY <1>1, <1>2, EmitMoves DEF ThinkingDelta

\* A text delta is sent: its block is open.
LEMMA TextMoves ==
    ASSUME NEW k, NEW c, NEW s \in Seq(Letters), Fit(k, c), Lettered(c)
    PROVE  Moves(c, TextDelta(c, s), s, c.buf)
<1>1. CASE c.textAt # 0 /\ c.blocks[c.textAt].open
  <2>1. TextDelta(c, s) = Delta(c, c.textAt, s)
    BY <1>1 DEF TextDelta
  <2>2. QED
    BY <1>1, <2>1, DeltaMoves
<1>2. CASE ~(c.textAt # 0 /\ c.blocks[c.textAt].open)
  <2>1. PICK g : g = StartBlock(c, "text")
    OBVIOUS
  <2>2. Writes(k, c)
    BY DEF Fit
  <2>3. Longer(c, g, "text") /\ Silent(c, g)
    BY <2>1, <2>2, BlockStarted, TypesAre, StartSilent
  <2>4. PICK e : e = [g EXCEPT !.textAt = Len(c.blocks) + 1]
    OBVIOUS
  <2>5. /\ DOMAIN e = Fields /\ e.out = g.out /\ e.buf = g.buf /\ e.blocks = g.blocks
        /\ e.textAt = Len(c.blocks) + 1
    BY <2>3, <2>4 DEF Silent, Lettered, Fields
  <2>6. Silent(c, e)
    BY <2>3, <2>5 DEF Silent, Lettered
  <2>7. e.blocks[e.textAt].open
    BY <2>3, <2>5 DEF Longer
  <2>8. Moves(e, Delta(e, e.textAt, s), s, e.buf)
    BY <2>6, <2>7, DeltaMoves DEF Silent
  <2>9. TextDelta(c, s) = Delta(e, e.textAt, s)
    BY <1>2, <2>1, <2>4 DEF TextDelta
  <2>10. QED
    BY <2>6, <2>8, <2>9, SilentMoves DEF Silent
<1>3. QED
  BY <1>1, <1>2

\* A new buffer instead of the old.
LEMMA MovesAndBuffer ==
    ASSUME NEW c, NEW d, NEW s, NEW rest \in Seq(Letters), Moves(c, d, s, c.buf)
    PROVE  Moves(c, [d EXCEPT !.buf = rest], s, rest)
<1>1. PICK e : e = [d EXCEPT !.buf = rest]
  OBVIOUS
<1>2. DOMAIN e = Fields /\ e.out = d.out /\ e.buf = rest
  BY <1>1 DEF Moves, Lettered, Fields
<1>3. QED
  BY <1>1, <1>2 DEF Moves, Lettered

LEMMA ClosingMoves ==
    ASSUME NEW c, NEW s \in Seq(Letters), Lettered(c)
    PROVE  Moves(c, CloseThinking(c, s), s, c.buf)
<1>1. PICK d : d = IF s = << >> THEN c ELSE ThinkingDelta(c, s)
  OBVIOUS
<1>2. Moves(c, d, s, c.buf)
  <2>1. CASE s = << >>
    <3>1. Silent(c, d) /\ d = c
      BY <1>1, <2>1 DEF Silent
    <3>2. QED
      BY <2>1, <3>1, SilentMoves
  <2>2. CASE s # << >>
    BY <1>1, <2>2, ThinkingMoves
  <2>3. QED
    BY <2>1, <2>2
<1>3. PICK e : e = ThinkingDelta(d, << >>)
  OBVIOUS
<1>4. Silent(d, e)
  <2>1. Lettered(d)
    BY <1>2 DEF Moves
  <2>2. PICK v : v = Ev("delta", d.thinkAt, "thinking", << >>)
    OBVIOUS
  <2>3. Words(v) = << >>
    BY <2>2, EventWords
  <2>4. QED
    BY <1>3, <2>1, <2>2, <2>3, EmitSilent DEF ThinkingDelta
<1>5. PICK f : f = StopBlock(e, c.thinkAt)
  OBVIOUS
<1>6. Silent(e, f)
  <2>1. Lettered(e)
    BY <1>4 DEF Silent
  <2>2. QED
    BY <1>5, <2>1, StopSilent
<1>7. Moves(c, f, s, c.buf)
  BY <1>2, <1>4, <1>6, SilentMoves
<1>8. CloseThinking(c, s) = f
  BY <1>1, <1>3, <1>5 DEF CloseThinking
<1>9. QED
  BY <1>7, <1>8

LEMMA EndingMoves ==
    ASSUME NEW c, NEW s \in Seq(Letters), NEW rest \in Seq(Letters), Lettered(c)
    PROVE  Moves(c, EndThinking(c, s, rest), s, rest)
<1>1. PICK d : d = CloseThinking(c, s)
  OBVIOUS
<1>2. Moves(c, d, s, c.buf)
  BY <1>1, ClosingMoves
<1>3. PICK e : e = [d EXCEPT !.inThinking = FALSE, !.extracted = TRUE, !.buf = rest]
  OBVIOUS
<1>4. DOMAIN e = Fields /\ e.out = d.out /\ e.buf = rest
  BY <1>2, <1>3 DEF Moves, Lettered, Fields
<1>5. Moves(c, e, s, rest)
  BY <1>2, <1>4 DEF Moves, Lettered
<1>6. EndThinking(c, s, rest) = e
  BY <1>1, <1>3 DEF EndThinking
<1>7. QED
  BY <1>5, <1>6

-----------------------------------------------------------------------------
(* Each part of a handler keeps what has arrived.                             *)

LEMMA KeepsOn ==
    ASSUME NEW c, NEW d, NEW e
    PROVE  /\ Keeps(c, d) /\ Keeps(d, e) => Keeps(c, e)
           /\ Lettered(c) => Keeps(c, c)
BY DEF Keeps

LEMMA BlankPlain ==
    ASSUME NEW s \in Seq(Letters), Blank(s)
    PROVE  Plain(s) = << >>
<1>1. DOMAIN s = 1 .. Len(s)
  BY LenProperties
<1>2. \A i \in 1 .. Len(s) : s[i] \in Markup
  BY <1>1, TagsAre DEF Blank
<1>3. QED
  BY <1>2, PlainMarkup

\* The beginning of the thinking: its tag is dropped, and white space before it.
LEMMA StartKeeps ==
    ASSUME NEW k, NEW c, Fit(k, c), Lettered(c), StartTag(c.buf) # 0
    PROVE  Keeps(c, BeforeThinking(c))
<1>1. PICK p, b : p = StartTag(b) /\ b = c.buf
  OBVIOUS
<1>2. /\ b \in Seq(Letters) /\ p \in Nat /\ p - 1 \in Nat /\ p + 1 <= Len(b) /\ Len(b) \in Nat
      /\ \A i \in p .. p + 1 : b[i] \in Markup
  BY <1>1, StartTagIs DEF Lettered
<1>3. PICK before, rest : before = Take(b, p - 1) /\ rest = Drop(b, p + 1)
  OBVIOUS
<1>4. before \in Seq(Letters) /\ rest \in Seq(Letters) /\ Plain(b) = Plain(before) \o Plain(rest)
  <2>1. PICK m \in Nat, n \in Nat : m = p - 1 /\ n = p + 1
    BY <1>2
  <2>2. m <= n /\ n <= Len(b) /\ \A i \in m + 1 .. n : b[i] \in Markup
    BY <1>2, <2>1
  <2>3. QED
    BY <1>2, <1>3, <2>1, <2>2, CutMarkup
<1>5. PICK e : e = IF Blank(before) THEN c ELSE TextDelta(c, before)
  OBVIOUS
<1>6. PICK s \in Seq(Letters) : Moves(c, e, s, b) /\ Plain(b) = Plain(s) \o Plain(rest)
  <2>1. CASE Blank(before)
    <3>1. Plain(before) = Plain(<< >>) /\ << >> \in Seq(Letters)
      BY <1>4, <2>1, BlankPlain, PlainEmpty
    <3>2. Silent(c, e)
      BY <1>5, <2>1 DEF Silent
    <3>3. Moves(c, e, << >>, b)
      BY <1>1, <3>2, SilentMoves
    <3>4. QED
      BY <1>4, <3>1, <3>3
  <2>2. CASE ~Blank(before)
    <3>1. Moves(c, e, before, b)
      BY <1>1, <1>4, <1>5, <2>2, TextMoves
    <3>2. QED
      BY <1>4, <3>1
  <2>3. QED
    BY <2>1, <2>2
<1>7. PICK g : g = StartBlock(e, "thinking")
  OBVIOUS
<1>8. Moves(c, g, s, b)
  <2>1. Lettered(e)
    BY <1>6 DEF Moves
  <2>2. Silent(e, g)
    BY <1>7, <2>1, StartSilent
  <2>3. QED
    BY <1>6, <2>2, SilentMoves
<1>9. PICK d : d = [g EXCEPT !.inThinking = TRUE, !.strip = TRUE, !.thinkAt = Len(g.blocks),
                             !.buf = Drop(@, p + Len(OpenTag) - 1)]
  OBVIOUS
<1>10. DOMAIN d = Fields /\ d.out = g.out /\ d.buf = rest
  <2>1. p + Len(OpenTag) - 1 = p + 1
    BY <1>2, TagsAre
  <2>2. DOMAIN g = Fields /\ g.buf = b
    BY <1>8 DEF Moves, Lettered
  <2>3. d = [g EXCEPT !.inThinking = TRUE, !.strip = TRUE, !.thinkAt = Len(g.blocks),
                      !.buf = Drop(@, p + 1)]
    BY <1>9, <2>1
  <2>4. QED
    BY <1>3, <2>2, <2>3 DEF Fields
<1>11. Moves(c, d, s, rest)
  BY <1>4, <1>8, <1>10 DEF Moves, Lettered
<1>12. BeforeThinking(c) = d
  BY <1>1, <1>3, <1>5, <1>7, <1>9 DEF BeforeThinking
<1>13. QED
  BY <1>1, <1>6, <1>11, <1>12, MovesKeep

\* A part of the buffer is sent as it is.
LEMMA SendsKeep ==
    ASSUME NEW c, NEW d, NEW n \in Nat, n <= Len(c.buf), Lettered(c),
           Moves(c, d, Take(c.buf, n), c.buf)
    PROVE  Keeps(c, [d EXCEPT !.buf = Drop(@, n)])
<1>1. PICK b, s, rest : b = c.buf /\ s = Take(b, n) /\ rest = Drop(b, n)
  OBVIOUS
<1>2. n <= Len(b)
  BY <1>1
<1>3. b \in Seq(Letters)
  BY <1>1 DEF Lettered
<1>4. s \in Seq(Letters) /\ rest \in Seq(Letters) /\ Plain(b) = Plain(s) \o Plain(rest)
  BY <1>1, <1>2, <1>3, CutInTwo
<1>5. d.buf = b
  BY <1>1 DEF Moves
<1>6. [d EXCEPT !.buf = Drop(@, n)] = [d EXCEPT !.buf = rest]
  BY <1>1, <1>5
<1>7. PICK e : e = [d EXCEPT !.buf = rest]
  OBVIOUS
<1>8. Moves(c, e, s, rest)
  BY <1>1, <1>4, <1>7, MovesAndBuffer
<1>9. QED
  BY <1>1, <1>4, <1>6, <1>7, <1>8, MovesKeep

LEMMA BeforeKeeps ==
    ASSUME NEW k, NEW c, Fit(k, c), Lettered(c)
    PROVE  Keeps(c, BeforeThinking(c))
<1>1. CASE StartTag(c.buf) # 0
  BY <1>1, StartKeeps
<1>2. CASE StartTag(c.buf) = 0
  <2>1. PICK n : n = Len(c.buf) - Len(OpenTag)
    OBVIOUS
  <2>2. CASE Blank(Take(c.buf, n))
    <3>1. BeforeThinking(c) = c
      BY <1>2, <2>1, <2>2 DEF BeforeThinking
    <3>2. QED
      BY <3>1, KeepsOn
  <2>3. CASE ~Blank(Take(c.buf, n))
    <3>1. PICK s : s = Take(c.buf, n)
      OBVIOUS
    <3>2. Len(c.buf) \in Nat
      BY LenProperties DEF Lettered
    <3>3. n \in Int /\ n <= Len(c.buf)
      BY <2>1, <3>2, TagsAre
    <3>4. n \in Nat
      <4>1. SUFFICES ASSUME n < 1
                     PROVE  FALSE
        BY <3>3
      <4>2. s = << >>
        BY <3>1, <3>3, <4>1, SubSeqEmpty DEF Take
      <4>3. Blank(s)
        BY <4>2 DEF Blank
      <4>4. QED
        BY <2>3, <3>1, <4>3
    <3>5. s \in Seq(Letters)
      <4>1. c.buf \in Seq(Letters)
        BY DEF Lettered
      <4>2. QED
        BY <3>1, <3>3, <3>4, <4>1, CutInTwo
    <3>6. PICK d : d = TextDelta(c, s)
      OBVIOUS
    <3>7. Moves(c, d, s, c.buf)
      BY <3>5, <3>6, TextMoves
    <3>8. Keeps(c, [d EXCEPT !.buf = Drop(@, n)])
      BY <3>1, <3>3, <3>4, <3>7, SendsKeep
    <3>9. BeforeThinking(c) = [d EXCEPT !.buf = Drop(@, n)]
      BY <1>2, <2>1, <2>3, <3>1, <3>6 DEF BeforeThinking
    <3>10. QED
      BY <3>8, <3>9
  <2>4. QED
    BY <2>2, <2>3
<1>3. QED
  BY <1>1, <1>2

LEMMA StripKeeps ==
    ASSUME NEW c, Lettered(c)
    PROVE  Keeps(c, Strip(c))
<1>1. CASE ~c.strip \/ c.buf = << >>
  BY <1>1, KeepsOn DEF Strip
<1>2. CASE ~(~c.strip \/ c.buf = << >>)
  <2>1. PICK b, rest : b = c.buf /\ rest = IF Head(b) = NL THEN Tail(b) ELSE b
    OBVIOUS
  <2>2. b \in Seq(Letters) /\ b # << >>
    BY <1>2, <2>1 DEF Lettered
  <2>3. rest \in Seq(Letters) /\ Plain(rest) = Plain(b)
    <3>1. CASE Head(b) = NL
      <4>1. Len(b) \in Nat /\ Len(b) # 0
        BY <2>2, LenProperties, EmptySeq
      <4>2. PICK m \in Nat, n \in Nat : m = 0 /\ n = 1
        OBVIOUS
      <4>3. b[1] = NL
        BY <2>2, <3>1
      <4>4. m <= n /\ n <= Len(b) /\ \A i \in m + 1 .. n : b[i] \in Markup
        <5>1. \A i \in m + 1 .. n : i = 1
          BY <4>2
        <5>2. QED
          BY <4>1, <4>2, <4>3, <5>1, TagsAre
      <4>5. /\ Take(b, m) \in Seq(Letters) /\ Drop(b, n) \in Seq(Letters)
            /\ Plain(b) = Plain(Take(b, m)) \o Plain(Drop(b, n))
        BY <2>2, <4>4, CutMarkup
      <4>6. Take(b, m) = << >>
        BY <4>2, SubSeqEmpty DEF Take
      <4>7. Drop(b, n) = rest
        <5>1. n + 1 = 2
          BY <4>2
        <5>2. Tail(b) = SubSeq(b, 2, Len(b))
          BY <2>2, TailIsSubSeq
        <5>3. QED
          BY <2>1, <3>1, <5>1, <5>2 DEF Drop
      <4>8. Plain(rest) \in Seq(Letters)
        BY <4>5, <4>7, PlainTypes
      <4>9. << >> \o Plain(rest) = Plain(rest)
        BY <4>8, ConcatEmptySeq
      <4>10. QED
        BY <4>5, <4>6, <4>7, <4>9, PlainEmpty
    <3>2. CASE Head(b) # NL
      BY <2>1, <2>2, <3>2
    <3>3. QED
      BY <3>1, <3>2
  <2>4. PICK d : d = [c EXCEPT !.strip = FALSE, !.buf = rest]
    OBVIOUS
  <2>5. DOMAIN d = Fields /\ d.out = c.out /\ d.buf = rest
    BY <2>4 DEF Lettered, Fields
  <2>6. Strip(c) = d
    <3>1. Strip(c) = [c EXCEPT !.strip = FALSE, !.buf = IF Head(@) = NL THEN Tail(@) ELSE @]
      BY <1>2 DEF Strip
    <3>2. QED
      BY <2>1, <2>4, <3>1
  <2>7. QED
    BY <2>1, <2>3, <2>5, <2>6 DEF Keeps, Kept, Lettered
<1>3. QED
  BY <1>1, <1>2

LEMMA InsideKeeps ==
    ASSUME NEW c, Lettered(c)
    PROVE  Keeps(c, InThinking(c))
<1>1. PICK d, b : d = Strip(c) /\ b = d.buf
  OBVIOUS
<1>2. Keeps(c, d) /\ Lettered(d) /\ b \in Seq(Letters) /\ Len(b) \in Nat
  BY <1>1, StripKeeps, LenProperties DEF Keeps, Lettered
<1>3. PICK p, safe : p = EndTag(b) /\ safe = Len(b) - KeptBack
  OBVIOUS
<1>4. CASE p # 0
  <2>1. /\ p \in Nat /\ p - 1 \in Nat /\ p + 3 <= Len(b)
        /\ \A i \in p .. p + 3 : b[i] \in Markup
    BY <1>2, <1>3, <1>4, EndTagIs
  <2>2. PICK s, rest : s = Take(b, p - 1) /\ rest = Drop(b, p + 3)
    OBVIOUS
  <2>3. s \in Seq(Letters) /\ rest \in Seq(Letters) /\ Plain(b) = Plain(s) \o Plain(rest)
    <3>1. PICK m \in Nat, n \in Nat : m = p - 1 /\ n = p + 3
      BY <2>1
    <3>2. m <= n /\ n <= Len(b) /\ \A i \in m + 1 .. n : b[i] \in Markup
      BY <2>1, <3>1
    <3>3. QED
      BY <1>2, <2>2, <3>1, <3>2, CutMarkup
  <2>4. Moves(d, EndThinking(d, s, rest), s, rest)
    BY <1>2, <2>3, EndingMoves
  <2>5. InThinking(c) = EndThinking(d, s, rest)
    <3>1. p + Len(CloseTag) + 1 = p + 3
      BY <2>1, TagsAre
    <3>2. InThinking(c) = EndThinking(d, Take(b, p - 1), Drop(b, p + Len(CloseTag) + 1))
      BY <1>1, <1>3, <1>4 DEF InThinking
    <3>3. QED
      BY <2>2, <3>1, <3>2
  <2>6. PICK e : e = EndThinking(d, s, rest)
    OBVIOUS
  <2>7. Keeps(d, e)
    BY <1>1, <1>2, <2>3, <2>4, <2>6, MovesKeep
  <2>8. QED
    BY <1>2, <2>5, <2>6, <2>7, KeepsOn
<1>5. CASE p = 0 /\ safe <= 0
  <2>1. InThinking(c) = d
    BY <1>1, <1>3, <1>5 DEF InThinking
  <2>2. QED
    BY <1>2, <2>1
<1>6. CASE p = 0 /\ ~(safe <= 0)
  <2>1. safe \in Nat /\ safe <= Len(b)
    BY <1>2, <1>3, <1>6, TagsAre DEF KeptBack
  <2>2. PICK s : s = Take(b, safe)
    OBVIOUS
  <2>3. s \in Seq(Letters)
    BY <1>2, <2>1, <2>2, CutInTwo
  <2>4. PICK e : e = ThinkingDelta(d, s)
    OBVIOUS
  <2>5. Moves(d, e, s, b)
    BY <1>1, <1>2, <2>3, <2>4, ThinkingMoves
  <2>6. PICK f : f = [e EXCEPT !.buf = Drop(@, safe)]
    OBVIOUS
  <2>7. Keeps(d, f)
    BY <1>1, <1>2, <2>1, <2>2, <2>5, <2>6, SendsKeep
  <2>8. InThinking(c) = f
    BY <1>1, <1>3, <1>6, <2>2, <2>4, <2>6 DEF InThinking
  <2>9. QED
    BY <1>2, <2>7, <2>8, KeepsOn
<1>7. QED
  BY <1>4, <1>5, <1>6

LEMMA AfterKeeps ==
    ASSUME NEW k, NEW c, Fit(k, c), Lettered(c)
    PROVE  Keeps(c, AfterThinking(c)) /\ AfterThinking(c).buf = << >>
<1>1. CASE c.buf = << >>
  BY <1>1, KeepsOn DEF AfterThinking
<1>2. CASE c.buf # << >>
  <2>1. PICK b, e : b = c.buf /\ e = TextDelta(c, b)
    OBVIOUS
  <2>2. b \in Seq(Letters)
    BY <2>1 DEF Lettered
  <2>3. Moves(c, e, b, b)
    BY <2>1, <2>2, TextMoves
  <2>4. PICK d : d = [e EXCEPT !.buf = << >>]
    OBVIOUS
  <2>5. Moves(c, d, b, << >>)
    BY <2>1, <2>3, <2>4, MovesAndBuffer, PlainEmpty
  <2>6. Plain(b) \o << >> = Plain(b)
    <3>1. Plain(b) \in Seq(Letters)
      BY <2>2, PlainTypes
    <3>2. QED
      BY <3>1, ConcatEmptySeq
  <2>7. Keeps(c, d)
    BY <2>1, <2>2, <2>5, <2>6, MovesKeep, PlainEmpty
  <2>8. AfterThinking(c) = d
    BY <1>2, <2>1, <2>4 DEF AfterThinking
  <2>9. QED
    BY <2>5, <2>7, <2>8 DEF Moves
<1>3. QED
  BY <1>1, <1>2

\* A text without thinking is not held back.
Unheld(c) == ~thinking => c.buf = << >>

\* process_assistant_response
LEMMA ContentSays ==
    ASSUME NEW k, NEW c, NEW s \in Seq(Letters), Fit(k, c), Still(c), Lettered(c), Unheld(c)
    PROVE  LET d == Content(c, s) IN
           Lettered(d) /\ Kept(d) = Kept(c) \o Plain(s) /\ Unheld(d)
<1>1. PICK t, b : t = Told(c.out) /\ b = c.buf
  OBVIOUS
<1>2. t \in Seq(Letters) /\ b \in Seq(Letters)
  BY <1>1, ToldTypes DEF Lettered
<1>3. PICK x \in Seq(Letters), y \in Seq(Letters), z \in Seq(Letters) :
          x = Plain(t) /\ y = Plain(b) /\ z = Plain(s)
  BY <1>2, PlainTypes
<1>4. Kept(c) = x \o y
  BY <1>1, <1>3 DEF Kept
<1>5. CASE ~thinking
  <2>1. PICK d : d = TextDelta(c, s)
    OBVIOUS
  <2>2. Moves(c, d, s, b) /\ b = << >>
    BY <1>1, <1>5, <2>1, TextMoves DEF Unheld
  <2>3. Plain(t \o s) = x \o z
    BY <1>2, <1>3, PlainConcat
  <2>4. y = << >> /\ x \o << >> = x /\ (x \o z) \o << >> = x \o z
    <3>1. x \o z \in Seq(Letters)
      BY Regroup
    <3>2. QED
      BY <1>3, <2>2, <3>1, PlainEmpty, ConcatEmptySeq
  <2>5. Kept(d) = (x \o z) \o << >>
    BY <1>1, <2>2, <2>3, PlainEmpty DEF Kept, Moves
  <2>6. Kept(d) = Kept(c) \o z
    BY <1>4, <2>4, <2>5
  <2>7. Content(c, s) = d
    BY <1>5, <2>1 DEF Content
  <2>8. QED
    BY <1>3, <1>5, <2>2, <2>6, <2>7 DEF Moves, Unheld
<1>6. CASE thinking
  <2>1. PICK c0 : c0 = [c EXCEPT !.buf = @ \o s]
    OBVIOUS
  <2>2. DOMAIN c0 = Fields /\ SameIndices(c, c0) /\ c0.blocks = c.blocks /\ c0.out = c.out /\ c0.buf = b \o s
    <3>1. DOMAIN c = Fields
      BY DEF Fit, Writes
    <3>2. QED
      BY <1>1, <2>1, <3>1 DEF Fields, SameIndices
  <2>3. Fit(k, c0) /\ Still(c0)
    BY <2>2, FitAlike, StillKept
  <2>4. Plain(b \o s) = y \o z /\ b \o s \in Seq(Letters)
    BY <1>2, <1>3, PlainConcat
  <2>5. Lettered(c0) /\ Kept(c0) = Kept(c) \o z
    <3>1. Regrouped(x, y, z)
      BY Regroup
    <3>2. Kept(c0) = x \o (y \o z)
      BY <1>1, <1>3, <2>2, <2>4 DEF Kept
    <3>3. QED
      BY <1>4, <2>2, <2>4, <3>1, <3>2 DEF Lettered, Regrouped
  <2>6. PICK c1 : c1 = IF c0.inThinking \/ c0.extracted THEN c0 ELSE BeforeThinking(c0)
    OBVIOUS
  <2>7. Fit(k, c1) /\ Still(c1) /\ Keeps(c0, c1)
    <3>1. CASE c0.inThinking \/ c0.extracted
      BY <2>3, <2>5, <2>6, <3>1, KeepsOn
    <3>2. CASE ~(c0.inThinking \/ c0.extracted)
      <4>1. c1 = BeforeThinking(c0)
        BY <2>6, <3>2
      <4>2. Fit(k, c1) /\ Still(c1)
        BY <2>3, <3>2, <4>1, BeforeFits
      <4>3. QED
        BY <2>3, <2>5, <4>1, <4>2, BeforeKeeps
    <3>3. QED
      BY <3>1, <3>2
  <2>8. PICK c2 : c2 = IF c1.inThinking THEN InThinking(c1) ELSE c1
    OBVIOUS
  <2>9. Fit(k, c2) /\ Still(c2) /\ Keeps(c0, c2)
    <3>1. CASE c1.inThinking
      <4>1. c2 = InThinking(c1)
        BY <2>8, <3>1
      <4>2. Fit(k, c2) /\ Still(c2)
        BY <2>7, <3>1, <4>1, InsideFits
      <4>3. Keeps(c1, c2)
        BY <2>7, <4>1, InsideKeeps DEF Keeps
      <4>4. QED
        BY <2>7, <4>2, <4>3, KeepsOn
    <3>2. CASE ~c1.inThinking
      BY <2>7, <2>8, <3>2
    <3>3. QED
      BY <3>1, <3>2
  <2>10. PICK d : d = IF c2.extracted THEN AfterThinking(c2) ELSE c2
    OBVIOUS
  <2>11. Keeps(c0, d)
    <3>1. CASE c2.extracted
      <4>1. d = AfterThinking(c2)
        BY <2>10, <3>1
      <4>2. Keeps(c2, d)
        BY <2>9, <4>1, AfterKeeps DEF Keeps
      <4>3. QED
        BY <2>9, <4>2, KeepsOn
    <3>2. CASE ~c2.extracted
      BY <2>9, <2>10, <3>2
    <3>3. QED
      BY <3>1, <3>2
  <2>12. Content(c, s) = d
    BY <1>6, <2>1, <2>6, <2>8, <2>10 DEF Content
  <2>13. QED
    BY <1>3, <1>6, <2>5, <2>11, <2>12 DEF Keeps, Unheld
<1>7. QED
  BY <1>5, <1>6

\* The end of the thinking where nothing follows it.
LEMMA AtEndKeeps ==
    ASSUME NEW c, Lettered(c), EndTagAtEnd(c.buf) # 0
    PROVE  LET d == EndThinking(c, Take(c.buf, EndTagAtEnd(c.buf) - 1), << >>) IN
           Keeps(c, d) /\ d.buf = << >>
<1>1. PICK b, p : b = c.buf /\ p = EndTagAtEnd(b)
  OBVIOUS
<1>2. b \in Seq(Letters)
  BY <1>1 DEF Lettered
<1>3. /\ p \in Nat /\ p - 1 \in Nat /\ p - 1 <= Len(b) /\ Len(b) \in Nat
      /\ \A i \in p .. Len(b) : b[i] \in Markup
  BY <1>1, <1>2, EndTagAtEndIs
<1>4. PICK s : s = Take(b, p - 1)
  OBVIOUS
<1>5. s \in Seq(Letters) /\ Plain(b) = Plain(s) \o Plain(<< >>)
  <2>1. PICK m \in Nat, n \in Nat : m = p - 1 /\ n = Len(b)
    BY <1>3
  <2>2. m <= n /\ n <= Len(b) /\ \A i \in m + 1 .. n : b[i] \in Markup
    BY <1>3, <2>1
  <2>3. Take(b, m) \in Seq(Letters) /\ Plain(b) = Plain(Take(b, m)) \o Plain(Drop(b, n))
    BY <1>2, <2>2, CutMarkup
  <2>4. Drop(b, n) = << >>
    BY <1>3, <2>1, SubSeqEmpty DEF Drop
  <2>5. QED
    BY <1>4, <2>1, <2>3, <2>4
<1>6. PICK d : d = EndThinking(c, s, << >>)
  OBVIOUS
<1>7. Moves(c, d, s, << >>)
  BY <1>5, <1>6, EndingMoves, PlainEmpty
<1>8. Keeps(c, d)
  BY <1>1, <1>5, <1>7, MovesKeep
<1>9. QED
  BY <1>1, <1>4, <1>6, <1>7, <1>8 DEF Moves

LEMMA FlushedKeeps ==
    ASSUME NEW k, NEW c, Fit(k, c), Lettered(c), Unheld(c)
    PROVE  Keeps(c, Flushed(c)) /\ Unheld(Flushed(c))
<1> DEFINE p == EndTagAtEnd(c.buf)
<1>1. CASE c.inThinking /\ p # 0
  <2>1. Flushed(c) = EndThinking(c, Take(c.buf, p - 1), << >>)
    BY <1>1 DEF Flushed
  <2>2. QED
    BY <1>1, <2>1, AtEndKeeps DEF Unheld
<1>2. CASE ~(c.inThinking /\ p # 0) /\ ~c.inThinking /\ ~c.extracted
  <2>1. Flushed(c) = AfterThinking(c)
    BY <1>2 DEF Flushed
  <2>2. QED
    BY <2>1, AfterKeeps DEF Unheld
<1>3. CASE ~(c.inThinking /\ p # 0) /\ ~(~c.inThinking /\ ~c.extracted)
  <2>1. Flushed(c) = c
    BY <1>3 DEF Flushed
  <2>2. QED
    BY <2>1, KeepsOn
<1>4. QED
  BY <1>1, <1>2, <1>3

\* d differs from c in what is neither told nor held.
LEMMA SameTold ==
    ASSUME NEW c, NEW d, Lettered(c), DOMAIN d = Fields, d.out = c.out, d.buf = c.buf
    PROVE  Silent(c, d)
BY DEF Silent, Lettered

LEMMA ToolBlockSilent ==
    ASSUME NEW k, NEW c, NEW id \in Tools, Fit(k, c), Lettered(c)
    PROVE  Silent(c, ToolBlock(c, id))
<1>1. PICK e : e = StopBlocks(c, OpenBlocks(c, {"text"}))
  OBVIOUS
<1>2. Silent(c, e)
  BY <1>1, OpenSilent
<1>3. CASE e.tool[id] # 0
  BY <1>1, <1>2, <1>3 DEF ToolBlock
<1>4. CASE e.tool[id] = 0
  <2>1. PICK g : g = StartBlock(e, "tool_use")
    OBVIOUS
  <2>2. Silent(e, g)
    BY <1>2, <2>1, StartSilent DEF Silent
  <2>3. PICK d, n : n = Len(e.blocks) + 1 /\ d = [g EXCEPT !.tool[id] = n]
    OBVIOUS
  <2>4. DOMAIN d = Fields /\ d.out = g.out /\ d.buf = g.buf
    BY <2>2, <2>3 DEF Silent, Lettered, Fields
  <2>5. Silent(g, d)
    BY <2>2, <2>4, SameTold DEF Silent
  <2>6. ToolBlock(c, id) = d
    BY <1>1, <1>4, <2>1, <2>3 DEF ToolBlock
  <2>7. QED
    BY <1>2, <2>2, <2>5, <2>6, SilentMoves
<1>5. QED
  BY <1>3, <1>4

\* process_tool_use
LEMMA ToolUseKeeps ==
    ASSUME NEW k, NEW c, NEW id \in Tools, NEW input \in BOOLEAN, NEW stop \in BOOLEAN,
           Fit(k, c), Still(c), Lettered(c), Unheld(c)
    PROVE  LET d == ToolUse(c, id, input, stop) IN Keeps(c, d) /\ Unheld(d)
<1>1. PICK f : f = Flushed(c)
  OBVIOUS
<1>2. Fit(k, f) /\ Keeps(c, f) /\ Unheld(f)
  BY <1>1, FlushedFits, FlushedKeeps
<1>3. PICK g : g = ToolBlock(f, id)
  OBVIOUS
<1>4. Silent(f, g)
  BY <1>2, <1>3, ToolBlockSilent DEF Keeps
<1>5. PICK c1 : c1 = [g EXCEPT !.hasToolUse = TRUE]
  OBVIOUS
<1>6. Silent(g, c1)
  <2>1. DOMAIN g = Fields
    BY <1>4 DEF Silent, Lettered
  <2>2. DOMAIN c1 = Fields /\ c1.out = g.out /\ c1.buf = g.buf
    BY <1>5, <2>1 DEF Fields
  <2>3. QED
    BY <1>4, <2>2, SameTold DEF Silent
<1>7. PICK c2 : c2 = IF input THEN Delta(c1, c1.tool[id], << >>) ELSE c1
  OBVIOUS
<1>8. Silent(c1, c2)
  <2>1. Lettered(c1)
    BY <1>6 DEF Silent
  <2>2. Silent(c1, Delta(c1, c1.tool[id], << >>))
    BY <2>1, DeltaSilent
  <2>3. QED
    BY <1>7, <2>1, <2>2 DEF Silent
<1>9. PICK d : d = IF stop THEN StopBlock(c2, c2.tool[id]) ELSE c2
  OBVIOUS
<1>10. Silent(c2, d)
  <2>1. Lettered(c2)
    BY <1>8 DEF Silent
  <2>2. Silent(c2, StopBlock(c2, c2.tool[id]))
    BY <2>1, StopSilent
  <2>3. QED
    BY <1>9, <2>1, <2>2 DEF Silent
<1>11. Silent(f, d)
  BY <1>4, <1>6, <1>8, <1>10, SilentMoves
<1>12. Keeps(c, d)
  BY <1>2, <1>11, SilentMoves, KeepsOn DEF Keeps
<1>13. ToolUse(c, id, input, stop) = d
  BY <1>1, <1>3, <1>5, <1>7, <1>9 DEF ToolUse
<1>14. QED
  BY <1>2, <1>11, <1>12, <1>13 DEF Silent, Unheld

LEMMA LastKeeps ==
    ASSUME NEW k, NEW c, Fit(k, c), Lettered(c), Unheld(c)
    PROVE  Keeps(c, LastOfBuffer(c)) /\ LastOfBuffer(c).buf = << >>
<1> DEFINE p == EndTagAtEnd(c.buf)
<1>1. CASE c.buf = << >> \/ ~thinking
  BY <1>1, KeepsOn DEF LastOfBuffer, Unheld
<1>2. CASE ~(c.buf = << >> \/ ~thinking) /\ ~c.inThinking
  <2>1. LastOfBuffer(c) = AfterThinking(c)
    BY <1>2 DEF LastOfBuffer
  <2>2. QED
    BY <2>1, AfterKeeps
<1>3. CASE ~(c.buf = << >> \/ ~thinking) /\ c.inThinking /\ p # 0
  <2>1. LastOfBuffer(c) = EndThinking(c, Take(c.buf, p - 1), << >>)
    BY <1>3 DEF LastOfBuffer
  <2>2. QED
    BY <1>3, <2>1, AtEndKeeps
<1>4. CASE ~(c.buf = << >> \/ ~thinking) /\ c.inThinking /\ p = 0
  <2>1. PICK b, e : b = c.buf /\ e = CloseThinking(c, b)
    OBVIOUS
  <2>2. b \in Seq(Letters)
    BY <2>1 DEF Lettered
  <2>3. Moves(c, e, b, b)
    BY <2>1, <2>2, ClosingMoves
  <2>4. PICK d : d = [e EXCEPT !.buf = << >>]
    OBVIOUS
  <2>5. Moves(c, d, b, << >>)
    BY <2>1, <2>3, <2>4, MovesAndBuffer, PlainEmpty
  <2>6. Plain(b) \o << >> = Plain(b)
    <3>1. Plain(b) \in Seq(Letters)
      BY <2>2, PlainTypes
    <3>2. QED
      BY <3>1, ConcatEmptySeq
  <2>7. Keeps(c, d)
    BY <2>1, <2>2, <2>5, <2>6, MovesKeep, PlainEmpty
  <2>8. LastOfBuffer(c) = d
    BY <1>4, <2>1, <2>4 DEF LastOfBuffer
  <2>9. QED
    BY <2>5, <2>7, <2>8 DEF Moves
<1>5. QED
  BY <1>1, <1>2, <1>3, <1>4

\* generate_final_events
LEMMA FinalKeeps ==
    ASSUME NEW k, NEW c, Fit(k, c), Still(c), Lettered(c), Unheld(c)
    PROVE  Keeps(c, Final(c)) /\ Final(c).buf = << >>
<1>1. PICK c1 : c1 = LastOfBuffer(c)
  OBVIOUS
<1>2. Fit(k, c1) /\ Keeps(c, c1) /\ c1.buf = << >>
  BY <1>1, LastFits, LastKeeps
<1>3. PICK c2 : c2 = IF OnlyThinking(c1)
                     THEN TextDelta([c1 EXCEPT !.reason = "max_tokens"], <<NL>>) ELSE c1
  OBVIOUS
<1>4. Fit(k, c2) /\ Keeps(c1, c2) /\ c2.buf = << >>
  <2>1. CASE OnlyThinking(c1)
    <3>1. PICK e : e = [c1 EXCEPT !.reason = "max_tokens"]
      OBVIOUS
    <3>2. /\ DOMAIN e = Fields /\ SameIndices(c1, e) /\ e.blocks = c1.blocks
          /\ e.out = c1.out /\ e.buf = c1.buf
      <4>1. DOMAIN c1 = Fields
        BY <1>2 DEF Fit, Writes
      <4>2. QED
        BY <3>1, <4>1 DEF Fields, SameIndices
    <3>3. Fit(k, e)
      BY <1>2, <3>2, FitAlike
    <3>4. Silent(c1, e)
      BY <1>2, <3>2, SameTold DEF Keeps
    <3>5. PICK s : s = <<NL>>
      OBVIOUS
    <3>6. s \in Seq(Letters) /\ Plain(s) = << >>
      BY <3>5, TagsAre
    <3>7. c2 = TextDelta(e, s)
      BY <1>3, <2>1, <3>1, <3>5
    <3>8. Fit(k, c2)
      BY <3>3, <3>7, TextFits
    <3>9. Moves(e, c2, s, e.buf)
      BY <3>3, <3>4, <3>6, <3>7, TextMoves DEF Silent
    <3>10. Keeps(e, c2)
      <4>1. Plain(e.buf) = Plain(s) \o Plain(e.buf)
        <5>1. e.buf = << >> /\ Plain(<< >>) = << >> /\ << >> \in Seq(Letters)
          BY <1>2, <3>2, PlainEmpty
        <5>2. << >> \o << >> = << >>
          BY <5>1, ConcatEmptySeq
        <5>3. QED
          BY <3>6, <5>1, <5>2
      <4>2. QED
        BY <3>4, <3>6, <3>9, <4>1, MovesKeep DEF Silent
    <3>11. QED
      BY <1>2, <3>2, <3>4, <3>8, <3>9, <3>10, SilentMoves, KeepsOn DEF Moves, Keeps
  <2>2. CASE ~OnlyThinking(c1)
    BY <1>2, <1>3, <2>2, KeepsOn DEF Keeps
  <2>3. QED
    BY <2>1, <2>2
<1>5. PICK c3 : c3 = StopBlocks(c2, OpenBlocks(c2, Client!Types))
  OBVIOUS
<1>6. Silent(c2, c3)
  BY <1>4, <1>5, OpenSilent DEF Keeps
<1>7. PICK v : v = Ev("message_delta", 0, StopReason(c3), << >>)
  OBVIOUS
<1>8. PICK w : w = Ev("message_stop", 0, "none", << >>)
  OBVIOUS
<1>9. Words(v) = << >> /\ Words(w) = << >>
  BY <1>7, <1>8 DEF Words, Ev
<1>10. PICK e : e = Emit(c3, v)
  OBVIOUS
<1>11. Silent(c3, e)
  BY <1>6, <1>9, <1>10, EmitSilent DEF Silent
<1>12. PICK d : d = Emit(e, w)
  OBVIOUS
<1>13. Silent(e, d)
  BY <1>9, <1>11, <1>12, EmitSilent DEF Silent
<1>14. Silent(c2, d)
  BY <1>6, <1>11, <1>13, SilentMoves
<1>15. Keeps(c, d) /\ d.buf = << >>
  BY <1>2, <1>4, <1>14, SilentMoves, KeepsOn DEF Keeps, Silent
<1>16. Final(c) = d
  BY <1>1, <1>3, <1>5, <1>7, <1>8, <1>10, <1>12 DEF Final
<1>17. QED
  BY <1>15, <1>16

-----------------------------------------------------------------------------
(* What the answer to a search tells.                                         *)

LEMMA LesserOf ==
    ASSUME NEW a \in Nat, NEW b \in Nat
    PROVE  Min({a, b}) = IF a <= b THEN a ELSE b
<1> DEFINE m == IF a <= b THEN a ELSE b
<1>1. m \in {a, b} /\ (\A y \in {a, b} : m <= y) /\ m \in Nat
  OBVIOUS
<1>2. ASSUME NEW x \in {a, b}, \A y \in {a, b} : x <= y
      PROVE  x = m
  <2>1. x <= m /\ m <= x /\ x \in Nat
    BY <1>1, <1>2
  <2> HIDE DEF m
  <2>2. QED
    BY <1>1, <2>1
<1> HIDE DEF m
<1>3. Min({a, b}) = m
  BY <1>1, <1>2 DEF Min
<1>4. QED
  BY <1>3 DEF m

\* The pieces of at most C, up to the L-th character: the first k end at Ends(k).
LEMMA PiecesEnd ==
    ASSUME NEW L \in Nat, NEW C \in Nat \ {0}
    PROVE  LET N == (L + C - 1) \div C IN
           /\ N \in Nat /\ N * C >= L
           /\ \A k \in 0 .. N - 1 : k * C \in Nat /\ k * C < L /\ (k + 1 - 1) * C = k * C
           /\ \A k \in 0 .. N : k * C \in Nat
<1> DEFINE A == L + C - 1
<1>1. PICK N : N = A \div C
  OBVIOUS
<1>2. A \in Nat
  OBVIOUS
<1>3. N \in Nat /\ N * C <= A /\ A < N * C + C
  <2> HIDE DEF A
  <2>1. A \div C \in Nat
    BY <1>2
  <2>2. A = C * (A \div C) + (A % C) /\ A % C \in 0 .. C - 1
    BY <1>2
  <2>3. QED
    BY <1>1, <1>2, <2>1, <2>2
<1>4. N * C >= L
  BY <1>3
<1>5. ASSUME NEW k \in 0 .. N - 1
      PROVE  k * C \in Nat /\ k * C < L /\ (k + 1 - 1) * C = k * C
  <2>1. k \in Nat /\ N - 1 - k \in Nat /\ k + 1 - 1 = k
    BY <1>3
  <2>2. PICK j \in Nat : j = N - 1 - k
    BY <2>1
  <2>3. j * C >= 0 /\ k * C \in Nat
    BY <2>1
  <2>4. N = k + j + 1
    BY <1>3, <2>1, <2>2
  <2>5. N * C = k * C + j * C + C
    BY <2>1, <2>4
  <2>6. k * C <= N * C - C
    BY <1>3, <2>1, <2>3, <2>5
  <2>7. k * C < L
    BY <1>3, <2>3, <2>6
  <2>8. QED
    BY <2>1, <2>3, <2>7
<1>6. \A k \in 0 .. N : k * C \in Nat
  BY <1>3
<1>7. QED
  BY <1>1, <1>3, <1>4, <1>5, <1>6

EndOf(k, L) == IF k * SummaryChunk <= L THEN k * SummaryChunk ELSE L

\* The pieces joined are the text.
LEMMA ChunksTell ==
    ASSUME NEW t \in Seq(Letters), NEW i, NEW ty
    PROVE  LET q == [k \in DOMAIN Chunks(t) |-> Ev("delta", i, ty, Chunks(t)[k])] IN
           Texted(q) /\ Told(q) = t
<1>1. PICK L \in Nat : L = Len(t)
  BY LenProperties
<1>2. PICK C \in Nat \ {0} : C = SummaryChunk
  BY BoundAssumption
<1>3. PICK N : N = (L + C - 1) \div C
  OBVIOUS
<1>4. /\ N \in Nat /\ N * C >= L
      /\ \A k \in 0 .. N - 1 : k * C \in Nat /\ k * C < L /\ (k + 1 - 1) * C = k * C
      /\ \A k \in 0 .. N : k * C \in Nat
  BY <1>3, PiecesEnd
<1>5. PICK p : p = Chunks(t)
  OBVIOUS
<1>6. DOMAIN p = 1 .. N /\ \A k \in 1 .. N : p[k] = SubSeq(t, (k - 1) * C + 1, Min({k * C, L}))
  BY <1>1, <1>2, <1>3, <1>5 DEF Chunks
<1>7. \A k \in 0 .. N : EndOf(k, L) \in 0 .. L /\ (k # N => EndOf(k, L) = k * C)
  <2> TAKE k \in 0 .. N
  <2>1. k * C \in Nat /\ (k # N => k \in 0 .. N - 1)
    BY <1>4
  <2>2. k # N => k * C < L
    BY <1>4, <2>1
  <2>3. QED
    BY <1>2, <2>1, <2>2 DEF EndOf
<1>8. \A k \in 1 .. N : p[k] = SubSeq(t, EndOf(k - 1, L) + 1, EndOf(k, L))
  <2> TAKE k \in 1 .. N
  <2>1. k \in 0 .. N /\ k - 1 \in 0 .. N /\ k - 1 # N /\ k * C \in Nat
    BY <1>4
  <2>2. Min({k * C, L}) = EndOf(k, L)
    BY <1>2, <2>1, LesserOf DEF EndOf
  <2>3. EndOf(k - 1, L) = (k - 1) * C
    BY <1>7, <2>1
  <2>4. QED
    BY <1>6, <2>2, <2>3
<1>9. EndOf(0, L) = 0 /\ EndOf(N, L) = L
  BY <1>2, <1>4 DEF EndOf
<1>10. PICK q : q = [k \in 1 .. N |-> Ev("delta", i, ty, p[k])]
  OBVIOUS
<1>11. IsSeq(q) /\ Len(q) = N /\ \A k \in 1 .. N : Words(q[k]) = p[k]
  <2>0. PICK S : S = {q[k] : k \in DOMAIN q}
    OBVIOUS
  <2>1. q \in [1 .. N -> S] /\ DOMAIN q = 1 .. N
    BY <1>10, <2>0
  <2>2. q \in Seq(S)
    BY <1>4, <2>1, SeqDef
  <2>3. Len(q) = N
    BY <1>4, <2>1, <2>2, LenProperties
  <2>4. \A k \in 1 .. N : Words(q[k]) = p[k]
    BY <1>10, EventWords
  <2>5. QED
    BY <2>0, <2>2, <2>3, <2>4 DEF IsSeq
<1>12. \A k \in 1 .. N : p[k] \in Seq(Letters)
  <2> TAKE k \in 1 .. N
  <2>1. PICK a \in Int, b \in Int : a = EndOf(k - 1, L) + 1 /\ b = EndOf(k, L) /\ a >= 1 /\ b <= L
    <3>1. k \in 0 .. N /\ k - 1 \in 0 .. N
      BY <1>4
    <3>2. EndOf(k - 1, L) \in 0 .. L /\ EndOf(k, L) \in 0 .. L
      BY <1>7, <3>1
    <3>3. QED
      BY <3>2
  <2>2. \A j \in a .. b : t[j] \in Letters
    BY <1>1, <2>1, ElementOfSeq
  <2>3. SubSeq(t, a, b) \in Seq(Letters)
    BY <2>2, SubSeqProperties
  <2>4. QED
    BY <1>8, <2>1, <2>3
<1>13. Texted(q)
  BY <1>11, <1>12 DEF Texted
<1>14. PICK g \in [0 .. N -> Seq(Letters)] : Tells(g, q) /\ Told(q) = g[N]
  BY <1>11, <1>13, ToldIs DEF ToldBy
<1> DEFINE U == {k \in 0 .. N : g[k] = SubSeq(t, 1, EndOf(k, L))}
<1>15. 0 \in U
  <2>1. SubSeq(t, 1, 0) = << >>
    BY SubSeqEmpty
  <2>2. g[0] = << >> /\ 0 \in 0 .. N
    BY <1>4, <1>14 DEF Tells
  <2>3. QED
    BY <1>9, <2>1, <2>2
<1>16. ASSUME NEW k \in 0 .. N - 1, k \in U
       PROVE  k + 1 \in U
  <2>1. k + 1 \in 1 .. N /\ k + 1 \in 0 .. N /\ k + 1 - 1 = k /\ k \in 0 .. N /\ k # N
    BY <1>4
  <2>2. g[k + 1] = Adds(g[k], q[k + 1])
    BY <1>11, <1>14, <2>1 DEF Tells
  <2>3. PICK a \in 0 .. L, b \in 0 .. L : a = EndOf(k, L) /\ b = EndOf(k + 1, L)
    BY <1>7, <2>1
  <2>4. a <= b
    <3>1. a = k * C
      BY <1>7, <2>1, <2>3
    <3>2. (k + 1) * C = k * C + C /\ k * C \in Nat /\ (k + 1) * C \in Nat
      BY <1>4, <2>1
    <3>3. QED
      BY <1>2, <2>3, <3>1, <3>2 DEF EndOf
  <2>5. g[k] = SubSeq(t, 1, a)
    BY <1>16, <2>3
  <2>6. Words(q[k + 1]) = SubSeq(t, a + 1, b)
    <3>1. Words(q[k + 1]) = p[k + 1]
      BY <1>11, <2>1
    <3>2. p[k + 1] = SubSeq(t, EndOf(k + 1 - 1, L) + 1, EndOf(k + 1, L))
      BY <1>8, <2>1
    <3>3. EndOf(k + 1 - 1, L) = EndOf(k, L)
      BY <2>1
    <3>4. QED
      BY <2>3, <3>1, <3>2, <3>3
  <2>7. SubSeq(t, 1, a) \o SubSeq(t, a + 1, b) = SubSeq(t, 1, b)
    <3>1. 1 \in 1 .. Len(t) + 1 /\ a \in 1 - 1 .. Len(t) /\ b \in a .. Len(t)
      BY <1>1, <2>4
    <3>2. QED
      BY <3>1, ConcatAdjacentSubSeq
  <2>8. g[k + 1] = SubSeq(t, 1, b)
    BY <2>2, <2>5, <2>6, <2>7 DEF Adds
  <2>9. QED
    BY <2>1, <2>3, <2>8
<1> HIDE DEF U
<1>17. \A k \in 0 .. N : k \in U
  BY <1>4, <1>15, <1>16, InductionUpTo
<1>18. Told(q) = t
  <2>1. N \in 0 .. N
    BY <1>4
  <2>2. g[N] = SubSeq(t, 1, L)
    BY <1>9, <1>17, <2>1 DEF U
  <2>3. SubSeq(t, 1, L) = t
    BY <1>1, SubSeqFull
  <2>4. QED
    BY <1>14, <2>2, <2>3
<1>19. q = [k \in DOMAIN Chunks(t) |-> Ev("delta", i, ty, Chunks(t)[k])]
  BY <1>5, <1>6, <1>10
<1>20. QED
  BY <1>13, <1>18, <1>19

DeltasOf(i, ty, deltas) == [k \in DOMAIN deltas |-> Ev("delta", i, ty, deltas[k])]

\* The start and the end of a block tell nothing.
LEMMA BlockTells ==
    ASSUME NEW i, NEW ty, NEW deltas, NEW s \in Seq(Letters),
           Texted(DeltasOf(i, ty, deltas)), Told(DeltasOf(i, ty, deltas)) = s
    PROVE  Texted(SearchBlock(i, ty, deltas)) /\ Told(SearchBlock(i, ty, deltas)) = s
<1>1. PICK v : v = Ev("block_start", i, ty, << >>)
  OBVIOUS
<1>2. PICK w : w = Ev("block_stop", i, ty, << >>)
  OBVIOUS
<1>3. Words(v) = << >> /\ Words(w) = << >>
  BY <1>1, <1>2 DEF Words, Ev
<1>4. PICK a, q, b : a = << v >> /\ q = DeltasOf(i, ty, deltas) /\ b = << w >>
  OBVIOUS
<1>5. Texted(a) /\ Told(a) = << >> /\ Texted(b) /\ Told(b) = << >>
  BY <1>3, <1>4, ToldOnce, PlainEmpty
<1>6. PICK aq : aq = a \o q
  OBVIOUS
<1>7. Texted(aq) /\ Told(aq) = << >> \o s
  BY <1>4, <1>5, <1>6, ToldConcat
<1>8. Texted(aq \o b) /\ Told(aq \o b) = (<< >> \o s) \o << >>
  BY <1>5, <1>7, ToldConcat
<1>9. << >> \o s = s /\ s \o << >> = s
  BY ConcatEmptySeq
<1>10. SearchBlock(i, ty, deltas) = aq \o b
  BY <1>1, <1>2, <1>4, <1>6 DEF SearchBlock, DeltasOf
<1>11. QED
  BY <1>8, <1>9, <1>10

\* What tells nothing can be added without harm.
LEMMA ConcatSilent ==
    ASSUME NEW a, NEW b, Texted(a), Texted(b), Told(b) = << >>
    PROVE  Texted(a \o b) /\ Told(a \o b) = Told(a)
<1>1. PICK s : s = Told(a)
  OBVIOUS
<1>2. s \in Seq(Letters) /\ Told(a \o b) = s \o << >> /\ Texted(a \o b)
  BY <1>1, ToldTypes, ToldConcat
<1>3. s \o << >> = s
  BY <1>2, ConcatEmptySeq
<1>4. QED
  BY <1>1, <1>2, <1>3

LEMMA NoDeltas ==
    ASSUME NEW i, NEW ty
    PROVE  Texted(DeltasOf(i, ty, << >>)) /\ Told(DeltasOf(i, ty, << >>)) = << >>
<1>1. DeltasOf(i, ty, << >>) = << >>
  BY DEF DeltasOf
<1>2. QED
  BY <1>1, ToldNothing

LEMMA OneDelta ==
    ASSUME NEW i, NEW ty, NEW s \in Seq(Letters)
    PROVE  Texted(DeltasOf(i, ty, << s >>)) /\ Told(DeltasOf(i, ty, << s >>)) = s
<1>1. PICK e : e = Ev("delta", i, ty, s)
  OBVIOUS
<1>2. PICK d : d = << s >>
  OBVIOUS
<1>3. DOMAIN d = 1 .. 1 /\ d[1] = s
  BY <1>2
<1>4. DeltasOf(i, ty, d) = << e >>
  <2>1. DeltasOf(i, ty, d) = [k \in 1 .. 1 |-> e]
    BY <1>1, <1>3 DEF DeltasOf
  <2>2. << e >> = [k \in 1 .. 1 |-> e]
    OBVIOUS
  <2>3. QED
    BY <2>1, <2>2
<1>5. Words(e) = s
  BY <1>1, EventWords
<1>6. QED
  BY <1>2, <1>4, <1>5, ToldOnce

\* generate_websearch_events: the results, in order and once.
LEMMA SearchTells ==
    ASSUME NEW s \in Seq(Letters), s # << >>
    PROVE  Texted(generate_websearch_events(s)) /\ Told(generate_websearch_events(s)) = s
<1>1. PICK v, w, x : /\ v = Ev("message_start", 0, "none", << >>)
                     /\ w = Ev("message_delta", 0, "end_turn", << >>)
                     /\ x = Ev("message_stop", 0, "none", << >>)
  OBVIOUS
<1>2. Words(v) = << >> /\ Words(w) = << >> /\ Words(x) = << >>
  BY <1>1 DEF Words, Ev
<1>3. PICK h, t : h = Take(s, 1) /\ t = Drop(s, 1)
  OBVIOUS
<1>4. h \in Seq(Letters) /\ t \in Seq(Letters) /\ s = h \o t
  <2>1. Len(s) \in Nat /\ 1 <= Len(s)
    BY LenProperties, EmptySeq
  <2>2. h \in Seq(Letters) /\ t \in Seq(Letters)
    BY <1>3, <2>1, CutInTwo
  <2>3. 1 \in 1 .. Len(s) + 1 /\ 1 \in 1 - 1 .. Len(s) /\ Len(s) \in 1 .. Len(s)
    BY <2>1
  <2>4. SubSeq(s, 1, 1) \o SubSeq(s, 1 + 1, Len(s)) = SubSeq(s, 1, Len(s))
    BY <2>3, ConcatAdjacentSubSeq
  <2>5. QED
    BY <1>3, <2>2, <2>4, SubSeqFull DEF Take, Drop
<1>5. PICK e0 : e0 = << v >>
  OBVIOUS
<1>6. PICK e1 : e1 = SearchBlock(1, "text", << h >>)
  OBVIOUS
<1>7. PICK e2 : e2 = SearchBlock(2, "server_tool_use", << >>)
  OBVIOUS
<1>8. PICK e3 : e3 = SearchBlock(3, "web_search_tool_result", << >>)
  OBVIOUS
<1>9. PICK e4 : e4 = SearchBlock(4, "text", Chunks(t))
  OBVIOUS
<1>10. PICK e5 : e5 = << w, x >>
  OBVIOUS
<1>11. Texted(e0) /\ Told(e0) = << >>
  BY <1>2, <1>5, ToldOnce, PlainEmpty
<1>12. Texted(e1) /\ Told(e1) = h
  <2>1. PICK d : d = << h >>
    OBVIOUS
  <2>2. Texted(DeltasOf(1, "text", d)) /\ Told(DeltasOf(1, "text", d)) = h
    BY <1>4, <2>1, OneDelta
  <2>3. QED
    BY <1>4, <1>6, <2>1, <2>2, BlockTells
<1>13. Texted(e2) /\ Told(e2) = << >> /\ Texted(e3) /\ Told(e3) = << >>
  <2>1. PICK d : d = << >>
    OBVIOUS
  <2>2. d \in Seq(Letters)
    BY <2>1, PlainEmpty
  <2>3. \A i, ty : Texted(DeltasOf(i, ty, d)) /\ Told(DeltasOf(i, ty, d)) = d
    BY <2>1, NoDeltas
  <2>4. \A i, ty : Texted(SearchBlock(i, ty, d)) /\ Told(SearchBlock(i, ty, d)) = d
    BY <2>2, <2>3, BlockTells
  <2>5. QED
    BY <1>7, <1>8, <2>1, <2>4
<1>14. Texted(e4) /\ Told(e4) = t
  <2>1. PICK d : d = Chunks(t)
    OBVIOUS
  <2>2. Texted(DeltasOf(4, "text", d)) /\ Told(DeltasOf(4, "text", d)) = t
    BY <1>4, <2>1, ChunksTell DEF DeltasOf
  <2>3. QED
    BY <1>4, <1>9, <2>1, <2>2, BlockTells
<1>15. Texted(e5) /\ Told(e5) = << >>
  <2>1. IsSeq(e5) /\ Len(e5) = 2 /\ e5[1] = w /\ e5[2] = x
    <3>1. e5 \in Seq({w, x}) /\ Len(e5) = 2 /\ e5[1] = w /\ e5[2] = x
      BY <1>10
    <3>2. QED
      BY <3>1, SeqIsSeq
  <2>2. \A i \in 1 .. 2 : i = 1 \/ i = 2
    OBVIOUS
  <2>3. \A i \in 1 .. Len(e5) : Words(e5[i]) = << >>
    BY <1>2, <2>1, <2>2
  <2>4. QED
    BY <2>1, <2>3, ToldSilent
<1>16. PICK a1 : a1 = e0 \o e1
  OBVIOUS
<1>17. PICK a2 : a2 = a1 \o e2
  OBVIOUS
<1>18. PICK a3 : a3 = a2 \o e3
  OBVIOUS
<1>19. PICK a4 : a4 = a3 \o e4
  OBVIOUS
<1>20. PICK a5 : a5 = a4 \o e5
  OBVIOUS
<1>21. << >> \o h = h
  BY <1>4, ConcatEmptySeq
<1>22. Texted(a1) /\ Told(a1) = h
  BY <1>11, <1>12, <1>16, <1>21, ToldConcat
<1>23. Texted(a2) /\ Told(a2) = h
  BY <1>13, <1>17, <1>22, ConcatSilent
<1>24. Texted(a3) /\ Told(a3) = h
  BY <1>13, <1>18, <1>23, ConcatSilent
<1>25. Texted(a4) /\ Told(a4) = s
  BY <1>4, <1>14, <1>19, <1>24, ToldConcat
<1>26. Texted(a5) /\ Told(a5) = s
  BY <1>15, <1>20, <1>25, ConcatSilent
<1>27. generate_websearch_events(s) = a5
  BY <1>1, <1>3, <1>5, <1>6, <1>7, <1>8, <1>9, <1>10, <1>16, <1>17, <1>18, <1>19, <1>20
     DEF generate_websearch_events
<1>28. QED
  BY <1>26, <1>27

-----------------------------------------------------------------------------
(* What was sent, what is told and what is held make up what arrived.         *)

LettersOf(l) == [i \in DOMAIN l |-> l[i].ch]
Said(l) == IsSeq(l) /\ LettersOf(l) \in Seq(Letters)
SentAndKept(l, c) == Plain(LettersOf(l)) \o Kept(c)

TextInv ==
    /\ Lettered(ctx) /\ Unheld(ctx) /\ Said(shown)
    /\ ended => ctx.buf = << >>
    /\ ~ended /\ searching => pos = 0 /\ shown = << >>
    /\ SentAndKept(shown, ctx) = Plain(Arrived)

LEMMA KeptTypes ==
    ASSUME NEW c, Lettered(c)
    PROVE  Kept(c) \in Seq(Letters)
<1>1. Told(c.out) \in Seq(Letters) /\ c.buf \in Seq(Letters)
  BY ToldTypes DEF Lettered
<1>2. PICK x \in Seq(Letters), y \in Seq(Letters) : x = Plain(Told(c.out)) /\ y = Plain(c.buf)
  BY <1>1, PlainTypes
<1>3. QED
  BY <1>2, Regroup DEF Kept

LEMMA TextLetters ==
    ASSUME Typed
    PROVE  text \in Seq(Letters) /\ Len(text) \in Nat /\ pos \in 0 .. Len(text)
<1>1. text \in Seq(STRING) /\ Len(text) \in Nat
  BY TextLength
<1>2. STRING \subseteq Letters
  BY DEF Letters
<1>3. text \in Seq(Letters)
  BY <1>1, <1>2, SeqMonotonic
<1>4. QED
  BY <1>1, <1>3 DEF Typed

LEMMA SaidNothing == Said(<< >>) /\ Plain(LettersOf(<< >>)) = << >>
<1>1. LettersOf(<< >>) = << >>
  BY DEF LettersOf
<1>2. QED
  BY <1>1, IsSeqSmall, PlainEmpty DEF Said

\* The characters of a delta join what was sent.
LEMMA SaysMore ==
    ASSUME NEW l, Said(l), NEW e, e.text \in Seq(Letters)
    PROVE  Said(l \o Chars(e)) /\ LettersOf(l \o Chars(e)) = LettersOf(l) \o e.text
<1>1. PICK w : w = e.text
  OBVIOUS
<1>2. PICK n \in Nat : n = Len(w) /\ DOMAIN w = 1 .. n
  BY <1>1, LenProperties
<1>3. PICK q : q = Chars(e)
  OBVIOUS
<1>4. DOMAIN q = 1 .. n /\ \A i \in 1 .. n : q[i].ch = w[i]
  BY <1>1, <1>2, <1>3 DEF Chars
<1>5. IsSeq(q) /\ Len(q) = n
  <2>1. PICK S : S = {q[i] : i \in DOMAIN q}
    OBVIOUS
  <2>2. q \in [1 .. n -> S]
    <3>1. q = [i \in 1 .. n |-> q[i]]
      BY <1>1, <1>2, <1>3 DEF Chars
    <3>2. QED
      BY <1>4, <2>1, <3>1
  <2>3. q \in Seq(S)
    BY <2>2, SeqDef
  <2>4. Len(q) = n
    BY <1>4, <2>3, LenProperties
  <2>5. QED
    BY <2>1, <2>3, <2>4 DEF IsSeq
<1>6. IsSeq(l)
  BY DEF Said
<1>7. PICK m \in Nat : m = Len(l)
  BY <1>6, IsSeqLen
<1>8. DOMAIN l = 1 .. m
  BY <1>6, <1>7, LenProperties DEF IsSeq
<1>9. PICK o : o = l \o q
  OBVIOUS
<1>10. /\ IsSeq(o) /\ Len(o) = m + n
       /\ \A i \in 1 .. m : o[i] = l[i]
       /\ \A i \in 1 .. n : o[m + i] = q[i]
  <2>1. /\ IsSeq(l \o q) /\ Len(l \o q) = Len(l) + Len(q)
        /\ \A i \in 1 .. Len(l) : (l \o q)[i] = l[i]
        /\ \A i \in 1 .. Len(q) : (l \o q)[Len(l) + i] = q[i]
    BY <1>5, <1>6, IsSeqConcat
  <2>2. QED
    BY <1>5, <1>7, <1>9, <2>1
<1>11. DOMAIN o = 1 .. m + n
  BY <1>10, LenProperties DEF IsSeq
<1>12. PICK x : x = LettersOf(l)
  OBVIOUS
<1>13. x \in Seq(Letters) /\ Len(x) = m /\ \A i \in 1 .. m : x[i] = l[i].ch
  <2>1. x \in Seq(Letters) /\ DOMAIN x = 1 .. m /\ \A i \in 1 .. m : x[i] = l[i].ch
    BY <1>8, <1>12 DEF LettersOf, Said
  <2>2. QED
    BY <2>1, LenProperties
<1>14. PICK z : z = x \o w
  OBVIOUS
<1>15. /\ z \in Seq(Letters) /\ DOMAIN z = 1 .. m + n
       /\ \A i \in 1 .. m + n : z[i] = IF i <= m THEN x[i] ELSE w[i - m]
  <2>1. w \in Seq(Letters)
    BY <1>1
  <2>2. z \in Seq(Letters) /\ Len(z) = m + n
    BY <1>2, <1>13, <1>14, <2>1, ConcatProperties
  <2>3. \A i \in 1 .. m + n : z[i] = IF i <= m THEN x[i] ELSE w[i - m]
    BY <1>2, <1>13, <1>14, <2>1, ConcatProperties
  <2>4. QED
    BY <2>2, <2>3, LenProperties
<1>16. ASSUME NEW i \in 1 .. m + n
       PROVE  o[i].ch = z[i]
  <2>1. CASE i <= m
    <3>1. i \in 1 .. m
      BY <2>1
    <3>2. QED
      BY <1>10, <1>13, <1>15, <2>1, <3>1
  <2>2. CASE ~(i <= m)
    <3>1. PICK j \in 1 .. n : i = m + j /\ i - m = j
      <4>1. i - m \in 1 .. n /\ i = m + (i - m)
        BY <2>2
      <4>2. QED
        BY <4>1
    <3>2. o[i] = q[j] /\ z[i] = w[j]
      BY <1>10, <1>15, <2>2, <3>1
    <3>3. QED
      BY <1>4, <3>2
  <2>3. QED
    BY <2>1, <2>2
<1>17. LettersOf(o) = z
  <2>1. LettersOf(o) = [i \in 1 .. m + n |-> z[i]]
    BY <1>11, <1>16 DEF LettersOf
  <2>2. z = [i \in 1 .. m + n |-> z[i]]
    BY <1>15
  <2>3. QED
    BY <2>1, <2>2
<1>18. QED
  BY <1>1, <1>3, <1>9, <1>10, <1>12, <1>14, <1>15, <1>17 DEF Said

-----------------------------------------------------------------------------
(* The invariant of the text.                                                 *)

\* A step that reads an event and adds s to what arrived.
LEMMA ReadsText ==
    ASSUME TextInv, NEW s \in Seq(Letters), NEW d, ctx' = d, Lettered(d), Unheld(d),
           Kept(d) = Kept(ctx) \o Plain(s),
           Plain(Arrived') = Plain(Arrived) \o Plain(s),
           UNCHANGED <<thinking, searching, ended, shown>>, ~ended, ~searching
    PROVE  TextInv'
<1>1. PICK x \in Seq(Letters), y \in Seq(Letters), z \in Seq(Letters) :
         x = Plain(LettersOf(shown)) /\ y = Kept(ctx) /\ z = Plain(s)
  <2>1. LettersOf(shown) \in Seq(Letters) /\ Lettered(ctx)
    BY DEF TextInv, Said
  <2>2. QED
    BY <2>1, PlainTypes, KeptTypes
<1>2. Regrouped(x, y, z)
  BY Regroup
<1>3. Plain(Arrived) = x \o y
  BY <1>1 DEF TextInv, SentAndKept
<1>4. SentAndKept(shown, d) = x \o (y \o z)
  BY <1>1 DEF SentAndKept
<1>5. SentAndKept(shown, d) = Plain(Arrived')
  BY <1>1, <1>2, <1>3, <1>4 DEF Regrouped
<1>6. Lettered(ctx') /\ Unheld(ctx)' /\ Said(shown') /\ SentAndKept(shown', ctx') = Plain(Arrived')
  BY <1>5 DEF TextInv, Unheld
<1>7. ~ended' /\ ~searching'
  OBVIOUS
<1>8. QED
  BY <1>6, <1>7 DEF TextInv

\* A step that reads an event without a text.
LEMMA ReadsNothing ==
    ASSUME TextInv, NEW d, ctx' = d, Keeps(ctx, d), Unheld(d),
           UNCHANGED <<thinking, searching, ended, shown, text, pos>>, ~ended, ~searching
    PROVE  TextInv'
<1>1. SentAndKept(shown, d) = Plain(Arrived)
  BY DEF TextInv, SentAndKept, Keeps
<1>2. Arrived' = Arrived
  BY DEF Arrived
<1>3. Lettered(ctx') /\ Unheld(ctx)' /\ Said(shown') /\ SentAndKept(shown', ctx') = Plain(Arrived')
  BY <1>1, <1>2 DEF TextInv, Unheld, Keeps
<1>4. ~ended' /\ ~searching'
  OBVIOUS
<1>5. QED
  BY <1>3, <1>4 DEF TextInv

LEMMA AssistantSays ==
    ASSUME StreamInv, TextInv, Assistant
    PROVE  TextInv'
<1>1. Typed /\ Fit(client, ctx) /\ Still(ctx) /\ Lettered(ctx) /\ Unheld(ctx)
  BY DEF StreamInv, Underway, Assistant, Reading, TextInv
<1>2. text \in Seq(Letters) /\ Len(text) \in Nat /\ pos \in 0 .. Len(text)
  BY <1>1, TextLetters
<1>3. PICK n \in 1 .. (Len(text) - pos) :
         ctx' = Content(ctx, SubSeq(text, pos + 1, pos + n)) /\ pos' = pos + n
  BY DEF Assistant
<1>4. PICK s : s = SubSeq(text, pos + 1, pos + n)
  OBVIOUS
<1>5. s \in Seq(Letters)
  <2>1. pos + 1 \in Int /\ pos + n \in Int /\ \A i \in pos + 1 .. pos + n : text[i] \in Letters
    BY <1>2, ElementOfSeq
  <2>2. QED
    BY <1>4, <2>1, SubSeqProperties
<1>6. PICK a : a = Take(text, pos)
  OBVIOUS
<1>7. a \in Seq(Letters) /\ Take(text, pos + n) = a \o s
  <2>1. a \in Seq(Letters)
    BY <1>2, <1>6, CutInTwo
  <2>2. 1 \in 1 .. Len(text) + 1 /\ pos \in 1 - 1 .. Len(text) /\ pos + n \in pos .. Len(text)
    BY <1>2
  <2>3. SubSeq(text, 1, pos) \o SubSeq(text, pos + 1, pos + n) = SubSeq(text, 1, pos + n)
    BY <1>2, <2>2, ConcatAdjacentSubSeq
  <2>4. QED
    BY <1>4, <1>6, <2>1, <2>3 DEF Take
<1>8. Plain(Arrived') = Plain(Arrived) \o Plain(s)
  <2>1. Plain(a \o s) = Plain(a) \o Plain(s)
    BY <1>5, <1>7, PlainConcat
  <2>2. Arrived = a /\ Arrived' = a \o s
    BY <1>3, <1>6, <1>7 DEF Arrived, Assistant, upstream
  <2>3. QED
    BY <2>1, <2>2
<1>9. PICK d : d = Content(ctx, s)
  OBVIOUS
<1>10. Lettered(d) /\ Kept(d) = Kept(ctx) \o Plain(s) /\ Unheld(d)
  BY <1>1, <1>5, <1>9, ContentSays
<1>11. ctx' = d
  BY <1>3, <1>4, <1>9
<1>12. UNCHANGED <<thinking, searching, ended, shown>> /\ ~ended /\ ~searching
  BY DEF Assistant, upstream, Reading
<1>13. QED
  BY <1>5, <1>8, <1>10, <1>11, <1>12, ReadsText

LEMMA ToolSays ==
    ASSUME StreamInv, TextInv, Tool
    PROVE  TextInv'
<1>1. Fit(client, ctx) /\ Still(ctx) /\ Lettered(ctx) /\ Unheld(ctx)
  BY DEF StreamInv, Underway, Tool, Reading, TextInv
<1>2. PICK id \in Tools, input \in BOOLEAN, stop \in BOOLEAN : ctx' = ToolUse(ctx, id, input, stop)
  BY DEF Tool
<1>3. PICK d : d = ToolUse(ctx, id, input, stop)
  OBVIOUS
<1>4. Keeps(ctx, d) /\ Unheld(d)
  BY <1>1, <1>3, ToolUseKeeps
<1>5. UNCHANGED <<thinking, searching, ended, shown, text, pos>> /\ ~ended /\ ~searching
  BY DEF Tool, upstream, Reading
<1>6. QED
  BY <1>2, <1>3, <1>4, <1>5, ReadsNothing

LEMMA LimitSays ==
    ASSUME TextInv, Limit
    PROVE  TextInv'
<1>1. PICK r : ctx' = [ctx EXCEPT !.reason = r]
  BY DEF Limit
<1>2. PICK d : d = [ctx EXCEPT !.reason = r]
  OBVIOUS
<1>3. Lettered(ctx) /\ Unheld(ctx)
  BY DEF TextInv
<1>4. DOMAIN d = Fields /\ d.out = ctx.out /\ d.buf = ctx.buf
  BY <1>2, <1>3 DEF Lettered, Fields
<1>5. Silent(ctx, d)
  BY <1>3, <1>4, SameTold
<1>6. Keeps(ctx, d) /\ Unheld(d)
  BY <1>3, <1>4, <1>5, SilentMoves DEF Unheld
<1>7. UNCHANGED <<thinking, searching, ended, shown, text, pos>> /\ ~ended /\ ~searching
  BY DEF Limit, upstream, Reading
<1>8. QED
  BY <1>1, <1>2, <1>6, <1>7, ReadsNothing

LEMMA EndSays ==
    ASSUME StreamInv, TextInv, End
    PROVE  TextInv'
<1>1. Fit(client, ctx) /\ Still(ctx) /\ Lettered(ctx) /\ Unheld(ctx)
  BY DEF StreamInv, Underway, End, Reading, TextInv
<1>2. PICK d : d = Final(ctx)
  OBVIOUS
<1>3. Keeps(ctx, d) /\ d.buf = << >>
  BY <1>1, <1>2, FinalKeeps
<1>4. ctx' = d /\ ended' = TRUE /\ UNCHANGED <<thinking, shown, text, pos>>
  BY <1>2 DEF End, upstream
<1>5. SentAndKept(shown, d) = Plain(Arrived) /\ Arrived' = Arrived
  BY <1>3, <1>4 DEF TextInv, SentAndKept, Keeps, Arrived
<1>6. Lettered(ctx') /\ Unheld(ctx)' /\ Said(shown') /\ ctx'.buf = << >>
  BY <1>3, <1>4 DEF TextInv, Unheld, Keeps
<1>7. SentAndKept(shown', ctx') = Plain(Arrived')
  BY <1>4, <1>5
<1>8. QED
  BY <1>4, <1>6, <1>7 DEF TextInv

LEMMA SearchSays ==
    ASSUME StreamInv, TextInv, Search
    PROVE  TextInv'
<1>1. Typed /\ ctx = NewContext /\ searching /\ ~ended /\ text \in SearchTexts
  BY DEF StreamInv, Waiting, Search, Typed
<1>2. text \in Seq(Letters) /\ Len(text) \in Nat /\ text # << >>
  BY <1>1, TextLetters, BoundAssumption
<1>3. PICK d : d = [ctx EXCEPT !.out = generate_websearch_events(text)]
  OBVIOUS
<1>4. DOMAIN d = Fields /\ d.out = generate_websearch_events(text) /\ d.buf = << >>
  <2>1. DOMAIN ctx = Fields /\ ctx.buf = << >>
    BY <1>1, NewContextIs DEF NewContext
  <2>2. QED
    BY <1>3, <2>1 DEF Fields
<1>5. Texted(d.out) /\ Told(d.out) = text
  BY <1>2, <1>4, SearchTells
<1>6. Lettered(d) /\ Unheld(d)
  BY <1>4, <1>5, PlainEmpty DEF Lettered, Unheld
<1>7. ctx' = d /\ ended' = TRUE /\ pos' = Len(text) /\ shown = << >>
      /\ UNCHANGED <<thinking, shown, text>>
  BY <1>1, <1>3 DEF Search, upstream, TextInv
<1>8. Arrived' = text
  BY <1>2, <1>7, SubSeqFull DEF Arrived, Take
<1>9. SentAndKept(<< >>, d) = Plain(text)
  <2>1. PICK x \in Seq(Letters) : x = Plain(text)
    BY <1>2, PlainTypes
  <2>2. << >> \o (x \o << >>) = x
    BY ConcatEmptySeq
  <2>3. QED
    BY <1>4, <1>5, <2>1, <2>2, SaidNothing, PlainEmpty DEF SentAndKept, Kept
<1>10. Lettered(ctx') /\ Unheld(ctx)' /\ Said(shown') /\ ctx'.buf = << >>
  BY <1>4, <1>6, <1>7, SaidNothing DEF Unheld
<1>11. SentAndKept(shown', ctx') = Plain(Arrived')
  BY <1>7, <1>8, <1>9
<1>12. QED
  BY <1>7, <1>10, <1>11 DEF TextInv

LEMMA StutterSays ==
    ASSUME TextInv, UNCHANGED vars
    PROVE  TextInv'
<1>1. UNCHANGED <<thinking, searching, ended, shown, text, pos, ctx>>
  BY DEF vars, upstream
<1>2. Arrived' = Arrived
  BY <1>1 DEF Arrived
<1>3. QED
  BY <1>1, <1>2 DEF TextInv, Unheld

FourAlike(s, t, u, v) == (s \o t) \o (u \o v) = s \o ((t \o u) \o v)

LEMMA RegroupFour ==
    ASSUME NEW s \in Seq(Letters), NEW t \in Seq(Letters), NEW u \in Seq(Letters), NEW v \in Seq(Letters)
    PROVE  FourAlike(s, t, u, v)
<1>1. PICK w : w = u \o v
  OBVIOUS
<1>2. w \in Seq(Letters)
  BY <1>1, Regroup
<1>3. Regrouped(s, t, w)
  BY <1>2, Regroup
<1>4. Regrouped(t, u, v)
  BY Regroup
<1>5. QED
  BY <1>1, <1>3, <1>4 DEF FourAlike, Regrouped

\* The unsent events of c tell w and then what those of d do; m is l and then w.
TellsFirst(c, d, w) == Told(c.out) = w \o Told(d.out)
SaysThen(l, m, w) == LettersOf(m) = LettersOf(l) \o w

\* The head of the unsent events tells w, and then it is sent.
LEMMA SaysNext ==
    ASSUME NEW l, NEW c, NEW m, NEW d, NEW w \in Seq(Letters),
           Said(l), Lettered(c), Said(m), Lettered(d), d.buf = c.buf,
           TellsFirst(c, d, w), SaysThen(l, m, w)
    PROVE  SentAndKept(m, d) = SentAndKept(l, c)
<1>1. PICK t, b, r : t = Told(d.out) /\ b = c.buf /\ r = LettersOf(l)
  OBVIOUS
<1>2. t \in Seq(Letters) /\ b \in Seq(Letters) /\ r \in Seq(Letters)
  BY <1>1, ToldTypes DEF Lettered, Said
<1>3. Plain(w \o t) = Plain(w) \o Plain(t) /\ Plain(r \o w) = Plain(r) \o Plain(w)
  BY <1>2, PlainConcat
<1>4. PICK v \in Seq(Letters), x \in Seq(Letters), y \in Seq(Letters), z \in Seq(Letters) :
         v = Plain(w) /\ x = Plain(t) /\ y = Plain(b) /\ z = Plain(r)
  BY <1>2, PlainTypes
<1>5. SentAndKept(m, d) = (z \o v) \o (x \o y)
  BY <1>1, <1>3, <1>4 DEF SentAndKept, Kept, SaysThen
<1>6. SentAndKept(l, c) = z \o ((v \o x) \o y)
  BY <1>1, <1>3, <1>4 DEF SentAndKept, Kept, TellsFirst
<1>7. FourAlike(z, v, x, y)
  BY RegroupFour
<1>8. QED
  BY <1>5, <1>6, <1>7 DEF FourAlike

LEMMA SendSays ==
    ASSUME StreamInv, TextInv, Send
    PROVE  TextInv'
<1>1. Lettered(ctx) /\ Unheld(ctx) /\ Said(shown) /\ ctx.out # << >>
  BY DEF TextInv, Send
<1>2. PICK e : e = Head(ctx.out)
  OBVIOUS
<1>3. PICK d : d = [ctx EXCEPT !.out = Tail(@)]
  OBVIOUS
<1>4. DOMAIN d = Fields /\ d.out = Tail(ctx.out) /\ d.buf = ctx.buf
  BY <1>1, <1>3 DEF Lettered, Fields
<1>5. Words(e) \in Seq(Letters) /\ Texted(d.out) /\ Told(ctx.out) = Words(e) \o Told(d.out)
  BY <1>1, <1>2, <1>4, ToldTail DEF Lettered
<1>6. Lettered(d) /\ Unheld(d)
  BY <1>1, <1>4, <1>5 DEF Lettered, Unheld
<1>7. PICK m : m = IF e.ev = "delta" THEN shown \o Chars(e) ELSE shown
  OBVIOUS
<1>8. Said(m) /\ LettersOf(m) = LettersOf(shown) \o Words(e)
  <2>1. CASE e.ev = "delta"
    <3>1. Words(e) = e.text /\ m = shown \o Chars(e)
      BY <1>7, <2>1 DEF Words
    <3>2. QED
      BY <1>1, <1>5, <3>1, SaysMore
  <2>2. CASE e.ev # "delta"
    <3>1. Words(e) = << >> /\ m = shown
      BY <1>7, <2>2 DEF Words
    <3>2. PICK x \in Seq(Letters) : x = LettersOf(shown)
      BY <1>1 DEF Said
    <3>3. x \o << >> = x
      BY ConcatEmptySeq
    <3>4. QED
      BY <1>1, <3>1, <3>2, <3>3
  <2>3. QED
    BY <2>1, <2>2
<1>9. SentAndKept(m, d) = SentAndKept(shown, ctx)
  <2>1. PICK w \in Seq(Letters) : w = Words(e)
    BY <1>5
  <2>2. Told(ctx.out) = w \o Told(d.out) /\ LettersOf(m) = LettersOf(shown) \o w
    BY <1>5, <1>8, <2>1
  <2>3. PICK l, c : l = shown /\ c = ctx
    OBVIOUS
  <2>4. /\ Said(l) /\ Lettered(c) /\ Said(m) /\ Lettered(d) /\ d.buf = c.buf
        /\ TellsFirst(c, d, w) /\ SaysThen(l, m, w)
    BY <1>1, <1>4, <1>6, <1>8, <2>2, <2>3 DEF TellsFirst, SaysThen
  <2>5. SentAndKept(m, d) = SentAndKept(l, c)
    BY <2>4, SaysNext
  <2>6. QED
    BY <2>3, <2>5
<1>10. ctx' = d /\ shown' = m /\ UNCHANGED <<thinking, searching, ended, text, pos>>
  BY <1>2, <1>3, <1>7 DEF Send, upstream
<1>11. Arrived' = Arrived
  BY <1>10 DEF Arrived
<1>12. SentAndKept(shown', ctx') = Plain(Arrived')
  BY <1>9, <1>10, <1>11 DEF TextInv
<1>13. Lettered(ctx') /\ Unheld(ctx)' /\ Said(shown')
  BY <1>6, <1>8, <1>10 DEF Unheld
<1>14. ended' => ctx'.buf = << >>
  BY <1>4, <1>10 DEF TextInv
<1>15. ~(~ended /\ searching)
  <2>1. SUFFICES ASSUME ~ended, searching
                 PROVE  FALSE
    OBVIOUS
  <2>2. ctx.out = << >>
    BY <2>1, NewContextIs DEF StreamInv, Waiting
  <2>3. QED
    BY <1>1, <2>2
<1>16. QED
  BY <1>10, <1>12, <1>13, <1>14, <1>15 DEF TextInv

LEMMA InitSays ==
    ASSUME Init
    PROVE  TextInv
<1>1. pos = 0 /\ ended = FALSE /\ shown = << >> /\ thinking \in BOOLEAN
  BY DEF Init
<1>2. PICK n : n = NewContext
  OBVIOUS
<1>3. DOMAIN n = Fields /\ n.out = << >> /\ n.buf = << >>
  BY <1>2 DEF NewContext, Fields
<1>4. Lettered(n) /\ Told(n.out) = << >>
  BY <1>3, ToldNothing, PlainEmpty DEF Lettered
<1>5. Silent(n, ctx)
  <2>1. CASE searching
    BY <1>2, <1>4, <2>1 DEF Init, Silent
  <2>2. CASE ~searching
    <3>1. PICK e : e = Ev("message_start", 0, "none", << >>)
      OBVIOUS
    <3>2. Words(e) = << >>
      BY <3>1 DEF Words, Ev
    <3>3. PICK c : c = Emit(n, e)
      OBVIOUS
    <3>4. Silent(n, c)
      BY <1>4, <3>2, <3>3, EmitSilent
    <3>5. ctx = Initial(thinking)
      BY <2>2 DEF Init
    <3>6. CASE thinking
      <4>1. ctx = c
        BY <1>2, <3>1, <3>3, <3>5, <3>6 DEF Initial
      <4>2. QED
        BY <3>4, <4>1
    <3>7. CASE ~thinking
      <4>1. PICK d : d = StartBlock(c, "text")
        OBVIOUS
      <4>2. Silent(c, d)
        BY <3>4, <4>1, StartSilent DEF Silent
      <4>3. PICK f : f = [d EXCEPT !.textAt = 1]
        OBVIOUS
      <4>4. DOMAIN f = Fields /\ f.out = d.out /\ f.buf = d.buf
        BY <4>2, <4>3 DEF Silent, Lettered, Fields
      <4>5. Silent(d, f)
        BY <4>2, <4>4, SameTold DEF Silent
      <4>6. ctx = f
        BY <1>2, <3>1, <3>3, <3>5, <3>7, <4>1, <4>3 DEF Initial
      <4>7. QED
        BY <3>4, <4>2, <4>5, <4>6, SilentMoves
    <3>8. QED
      BY <1>1, <3>6, <3>7
  <2>3. QED
    BY <2>1, <2>2
<1>6. Lettered(ctx) /\ Unheld(ctx) /\ Told(ctx.out) = << >> /\ ctx.buf = << >>
  BY <1>3, <1>4, <1>5 DEF Silent, Unheld
<1>7. Arrived = << >>
  BY <1>1, SubSeqEmpty DEF Arrived, Take
<1>8. SentAndKept(shown, ctx) = Plain(Arrived)
  <2>1. << >> \o (<< >> \o << >>) = << >>
    BY PlainEmpty, ConcatEmptySeq
  <2>2. QED
    BY <1>1, <1>6, <1>7, <2>1, SaidNothing, PlainEmpty DEF SentAndKept, Kept
<1>9. QED
  BY <1>1, <1>6, <1>8, SaidNothing DEF TextInv

LEMMA NextSays ==
    ASSUME StreamInv, TextInv, [Next]_vars
    PROVE  TextInv'
<1>1. CASE Assistant
  BY <1>1, AssistantSays
<1>2. CASE Tool
  BY <1>2, ToolSays
<1>3. CASE Limit
  BY <1>3, LimitSays
<1>4. CASE End
  BY <1>4, EndSays
<1>5. CASE Search
  BY <1>5, SearchSays
<1>6. CASE Send
  BY <1>6, SendSays
<1>7. CASE Stay \/ UNCHANGED vars
  BY <1>7, StutterSays DEF Stay
<1>8. QED
  BY <1>1, <1>2, <1>3, <1>4, <1>5, <1>6, <1>7 DEF Next

LEMMA InvSwallowsNothing ==
    ASSUME TextInv
    PROVE  NothingSwallowed
<1>1. SUFFICES ASSUME Over
               PROVE  Plain(LettersOf(shown)) = Plain(Arrived)
  BY DEF NothingSwallowed, LettersOf
<1>2. ctx.out = << >> /\ ctx.buf = << >> /\ LettersOf(shown) \in Seq(Letters)
  BY <1>1 DEF Over, TextInv, Said
<1>3. PICK x \in Seq(Letters) : x = Plain(LettersOf(shown))
  BY <1>2, PlainTypes
<1>4. x \o (<< >> \o << >>) = x
  BY PlainEmpty, ConcatEmptySeq
<1>5. SentAndKept(shown, ctx) = x
  BY <1>2, <1>3, <1>4, ToldNothing, PlainEmpty DEF SentAndKept, Kept
<1>6. QED
  BY <1>3, <1>5 DEF TextInv

\* StreamContext: however the text is cut into chunks and whatever tool calls come
\* between, a stream that has been sent whole has brought all that arrived, once and
\* in order, but for the markup of the thinking. A search has brought all its results.
THEOREM TextsKept == Spec => []NothingSwallowed
<1>1. Init => TextInv
  BY InitSays
<1>2. StreamInv /\ TextInv /\ [Next]_vars => TextInv'
  BY NextSays
<1>3. TextInv => NothingSwallowed
  BY InvSwallowsNothing
<1>4. QED
  BY <1>1, <1>2, <1>3, Inductive, PTL DEF Spec

-----------------------------------------------------------------------------
(* Text up to white space, and the parts of a text: Part(z, a, b) is what stands *)
(* after position a, up to b.                                                 *)

LEMMA SolidTypes ==
    ASSUME NEW s \in Seq(Letters)
    PROVE  Solid(s) \in Seq(Letters)
<1> DEFINE S == STRING \ {NL}
<1>1. Only(s, S) \in Seq(Letters \cap S)
  BY OnlyTypes
<1>2. PICK r : r = Only(s, S)
  OBVIOUS
<1>3. r \in Seq(Letters)
  <2>1. Letters \cap S \subseteq Letters
    OBVIOUS
  <2> HIDE DEF S
  <2>2. QED
    BY <1>1, <1>2, <2>1, SeqMonotonic
<1>4. QED
  BY <1>2, <1>3 DEF Solid

LEMMA SolidConcat ==
    ASSUME NEW s \in Seq(Letters), NEW t \in Seq(Letters)
    PROVE  s \o t \in Seq(Letters) /\ Solid(s \o t) = Solid(s) \o Solid(t)
BY OnlyConcat, ConcatProperties DEF Solid

LEMMA SolidBlank ==
    ASSUME NEW s \in Seq(Letters), \A i \in 1 .. Len(s) : s[i] = NL
    PROVE  Solid(s) = << >>
<1>1. \A i \in 1 .. Len(s) : s[i] \notin STRING \ {NL}
  OBVIOUS
<1>2. QED
  BY <1>1, OnlyNone DEF Solid

LEMMA SolidEmpty == << >> \in Seq(Letters) /\ Solid(<< >>) = << >>
BY OnlyEmpty, EmptySeq DEF Solid

Part(z, a, b) == SubSeq(z, a + 1, b)

LEMMA PartIs ==
    ASSUME NEW z \in Seq(Letters), NEW a \in Nat, NEW b \in Nat, a <= b, b <= Len(z)
    PROVE  /\ Part(z, a, b) \in Seq(Letters) /\ Len(Part(z, a, b)) = b - a
           /\ \A i \in 1 .. b - a : Part(z, a, b)[i] = z[a + i]
<1>1. \A i \in a + 1 .. b : z[i] \in Letters
  BY LenProperties, ElementOfSeq
<1>2. PICK m \in Int : m = a + 1
  OBVIOUS
<1>3. /\ SubSeq(z, m, b) \in Seq(Letters)
      /\ Len(SubSeq(z, m, b)) = IF m <= b THEN b - m + 1 ELSE 0
      /\ \A i \in 1 .. b - m + 1 : SubSeq(z, m, b)[i] = z[m + i - 1]
  BY <1>1, <1>2, SubSeqProperties, SMTT(30)
<1>4. Len(SubSeq(z, m, b)) = b - a
  BY <1>2, <1>3
<1>5. ASSUME NEW i \in 1 .. b - a
      PROVE  SubSeq(z, m, b)[i] = z[a + i]
  <2>1. i \in 1 .. b - m + 1 /\ m + i - 1 = a + i
    BY <1>2
  <2>2. QED
    BY <1>3, <2>1
<1>6. Part(z, a, b) = SubSeq(z, m, b)
  BY <1>2 DEF Part
<1>7. QED
  BY <1>3, <1>4, <1>5, <1>6

LEMMA PartEmpty ==
    ASSUME NEW z, NEW a \in Nat
    PROVE  Part(z, a, a) = << >>
BY SubSeqEmpty DEF Part

LEMMA PartWhole ==
    ASSUME NEW z \in Seq(Letters)
    PROVE  Part(z, 0, Len(z)) = z
BY SubSeqFull DEF Part

LEMMA PartsJoin ==
    ASSUME NEW z \in Seq(Letters), NEW a \in Nat, NEW b \in Nat, NEW c \in Nat,
           a <= b, b <= c, c <= Len(z)
    PROVE  Part(z, a, b) \o Part(z, b, c) = Part(z, a, c)
<1>1. Len(z) \in Nat
  BY LenProperties
<1>2. a + 1 \in 1 .. Len(z) + 1 /\ b \in (a + 1) - 1 .. Len(z) /\ c \in b .. Len(z)
  BY <1>1
<1>3. QED
  BY <1>2, ConcatAdjacentSubSeq DEF Part

\* A part of a part is a part.
LEMMA PartOfPart ==
    ASSUME NEW z \in Seq(Letters), NEW a \in Nat, NEW b \in Nat, NEW n \in Nat,
           a <= b, b <= Len(z), n <= b - a
    PROVE  /\ Take(Part(z, a, b), n) = Part(z, a, a + n)
           /\ Drop(Part(z, a, b), n) = Part(z, a + n, b)
<1>1. PICK x, y, t, u, v : x = Part(z, a, b) /\ y = Take(x, n) /\ t = Drop(x, n)
                           /\ u = Part(z, a, a + n) /\ v = Part(z, a + n, b)
  OBVIOUS
<1>2. Len(z) \in Nat
  BY LenProperties
<1>3. x \in Seq(Letters) /\ Len(x) = b - a /\ \A i \in 1 .. b - a : x[i] = z[a + i]
  BY <1>1, PartIs
<1>4. PICK d \in Nat : d = a + n /\ d <= b /\ d <= Len(z) /\ a <= d /\ d - a = n
  BY <1>2
<1>5. u \in Seq(Letters) /\ Len(u) = n /\ \A i \in 1 .. n : u[i] = z[a + i]
  <2>1. u = Part(z, a, d)
    BY <1>1, <1>4
  <2>2. /\ Part(z, a, d) \in Seq(Letters) /\ Len(Part(z, a, d)) = d - a
        /\ \A i \in 1 .. d - a : Part(z, a, d)[i] = z[a + i]
    BY <1>4, PartIs
  <2>3. QED
    BY <1>4, <2>1, <2>2
<1>6. v \in Seq(Letters) /\ Len(v) = b - d /\ \A i \in 1 .. b - d : v[i] = z[d + i]
  BY <1>1, <1>4, PartIs
<1>7. y \in Seq(Letters) /\ Len(y) = n /\ \A i \in 1 .. n : y[i] = x[i]
  <2>1. y = Part(x, 0, n)
    BY <1>1 DEF Take, Part
  <2>2. 0 \in Nat /\ 0 <= n /\ n <= Len(x) /\ n - 0 = n /\ \A i \in 1 .. n : 0 + i = i
    BY <1>3
  <2>3. /\ Part(x, 0, n) \in Seq(Letters) /\ Len(Part(x, 0, n)) = n - 0
        /\ \A i \in 1 .. n - 0 : Part(x, 0, n)[i] = x[0 + i]
    BY <1>3, <2>2, PartIs
  <2>4. QED
    BY <2>1, <2>2, <2>3
<1>8. t \in Seq(Letters) /\ Len(t) = b - d /\ \A i \in 1 .. b - d : t[i] = x[n + i]
  <2>1. t = Part(x, n, Len(x))
    BY <1>1 DEF Drop, Part
  <2>2. PICK e \in Nat : e = b - a /\ e = Len(x) /\ n <= e /\ e - n = b - d
    BY <1>3, <1>4
  <2>3. x \in Seq(Letters) /\ e <= Len(x)
    BY <1>3, <2>2
  <2>4. /\ Part(x, n, e) \in Seq(Letters) /\ Len(Part(x, n, e)) = e - n
        /\ \A i \in 1 .. e - n : Part(x, n, e)[i] = x[n + i]
    BY <2>2, <2>3, PartIs
  <2>5. QED
    BY <2>1, <2>2, <2>4
<1>9. y = u
  <2>1. ASSUME NEW i \in 1 .. n
        PROVE  y[i] = u[i]
    <3>1. i \in 1 .. b - a
      OBVIOUS
    <3>2. QED
      BY <1>3, <1>5, <1>7, <3>1
  <2>2. QED
    BY <1>5, <1>7, <2>1, SeqEqual
<1>10. t = v
  <2>1. ASSUME NEW i \in 1 .. b - d
        PROVE  t[i] = v[i]
    <3>1. PICK j \in Nat : j = n + i /\ j \in 1 .. b - a /\ a + j = d + i
      BY <1>4
    <3>2. QED
      BY <1>3, <1>6, <1>8, <3>1
  <2>2. QED
    BY <1>6, <1>8, <2>1, SeqEqual
<1>11. QED
  BY <1>1, <1>4, <1>9, <1>10

\* What is solid in a text that is cut in two.
LEMMA SolidParts ==
    ASSUME NEW z \in Seq(Letters), NEW a \in Nat, NEW b \in Nat, NEW c \in Nat,
           a <= b, b <= c, c <= Len(z)
    PROVE  Solid(Part(z, a, c)) = Solid(Part(z, a, b)) \o Solid(Part(z, b, c))
<1>1. PICK x, y : x = Part(z, a, b) /\ y = Part(z, b, c)
  OBVIOUS
<1>2. Len(z) \in Nat
  BY LenProperties
<1>3. b <= Len(z)
  BY <1>2
<1>4. x \in Seq(Letters)
  BY <1>1, <1>3, PartIs
<1>5. y \in Seq(Letters)
  BY <1>1, PartIs
<1>6. Solid(x \o y) = Solid(x) \o Solid(y)
  BY <1>4, <1>5, SolidConcat
<1>7. x \o y = Part(z, a, c)
  BY <1>1, PartsJoin
<1>8. QED
  BY <1>1, <1>6, <1>7

\* White space leaves nothing.
LEMMA BlankPart ==
    ASSUME NEW z \in Seq(Letters), NEW a \in Nat, NEW b \in Nat, a <= b, b <= Len(z),
           \A i \in a + 1 .. b : z[i] = NL
    PROVE  Solid(Part(z, a, b)) = << >>
<1>1. PICK x : x = Part(z, a, b)
  OBVIOUS
<1>2. x \in Seq(Letters) /\ Len(x) = b - a /\ \A i \in 1 .. b - a : x[i] = z[a + i]
  BY <1>1, PartIs
<1>3. \A i \in 1 .. Len(x) : x[i] = NL
  <2>1. \A i \in 1 .. b - a : a + i \in a + 1 .. b
    OBVIOUS
  <2>2. QED
    BY <1>2, <2>1
<1>4. QED
  BY <1>1, <1>2, <1>3, SolidBlank

-----------------------------------------------------------------------------
(* What a sequence of events tells of one type: the deltas of the other are    *)
(* taken to have no text.                                                     *)

Uttered(t, e) == IF e.ev = "delta" /\ e.type = t THEN e.text ELSE << >>
OnlyOf(t, e) == [ev |-> "delta", text |-> Uttered(t, e)]
OfType(t, o) == [i \in DOMAIN o |-> OnlyOf(t, o[i])]
ToldOf(t, o) == Told(OfType(t, o))

Deltas == [ev : {"delta"}, text : Seq(Letters)]

LEMMA UtteredTypes ==
    ASSUME NEW t, NEW e, Words(e) \in Seq(Letters)
    PROVE  /\ Uttered(t, e) \in Seq(Letters) /\ OnlyOf(t, e) \in Deltas
           /\ Words(OnlyOf(t, e)) = Uttered(t, e)
           /\ Words(e) = << >> => Uttered(t, e) = << >>
<1>1. Uttered(t, e) \in Seq(Letters)
  BY EmptySeq DEF Uttered, Words
<1>2. PICK u \in Seq(Letters) : u = Uttered(t, e)
  BY <1>1
<1>3. OnlyOf(t, e) = [ev |-> "delta", text |-> u]
  BY <1>2 DEF OnlyOf
<1>4. [ev |-> "delta", text |-> u] \in Deltas
  BY DEF Deltas
<1>5. Words(OnlyOf(t, e)) = u
  BY <1>3 DEF Words
<1>6. Words(e) = << >> => Uttered(t, e) = << >>
  BY DEF Uttered, Words
<1>7. QED
  BY <1>1, <1>2, <1>3, <1>4, <1>5, <1>6

LEMMA DeltasTexted ==
    ASSUME NEW x \in Seq(Deltas)
    PROVE  Texted(x)
<1>1. IsSeq(x) /\ \A i \in 1 .. Len(x) : x[i] \in Deltas
  BY SeqIsSeq
<1>2. \A e \in Deltas : Words(e) \in Seq(Letters)
  BY DEF Deltas, Words
<1>3. QED
  BY <1>1, <1>2 DEF Texted

LEMMA OfTypeIs ==
    ASSUME NEW t, NEW o, Texted(o)
    PROVE  /\ OfType(t, o) \in Seq(Deltas) /\ Len(OfType(t, o)) = Len(o) /\ Len(o) \in Nat
           /\ \A i \in 1 .. Len(o) : OfType(t, o)[i] = OnlyOf(t, o[i])
<1>1. PICK n \in Nat : n = Len(o) /\ DOMAIN o = 1 .. n
  BY IsSeqLen DEF Texted
<1>2. \A i \in 1 .. n : OnlyOf(t, o[i]) \in Deltas
  BY <1>1, UtteredTypes DEF Texted
<1>3. PICK x : x = OfType(t, o)
  OBVIOUS
<1>4. x = [i \in 1 .. n |-> OnlyOf(t, o[i])]
  BY <1>1, <1>3 DEF OfType
<1>5. x \in [1 .. n -> Deltas] /\ \A i \in 1 .. n : x[i] = OnlyOf(t, o[i])
  BY <1>2, <1>4
<1>6. x \in Seq(Deltas) /\ DOMAIN x = 1 .. n
  BY <1>5, SeqDef
<1>7. Len(x) = n
  BY <1>6, LenProperties
<1>8. QED
  BY <1>1, <1>3, <1>5, <1>6, <1>7

LEMMA ToldOfTypes ==
    ASSUME NEW t, NEW o, Texted(o)
    PROVE  ToldOf(t, o) \in Seq(Letters)
BY OfTypeIs, DeltasTexted, ToldTypes DEF ToldOf

LEMMA ToldOfConcat ==
    ASSUME NEW t, NEW a, NEW b, Texted(a), Texted(b)
    PROVE  ToldOf(t, a \o b) = ToldOf(t, a) \o ToldOf(t, b)
<1>1. PICK o, u, v, w : /\ o = a \o b /\ u = OfType(t, a) /\ v = OfType(t, b)
                        /\ w = OfType(t, o)
  OBVIOUS
<1>2. PICK m \in Nat, n \in Nat : m = Len(a) /\ n = Len(b)
  BY ToldTypes
<1>3. Texted(o)
  BY <1>1, ToldConcat
<1>4. /\ Len(o) = m + n
      /\ \A i \in 1 .. m : o[i] = a[i]
      /\ \A i \in 1 .. n : o[m + i] = b[i]
  BY <1>1, <1>2, IsSeqConcat DEF Texted
<1>5. u \in Seq(Deltas) /\ Len(u) = m /\ \A i \in 1 .. m : u[i] = OnlyOf(t, a[i])
  BY <1>1, <1>2, OfTypeIs
<1>6. v \in Seq(Deltas) /\ Len(v) = n /\ \A i \in 1 .. n : v[i] = OnlyOf(t, b[i])
  BY <1>1, <1>2, OfTypeIs
<1>7. w \in Seq(Deltas) /\ Len(w) = m + n /\ \A i \in 1 .. m + n : w[i] = OnlyOf(t, o[i])
  <2>1. /\ w \in Seq(Deltas) /\ Len(w) = Len(o)
        /\ \A i \in 1 .. Len(o) : w[i] = OnlyOf(t, o[i])
    BY <1>1, <1>3, OfTypeIs
  <2>2. QED
    BY <1>4, <2>1
<1>8. PICK x : x = u \o v
  OBVIOUS
<1>9. /\ x \in Seq(Deltas) /\ Len(x) = m + n
      /\ \A i \in 1 .. m + n : x[i] = IF i <= m THEN u[i] ELSE v[i - m]
  BY <1>5, <1>6, <1>8, ConcatProperties
<1>10. ASSUME NEW i \in 1 .. m + n
       PROVE  w[i] = x[i]
  <2>1. CASE i <= m
    <3>1. i \in 1 .. m
      BY <2>1
    <3>2. QED
      BY <1>4, <1>5, <1>7, <1>9, <2>1, <3>1
  <2>2. CASE ~(i <= m)
    <3>1. PICK j \in 1 .. n : i = m + j /\ i - m = j
      <4>1. i - m \in 1 .. n /\ i = m + (i - m)
        BY <2>2
      <4>2. QED
        BY <4>1
    <3>2. w[i] = OnlyOf(t, b[j]) /\ x[i] = v[j]
      BY <1>4, <1>7, <1>9, <2>2, <3>1
    <3>3. QED
      BY <1>6, <3>2
  <2>3. QED
    BY <2>1, <2>2
<1>11. w = x
  BY <1>7, <1>9, <1>10, SeqEqual
<1>12. Told(u \o v) = Told(u) \o Told(v)
  BY <1>5, <1>6, DeltasTexted, ToldConcat
<1>13. QED
  BY <1>1, <1>8, <1>11, <1>12 DEF ToldOf

LEMMA ToldOfOnce ==
    ASSUME NEW t, NEW e, Words(e) \in Seq(Letters)
    PROVE  ToldOf(t, << e >>) = Uttered(t, e)
<1>1. PICK o, d : o = << e >> /\ d = OnlyOf(t, e)
  OBVIOUS
<1>2. DOMAIN o = 1 .. 1 /\ o[1] = e
  BY <1>1
<1>3. OfType(t, o) = [i \in 1 .. 1 |-> d]
  <2>1. \A i \in 1 .. 1 : OnlyOf(t, o[i]) = d
    BY <1>1, <1>2
  <2>2. QED
    BY <1>2, <2>1 DEF OfType
<1>4. [i \in 1 .. 1 |-> d] = << d >>
  OBVIOUS
<1>5. Words(d) = Uttered(t, e) /\ Words(d) \in Seq(Letters)
  BY <1>1, UtteredTypes
<1>6. Told(<< d >>) = Words(d)
  BY <1>5, ToldOnce
<1>7. QED
  BY <1>1, <1>3, <1>4, <1>5, <1>6 DEF ToldOf

LEMMA ToldOfNothing ==
    ASSUME NEW t
    PROVE  ToldOf(t, << >>) = << >>
<1>1. OfType(t, << >>) = << >>
  BY DEF OfType
<1>2. QED
  BY <1>1, ToldNothing DEF ToldOf

LEMMA ToldOfAppend ==
    ASSUME NEW t, NEW o, NEW e, Texted(o), Words(e) \in Seq(Letters)
    PROVE  ToldOf(t, Append(o, e)) = ToldOf(t, o) \o Uttered(t, e)
<1>1. PICK q : q = << e >>
  OBVIOUS
<1>2. Texted(q) /\ ToldOf(t, q) = Uttered(t, e)
  BY <1>1, ToldOnce, ToldOfOnce
<1>3. ToldOf(t, o \o q) = ToldOf(t, o) \o ToldOf(t, q)
  BY <1>2, ToldOfConcat
<1>4. Append(o, e) = o \o q
  BY <1>1, AppendsOne DEF Texted
<1>5. QED
  BY <1>2, <1>3, <1>4

LEMMA HeadFirst ==
    ASSUME NEW o, IsSeq(o), o # << >>
    PROVE  o = << Head(o) >> \o Tail(o)
<1> DEFINE S == {o[i] : i \in DOMAIN o}
<1>1. o \in Seq(S)
  BY DEF IsSeq
<1> HIDE DEF S
<1>2. Len(o) \in Nat /\ Len(o) # 0
  BY <1>1, LenProperties, EmptySeq
<1>3. 1 \in 1 .. Len(o) /\ Len(o) \in 1 .. Len(o) /\ 1 + 1 = 2
  BY <1>2
<1>4. SubSeq(o, 1, Len(o)) = << o[1] >> \o SubSeq(o, 2, Len(o))
  BY <1>1, <1>3, SubSeqRecursiveFirst
<1>5. SubSeq(o, 1, Len(o)) = o /\ Tail(o) = SubSeq(o, 2, Len(o))
  BY <1>1, SubSeqFull, TailIsSubSeq
<1>6. Head(o) = o[1]
  BY <1>1
<1>7. QED
  BY <1>4, <1>5, <1>6

LEMMA ToldOfTail ==
    ASSUME NEW t, NEW o, Texted(o), o # << >>
    PROVE  ToldOf(t, o) = Uttered(t, Head(o)) \o ToldOf(t, Tail(o))
<1>1. PICK e, r : e = Head(o) /\ r = Tail(o)
  OBVIOUS
<1>2. Words(e) \in Seq(Letters) /\ Texted(r)
  BY <1>1, ToldTail
<1>3. PICK q : q = << e >>
  OBVIOUS
<1>4. o = q \o r
  <2>1. o = << Head(o) >> \o Tail(o)
    BY HeadFirst DEF Texted
  <2>2. QED
    BY <1>1, <1>3, <2>1
<1>5. Texted(q) /\ ToldOf(t, q) = Uttered(t, e)
  BY <1>2, <1>3, ToldOnce, ToldOfOnce
<1>6. ToldOf(t, q \o r) = ToldOf(t, q) \o ToldOf(t, r)
  BY <1>2, <1>5, ToldOfConcat
<1>7. QED
  BY <1>1, <1>4, <1>5, <1>6

LEMMA ToldOfSilent ==
    ASSUME NEW t, NEW o, IsSeq(o), \A i \in 1 .. Len(o) : Words(o[i]) = << >>
    PROVE  ToldOf(t, o) = << >>
<1>1. Texted(o)
  BY ToldSilent
<1>2. PICK x : x = OfType(t, o)
  OBVIOUS
<1>3. x \in Seq(Deltas) /\ Len(x) = Len(o) /\ \A i \in 1 .. Len(o) : x[i] = OnlyOf(t, o[i])
  BY <1>1, <1>2, OfTypeIs
<1>4. ASSUME NEW i \in 1 .. Len(x)
      PROVE  Words(x[i]) = << >>
  <2>1. Words(o[i]) = << >> /\ x[i] = OnlyOf(t, o[i])
    BY <1>3
  <2>2. QED
    BY <2>1, UtteredTypes, EmptySeq
<1>5. IsSeq(x)
  BY <1>3, SeqIsSeq
<1>6. Told(x) = << >>
  BY <1>4, <1>5, ToldSilent
<1>7. QED
  BY <1>2, <1>6 DEF ToldOf

-----------------------------------------------------------------------------
(* Which type of text each part of a handler sends.                           *)

Mute(c, d) == \A u : ToldOf(u, d.out) = ToldOf(u, c.out)

\* d tells s of type t after what c tells
Speaks(c, d, t, s) ==
    /\ ToldOf(t, d.out) = ToldOf(t, c.out) \o s
    /\ \A u : u # t => ToldOf(u, d.out) = ToldOf(u, c.out)

LEMMA SpeaksOn ==
    ASSUME NEW c, NEW d, NEW e, NEW t, NEW s
    PROVE  /\ Mute(c, d) /\ Mute(d, e) => Mute(c, e)
           /\ Mute(c, d) /\ Speaks(d, e, t, s) => Speaks(c, e, t, s)
           /\ Speaks(c, d, t, s) /\ Mute(d, e) => Speaks(c, e, t, s)
           /\ d.out = c.out => Mute(c, d)
BY DEF Mute, Speaks

LEMMA EmitSpeaks ==
    ASSUME NEW c, NEW e, Lettered(c), Words(e) \in Seq(Letters), NEW u
    PROVE  ToldOf(u, Emit(c, e).out) = ToldOf(u, c.out) \o Uttered(u, e)
<1>1. PICK d : d = Emit(c, e)
  OBVIOUS
<1>2. d.out = Append(c.out, e)
  BY <1>1 DEF Lettered, Fields, Emit
<1>3. Texted(c.out)
  BY DEF Lettered
<1>4. ToldOf(u, Append(c.out, e)) = ToldOf(u, c.out) \o Uttered(u, e)
  BY <1>3, ToldOfAppend
<1>5. QED
  BY <1>1, <1>2, <1>4

\* Nothing after something.
LEMMA TellsNoMore ==
    ASSUME NEW c, NEW u, Lettered(c)
    PROVE  ToldOf(u, c.out) \in Seq(Letters) /\ ToldOf(u, c.out) \o << >> = ToldOf(u, c.out)
<1>1. ToldOf(u, c.out) \in Seq(Letters)
  BY ToldOfTypes DEF Lettered
<1>2. PICK x \in Seq(Letters) : x = ToldOf(u, c.out)
  BY <1>1
<1>3. x \o << >> = x
  BY ConcatEmptySeq
<1>4. QED
  BY <1>1, <1>2, <1>3

LEMMA EmitMute ==
    ASSUME NEW c, NEW e, Lettered(c), Words(e) = << >>
    PROVE  Mute(c, Emit(c, e))
<1>1. PICK d : d = Emit(c, e)
  OBVIOUS
<1>2. ASSUME NEW u
      PROVE  ToldOf(u, d.out) = ToldOf(u, c.out)
  <2>1. Words(e) \in Seq(Letters)
    BY EmptySeq
  <2>2. ToldOf(u, Emit(c, e).out) = ToldOf(u, c.out) \o Uttered(u, e)
    BY <2>1, EmitSpeaks
  <2>3. Uttered(u, e) = << >>
    BY <2>1, UtteredTypes
  <2>4. QED
    BY <1>1, <2>2, <2>3, TellsNoMore
<1>3. QED
  BY <1>1, <1>2 DEF Mute

LEMMA EmitsDelta ==
    ASSUME NEW c, NEW i, NEW t, NEW s \in Seq(Letters), Lettered(c)
    PROVE  Speaks(c, Emit(c, Ev("delta", i, t, s)), t, s)
<1>1. PICK e, d : e = Ev("delta", i, t, s) /\ d = Emit(c, e)
  OBVIOUS
<1>2. Words(e) \in Seq(Letters)
  BY <1>1, EventWords
<1>3. Uttered(t, e) = s /\ \A u : u # t => Uttered(u, e) = << >>
  BY <1>1 DEF Uttered, Ev
<1>4. ToldOf(t, d.out) = ToldOf(t, c.out) \o s
  <2>1. ToldOf(t, Emit(c, e).out) = ToldOf(t, c.out) \o Uttered(t, e)
    BY <1>2, EmitSpeaks
  <2>2. QED
    BY <1>1, <1>3, <2>1
<1>5. ASSUME NEW u, u # t
      PROVE  ToldOf(u, d.out) = ToldOf(u, c.out)
  <2>1. ToldOf(u, Emit(c, e).out) = ToldOf(u, c.out) \o Uttered(u, e)
    BY <1>2, EmitSpeaks
  <2>2. QED
    BY <1>1, <1>3, <1>5, <2>1, TellsNoMore
<1>6. QED
  BY <1>1, <1>4, <1>5 DEF Speaks

LEMMA StartMute ==
    ASSUME NEW c, NEW t, Lettered(c)
    PROVE  Mute(c, StartBlock(c, t))
<1>1. PICK n, e : n = [type |-> t, open |-> TRUE] /\ e = Ev("block_start", Len(c.blocks) + 1, t, << >>)
  OBVIOUS
<1>2. PICK g : g = [c EXCEPT !.blocks = Append(@, n)]
  OBVIOUS
<1>3. DOMAIN g = Fields /\ g.out = c.out /\ g.buf = c.buf
  BY <1>2 DEF Lettered, Fields
<1>4. Words(e) = << >>
  BY <1>1 DEF Words, Ev
<1>5. Lettered(g)
  BY <1>3 DEF Lettered
<1>6. Mute(g, Emit(g, e))
  BY <1>4, <1>5, EmitMute
<1>7. StartBlock(c, t) = Emit(g, e)
  BY <1>1, <1>2 DEF StartBlock
<1>8. QED
  BY <1>3, <1>6, <1>7 DEF Mute

LEMMA StopsMute ==
    ASSUME NEW c, NEW is, Lettered(c), IsFiniteSet(is)
    PROVE  Mute(c, StopBlocks(c, is))
<1> DEFINE stop(i) == Ev("block_stop", i, c.blocks[i].type, << >>)
           f == [i \in is |-> stop(i)]
<1>1. PICK S : S = {Ev("block_stop", i, c.blocks[i].type, << >>) : i \in is}
  OBVIOUS
<1>2. IsFiniteSet(S)
  <2>1. f \in Surjection(is, S)
    BY <1>1 DEF Surjection
  <2> HIDE DEF f
  <2>2. QED
    BY <2>1, FS_Surjection
<1>3. \A e \in S : Words(e) = << >>
  BY <1>1 DEF Words, Ev
<1>4. PICK q : q = SetToSeq(S)
  OBVIOUS
<1>5. IsSeq(q) /\ \A i \in 1 .. Len(q) : q[i] \in S
  BY <1>2, <1>4, SetToSeqLists
<1>6. \A i \in 1 .. Len(q) : Words(q[i]) = << >>
  BY <1>3, <1>5
<1>7. Texted(q) /\ \A u : ToldOf(u, q) = << >>
  BY <1>5, <1>6, ToldSilent, ToldOfSilent
<1>8. PICK d : d = StopBlocks(c, is)
  OBVIOUS
<1>9. d.out = c.out \o q
  BY <1>1, <1>4, <1>8 DEF StopBlocks, Lettered, Fields
<1>10. ASSUME NEW u
       PROVE  ToldOf(u, d.out) = ToldOf(u, c.out)
  <2>1. ToldOf(u, c.out \o q) = ToldOf(u, c.out) \o ToldOf(u, q)
    BY <1>7, ToldOfConcat DEF Lettered
  <2>2. QED
    BY <1>7, <1>9, <2>1, TellsNoMore
<1>11. QED
  BY <1>8, <1>10 DEF Mute

LEMMA StopMute ==
    ASSUME NEW c, NEW i, Lettered(c)
    PROVE  Mute(c, StopBlock(c, i))
<1>1. IsFiniteSet({i})
  BY FS_Singleton
<1>2. Mute(c, StopBlocks(c, {i}))
  BY <1>1, StopsMute
<1>3. QED
  BY <1>2 DEF StopBlock, Mute

LEMMA OpenMute ==
    ASSUME NEW k, NEW c, NEW ts, Fit(k, c), Lettered(c)
    PROVE  Mute(c, StopBlocks(c, OpenBlocks(c, ts)))
<1>1. PICK is, n : is = OpenBlocks(c, ts) /\ n = Len(c.blocks)
  OBVIOUS
<1>2. n \in Nat /\ is \in SUBSET (1 .. n)
  BY <1>1, BlocksHave DEF Fit, Writes, OpenBlocks
<1>3. IsFiniteSet(1 .. n)
  BY <1>2, FS_Interval
<1>4. IsFiniteSet(is)
  BY <1>2, <1>3, FS_Subset
<1>5. QED
  BY <1>1, <1>4, StopsMute

LEMMA ThinkingSpeaks ==
    ASSUME NEW c, NEW s \in Seq(Letters), Lettered(c)
    PROVE  Speaks(c, ThinkingDelta(c, s), "thinking", s)
BY EmitsDelta DEF ThinkingDelta

\* A text delta is text: the index of the text block is that of a text block.
LEMMA TextSpeaks ==
    ASSUME NEW k, NEW c, NEW s \in Seq(Letters), Fit(k, c), Lettered(c)
    PROVE  Speaks(c, TextDelta(c, s), "text", s)
<1>1. CASE c.textAt # 0 /\ c.blocks[c.textAt].open
  <2>1. TextDelta(c, s) = Delta(c, c.textAt, s)
    BY <1>1 DEF TextDelta
  <2>2. c.blocks[c.textAt].type = "text"
    BY <1>1 DEF Fit, Indexed
  <2>3. Delta(c, c.textAt, s) = Emit(c, Ev("delta", c.textAt, "text", s))
    BY <1>1, <2>2 DEF Delta
  <2>4. QED
    BY <2>1, <2>3, EmitsDelta
<1>2. CASE ~(c.textAt # 0 /\ c.blocks[c.textAt].open)
  <2>1. PICK g : g = StartBlock(c, "text")
    OBVIOUS
  <2>2. Writes(k, c)
    BY DEF Fit
  <2>3. Longer(c, g, "text") /\ Silent(c, g) /\ Mute(c, g)
    BY <2>1, <2>2, BlockStarted, TypesAre, StartSilent, StartMute
  <2>4. PICK e : e = [g EXCEPT !.textAt = Len(c.blocks) + 1]
    OBVIOUS
  <2>5. /\ DOMAIN e = Fields /\ e.out = g.out /\ e.buf = g.buf /\ e.blocks = g.blocks
        /\ e.textAt = Len(c.blocks) + 1
    BY <2>3, <2>4 DEF Silent, Lettered, Fields
  <2>6. Lettered(e) /\ Mute(c, e)
    BY <2>3, <2>5 DEF Silent, Lettered, Mute
  <2>7. e.blocks[e.textAt].open /\ e.blocks[e.textAt].type = "text"
    BY <2>3, <2>5 DEF Longer
  <2>8. Delta(e, e.textAt, s) = Emit(e, Ev("delta", e.textAt, "text", s))
    BY <2>7 DEF Delta
  <2>9. Speaks(e, Emit(e, Ev("delta", e.textAt, "text", s)), "text", s)
    BY <2>6, EmitsDelta
  <2>10. TextDelta(c, s) = Delta(e, e.textAt, s)
    BY <1>2, <2>1, <2>4 DEF TextDelta
  <2>11. QED
    BY <2>6, <2>8, <2>9, <2>10, SpeaksOn
<1>3. QED
  BY <1>1, <1>2

LEMMA ClosingSpeaks ==
    ASSUME NEW c, NEW s \in Seq(Letters), Lettered(c)
    PROVE  Speaks(c, CloseThinking(c, s), "thinking", s)
<1>1. PICK d : d = IF s = << >> THEN c ELSE ThinkingDelta(c, s)
  OBVIOUS
<1>2. Speaks(c, d, "thinking", s) /\ Lettered(d)
  <2>1. CASE s = << >>
    BY <1>1, <2>1, TellsNoMore DEF Speaks
  <2>2. CASE s # << >>
    BY <1>1, <2>2, ThinkingSpeaks, ThinkingMoves DEF Moves
  <2>3. QED
    BY <2>1, <2>2
<1>3. PICK v : v = Ev("delta", d.thinkAt, "thinking", << >>)
  OBVIOUS
<1>4. PICK e : e = ThinkingDelta(d, << >>)
  OBVIOUS
<1>5. Mute(d, e) /\ Lettered(e)
  <2>1. Words(v) = << >> /\ e = Emit(d, v)
    BY <1>3, <1>4, EventWords DEF ThinkingDelta
  <2>2. QED
    BY <1>2, <2>1, EmitMute, EmitSilent DEF Silent
<1>6. Mute(e, StopBlock(e, c.thinkAt))
  BY <1>5, StopMute
<1>7. CloseThinking(c, s) = StopBlock(e, c.thinkAt)
  BY <1>1, <1>4 DEF CloseThinking
<1>8. QED
  BY <1>2, <1>5, <1>6, <1>7, SpeaksOn

LEMMA EndingSpeaks ==
    ASSUME NEW c, NEW s \in Seq(Letters), NEW rest \in Seq(Letters), Lettered(c)
    PROVE  LET d == EndThinking(c, s, rest) IN
           /\ Speaks(c, d, "thinking", s) /\ Lettered(d) /\ d.buf = rest
           /\ d.inThinking = FALSE /\ d.extracted = TRUE
<1>1. PICK d : d = CloseThinking(c, s)
  OBVIOUS
<1>2. Speaks(c, d, "thinking", s) /\ Lettered(d)
  BY <1>1, ClosingSpeaks, ClosingMoves DEF Moves
<1>3. PICK e : e = [d EXCEPT !.inThinking = FALSE, !.extracted = TRUE, !.buf = rest]
  OBVIOUS
<1>4. /\ DOMAIN e = Fields /\ e.out = d.out /\ e.buf = rest
      /\ e.inThinking = FALSE /\ e.extracted = TRUE
  BY <1>2, <1>3 DEF Lettered, Fields
<1>5. Speaks(c, e, "thinking", s) /\ Lettered(e)
  BY <1>2, <1>4 DEF Speaks, Lettered
<1>6. EndThinking(c, s, rest) = e
  BY <1>1, <1>3 DEF EndThinking
<1>7. QED
  BY <1>4, <1>5, <1>6

-----------------------------------------------------------------------------
(* Tags that do not stand beside a quote: where they are in a part of a text    *)
(* does not depend on the part.                                               *)

At(z, tag, p) == z[p] = tag[1] /\ z[p + 1] = tag[2]
Ends(z, p) == At(z, CloseTag, p) /\ z[p + 2] = NL /\ z[p + 3] = NL

LEMMA TagsAreText ==
    ASSUME NEW tag \in {OpenTag, CloseTag}
    PROVE  tag \in Seq(Letters) /\ Len(tag) = 2
<1>1. \A x \in Letters, y \in Letters : << x, y >> \in Seq(Letters)
  OBVIOUS
<1>2. "<t" \in Letters /\ "t>" \in Letters /\ "</t" \in Letters
  BY TagsAre DEF OpenTag, CloseTag, Letters
<1>3. OpenTag \in Seq(Letters) /\ CloseTag \in Seq(Letters)
  BY <1>1, <1>2 DEF OpenTag, CloseTag
<1>4. QED
  BY <1>3, TagsAre

LEMMA TagAt ==
    ASSUME NEW x \in Seq(Letters), NEW tag \in {OpenTag, CloseTag},
           NEW p \in Nat, p >= 1, p + 1 <= Len(x)
    PROVE  SubSeq(x, p, p + 1) = tag <=> At(x, tag, p)
<1>1. PICK q \in Nat : q = p - 1 /\ q + 1 = p /\ q <= p + 1 /\ (p + 1) - q = 2
  <2>1. p - 1 \in Nat /\ (p - 1) + 1 = p /\ p - 1 <= p + 1 /\ (p + 1) - (p - 1) = 2
    OBVIOUS
  <2>2. QED
    BY <2>1
<1>2. PICK r \in Nat : r = p + 1
  OBVIOUS
<1>3. PICK y : y = SubSeq(x, p, r)
  OBVIOUS
<1>4. y = Part(x, q, r)
  BY <1>1, <1>3 DEF Part
<1>5. y \in Seq(Letters) /\ Len(y) = 2 /\ \A i \in 1 .. 2 : y[i] = x[q + i]
  <2>1. q <= r /\ r <= Len(x) /\ r - q = 2
    BY <1>1, <1>2
  <2>2. /\ Part(x, q, r) \in Seq(Letters) /\ Len(Part(x, q, r)) = r - q
        /\ \A i \in 1 .. r - q : Part(x, q, r)[i] = x[q + i]
    BY <2>1, PartIs
  <2>3. QED
    BY <1>4, <2>1, <2>2
<1>6. y[1] = x[p] /\ y[2] = x[p + 1]
  <2>1. 1 \in 1 .. 2 /\ 2 \in 1 .. 2 /\ q + 1 = p /\ q + 2 = p + 1
    BY <1>1
  <2>2. QED
    BY <1>5, <2>1
<1>7. tag \in Seq(Letters) /\ Len(tag) = 2
  BY TagsAreText
<1>8. y = tag <=> At(x, tag, p)
  <2>1. ASSUME At(x, tag, p)
        PROVE  y = tag
    <3>1. \A i \in 1 .. 2 : i = 1 \/ i = 2
      OBVIOUS
    <3>2. \A i \in 1 .. Len(y) : y[i] = tag[i]
      BY <1>5, <1>6, <2>1, <3>1 DEF At
    <3>3. QED
      BY <1>5, <1>7, <3>2, SeqEqual
  <2>2. QED
    BY <1>6, <2>1 DEF At
<1>9. QED
  BY <1>2, <1>3, <1>8

\* The tags in a part of a text without quoted tags.
LEMMA BareTags ==
    ASSUME NEW z \in Seq(Letters), NEW m \in Nat, m <= Len(z), Bare(Part(z, 0, m)),
           NEW k \in Nat, k <= m, NEW tag \in {OpenTag, CloseTag}, NEW p
    PROVE  p \in Unquoted(Part(z, k, m), tag) <=> p \in 1 .. m - k - 1 /\ At(z, tag, k + p)
<1>1. PICK x, y : x = Part(z, k, m) /\ y = Part(z, 0, m)
  OBVIOUS
<1>2. x \in Seq(Letters) /\ Len(x) = m - k /\ \A i \in 1 .. m - k : x[i] = z[k + i]
  BY <1>1, PartIs
<1>3. y \in Seq(Letters) /\ Len(y) = m /\ \A i \in 1 .. m : y[i] = z[i]
  <2>1. /\ Part(z, 0, m) \in Seq(Letters) /\ Len(Part(z, 0, m)) = m - 0
        /\ \A i \in 1 .. m - 0 : Part(z, 0, m)[i] = z[0 + i]
    BY PartIs
  <2>2. m - 0 = m /\ \A i \in 1 .. m : 0 + i = i
    OBVIOUS
  <2>3. QED
    BY <1>1, <2>1, <2>2
<1>4. Len(tag) = 2
  BY TagsAreText
<1>5. ASSUME p \in Unquoted(x, tag)
      PROVE  p \in 1 .. m - k - 1 /\ At(z, tag, k + p)
  <2>1. p \in 1 .. Len(x) + 1 - 2 /\ SubSeq(x, p, p + 2 - 1) = tag
    BY <1>4, <1>5 DEF Unquoted
  <2>2. p \in Nat /\ p >= 1 /\ p + 1 <= Len(x) /\ p + 2 - 1 = p + 1 /\ p \in 1 .. m - k - 1
    BY <1>2, <2>1
  <2>3. At(x, tag, p)
    BY <1>2, <2>1, <2>2, TagAt
  <2>4. p \in 1 .. m - k /\ p + 1 \in 1 .. m - k /\ k + (p + 1) = (k + p) + 1
    BY <2>2
  <2>5. x[p] = z[k + p] /\ x[p + 1] = z[(k + p) + 1]
    BY <1>2, <2>4
  <2>6. QED
    BY <2>2, <2>3, <2>5 DEF At
<1>6. ASSUME p \in 1 .. m - k - 1, At(z, tag, k + p)
      PROVE  p \in Unquoted(x, tag)
  <2>1. PICK q \in Nat : q = k + p /\ q \in 1 .. m - 1 /\ q + 1 \in 1 .. m /\ q >= p
    <3>1. k + p \in Nat /\ k + p \in 1 .. m - 1 /\ (k + p) + 1 \in 1 .. m /\ k + p >= p
      BY <1>6
    <3>2. QED
      BY <3>1
  <2>2. At(y, tag, q)
    <3>1. q \in 1 .. m /\ q + 1 \in 1 .. m
      BY <2>1
    <3>2. y[q] = z[q] /\ y[q + 1] = z[q + 1]
      BY <1>3, <3>1
    <3>3. QED
      BY <1>6, <2>1, <3>2 DEF At
  <2>3. q \in 1 .. Len(y) - 1 /\ q + 1 <= Len(y) /\ q >= 1
    BY <1>3, <2>1
  <2>4. SubSeq(y, q, q + 1) = tag
    BY <1>3, <2>2, <2>3, TagAt
  <2>5. q \in Unquoted(y, tag)
    BY <1>1, <2>3, <2>4 DEF Bare
  <2>6. /\ q > 1 => y[q - 1] \notin QuoteBefore
        /\ q + 2 <= Len(y) => y[q + 2] \notin QuoteAfter
    BY <1>4, <2>5 DEF Unquoted
  <2>7. p \in Nat /\ p >= 1 /\ p + 1 <= Len(x) /\ p \in 1 .. Len(x) + 1 - 2 /\ p + 2 - 1 = p + 1
    BY <1>2, <1>6
  <2>8. SubSeq(x, p, p + 1) = tag
    <3>1. p \in 1 .. m - k /\ p + 1 \in 1 .. m - k /\ k + p = q /\ k + (p + 1) = q + 1
      BY <1>6, <2>1
    <3>2. x[p] = z[q] /\ x[p + 1] = z[q + 1]
      BY <1>2, <3>1
    <3>3. At(x, tag, p)
      BY <1>6, <2>1, <3>2 DEF At
    <3>4. QED
      BY <1>2, <2>7, <3>3, TagAt
  <2>9. ASSUME p > 1
        PROVE  x[p - 1] \notin QuoteBefore
    <3>1. q > 1 /\ p - 1 \in 1 .. m - k /\ k + (p - 1) = q - 1 /\ q - 1 \in 1 .. m
      BY <1>6, <2>1, <2>9
    <3>2. x[p - 1] = z[q - 1] /\ y[q - 1] = z[q - 1]
      BY <1>2, <1>3, <3>1
    <3>3. QED
      BY <2>6, <3>1, <3>2
  <2>10. ASSUME p + 2 <= Len(x)
         PROVE  x[p + 2] \notin QuoteAfter
    <3>1. p + 2 \in 1 .. m - k /\ k + (p + 2) = q + 2 /\ q + 2 \in 1 .. m /\ q + 2 <= Len(y)
      BY <1>2, <1>3, <1>6, <2>1, <2>10
    <3>2. x[p + 2] = z[q + 2] /\ y[q + 2] = z[q + 2]
      BY <1>2, <1>3, <3>1
    <3>3. QED
      BY <2>6, <3>1, <3>2
  <2>11. QED
    BY <1>4, <2>7, <2>8, <2>9, <2>10 DEF Unquoted
<1>7. QED
  BY <1>1, <1>5, <1>6

LEMMA TwoNewlines ==
    ASSUME NEW r \in Seq(Letters)
    PROVE  IsPrefix(<<NL, NL>>, r) <=> 2 <= Len(r) /\ r[1] = NL /\ r[2] = NL
<1>1. PICK q : q = <<NL, NL>>
  OBVIOUS
<1>2. q \in Seq({NL}) /\ Len(q) = 2 /\ q[1] = NL /\ q[2] = NL
  BY <1>1
<1>3. SubSeq(q, 1, 2) = q
  BY <1>2, SubSeqFull
<1>4. IsPrefix(q, r) <=> 2 <= Len(r) /\ q = SubSeq(r, 1, 2)
  BY <1>2, <1>3 DEF IsPrefix
<1>5. ASSUME 2 <= Len(r)
      PROVE  q = SubSeq(r, 1, 2) <=> r[1] = NL /\ r[2] = NL
  <2>1. PICK y : y = SubSeq(r, 1, 2)
    OBVIOUS
  <2>2. y = Part(r, 0, 2)
    BY <2>1 DEF Part
  <2>3. y \in Seq(Letters) /\ Len(y) = 2 /\ y[1] = r[1] /\ y[2] = r[2]
    <3>1. PICK a \in Nat, b \in Nat : a = 0 /\ b = 2
      OBVIOUS
    <3>2. a <= b /\ b <= Len(r)
      BY <1>5, <3>1
    <3>3. /\ Part(r, a, b) \in Seq(Letters) /\ Len(Part(r, a, b)) = b - a
          /\ \A i \in 1 .. b - a : Part(r, a, b)[i] = r[a + i]
      BY <3>2, PartIs
    <3>4. 1 \in 1 .. b - a /\ 2 \in 1 .. b - a /\ a + 1 = 1 /\ a + 2 = 2 /\ b - a = 2
      BY <3>1
    <3>5. QED
      BY <2>2, <3>1, <3>3, <3>4
  <2>4. q \in Seq(Letters)
    <3>1. {NL} \subseteq Letters
      BY DEF Letters, Markup
    <3>2. QED
      BY <1>2, <3>1, SeqMonotonic
  <2>5. ASSUME r[1] = NL, r[2] = NL
        PROVE  q = y
    <3>1. \A i \in 1 .. 2 : i = 1 \/ i = 2
      OBVIOUS
    <3>2. \A i \in 1 .. Len(q) : q[i] = y[i]
      BY <1>2, <2>3, <2>5, <3>1
    <3>3. QED
      BY <1>2, <2>3, <2>4, <3>2, SeqEqual
  <2>6. QED
    BY <1>2, <2>1, <2>3, <2>5
<1>6. QED
  BY <1>1, <1>4, <1>5

LEMMA FirstLeast ==
    ASSUME NEW ps, ps \subseteq Nat, 0 \notin ps
    PROVE  /\ First(ps) \in Nat
           /\ First(ps) = 0 => ps = {}
           /\ First(ps) # 0 => First(ps) \in ps /\ \A q \in ps : First(ps) <= q
<1>1. CASE ps = {}
  BY <1>1 DEF First
<1>2. CASE ps # {}
  <2>1. First(ps) = Min(ps)
    BY <1>2 DEF First
  <2>2. \E x \in ps : \A y \in ps : x <= y
    BY <1>2, LeastOf
  <2>3. Min(ps) \in ps /\ \A y \in ps : Min(ps) <= y
    BY <2>2 DEF Min
  <2>4. QED
    BY <2>1, <2>3
<1>3. QED
  BY <1>1, <1>2

NoOpens(z, a, m) == \A p \in a + 1 .. m - 1 : ~At(z, OpenTag, p)
NoEnds(z, a, m) == \A p \in a + 1 .. m - 3 : ~Ends(z, p)

\* P is where the first opening tag after a stands, Q the first end of thinking
FirstOpen(z, a, P, m) == P \in a + 1 .. m - 1 /\ At(z, OpenTag, P) /\ NoOpens(z, a, P)
FirstEnd(z, a, Q, m)  == Q \in a + 1 .. m - 3 /\ Ends(z, Q) /\ NoEnds(z, a, Q + 2)

\* a closing tag at Q with nothing but white space after it
LastClose(z, a, Q, m) ==
    Q \in a + 1 .. m - 1 /\ At(z, CloseTag, Q) /\ \A i \in Q + 2 .. m : z[i] = NL

BareText(z, m) == z \in Seq(Letters) /\ m \in Nat /\ m <= Len(z) /\ Bare(Part(z, 0, m))

LEMMA StartTagAt ==
    ASSUME NEW z, NEW m, BareText(z, m), NEW k \in Nat, k <= m, NEW p, p = StartTag(Part(z, k, m))
    PROVE  /\ p \in Nat
           /\ p = 0 => NoOpens(z, k, m)
           /\ p # 0 => FirstOpen(z, k, k + p, m)
<1>1. z \in Seq(Letters) /\ m \in Nat /\ m <= Len(z) /\ Bare(Part(z, 0, m))
  BY DEF BareText
<1>2. PICK ps : ps = Unquoted(Part(z, k, m), OpenTag)
  OBVIOUS
<1>3. \A q : q \in ps <=> q \in 1 .. m - k - 1 /\ At(z, OpenTag, k + q)
  BY <1>1, <1>2, BareTags
<1>4. ps \subseteq Nat /\ 0 \notin ps /\ p = First(ps)
  BY <1>1, <1>2, <1>3 DEF StartTag
<1>5. /\ p \in Nat
      /\ p = 0 => ps = {}
      /\ p # 0 => p \in ps /\ \A q \in ps : p <= q
  BY <1>4, FirstLeast
<1>6. ASSUME NEW r \in k + 1 .. m - 1, At(z, OpenTag, r)
      PROVE  r - k \in ps /\ k + (r - k) = r
  <2>1. PICK q \in Int : q = r - k /\ q \in 1 .. m - k - 1 /\ k + q = r
    <3>1. r - k \in Int /\ r - k \in 1 .. m - k - 1 /\ k + (r - k) = r
      BY <1>1
    <3>2. QED
      BY <3>1
  <2>2. QED
    BY <1>3, <1>6, <2>1
<1>7. ASSUME p = 0
      PROVE  NoOpens(z, k, m)
  BY <1>5, <1>6, <1>7 DEF NoOpens
<1>8. ASSUME p # 0
      PROVE  FirstOpen(z, k, k + p, m)
  <2>1. p \in 1 .. m - k - 1 /\ At(z, OpenTag, k + p) /\ \A q \in ps : p <= q
    BY <1>3, <1>5, <1>8
  <2>2. k + p \in k + 1 .. m - 1
    BY <1>1, <2>1
  <2>3. ASSUME NEW r \in k + 1 .. (k + p) - 1
        PROVE  ~At(z, OpenTag, r)
    <3>1. r \in k + 1 .. m - 1 /\ r - k < p
      BY <1>1, <2>1
    <3>2. QED
      BY <1>1, <1>5, <1>6, <2>1, <3>1
  <2>4. QED
    BY <2>1, <2>2, <2>3 DEF FirstOpen, NoOpens
<1>9. QED
  BY <1>5, <1>7, <1>8

\* What stands after a tag in a part of a text.
LEMMA AfterTag ==
    ASSUME NEW z, NEW m, BareText(z, m), NEW k \in Nat, k <= m, NEW p \in 1 .. m - k - 1
    PROVE  LET r == Drop(Part(z, k, m), p + Len(CloseTag) - 1) IN
           /\ r = Part(z, k + p + 1, m) /\ r \in Seq(Letters) /\ Len(r) = m - k - p - 1
           /\ \A i \in 1 .. m - k - p - 1 : r[i] = z[k + p + 1 + i]
<1>1. z \in Seq(Letters) /\ m \in Nat /\ m <= Len(z)
  BY DEF BareText
<1>2. PICK n \in Nat : n = p + 1 /\ n <= m - k
  <2>1. p + 1 \in Nat /\ p + 1 <= m - k
    BY <1>1
  <2>2. QED
    BY <2>1
<1>3. PICK l \in Nat : l = k + n /\ l <= m /\ l = k + p + 1 /\ m - l = m - k - p - 1
  <2>1. k + n \in Nat /\ k + n <= m /\ k + n = k + p + 1 /\ m - (k + n) = m - k - p - 1
    BY <1>1, <1>2
  <2>2. QED
    BY <2>1
<1>4. p + Len(CloseTag) - 1 = n
  BY <1>2, TagsAre
<1>5. Drop(Part(z, k, m), n) = Part(z, k + n, m)
  BY <1>1, <1>2, PartOfPart
<1>6. /\ Part(z, l, m) \in Seq(Letters) /\ Len(Part(z, l, m)) = m - l
      /\ \A i \in 1 .. m - l : Part(z, l, m)[i] = z[l + i]
  BY <1>1, <1>3, PartIs
<1>7. QED
  BY <1>3, <1>4, <1>5, <1>6

LEMMA EndTagAt ==
    ASSUME NEW z, NEW m, BareText(z, m), NEW k \in Nat, k <= m, NEW p, p = EndTag(Part(z, k, m))
    PROVE  /\ p \in Nat
           /\ p = 0 => NoEnds(z, k, m)
           /\ p # 0 => FirstEnd(z, k, k + p, m)
<1> DEFINE cut(q) == Drop(Part(z, k, m), q + Len(CloseTag) - 1)
<1>1. z \in Seq(Letters) /\ m \in Nat /\ m <= Len(z) /\ Bare(Part(z, 0, m))
  BY DEF BareText
<1>2. PICK us : us = Unquoted(Part(z, k, m), CloseTag)
  OBVIOUS
<1>3. \A q : q \in us <=> q \in 1 .. m - k - 1 /\ At(z, CloseTag, k + q)
  BY <1>1, <1>2, BareTags
<1>4. PICK ps : ps = {q \in us : IsPrefix(<<NL, NL>>, cut(q))}
  OBVIOUS
<1>5. ASSUME NEW q \in 1 .. m - k - 1
      PROVE  IsPrefix(<<NL, NL>>, cut(q)) <=> q \in 1 .. m - k - 3 /\ z[(k + q) + 2] = NL /\ z[(k + q) + 3] = NL
  <2>1. PICK r : r = cut(q)
    OBVIOUS
  <2>2. /\ r \in Seq(Letters) /\ Len(r) = m - k - q - 1
        /\ \A i \in 1 .. m - k - q - 1 : r[i] = z[k + q + 1 + i]
    BY <2>1, AfterTag
  <2>3. IsPrefix(<<NL, NL>>, r) <=> 2 <= Len(r) /\ r[1] = NL /\ r[2] = NL
    BY <2>2, TwoNewlines
  <2>4. 2 <= Len(r) <=> q \in 1 .. m - k - 3
    BY <1>1, <2>2
  <2>5. ASSUME 2 <= Len(r)
        PROVE  r[1] = z[(k + q) + 2] /\ r[2] = z[(k + q) + 3]
    <3>1. 1 \in 1 .. m - k - q - 1 /\ 2 \in 1 .. m - k - q - 1
      BY <1>1, <2>2, <2>5
    <3>2. k + q + 1 + 1 = (k + q) + 2 /\ k + q + 1 + 2 = (k + q) + 3
      OBVIOUS
    <3>3. QED
      BY <2>2, <3>1, <3>2
  <2> HIDE DEF cut
  <2>6. QED
    BY <2>1, <2>3, <2>4, <2>5
<1>6. p = First(ps)
  BY <1>2, <1>4 DEF EndTag
<1> HIDE DEF cut
<1>7. ASSUME NEW q
      PROVE  q \in ps <=> q \in 1 .. m - k - 3 /\ Ends(z, k + q)
  <2>1. q \in 1 .. m - k - 3 => q \in 1 .. m - k - 1
    BY <1>1
  <2>2. QED
    BY <1>3, <1>4, <1>5, <2>1 DEF Ends
<1>8. ps \subseteq Nat /\ 0 \notin ps
  BY <1>1, <1>7
<1>9. /\ p \in Nat
      /\ p = 0 => ps = {}
      /\ p # 0 => p \in ps /\ \A q \in ps : p <= q
  BY <1>6, <1>8, FirstLeast
<1>10. ASSUME NEW r \in k + 1 .. m - 3, Ends(z, r)
       PROVE  r - k \in ps
  <2>1. PICK q \in Int : q = r - k /\ q \in 1 .. m - k - 3 /\ k + q = r
    <3>1. r - k \in Int /\ r - k \in 1 .. m - k - 3 /\ k + (r - k) = r
      BY <1>1
    <3>2. QED
      BY <3>1
  <2>2. QED
    BY <1>7, <1>10, <2>1
<1>11. ASSUME p = 0
       PROVE  NoEnds(z, k, m)
  BY <1>9, <1>10, <1>11 DEF NoEnds
<1>12. ASSUME p # 0
       PROVE  FirstEnd(z, k, k + p, m)
  <2>1. p \in 1 .. m - k - 3 /\ Ends(z, k + p) /\ \A q \in ps : p <= q
    BY <1>7, <1>9, <1>12
  <2>2. k + p \in k + 1 .. m - 3
    BY <1>1, <2>1
  <2>3. ASSUME NEW r \in k + 1 .. ((k + p) + 2) - 3
        PROVE  ~Ends(z, r)
    <3>1. r \in k + 1 .. m - 3 /\ r - k < p
      BY <1>1, <2>1
    <3>2. QED
      BY <1>1, <1>9, <1>10, <2>1, <3>1
  <2>4. QED
    BY <2>1, <2>2, <2>3 DEF FirstEnd, NoEnds
<1>13. QED
  BY <1>9, <1>11, <1>12

LEMMA EndTagAtEndAt ==
    ASSUME NEW z, NEW m, BareText(z, m), NEW k \in Nat, k <= m,
           NEW p, p = EndTagAtEnd(Part(z, k, m))
    PROVE  /\ p \in Nat
           /\ p = 0 => \A Q : ~LastClose(z, k, Q, m)
           /\ p # 0 => LastClose(z, k, k + p, m)
<1> DEFINE cut(q) == Drop(Part(z, k, m), q + Len(CloseTag) - 1)
<1>1. z \in Seq(Letters) /\ m \in Nat /\ m <= Len(z) /\ Bare(Part(z, 0, m))
  BY DEF BareText
<1>2. PICK us : us = Unquoted(Part(z, k, m), CloseTag)
  OBVIOUS
<1>3. \A q : q \in us <=> q \in 1 .. m - k - 1 /\ At(z, CloseTag, k + q)
  BY <1>1, <1>2, BareTags
<1>4. PICK ps : ps = {q \in us : Blank(cut(q))}
  OBVIOUS
<1>5. ASSUME NEW q \in 1 .. m - k - 1
      PROVE  Blank(cut(q)) <=> \A i \in (k + q) + 2 .. m : z[i] = NL
  <2>1. PICK r, n : r = cut(q) /\ n = m - k - q - 1
    OBVIOUS
  <2>2. /\ r \in Seq(Letters) /\ Len(r) = n /\ n \in Nat
        /\ \A i \in 1 .. n : r[i] = z[k + q + 1 + i]
    <3>1. /\ r \in Seq(Letters) /\ Len(r) = m - k - q - 1
          /\ \A i \in 1 .. m - k - q - 1 : r[i] = z[k + q + 1 + i]
      BY <2>1, AfterTag
    <3>2. m - k - q - 1 \in Nat
      BY <1>1
    <3>3. QED
      BY <2>1, <3>1, <3>2
  <2>3. DOMAIN r = 1 .. n
    BY <2>2, LenProperties
  <2>4. ASSUME Blank(r), NEW i \in (k + q) + 2 .. m
        PROVE  z[i] = NL
    <3>1. PICK j \in 1 .. n : k + q + 1 + j = i
      <4>1. i - (k + q + 1) \in 1 .. n /\ k + q + 1 + (i - (k + q + 1)) = i
        BY <1>1, <2>1
      <4>2. QED
        BY <4>1
    <3>2. QED
      BY <2>2, <2>3, <2>4, <3>1 DEF Blank
  <2>5. ASSUME \A i \in (k + q) + 2 .. m : z[i] = NL
        PROVE  Blank(r)
    <3>1. ASSUME NEW j \in 1 .. n
          PROVE  r[j] = NL
      <4>1. k + q + 1 + j \in (k + q) + 2 .. m
        BY <1>1, <2>1
      <4>2. QED
        BY <2>2, <2>5, <4>1
    <3>2. QED
      BY <2>3, <3>1 DEF Blank
  <2> HIDE DEF cut
  <2>6. QED
    BY <2>1, <2>4, <2>5
<1>6. p = First(ps)
  BY <1>2, <1>4 DEF EndTagAtEnd
<1> HIDE DEF cut
<1>7. ASSUME NEW q \in 1 .. m - k - 1
      PROVE  q \in ps <=> LastClose(z, k, k + q, m)
  <2>1. k + q \in k + 1 .. m - 1
    BY <1>1
  <2>2. QED
    BY <1>3, <1>4, <1>5, <2>1 DEF LastClose
<1>8. ps \subseteq 1 .. m - k - 1
  BY <1>3, <1>4
<1>9. ps \subseteq Nat /\ 0 \notin ps
  BY <1>1, <1>8
<1>10. /\ p \in Nat
       /\ p = 0 => ps = {}
       /\ p # 0 => p \in ps
  BY <1>6, <1>9, FirstLeast
<1>11. ASSUME p = 0, NEW Q, LastClose(z, k, Q, m)
       PROVE  FALSE
  <2>1. Q \in k + 1 .. m - 1
    BY <1>11 DEF LastClose
  <2>2. PICK q \in 1 .. m - k - 1 : k + q = Q
    <3>1. Q - k \in 1 .. m - k - 1 /\ k + (Q - k) = Q
      BY <1>1, <2>1
    <3>2. QED
      BY <3>1
  <2>3. q \in ps
    BY <1>7, <1>11, <2>2
  <2>4. QED
    BY <1>10, <1>11, <2>3
<1>12. ASSUME p # 0
       PROVE  LastClose(z, k, k + p, m)
  BY <1>7, <1>8, <1>10, <1>12
<1>13. QED
  BY <1>10, <1>11, <1>12

\* There is one first tag, and one last.
LEMMA OneFirst ==
    ASSUME NEW z, NEW a \in Nat, NEW m \in Nat, NEW P, NEW R
    PROVE  /\ FirstOpen(z, a, P, m) /\ FirstOpen(z, a, R, m) => P = R
           /\ FirstEnd(z, a, P, m) /\ FirstEnd(z, a, R, m) => P = R
           /\ LastClose(z, a, P, m) /\ LastClose(z, a, R, m) => P = R
           /\ NoEnds(z, a, m) => ~FirstEnd(z, a, P, m)
<1>1. ASSUME FirstOpen(z, a, P, m), FirstOpen(z, a, R, m)
      PROVE  P = R
  <2>1. P \in a + 1 .. m - 1 /\ R \in a + 1 .. m - 1
    BY <1>1 DEF FirstOpen
  <2>2. ~(P < R) /\ ~(R < P)
    <3>1. P < R => P \in a + 1 .. R - 1
      BY <2>1
    <3>2. R < P => R \in a + 1 .. P - 1
      BY <2>1
    <3>3. QED
      BY <1>1, <3>1, <3>2 DEF FirstOpen, NoOpens
  <2>3. QED
    BY <2>1, <2>2
<1>2. ASSUME FirstEnd(z, a, P, m), FirstEnd(z, a, R, m)
      PROVE  P = R
  <2>1. P \in a + 1 .. m - 3 /\ R \in a + 1 .. m - 3
    BY <1>2 DEF FirstEnd
  <2>2. ~(P < R) /\ ~(R < P)
    <3>1. P < R => P \in a + 1 .. (R + 2) - 3
      BY <2>1
    <3>2. R < P => R \in a + 1 .. (P + 2) - 3
      BY <2>1
    <3>3. QED
      BY <1>2, <3>1, <3>2 DEF FirstEnd, NoEnds
  <2>3. QED
    BY <2>1, <2>2
<1>3. ASSUME LastClose(z, a, P, m), LastClose(z, a, R, m)
      PROVE  P = R
  <2>1. P \in a + 1 .. m - 1 /\ R \in a + 1 .. m - 1
    BY <1>3 DEF LastClose
  <2>2. /\ z[P] = CloseTag[1] /\ z[P + 1] = CloseTag[2]
        /\ z[R] = CloseTag[1] /\ z[R + 1] = CloseTag[2]
        /\ \A i \in P + 2 .. m : z[i] = NL
        /\ \A i \in R + 2 .. m : z[i] = NL
    BY <1>3 DEF LastClose, At
  <2>3. CloseTag[1] # NL /\ CloseTag[2] # NL
    BY DEF CloseTag, NL
  <2>4. ~(P < R) /\ ~(R < P)
    <3>1. P < R => R + 1 \in P + 2 .. m
      BY <2>1
    <3>2. R < P => P + 1 \in R + 2 .. m
      BY <2>1
    <3>3. QED
      BY <2>2, <2>3, <3>1, <3>2
  <2>5. QED
    BY <2>1, <2>4
<1>4. ASSUME NoEnds(z, a, m), FirstEnd(z, a, P, m)
      PROVE  FALSE
  BY <1>4 DEF NoEnds, FirstEnd
<1>5. QED
  BY <1>1, <1>2, <1>3, <1>4

\* The thinking of w is what stands between the tag at P and that at Q.
Divided(z, m, P, Q, w) ==
    w.thinking = Part(z, P + 1, Q - 1) /\ w.text = Part(z, 0, P - 1) \o Part(z, Q + 1, m)

LEMMA CompleteAt ==
    ASSUME NEW z, NEW m, BareText(z, m), NEW w, w = Complete(Part(z, 0, m)), w.found
    PROVE  \E P \in 1 .. m - 1, Q \in 1 .. m - 1 :
              /\ FirstOpen(z, 0, P, m) /\ Divided(z, m, P, Q, w)
              /\ \/ FirstEnd(z, P + 1, Q, m)
                 \/ NoEnds(z, P + 1, m) /\ LastClose(z, P + 1, Q, m)
<1>1. z \in Seq(Letters) /\ m \in Nat /\ m <= Len(z)
  BY DEF BareText
<1>2. PICK s, p : s = Part(z, 0, m) /\ p = StartTag(s)
  OBVIOUS
<1>3. PICK rest, e, f, q : /\ rest = Drop(s, p + Len(OpenTag) - 1)
                           /\ e = EndTag(rest) /\ f = EndTagAtEnd(rest)
                           /\ q = IF e # 0 THEN e ELSE f
  OBVIOUS
<1>4. w = IF p = 0 \/ q = 0 THEN [found |-> FALSE, thinking |-> << >>, text |-> s]
          ELSE [found |-> TRUE, thinking |-> Take(rest, q - 1),
                text |-> Take(s, p - 1) \o Drop(rest, q + Len(CloseTag) - 1)]
  BY <1>2, <1>3 DEF Complete
<1>5. p # 0 /\ q # 0
  BY <1>4
<1>6. PICK a \in Nat : a = 0 /\ a <= m
  BY <1>1
<1>7. p \in Nat /\ FirstOpen(z, 0, p, m)
  <2>1. p = StartTag(Part(z, a, m))
    BY <1>2, <1>6
  <2>2. p \in Nat /\ FirstOpen(z, a, a + p, m)
    BY <1>5, <1>6, <2>1, StartTagAt
  <2>3. QED
    BY <1>6, <2>2
<1>8. p \in 1 .. m - 1
  BY <1>7 DEF FirstOpen
<1>9. PICK k \in Nat : k = p + 1 /\ k <= m
  <2>1. p + 1 \in Nat /\ p + 1 <= m
    BY <1>1, <1>8
  <2>2. QED
    BY <2>1
<1>10. rest = Part(z, k, m) /\ Take(s, p - 1) = Part(z, 0, p - 1)
  <2>1. p + Len(OpenTag) - 1 = k
    BY <1>9, TagsAre
  <2>2. PICK n \in Nat : n = p - 1 /\ n <= m
    BY <1>1, <1>8
  <2>3. a <= m /\ k <= m - a /\ n <= m - a /\ a + k = k /\ a + n = n
    BY <1>1, <1>6, <1>9, <2>2
  <2>4. Drop(Part(z, a, m), k) = Part(z, a + k, m)
    BY <1>1, <2>3, PartOfPart
  <2>5. Take(Part(z, a, m), n) = Part(z, a, a + n)
    BY <1>1, <2>3, PartOfPart
  <2>6. QED
    BY <1>2, <1>3, <1>6, <2>1, <2>2, <2>3, <2>4, <2>5
<1>11. /\ e \in Nat /\ f \in Nat
       /\ e = 0 => NoEnds(z, k, m)
       /\ e # 0 => FirstEnd(z, k, k + e, m)
       /\ f # 0 => LastClose(z, k, k + f, m)
  <2>1. e = EndTag(Part(z, k, m)) /\ f = EndTagAtEnd(Part(z, k, m))
    BY <1>3, <1>10
  <2>2. /\ e \in Nat
        /\ e = 0 => NoEnds(z, k, m)
        /\ e # 0 => FirstEnd(z, k, k + e, m)
    BY <1>9, <2>1, EndTagAt
  <2>3. f \in Nat /\ (f # 0 => LastClose(z, k, k + f, m))
    BY <1>9, <2>1, EndTagAtEndAt
  <2>4. QED
    BY <2>2, <2>3
<1>12. \/ FirstEnd(z, k, k + q, m)
       \/ NoEnds(z, k, m) /\ LastClose(z, k, k + q, m)
  BY <1>3, <1>5, <1>11
<1>13. PICK Q \in 1 .. m - 1 : Q = k + q /\ q \in 1 .. m - k - 1
  <2>1. k + q \in k + 1 .. m - 1 /\ q \in Nat
    <3>1. q \in Nat
      BY <1>3, <1>11
    <3>2. k + q \in k + 1 .. m - 3 \/ k + q \in k + 1 .. m - 1
      BY <1>12 DEF FirstEnd, LastClose
    <3>3. QED
      BY <1>1, <3>1, <3>2
  <2>2. k + q \in 1 .. m - 1 /\ q \in 1 .. m - k - 1
    BY <1>1, <2>1
  <2>3. QED
    BY <2>2
<1>14. Take(rest, q - 1) = Part(z, k, Q - 1)
  <2>1. PICK n \in Nat : n = q - 1 /\ n <= m - k /\ k + n = Q - 1
    <3>1. q - 1 \in Nat /\ q - 1 <= m - k /\ k + (q - 1) = Q - 1
      BY <1>1, <1>13
    <3>2. QED
      BY <3>1
  <2>2. Take(Part(z, k, m), n) = Part(z, k, k + n)
    BY <1>1, <1>9, <2>1, PartOfPart
  <2>3. QED
    BY <1>10, <2>1, <2>2
<1>15. Drop(rest, q + Len(CloseTag) - 1) = Part(z, Q + 1, m)
  <2>1. Drop(Part(z, k, m), q + Len(CloseTag) - 1) = Part(z, k + q + 1, m)
    BY <1>9, <1>13, AfterTag
  <2>2. k + q + 1 = Q + 1
    BY <1>13
  <2>3. QED
    BY <1>10, <2>1, <2>2
<1>16. Divided(z, m, p, Q, w)
  <2>1. w = [found |-> TRUE, thinking |-> Take(rest, q - 1),
             text |-> Take(s, p - 1) \o Drop(rest, q + Len(CloseTag) - 1)]
    BY <1>4, <1>5
  <2>2. w.thinking = Take(rest, q - 1)
    BY <2>1
  <2>3. w.text = Take(s, p - 1) \o Drop(rest, q + Len(CloseTag) - 1)
    BY <2>1
  <2>4. QED
    BY <1>9, <1>10, <1>14, <1>15, <2>2, <2>3 DEF Divided
<1>17. \/ FirstEnd(z, p + 1, Q, m)
       \/ NoEnds(z, p + 1, m) /\ LastClose(z, p + 1, Q, m)
  BY <1>9, <1>12, <1>13
<1>18. QED
  BY <1>7, <1>8, <1>13, <1>16, <1>17

-----------------------------------------------------------------------------
(* How far the stream has come in a text z, of which m characters have arrived *)
(* and the buffer holds those after k. Heard is what is said of a type, h of it *)
(* sent already, up to white space.                                           *)

Heard(h, c, t) == Solid(h \o ToldOf(t, c.out))

LEMMA HeardMore ==
    ASSUME NEW h \in Seq(Letters), NEW c, Lettered(c), NEW d, NEW t
    PROVE  /\ Heard(h, c, t) \in Seq(Letters)
           /\ Mute(c, d) => Heard(h, d, t) = Heard(h, c, t)
           /\ \A s \in Seq(Letters) : \A u :
                 Speaks(c, d, u, s) => Heard(h, d, t) = IF t = u THEN Heard(h, c, t) \o Solid(s)
                                                                ELSE Heard(h, c, t)
<1>1. PICK x \in Seq(Letters) : x = ToldOf(t, c.out)
  BY TellsNoMore
<1>2. h \o x \in Seq(Letters)
  BY SolidConcat
<1>3. Heard(h, c, t) \in Seq(Letters)
  BY <1>1, <1>2, SolidTypes DEF Heard
<1>4. Mute(c, d) => Heard(h, d, t) = Heard(h, c, t)
  BY DEF Mute, Heard
<1>5. ASSUME NEW s \in Seq(Letters), NEW u, Speaks(c, d, u, s), t = u
      PROVE  Heard(h, d, t) = Heard(h, c, t) \o Solid(s)
  <2>1. ToldOf(t, d.out) = x \o s
    BY <1>1, <1>5 DEF Speaks
  <2>2. Regrouped(h, x, s)
    BY Regroup
  <2>3. PICK y : y = h \o x
    OBVIOUS
  <2>4. Solid(y \o s) = Solid(y) \o Solid(s)
    BY <1>2, <2>3, SolidConcat
  <2>5. Heard(h, d, t) = Solid(h \o (x \o s)) /\ Heard(h, c, t) = Solid(h \o x)
    BY <1>1, <2>1 DEF Heard
  <2>6. QED
    BY <2>2, <2>3, <2>4, <2>5 DEF Regrouped
<1>6. ASSUME NEW s \in Seq(Letters), NEW u, Speaks(c, d, u, s), t # u
      PROVE  Heard(h, d, t) = Heard(h, c, t)
  BY <1>6 DEF Speaks, Heard
<1>7. QED
  BY <1>3, <1>4, <1>5, <1>6

\* What is said of the type that speaks.
Spoke(h, c, d, t, s) == Heard(h, d, t) = Heard(h, c, t) \o Solid(s)

LEMMA HeardSaid ==
    ASSUME NEW h \in Seq(Letters), NEW c, Lettered(c), NEW d, NEW t, NEW s \in Seq(Letters),
           Speaks(c, d, t, s)
    PROVE  Spoke(h, c, d, t, s)
BY HeardMore DEF Spoke

Holds(z, m, k, c) == k \in 0 .. m /\ c.buf = Part(z, k, m)

\* nothing but text up to k
NotYet(z, k, c, h, g) ==
    /\ c.inThinking = FALSE /\ c.extracted = FALSE
    /\ Heard(h, c, "thinking") = << >> /\ Heard(g, c, "text") = Solid(Part(z, 0, k))

\* the thinking that begins with the tag at P, up to k
Within(z, P, k, c, h, g) ==
    /\ c.inThinking = TRUE /\ c.extracted = FALSE
    /\ Heard(h, c, "thinking") = Solid(Part(z, P + 1, k))
    /\ Heard(g, c, "text") = Solid(Part(z, 0, P - 1))

\* the thinking between the tags at P and Q, and text up to k
Past(z, P, Q, k, c, h, g) ==
    /\ c.inThinking = FALSE /\ c.extracted = TRUE
    /\ Heard(h, c, "thinking") = Solid(Part(z, P + 1, Q - 1))
    /\ Heard(g, c, "text") = Solid(Part(z, 0, P - 1)) \o Solid(Part(z, Q + 3, k))

\* a closing tag that has been sent has had two characters after it to look at
Clear(z, a, k, m) == \A p \in a + 1 .. k : z[p] = CloseTag[1] => p + 3 <= m

Before(z, m, c, h, g) ==
    /\ NoOpens(z, 0, m)
    /\ \E k \in 0 .. m : (k = 0 \/ k + 2 <= m) /\ Holds(z, m, k, c) /\ NotYet(z, k, c, h, g)

Inside(z, m, c, h, g) ==
    \E P \in 1 .. m - 1, k \in 0 .. m :
        /\ P + 1 <= k /\ Holds(z, m, k, c) /\ Within(z, P, k, c, h, g)
        /\ FirstOpen(z, 0, P, m) /\ NoEnds(z, P + 1, m) /\ Clear(z, P + 1, k, m)

Behind(z, m, c, h, g) ==
    \E P \in 1 .. m - 1, Q \in 1 .. m - 1 :
        /\ Holds(z, m, m, c) /\ Past(z, P, Q, m, c, h, g)
        /\ FirstOpen(z, 0, P, m) /\ FirstEnd(z, P + 1, Q, m)

\* the tag of the thinking has just been read
Entered(z, m, c, h, g) ==
    \E P \in 1 .. m - 1 :
        Holds(z, m, P + 1, c) /\ Within(z, P, P + 1, c, h, g) /\ FirstOpen(z, 0, P, m)

-----------------------------------------------------------------------------
(* The branches of process_content_with_thinking take the stream from one stage *)
(* to the next.                                                               *)

\* process_content_with_thinking, before the thinking, when no tag is in the buffer.
LEMMA BeforeNone ==
    ASSUME NEW z, NEW m, BareText(z, m), NEW r, NEW c, Fit(r, c), Lettered(c),
           NEW h \in Seq(Letters), NEW g \in Seq(Letters),
           NEW k \in Nat, k <= m, k = 0 \/ k + 2 <= m, Holds(z, m, k, c), NotYet(z, k, c, h, g),
           NoOpens(z, 0, k + 1), StartTag(c.buf) = 0
    PROVE  Before(z, m, BeforeThinking(c), h, g)
<1>1. z \in Seq(Letters) /\ m \in Nat /\ m <= Len(z)
  BY DEF BareText
<1>2. PICK b, n : b = c.buf /\ n = Len(b) - Len(OpenTag)
  OBVIOUS
<1>3. b = Part(z, k, m) /\ b \in Seq(Letters) /\ Len(b) = m - k /\ n = m - k - 2
  <2>1. b = Part(z, k, m)
    BY <1>2 DEF Holds
  <2>2. b \in Seq(Letters) /\ Len(b) = m - k
    BY <1>1, <2>1, PartIs
  <2>3. QED
    BY <1>1, <1>2, <2>1, <2>2, TagsAre
<1>4. NoOpens(z, 0, m)
  <2>1. NoOpens(z, k, m)
    <3>1. PICK p : p = StartTag(Part(z, k, m))
      OBVIOUS
    <3>2. p = 0
      BY <1>2, <1>3, <3>1
    <3>3. QED
      BY <3>1, <3>2, StartTagAt
  <2>2. ASSUME NEW p \in 0 + 1 .. m - 1
        PROVE  ~At(z, OpenTag, p)
    <3>1. p \in 0 + 1 .. (k + 1) - 1 \/ p \in k + 1 .. m - 1
      BY <1>1
    <3>2. QED
      BY <2>1, <3>1 DEF NoOpens
  <2>3. QED
    BY <2>2 DEF NoOpens
<1>5. CASE Blank(Take(b, n))
  <2>1. BeforeThinking(c) = c
    BY <1>2, <1>5 DEF BeforeThinking
  <2>2. k \in 0 .. m
    BY <1>1
  <2>3. QED
    BY <1>4, <2>1, <2>2 DEF Before
<1>6. CASE ~Blank(Take(b, n))
  <2>1. n \in Nat /\ n <= m - k
    <3>1. SUFFICES ASSUME n < 1
                   PROVE  FALSE
      BY <1>1, <1>3
    <3>2. n \in Int
      BY <1>1, <1>3
    <3>3. Take(b, n) = << >>
      BY <3>1, <3>2, SubSeqEmpty DEF Take
    <3>4. QED
      BY <1>6, <3>3 DEF Blank
  <2>2. PICK l \in Nat : l = k + n /\ l + 2 = m /\ l <= m /\ k <= l
    <3>1. k + n \in Nat /\ (k + n) + 2 = m /\ k + n <= m /\ k <= k + n
      BY <1>1, <1>3, <2>1
    <3>2. QED
      BY <3>1
  <2>3. PICK s : s = Take(b, n)
    OBVIOUS
  <2>4. s = Part(z, k, l) /\ Drop(b, n) = Part(z, l, m) /\ s \in Seq(Letters)
    <3>1. /\ Take(Part(z, k, m), n) = Part(z, k, k + n)
          /\ Drop(Part(z, k, m), n) = Part(z, k + n, m)
      BY <1>1, <2>1, PartOfPart
    <3>2. l <= Len(z)
      BY <1>1, <2>2, LenProperties
    <3>3. Part(z, k, l) \in Seq(Letters)
      BY <1>1, <2>2, <3>2, PartIs
    <3>4. QED
      BY <1>3, <2>2, <2>3, <3>1, <3>3
  <2>5. PICK e : e = TextDelta(c, s)
    OBVIOUS
  <2>6. /\ Lettered(e) /\ Speaks(c, e, "text", s)
        /\ e.inThinking = c.inThinking /\ e.extracted = c.extracted /\ e.buf = b
    <3>1. Lettered(e) /\ Speaks(c, e, "text", s)
      BY <2>4, <2>5, TextMoves, TextSpeaks DEF Moves
    <3>2. KeepsThinking(c, e) /\ SameBuffer(c, e)
      BY <2>5, TextFits
    <3>3. QED
      BY <1>2, <3>1, <3>2 DEF KeepsThinking, SameBuffer
  <2>7. PICK d : d = [e EXCEPT !.buf = Drop(@, n)]
    OBVIOUS
  <2>8. /\ d.out = e.out /\ d.buf = Part(z, l, m)
        /\ d.inThinking = FALSE /\ d.extracted = FALSE
    <3>1. DOMAIN e = Fields
      BY <2>6 DEF Lettered
    <3>2. /\ d.out = e.out /\ d.buf = Drop(e.buf, n)
          /\ d.inThinking = e.inThinking /\ d.extracted = e.extracted
      BY <2>7, <3>1 DEF Fields
    <3>3. QED
      BY <2>4, <2>6, <3>2 DEF NotYet
  <2>9. Speaks(c, d, "text", s)
    BY <2>6, <2>8 DEF Speaks
  <2>10. Heard(h, d, "thinking") = << >>
    <3>1. Heard(h, d, "thinking") = Heard(h, c, "thinking")
      BY <2>4, <2>9, HeardMore
    <3>2. QED
      BY <3>1 DEF NotYet
  <2>11. Heard(g, d, "text") = Solid(Part(z, 0, l))
    <3>0. Spoke(g, c, d, "text", s)
      BY <2>4, <2>9, HeardSaid
    <3>1. Heard(g, d, "text") = Heard(g, c, "text") \o Solid(s)
      BY <3>0 DEF Spoke
    <3>2. Solid(Part(z, 0, l)) = Solid(Part(z, 0, k)) \o Solid(Part(z, k, l))
      <4>1. PICK a \in Nat : a = 0 /\ a <= k
        OBVIOUS
      <4>2. l <= Len(z)
        BY <1>1, <2>2, LenProperties
      <4>3. Solid(Part(z, a, l)) = Solid(Part(z, a, k)) \o Solid(Part(z, k, l))
        BY <1>1, <2>2, <4>1, <4>2, SolidParts
      <4>4. QED
        BY <4>1, <4>3
    <3>3. QED
      BY <2>4, <3>1, <3>2 DEF NotYet
  <2>12. BeforeThinking(c) = d
    <3>1. BeforeThinking(c) = [TextDelta(c, Take(b, n)) EXCEPT !.buf = Drop(@, n)]
      BY <1>2, <1>6 DEF BeforeThinking
    <3>2. QED
      BY <2>3, <2>5, <2>7, <3>1
  <2>13. l \in 0 .. m /\ Holds(z, m, l, d) /\ NotYet(z, l, d, h, g)
    BY <2>2, <2>8, <2>10, <2>11 DEF Holds, NotYet
  <2>14. Before(z, m, d, h, g)
    BY <1>4, <2>2, <2>13 DEF Before
  <2>15. QED
    BY <2>12, <2>14
<1>7. QED
  BY <1>5, <1>6

\* When the tag is there: the thinking begins after it.
LEMMA BeforeTag ==
    ASSUME NEW z, NEW m, BareText(z, m), NEW r, NEW c, Fit(r, c), Lettered(c),
           NEW h \in Seq(Letters), NEW g \in Seq(Letters),
           NEW k \in Nat, k <= m, Holds(z, m, k, c), NotYet(z, k, c, h, g),
           NoOpens(z, 0, k + 1), StartTag(c.buf) # 0
    PROVE  Entered(z, m, BeforeThinking(c), h, g)
<1>1. z \in Seq(Letters) /\ m \in Nat /\ m <= Len(z)
  BY DEF BareText
<1>2. PICK b, p : b = c.buf /\ p = StartTag(b)
  OBVIOUS
<1>3. b = Part(z, k, m)
  BY <1>2 DEF Holds
<1>4. p \in Nat /\ p # 0 /\ FirstOpen(z, k, k + p, m)
  <2>1. p = StartTag(Part(z, k, m)) /\ p # 0
    BY <1>2, <1>3
  <2>2. QED
    BY <2>1, StartTagAt
<1>5. PICK P \in Nat : P = k + p /\ P \in k + 1 .. m - 1 /\ P \in 1 .. m - 1 /\ P >= 1
  <2>1. k + p \in Nat /\ k + p \in k + 1 .. m - 1
    BY <1>4 DEF FirstOpen
  <2>2. k + p \in 1 .. m - 1 /\ k + p >= 1
    BY <2>1
  <2>3. QED
    BY <2>1, <2>2
<1>6. FirstOpen(z, 0, P, m)
  <2>1. At(z, OpenTag, P) /\ \A q \in k + 1 .. P - 1 : ~At(z, OpenTag, q)
    BY <1>4, <1>5 DEF FirstOpen, NoOpens
  <2>2. ASSUME NEW q \in 0 + 1 .. P - 1
        PROVE  ~At(z, OpenTag, q)
    <3>1. q \in 0 + 1 .. (k + 1) - 1 \/ q \in k + 1 .. P - 1
      BY <1>5
    <3>2. QED
      BY <2>1, <3>1 DEF NoOpens
  <2>3. P \in 0 + 1 .. m - 1
    BY <1>5
  <2>4. QED
    BY <2>1, <2>2, <2>3 DEF FirstOpen, NoOpens
<1>7. PICK before, rest : before = Take(b, p - 1) /\ rest = Drop(b, p + Len(OpenTag) - 1)
  OBVIOUS
<1>8. before = Part(z, k, P - 1) /\ before \in Seq(Letters)
  <2>1. PICK n \in Nat, l \in Nat : n = p - 1 /\ n <= m - k /\ l = P - 1 /\ k + n = l /\ k <= l /\ l <= m
    <3>1. p - 1 \in Nat /\ p - 1 <= m - k /\ P - 1 \in Nat /\ k + (p - 1) = P - 1 /\ k <= P - 1 /\ P - 1 <= m
      BY <1>1, <1>4, <1>5
    <3>2. QED
      BY <3>1
  <2>2. Take(Part(z, k, m), n) = Part(z, k, k + n)
    BY <1>1, <2>1, PartOfPart
  <2>3. l <= Len(z)
    BY <1>1, <2>1, LenProperties
  <2>4. Part(z, k, l) \in Seq(Letters)
    BY <1>1, <2>1, <2>3, PartIs
  <2>5. QED
    BY <1>3, <1>7, <2>1, <2>2, <2>4
<1>9. rest = Part(z, P + 1, m)
  <2>1. PICK n \in Nat : n = p + 1 /\ n <= m - k /\ k + n = P + 1
    <3>1. p + 1 \in Nat /\ p + 1 <= m - k /\ k + (p + 1) = P + 1
      BY <1>1, <1>4, <1>5
    <3>2. QED
      BY <3>1
  <2>2. Drop(Part(z, k, m), n) = Part(z, k + n, m)
    BY <1>1, <2>1, PartOfPart
  <2>3. p + Len(OpenTag) - 1 = n
    BY <1>4, <2>1, TagsAre
  <2>4. QED
    BY <1>3, <1>7, <2>1, <2>2, <2>3
<1>10. PICK e : e = IF Blank(before) THEN c ELSE TextDelta(c, before)
  OBVIOUS
<1>11. /\ Lettered(e) /\ e.buf = b /\ e.extracted = FALSE
       /\ Heard(h, e, "thinking") = << >>
       /\ Heard(g, e, "text") = Heard(g, c, "text") \o Solid(before)
  <2>1. CASE Blank(before)
    <3>1. DOMAIN before = 1 .. Len(before)
      BY <1>8, LenProperties
    <3>2. Solid(before) = << >>
      BY <1>8, <2>1, <3>1, SolidBlank DEF Blank
    <3>3. PICK y \in Seq(Letters) : y = Heard(g, c, "text")
      BY HeardMore
    <3>4. y \o << >> = y
      BY ConcatEmptySeq
    <3>5. e = c
      BY <1>10, <2>1
    <3>6. QED
      BY <1>2, <3>2, <3>3, <3>4, <3>5 DEF NotYet
  <2>2. CASE ~Blank(before)
    <3>1. e = TextDelta(c, before)
      BY <1>10, <2>2
    <3>2. Lettered(e) /\ Speaks(c, e, "text", before)
      BY <1>8, <3>1, TextMoves, TextSpeaks DEF Moves
    <3>3. KeepsThinking(c, e) /\ SameBuffer(c, e)
      BY <3>1, TextFits
    <3>4. Heard(h, e, "thinking") = Heard(h, c, "thinking")
      BY <1>8, <3>2, HeardMore
    <3>5. Spoke(g, c, e, "text", before)
      BY <1>8, <3>2, HeardSaid
    <3>7. Heard(g, e, "text") = Heard(g, c, "text") \o Solid(before)
      BY <3>5 DEF Spoke
    <3>6. QED
      BY <1>2, <3>2, <3>3, <3>4, <3>7 DEF NotYet, KeepsThinking, SameBuffer
  <2>3. QED
    BY <2>1, <2>2
<1>12. PICK f : f = StartBlock(e, "thinking")
  OBVIOUS
<1>13. /\ Lettered(f) /\ f.buf = b /\ f.extracted = FALSE
       /\ Heard(h, f, "thinking") = << >>
       /\ Heard(g, f, "text") = Heard(g, c, "text") \o Solid(before)
  <2>1. Silent(e, f) /\ Mute(e, f)
    BY <1>11, <1>12, StartSilent, StartMute
  <2>2. f.extracted = e.extracted
    <3>1. DOMAIN e = Fields
      BY <1>11 DEF Lettered
    <3>2. QED
      BY <1>12, <3>1 DEF StartBlock, Emit, Fields
  <2>3. Heard(h, f, "thinking") = Heard(h, e, "thinking") /\ Heard(g, f, "text") = Heard(g, e, "text")
    BY <1>11, <2>1, HeardMore
  <2>4. QED
    BY <1>11, <2>1, <2>2, <2>3 DEF Silent
<1>14. PICK d : d = [f EXCEPT !.inThinking = TRUE, !.strip = TRUE, !.thinkAt = Len(f.blocks),
                             !.buf = Drop(@, p + Len(OpenTag) - 1)]
  OBVIOUS
<1>15. d.out = f.out /\ d.buf = rest /\ d.inThinking = TRUE /\ d.extracted = FALSE
  <2>1. DOMAIN f = Fields
    BY <1>13 DEF Lettered
  <2>2. PICK n : n = p + Len(OpenTag) - 1
    OBVIOUS
  <2>3. d = [f EXCEPT !.inThinking = TRUE, !.strip = TRUE, !.thinkAt = Len(f.blocks),
                      !.buf = Drop(@, n)]
    BY <1>14, <2>2
  <2>4. d.out = f.out /\ d.buf = Drop(f.buf, n) /\ d.inThinking = TRUE /\ d.extracted = f.extracted
    BY <2>1, <2>3 DEF Fields
  <2>5. QED
    BY <1>7, <1>13, <2>2, <2>4
<1>16. Heard(h, d, "thinking") = Solid(Part(z, P + 1, P + 1))
  <2>1. P + 1 \in Nat
    BY <1>5
  <2>2. Part(z, P + 1, P + 1) = << >>
    BY <2>1, PartEmpty
  <2>3. Heard(h, d, "thinking") = Heard(h, f, "thinking")
    BY <1>15 DEF Heard
  <2>4. QED
    BY <1>13, <2>2, <2>3, SolidEmpty
<1>17. Heard(g, d, "text") = Solid(Part(z, 0, P - 1))
  <2>1. PICK a \in Nat, l \in Nat : a = 0 /\ l = P - 1 /\ a <= k /\ k <= l /\ l <= Len(z)
    <3>1. P - 1 \in Nat /\ 0 <= k /\ k <= P - 1 /\ P - 1 <= Len(z) /\ 0 \in Nat
      BY <1>1, <1>5, LenProperties
    <3>2. QED
      BY <3>1
  <2>2. a <= k /\ k <= l /\ l <= Len(z)
    BY <2>1
  <2>3. Solid(Part(z, a, l)) = Solid(Part(z, a, k)) \o Solid(Part(z, k, l))
    BY <1>1, <2>2, SolidParts
  <2>4. Heard(g, d, "text") = Heard(g, f, "text")
    BY <1>15 DEF Heard
  <2>5. QED
    BY <1>8, <1>13, <2>1, <2>3, <2>4 DEF NotYet
<1>18. BeforeThinking(c) = d
  BY <1>2, <1>7, <1>10, <1>12, <1>14 DEF BeforeThinking
<1>19. P + 1 \in 0 .. m
  BY <1>1, <1>5
<1>20. Holds(z, m, P + 1, d) /\ Within(z, P, P + 1, d, h, g)
  BY <1>9, <1>15, <1>16, <1>17, <1>19 DEF Holds, Within
<1>21. Entered(z, m, d, h, g)
  BY <1>5, <1>6, <1>20 DEF Entered
<1>22. QED
  BY <1>18, <1>21

\* The newline after the tag is white space, and no part of a closing tag.
Stripped(z, m, P, k, l, c, d, h, g) ==
    /\ Lettered(d) /\ d.out = c.out
    /\ Holds(z, m, l, d) /\ Within(z, P, l, d, h, g)
    /\ Clear(z, P + 1, k, m) => Clear(z, P + 1, l, m)
    /\ NoEnds(z, P + 1, k + 3) => NoEnds(z, P + 1, l + 3)

LEMMA StripStage ==
    ASSUME NEW z, NEW m, BareText(z, m), NEW c, Lettered(c), NEW h, NEW g,
           NEW P \in Nat, NEW k \in Nat, P + 1 <= k, k <= m, Holds(z, m, k, c), Within(z, P, k, c, h, g)
    PROVE  \E l \in Nat : k <= l /\ l <= m /\ Stripped(z, m, P, k, l, c, Strip(c), h, g)
<1>1. z \in Seq(Letters) /\ m \in Nat /\ m <= Len(z)
  BY DEF BareText
<1>2. PICK b : b = c.buf /\ b = Part(z, k, m) /\ b \in Seq(Letters) /\ Len(b) = m - k
  <2>1. c.buf = Part(z, k, m)
    BY DEF Holds
  <2>2. Part(z, k, m) \in Seq(Letters) /\ Len(Part(z, k, m)) = m - k
    BY <1>1, PartIs
  <2>3. QED
    BY <2>1, <2>2
<1>3. CASE ~c.strip \/ b = << >>
  <2>1. Strip(c) = c
    BY <1>2, <1>3 DEF Strip
  <2>2. Stripped(z, m, P, k, k, c, c, h, g)
    BY DEF Stripped
  <2>3. QED
    BY <2>1, <2>2
<1>4. CASE c.strip /\ b # << >>
  <2>1. Strip(c) = [c EXCEPT !.strip = FALSE, !.buf = IF Head(@) = NL THEN Tail(@) ELSE @]
    BY <1>2, <1>4 DEF Strip
  <2>2. PICK rest : rest = IF Head(b) = NL THEN Tail(b) ELSE b
    OBVIOUS
  <2>3. PICK d : d = [c EXCEPT !.strip = FALSE, !.buf = rest]
    OBVIOUS
  <2>4. Strip(c) = d
    BY <1>2, <2>1, <2>2, <2>3
  <2>5. /\ DOMAIN d = Fields /\ d.out = c.out /\ d.buf = rest
        /\ d.inThinking = c.inThinking /\ d.extracted = c.extracted
    BY <2>3 DEF Lettered, Fields
  <2>6. Texted(d.out)
    BY <2>5 DEF Lettered
  <2>7. CASE Head(b) # NL
    <3>1. d.buf = b
      BY <2>2, <2>5, <2>7
    <3>2. Lettered(d) /\ Holds(z, m, k, d)
      BY <1>2, <2>5, <2>6, <3>1 DEF Lettered, Holds
    <3>3. Within(z, P, k, d, h, g)
      BY <2>5 DEF Within, Heard
    <3>4. Stripped(z, m, P, k, k, c, d, h, g)
      BY <2>5, <3>2, <3>3 DEF Stripped
    <3>5. QED
      BY <2>4, <3>4
  <2>8. CASE Head(b) = NL
    <3>1. m - k >= 1 /\ b[1] = NL
      <4>1. Len(b) # 0
        BY <1>2, <1>4, EmptySeq
      <4>2. QED
        BY <1>1, <1>2, <2>8, <4>1
    <3>2. PICK l \in Nat : l = k + 1 /\ k <= l /\ l <= m
      <4>1. k + 1 \in Nat /\ k <= k + 1 /\ k + 1 <= m
        BY <1>1, <3>1
      <4>2. QED
        BY <4>1
    <3>3. z[l] = NL
      <4>1. \A i \in 1 .. m - k : Part(z, k, m)[i] = z[k + i]
        BY <1>1, PartIs
      <4>2. 1 \in 1 .. m - k
        BY <1>1, <3>1
      <4>3. b[1] = z[k + 1]
        BY <1>2, <4>1, <4>2
      <4>4. QED
        BY <3>1, <3>2, <4>3
    <3>4. rest = Part(z, l, m)
      <4>1. rest = Tail(b)
        BY <2>2, <2>8
      <4>2. Tail(b) = SubSeq(b, 2, Len(b))
        BY <1>2, <1>4, TailIsSubSeq
      <4>3. PICK n \in Nat : n = 1 /\ n <= m - k /\ k + n = l /\ n + 1 = 2
        BY <1>1, <3>1, <3>2
      <4>4. Drop(Part(z, k, m), n) = Part(z, k + n, m)
        BY <1>1, <4>3, PartOfPart
      <4>5. Drop(b, n) = SubSeq(b, 2, Len(b))
        BY <4>3 DEF Drop
      <4>6. QED
        BY <1>2, <4>1, <4>2, <4>3, <4>4, <4>5
    <3>5. Lettered(d) /\ Holds(z, m, l, d)
      <4>1. rest \in Seq(Letters)
        BY <1>1, <3>2, <3>4, PartIs
      <4>2. l \in 0 .. m
        BY <3>2
      <4>3. QED
        BY <2>5, <2>6, <3>4, <4>1, <4>2 DEF Lettered, Holds
    <3>6. Solid(Part(z, P + 1, l)) = Solid(Part(z, P + 1, k))
      <4>1. PICK a \in Nat : a = P + 1 /\ a <= k
        OBVIOUS
      <4>2. k <= l /\ l <= Len(z)
        BY <1>1, <3>2, LenProperties
      <4>3. Solid(Part(z, a, l)) = Solid(Part(z, a, k)) \o Solid(Part(z, k, l))
        BY <1>1, <4>1, <4>2, SolidParts
      <4>4. \A i \in k + 1 .. l : z[i] = NL
        BY <3>2, <3>3
      <4>5. Solid(Part(z, k, l)) = << >>
        BY <1>1, <4>2, <4>4, BlankPart
      <4>6. PICK x \in Seq(Letters) : x = Solid(Part(z, a, k))
        <5>1. k <= Len(z)
          BY <1>1, LenProperties
        <5>2. Part(z, a, k) \in Seq(Letters)
          BY <1>1, <4>1, <5>1, PartIs
        <5>3. QED
          BY <5>2, SolidTypes
      <4>7. x \o << >> = x
        BY ConcatEmptySeq
      <4>8. QED
        BY <4>1, <4>3, <4>5, <4>6, <4>7
    <3>7. Within(z, P, l, d, h, g)
      BY <2>5, <3>6 DEF Within, Heard
    <3>8. z[l] # CloseTag[1]
      BY <3>3, TagsAre DEF CloseTag, NL
    <3>9. Clear(z, P + 1, k, m) => Clear(z, P + 1, l, m)
      <4>1. SUFFICES ASSUME Clear(z, P + 1, k, m), NEW p \in (P + 1) + 1 .. l, z[p] = CloseTag[1]
                     PROVE  p + 3 <= m
        BY DEF Clear
      <4>2. p # l
        BY <3>8, <4>1
      <4>3. p \in (P + 1) + 1 .. k
        BY <3>2, <4>1, <4>2
      <4>4. QED
        BY <4>1, <4>3 DEF Clear
    <3>10. NoEnds(z, P + 1, k + 3) => NoEnds(z, P + 1, l + 3)
      <4>1. SUFFICES ASSUME NoEnds(z, P + 1, k + 3), NEW p \in (P + 1) + 1 .. (l + 3) - 3
                     PROVE  ~Ends(z, p)
        BY DEF NoEnds
      <4>2. CASE p = l
        BY <3>8, <4>2 DEF Ends, At
      <4>3. CASE p # l
        <5>1. p \in (P + 1) + 1 .. (k + 3) - 3
          BY <3>2, <4>1, <4>3
        <5>2. QED
          BY <4>1, <5>1 DEF NoEnds
      <4>4. QED
        BY <4>2, <4>3
    <3>11. Stripped(z, m, P, k, l, c, d, h, g)
      BY <2>5, <3>5, <3>7, <3>9, <3>10 DEF Stripped
    <3>12. QED
      BY <2>4, <3>2, <3>11
  <2>9. QED
    BY <2>7, <2>8
<1>5. QED
  BY <1>3, <1>4

\* The thinking has just been found to end.
Left(z, m, c, h, g) ==
    \E P \in 1 .. m - 1, Q \in 1 .. m - 1, l \in Nat :
        /\ l = Q + 3 /\ Holds(z, m, l, c) /\ Past(z, P, Q, l, c, h, g)
        /\ FirstOpen(z, 0, P, m) /\ FirstEnd(z, P + 1, Q, m)

\* where the closing tag at p of the buffer, at q of the text, begins and ends
EndBounds(p, l, q, m) ==
    /\ p - 1 \in Nat /\ p - 1 <= m - l /\ l + (p - 1) = q - 1 /\ l <= q - 1 /\ q - 1 \in Nat
    /\ p + 3 \in Nat /\ p + 3 <= m - l /\ l + (p + 3) = q + 3 /\ q + 3 <= m /\ q + 3 \in Nat

LEMMA EndBoundsHold ==
    ASSUME NEW p \in Nat, NEW l \in Nat, NEW q \in Nat, NEW m \in Nat, q = l + p, l + 1 <= q, q <= m - 3
    PROVE  EndBounds(p, l, q, m)
BY DEF EndBounds

\* In the thinking, when its end is in the buffer.
LEMMA InsideEnds ==
    ASSUME NEW z, NEW m, BareText(z, m), NEW d, Lettered(d), NEW h \in Seq(Letters), NEW g \in Seq(Letters),
           NEW P \in 1 .. m - 1, NEW l \in Nat, P + 1 <= l, l <= m, Holds(z, m, l, d), Within(z, P, l, d, h, g),
           FirstOpen(z, 0, P, m), NoEnds(z, P + 1, l + 3),
           NEW p, p = EndTag(d.buf), p # 0
    PROVE  LET e == EndThinking(d, Take(d.buf, p - 1), Drop(d.buf, p + Len(CloseTag) + 1)) IN
           Lettered(e) /\ Left(z, m, e, h, g)
<1>1. z \in Seq(Letters) /\ m \in Nat /\ m <= Len(z) /\ P \in Nat
  BY DEF BareText
<1>2. PICK b : b = d.buf /\ b = Part(z, l, m)
  BY DEF Holds
<1>3. p \in Nat /\ FirstEnd(z, l, l + p, m)
  <2>1. p = EndTag(Part(z, l, m))
    BY <1>2
  <2>2. QED
    BY <2>1, EndTagAt
<1>4. PICK Q \in Nat : Q = l + p /\ Q \in l + 1 .. m - 3 /\ Ends(z, Q) /\ NoEnds(z, l, Q + 2)
  <2>1. l + p \in Nat /\ l + p \in l + 1 .. m - 3
    BY <1>3 DEF FirstEnd
  <2>2. Ends(z, l + p) /\ NoEnds(z, l, (l + p) + 2)
    BY <1>3 DEF FirstEnd
  <2>3. QED
    BY <2>1, <2>2
<1>5. FirstEnd(z, P + 1, Q, m)
  <2>1. Q \in (P + 1) + 1 .. m - 3
    BY <1>1, <1>4
  <2>2. ASSUME NEW q \in (P + 1) + 1 .. (Q + 2) - 3
        PROVE  ~Ends(z, q)
    <3>1. q \in (P + 1) + 1 .. (l + 3) - 3 \/ q \in l + 1 .. (Q + 2) - 3
      BY <1>1, <1>4
    <3>2. QED
      BY <1>4, <3>1 DEF NoEnds
  <2>3. QED
    BY <1>4, <2>1, <2>2 DEF FirstEnd, NoEnds
<1>6. PICK s, rest : s = Take(b, p - 1) /\ rest = Drop(b, p + Len(CloseTag) + 1)
  OBVIOUS
<1>7. PICK y \in Nat, n \in Nat : /\ y = Q - 1 /\ n = Q + 3 /\ l <= y /\ y <= Len(z) /\ n <= m /\ n <= Len(z)
                                  /\ p - 1 \in Nat /\ p - 1 <= m - l /\ l + (p - 1) = y
                                  /\ p + 3 \in Nat /\ p + 3 <= m - l /\ l + (p + 3) = n
  <2>1. /\ Q - 1 \in Nat /\ Q + 3 \in Nat /\ l <= Q - 1 /\ Q - 1 <= Len(z) /\ Q + 3 <= m /\ Q + 3 <= Len(z)
        /\ p - 1 \in Nat /\ p - 1 <= m - l /\ l + (p - 1) = Q - 1
        /\ p + 3 \in Nat /\ p + 3 <= m - l /\ l + (p + 3) = Q + 3
    <3>1. p \in Nat /\ Q \in Nat /\ l + 1 <= Q /\ Q <= m - 3 /\ Q = l + p
      BY <1>1, <1>3, <1>4
    <3>2. Len(z) \in Nat /\ m <= Len(z) /\ m \in Nat
      BY <1>1, LenProperties
    <3>4. EndBounds(p, l, Q, m)
      BY <3>1, <3>2, EndBoundsHold
    <3>5. Q - 1 <= Len(z) /\ Q + 3 <= Len(z)
      BY <3>1, <3>2
    <3>6. QED
      BY <3>4, <3>5 DEF EndBounds
  <2>2. QED
    BY <2>1
<1>8. s = Part(z, l, y) /\ s \in Seq(Letters)
  <2>1. PICK i \in Nat : i = p - 1 /\ i <= m - l /\ l + i = y
    BY <1>7
  <2>2. Take(Part(z, l, m), i) = Part(z, l, l + i)
    BY <1>1, <2>1, PartOfPart
  <2>3. l <= y /\ y <= Len(z)
    BY <1>7
  <2>4. Part(z, l, y) \in Seq(Letters)
    BY <1>1, <2>3, PartIs
  <2>5. QED
    BY <1>2, <1>6, <2>1, <2>2, <2>4
<1>9. rest = Part(z, n, m) /\ rest \in Seq(Letters)
  <2>1. PICK i \in Nat : i = p + 3 /\ i <= m - l /\ l + i = n
    BY <1>7
  <2>2. Drop(Part(z, l, m), i) = Part(z, l + i, m)
    BY <1>1, <2>1, PartOfPart
  <2>3. p + Len(CloseTag) + 1 = i
    BY <1>3, <2>1, TagsAre
  <2>4. n <= m
    BY <1>7
  <2>5. Part(z, n, m) \in Seq(Letters)
    BY <1>1, <2>4, PartIs
  <2>6. QED
    BY <1>2, <1>6, <2>1, <2>2, <2>3, <2>5
<1>10. PICK e : e = EndThinking(d, s, rest)
  OBVIOUS
<1>11. /\ Speaks(d, e, "thinking", s) /\ Lettered(e) /\ e.buf = rest
       /\ e.inThinking = FALSE /\ e.extracted = TRUE
  BY <1>8, <1>9, <1>10, EndingSpeaks
<1>12. Heard(h, e, "thinking") = Solid(Part(z, P + 1, y))
  <2>1. Spoke(h, d, e, "thinking", s)
    BY <1>8, <1>11, HeardSaid
  <2>2. PICK a \in Nat : a = P + 1 /\ a <= l
    BY <1>1
  <2>3. l <= y /\ y <= Len(z)
    BY <1>7
  <2>4. Solid(Part(z, a, y)) = Solid(Part(z, a, l)) \o Solid(Part(z, l, y))
    BY <1>1, <2>2, <2>3, SolidParts
  <2>5. QED
    BY <1>8, <2>1, <2>2, <2>4 DEF Spoke, Within
<1>13. Heard(g, e, "text") = Solid(Part(z, 0, P - 1)) \o Solid(Part(z, n, n))
  <2>1. Heard(g, e, "text") = Heard(g, d, "text")
    BY <1>8, <1>11, HeardMore
  <2>2. Part(z, n, n) = << >>
    BY PartEmpty
  <2>3. PICK x \in Seq(Letters) : x = Heard(g, d, "text")
    BY HeardMore
  <2>4. x \o << >> = x
    BY ConcatEmptySeq
  <2>5. QED
    BY <2>1, <2>2, <2>3, <2>4, SolidEmpty DEF Within
<1>14. Q \in 1 .. m - 1 /\ n = Q + 3 /\ y = Q - 1
  <2>1. n = Q + 3 /\ y = Q - 1
    BY <1>7
  <2>2. \A q \in l + 1 .. m - 3 : q \in 1 .. m - 1
    BY <1>1
  <2>3. Q \in 1 .. m - 1
    BY <1>4, <2>2
  <2>4. QED
    BY <2>1, <2>3
<1>15. Holds(z, m, n, e)
  <2>1. n \in 0 .. m
    BY <1>1, <1>7
  <2>2. QED
    BY <1>9, <1>11, <2>1 DEF Holds
<1>16. Past(z, P, Q, n, e, h, g)
  BY <1>11, <1>12, <1>13, <1>14 DEF Past
<1>17. Left(z, m, e, h, g)
  BY <1>5, <1>14, <1>15, <1>16 DEF Left
<1>18. QED
  BY <1>2, <1>6, <1>10, <1>11, <1>17

\* In the thinking, when it is not: the end of the buffer is kept back.
LEMMA InsideStays ==
    ASSUME NEW z, NEW m, BareText(z, m), NEW d, Lettered(d), NEW h \in Seq(Letters), NEW g \in Seq(Letters),
           NEW P \in 1 .. m - 1, NEW l \in Nat, P + 1 <= l, l <= m, Holds(z, m, l, d), Within(z, P, l, d, h, g),
           FirstOpen(z, 0, P, m), NoEnds(z, P + 1, l + 3), Clear(z, P + 1, l, m),
           EndTag(d.buf) = 0
    PROVE  /\ Inside(z, m, d, h, g)
           /\ \A n \in Nat : n = Len(d.buf) - KeptBack /\ n # 0 =>
                 Inside(z, m, [ThinkingDelta(d, Take(d.buf, n)) EXCEPT !.buf = Drop(@, n)], h, g)
<1>1. z \in Seq(Letters) /\ m \in Nat /\ m <= Len(z) /\ P \in Nat
  BY DEF BareText
<1>2. PICK b : b = d.buf /\ b = Part(z, l, m) /\ b \in Seq(Letters) /\ Len(b) = m - l
  <2>1. d.buf = Part(z, l, m)
    BY DEF Holds
  <2>2. Part(z, l, m) \in Seq(Letters) /\ Len(Part(z, l, m)) = m - l
    BY <1>1, PartIs
  <2>3. QED
    BY <2>1, <2>2
<1>3. NoEnds(z, P + 1, m)
  <2>1. NoEnds(z, l, m)
    <3>1. PICK p : p = EndTag(Part(z, l, m))
      OBVIOUS
    <3>2. p = 0
      BY <1>2, <3>1
    <3>3. QED
      BY <3>1, <3>2, EndTagAt
  <2>2. ASSUME NEW q \in (P + 1) + 1 .. m - 3
        PROVE  ~Ends(z, q)
    <3>1. q \in (P + 1) + 1 .. (l + 3) - 3 \/ q \in l + 1 .. m - 3
      BY <1>1
    <3>2. QED
      BY <2>1, <3>1 DEF NoEnds
  <2>3. QED
    BY <2>2 DEF NoEnds
<1>4. l \in 0 .. m
  BY <1>1
<1>5. Inside(z, m, d, h, g)
  BY <1>3, <1>4 DEF Inside
<1>6. ASSUME NEW n \in Nat, n = Len(b) - KeptBack, n # 0
      PROVE  Inside(z, m, [ThinkingDelta(d, Take(b, n)) EXCEPT !.buf = Drop(@, n)], h, g)
  <2>1. PICK y \in Nat : y = l + n /\ y + 4 = m /\ n <= m - l /\ l <= y /\ y <= m /\ y <= Len(z) /\ P + 1 <= y
    <3>1. Len(b) = m - l /\ KeptBack = 4
      BY <1>2, TagsAre DEF KeptBack
    <3>2. l + n \in Nat /\ (l + n) + 4 = m /\ n <= m - l /\ l <= l + n /\ l + n <= m /\ l + n <= Len(z) /\ P + 1 <= l + n
      BY <1>1, <1>6, <3>1, LenProperties
    <3>3. QED
      BY <3>2
  <2>2. PICK s : s = Take(b, n)
    OBVIOUS
  <2>3. s = Part(z, l, y) /\ Drop(b, n) = Part(z, y, m) /\ s \in Seq(Letters)
    <3>1. n <= m - l
      BY <2>1
    <3>2. Take(Part(z, l, m), n) = Part(z, l, l + n) /\ Drop(Part(z, l, m), n) = Part(z, l + n, m)
      BY <1>1, <3>1, PartOfPart
    <3>3. l <= y /\ y <= Len(z)
      BY <2>1
    <3>4. Part(z, l, y) \in Seq(Letters)
      BY <1>1, <3>3, PartIs
    <3>5. QED
      BY <1>2, <2>1, <2>2, <3>2, <3>4
  <2>4. PICK e : e = ThinkingDelta(d, s)
    OBVIOUS
  <2>5. Lettered(e) /\ Speaks(d, e, "thinking", s) /\ e.buf = b
    <3>1. Moves(d, e, s, b)
      BY <1>2, <2>3, <2>4, ThinkingMoves
    <3>2. QED
      BY <2>3, <2>4, <3>1, ThinkingSpeaks DEF Moves
  <2>6. e.inThinking = d.inThinking /\ e.extracted = d.extracted
    <3>1. DOMAIN d = Fields
      BY DEF Lettered
    <3>2. QED
      BY <2>4, <3>1 DEF ThinkingDelta, Emit, Fields
  <2>7. PICK f : f = [e EXCEPT !.buf = Drop(@, n)]
    OBVIOUS
  <2>8. /\ f.out = e.out /\ f.buf = Part(z, y, m)
        /\ f.inThinking = d.inThinking /\ f.extracted = d.extracted
    <3>1. DOMAIN e = Fields
      BY <2>5 DEF Lettered
    <3>2. f.out = e.out /\ f.buf = Drop(e.buf, n) /\ f.inThinking = e.inThinking /\ f.extracted = e.extracted
      BY <2>7, <3>1 DEF Fields
    <3>3. QED
      BY <2>3, <2>5, <2>6, <3>2
  <2>9. Speaks(d, f, "thinking", s)
    BY <2>5, <2>8 DEF Speaks
  <2>10. Heard(h, f, "thinking") = Solid(Part(z, P + 1, y))
    <3>1. Spoke(h, d, f, "thinking", s)
      BY <2>3, <2>9, HeardSaid
    <3>2. PICK a \in Nat : a = P + 1 /\ a <= l
      BY <1>1
    <3>3. l <= y /\ y <= Len(z)
      BY <2>1
    <3>4. Solid(Part(z, a, y)) = Solid(Part(z, a, l)) \o Solid(Part(z, l, y))
      BY <1>1, <3>2, <3>3, SolidParts
    <3>5. QED
      BY <2>3, <3>1, <3>2, <3>4 DEF Spoke, Within
  <2>11. Heard(g, f, "text") = Heard(g, d, "text")
    BY <2>3, <2>9, HeardMore
  <2>12. Within(z, P, y, f, h, g)
    BY <2>8, <2>10, <2>11 DEF Within
  <2>13. Clear(z, P + 1, y, m)
    <3>1. SUFFICES ASSUME NEW q \in (P + 1) + 1 .. y
                   PROVE  q + 3 <= m
      BY DEF Clear
    <3>2. q <= y
      BY <1>1, <2>1
    <3>3. QED
      BY <1>1, <2>1, <3>2
  <2>14. y \in 0 .. m /\ P + 1 <= y
    BY <2>1
  <2>15. Holds(z, m, y, f)
    BY <2>8, <2>14 DEF Holds
  <2>16. Inside(z, m, f, h, g)
    BY <1>3, <2>12, <2>13, <2>14, <2>15 DEF Inside
  <2>17. QED
    BY <2>2, <2>4, <2>7, <2>16
<1>7. QED
  BY <1>2, <1>5, <1>6

\* process_content_with_thinking, in the thinking.
LEMMA InsideStage ==
    ASSUME NEW z, NEW m, BareText(z, m), NEW c, Lettered(c), NEW h \in Seq(Letters), NEW g \in Seq(Letters),
           NEW P \in 1 .. m - 1, NEW k \in Nat, P + 1 <= k, k <= m, Holds(z, m, k, c), Within(z, P, k, c, h, g),
           FirstOpen(z, 0, P, m), NoEnds(z, P + 1, k + 3), Clear(z, P + 1, k, m)
    PROVE  LET d == InThinking(c) IN Inside(z, m, d, h, g) \/ Left(z, m, d, h, g)
<1>1. z \in Seq(Letters) /\ m \in Nat /\ m <= Len(z) /\ P \in Nat
  BY DEF BareText
<1>2. PICK d : d = Strip(c)
  OBVIOUS
<1>3. PICK l \in Nat : k <= l /\ l <= m /\ Stripped(z, m, P, k, l, c, d, h, g)
  BY <1>1, <1>2, StripStage
<1>4. /\ Lettered(d) /\ Holds(z, m, l, d) /\ Within(z, P, l, d, h, g)
      /\ Clear(z, P + 1, l, m) /\ NoEnds(z, P + 1, l + 3)
  BY <1>3 DEF Stripped
<1>5. P + 1 <= l
  BY <1>1, <1>3
<1>6. PICK p, safe : p = EndTag(d.buf) /\ safe = Len(d.buf) - KeptBack
  OBVIOUS
<1>7. CASE p # 0
  <2>1. PICK e : e = EndThinking(d, Take(d.buf, p - 1), Drop(d.buf, p + Len(CloseTag) + 1))
    OBVIOUS
  <2>2. Left(z, m, e, h, g)
    BY <1>3, <1>4, <1>5, <1>6, <1>7, <2>1, InsideEnds
  <2>3. InThinking(c) = e
    BY <1>2, <1>6, <1>7, <2>1 DEF InThinking
  <2>4. QED
    BY <2>2, <2>3
<1>8. CASE p = 0
  <2>1. EndTag(d.buf) = 0
    BY <1>6, <1>8
  <2>2. /\ Inside(z, m, d, h, g)
        /\ \A n \in Nat : n = Len(d.buf) - KeptBack /\ n # 0 =>
              Inside(z, m, [ThinkingDelta(d, Take(d.buf, n)) EXCEPT !.buf = Drop(@, n)], h, g)
    BY <1>3, <1>4, <1>5, <2>1, InsideStays
  <2>3. CASE safe <= 0
    <3>1. InThinking(c) = d
      BY <1>2, <1>6, <1>8, <2>3 DEF InThinking
    <3>2. QED
      BY <2>2, <3>1
  <2>4. CASE ~(safe <= 0)
    <3>1. safe \in Nat /\ safe # 0
      <4>1. Len(d.buf) \in Nat /\ KeptBack = 4
        BY <1>4, LenProperties, TagsAre DEF Lettered, KeptBack
      <4>2. PICK n \in Nat : n = Len(d.buf) /\ safe = n - 4
        BY <1>6, <4>1
      <4>3. safe \in Int
        BY <4>2
      <4>4. \A i \in Int : ~(i <= 0) => i \in Nat /\ i # 0
        OBVIOUS
      <4>5. QED
        BY <2>4, <4>3, <4>4
    <3>2. PICK e : e = [ThinkingDelta(d, Take(d.buf, safe)) EXCEPT !.buf = Drop(@, safe)]
      OBVIOUS
    <3>3. Inside(z, m, e, h, g)
      BY <1>6, <2>2, <3>1, <3>2
    <3>4. InThinking(c) = e
      BY <1>2, <1>6, <1>8, <2>4, <3>2 DEF InThinking
    <3>5. QED
      BY <3>3, <3>4
  <2>5. QED
    BY <2>3, <2>4
<1>9. QED
  BY <1>7, <1>8

\* process_content_with_thinking, behind the thinking.
LEMMA AfterStage ==
    ASSUME NEW z, NEW m, BareText(z, m), NEW r, NEW c, Fit(r, c), Lettered(c),
           NEW h \in Seq(Letters), NEW g \in Seq(Letters),
           NEW P \in 1 .. m - 1, NEW Q \in 1 .. m - 1, NEW l \in Nat, Q + 3 <= l, l <= m,
           Holds(z, m, l, c), Past(z, P, Q, l, c, h, g)
    PROVE  LET d == AfterThinking(c) IN
           /\ Lettered(d) /\ Holds(z, m, m, d) /\ Past(z, P, Q, m, d, h, g)
<1>1. z \in Seq(Letters) /\ m \in Nat /\ m <= Len(z) /\ Len(z) \in Nat /\ P \in Nat /\ Q \in Nat
  BY LenProperties DEF BareText
<1>2. PICK b : b = c.buf /\ b = Part(z, l, m) /\ b \in Seq(Letters) /\ Len(b) = m - l
  <2>1. c.buf = Part(z, l, m)
    BY DEF Holds
  <2>2. Part(z, l, m) \in Seq(Letters) /\ Len(Part(z, l, m)) = m - l
    BY <1>1, PartIs
  <2>3. QED
    BY <2>1, <2>2
<1>3. CASE b = << >>
  <2>1. AfterThinking(c) = c
    BY <1>2, <1>3 DEF AfterThinking
  <2>2. l = m
    <3>1. Len(b) = 0
      BY <1>3
    <3>2. QED
      BY <1>1, <1>2, <3>1
  <2>3. QED
    BY <2>1, <2>2
<1>4. CASE b # << >>
  <2>1. PICK e : e = TextDelta(c, b)
    OBVIOUS
  <2>2. Lettered(e) /\ Speaks(c, e, "text", b) /\ KeepsThinking(c, e)
    BY <1>2, <2>1, TextMoves, TextSpeaks, TextFits DEF Moves
  <2>3. PICK d : d = [e EXCEPT !.buf = << >>]
    OBVIOUS
  <2>4. /\ DOMAIN d = Fields /\ d.out = e.out /\ d.buf = << >>
        /\ d.inThinking = c.inThinking /\ d.extracted = c.extracted
    <3>1. DOMAIN e = Fields
      BY <2>2 DEF Lettered
    <3>2. /\ DOMAIN d = Fields /\ d.out = e.out /\ d.buf = << >>
          /\ d.inThinking = e.inThinking /\ d.extracted = e.extracted
      BY <2>3, <3>1 DEF Fields
    <3>3. QED
      BY <2>2, <3>2 DEF KeepsThinking
  <2>5. Lettered(d)
    BY <2>2, <2>4, PlainEmpty DEF Lettered
  <2>6. Speaks(c, d, "text", b)
    BY <2>2, <2>4 DEF Speaks
  <2>7. Heard(h, d, "thinking") = Heard(h, c, "thinking")
    BY <1>2, <2>6, HeardMore
  <2>8. Heard(g, d, "text") = Solid(Part(z, 0, P - 1)) \o Solid(Part(z, Q + 3, m))
    <3>1. Spoke(g, c, d, "text", b)
      BY <1>2, <2>6, HeardSaid
    <3>2. PICK a \in Nat, q \in Nat : a = P - 1 /\ a <= Len(z) /\ q = Q + 3 /\ q <= l /\ q <= Len(z)
      <4>1. P - 1 \in Nat /\ P - 1 <= Len(z) /\ Q + 3 \in Nat /\ Q + 3 <= Len(z)
        BY <1>1
      <4>2. QED
        BY <4>1
    <3>3. Solid(Part(z, q, m)) = Solid(Part(z, q, l)) \o Solid(Part(z, l, m))
      <4>1. q <= l /\ l <= m /\ m <= Len(z)
        BY <1>1, <3>2
      <4>2. z \in Seq(Letters) /\ m \in Nat
        BY <1>1
      <4>3. QED
        BY <4>1, <4>2, SolidParts
    <3>4. Part(z, 0, a) \in Seq(Letters) /\ Part(z, q, l) \in Seq(Letters)
      <4>1. l <= Len(z)
        BY <1>1
      <4>2. PICK o \in Nat : o = 0 /\ o <= a
        BY <3>2
      <4>3. Part(z, o, a) \in Seq(Letters)
        BY <1>1, <3>2, <4>2, PartIs
      <4>4. Part(z, q, l) \in Seq(Letters)
        BY <1>1, <3>2, <4>1, PartIs
      <4>5. QED
        BY <4>2, <4>3, <4>4
    <3>5. PICK s \in Seq(Letters), t \in Seq(Letters), u \in Seq(Letters) :
             s = Solid(Part(z, 0, a)) /\ t = Solid(Part(z, q, l)) /\ u = Solid(Part(z, l, m))
      BY <1>2, <3>4, SolidTypes
    <3>6. Regrouped(s, t, u)
      BY Regroup
    <3>7. Heard(g, c, "text") = s \o t
      BY <3>2, <3>5 DEF Past
    <3>8. Heard(g, d, "text") = (s \o t) \o u
      BY <1>2, <3>1, <3>5, <3>7 DEF Spoke
    <3>9. QED
      BY <3>2, <3>3, <3>5, <3>6, <3>8 DEF Regrouped
  <2>9. Past(z, P, Q, m, d, h, g)
    BY <2>4, <2>7, <2>8 DEF Past
  <2>10. Holds(z, m, m, d)
    <3>1. Part(z, m, m) = << >> /\ m \in 0 .. m
      BY <1>1, PartEmpty
    <3>2. QED
      BY <2>4, <3>1 DEF Holds
  <2>11. AfterThinking(c) = d
    BY <1>2, <1>4, <2>1, <2>3 DEF AfterThinking
  <2>12. QED
    BY <2>4, <2>5, <2>9, <2>10, <2>11
<1>5. QED
  BY <1>3, <1>4

Staged(z, m, c, h, g) == Before(z, m, c, h, g) \/ Inside(z, m, c, h, g) \/ Behind(z, m, c, h, g)

\* what is read in the thinking
Ready(z, m, c, h, g) ==
    \E P \in 1 .. m - 1, k \in Nat :
        /\ P + 1 <= k /\ k <= m /\ Holds(z, m, k, c) /\ Within(z, P, k, c, h, g)
        /\ FirstOpen(z, 0, P, m) /\ NoEnds(z, P + 1, k + 3) /\ Clear(z, P + 1, k, m)

\* The thinking, and then what follows it in the same chunk.
LEMMA ThinkingStage ==
    ASSUME NEW z, NEW m, BareText(z, m), NEW r, NEW c, Fit(r, c), Still(c), Lettered(c),
           NEW h \in Seq(Letters), NEW g \in Seq(Letters), Ready(z, m, c, h, g),
           NEW d, d = InThinking(c)
    PROVE  Staged(z, m, IF d.extracted THEN AfterThinking(d) ELSE d, h, g)
<1>1. z \in Seq(Letters) /\ m \in Nat /\ m <= Len(z)
  BY DEF BareText
<1>2. PICK P \in 1 .. m - 1, k \in Nat :
        /\ P + 1 <= k /\ k <= m /\ Holds(z, m, k, c) /\ Within(z, P, k, c, h, g)
        /\ FirstOpen(z, 0, P, m) /\ NoEnds(z, P + 1, k + 3) /\ Clear(z, P + 1, k, m)
  BY DEF Ready
<1>3. Inside(z, m, d, h, g) \/ Left(z, m, d, h, g)
  BY <1>2, InsideStage
<1>4. Fit(r, d) /\ Lettered(d)
  <2>1. c.inThinking
    BY <1>2 DEF Within
  <2>2. QED
    BY <2>1, InsideFits, InsideKeeps DEF Keeps
<1>5. CASE Inside(z, m, d, h, g)
  <2>1. ~d.extracted
    BY <1>5 DEF Inside, Within
  <2>2. QED
    BY <1>5, <2>1 DEF Staged
<1>6. CASE Left(z, m, d, h, g)
  <2>1. PICK R \in 1 .. m - 1, Q \in 1 .. m - 1, l \in Nat :
        /\ l = Q + 3 /\ Holds(z, m, l, d) /\ Past(z, R, Q, l, d, h, g)
        /\ FirstOpen(z, 0, R, m) /\ FirstEnd(z, R + 1, Q, m)
    BY <1>6 DEF Left
  <2>2. Q + 3 <= l /\ l <= m
    BY <1>1, <2>1 DEF Holds
  <2>3. PICK e : e = AfterThinking(d)
    OBVIOUS
  <2>4. Holds(z, m, m, e) /\ Past(z, R, Q, m, e, h, g)
    BY <1>4, <2>1, <2>2, <2>3, AfterStage
  <2>5. Behind(z, m, e, h, g)
    BY <2>1, <2>4 DEF Behind
  <2>6. d.extracted
    BY <2>1 DEF Past
  <2>7. QED
    BY <2>3, <2>5, <2>6 DEF Staged
<1>7. QED
  BY <1>3, <1>5, <1>6

\* What has been found stays found when more of the text arrives.
LEMMA FoundStays ==
    ASSUME NEW z, NEW a \in Nat, NEW m \in Nat, NEW n \in Nat, m <= n, NEW P
    PROVE  /\ FirstOpen(z, a, P, m) => FirstOpen(z, a, P, n)
           /\ FirstEnd(z, a, P, m) => FirstEnd(z, a, P, n)
<1>1. \A x \in a + 1 .. m - 1 : x \in a + 1 .. n - 1
  OBVIOUS
<1>2. \A x \in a + 1 .. m - 3 : x \in a + 1 .. n - 3
  OBVIOUS
<1>3. QED
  BY <1>1, <1>2 DEF FirstOpen, FirstEnd

\* What arrives joins the buffer.
Grown(z, n, k, r, c, d) ==
    /\ Lettered(d) /\ Holds(z, n, k, d) /\ Fit(r, d) /\ Still(d) /\ d.out = c.out
    /\ d.inThinking = c.inThinking /\ d.extracted = c.extracted

LEMMA BufferGrows ==
    ASSUME NEW z, NEW n, BareText(z, n), NEW m \in Nat, m <= n, NEW r, NEW c, Fit(r, c), Still(c), Lettered(c),
           NEW k \in Nat, Holds(z, m, k, c)
    PROVE  Grown(z, n, k, r, c, [c EXCEPT !.buf = @ \o Part(z, m, n)])
<1>1. z \in Seq(Letters) /\ n \in Nat /\ n <= Len(z) /\ Len(z) \in Nat
  BY LenProperties DEF BareText
<1>2. DOMAIN c = Fields
  BY DEF Lettered
<1>3. PICK s, d : s = Part(z, m, n) /\ d = [c EXCEPT !.buf = @ \o s]
  OBVIOUS
<1>4. /\ DOMAIN d = Fields /\ SameIndices(c, d) /\ d.blocks = c.blocks /\ d.out = c.out
      /\ d.buf = c.buf \o s
  BY <1>2, <1>3 DEF Fields, SameIndices
<1>5. Fit(r, d) /\ Still(d)
  BY <1>4, FitAlike, StillKept
<1>6. Lettered(d) /\ Holds(z, n, k, d)
  <2>1. k <= m /\ c.buf = Part(z, k, m)
    BY DEF Holds
  <2>2. Part(z, k, m) \o Part(z, m, n) = Part(z, k, n)
    BY <1>1, <2>1, PartsJoin
  <2>3. k <= n
    BY <1>1, <2>1
  <2>4. Part(z, k, n) \in Seq(Letters)
    BY <1>1, <2>3, PartIs
  <2>5. d.buf = Part(z, k, n)
    BY <1>3, <1>4, <2>1, <2>2
  <2>6. k \in 0 .. n
    BY <1>1, <2>3
  <2>7. QED
    BY <1>4, <2>4, <2>5, <2>6 DEF Lettered, Holds
<1>7. QED
  BY <1>3, <1>4, <1>5, <1>6 DEF Grown, SameIndices

\* Before the thinking.
LEMMA ContentBefore ==
    ASSUME NEW z, NEW n, BareText(z, n), NEW m \in Nat, m <= n, NEW r, NEW c,
           Fit(r, c), Still(c), Lettered(c),
           NEW h \in Seq(Letters), NEW g \in Seq(Letters), thinking, Before(z, m, c, h, g)
    PROVE  Staged(z, n, Content(c, Part(z, m, n)), h, g)
<1>1. n \in Nat
  BY DEF BareText
<1>2. PICK k \in 0 .. m : (k = 0 \/ k + 2 <= m) /\ Holds(z, m, k, c) /\ NotYet(z, k, c, h, g)
  BY DEF Before
<1>3. k \in Nat /\ k <= n /\ (k = 0 \/ k + 2 <= n) /\ NoOpens(z, 0, k + 1)
  <2>1. k \in Nat /\ k <= n /\ (k = 0 \/ k + 2 <= n)
    BY <1>1, <1>2
  <2>2. \A p \in 0 + 1 .. (k + 1) - 1 : p \in 0 + 1 .. m - 1
    BY <1>2
  <2>3. NoOpens(z, 0, m)
    BY DEF Before
  <2>4. QED
    BY <2>1, <2>2, <2>3 DEF NoOpens
<1>4. PICK c0 : c0 = [c EXCEPT !.buf = @ \o Part(z, m, n)]
  OBVIOUS
<1>5. /\ Lettered(c0) /\ Holds(z, n, k, c0) /\ Fit(r, c0) /\ c0.out = c.out
      /\ c0.inThinking = c.inThinking /\ c0.extracted = c.extracted
  <2>1. Holds(z, m, k, c) /\ k \in Nat
    BY <1>2, <1>3
  <2>2. Grown(z, n, k, r, c, [c EXCEPT !.buf = @ \o Part(z, m, n)])
    BY <2>1, BufferGrows
  <2>3. QED
    BY <1>4, <2>2 DEF Grown
<1>6. NotYet(z, k, c0, h, g)
  BY <1>2, <1>5 DEF NotYet, Heard
<1>7. ~c0.inThinking /\ ~c0.extracted
  BY <1>6 DEF NotYet
<1>8. PICK c1 : c1 = BeforeThinking(c0)
  OBVIOUS
<1>9. Fit(r, c1) /\ Still(c1) /\ Lettered(c1)
  BY <1>5, <1>7, <1>8, BeforeFits, BeforeKeeps DEF Keeps
<1>10. PICK c2 : c2 = IF c1.inThinking THEN InThinking(c1) ELSE c1
  OBVIOUS
<1>11. PICK d : d = IF c2.extracted THEN AfterThinking(c2) ELSE c2
  OBVIOUS
<1>12. Content(c, Part(z, m, n)) = d
  BY <1>4, <1>7, <1>8, <1>10, <1>11 DEF Content
<1>13. CASE StartTag(c0.buf) = 0
  <2>1. Before(z, n, c1, h, g)
    BY <1>3, <1>5, <1>6, <1>8, <1>13, BeforeNone
  <2>2. ~c1.inThinking /\ ~c1.extracted
    BY <2>1 DEF Before, NotYet
  <2>3. d = c1
    BY <1>10, <1>11, <2>2
  <2>4. QED
    BY <1>12, <2>1, <2>3 DEF Staged
<1>14. CASE StartTag(c0.buf) # 0
  <2>1. Entered(z, n, c1, h, g)
    BY <1>3, <1>5, <1>6, <1>8, <1>14, BeforeTag
  <2>2. PICK P \in 1 .. n - 1 :
           Holds(z, n, P + 1, c1) /\ Within(z, P, P + 1, c1, h, g) /\ FirstOpen(z, 0, P, n)
    BY <2>1 DEF Entered
  <2>3. PICK l \in Nat : l = P + 1 /\ P + 1 <= l /\ l <= n
    <3>1. P + 1 \in Nat /\ P + 1 <= P + 1 /\ P + 1 <= n
      BY <1>1
    <3>2. QED
      BY <3>1
  <2>4. NoEnds(z, P + 1, l + 3) /\ Clear(z, P + 1, l, n)
    <3>1. \A p : p \notin (P + 1) + 1 .. (l + 3) - 3
      BY <2>3
    <3>2. \A p : p \notin (P + 1) + 1 .. l
      BY <2>3
    <3>3. QED
      BY <3>1, <3>2 DEF NoEnds, Clear
  <2>5. Ready(z, n, c1, h, g)
    BY <2>2, <2>3, <2>4 DEF Ready
  <2>6. c1.inThinking
    BY <2>2 DEF Within
  <2>7. c2 = InThinking(c1)
    BY <1>10, <2>6
  <2>8. Staged(z, n, IF c2.extracted THEN AfterThinking(c2) ELSE c2, h, g)
    BY <1>9, <2>5, <2>7, ThinkingStage
  <2>9. QED
    BY <1>11, <1>12, <2>8
<1>15. QED
  BY <1>13, <1>14

\* In the thinking.
LEMMA ContentInside ==
    ASSUME NEW z, NEW n, BareText(z, n), NEW m \in Nat, m <= n, NEW r, NEW c,
           Fit(r, c), Still(c), Lettered(c),
           NEW h \in Seq(Letters), NEW g \in Seq(Letters), thinking, Inside(z, m, c, h, g)
    PROVE  Staged(z, n, Content(c, Part(z, m, n)), h, g)
<1>1. n \in Nat
  BY DEF BareText
<1>2. PICK P \in 1 .. m - 1, k \in 0 .. m :
        /\ P + 1 <= k /\ Holds(z, m, k, c) /\ Within(z, P, k, c, h, g)
        /\ FirstOpen(z, 0, P, m) /\ NoEnds(z, P + 1, m) /\ Clear(z, P + 1, k, m)
  BY DEF Inside
<1>3. k \in Nat /\ k <= n /\ P \in 1 .. n - 1
  BY <1>1, <1>2
<1>4. FirstOpen(z, 0, P, n)
  BY <1>1, <1>2, FoundStays
<1>5. NoEnds(z, P + 1, k + 3)
  <2>1. SUFFICES ASSUME NEW q \in (P + 1) + 1 .. (k + 3) - 3, Ends(z, q)
                 PROVE  FALSE
    BY DEF NoEnds
  <2>2. q \in (P + 1) + 1 .. k /\ z[q] = CloseTag[1]
    BY <1>2, <2>1 DEF Ends, At
  <2>3. q + 3 <= m
    BY <1>2, <2>2 DEF Clear
  <2>4. q \in (P + 1) + 1 .. m - 3
    BY <1>2, <2>2, <2>3
  <2>5. QED
    BY <1>2, <2>1, <2>4 DEF NoEnds
<1>6. Clear(z, P + 1, k, n)
  <2>1. SUFFICES ASSUME NEW q \in (P + 1) + 1 .. k, z[q] = CloseTag[1]
                 PROVE  q + 3 <= n
    BY DEF Clear
  <2>2. q + 3 <= m
    BY <1>2, <2>1 DEF Clear
  <2>3. QED
    BY <1>1, <1>2, <2>1, <2>2
<1>7. PICK c0 : c0 = [c EXCEPT !.buf = @ \o Part(z, m, n)]
  OBVIOUS
<1>8. /\ Lettered(c0) /\ Holds(z, n, k, c0) /\ Fit(r, c0) /\ Still(c0) /\ c0.out = c.out
      /\ c0.inThinking = c.inThinking /\ c0.extracted = c.extracted
  <2>1. Holds(z, m, k, c) /\ k \in Nat
    BY <1>2, <1>3
  <2>2. Grown(z, n, k, r, c, [c EXCEPT !.buf = @ \o Part(z, m, n)])
    BY <2>1, BufferGrows
  <2>3. QED
    BY <1>7, <2>2 DEF Grown
<1>9. Within(z, P, k, c0, h, g)
  BY <1>2, <1>8 DEF Within, Heard
<1>10. Ready(z, n, c0, h, g)
  BY <1>2, <1>3, <1>4, <1>5, <1>6, <1>8, <1>9 DEF Ready
<1>11. PICK c2 : c2 = InThinking(c0)
  OBVIOUS
<1>12. Staged(z, n, IF c2.extracted THEN AfterThinking(c2) ELSE c2, h, g)
  BY <1>8, <1>10, <1>11, ThinkingStage
<1>13. Content(c, Part(z, m, n)) = IF c2.extracted THEN AfterThinking(c2) ELSE c2
  <2>1. c0.inThinking
    BY <1>9 DEF Within
  <2>2. QED
    BY <1>7, <1>11, <2>1 DEF Content
<1>14. QED
  BY <1>12, <1>13

\* Behind it.
LEMMA ContentBehind ==
    ASSUME NEW z, NEW n, BareText(z, n), NEW m \in Nat, m <= n, NEW r, NEW c,
           Fit(r, c), Still(c), Lettered(c),
           NEW h \in Seq(Letters), NEW g \in Seq(Letters), thinking, Behind(z, m, c, h, g)
    PROVE  Staged(z, n, Content(c, Part(z, m, n)), h, g)
<1>1. n \in Nat
  BY DEF BareText
<1>2. PICK P \in 1 .. m - 1, Q \in 1 .. m - 1 :
        /\ Holds(z, m, m, c) /\ Past(z, P, Q, m, c, h, g)
        /\ FirstOpen(z, 0, P, m) /\ FirstEnd(z, P + 1, Q, m)
  BY DEF Behind
<1>3. P \in 1 .. n - 1 /\ Q \in 1 .. n - 1 /\ Q + 3 <= m /\ P + 1 \in Nat
  <2>1. P \in 1 .. n - 1 /\ Q \in 1 .. n - 1 /\ P + 1 \in Nat
    BY <1>1, <1>2
  <2>2. Q \in (P + 1) + 1 .. m - 3
    BY <1>2 DEF FirstEnd
  <2>3. QED
    BY <2>1, <2>2
<1>4. FirstOpen(z, 0, P, n) /\ FirstEnd(z, P + 1, Q, n)
  <2>1. FirstOpen(z, 0, P, n)
    BY <1>1, <1>2, FoundStays
  <2>2. FirstEnd(z, P + 1, Q, n)
    BY <1>1, <1>2, <1>3, FoundStays
  <2>3. QED
    BY <2>1, <2>2
<1>5. PICK c0 : c0 = [c EXCEPT !.buf = @ \o Part(z, m, n)]
  OBVIOUS
<1>6. /\ Lettered(c0) /\ Holds(z, n, m, c0) /\ Fit(r, c0) /\ c0.out = c.out
      /\ c0.inThinking = c.inThinking /\ c0.extracted = c.extracted
  <2>1. Holds(z, m, m, c) /\ m \in Nat
    BY <1>2
  <2>2. Grown(z, n, m, r, c, [c EXCEPT !.buf = @ \o Part(z, m, n)])
    BY <2>1, BufferGrows
  <2>3. QED
    BY <1>5, <2>2 DEF Grown
<1>7. Past(z, P, Q, m, c0, h, g)
  BY <1>2, <1>6 DEF Past, Heard
<1>8. PICK d : d = AfterThinking(c0)
  OBVIOUS
<1>9. Holds(z, n, n, d) /\ Past(z, P, Q, n, d, h, g)
  BY <1>3, <1>6, <1>7, <1>8, AfterStage
<1>10. Behind(z, n, d, h, g)
  BY <1>3, <1>4, <1>9 DEF Behind
<1>11. Content(c, Part(z, m, n)) = d
  <2>1. ~c0.inThinking /\ c0.extracted
    BY <1>7 DEF Past
  <2>2. QED
    BY <1>5, <1>8, <2>1 DEF Content
<1>12. QED
  BY <1>10, <1>11 DEF Staged

\* One chunk of text, however far the stream is.
LEMMA ContentStage ==
    ASSUME NEW z, NEW n, BareText(z, n), NEW m \in Nat, m <= n, NEW r, NEW c,
           Fit(r, c), Still(c), Lettered(c),
           NEW h \in Seq(Letters), NEW g \in Seq(Letters), thinking, Staged(z, m, c, h, g)
    PROVE  Staged(z, n, Content(c, Part(z, m, n)), h, g)
<1>1. CASE Before(z, m, c, h, g)
  BY <1>1, ContentBefore
<1>2. CASE Inside(z, m, c, h, g)
  BY <1>2, ContentInside
<1>3. CASE Behind(z, m, c, h, g)
  BY <1>3, ContentBehind
<1>4. QED
  BY <1>1, <1>2, <1>3 DEF Staged

\* What is around the thinking, with and without what follows the closing tag.
Around(z, m, P, Q, w) ==
    /\ FirstEnd(z, P + 1, Q, m) =>
          Solid(w.text) = Solid(Part(z, 0, P - 1)) \o Solid(Part(z, Q + 3, m))
    /\ LastClose(z, P + 1, Q, m) => Solid(w.text) = Solid(Part(z, 0, P - 1))

LEMMA AroundThinking ==
    ASSUME NEW z, NEW m, BareText(z, m), NEW P \in 1 .. m - 1, NEW Q \in 1 .. m - 1,
           NEW w, Divided(z, m, P, Q, w)
    PROVE  Around(z, m, P, Q, w)
<1>1. z \in Seq(Letters) /\ m \in Nat /\ m <= Len(z) /\ Len(z) \in Nat /\ P \in Nat /\ Q \in Nat
  BY LenProperties DEF BareText
<1>2. PICK o \in Nat, a \in Nat, b \in Nat :
         o = 0 /\ a = P - 1 /\ o <= a /\ a <= Len(z) /\ b = Q + 1 /\ b <= m
  <2>1. 0 \in Nat /\ P - 1 \in Nat /\ 0 <= P - 1 /\ P - 1 <= Len(z) /\ Q + 1 \in Nat /\ Q + 1 <= m
    BY <1>1
  <2>2. QED
    BY <2>1
<1>3. Part(z, o, a) \in Seq(Letters) /\ Part(z, b, m) \in Seq(Letters)
  <2>1. Part(z, o, a) \in Seq(Letters)
    BY <1>1, <1>2, PartIs
  <2>2. b <= m /\ m <= Len(z)
    BY <1>1, <1>2
  <2>3. Part(z, b, m) \in Seq(Letters)
    BY <1>1, <2>2, PartIs
  <2>4. QED
    BY <2>1, <2>3
<1>4. Solid(w.text) = Solid(Part(z, o, a)) \o Solid(Part(z, b, m))
  <2>1. w.text = Part(z, o, a) \o Part(z, b, m)
    BY <1>2 DEF Divided
  <2>2. QED
    BY <1>3, <2>1, SolidConcat
<1>5. ASSUME FirstEnd(z, P + 1, Q, m)
      PROVE  Solid(Part(z, b, m)) = Solid(Part(z, Q + 3, m))
  <2>1. Q \in (P + 1) + 1 .. m - 3 /\ z[Q + 2] = NL /\ z[Q + 3] = NL
    BY <1>5 DEF FirstEnd, Ends
  <2>2. PICK n \in Nat : n = Q + 3 /\ b <= n /\ n <= m /\ n <= Len(z)
    <3>1. Q + 3 \in Nat /\ b <= Q + 3 /\ Q + 3 <= m /\ Q + 3 <= Len(z)
      BY <1>1, <1>2, <2>1
    <3>2. QED
      BY <3>1
  <2>3. \A i \in b + 1 .. n : z[i] = NL
    <3>1. \A i \in b + 1 .. n : i = Q + 2 \/ i = Q + 3
      BY <1>1, <1>2, <2>2
    <3>2. QED
      BY <2>1, <3>1
  <2>4. b <= n /\ n <= m /\ n <= Len(z) /\ m <= Len(z)
    BY <1>1, <2>2
  <2>5. Solid(Part(z, b, m)) = Solid(Part(z, b, n)) \o Solid(Part(z, n, m))
    <3>1. b \in Nat /\ n \in Nat /\ m \in Nat /\ z \in Seq(Letters)
      BY <1>1
    <3>2. b <= n /\ n <= m /\ m <= Len(z)
      BY <2>4
    <3>3. QED
      BY <3>1, <3>2, SolidParts
  <2>6. Solid(Part(z, b, n)) = << >>
    BY <1>1, <2>3, <2>4, BlankPart
  <2>7. PICK x \in Seq(Letters) : x = Solid(Part(z, n, m))
    <3>1. Part(z, n, m) \in Seq(Letters)
      BY <1>1, <2>4, PartIs
    <3>2. QED
      BY <3>1, SolidTypes
  <2>8. << >> \o x = x
    BY ConcatEmptySeq
  <2>9. QED
    BY <2>2, <2>5, <2>6, <2>7, <2>8
<1>6. ASSUME LastClose(z, P + 1, Q, m)
      PROVE  Solid(Part(z, b, m)) = << >>
  <2>1. \A i \in Q + 2 .. m : z[i] = NL
    BY <1>6 DEF LastClose
  <2>2. \A i \in b + 1 .. m : z[i] = NL
    BY <1>1, <1>2, <2>1
  <2>3. b <= m /\ m <= Len(z)
    BY <1>1, <1>2
  <2>4. QED
    BY <1>1, <2>2, <2>3, BlankPart
<1>7. PICK y \in Seq(Letters) : y = Solid(Part(z, o, a))
  BY <1>3, SolidTypes
<1>8. y \o << >> = y
  BY ConcatEmptySeq
<1>9. QED
  BY <1>2, <1>4, <1>5, <1>6, <1>7, <1>8 DEF Around

\* The stream has taken out of z what w is.
ToldAs(c, w, h, g) ==
    Heard(h, c, "thinking") = Solid(w.thinking) /\ Heard(g, c, "text") = Solid(w.text)

\* The last of the buffer, in the thinking.
LEMMA LastInside ==
    ASSUME NEW z, NEW m, BareText(z, m), NEW r, NEW c, Fit(r, c), Lettered(c),
           NEW h \in Seq(Letters), NEW g \in Seq(Letters), thinking, Inside(z, m, c, h, g),
           NEW w, w = Complete(Part(z, 0, m)), w.found
    PROVE  ToldAs(LastOfBuffer(c), w, h, g)
<1>1. z \in Seq(Letters) /\ m \in Nat /\ m <= Len(z) /\ Len(z) \in Nat
  BY LenProperties DEF BareText
<1>2. PICK P \in 1 .. m - 1, k \in 0 .. m :
        /\ P + 1 <= k /\ Holds(z, m, k, c) /\ Within(z, P, k, c, h, g)
        /\ FirstOpen(z, 0, P, m) /\ NoEnds(z, P + 1, m) /\ Clear(z, P + 1, k, m)
  BY DEF Inside
<1>3. PICK R \in 1 .. m - 1, Q \in 1 .. m - 1 :
              /\ FirstOpen(z, 0, R, m) /\ Divided(z, m, R, Q, w)
              /\ \/ FirstEnd(z, R + 1, Q, m)
                 \/ NoEnds(z, R + 1, m) /\ LastClose(z, R + 1, Q, m)
  BY CompleteAt
<1>4. R = P
  BY <1>1, <1>2, <1>3, OneFirst
<1>5. P \in Nat /\ k \in Nat /\ Q \in Nat /\ k <= m /\ P + 1 \in Nat
  BY <1>1, <1>2, <1>3
<1>6. LastClose(z, P + 1, Q, m)
  <2>1. ~FirstEnd(z, P + 1, Q, m)
    BY <1>1, <1>2, <1>5, OneFirst
  <2>2. QED
    BY <1>3, <1>4, <2>1
<1>7. /\ Q \in (P + 1) + 1 .. m - 1 /\ At(z, CloseTag, Q)
      /\ \A i \in Q + 2 .. m : z[i] = NL
  BY <1>6 DEF LastClose
<1>8. Q \in k + 1 .. m - 1
  <2>1. SUFFICES ASSUME Q <= k
                 PROVE  FALSE
    BY <1>5, <1>7
  <2>2. Q \in (P + 1) + 1 .. k /\ z[Q] = CloseTag[1]
    BY <1>5, <1>7, <2>1 DEF At
  <2>3. Q + 3 <= m
    BY <1>2, <2>2 DEF Clear
  <2>4. Q + 2 \in Q + 2 .. m /\ Q + 3 \in Q + 2 .. m /\ Q \in (P + 1) + 1 .. m - 3
    BY <1>1, <1>5, <1>7, <2>3
  <2>5. Ends(z, Q)
    BY <1>7, <2>4 DEF Ends
  <2>6. QED
    BY <1>2, <2>4, <2>5 DEF NoEnds
<1>9. LastClose(z, k, Q, m)
  BY <1>7, <1>8 DEF LastClose
<1>10. PICK b, p : b = c.buf /\ p = EndTagAtEnd(b)
  OBVIOUS
<1>11. b = Part(z, k, m) /\ b \in Seq(Letters) /\ b # << >>
  <2>1. b = Part(z, k, m)
    BY <1>2, <1>10 DEF Holds
  <2>2. Part(z, k, m) \in Seq(Letters) /\ Len(Part(z, k, m)) = m - k
    BY <1>1, <1>5, PartIs
  <2>3. m - k # 0
    BY <1>1, <1>5, <1>8
  <2>4. Len(b) # 0
    BY <2>1, <2>2, <2>3
  <2>5. QED
    BY <2>1, <2>2, <2>4
<1>12. p \in Nat /\ p # 0 /\ k + p = Q
  <2>1. p = EndTagAtEnd(Part(z, k, m))
    BY <1>10, <1>11
  <2>2. /\ p \in Nat
        /\ p = 0 => \A q : ~LastClose(z, k, q, m)
        /\ p # 0 => LastClose(z, k, k + p, m)
    BY <1>5, <2>1, EndTagAtEndAt
  <2>3. p # 0 /\ LastClose(z, k, k + p, m)
    BY <1>9, <2>2
  <2>4. PICK q : q = k + p
    OBVIOUS
  <2>5. q = Q
    BY <1>1, <1>5, <1>9, <2>3, <2>4, OneFirst
  <2>6. QED
    BY <2>2, <2>3, <2>4, <2>5
<1>13. PICK y \in Nat, n \in Nat : y = Q - 1 /\ n = p - 1 /\ k + n = y /\ n <= m - k /\ k <= y /\ y <= Len(z)
  <2>1. Q - 1 \in Nat /\ p - 1 \in Nat /\ k + (p - 1) = Q - 1 /\ p - 1 <= m - k /\ k <= Q - 1 /\ Q - 1 <= Len(z)
    BY <1>1, <1>5, <1>8, <1>12
  <2>2. QED
    BY <2>1
<1>14. PICK s : s = Take(b, n) /\ s = Part(z, k, y) /\ s \in Seq(Letters)
  <2>1. k <= m /\ n <= m - k
    BY <1>5, <1>13
  <2>2. Take(Part(z, k, m), n) = Part(z, k, k + n)
    BY <1>1, <1>5, <2>1, PartOfPart
  <2>3. k <= y /\ y <= Len(z)
    BY <1>13
  <2>4. Part(z, k, y) \in Seq(Letters)
    BY <1>1, <1>5, <2>3, PartIs
  <2>5. QED
    BY <1>11, <1>13, <2>2, <2>4
<1>15. PICK d : d = EndThinking(c, s, << >>)
  OBVIOUS
<1>16. Speaks(c, d, "thinking", s)
  BY <1>14, <1>15, EndingSpeaks, PlainEmpty
<1>17. Heard(h, d, "thinking") = Solid(w.thinking)
  <2>1. Spoke(h, c, d, "thinking", s)
    BY <1>14, <1>16, HeardSaid
  <2>2. PICK a \in Nat : a = P + 1 /\ a <= k
    BY <1>2, <1>5
  <2>3. k <= y /\ y <= Len(z)
    BY <1>13
  <2>4. Solid(Part(z, a, y)) = Solid(Part(z, a, k)) \o Solid(Part(z, k, y))
    <3>1. a \in Nat /\ k \in Nat /\ y \in Nat /\ z \in Seq(Letters)
      BY <1>1, <1>5
    <3>2. a <= k /\ k <= y /\ y <= Len(z)
      BY <2>2, <2>3
    <3>3. QED
      BY <3>1, <3>2, SolidParts
  <2>5. w.thinking = Part(z, a, y)
    BY <1>3, <1>4, <1>13, <2>2 DEF Divided
  <2>6. Heard(h, c, "thinking") = Solid(Part(z, a, k))
    BY <1>2, <2>2 DEF Within
  <2>7. QED
    BY <1>14, <2>1, <2>4, <2>5, <2>6 DEF Spoke
<1>18. Heard(g, d, "text") = Solid(w.text)
  <2>1. Heard(g, d, "text") = Heard(g, c, "text")
    BY <1>14, <1>16, HeardMore
  <2>2. Heard(g, c, "text") = Solid(Part(z, 0, P - 1))
    BY <1>2 DEF Within
  <2>3. Divided(z, m, P, Q, w)
    BY <1>3, <1>4
  <2>4. Solid(w.text) = Solid(Part(z, 0, P - 1))
    <3>1. Around(z, m, P, Q, w)
      BY <1>2, <1>3, <2>3, AroundThinking
    <3>2. QED
      BY <1>6, <3>1 DEF Around
  <2>5. QED
    BY <2>1, <2>2, <2>4
<1>19. LastOfBuffer(c) = d
  <2>1. c.inThinking
    BY <1>2 DEF Within
  <2>2. QED
    BY <1>10, <1>11, <1>12, <1>13, <1>14, <1>15, <2>1 DEF LastOfBuffer
<1>20. QED
  BY <1>17, <1>18, <1>19 DEF ToldAs

LEMMA LastStage ==
    ASSUME NEW z, NEW m, BareText(z, m), NEW r, NEW c, Fit(r, c), Lettered(c),
           NEW h \in Seq(Letters), NEW g \in Seq(Letters), thinking, Staged(z, m, c, h, g),
           NEW w, w = Complete(Part(z, 0, m)), w.found
    PROVE  ToldAs(LastOfBuffer(c), w, h, g)
<1>1. z \in Seq(Letters) /\ m \in Nat /\ m <= Len(z)
  BY DEF BareText
<1>2. PICK R \in 1 .. m - 1, Q \in 1 .. m - 1 :
              /\ FirstOpen(z, 0, R, m) /\ Divided(z, m, R, Q, w)
              /\ \/ FirstEnd(z, R + 1, Q, m)
                 \/ NoEnds(z, R + 1, m) /\ LastClose(z, R + 1, Q, m)
  BY CompleteAt
<1>3. CASE Before(z, m, c, h, g)
  BY <1>2, <1>3 DEF Before, NoOpens, FirstOpen
<1>4. CASE Inside(z, m, c, h, g)
  BY <1>4, LastInside
<1>5. CASE Behind(z, m, c, h, g)
  <2>1. PICK P \in 1 .. m - 1, S \in 1 .. m - 1 :
        /\ Holds(z, m, m, c) /\ Past(z, P, S, m, c, h, g)
        /\ FirstOpen(z, 0, P, m) /\ FirstEnd(z, P + 1, S, m)
    BY <1>5 DEF Behind
  <2>2. R = P
    BY <1>1, <1>2, <2>1, OneFirst
  <2>3. P + 1 \in Nat
    BY <2>1
  <2>4. FirstEnd(z, P + 1, Q, m) /\ Q = S
    <3>1. ~NoEnds(z, P + 1, m)
      BY <1>1, <2>1, <2>3, OneFirst
    <3>2. FirstEnd(z, P + 1, Q, m)
      BY <1>2, <2>2, <3>1
    <3>3. Q = S
      BY <1>1, <2>1, <2>3, <3>2, OneFirst
    <3>4. QED
      BY <3>2, <3>3
  <2>5. LastOfBuffer(c) = c
    <3>1. c.buf = << >>
      BY <1>1, <2>1, PartEmpty DEF Holds
    <3>2. QED
      BY <3>1 DEF LastOfBuffer
  <2>6. Divided(z, m, P, Q, w)
    BY <1>2, <2>2
  <2>7. Solid(w.text) = Solid(Part(z, 0, P - 1)) \o Solid(Part(z, Q + 3, m))
    <3>1. P \in 1 .. m - 1 /\ Q \in 1 .. m - 1
      BY <1>2, <2>1
    <3>2. Around(z, m, P, Q, w)
      BY <2>6, <3>1, AroundThinking
    <3>3. QED
      BY <2>4, <3>2 DEF Around
  <2>8. w.thinking = Part(z, P + 1, Q - 1)
    BY <2>6 DEF Divided
  <2>9. QED
    BY <2>1, <2>4, <2>5, <2>7, <2>8 DEF Past, ToldAs
<1>6. QED
  BY <1>3, <1>4, <1>5 DEF Staged

LEMMA ToldMute ==
    ASSUME NEW c, NEW d, NEW w, NEW h, NEW g, ToldAs(c, w, h, g),
           Mute(c, d)
    PROVE  ToldAs(d, w, h, g)
BY DEF ToldAs, Mute, Heard

\* generate_final_events: what it adds to the end of the buffer is white space.
LEMMA FinalStage ==
    ASSUME NEW z, NEW m, BareText(z, m), NEW r, NEW c, Fit(r, c), Still(c), Lettered(c),
           NEW h \in Seq(Letters), NEW g \in Seq(Letters), thinking, Staged(z, m, c, h, g),
           NEW w, w = Complete(Part(z, 0, m)), w.found
    PROVE  ToldAs(Final(c), w, h, g)
<1>1. PICK c1 : c1 = LastOfBuffer(c)
  OBVIOUS
<1>2. Fit(r, c1) /\ Lettered(c1)
  BY <1>1, LastFits, LastKeeps DEF Unheld, Keeps
<1>3. ToldAs(c1, w, h, g)
  BY <1>1, LastStage
<1>4. PICK c2 : c2 = IF OnlyThinking(c1)
                     THEN TextDelta([c1 EXCEPT !.reason = "max_tokens"], <<NL>>) ELSE c1
  OBVIOUS
<1>5. Fit(r, c2) /\ Lettered(c2) /\ ToldAs(c2, w, h, g)
  <2>1. CASE OnlyThinking(c1)
    <3>1. PICK e : e = [c1 EXCEPT !.reason = "max_tokens"]
      OBVIOUS
    <3>2. /\ DOMAIN e = Fields /\ SameIndices(c1, e) /\ e.blocks = c1.blocks
          /\ e.out = c1.out /\ e.buf = c1.buf
      <4>1. DOMAIN c1 = Fields
        BY <1>2 DEF Fit, Writes
      <4>2. QED
        BY <3>1, <4>1 DEF Fields, SameIndices
    <3>3. Fit(r, e)
      BY <1>2, <3>2, FitAlike
    <3>4. Lettered(e)
      BY <1>2, <3>2 DEF Lettered
    <3>5. ToldAs(e, w, h, g)
      BY <1>3, <3>2 DEF ToldAs, Heard
    <3>6. PICK s : s = <<NL>>
      OBVIOUS
    <3>7. s \in Seq(Letters) /\ Solid(s) = << >>
      <4>1. s \in Seq(Letters) /\ Len(s) = 1 /\ s[1] = NL
        BY <3>6, TagsAre
      <4>2. \A i \in 1 .. Len(s) : s[i] = NL
        BY <4>1
      <4>3. QED
        BY <4>1, <4>2, SolidBlank
    <3>8. c2 = TextDelta(e, s)
      BY <1>4, <2>1, <3>1, <3>6
    <3>9. Fit(r, c2) /\ Lettered(c2) /\ Speaks(e, c2, "text", s)
      BY <3>3, <3>4, <3>7, <3>8, TextFits, TextMoves, TextSpeaks DEF Moves
    <3>10. Heard(h, c2, "thinking") = Heard(h, e, "thinking")
      BY <3>4, <3>7, <3>9, HeardMore
    <3>11. Heard(g, c2, "text") = Heard(g, e, "text")
      <4>1. Spoke(g, e, c2, "text", s)
        BY <3>4, <3>7, <3>9, HeardSaid
      <4>2. PICK x \in Seq(Letters) : x = Heard(g, e, "text")
        BY <3>4, HeardMore
      <4>3. x \o << >> = x
        BY ConcatEmptySeq
      <4>4. QED
        BY <3>7, <4>1, <4>2, <4>3 DEF Spoke
    <3>12. QED
      BY <3>5, <3>9, <3>10, <3>11 DEF ToldAs
  <2>2. CASE ~OnlyThinking(c1)
    BY <1>2, <1>3, <1>4, <2>2
  <2>3. QED
    BY <2>1, <2>2
<1>6. PICK c3 : c3 = StopBlocks(c2, OpenBlocks(c2, Client!Types))
  OBVIOUS
<1>7. Lettered(c3) /\ Mute(c2, c3)
  BY <1>5, <1>6, OpenSilent, OpenMute DEF Silent
<1>8. PICK u, v : u = Ev("message_delta", 0, StopReason(c3), << >>) /\ v = Ev("message_stop", 0, "none", << >>)
  OBVIOUS
<1>9. Words(u) = << >> /\ Words(v) = << >>
  BY <1>8 DEF Words, Ev
<1>10. PICK e : e = Emit(c3, u)
  OBVIOUS
<1>11. Lettered(e) /\ Mute(c3, e)
  BY <1>7, <1>9, <1>10, EmitSilent, EmitMute DEF Silent
<1>12. PICK d : d = Emit(e, v)
  OBVIOUS
<1>13. Mute(e, d)
  BY <1>9, <1>11, <1>12, EmitMute
<1>14. ToldAs(c3, w, h, g)
  BY <1>5, <1>7, ToldMute
<1>15. ToldAs(e, w, h, g)
  BY <1>11, <1>14, ToldMute
<1>16. ToldAs(d, w, h, g)
  BY <1>13, <1>15, ToldMute
<1>17. Final(c) = d
  BY <1>1, <1>4, <1>6, <1>8, <1>10, <1>12 DEF Final
<1>18. QED
  BY <1>16, <1>17

\* A beginning of a text without quoted tags has none.
LEMMA BarePrefix ==
    ASSUME NEW z, NEW n, BareText(z, n), NEW m \in Nat, m <= n
    PROVE  BareText(z, m)
<1>1. z \in Seq(Letters) /\ n \in Nat /\ n <= Len(z) /\ Len(z) \in Nat /\ Bare(Part(z, 0, n))
  BY LenProperties DEF BareText
<1>2. PICK o \in Nat : o = 0 /\ o <= m /\ o <= n /\ m <= Len(z)
  BY <1>1
<1>3. PICK x, y : x = Part(z, o, m) /\ y = Part(z, o, n)
  OBVIOUS
<1>4. x \in Seq(Letters) /\ Len(x) = m /\ \A i \in 1 .. m : x[i] = z[i]
  <2>1. x \in Seq(Letters) /\ Len(x) = m - o /\ \A i \in 1 .. m - o : x[i] = z[o + i]
    BY <1>1, <1>2, <1>3, PartIs
  <2>2. m - o = m /\ \A i \in 1 .. m : o + i = i
    BY <1>2
  <2>3. QED
    BY <2>1, <2>2
<1>5. y \in Seq(Letters) /\ Len(y) = n /\ \A i \in 1 .. n : y[i] = z[i]
  <2>1. y \in Seq(Letters) /\ Len(y) = n - o /\ \A i \in 1 .. n - o : y[i] = z[o + i]
    BY <1>1, <1>2, <1>3, PartIs
  <2>2. n - o = n /\ \A i \in 1 .. n : o + i = i
    BY <1>1, <1>2
  <2>3. QED
    BY <2>1, <2>2
<1>6. ASSUME NEW tag \in {OpenTag, CloseTag}, NEW p \in 1 .. Len(x) - 1, SubSeq(x, p, p + 1) = tag
      PROVE  p \in Unquoted(x, tag)
  <2>1. Len(tag) = 2
    BY TagsAreText
  <2>2. p \in Nat /\ p >= 1 /\ p + 1 <= m /\ p \in 1 .. m /\ p + 1 \in 1 .. m /\ p \in 1 .. n /\ p + 1 \in 1 .. n
        /\ p + 1 <= Len(x) /\ p + 1 <= Len(y) /\ p \in 1 .. Len(y) - 1
    BY <1>1, <1>4, <1>5
  <2>3. At(x, tag, p)
    BY <1>4, <1>6, <2>2, TagAt
  <2>4. At(y, tag, p)
    BY <1>4, <1>5, <2>2, <2>3 DEF At
  <2>5. SubSeq(y, p, p + 1) = tag
    BY <1>5, <2>2, <2>4, TagAt
  <2>6. p \in Unquoted(y, tag)
    BY <1>1, <1>2, <1>3, <2>2, <2>5 DEF Bare
  <2>7. /\ p > 1 => y[p - 1] \notin QuoteBefore
        /\ p + 2 <= Len(y) => y[p + 2] \notin QuoteAfter
    BY <2>1, <2>6 DEF Unquoted
  <2>8. ASSUME p > 1
        PROVE  x[p - 1] \notin QuoteBefore
    <3>1. p - 1 \in 1 .. m /\ p - 1 \in 1 .. n
      BY <1>1, <2>2, <2>8
    <3>2. QED
      BY <1>4, <1>5, <2>7, <2>8, <3>1
  <2>9. ASSUME p + 2 <= Len(x)
        PROVE  x[p + 2] \notin QuoteAfter
    <3>1. p + 2 \in 1 .. m /\ p + 2 \in 1 .. n /\ p + 2 <= Len(y)
      BY <1>1, <1>4, <1>5, <2>2, <2>9
    <3>2. QED
      BY <1>4, <1>5, <2>7, <3>1
  <2>10. p \in 1 .. Len(x) + 1 - 2 /\ p + 2 - 1 = p + 1
    BY <1>4, <2>2
  <2>11. QED
    BY <1>6, <2>1, <2>8, <2>9, <2>10 DEF Unquoted
<1>7. Bare(x)
  BY <1>6 DEF Bare
<1>8. QED
  BY <1>1, <1>2, <1>3, <1>7 DEF BareText

-----------------------------------------------------------------------------
(* What was shown of a type.                                                  *)

TypedAs(l, t) == {x \in Range(l) : x.type = t}
Shown(l, t) == LettersOf(Only(l, TypedAs(l, t)))

LEMMA RangeIs ==
    ASSUME NEW l, IsSeq(l)
    PROVE  l \in Seq(Range(l)) /\ DOMAIN l = 1 .. Len(l) /\ Len(l) \in Nat /\ \A i \in 1 .. Len(l) : l[i] \in Range(l)
<1>1. l \in Seq(Range(l))
  BY DEF IsSeq, Range
<1>2. QED
  BY <1>1, LenProperties, ElementOfSeq

\* A part of what was shown is a text.
LEMMA PartSaid ==
    ASSUME NEW l, Said(l), NEW R
    PROVE  Said(Only(l, R))
<1>1. PICK T : T = Range(l)
  OBVIOUS
<1>2. IsSeq(l) /\ LettersOf(l) \in Seq(Letters)
  BY DEF Said
<1>3. l \in Seq(T) /\ DOMAIN l = 1 .. Len(l)
  BY <1>1, <1>2, RangeIs
<1>4. \A x \in T : x.ch \in Letters
  <2>1. SUFFICES ASSUME NEW i \in DOMAIN l
                 PROVE  l[i].ch \in Letters
    BY <1>1 DEF Range
  <2>2. PICK y : y = LettersOf(l)
    OBVIOUS
  <2>3. DOMAIN y = DOMAIN l /\ y[i] = l[i].ch
    BY <2>2 DEF LettersOf
  <2>4. y \in Seq(Letters)
    BY <1>2, <2>2
  <2>5. \A j \in DOMAIN y : y[j] \in Letters
    BY <2>4, LenProperties, ElementOfSeq
  <2>6. QED
    BY <2>3, <2>5
<1>5. PICK q : q = Only(l, R)
  OBVIOUS
<1>6. q \in Seq(T \cap R)
  BY <1>3, <1>5, OnlyTypes
<1>7. IsSeq(q)
  BY <1>6, SeqIsSeq
<1>8. PICK n \in Nat : n = Len(q) /\ DOMAIN q = 1 .. n
  BY <1>6, LenProperties
<1>9. \A i \in 1 .. n : q[i] \in T
  BY <1>6, <1>8, ElementOfSeq
<1>10. LettersOf(q) \in Seq(Letters)
  <2>1. LettersOf(q) = [i \in 1 .. n |-> q[i].ch]
    BY <1>8 DEF LettersOf
  <2>2. [i \in 1 .. n |-> q[i].ch] \in [1 .. n -> Letters]
    BY <1>4, <1>9
  <2>3. QED
    BY <2>1, <2>2, SeqDef
<1>11. QED
  BY <1>5, <1>7, <1>10 DEF Said

LEMMA ShownTypes ==
    ASSUME NEW l, Said(l), NEW t
    PROVE  Shown(l, t) \in Seq(Letters)
<1>1. PICK R : R = TypedAs(l, t)
  OBVIOUS
<1>2. Said(Only(l, R))
  BY PartSaid
<1>3. QED
  BY <1>1, <1>2 DEF Shown, Said

LEMMA ShownNothing ==
    ASSUME NEW t
    PROVE  Shown(<< >>, t) = << >>
<1>1. PICK R : R = TypedAs(<< >>, t)
  OBVIOUS
<1>2. Only(<< >>, R) = << >>
  BY OnlyEmpty
<1>3. QED
  BY <1>1, <1>2 DEF Shown, LettersOf

\* The characters of a delta are of its type.
LEMMA CharsAre ==
    ASSUME NEW e, e.text \in Seq(Letters)
    PROVE  LET q == Chars(e) IN
           /\ IsSeq(q) /\ \A i \in 1 .. Len(q) : q[i].type = e.type
<1>1. PICK w : w = e.text
  OBVIOUS
<1>2. PICK n \in Nat : n = Len(w) /\ DOMAIN w = 1 .. n
  BY <1>1, LenProperties
<1>3. PICK q : q = Chars(e)
  OBVIOUS
<1>4. DOMAIN q = 1 .. n /\ \A i \in 1 .. n : q[i].type = e.type
  BY <1>1, <1>2, <1>3 DEF Chars
<1>5. PICK S : S = {q[i] : i \in DOMAIN q}
  OBVIOUS
<1>6. q \in [1 .. n -> S]
  <2>1. q = [i \in 1 .. n |-> q[i]]
    BY <1>1, <1>2, <1>3 DEF Chars
  <2>2. QED
    BY <1>4, <1>5, <2>1
<1>7. q \in Seq(S)
  BY <1>6, SeqDef
<1>8. Len(q) = n
  BY <1>4, <1>7, LenProperties
<1>9. QED
  BY <1>3, <1>4, <1>5, <1>7, <1>8 DEF IsSeq

LEMMA ShowsMore ==
    ASSUME NEW l, Said(l), NEW e, e.text \in Seq(Letters), NEW t
    PROVE  Shown(l \o Chars(e), t) = Shown(l, t) \o (IF e.type = t THEN e.text ELSE << >>)
<1>1. PICK q, o : q = Chars(e) /\ o = l \o q
  OBVIOUS
<1>2. IsSeq(q) /\ \A i \in 1 .. Len(q) : q[i].type = e.type
  BY <1>1, CharsAre
<1>3. IsSeq(l)
  BY DEF Said
<1>4. /\ IsSeq(o) /\ Len(o) = Len(l) + Len(q)
      /\ \A i \in 1 .. Len(l) : o[i] = l[i]
      /\ \A i \in 1 .. Len(q) : o[Len(l) + i] = q[i]
  BY <1>1, <1>2, <1>3, IsSeqConcat
<1>5. PICK T, R, S : T = Range(o) /\ R = TypedAs(o, t) /\ S = TypedAs(l, t)
  OBVIOUS
<1>6. /\ l \in Seq(Range(l)) /\ Len(l) \in Nat /\ \A i \in 1 .. Len(l) : l[i] \in Range(l)
      /\ q \in Seq(Range(q)) /\ Len(q) \in Nat /\ DOMAIN q = 1 .. Len(q) /\ DOMAIN l = 1 .. Len(l)
      /\ DOMAIN o = 1 .. Len(o)
  BY <1>2, <1>3, <1>4, RangeIs
<1>7. \A i \in 1 .. Len(l) : l[i] \in T
  <2>1. SUFFICES ASSUME NEW i \in 1 .. Len(l)
                 PROVE  l[i] \in T
    OBVIOUS
  <2>2. i \in 1 .. Len(o)
    BY <1>4, <1>6
  <2>3. QED
    BY <1>4, <1>5, <1>6, <2>2 DEF Range
<1>8. \A i \in 1 .. Len(q) : q[i] \in T
  <2>1. SUFFICES ASSUME NEW i \in 1 .. Len(q)
                 PROVE  q[i] \in T
    OBVIOUS
  <2>2. Len(l) + i \in 1 .. Len(o)
    BY <1>4, <1>6
  <2>3. QED
    BY <1>4, <1>5, <1>6, <2>2 DEF Range
<1>9. l \in Seq(T) /\ q \in Seq(T)
  <2>1. l \in [1 .. Len(l) -> T] /\ q \in [1 .. Len(q) -> T]
    <3>1. l = [i \in 1 .. Len(l) |-> l[i]] /\ q = [i \in 1 .. Len(q) |-> q[i]]
      BY <1>6, LenProperties, SeqDef
    <3>2. QED
      BY <1>7, <1>8, <3>1
  <2>2. PICK i \in Nat, j \in Nat : l \in [1 .. i -> T] /\ q \in [1 .. j -> T]
    BY <1>6, <2>1
  <2>3. QED
    BY <2>2, SeqDef
<1>10. Only(o, R) = Only(l, R) \o Only(q, R)
  <2>1. l \in Seq(T) /\ q \in Seq(T)
    BY <1>9
  <2>2. Only(l \o q, R) = Only(l, R) \o Only(q, R)
    BY <2>1, OnlyConcat
  <2>3. QED
    BY <1>1, <2>2
<1>11. Only(l, R) = Only(l, S)
  <2>1. \A i \in 1 .. Len(l) : l[i] \in R <=> l[i] \in S
    BY <1>5, <1>6, <1>7 DEF TypedAs
  <2>2. QED
    BY <1>9, <2>1, OnlySame
<1>12. PICK x : x = Only(l, S)
  OBVIOUS
<1>13. Said(x)
  BY <1>12, PartSaid
<1>14. Shown(o, t) = LettersOf(Only(o, R)) /\ Shown(l, t) = LettersOf(x)
  BY <1>5, <1>12 DEF Shown
<1>15. CASE e.type = t
  <2>1. \A i \in 1 .. Len(q) : q[i] \in R
    BY <1>2, <1>5, <1>8, <1>15 DEF TypedAs
  <2>2. Only(q, R) = q
    BY <1>9, <2>1, OnlyAll
  <2>3. Only(o, R) = x \o Chars(e)
    BY <1>1, <1>10, <1>11, <1>12, <2>2
  <2>4. LettersOf(x \o Chars(e)) = LettersOf(x) \o e.text
    BY <1>13, SaysMore
  <2>5. QED
    BY <1>1, <1>14, <1>15, <2>3, <2>4
<1>16. CASE e.type # t
  <2>1. \A i \in 1 .. Len(q) : q[i] \notin R
    BY <1>2, <1>5, <1>16 DEF TypedAs
  <2>2. Only(q, R) = << >>
    BY <1>9, <2>1, OnlyNone
  <2>3. x \in Seq(T \cap S)
    BY <1>9, <1>12, OnlyTypes
  <2>4. x \o << >> = x
    BY <2>3, ConcatEmptySeq
  <2>5. Shown(o, t) = Shown(l, t)
    BY <1>10, <1>11, <1>12, <1>14, <2>2, <2>4
  <2>6. PICK y \in Seq(Letters) : y = Shown(l, t)
    BY ShownTypes
  <2>7. y \o << >> = y
    BY ConcatEmptySeq
  <2>8. QED
    BY <1>1, <1>16, <2>5, <2>6, <2>7
<1>17. QED
  BY <1>15, <1>16

LEMMA OfIs ==
    ASSUME NEW t
    PROVE  Of(t) = Shown(shown, t)
BY DEF Of, Shown, LettersOf, TypedAs

-----------------------------------------------------------------------------
(* The invariant of the thinking.                                             *)

Done(z, m, c, h, g) == \A w : w = Complete(Part(z, 0, m)) /\ w.found => ToldAs(c, w, h, g)

\* where the stream is in z, and where it has come to when it has ended
SplitAt(over, z, m, c, l) ==
    BareText(z, m) =>
        /\ ~over => Staged(z, m, c, Shown(l, "thinking"), Shown(l, "text"))
        /\ over => Done(z, m, c, Shown(l, "thinking"), Shown(l, "text"))

SplitInv ==
    /\ searching => ~thinking
    /\ thinking /\ toolEvents = 0 => SplitAt(ended, text, pos, ctx, shown)

\* Only what the events tell, the buffer and where the thinking is matters.
SameSplit(c, d, h, g, i, j) ==
    /\ d.buf = c.buf /\ d.inThinking = c.inThinking /\ d.extracted = c.extracted
    /\ Heard(i, d, "thinking") = Heard(h, c, "thinking") /\ Heard(j, d, "text") = Heard(g, c, "text")

LEMMA StagedAlike ==
    ASSUME NEW z, NEW m, NEW c, NEW d, NEW h, NEW g, NEW i, NEW j, SameSplit(c, d, h, g, i, j)
    PROVE  /\ Staged(z, m, c, h, g) => Staged(z, m, d, i, j)
           /\ Done(z, m, c, h, g) => Done(z, m, d, i, j)
<1>1. \A k : Holds(z, m, k, c) => Holds(z, m, k, d)
  BY DEF SameSplit, Holds
<1>2. \A k : NotYet(z, k, c, h, g) => NotYet(z, k, d, i, j)
  BY DEF SameSplit, NotYet
<1>3. \A P, k : Within(z, P, k, c, h, g) => Within(z, P, k, d, i, j)
  BY DEF SameSplit, Within
<1>4. \A P, Q, k : Past(z, P, Q, k, c, h, g) => Past(z, P, Q, k, d, i, j)
  BY DEF SameSplit, Past
<1>5. Before(z, m, c, h, g) => Before(z, m, d, i, j)
  BY <1>1, <1>2 DEF Before
<1>6. Inside(z, m, c, h, g) => Inside(z, m, d, i, j)
  BY <1>1, <1>3 DEF Inside
<1>7. Behind(z, m, c, h, g) => Behind(z, m, d, i, j)
  BY <1>1, <1>4 DEF Behind
<1>8. Done(z, m, c, h, g) => Done(z, m, d, i, j)
  BY DEF SameSplit, Done, ToldAs
<1>9. QED
  BY <1>5, <1>6, <1>7, <1>8 DEF Staged

LEMMA SplitAlike ==
    ASSUME NEW over, NEW z, NEW m, NEW c, NEW d, NEW l, NEW n,
           SameSplit(c, d, Shown(l, "thinking"), Shown(l, "text"), Shown(n, "thinking"), Shown(n, "text")),
           SplitAt(over, z, m, c, l)
    PROVE  SplitAt(over, z, m, d, n)
<1>1. PICK h, g, i, j : /\ h = Shown(l, "thinking") /\ g = Shown(l, "text")
                        /\ i = Shown(n, "thinking") /\ j = Shown(n, "text")
  OBVIOUS
<1>2. /\ Staged(z, m, c, h, g) => Staged(z, m, d, i, j)
      /\ Done(z, m, c, h, g) => Done(z, m, d, i, j)
  BY <1>1, StagedAlike
<1>3. QED
  BY <1>1, <1>2 DEF SplitAt

LEMMA InitSplit ==
    ASSUME Init
    PROVE  SplitInv
<1>1. pos = 0 /\ ended = FALSE /\ shown = << >> /\ (searching => thinking = FALSE)
      /\ text \in Texts \cup SearchTexts
  BY BoundAssumption DEF Init
<1>2. SUFFICES ASSUME thinking
               PROVE  SplitAt(ended, text, pos, ctx, shown)
  BY <1>1 DEF SplitInv
<1>3. PICK n, e : n = NewContext /\ e = Ev("message_start", 0, "none", << >>)
  OBVIOUS
<1>4. ctx = Emit(n, e)
  BY <1>1, <1>2, <1>3 DEF Init, Initial
<1>5. DOMAIN n = Fields /\ n.out = << >> /\ n.buf = << >> /\ n.inThinking = FALSE /\ n.extracted = FALSE
  BY <1>3 DEF NewContext, Fields
<1>6. Lettered(n)
  BY <1>5, ToldNothing, PlainEmpty DEF Lettered
<1>7. Words(e) = << >>
  BY <1>3 DEF Words, Ev
<1>8. Mute(n, ctx)
  BY <1>4, <1>6, <1>7, EmitMute
<1>9. ctx.buf = << >> /\ ctx.inThinking = FALSE /\ ctx.extracted = FALSE
  BY <1>4, <1>5 DEF Emit, Fields
<1>10. \A t : ToldOf(t, ctx.out) = << >>
  BY <1>5, <1>8, ToldOfNothing DEF Mute
<1>11. PICK h : h = << >>
  OBVIOUS
<1>12. \A t : Heard(h, ctx, t) = << >>
  <2>1. << >> \o << >> = << >>
    BY ConcatEmptySeq, PlainEmpty
  <2>2. QED
    BY <1>10, <1>11, <2>1, SolidEmpty DEF Heard
<1>13. PICK o \in Nat : o = 0
  OBVIOUS
<1>14. Part(text, o, o) = << >>
  BY PartEmpty
<1>15. Before(text, o, ctx, h, h)
  <2>1. NoOpens(text, 0, o)
    <3>1. \A p : p \notin 0 + 1 .. o - 1
      BY <1>13
    <3>2. QED
      BY <3>1 DEF NoOpens
  <2>2. Holds(text, o, o, ctx)
    <3>1. o \in 0 .. o
      BY <1>13
    <3>2. QED
      BY <1>9, <1>14, <3>1 DEF Holds
  <2>3. NotYet(text, o, ctx, h, h)
    BY <1>9, <1>12, <1>13, <1>14, SolidEmpty DEF NotYet
  <2>4. o \in 0 .. o
    BY <1>13
  <2>5. QED
    BY <1>13, <2>1, <2>2, <2>3, <2>4 DEF Before
<1>16. Shown(shown, "thinking") = h /\ Shown(shown, "text") = h
  BY <1>1, <1>11, ShownNothing
<1>17. QED
  BY <1>1, <1>13, <1>15, <1>16 DEF SplitAt, Staged

\* What a step that reads an event leaves as it is.
LEMMA AssistantSplit ==
    ASSUME StreamInv, TextInv, SplitInv, Assistant
    PROVE  SplitInv'
<1>1. Typed /\ Fit(client, ctx) /\ Still(ctx) /\ Lettered(ctx) /\ Said(shown) /\ ~ended
  BY DEF StreamInv, Underway, Assistant, Reading, TextInv
<1>2. text \in Seq(Letters) /\ Len(text) \in Nat /\ pos \in 0 .. Len(text)
  BY <1>1, TextLetters
<1>3. PICK n \in 1 .. (Len(text) - pos) :
         ctx' = Content(ctx, SubSeq(text, pos + 1, pos + n)) /\ pos' = pos + n
  BY DEF Assistant
<1>4. UNCHANGED <<thinking, searching, text, ended, toolEvents, shown>>
  BY DEF Assistant, upstream
<1>5. SUFFICES ASSUME thinking, toolEvents = 0
               PROVE  SplitAt(FALSE, text, pos', ctx', shown)
  <2>1. ended' = FALSE
    BY <1>1, <1>4 DEF Typed
  <2>2. SUFFICES ASSUME thinking', toolEvents' = 0
                 PROVE  SplitAt(ended', text', pos', ctx', shown')
    BY <1>4 DEF SplitInv
  <2>3. QED
    BY <1>4, <2>1, <2>2
<1>6. SplitAt(FALSE, text, pos, ctx, shown)
  BY <1>1, <1>5 DEF SplitInv, SplitAt
<1>7. PICK m \in Nat, k \in Nat : m = pos /\ k = pos + n /\ m <= k
  <2>1. pos \in Nat /\ pos + n \in Nat /\ pos <= pos + n
    BY <1>2
  <2>2. QED
    BY <2>1
<1>8. PICK z, c, h, g :
         z = text /\ c = ctx /\ h = Shown(shown, "thinking") /\ g = Shown(shown, "text")
  OBVIOUS
<1>9. /\ z = text /\ m = pos /\ k = pos + n /\ m <= k /\ c = ctx
      /\ h = Shown(shown, "thinking") /\ g = Shown(shown, "text")
  BY <1>7, <1>8
<1>10. SUFFICES ASSUME BareText(z, k)
               PROVE  Staged(z, k, Content(c, Part(z, m, k)), h, g)
  BY <1>3, <1>9 DEF SplitAt, Part
<1>11. BareText(z, m)
  BY <1>9, <1>10, BarePrefix
<1>12. Staged(z, m, c, h, g)
  BY <1>6, <1>9, <1>11 DEF SplitAt
<1>13. h \in Seq(Letters) /\ g \in Seq(Letters)
  BY <1>1, <1>9, ShownTypes
<1>14. PICK r : Fit(r, c) /\ Still(c) /\ Lettered(c)
  BY <1>1, <1>9
<1>15. QED
  BY <1>5, <1>9, <1>10, <1>12, <1>13, <1>14, ContentStage

LEMMA ToolSplit ==
    ASSUME StreamInv, SplitInv, Tool
    PROVE  SplitInv'
<1>1. UNCHANGED <<thinking, searching>> /\ toolEvents' # 0
  BY DEF Tool, upstream, StreamInv, Typed
<1>2. QED
  BY <1>1 DEF SplitInv

LEMMA LimitSplit ==
    ASSUME TextInv, SplitInv, Limit
    PROVE  SplitInv'
<1>1. PICK r, d : ctx' = d /\ d = [ctx EXCEPT !.reason = r]
  BY DEF Limit
<1>2. Lettered(ctx)
  BY DEF TextInv
<1>3. /\ d.out = ctx.out /\ d.buf = ctx.buf
      /\ d.inThinking = ctx.inThinking /\ d.extracted = ctx.extracted
  BY <1>1, <1>2 DEF Lettered, Fields
<1>4. PICK c, l : c = ctx /\ l = shown
  OBVIOUS
<1>5. SameSplit(c, d, Shown(l, "thinking"), Shown(l, "text"), Shown(l, "thinking"), Shown(l, "text"))
  BY <1>3, <1>4 DEF SameSplit, Heard
<1>6. UNCHANGED <<thinking, searching, text, pos, ended, toolEvents, shown>>
  BY DEF Limit, upstream
<1>7. SplitAt(ended, text, pos, c, l) => SplitAt(ended, text, pos, d, l)
  BY <1>5, SplitAlike
<1>8. QED
  BY <1>1, <1>4, <1>6, <1>7 DEF SplitInv

LEMMA EndSplit ==
    ASSUME StreamInv, TextInv, SplitInv, End
    PROVE  SplitInv'
<1>1. Typed /\ Fit(client, ctx) /\ Still(ctx) /\ Lettered(ctx) /\ Said(shown) /\ ~ended
  BY DEF StreamInv, Underway, End, Reading, TextInv
<1>2. ctx' = Final(ctx) /\ ended' = TRUE /\ UNCHANGED <<thinking, searching, text, pos, toolEvents, shown>>
  BY DEF End, upstream
<1>3. SUFFICES ASSUME thinking, toolEvents = 0
               PROVE  SplitAt(TRUE, text, pos, Final(ctx), shown)
  BY <1>2 DEF SplitInv
<1>4. SplitAt(FALSE, text, pos, ctx, shown)
  BY <1>1, <1>3 DEF SplitInv, SplitAt
<1>5. PICK z, m, c, h, g :
         /\ z = text /\ m = pos /\ c = ctx
         /\ h = Shown(shown, "thinking") /\ g = Shown(shown, "text")
  OBVIOUS
<1>6. SUFFICES ASSUME BareText(z, m), NEW w, w = Complete(Part(z, 0, m)), w.found
               PROVE  ToldAs(Final(c), w, h, g)
  BY <1>5 DEF SplitAt, Done
<1>7. Staged(z, m, c, h, g)
  BY <1>4, <1>5, <1>6 DEF SplitAt
<1>8. h \in Seq(Letters) /\ g \in Seq(Letters)
  BY <1>1, <1>5, ShownTypes
<1>9. PICK r : Fit(r, c) /\ Still(c) /\ Lettered(c)
  BY <1>1, <1>5
<1>10. QED
  BY <1>3, <1>6, <1>7, <1>8, <1>9, FinalStage

LEMMA SearchSplit ==
    ASSUME SplitInv, Search
    PROVE  SplitInv'
BY DEF SplitInv, Search, upstream

\* The head of the unsent events is sent: it is shown instead of told.
MovesOn(l, c, n, d) ==
    /\ d.out = Tail(c.out)
    /\ n = IF Head(c.out).ev = "delta" THEN l \o Chars(Head(c.out)) ELSE l

LEMMA SendHeard ==
    ASSUME NEW l, Said(l), NEW c, Lettered(c), c.out # << >>, NEW t,
           NEW n, NEW d, MovesOn(l, c, n, d)
    PROVE  Heard(Shown(n, t), d, t) = Heard(Shown(l, t), c, t)
<1>1. PICK e : /\ e = Head(c.out) /\ d.out = Tail(c.out)
               /\ n = IF e.ev = "delta" THEN l \o Chars(e) ELSE l
  BY DEF MovesOn
<1>2. PICK s \in Seq(Letters) : s = Shown(l, t)
  BY ShownTypes
<1>3. Texted(c.out)
  BY DEF Lettered
<1>4. PICK o, u : o = Tail(c.out) /\ u = Uttered(t, e)
  OBVIOUS
<1>5. Words(e) \in Seq(Letters) /\ Texted(o) /\ ToldOf(t, c.out) = u \o ToldOf(t, o)
  BY <1>1, <1>3, <1>4, ToldTail, ToldOfTail
<1>6. u \in Seq(Letters)
  BY <1>4, <1>5, UtteredTypes
<1>7. Shown(n, t) = s \o u
  <2>1. CASE e.ev = "delta"
    <3>1. e.text \in Seq(Letters)
      BY <1>5, <2>1 DEF Words
    <3>2. Shown(l \o Chars(e), t) = Shown(l, t) \o (IF e.type = t THEN e.text ELSE << >>)
      BY <3>1, ShowsMore
    <3>3. u = IF e.type = t THEN e.text ELSE << >>
      BY <1>4, <2>1 DEF Uttered
    <3>4. n = l \o Chars(e)
      BY <1>1, <2>1
    <3>5. QED
      BY <1>2, <3>2, <3>3, <3>4
  <2>2. CASE e.ev # "delta"
    <3>1. u = << >> /\ n = l
      BY <1>1, <1>4, <2>2 DEF Uttered
    <3>2. s \o << >> = s
      BY ConcatEmptySeq
    <3>3. QED
      BY <1>2, <3>1, <3>2
  <2>3. QED
    BY <2>1, <2>2
<1>8. PICK v \in Seq(Letters) : v = ToldOf(t, o)
  BY <1>5, ToldOfTypes
<1>9. Regrouped(s, u, v)
  BY <1>6, Regroup
<1>10. Heard(Shown(n, t), d, t) = Solid((s \o u) \o v)
  BY <1>1, <1>4, <1>7, <1>8 DEF Heard
<1>11. Heard(Shown(l, t), c, t) = Solid(s \o (u \o v))
  BY <1>2, <1>5, <1>8 DEF Heard
<1>12. QED
  BY <1>9, <1>10, <1>11 DEF Regrouped

LEMMA SendSplit ==
    ASSUME TextInv, SplitInv, Send
    PROVE  SplitInv'
<1>1. Lettered(ctx) /\ Said(shown) /\ ctx.out # << >>
  BY DEF TextInv, Send
<1>2. PICK c, l, e, d, n : /\ c = ctx /\ l = shown /\ e = Head(c.out)
                           /\ d = [c EXCEPT !.out = Tail(@)]
                           /\ n = IF e.ev = "delta" THEN l \o Chars(e) ELSE l
  OBVIOUS
<1>3. Lettered(c) /\ Said(l) /\ c.out # << >>
  BY <1>1, <1>2
<1>4. d.out = Tail(c.out) /\ d.buf = c.buf /\ d.inThinking = c.inThinking /\ d.extracted = c.extracted
  BY <1>2, <1>3 DEF Lettered, Fields
<1>5. \A t : Heard(Shown(n, t), d, t) = Heard(Shown(l, t), c, t)
  <2>1. SUFFICES ASSUME NEW t
                 PROVE  Heard(Shown(n, t), d, t) = Heard(Shown(l, t), c, t)
    OBVIOUS
  <2>2. MovesOn(l, c, n, d)
    BY <1>2, <1>4 DEF MovesOn
  <2>3. QED
    BY <1>3, <2>2, SendHeard
<1>6. SameSplit(c, d, Shown(l, "thinking"), Shown(l, "text"), Shown(n, "thinking"), Shown(n, "text"))
  BY <1>4, <1>5 DEF SameSplit
<1>7. ctx' = d /\ shown' = n /\ UNCHANGED <<thinking, searching, ended, toolEvents, text, pos>>
  BY <1>2 DEF Send, upstream
<1>8. SplitAt(ended, text, pos, c, l) => SplitAt(ended, text, pos, d, n)
  BY <1>6, SplitAlike
<1>9. QED
  BY <1>2, <1>7, <1>8 DEF SplitInv

LEMMA NextSplit ==
    ASSUME StreamInv, TextInv, SplitInv, [Next]_vars
    PROVE  SplitInv'
<1>1. CASE Assistant
  BY <1>1, AssistantSplit
<1>2. CASE Tool
  BY <1>2, ToolSplit
<1>3. CASE Limit
  BY <1>3, LimitSplit
<1>4. CASE End
  BY <1>4, EndSplit
<1>5. CASE Search
  BY <1>5, SearchSplit
<1>6. CASE Send
  BY <1>6, SendSplit
<1>7. CASE Stay \/ UNCHANGED vars
  BY <1>7 DEF Stay, vars, upstream, SplitInv
<1>8. QED
  BY <1>1, <1>2, <1>3, <1>4, <1>5, <1>6, <1>7 DEF Next

LEMMA InvHidesSplits ==
    ASSUME StreamInv, TextInv, SplitInv
    PROVE  SplitInvisible
<1>1. PICK w : w = Complete(Arrived)
  OBVIOUS
<1>2. SUFFICES ASSUME Over, thinking, toolEvents = 0, w.found, Bare(Arrived)
               PROVE  Solid(Of("thinking")) = Solid(w.thinking) /\ Solid(Of("text")) = Solid(w.text)
  BY <1>1 DEF SplitInvisible
<1>3. Arrived = Part(text, 0, pos)
  BY DEF Arrived, Take, Part
<1>4. BareText(text, pos)
  <2>1. text \in Seq(Letters) /\ Len(text) \in Nat /\ pos \in 0 .. Len(text)
    BY TextLetters DEF StreamInv
  <2>2. pos \in Nat /\ pos <= Len(text)
    BY <2>1
  <2>3. QED
    BY <1>2, <1>3, <2>1, <2>2 DEF BareText
<1>5. PICK h \in Seq(Letters), g \in Seq(Letters) : h = Of("thinking") /\ g = Of("text")
  <2>1. Said(shown)
    BY DEF TextInv
  <2>2. QED
    BY <2>1, ShownTypes, OfIs
<1>6. ToldAs(ctx, w, h, g)
  <2>1. h = Shown(shown, "thinking") /\ g = Shown(shown, "text")
    BY <1>5, OfIs
  <2>2. SplitAt(ended, text, pos, ctx, shown) /\ ended
    BY <1>2 DEF SplitInv, Over
  <2>3. Done(text, pos, ctx, h, g)
    BY <1>4, <2>1, <2>2 DEF SplitAt
  <2>4. QED
    BY <1>1, <1>2, <1>3, <2>3 DEF Done
<1>7. \A t : ToldOf(t, ctx.out) = << >>
  BY <1>2, ToldOfNothing DEF Over
<1>8. h \o << >> = h /\ g \o << >> = g
  BY ConcatEmptySeq
<1>9. QED
  BY <1>5, <1>6, <1>7, <1>8 DEF ToldAs, Heard

\* StreamContext: wherever a text is cut into chunks, and whichever of its events are
\* held back, the stream takes the same thinking out of it as the function that sees
\* the whole of it, up to white space.
THEOREM SplitsUnseen == Spec => []SplitInvisible
<1>1. Init => TextInv /\ SplitInv
  BY InitSays, InitSplit
<1>2. StreamInv /\ TextInv /\ SplitInv /\ [Next]_vars => TextInv' /\ SplitInv'
  BY NextSays, NextSplit
<1>3. StreamInv /\ TextInv /\ SplitInv => SplitInvisible
  BY InvHidesSplits
<1>4. QED
  BY <1>1, <1>2, <1>3, Inductive, PTL DEF Spec
=============================================================================
