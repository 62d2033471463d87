------------------------ MODULE RequestRecordsProofs ------------------------
(* Theorems about RequestRecords: hits are earned, what the client is told and  *)
(* what is logged agree, and acknowledged records stay in the log.              *)
EXTENDS RequestRecords, SequenceTheorems, FiniteSetTheorems, Induction, TLAPS

-----------------------------------------------------------------------------
(* The sum of a sequence.                                                     *)

LEMMA TotalNat ==
    ASSUME NEW N \in Nat, NEW q \in [1 .. N -> Nat], Len(q) = N
    PROVE  Total(q) \in Nat
<1> DEFINE step == [p \in Nat \X Nat |-> IF p[1] + 1 \in 1 .. N THEN p[2] + q[p[1] + 1] ELSE p[2]]
           Turns(g) == g = [i \in 0 .. N |-> IF i = 0 THEN 0 ELSE g[i - 1] + q[i]]
           total == CHOOSE g : Turns(g)
<1>1. step \in [Nat \X Nat -> Nat]
  OBVIOUS
<1>2. PICK g \in [0 .. N -> Nat] : g[0] = 0 /\ \A k \in 0 .. N - 1 : g[k + 1] = step[<<k, g[k]>>]
  <2> HIDE DEF step
  <2>1. Solvable(N, Nat, 0, step)
    BY <1>1, RecursionUpTo
  <2>2. QED
    BY <2>1 DEF Solvable
<1>3. ASSUME NEW i \in 0 .. N, i # 0
      PROVE  g[i] = g[i - 1] + q[i]
  <2>1. i - 1 \in 0 .. N - 1 /\ i - 1 \in 0 .. N /\ (i - 1) + 1 = i /\ i - 1 \in Nat /\ i \in 1 .. N
    BY <1>3
  <2>2. g[i] = step[<<i - 1, g[i - 1]>>] /\ g[i - 1] \in Nat
    BY <1>2, <2>1, ZenonT(30)
  <2>3. QED
    BY <2>1, <2>2
<1>4. Turns(g)
  BY <1>2, <1>3
<1>5. Turns(total)
  <2> HIDE DEF Turns
  <2>1. QED
    BY <1>4
<1>6. Total(q) = total[N]
  BY DEF Total
<1> HIDE DEF total
<1> DEFINE U == {i \in 0 .. N : total[i] \in Nat}
<1>7. 0 \in U
  BY <1>5
<1>8. ASSUME NEW i \in 0 .. N - 1, i \in U
      PROVE  i + 1 \in U
  <2>1. i + 1 \in 0 .. N /\ i + 1 # 0 /\ (i + 1) - 1 = i /\ i + 1 \in 1 .. N
    OBVIOUS
  <2>2. total[i + 1] = total[i] + q[i + 1]
    BY <1>5, <2>1
  <2>3. QED
    BY <1>8, <2>1, <2>2
<1>9. \A i \in 0 .. N : i \in U
  <2> HIDE DEF U
  <2>1. QED
    BY <1>7, <1>8, InductionUpTo
<1>10. N \in 0 .. N
  OBVIOUS
<1>11. QED
  BY <1>6, <1>9, <1>10

-----------------------------------------------------------------------------
(* The lines of the log.                                                      *)

Piece == [n : Nat, state : {"half", "whole", "cut"}]
Line  == [pieces : Seq(Piece), ended : BOOLEAN]
Records == {line \in Line : IsRecord(line)}

LEMMA LeastIs ==
    ASSUME NEW T, T \subseteq Nat, T # {}
    PROVE  Min(T) \in T /\ \A x \in T : Min(T) <= x
<1>1. \E x \in T : \A y \in T : x <= y
  BY LeastOf
<1>2. QED
  BY <1>1 DEF Min

\* Everything before the first line that is cut.
FirstCut(lines, m) == m \in 1 .. Len(lines) /\ IsCut(lines[m]) /\ \A j \in 1 .. m - 1 : ~IsCut(lines[j])

LEMMA LegibleIs ==
    ASSUME NEW lines \in Seq(Line)
    PROVE  /\ ~HasCut(lines) => Legible(lines) = lines
           /\ HasCut(lines) => \E m : FirstCut(lines, m)
           /\ \A m : FirstCut(lines, m) => HasCut(lines) /\ Legible(lines) = SubSeq(lines, 1, m - 1)
<1> DEFINE cut == {i \in DOMAIN lines : IsCut(lines[i])}
<1>1. Len(lines) \in Nat /\ DOMAIN lines = 1 .. Len(lines)
  BY LenProperties
<1>2. Legible(lines) = IF cut = {} THEN lines ELSE SubSeq(lines, 1, Min(cut) - 1)
  BY DEF Legible
<1>3. HasCut(lines) <=> cut # {}
  BY DEF HasCut
<1>4. cut \subseteq Nat /\ \A i \in 1 .. Len(lines) : i \in cut <=> IsCut(lines[i])
  BY <1>1
<1>5. cut \subseteq 1 .. Len(lines)
  BY <1>1
<1> HIDE DEF cut
<1>6. ASSUME cut # {}
      PROVE  FirstCut(lines, Min(cut))
  <2>1. Min(cut) \in cut /\ \A x \in cut : Min(cut) <= x
    BY <1>4, <1>6, LeastIs
  <2>2. Min(cut) \in 1 .. Len(lines) /\ IsCut(lines[Min(cut)])
    BY <1>4, <1>5, <2>1
  <2>3. ASSUME NEW j \in 1 .. Min(cut) - 1
        PROVE  ~IsCut(lines[j])
    <3>1. j \in 1 .. Len(lines) /\ ~(Min(cut) <= j)
      BY <1>1, <2>2
    <3>2. QED
      BY <1>4, <2>1, <3>1
  <2>4. QED
    BY <2>2, <2>3 DEF FirstCut
<1>7. ASSUME NEW m, FirstCut(lines, m)
      PROVE  cut # {} /\ m = Min(cut)
  <2>1. m \in 1 .. Len(lines) /\ IsCut(lines[m]) /\ \A j \in 1 .. m - 1 : ~IsCut(lines[j])
    BY <1>7 DEF FirstCut
  <2>2. m \in cut
    BY <1>4, <2>1
  <2>3. PICK k : k = Min(cut)
    OBVIOUS
  <2>4. k \in cut /\ k <= m
    BY <1>4, <2>2, <2>3, LeastIs
  <2>5. k \in 1 .. Len(lines) /\ IsCut(lines[k])
    BY <1>4, <1>5, <2>4
  <2>6. ~(k \in 1 .. m - 1)
    BY <2>1, <2>5
  <2>7. k = m
    BY <1>1, <2>1, <2>4, <2>5, <2>6
  <2>8. QED
    BY <2>2, <2>3, <2>7
<1>8. QED
  BY <1>2, <1>3, <1>6, <1>7

LEMMA LegibleTypes ==
    ASSUME NEW lines \in Seq(Line)
    PROVE  /\ Legible(lines) \in Seq(Line) /\ Len(Legible(lines)) <= Len(lines)
           /\ \A i \in 1 .. Len(Legible(lines)) : Legible(lines)[i] = lines[i]
<1>1. Len(lines) \in Nat /\ \A i \in 1 .. Len(lines) : lines[i] \in Line
  BY LenProperties, ElementOfSeq
<1>2. CASE ~HasCut(lines)
  BY <1>1, <1>2, LegibleIs
<1>3. CASE HasCut(lines)
  <2>1. PICK m : FirstCut(lines, m)
    BY <1>3, LegibleIs
  <2>2. Legible(lines) = SubSeq(lines, 1, m - 1)
    BY <2>1, LegibleIs
  <2>3. m \in 1 .. Len(lines)
    BY <2>1 DEF FirstCut
  <2>4. m - 1 \in Int /\ 1 \in Int /\ \A i \in 1 .. m - 1 : lines[i] \in Line
    BY <1>1, <2>3
  <2>5. /\ SubSeq(lines, 1, m - 1) \in Seq(Line)
        /\ Len(SubSeq(lines, 1, m - 1)) = IF 1 <= m - 1 THEN m - 1 - 1 + 1 ELSE 0
        /\ \A i \in 1 .. m - 1 - 1 + 1 : SubSeq(lines, 1, m - 1)[i] = lines[1 + i - 1]
    BY <2>4, SubSeqProperties
  <2>6. Len(SubSeq(lines, 1, m - 1)) = m - 1
    BY <2>3, <2>5
  <2>7. \A i \in 1 .. m - 1 : SubSeq(lines, 1, m - 1)[i] = lines[i]
    <3> TAKE i \in 1 .. m - 1
    <3>1. i \in 1 .. m - 1 - 1 + 1 /\ 1 + i - 1 = i
      BY <2>3
    <3>2. QED
      BY <2>5, <3>1
  <2>8. m - 1 <= Len(lines)
    BY <1>1, <2>3
  <2>9. QED
    BY <2>2, <2>5, <2>6, <2>7, <2>8
<1>4. QED
  BY <1>2, <1>3

LEMMA ReadIs ==
    ASSUME NEW lines \in Seq(Line)
    PROVE  read_records(lines) = Only(Legible(lines), Records)
<1>1. /\ Legible(lines) \in Seq(Line) /\ Len(Legible(lines)) <= Len(lines) /\ Len(lines) \in Nat
      /\ DOMAIN lines = 1 .. Len(lines) /\ Len(Legible(lines)) \in Nat
      /\ \A i \in 1 .. Len(Legible(lines)) : Legible(lines)[i] = lines[i]
      /\ \A i \in 1 .. Len(lines) : lines[i] \in Line
  BY LegibleTypes, LenProperties, ElementOfSeq
<1>2. PICK R : R = {line \in Range(lines) : IsRecord(line)}
  OBVIOUS
<1>3. PICK s : s = Legible(lines)
  OBVIOUS
<1>4. ASSUME NEW i \in 1 .. Len(s)
      PROVE  s[i] \in R <=> s[i] \in Records
  <2>1. i \in DOMAIN lines /\ s[i] = lines[i] /\ lines[i] \in Line
    BY <1>1, <1>3
  <2>2. lines[i] \in Range(lines)
    BY <2>1 DEF Range
  <2>3. QED
    BY <1>2, <2>1, <2>2 DEF Records
<1>5. s \in Seq(Line)
  BY <1>1, <1>3
<1>6. Only(s, R) = Only(s, Records)
  BY <1>4, <1>5, OnlySame
<1>7. QED
  BY <1>2, <1>3, <1>6 DEF read_records

LEMMA ReadTypes ==
    ASSUME NEW lines \in Seq(Line)
    PROVE  read_records(lines) \in Seq(Records) /\ read_records(lines) \in Seq(Line)
<1>1. PICK s : s = Legible(lines)
  OBVIOUS
<1>2. s \in Seq(Line)
  BY <1>1, LegibleTypes
<1>3. Only(s, Records) \in Seq(Line \cap Records)
  BY <1>2, OnlyTypes
<1>4. Line \cap Records = Records /\ Records \subseteq Line
  BY DEF Records
<1>5. Only(s, Records) \in Seq(Line)
  BY <1>3, <1>4, SeqMonotonic
<1>6. QED
  BY <1>1, <1>3, <1>4, <1>5, ReadIs

LEMMA RecordNotCut ==
    ASSUME NEW line \in Line
    PROVE  ~(IsRecord(line) /\ IsCut(line))
<1>1. line.pieces \in Seq(Piece)
  BY DEF Line
<1>2. Len(line.pieces) = 1 => DOMAIN line.pieces = 1 .. 1
  BY <1>1, LenProperties
<1>3. \A i \in 1 .. 1 : i = 1
  OBVIOUS
<1>4. QED
  BY <1>2, <1>3 DEF IsRecord, IsCut

\* A line more: its record is read unless a line before it is cut.
LEMMA ReadAppend ==
    ASSUME NEW lines \in Seq(Line), NEW l \in Line
    PROVE  read_records(Append(lines, l)) =
               IF ~HasCut(lines) /\ IsRecord(l) THEN Append(read_records(lines), l)
                                                ELSE read_records(lines)
<1>1. PICK t : t = Append(lines, l)
  OBVIOUS
<1>2. /\ t \in Seq(Line) /\ Len(t) = Len(lines) + 1 /\ Len(lines) \in Nat
      /\ \A i \in 1 .. Len(lines) : t[i] = lines[i] /\ lines[i] \in Line
      /\ t[Len(lines) + 1] = l
  BY <1>1, AppendProperties, LenProperties, ElementOfSeq
<1>3. DOMAIN t = 1 .. Len(lines) + 1 /\ DOMAIN lines = 1 .. Len(lines)
  BY <1>2, LenProperties
<1>4. CASE HasCut(lines)
  <2>1. PICK m : FirstCut(lines, m)
    BY <1>4, LegibleIs
  <2>2. m \in 1 .. Len(lines)
    BY <2>1 DEF FirstCut
  <2>3. FirstCut(t, m)
    <3>1. m \in 1 .. Len(t) /\ \A j \in 1 .. m : j \in 1 .. Len(lines)
      BY <1>2, <2>2
    <3>2. \A j \in 1 .. m : t[j] = lines[j]
      BY <1>2, <3>1
    <3>3. m \in 1 .. m /\ \A j \in 1 .. m - 1 : j \in 1 .. m
      BY <2>2
    <3>4. QED
      BY <2>1, <3>1, <3>2, <3>3 DEF FirstCut
  <2>4. Legible(lines) = SubSeq(lines, 1, m - 1) /\ Legible(t) = SubSeq(t, 1, m - 1)
    BY <1>2, <2>1, <2>3, LegibleIs
  <2>5. Legible(t) = Legible(lines)
    <3>1. PICK a, b : a = Legible(t) /\ b = Legible(lines)
      OBVIOUS
    <3>2. a \in Seq(Line) /\ b \in Seq(Line) /\ Len(a) \in Nat /\ Len(b) \in Nat
      BY <1>2, <3>1, LegibleTypes, LenProperties
    <3>3. /\ m - 1 \in Int /\ 1 \in Int
          /\ \A i \in 1 .. m - 1 : lines[i] \in Line /\ t[i] \in Line
      <4>1. \A i \in 1 .. m - 1 : i \in 1 .. Len(lines)
        BY <1>2, <2>2
      <4>2. QED
        BY <1>2, <2>2, <4>1
    <3>4. Len(a) = Len(b)
      BY <2>4, <3>1, <3>3, SubSeqProperties
    <3>5. \A i \in 1 .. Len(a) : a[i] = t[i] /\ b[i] = lines[i] /\ i \in 1 .. Len(lines)
      <4>1. Len(b) <= Len(lines)
        BY <3>1, LegibleTypes
      <4>2. \A i \in 1 .. Len(a) : i \in 1 .. Len(lines)
        BY <1>2, <3>2, <3>4, <4>1
      <4>3. \A i \in 1 .. Len(a) : a[i] = t[i]
        BY <1>2, <3>1, LegibleTypes
      <4>4. \A i \in 1 .. Len(a) : b[i] = lines[i]
        BY <3>1, <3>4, LegibleTypes
      <4>5. QED
        BY <4>2, <4>3, <4>4
    <3>6. \A i \in 1 .. Len(a) : a[i] = b[i]
      BY <1>2, <3>5
    <3>7. a = b
      BY <3>2, <3>4, <3>6, SeqEqual
    <3>8. QED
      BY <3>1, <3>7
  <2>6. QED
    BY <1>1, <1>2, <1>4, <2>5, ReadIs
<1>5. CASE ~HasCut(lines)
  <2>1. Legible(lines) = lines
    BY <1>5, LegibleIs
  <2>2. CASE IsCut(l)
    <3>1. FirstCut(t, Len(t))
      <4>1. Len(t) \in 1 .. Len(t) /\ t[Len(t)] = l /\ Len(t) - 1 = Len(lines)
        BY <1>2
      <4>2. \A j \in 1 .. Len(t) - 1 : ~IsCut(t[j])
        BY <1>2, <1>3, <1>5, <4>1 DEF HasCut
      <4>3. QED
        BY <2>2, <4>1, <4>2 DEF FirstCut
    <3>2. Legible(t) = SubSeq(t, 1, Len(t) - 1) /\ Len(t) - 1 = Len(lines)
      BY <1>2, <3>1, LegibleIs
    <3>3. Legible(t) = lines
      <4>1. PICK a : a = Legible(t)
        OBVIOUS
      <4>2. a \in Seq(Line)
        BY <1>2, <4>1, LegibleTypes
      <4>3. Len(lines) \in Int /\ 1 \in Int /\ \A i \in 1 .. Len(lines) : t[i] \in Line
        BY <1>2
      <4>4. Len(a) = IF 1 <= Len(lines) THEN Len(lines) - 1 + 1 ELSE 0
        BY <3>2, <4>1, <4>3, SubSeqProperties
      <4>5. Len(a) = Len(lines)
        BY <1>2, <4>4
      <4>6. \A i \in 1 .. Len(a) : a[i] = t[i]
        BY <1>2, <4>1, LegibleTypes
      <4>7. \A i \in 1 .. Len(a) : a[i] = lines[i]
        BY <1>2, <4>5, <4>6
      <4>8. a = lines
        BY <4>2, <4>5, <4>7, SeqEqual
      <4>9. QED
        BY <4>1, <4>8
    <3>4. ~IsRecord(l)
      BY <2>2, RecordNotCut
    <3>5. QED
      BY <1>1, <1>2, <2>1, <3>3, <3>4, ReadIs
  <2>3. CASE ~IsCut(l)
    <3>1. ~HasCut(t)
      <4>1. \A i \in 1 .. Len(lines) + 1 : i \in 1 .. Len(lines) \/ i = Len(lines) + 1
        BY <1>2
      <4>2. QED
        BY <1>2, <1>3, <1>5, <2>3, <4>1 DEF HasCut
    <3>2. Legible(t) = t
      BY <1>2, <3>1, LegibleIs
    <3>3. Only(t, Records) = IF l \in Records THEN Append(Only(lines, Records), l) ELSE Only(lines, Records)
      BY <1>1, OnlyAppend
    <3>4. l \in Records <=> IsRecord(l)
      BY DEF Records
    <3>5. read_records(t) = Only(t, Records) /\ read_records(lines) = Only(lines, Records)
      BY <1>2, <2>1, <3>2, ReadIs
    <3>6. QED
      BY <1>1, <1>5, <3>3, <3>4, <3>5
  <2>4. QED
    BY <2>2, <2>3
<1>6. QED
  BY <1>4, <1>5

LEMMA ReadAll ==
    ASSUME NEW lines \in Seq(Line), \A i \in 1 .. Len(lines) : IsRecord(lines[i])
    PROVE  read_records(lines) = lines /\ ~HasCut(lines)
<1>1. /\ DOMAIN lines = 1 .. Len(lines)
      /\ \A i \in 1 .. Len(lines) : lines[i] \in Line
  BY LenProperties, ElementOfSeq
<1>2. ~HasCut(lines)
  BY <1>1, RecordNotCut DEF HasCut
<1>3. \A i \in 1 .. Len(lines) : lines[i] \in Records
  BY <1>1 DEF Records
<1>4. Only(lines, Records) = lines
  BY <1>3, OnlyAll
<1>5. QED
  BY <1>2, <1>4, LegibleIs, ReadIs

-----------------------------------------------------------------------------
(* The segments of a request, and its tokens.                                 *)

\* (That a literal is a string is none of the provers' facts.)
Key == (STRING \cup {"messages", "result"}) \X Nat
Seg == [kind : {"message", "prefix", "result"}, key : Key, ttl : Nat, bytes : Nat, store : BOOLEAN]
IsRequest(r) == r.upto \in DOMAIN Script /\ (r.parts = << >> \/ r.parts = Parts)

LEMMA ScriptIs ==
    /\ Len(Script) \in Nat /\ DOMAIN Script = 1 .. Len(Script)
    /\ \A i \in 1 .. Len(Script) :
          Script[i].bytes \in Nat /\ Script[i].tokens \in Nat /\ Script[i].result \in Nat
<1>1. Script \in Seq([bytes : Nat, tokens : Nat, result : Nat])
  BY RecordsAssumption
<1>2. \A i \in 1 .. Len(Script) : Script[i] \in [bytes : Nat, tokens : Nat, result : Nat]
  BY <1>1, ElementOfSeq
<1>3. QED
  BY <1>1, <1>2, LenProperties

LEMMA PartsAre ==
    ASSUME NEW p, p = << >> \/ p = Parts
    PROVE  /\ Len(p) \in Nat /\ DOMAIN p = 1 .. Len(p)
           /\ \A i \in 1 .. Len(p) :
                 p[i].name \in STRING /\ p[i].bytes \in Nat /\ p[i].tokens \in Nat
<1> DEFINE P == [name : STRING, bytes : Nat, tokens : Nat]
<1>1. p \in Seq(P)
  BY RecordsAssumption, EmptySeq
<1>2. \A i \in 1 .. Len(p) : p[i] \in P
  <2> HIDE DEF P
  <2>1. QED
    BY <1>1, ElementOfSeq
<1>3. Len(p) \in Nat /\ DOMAIN p = 1 .. Len(p)
  <2> HIDE DEF P
  <2>1. QED
    BY <1>1, LenProperties
<1>4. QED
  BY <1>2, <1>3

LEMMA MaxOfTwo ==
    ASSUME NEW a \in Int, NEW b \in Int
    PROVE  /\ AtLeast(a, b) \in Int /\ AtLeast(a, b) >= a /\ AtLeast(a, b) >= b
           /\ AtLeast(a, b) = a \/ AtLeast(a, b) = b
           /\ AtMost(a, b) \in Int /\ AtMost(a, b) <= a /\ AtMost(a, b) <= b
           /\ AtMost(a, b) = a \/ AtMost(a, b) = b
BY DEF AtLeast, AtMost

\* A function on 1..n as a sequence.
LEMMA ListOf ==
    ASSUME NEW n \in Nat, NEW S, NEW f \in [1 .. n -> S]
    PROVE  f \in Seq(S) /\ Len(f) = n
<1>1. f \in Seq(S)
  BY SeqDef
<1>2. QED
  BY <1>1, LenProperties

LEMMA TotalOf ==
    ASSUME NEW n \in Nat, NEW f \in [1 .. n -> Nat]
    PROVE  Total(f) \in Nat
<1>1. Len(f) = n
  BY ListOf
<1>2. QED
  BY <1>1, TotalNat

LEMMA RawCountsAre ==
    ASSUME NEW r, IsRequest(r)
    PROVE  RawCounts(r) \subseteq Nat
<1>1. Total([i \in 1 .. r.upto |-> Script[i].tokens]) \in Nat
  <2>1. r.upto \in Nat /\ r.upto \in 1 .. Len(Script)
    BY ScriptIs DEF IsRequest
  <2>2. [i \in 1 .. r.upto |-> Script[i].tokens] \in [1 .. r.upto -> Nat]
    BY <2>1, ScriptIs
  <2>3. QED
    BY <2>1, <2>2, TotalOf
<1>2. Total([i \in DOMAIN r.parts |-> r.parts[i].tokens]) \in Nat
  <2>1. PICK p : p = r.parts
    OBVIOUS
  <2>2. /\ Len(p) \in Nat /\ DOMAIN p = 1 .. Len(p)
        /\ \A i \in 1 .. Len(p) : p[i].tokens \in Nat
    BY <2>1, PartsAre DEF IsRequest
  <2>3. [i \in DOMAIN p |-> p[i].tokens] \in [1 .. Len(p) -> Nat]
    BY <2>2
  <2>4. Total([i \in DOMAIN p |-> p[i].tokens]) \in Nat
    BY <2>2, <2>3, TotalOf
  <2>5. QED
    BY <2>1, <2>4
<1>3. PICK a, b : /\ a = Total([i \in 1 .. r.upto |-> Script[i].tokens])
                  /\ b = Total([i \in DOMAIN r.parts |-> r.parts[i].tokens])
  OBVIOUS
<1>4. AtLeast(1, a + b) \in Nat
  BY <1>1, <1>2, <1>3 DEF AtLeast
<1>5. RawCounts(r) = Counts \cup {AtLeast(1, a + b)}
  BY <1>3 DEF RawCounts
<1>6. Counts \subseteq Nat
  BY RecordsAssumption
<1>7. QED
  BY <1>4, <1>5, <1>6

LEMMA ConcatTypes ==
    ASSUME NEW S, NEW a \in Seq(S), NEW b \in Seq(S)
    PROVE  a \o b \in Seq(S)
BY ConcatProperties

LEMMA SegmentsAre ==
    ASSUME NEW r, IsRequest(r)
    PROVE  extract_segments(r) \in Seq(Seg)
<1> DEFINE messages == SubSeq(Script, 1, r.upto)
           beginning(i) == Segment("message", <<"messages", i>>, ShortTTL,
                                   BytesOf(SubSeq(Script, 1, i)), i = r.upto)
           parts   == [i \in DOMAIN r.parts |->
                          Segment("prefix", <<r.parts[i].name, 0>>, LongTTL, r.parts[i].bytes, TRUE)]
           results == [i \in DOMAIN messages |->
                          Segment("result", <<"result", i>>, ShortTTL, messages[i].result, TRUE)]
           begins  == [i \in 1 .. (r.upto - 1) |-> beginning(i)]
           all == parts \o << beginning(r.upto) >> \o begins \o results
<1>1. /\ r.upto \in 1 .. Len(Script) /\ r.upto \in Nat /\ Len(Script) \in Nat
      /\ ShortTTL \in Nat /\ LongTTL \in Nat
  BY ScriptIs, RecordsAssumption DEF IsRequest
<1>2. ASSUME NEW i \in 1 .. Len(Script)
      PROVE  /\ DOMAIN SubSeq(Script, 1, i) = 1 .. i
             /\ \A j \in 1 .. i : SubSeq(Script, 1, i)[j] = Script[j]
  <2> DEFINE M == [bytes : Nat, tokens : Nat, result : Nat]
  <2>1. Script \in Seq(M) /\ Len(Script) \in Nat
    BY RecordsAssumption, ScriptIs
  <2> HIDE DEF M
  <2>2. i \in Int /\ 1 \in Int /\ 1 <= i /\ \A j \in 1 .. i : Script[j] \in M
    BY <2>1, ElementOfSeq
  <2>3. PICK b : b = SubSeq(Script, 1, i)
    OBVIOUS
  <2>4. b \in Seq(M) /\ Len(b) = i - 1 + 1 /\ \A j \in 1 .. i - 1 + 1 : b[j] = Script[1 + j - 1]
    BY <2>2, <2>3, SubSeqProperties
  <2>5. DOMAIN b = 1 .. i
    BY <2>2, <2>4, LenProperties
  <2>6. \A j \in 1 .. i : b[j] = Script[j]
    <3> TAKE j \in 1 .. i
    <3>1. j \in 1 .. i - 1 + 1 /\ 1 + j - 1 = j
      BY <2>2
    <3>2. QED
      BY <2>4, <3>1
  <2>7. QED
    BY <2>3, <2>5, <2>6
<1>3. ASSUME NEW i \in 1 .. Len(Script)
      PROVE  BytesOf(SubSeq(Script, 1, i)) \in Nat
  <2>1. PICK b : b = SubSeq(Script, 1, i)
    OBVIOUS
  <2>2. DOMAIN b = 1 .. i /\ i \in Nat /\ \A j \in 1 .. i : b[j] = Script[j] /\ j \in 1 .. Len(Script)
    BY <1>1, <1>2, <2>1
  <2>3. [j \in DOMAIN b |-> b[j].bytes] \in [1 .. i -> Nat]
    BY <2>2, ScriptIs
  <2>4. Total([j \in DOMAIN b |-> b[j].bytes]) \in Nat
    BY <2>2, <2>3, TotalOf
  <2>5. QED
    BY <2>1, <2>4 DEF BytesOf
<1>4. ASSUME NEW i \in 1 .. Len(Script)
      PROVE  beginning(i) \in Seg
  <2>1. PICK n : n = BytesOf(SubSeq(Script, 1, i))
    OBVIOUS
  <2>2. n \in Nat
    BY <1>3, <2>1
  <2>3. <<"messages", i>> \in Key
    <3>1. i \in Nat
      BY <1>1
    <3>2. QED
      BY <3>1 DEF Key
  <2>4. (i = r.upto) \in BOOLEAN
    OBVIOUS
  <2>5. QED
    BY <1>1, <2>1, <2>2, <2>3, <2>4 DEF Segment, Seg
<1>5. << beginning(r.upto) >> \in Seq(Seg)
  <2>1. beginning(r.upto) \in Seg
    BY <1>1, <1>4
  <2> HIDE DEF beginning
  <2>2. QED
    BY <2>1
<1>6. begins \in Seq(Seg)
  <2>1. \A i \in 1 .. r.upto - 1 : i \in 1 .. Len(Script)
    BY <1>1
  <2>2. \A i \in 1 .. r.upto - 1 : beginning(i) \in Seg
    BY <1>4, <2>1
  <2>3. r.upto - 1 \in Nat
    BY <1>1
  <2> HIDE DEF beginning
  <2>4. begins \in [1 .. r.upto - 1 -> Seg]
    BY <2>2
  <2> HIDE DEF begins
  <2>5. QED
    BY <2>3, <2>4, ListOf
<1>7. parts \in Seq(Seg)
  <2>1. PICK p : p = r.parts
    OBVIOUS
  <2>2. /\ Len(p) \in Nat /\ DOMAIN p = 1 .. Len(p)
        /\ \A i \in 1 .. Len(p) : p[i].name \in STRING /\ p[i].bytes \in Nat
    BY <2>1, PartsAre DEF IsRequest
  <2>3. ASSUME NEW i \in 1 .. Len(p)
        PROVE  Segment("prefix", <<p[i].name, 0>>, LongTTL, p[i].bytes, TRUE) \in Seg
    BY <1>1, <2>2 DEF Segment, Seg, Key
  <2>4. parts = [i \in 1 .. Len(p) |-> Segment("prefix", <<p[i].name, 0>>, LongTTL, p[i].bytes, TRUE)]
    BY <2>1, <2>2
  <2>5. parts \in [1 .. Len(p) -> Seg]
    BY <2>3, <2>4
  <2> HIDE DEF parts
  <2>6. QED
    BY <2>2, <2>5, ListOf
<1>8. results \in Seq(Seg)
  <2>1. DOMAIN messages = 1 .. r.upto /\ \A j \in 1 .. r.upto : messages[j] = Script[j]
    BY <1>1, <1>2
  <2> HIDE DEF messages
  <2>2. ASSUME NEW i \in 1 .. r.upto
        PROVE  Segment("result", <<"result", i>>, ShortTTL, messages[i].result, TRUE) \in Seg
    <3>1. i \in 1 .. Len(Script) /\ messages[i] = Script[i]
      BY <1>1, <2>1
    <3>2. messages[i].result \in Nat
      BY <3>1, ScriptIs
    <3>3. <<"result", i>> \in Key
      <4>1. i \in Nat
        BY <1>1
      <4>2. QED
        BY <4>1 DEF Key
    <3>4. QED
      BY <1>1, <3>2, <3>3 DEF Segment, Seg
  <2>3. results \in [1 .. r.upto -> Seg]
    BY <2>1, <2>2
  <2> HIDE DEF results
  <2>4. QED
    BY <1>1, <2>3, ListOf
<1>9. all \in Seq(Seg)
  <2> HIDE DEF parts, begins, results, beginning
  <2>1. parts \o << beginning(r.upto) >> \in Seq(Seg)
    BY <1>5, <1>7, ConcatTypes
  <2>2. parts \o << beginning(r.upto) >> \o begins \in Seq(Seg)
    BY <1>6, <2>1, ConcatTypes
  <2>3. QED
    BY <1>8, <2>2, ConcatTypes
<1>10. PICK R : R = {s \in Range(all) : s.bytes >= MIN_SEGMENT_CHARS}
  OBVIOUS
<1>11. extract_segments(r) = Only(all, R)
  BY <1>10 DEF extract_segments
<1> HIDE DEF all
<1>12. Only(all, R) \in Seq(Seg \cap R)
  BY <1>9, OnlyTypes
<1>13. Seg \cap R \subseteq Seg
  OBVIOUS
<1>14. QED
  BY <1>11, <1>12, <1>13, SeqMonotonic

LEMMA StoringTypes ==
    ASSUME NEW ss \in Seq(Seg)
    PROVE  Storing(ss) \in Seq(Seg)
<1>1. PICK R : R = {s \in Range(ss) : s.store}
  OBVIOUS
<1>2. Only(ss, R) \in Seq(Seg \cap R) /\ Seg \cap R \subseteq Seg
  BY OnlyTypes
<1>3. QED
  BY <1>1, <1>2, SeqMonotonic DEF Storing

-----------------------------------------------------------------------------
(* The saving, and the usage that follows from it.                            *)

LEMMA GreatestIs ==
    ASSUME NEW N \in Nat, NEW T, T \subseteq 0 .. N, T # {}
    PROVE  Max(T) \in T
<1>1. \E x \in T : \A y \in T : y <= x
  BY GreatestOf
<1>2. PICK x \in T : \A y \in T : x >= y
  BY <1>1
<1>3. QED
  BY <1>2 DEF Max

\* A finite sequence of numbers has a bound.
LEMMA BoundOf ==
    ASSUME NEW n \in Nat, NEW f \in [1 .. n -> Nat]
    PROVE  \E N \in Nat : \A i \in 1 .. n : f[i] <= N
<1> DEFINE Bounded(k) == \E N \in Nat : \A i \in 1 .. k : f[i] <= N
           U == {k \in 0 .. n : Bounded(k)}
<1>1. 0 \in U
  <2>1. \A i \in 1 .. 0 : f[i] <= 0
    OBVIOUS
  <2>2. QED
    BY <2>1
<1>2. ASSUME NEW k \in 0 .. n - 1, k \in U
      PROVE  k + 1 \in U
  <2>1. PICK N \in Nat : \A i \in 1 .. k : f[i] <= N
    BY <1>2
  <2>2. k + 1 \in 1 .. n /\ k + 1 \in 0 .. n /\ f[k + 1] \in Nat
    OBVIOUS
  <2>3. N + f[k + 1] \in Nat
    BY <2>2
  <2>4. \A i \in 1 .. k + 1 : f[i] <= N + f[k + 1]
    <3> TAKE i \in 1 .. k + 1
    <3>1. CASE i = k + 1
      BY <2>2, <3>1
    <3>2. CASE i # k + 1
      <4>1. i \in 1 .. k /\ i \in 1 .. n
        BY <3>2
      <4>2. f[i] <= N /\ f[i] \in Nat
        BY <2>1, <4>1
      <4>3. QED
        BY <2>2, <4>2
    <3>3. QED
      BY <3>1, <3>2
  <2>5. QED
    BY <2>2, <2>3, <2>4
<1>3. \A k \in 0 .. n : k \in U
  <2> HIDE DEF U
  <2>1. QED
    BY <1>1, <1>2, InductionUpTo
<1>4. n \in U
  <2>1. n \in 0 .. n
    OBVIOUS
  <2> HIDE DEF U
  <2>2. QED
    BY <1>3, <2>1
<1>5. QED
  BY <1>4

\* The greatest of 0 and of what f makes of some elements of a sequence.
LEMMA GreatestOfSome ==
    ASSUME NEW n \in Nat, NEW f \in [1 .. n -> Nat], NEW T, T \subseteq {0} \cup {f[i] : i \in 1 .. n},
           0 \in T
    PROVE  Max(T) \in Nat
<1>1. PICK N \in Nat : \A i \in 1 .. n : f[i] <= N
  BY BoundOf
<1>2. T \subseteq 0 .. N
  BY <1>1
<1>3. Max(T) \in T
  BY <1>2, GreatestIs
<1>4. Max(T) \in 0 .. N
  BY <1>2, <1>3
<1>5. QED
  BY <1>4

LEMMA Quotient ==
    ASSUME NEW a \in Nat, NEW b \in Nat \ {0}
    PROVE  a \div b \in Nat
OBVIOUS

LEMMA Product ==
    ASSUME NEW a \in Int, NEW b \in Int
    PROVE  a * b \in Int /\ (a \in Nat /\ b \in Nat => a * b \in Nat)
OBVIOUS

LEMMA EstimatesAre ==
    ASSUME NEW b \in Nat, NEW full \in Nat, NEW raw \in Nat
    PROVE  /\ estimate_tokens_from_bytes(b) \in Nat
           /\ estimate_message_prefix_tokens(b, full, raw) \in Nat
<1>1. (b + 3) \div 4 \in Nat
  BY Quotient
<1>2. estimate_tokens_from_bytes(b) \in Nat
  BY <1>1 DEF estimate_tokens_from_bytes, AtLeast
<1>3. CASE full = 0
  BY <1>2, <1>3 DEF estimate_message_prefix_tokens
<1>4. CASE full # 0
  <2>1. AtMost(b, full) \in Nat
    BY DEF AtMost
  <2>2. raw * AtMost(b, full) \in Nat
    BY <2>1, Product
  <2>3. (raw * AtMost(b, full)) \div full \in Nat
    BY <1>4, <2>2, Quotient
  <2>4. PICK q : q = (raw * AtMost(b, full)) \div full
    OBVIOUS
  <2>5. AtLeast(1, q) \in Nat
    BY <2>3, <2>4 DEF AtLeast
  <2>6. QED
    BY <1>2, <1>4, <2>4, <2>5 DEF estimate_message_prefix_tokens
<1>5. QED
  BY <1>2, <1>3, <1>4

LEMMA SavedIs ==
    ASSUME NEW ss \in Seq(Seg), NEW raw \in Nat, NEW hits
    PROVE  Saved(ss, raw, hits) \in Nat
<1>1. PICK n \in Nat : n = Len(ss)
  BY LenProperties
<1>2. DOMAIN ss = 1 .. n /\ \A i \in 1 .. n : ss[i] \in Seg /\ ss[i].bytes \in Nat
  <2>1. \A i \in 1 .. n : ss[i] \in Seg
    BY <1>1, ElementOfSeq
  <2>2. QED
    BY <1>1, <2>1, LenProperties DEF Seg
<1>3. PICK messages : messages = {s \in Range(ss) : s.kind = "message"}
  OBVIOUS
<1>4. PICK full : full = Max({0} \cup {s.bytes : s \in {m \in messages : m.store}})
  OBVIOUS
<1>5. full \in Nat
  <2>1. PICK f : f = [i \in 1 .. n |-> ss[i].bytes]
    OBVIOUS
  <2>2. f \in [1 .. n -> Nat]
    BY <1>2, <2>1
  <2>3. PICK T : T = {0} \cup {s.bytes : s \in {m \in messages : m.store}}
    OBVIOUS
  <2>4. T \subseteq {0} \cup {f[i] : i \in 1 .. n}
    <3>1. ASSUME NEW s \in messages
          PROVE  s.bytes \in {f[i] : i \in 1 .. n}
      <4>1. PICK i \in 1 .. n : s = ss[i]
        BY <1>2, <1>3 DEF Range
      <4>2. f[i] = s.bytes
        BY <2>1, <4>1
      <4>3. QED
        BY <4>2
    <3>2. QED
      BY <2>3, <3>1
  <2>5. 0 \in T
    BY <2>3
  <2>6. QED
    BY <1>4, <2>2, <2>3, <2>4, <2>5, GreatestOfSome
<1>6. PICK longest : longest = Max({0} \cup {estimate_message_prefix_tokens(s.bytes, full, raw) :
                                             s \in {m \in messages : m.key \in hits}})
  OBVIOUS
<1>7. longest \in Nat
  <2>1. PICK f : f = [i \in 1 .. n |-> estimate_message_prefix_tokens(ss[i].bytes, full, raw)]
    OBVIOUS
  <2>2. f \in [1 .. n -> Nat]
    BY <1>2, <1>5, <2>1, EstimatesAre
  <2>3. PICK T : T = {0} \cup {estimate_message_prefix_tokens(s.bytes, full, raw) :
                               s \in {m \in messages : m.key \in hits}}
    OBVIOUS
  <2>4. T \subseteq {0} \cup {f[i] : i \in 1 .. n}
    <3>1. ASSUME NEW s \in messages
          PROVE  estimate_message_prefix_tokens(s.bytes, full, raw) \in {f[i] : i \in 1 .. n}
      <4>1. PICK i \in 1 .. n : s = ss[i]
        BY <1>2, <1>3 DEF Range
      <4>2. f[i] = estimate_message_prefix_tokens(s.bytes, full, raw)
        BY <2>1, <4>1
      <4>3. QED
        BY <4>2
    <3>2. QED
      BY <2>3, <3>1
  <2>5. 0 \in T
    BY <2>3
  <2>6. QED
    BY <1>6, <2>2, <2>3, <2>4, <2>5, GreatestOfSome
<1>8. PICK rest : rest = Total([i \in DOMAIN ss |->
                             IF ss[i].kind # "message" /\ ss[i].key \in hits
                             THEN estimate_tokens_from_bytes(ss[i].bytes) ELSE 0])
  OBVIOUS
<1>9. rest \in Nat
  <2>1. PICK f : f = [i \in DOMAIN ss |->
                        IF ss[i].kind # "message" /\ ss[i].key \in hits
                        THEN estimate_tokens_from_bytes(ss[i].bytes) ELSE 0]
    OBVIOUS
  <2>2. \A i \in 1 .. n : estimate_tokens_from_bytes(ss[i].bytes) \in Nat
    BY <1>2, EstimatesAre
  <2>3. f \in [1 .. n -> Nat]
    BY <1>2, <2>1, <2>2
  <2>4. QED
    BY <1>8, <2>1, <2>3, TotalOf
<1>10. Saved(ss, raw, hits) = AtMost(longest + rest, (raw * 9) \div 10)
  BY <1>3, <1>4, <1>6, <1>8 DEF Saved
<1>11. (raw * 9) \div 10 \in Nat
  <2>1. raw * 9 \in Nat
    OBVIOUS
  <2>2. QED
    BY <2>1, Quotient
<1>12. PICK q \in Nat : q = (raw * 9) \div 10
  BY <1>11
<1>13. AtMost(longest + rest, q) \in Nat
  BY <1>7, <1>9 DEF AtMost
<1>14. QED
  BY <1>10, <1>12, <1>13

Report == [raw : Nat, saved : Nat]
Sums   == [raw : Nat, saved : Nat, billable : Nat]

LEMMA UsagesAre ==
    /\ NoUsage \in Usage /\ \A u \in Usages : u \in Usage
    /\ \A u \in Usage : InputOf(u) \in Nat /\ u.read <= InputOf(u)
BY RecordsAssumption DEF NoUsage, Usage, InputOf

\* What the scaled saving is, for a given total.
Scaled(report, raw) == IF report.raw = 0 THEN 0 ELSE (raw * report.saved) \div report.raw

LEMMA ScaledIs ==
    ASSUME NEW report \in Report, NEW raw \in Nat
    PROVE  Scaled(report, raw) \in Nat
<1>1. report.raw \in Nat /\ report.saved \in Nat
  BY DEF Report
<1>2. CASE report.raw = 0
  BY <1>2 DEF Scaled
<1>3. CASE report.raw # 0
  <2>1. raw * report.saved \in Nat
    BY <1>1, Product
  <2>2. (raw * report.saved) \div report.raw \in Nat
    BY <1>1, <1>3, <2>1, Quotient
  <2>3. QED
    BY <1>3, <2>2 DEF Scaled
<1>4. QED
  BY <1>2, <1>3

\* The accounting in terms of what it adds up.
Accounts(report, u, a) ==
    LET raw == AtLeast(report.raw, InputOf(u)) IN
    /\ a.raw = raw
    /\ a.saved = AtMost(AtLeast(AtLeast(report.saved, Scaled(report, raw)), u.read), raw)
    /\ a.billable = raw - a.saved

LEMMA AccountingIs ==
    ASSUME NEW report \in Report, NEW u \in Usage
    PROVE  LET a == compute_input_cache_accounting(report, u) IN
           /\ a \in Sums /\ Accounts(report, u, a)
<1>1. report.raw \in Nat /\ report.saved \in Nat /\ u.read \in Nat /\ InputOf(u) \in Nat
  BY UsagesAre DEF Report, Usage
<1>2. PICK raw : raw = AtLeast(report.raw, InputOf(u))
  OBVIOUS
<1>3. raw \in Nat
  BY <1>1, <1>2 DEF AtLeast
<1>4. PICK scaled : scaled = Scaled(report, raw)
  OBVIOUS
<1>5. scaled \in Nat
  BY <1>3, <1>4, ScaledIs
<1>6. PICK saved : saved = AtMost(AtLeast(AtLeast(report.saved, scaled), u.read), raw)
  OBVIOUS
<1>7. saved \in Nat /\ raw - saved \in Nat
  BY <1>1, <1>3, <1>5, <1>6 DEF AtMost, AtLeast
<1>8. compute_input_cache_accounting(report, u) = [raw |-> raw, saved |-> saved, billable |-> raw - saved]
  BY <1>2, <1>4, <1>6 DEF compute_input_cache_accounting, Scaled
<1>9. PICK a : a = [raw |-> raw, saved |-> saved, billable |-> raw - saved]
  OBVIOUS
<1>10. a \in Sums
  BY <1>3, <1>7, <1>9 DEF Sums
<1>11. Accounts(report, u, a)
  BY <1>2, <1>4, <1>6, <1>9 DEF Accounts
<1>12. QED
  BY <1>8, <1>9, <1>10, <1>11

\* What the client is told, and what the log makes of it.
Agree(report, said, told, numbers) ==
    numbers.saved > 0 =>
        /\ told.input = numbers.billable /\ told.read = numbers.saved
        /\ InputOf(told) = AtLeast(report.raw, said)

LEMMA AdjustedAgrees ==
    ASSUME NEW report \in Report, NEW u \in Usage
    PROVE  LET told == Adjusted(report, u) IN
           /\ told \in Usage
           /\ Agree(report, InputOf(u), told, compute_input_cache_accounting(report, told))
<1>1. PICK a : a = compute_input_cache_accounting(report, u)
  OBVIOUS
<1>2. a \in Sums /\ Accounts(report, u, a)
  BY <1>1, AccountingIs
<1>3. PICK told : told = Adjusted(report, u)
  OBVIOUS
<1>4. PICK raw : raw = AtLeast(report.raw, InputOf(u))
  OBVIOUS
<1>5. /\ report.raw \in Nat /\ report.saved \in Nat /\ InputOf(u) \in Nat
      /\ raw \in Nat /\ raw >= report.raw /\ u.read \in Nat
  BY <1>4, UsagesAre DEF AtLeast, Report, Usage
<1>6. PICK scaled \in Nat : scaled = Scaled(report, raw)
  BY <1>5, ScaledIs
<1>7. /\ a.raw = raw /\ a.saved = AtMost(AtLeast(AtLeast(report.saved, scaled), u.read), raw)
      /\ a.billable = raw - a.saved /\ a.saved \in Nat /\ a.billable \in Nat
  BY <1>2, <1>4, <1>6 DEF Accounts, Sums
<1>8. CASE a.saved = 0
  <2>1. told = u
    BY <1>1, <1>3, <1>8 DEF Adjusted
  <2>2. QED
    BY <1>1, <1>3, <1>8, <2>1 DEF Agree
<1>9. CASE a.saved # 0
  <2>1. told = [input |-> a.billable, read |-> a.saved, created |-> 0]
    BY <1>1, <1>3, <1>9 DEF Adjusted
  <2>2. told \in Usage /\ told.input = a.billable /\ told.read = a.saved
    BY <1>7, <2>1 DEF Usage
  <2>3. InputOf(told) = raw
    BY <1>5, <1>7, <2>1 DEF InputOf
  <2>4. PICK b : b = compute_input_cache_accounting(report, told)
    OBVIOUS
  <2>5. b \in Sums /\ Accounts(report, told, b)
    BY <2>2, <2>4, AccountingIs
  <2>6. AtLeast(report.raw, InputOf(told)) = raw
    BY <1>5, <2>3 DEF AtLeast
  <2>7. b.saved = AtMost(AtLeast(AtLeast(report.saved, scaled), a.saved), raw) /\ b.billable = raw - b.saved
    BY <1>6, <2>2, <2>5, <2>6 DEF Accounts
  <2>8. b.saved = a.saved
    BY <1>5, <1>7, <2>7 DEF AtMost, AtLeast
  <2>9. Agree(report, InputOf(u), told, b)
    BY <1>4, <1>7, <2>2, <2>3, <2>7, <2>8 DEF Agree
  <2>10. QED
    BY <1>3, <2>2, <2>4, <2>9
<1>10. QED
  BY <1>8, <1>9

-----------------------------------------------------------------------------
(* The inductive invariant.                                                   *)

Hit == [key : Key, ttl : Nat]
Lookups  == [at : {"look"}, by : Nat, since : Nat, all : Seq(Seg), todo : Seq(Seg),
             raw : Nat, seen : SUBSET Hit]
Storings == [at : {"store"}, by : Nat, since : Nat, todo : Seq(Seg), seen : SUBSET Hit,
             report : Report]
Logs     == [at : {"log"}, how : {"success", "empty", "hit", "error"}, report : Report,
             said : Nat, told : Usage, n : {0}, numbers : Sums]
Appends  == [at : {"log"}, n : Nat \ {0}, step : {"rest", "end", "room"}]
Tasks    == {Idle} \cup Lookups \cup Storings \cup Logs \cup Appends
Files    == [at : Nat, ttl : Nat, state : {"whole", "torn"}]
Sent     == [key : Key, at : Nat, by : Nat]

Typed ==
    /\ now \in Nat /\ requests \in Nat /\ mix \in Mixes
    /\ segments \in [DOMAIN segments -> Files] /\ stored \subseteq Sent
    /\ written \in Nat /\ acked \in Seq(Nat)
    /\ task \in [Workers -> Tasks]

\* A whole file was written by a store that succeeded. Requests are told apart by their
\* numbers, and one that still looks up has stored nothing.
Early(w) == task[w].at \in {"look", "store"}
Earned(sent, t, x) == \E s \in sent : s.key = x.key /\ s.by # t.by /\ t.since - s.at < x.ttl
HitsKept ==
    /\ \A k \in DOMAIN segments : segments[k].state = "whole" =>
          \E s \in stored : s.key = k /\ s.at = segments[k].at
    /\ \A s \in stored : s.by <= requests
    /\ \A w \in Workers : Early(w) => task[w].by <= requests
    /\ \A v, w \in Workers : Early(v) /\ Early(w) /\ v # w => task[v].by # task[w].by
    /\ \A w \in Workers : At(w, "look") => \A s \in stored : s.by # task[w].by
    /\ \A w \in Workers : Early(w) => \A x \in task[w].seen : Earned(stored, task[w], x)

UsageKept ==
    \A w \in Workers : At(w, "log") /\ task[w].n = 0 /\ task[w].how = "success" =>
        Agree(task[w].report, task[w].said, task[w].told, task[w].numbers)

\* Lines on which records up to number k were begun
Lines(k) == {line \in Line : /\ Len(line.pieces) >= 1
                             /\ \A j \in 1 .. Len(line.pieces) : line.pieces[j].n \in 1 .. k}
Number(line) == line.pieces[1].n

\* The log without the line that is not ended, which the next record is begun on
Open(lines) == Len(lines) >= 1 /\ ~lines[Len(lines)].ended
Settled(lines) == IF Open(lines) THEN SubSeq(lines, 1, Len(lines) - 1) ELSE lines

Ascending(rs) == \A i, j \in 1 .. Len(rs) : i < j => Number(rs[i]) < Number(rs[j])
Below(rs, n) == \A i \in 1 .. Len(rs) : Number(rs[i]) < n
Tidy(lines, k) ==
    /\ lines \in Seq(Lines(k))
    /\ \A i \in 1 .. Len(lines) - 1 : lines[i].ended
    /\ Ascending(read_records(Settled(lines)))
    /\ Open(lines) => Below(read_records(Settled(lines)), Number(lines[Len(lines)]))

\* Record a is listed, or MaxRecords later ones are.
Keeps(rs, a) ==
    \/ \E i \in 1 .. Len(rs) : Number(rs[i]) = a
    \/ Len(rs) >= MaxRecords /\ a < Number(rs[Len(rs) + 1 - MaxRecords])

\* The record number k that is being written: until its line is ended, it is behind all
\* others; and if it is not spoiled, it is alone on its line, and will be read.
Alone(lines, k, state) ==
    ~HasCut(Settled(lines)) /\ lines[Len(lines)].pieces = << [n |-> k, state |-> state] >>
LastIs(rs, k) == Len(rs) >= 1 /\ Number(rs[Len(rs)]) = k
Writes(step, lines, k, spoils) ==
    /\ step \in {"rest", "end"} => Open(lines) /\ Settled(lines) \in Seq(Lines(k - 1))
    /\ step = "rest" /\ k \notin spoils => Alone(lines, k, "half")
    /\ step = "end" /\ k \notin spoils => Alone(lines, k, "whole")
    /\ step = "room" => ~Open(lines)
    /\ step = "room" /\ k \notin spoils => LastIs(read_records(lines), k)

Safe(a, lines, spoils) == a \in spoils \/ Keeps(read_records(Settled(lines)), a)

Writing(w) == At(w, "log") /\ task[w].n # 0
LogKept ==
    /\ Tidy(log, written)
    /\ \A i \in 1 .. Len(acked) : Safe(acked[i], log, spoiled)
    /\ \A w \in Workers : Writing(w) =>
          held = {w} /\ task[w].n = written /\ Writes(task[w].step, log, written, spoiled)
    /\ held # {} => \E w \in Workers : held = {w} /\ Writing(w)

-----------------------------------------------------------------------------
(* Types.                                                                     *)

LEMMA TaskIs ==
    ASSUME Typed, NEW w \in Workers
    PROVE  /\ task[w] \in Tasks
           /\ At(w, "look") => task[w] \in Lookups
           /\ At(w, "store") => task[w] \in Storings
           /\ At(w, "log") /\ task[w].n = 0 => task[w] \in Logs
           /\ Writing(w) => task[w] \in Appends
BY DEF Typed, At, Tasks, Idle, Lookups, Storings, Logs, Appends, Writing

\* Who has the log is writing to it.
LEMMA WriterIs ==
    ASSUME Typed, LogKept, NEW w \in Workers, Appending(w)
    PROVE  /\ task[w] \in Appends /\ task[w].n = written /\ Writing(w)
           /\ Writes(task[w].step, log, written, spoiled)
<1>1. Writing(w)
  BY DEF LogKept, Appending
<1>2. QED
  BY <1>1, TaskIs DEF LogKept

LEMMA NewTask ==
    ASSUME task \in [Workers -> Tasks], NEW w \in Workers, NEW t \in Tasks, task' = [task EXCEPT ![w] = t]
    PROVE  task' \in [Workers -> Tasks]
OBVIOUS

LEMMA LoggedTypes ==
    ASSUME Typed, NEW w \in Workers, At(w, "store"),
           NEW how \in {"success", "empty", "hit", "error"}, NEW said \in Nat, NEW told \in Usage,
           ToLog(w, how, said, told)
    PROVE  task' \in [Workers -> Tasks]
<1>1. task[w] \in Storings
  BY TaskIs
<1>2. PICK report : report = task[w].report
  OBVIOUS
<1>3. report \in Report
  BY <1>1, <1>2 DEF Storings
<1>4. PICK a : a = compute_input_cache_accounting(report, told)
  OBVIOUS
<1>5. a \in Sums
  BY <1>3, <1>4, AccountingIs
<1>6. PICK t : t = [at |-> "log", how |-> how, report |-> report, said |-> said, told |-> told,
                    n |-> 0, numbers |-> a]
  OBVIOUS
<1>7. t \in Logs
  BY <1>3, <1>5, <1>6 DEF Logs
<1>8. task' = [task EXCEPT ![w] = t]
  BY <1>2, <1>4, <1>6 DEF ToLog
<1>9. QED
  BY <1>7, <1>8, NewTask DEF Typed, Tasks

LEMMA TypesAsk ==
    ASSUME Typed, NEW w \in Workers, Ask(w)
    PROVE  Typed'
<1>1. PICK r \in mix.asked : \E raw \in RawCounts(r) :
         LET ss == IF raw = 0 THEN << >> ELSE extract_segments(r)
         IN  task' = [task EXCEPT ![w] =
                 [at |-> "look", by |-> requests', since |-> now, all |-> ss, todo |-> ss,
                  raw |-> raw, seen |-> {}]]
  BY DEF Ask
<1>2. PICK raw \in RawCounts(r) :
         LET ss == IF raw = 0 THEN << >> ELSE extract_segments(r)
         IN  task' = [task EXCEPT ![w] =
                 [at |-> "look", by |-> requests', since |-> now, all |-> ss, todo |-> ss,
                  raw |-> raw, seen |-> {}]]
  BY <1>1
<1>3. IsRequest(r)
  <2>1. mix.asked \subseteq [upto : DOMAIN Script, parts : {<< >>, Parts}]
    BY RecordsAssumption DEF Typed
  <2>2. QED
    BY <2>1 DEF IsRequest
<1>4. raw \in Nat
  BY <1>3, RawCountsAre
<1>5. PICK ss : ss = IF raw = 0 THEN << >> ELSE extract_segments(r)
  OBVIOUS
<1>6. ss \in Seq(Seg)
  BY <1>3, <1>5, SegmentsAre, EmptySeq
<1>7. PICK t : t = [at |-> "look", by |-> requests', since |-> now, all |-> ss, todo |-> ss,
                    raw |-> raw, seen |-> {}]
  OBVIOUS
<1>8. requests' \in Nat /\ now \in Nat
  BY DEF Ask, Typed
<1>9. t \in Lookups
  BY <1>4, <1>6, <1>7, <1>8 DEF Lookups
<1>10. task' = [task EXCEPT ![w] = t]
  BY <1>2, <1>5, <1>7
<1>11. task' \in [Workers -> Tasks]
  BY <1>9, <1>10, NewTask DEF Typed, Tasks
<1>12. QED
  BY <1>8, <1>11 DEF Ask, Typed, input, calllog

LEMMA TodoIs ==
    ASSUME NEW todo \in Seq(Seg), todo # << >>
    PROVE  /\ Head(todo) \in Seg /\ Tail(todo) \in Seq(Seg)
           /\ Head(todo).key \in Key /\ Head(todo).ttl \in Nat
<1>1. Head(todo) \in Seg /\ Tail(todo) \in Seq(Seg)
  BY HeadTailProperties
<1>2. QED
  BY <1>1 DEF Seg

\* What a lookup leaves of its task.
LEMMA LookIs ==
    ASSUME Typed, NEW w \in Workers, Look(w)
    PROVE  \E s \in Seg : \E hit \in {segment_is_fresh(s, task[w].since), FALSE} :
              /\ s = Head(task[w].todo) /\ task[w] \in Lookups
              /\ task' = [task EXCEPT ![w] =
                    [at |-> "look", by |-> task[w].by, since |-> task[w].since, all |-> task[w].all,
                     todo |-> Tail(task[w].todo), raw |-> task[w].raw,
                     seen |-> IF hit THEN task[w].seen \cup {[key |-> s.key, ttl |-> s.ttl]}
                              ELSE task[w].seen]]
<1>1. task[w] \in Lookups /\ task[w].todo # << >>
  BY TaskIs DEF Look
<1>2. PICK s : s = Head(task[w].todo)
  OBVIOUS
<1>3. s \in Seg
  BY <1>1, <1>2, TodoIs DEF Lookups
<1>4. PICK hit \in {segment_is_fresh(s, task[w].since)} \cup (IF Others(w, s) THEN {FALSE} ELSE {}) :
          task' = [task EXCEPT ![w].todo = Tail(@),
                       ![w].seen = IF hit THEN @ \cup {[key |-> s.key, ttl |-> s.ttl]} ELSE @]
  BY <1>2 DEF Look
<1>5. hit \in {segment_is_fresh(s, task[w].since), FALSE}
  BY <1>4
<1>6. PICK t : t = [at |-> "look", by |-> task[w].by, since |-> task[w].since, all |-> task[w].all,
                    todo |-> Tail(task[w].todo), raw |-> task[w].raw,
                    seen |-> IF hit THEN task[w].seen \cup {[key |-> s.key, ttl |-> s.ttl]}
                             ELSE task[w].seen]
  OBVIOUS
<1>7. task' = [task EXCEPT ![w] = t]
  <2>1. task \in [Workers -> Tasks]
    BY DEF Typed
  <2>2. t = [task[w] EXCEPT !.todo = Tail(@),
                 !.seen = IF hit THEN @ \cup {[key |-> s.key, ttl |-> s.ttl]} ELSE @]
    <3>1. PICK v : v = [task[w] EXCEPT !.todo = Tail(@),
                            !.seen = IF hit THEN @ \cup {[key |-> s.key, ttl |-> s.ttl]} ELSE @]
      OBVIOUS
    <3>2. v = [f \in {"at", "by", "since", "all", "todo", "raw", "seen"} |-> v[f]]
      BY <1>1, <3>1 DEF Lookups
    <3>3. /\ v.at = "look" /\ v.by = task[w].by /\ v.since = task[w].since /\ v.all = task[w].all
          /\ v.todo = Tail(task[w].todo) /\ v.raw = task[w].raw
      BY <1>1, <3>1 DEF Lookups
    <3>4. v.seen = IF hit THEN task[w].seen \cup {[key |-> s.key, ttl |-> s.ttl]} ELSE task[w].seen
      BY <1>1, <3>1 DEF Lookups
    <3>5. t = v
      BY <1>6, <3>2, <3>3, <3>4
    <3>6. QED
      BY <3>1, <3>5
  <2>3. QED
    BY <1>4, <2>1, <2>2
<1>8. QED
  BY <1>1, <1>2, <1>3, <1>5, <1>6, <1>7

LEMMA TypesLook ==
    ASSUME Typed, NEW w \in Workers, Look(w)
    PROVE  Typed'
<1>1. PICK s \in Seg : \E hit \in {segment_is_fresh(s, task[w].since), FALSE} :
              /\ s = Head(task[w].todo) /\ task[w] \in Lookups
              /\ task' = [task EXCEPT ![w] =
                    [at |-> "look", by |-> task[w].by, since |-> task[w].since, all |-> task[w].all,
                     todo |-> Tail(task[w].todo), raw |-> task[w].raw,
                     seen |-> IF hit THEN task[w].seen \cup {[key |-> s.key, ttl |-> s.ttl]}
                              ELSE task[w].seen]]
  BY LookIs
<1>2. Tail(task[w].todo) \in Seq(Seg)
  BY <1>1, TodoIs DEF Lookups, Look
<1>3. PICK x : x = [key |-> s.key, ttl |-> s.ttl]
  OBVIOUS
<1>4. x \in Hit
  BY <1>3 DEF Hit, Seg
<1> PICK hit \in {segment_is_fresh(s, task[w].since), FALSE} :
        task' = [task EXCEPT ![w] =
                    [at |-> "look", by |-> task[w].by, since |-> task[w].since, all |-> task[w].all,
                     todo |-> Tail(task[w].todo), raw |-> task[w].raw,
                     seen |-> IF hit THEN task[w].seen \cup {[key |-> s.key, ttl |-> s.ttl]}
                              ELSE task[w].seen]]
  BY <1>1
<1>5. PICK seen : seen = IF hit THEN task[w].seen \cup {x} ELSE task[w].seen
  OBVIOUS
<1>6. seen \in SUBSET Hit
  BY <1>1, <1>4, <1>5 DEF Lookups
<1>7. PICK t : t = [at |-> "look", by |-> task[w].by, since |-> task[w].since, all |-> task[w].all,
                    todo |-> Tail(task[w].todo), raw |-> task[w].raw, seen |-> seen]
  OBVIOUS
<1>8. t \in Lookups
  BY <1>1, <1>2, <1>6, <1>7 DEF Lookups
<1>9. task' = [task EXCEPT ![w] = t]
  BY <1>1, <1>3, <1>5, <1>7
<1>10. task' \in [Workers -> Tasks]
  BY <1>8, <1>9, NewTask DEF Typed, Tasks
<1>11. QED
  BY <1>10 DEF Look, Typed, input, calllog, counters

LEMMA TypesLooked ==
    ASSUME Typed, NEW w \in Workers, Looked(w)
    PROVE  Typed'
<1>1. task[w] \in Lookups
  BY TaskIs DEF Looked
<1>2. PICK q : q = task[w]
  OBVIOUS
<1>3. /\ q.by \in Nat /\ q.since \in Nat /\ q.all \in Seq(Seg) /\ q.raw \in Nat
      /\ q.seen \in SUBSET Hit
  BY <1>1, <1>2 DEF Lookups
<1>4. PICK todo : todo = Storing(q.all)
  OBVIOUS
<1>5. todo \in Seq(Seg)
  BY <1>3, <1>4, StoringTypes
<1>6. PICK saved : saved = Saved(q.all, q.raw, {x.key : x \in q.seen})
  OBVIOUS
<1>7. saved \in Nat
  BY <1>3, <1>6, SavedIs
<1>8. PICK t : t = [at |-> "store", by |-> q.by, since |-> q.since, todo |-> todo, seen |-> q.seen,
                    report |-> [raw |-> q.raw, saved |-> saved]]
  OBVIOUS
<1>9. t \in Storings
  BY <1>3, <1>5, <1>7, <1>8 DEF Storings, Report
<1>10. task' = [task EXCEPT ![w] = t]
  BY <1>2, <1>4, <1>6, <1>8 DEF Looked
<1>11. task' \in [Workers -> Tasks]
  BY <1>9, <1>10, NewTask DEF Typed, Tasks
<1>12. QED
  BY <1>11 DEF Looked, Typed, input, calllog, counters

\* What storing a segment leaves of its task.
LEMMA StoringIs ==
    ASSUME Typed, NEW w \in Workers, StoreSegment(w)
    PROVE  /\ task[w] \in Storings /\ Head(task[w].todo) \in Seg
           /\ task' = [task EXCEPT ![w] =
                  [at |-> "store", by |-> task[w].by, since |-> task[w].since,
                   todo |-> Tail(task[w].todo), seen |-> task[w].seen, report |-> task[w].report]]
           /\ Tail(task[w].todo) \in Seq(Seg)
<1>1. task[w] \in Storings /\ task[w].todo # << >>
  BY TaskIs DEF StoreSegment
<1>2. Head(task[w].todo) \in Seg /\ Tail(task[w].todo) \in Seq(Seg)
  BY <1>1, TodoIs DEF Storings
<1>3. PICK t : t = [at |-> "store", by |-> task[w].by, since |-> task[w].since,
                    todo |-> Tail(task[w].todo), seen |-> task[w].seen, report |-> task[w].report]
  OBVIOUS
<1>4. PICK v : v = [task[w] EXCEPT !.todo = Tail(@)]
  OBVIOUS
<1>5. v = [f \in {"at", "by", "since", "todo", "seen", "report"} |-> v[f]]
  BY <1>1, <1>4 DEF Storings
<1>6. /\ v.at = "store" /\ v.by = task[w].by /\ v.since = task[w].since
      /\ v.todo = Tail(task[w].todo) /\ v.seen = task[w].seen /\ v.report = task[w].report
  BY <1>1, <1>4 DEF Storings
<1>7. t = v
  BY <1>3, <1>5, <1>6
<1>8. task \in [Workers -> Tasks]
  BY DEF Typed
<1>9. task' = [task EXCEPT ![w] = v]
  BY <1>4, <1>8 DEF StoreSegment
<1>10. QED
  BY <1>1, <1>2, <1>3, <1>7, <1>9

\* What it leaves of the files.
StoresFile(w, s, state) ==
    segments' = [k \in DOMAIN segments \cup {s.key} |->
                    IF k = s.key THEN [at |-> task[w].since, ttl |-> s.ttl, state |-> state]
                    ELSE segments[k]]

LEMMA StoreCases ==
    ASSUME NEW w, StoreSegment(w)
    PROVE  LET s == Head(task[w].todo) IN
           \/ /\ StoresFile(w, s, "whole") /\ UNCHANGED counters
              /\ stored' = stored \cup {[key |-> s.key, at |-> task[w].since, by |-> task[w].by]}
           \/ Fault /\ StoresFile(w, s, "torn") /\ UNCHANGED stored
BY DEF StoreSegment, StoresFile

LEMMA StoredTypes ==
    ASSUME segments \in [DOMAIN segments -> Files], NEW w, task[w].since \in Nat, NEW s \in Seg,
           NEW state \in {"whole", "torn"}, StoresFile(w, s, state)
    PROVE  segments' \in [DOMAIN segments' -> Files]
<1>1. PICK f : f = [at |-> task[w].since, ttl |-> s.ttl, state |-> state]
  OBVIOUS
<1>2. f \in Files
  BY <1>1 DEF Files, Seg
<1>3. segments' = [k \in DOMAIN segments \cup {s.key} |-> IF k = s.key THEN f ELSE segments[k]]
  BY <1>1 DEF StoresFile
<1>4. QED
  BY <1>2, <1>3

LEMMA TypesStoreSegment ==
    ASSUME Typed, NEW w \in Workers, StoreSegment(w)
    PROVE  Typed'
<1>1. /\ task[w] \in Storings /\ Tail(task[w].todo) \in Seq(Seg)
      /\ task' = [task EXCEPT ![w] =
             [at |-> "store", by |-> task[w].by, since |-> task[w].since,
              todo |-> Tail(task[w].todo), seen |-> task[w].seen, report |-> task[w].report]]
  BY StoringIs
<1>2. PICK s : s = Head(task[w].todo)
  OBVIOUS
<1>3. s \in Seg
  BY <1>2, StoringIs
<1>4. PICK t : t = [at |-> "store", by |-> task[w].by, since |-> task[w].since,
                    todo |-> Tail(task[w].todo), seen |-> task[w].seen, report |-> task[w].report]
  OBVIOUS
<1>5. t \in Storings
  BY <1>1, <1>4 DEF Storings
<1>6. task' \in [Workers -> Tasks]
  BY <1>1, <1>4, <1>5, NewTask DEF Typed, Tasks
<1>7. task[w].since \in Nat /\ task[w].by \in Nat
  BY <1>1 DEF Storings
<1>8. segments \in [DOMAIN segments -> Files]
  BY DEF Typed
<1>9. \/ /\ StoresFile(w, s, "whole") /\ UNCHANGED counters
         /\ stored' = stored \cup {[key |-> s.key, at |-> task[w].since, by |-> task[w].by]}
      \/ Fault /\ StoresFile(w, s, "torn") /\ UNCHANGED stored
  BY <1>2, StoreCases
<1>10. segments' \in [DOMAIN segments' -> Files]
  BY <1>3, <1>7, <1>8, <1>9, StoredTypes
<1>11. stored' \subseteq Sent
  <2>1. PICK x : x = [key |-> s.key, at |-> task[w].since, by |-> task[w].by]
    OBVIOUS
  <2>2. x \in Sent
    BY <1>3, <1>7, <2>1 DEF Sent, Seg
  <2>3. stored \subseteq Sent
    BY DEF Typed
  <2>4. QED
    BY <1>9, <2>1, <2>2, <2>3
<1>12. mix' = mix /\ requests' = requests
  BY <1>9 DEF counters, Fault
<1>13. QED
  BY <1>6, <1>10, <1>11, <1>12 DEF StoreSegment, Typed, calllog

LEMMA TypesLogged ==
    ASSUME Typed, NEW w \in Workers, Answer(w) \/ Replay(w) \/ Fail(w) \/ Leave(w)
    PROVE  Typed'
<1>1. At(w, "store")
  BY DEF Answer, Replay, Fail, Leave, Stored
<1>2. UNCHANGED <<now, input, calllog, counters>>
  BY DEF Answer, Replay, Fail, Leave
<1>3. task \in [Workers -> Tasks]
  BY DEF Typed
<1>4. task[w].report \in Report
  BY <1>1, TaskIs DEF Storings
<1>5. CASE Answer(w)
  <2>1. CASE \E u \in Usages : ToLog(w, "success", InputOf(u), Adjusted(task[w].report, u))
    <3>1. PICK u \in Usages : ToLog(w, "success", InputOf(u), Adjusted(task[w].report, u))
      BY <2>1
    <3>2. u \in Usage /\ InputOf(u) \in Nat
      BY UsagesAre
    <3>3. PICK told : told = Adjusted(task[w].report, u)
      OBVIOUS
    <3>4. told \in Usage
      BY <1>4, <3>2, <3>3, AdjustedAgrees
    <3>5. PICK said : said = InputOf(u)
      OBVIOUS
    <3>6. ToLog(w, "success", said, told) /\ said \in Nat
      BY <3>1, <3>2, <3>3, <3>5
    <3>7. task' \in [Workers -> Tasks]
      BY <1>1, <3>4, <3>6, LoggedTypes
    <3>8. QED
      BY <1>2, <3>7 DEF Typed, input, calllog, counters
  <2>2. CASE ToLog(w, "empty", 0, NoUsage)
    <3>1. task' \in [Workers -> Tasks]
      BY <1>1, <2>2, UsagesAre, LoggedTypes
    <3>2. QED
      BY <1>2, <3>1 DEF Typed, input, calllog, counters
  <2>3. QED
    BY <1>5, <2>1, <2>2 DEF Answer
<1>6. CASE Replay(w)
  <2>1. PICK u \in Usages : ToLog(w, "hit", InputOf(u), [NoUsage EXCEPT !.read = InputOf(u)])
    BY <1>6 DEF Replay
  <2>2. PICK said : said = InputOf(u)
    OBVIOUS
  <2>3. said \in Nat
    BY <2>2, UsagesAre
  <2>4. PICK told : told = [NoUsage EXCEPT !.read = said]
    OBVIOUS
  <2>5. told \in Usage
    BY <2>3, <2>4 DEF NoUsage, Usage
  <2>6. ToLog(w, "hit", said, told)
    BY <2>1, <2>2, <2>4
  <2>7. task' \in [Workers -> Tasks]
    BY <1>1, <2>3, <2>5, <2>6, LoggedTypes
  <2>8. QED
    BY <1>2, <2>7 DEF Typed, input, calllog, counters
<1>7. CASE Fail(w)
  <2>1. ToLog(w, "error", 0, NoUsage)
    BY <1>7 DEF Fail
  <2>2. task' \in [Workers -> Tasks]
    BY <1>1, <2>1, UsagesAre, LoggedTypes
  <2>3. QED
    BY <1>2, <2>2 DEF Typed, input, calllog, counters
<1>8. CASE Leave(w)
  <2>1. task' \in [Workers -> Tasks]
    BY <1>3, <1>8 DEF Leave, Finish, Tasks
  <2>2. QED
    BY <1>2, <2>1 DEF Typed, input, calllog, counters
<1>9. QED
  BY <1>5, <1>6, <1>7, <1>8

LEMMA FinishTypes ==
    ASSUME Typed, NEW w \in Workers, Finish(w)
    PROVE  task' \in [Workers -> Tasks]
BY DEF Typed, Finish, Tasks

LEMMA TypesBeginRecord ==
    ASSUME Typed, NEW w \in Workers, BeginRecord(w)
    PROVE  Typed'
<1>1. UNCHANGED <<now, input, acked, mix, requests>> /\ written' \in Nat
  BY DEF BeginRecord, Typed, counters, Fault
<1>2. PICK t : t = [at |-> "log", n |-> written + 1, step |-> "rest"]
  OBVIOUS
<1>3. t \in Tasks
  BY <1>2 DEF Typed, Tasks, Appends
<1>4. Finish(w) \/ task' = [task EXCEPT ![w] = t]
  BY <1>2 DEF BeginRecord
<1>5. task' \in [Workers -> Tasks]
  BY <1>3, <1>4, FinishTypes, NewTask DEF Typed
<1>6. QED
  BY <1>1, <1>5 DEF Typed, input

LEMMA StepTypes ==
    ASSUME Typed, NEW w \in Workers, task[w] \in Appends, NEW step \in {"rest", "end", "room"},
           task' = [task EXCEPT ![w].step = step]
    PROVE  /\ task' = [task EXCEPT ![w] = [at |-> "log", n |-> task[w].n, step |-> step]]
           /\ task' \in [Workers -> Tasks]
<1>1. PICK t : t = [at |-> "log", n |-> task[w].n, step |-> step]
  OBVIOUS
<1>2. PICK v : v = [task[w] EXCEPT !.step = step]
  OBVIOUS
<1>3. v = [f \in {"at", "n", "step"} |-> v[f]]
  BY <1>2 DEF Appends
<1>4. v.at = "log" /\ v.n = task[w].n /\ v.step = step
  BY <1>2 DEF Appends
<1>5. t = v
  BY <1>1, <1>3, <1>4
<1>6. task' = [task EXCEPT ![w] = t]
  BY <1>2, <1>5 DEF Typed
<1>7. t \in Tasks
  BY <1>1 DEF Appends, Tasks
<1>8. QED
  BY <1>1, <1>6, <1>7, NewTask DEF Typed

LEMMA TypesAppending ==
    ASSUME Typed, LogKept, NEW w \in Workers, WriteRest(w) \/ EndLine(w) \/ MakeRoom(w)
    PROVE  Typed'
<1>1. Appending(w)
  BY DEF WriteRest, EndLine, MakeRoom
<1>2. task[w] \in Appends
  BY <1>1, WriterIs
<1>3. UNCHANGED <<now, input, written>>
  BY DEF WriteRest, EndLine, MakeRoom
<1>4. UNCHANGED <<mix, requests>>
  BY DEF WriteRest, EndLine, MakeRoom, counters, Fault
<1>5. task' \in [Workers -> Tasks]
  <2>1. \/ Finish(w) \/ task' = [task EXCEPT ![w].step = "end"]
        \/ task' = [task EXCEPT ![w].step = "room"]
    BY DEF WriteRest, EndLine, MakeRoom
  <2>2. QED
    BY <1>2, <2>1, FinishTypes, StepTypes
<1>6. acked' \in Seq(Nat)
  <2>1. acked' = acked \/ acked' = Append(acked, task[w].n)
    BY DEF WriteRest, EndLine, MakeRoom
  <2>2. task[w].n \in Nat /\ acked \in Seq(Nat)
    BY <1>2 DEF Appends, Typed
  <2>3. QED
    BY <2>1, <2>2, AppendProperties
<1>7. QED
  BY <1>3, <1>4, <1>5, <1>6 DEF Typed, input

\* A process that is killed may leave a torn file.
Tears == segments' = segments \/ \E k \in DOMAIN segments : segments' = [segments EXCEPT ![k].state = "torn"]

LEMMA KillTears ==
    ASSUME Kill
    PROVE  Tears
BY DEF Kill, Tears

LEMMA TypesKill ==
    ASSUME Typed, Kill
    PROVE  Typed'
<1>1. task' \in [Workers -> Tasks]
  BY DEF Kill, Tasks
<1>2. segments \in [DOMAIN segments -> Files]
  BY DEF Typed
<1>3. segments' \in [DOMAIN segments' -> Files]
  <2>1. CASE segments' = segments
    BY <1>2, <2>1
  <2>2. ASSUME NEW k \in DOMAIN segments, segments' = [segments EXCEPT ![k].state = "torn"]
        PROVE  segments' \in [DOMAIN segments' -> Files]
    <3>1. segments[k] \in Files
      BY <1>2
    <3>2. [segments[k] EXCEPT !.state = "torn"] \in Files
      BY <3>1 DEF Files
    <3>3. QED
      BY <1>2, <2>2, <3>2
  <2>3. QED
    BY <2>1, <2>2, KillTears DEF Tears
<1>4. QED
  BY <1>1, <1>3 DEF Kill, Typed

LEMMA TypesKept ==
    ASSUME Typed, LogKept, [Next]_vars
    PROVE  Typed'
<1>1. ASSUME NEW w \in Workers, Step(w)
      PROVE  Typed'
  BY <1>1, TypesAsk, TypesLook, TypesLooked, TypesStoreSegment, TypesLogged, TypesBeginRecord,
     TypesAppending DEF Step
<1>2. CASE Tick
  BY <1>2 DEF Tick, Typed, input, calllog, counters, RecordsAssumption
<1>3. CASE Kill
  BY <1>3, TypesKill
<1>4. CASE UNCHANGED vars
  BY <1>4 DEF Typed, vars, input, calllog, counters
<1>5. QED
  BY <1>1, <1>2, <1>3, <1>4 DEF Next, Rest

LEMMA TypesBegin ==
    Init => Typed
<1> SUFFICES ASSUME Init PROVE Typed
  OBVIOUS
<1>1. segments = << >> /\ DOMAIN segments = {}
  BY DEF Init
<1>2. segments \in [DOMAIN segments -> Files]
  BY <1>1
<1>3. acked \in Seq(Nat)
  BY EmptySeq DEF Init
<1>4. QED
  BY <1>2, <1>3 DEF Init, Typed, Tasks

-----------------------------------------------------------------------------
(* Hits.                                                                      *)

LEMMA EarnedKept ==
    ASSUME NEW sent, NEW later, NEW t, NEW u, NEW x, Earned(sent, t, x), sent \subseteq later,
           u.by = t.by, u.since = t.since
    PROVE  Earned(later, u, x)
BY DEF Earned

\* The files that are whole were so before.
FilesKept == \A k \in DOMAIN segments' : segments'[k].state = "whole" =>
                 k \in DOMAIN segments /\ segments[k].state = "whole" /\ segments'[k].at = segments[k].at

\* A step that at most ends early tasks.
LEMMA HitsSame ==
    ASSUME HitsKept, FilesKept, UNCHANGED <<stored, requests>>,
           \A v \in Workers : task'[v].at \in {"look", "store"} => task'[v] = task[v]
    PROVE  HitsKept'
<1>1. \A k \in DOMAIN segments' : segments'[k].state = "whole" =>
          \E s \in stored' : s.key = k /\ s.at = segments'[k].at
  BY DEF HitsKept, FilesKept
<1>2. \A s \in stored' : s.by <= requests'
  BY DEF HitsKept
<1>3. \A v \in Workers : Early(v)' => Early(v) /\ task'[v] = task[v]
  BY DEF Early
<1>4. \A v \in Workers : At(v, "look")' => At(v, "look") /\ task'[v] = task[v]
  BY DEF At
<1>5. \A v \in Workers : Early(v)' => task'[v].by <= requests'
  BY <1>3 DEF HitsKept
<1>6. \A v, w \in Workers : Early(v)' /\ Early(w)' /\ v # w => task'[v].by # task'[w].by
  BY <1>3 DEF HitsKept
<1>7. \A v \in Workers : At(v, "look")' => \A s \in stored' : s.by # task'[v].by
  BY <1>4 DEF HitsKept
<1>8. \A v \in Workers : Early(v)' => \A x \in task'[v].seen : Earned(stored', task'[v], x)
  BY <1>3 DEF HitsKept
<1>9. QED
  BY <1>1, <1>2, <1>5, <1>6, <1>7, <1>8 DEF HitsKept

\* A step of an early task w that goes on with its number and its time.
GoesOn(w) ==
    /\ task'[w].by = task[w].by /\ task'[w].since = task[w].since /\ Early(w)
    /\ (task'[w].at = "look" => task[w].at = "look")
    /\ \A v \in Workers \ {w} : task'[v] = task[v]

LEMMA HitsGoOn ==
    ASSUME HitsKept, NEW w \in Workers, GoesOn(w), stored \subseteq stored', UNCHANGED requests,
           \A k \in DOMAIN segments' : segments'[k].state = "whole" =>
               \E s \in stored' : s.key = k /\ s.at = segments'[k].at,
           \A s \in stored' : s \in stored \/ (s.by = task[w].by /\ task[w].at = "store"),
           \A x \in task'[w].seen : x \in task[w].seen \/ Earned(stored', task'[w], x)
    PROVE  HitsKept'
<1>1. task[w].by <= requests
  BY DEF GoesOn, HitsKept
<1>2. \A s \in stored' : s.by <= requests'
  BY <1>1 DEF HitsKept
<1>3. \A v \in Workers : Early(v)' => Early(v) /\ task'[v].by = task[v].by
  BY DEF Early, GoesOn
<1>4. \A v \in Workers : Early(v)' => task'[v].by <= requests'
  BY <1>3 DEF HitsKept
<1>5. \A u, v \in Workers : Early(u)' /\ Early(v)' /\ u # v => task'[u].by # task'[v].by
  BY <1>3 DEF HitsKept
<1>6. ASSUME NEW v \in Workers, At(v, "look")', NEW s \in stored'
      PROVE  s.by # task'[v].by
  <2>1. Early(v)' /\ task'[v].by = task[v].by /\ Early(v)
    BY <1>3, <1>6 DEF At, Early
  <2>2. At(v, "look")
    BY <1>6 DEF GoesOn, At
  <2>3. CASE s \in stored
    BY <2>1, <2>2, <2>3 DEF HitsKept
  <2>4. CASE s.by = task[w].by /\ task[w].at = "store"
    <3>1. v # w
      BY <2>2, <2>4 DEF At
    <3>2. task[v].by # task[w].by
      BY <2>1, <3>1 DEF HitsKept, GoesOn
    <3>3. QED
      BY <2>1, <2>4, <3>2
  <2>5. QED
    BY <2>3, <2>4
<1>7. ASSUME NEW v \in Workers, Early(v)', NEW x \in task'[v].seen
      PROVE  Earned(stored', task'[v], x)
  <2>1. Early(v)
    BY <1>3, <1>7
  <2>2. CASE v # w
    <3>1. task'[v] = task[v]
      BY <2>2 DEF GoesOn
    <3>2. Earned(stored, task[v], x)
      BY <1>7, <2>1, <3>1 DEF HitsKept
    <3>3. QED
      BY <3>1, <3>2, EarnedKept
  <2>3. CASE v = w
    <3>1. x \in task[w].seen => Earned(stored, task[w], x)
      BY <2>1, <2>3 DEF HitsKept
    <3>2. task'[w].by = task[w].by /\ task'[w].since = task[w].since
      BY DEF GoesOn
    <3>3. x \in task[w].seen => Earned(stored', task'[w], x)
      BY <3>1, <3>2, EarnedKept
    <3>4. QED
      BY <1>7, <2>3, <3>3
  <2>4. QED
    BY <2>2, <2>3
<1>8. \A v \in Workers : At(v, "look")' => \A s \in stored' : s.by # task'[v].by
  BY <1>6
<1>9. \A v \in Workers : Early(v)' => \A x \in task'[v].seen : Earned(stored', task'[v], x)
  BY <1>7
<1>10. QED
  BY <1>2, <1>4, <1>5, <1>8, <1>9 DEF HitsKept

LEMMA HitsAsk ==
    ASSUME Typed, HitsKept, NEW w \in Workers, Ask(w)
    PROVE  HitsKept'
<1>1. \E r \in mix.asked : \E raw \in RawCounts(r) :
         LET ss == IF raw = 0 THEN << >> ELSE extract_segments(r)
         IN  task' = [task EXCEPT ![w] =
                 [at |-> "look", by |-> requests', since |-> now, all |-> ss, todo |-> ss,
                  raw |-> raw, seen |-> {}]]
  BY DEF Ask
<1>2. /\ task'[w].by = requests' /\ task'[w].seen = {}
      /\ \A v \in Workers \ {w} : task'[v] = task[v]
  BY <1>1 DEF Typed
<1>3. segments' = segments /\ stored' = stored /\ requests' = requests + 1 /\ requests \in Nat
  BY DEF Ask, input, Typed
<1>4. \A s \in stored : s.by \in Nat
  BY DEF Typed, Sent
<1>5. \A s \in stored' : s.by <= requests /\ s.by <= requests' /\ s.by # requests'
  <2> TAKE s \in stored'
  <2>1. s.by \in Nat /\ s.by <= requests
    BY <1>3, <1>4 DEF HitsKept
  <2>2. QED
    BY <1>3, <2>1
<1>6. ASSUME NEW v \in Workers, Early(v)'
      PROVE  task'[v].by <= requests'
  <2>1. CASE v = w
    BY <1>2, <1>3, <2>1
  <2>2. CASE v # w
    <3>1. task'[v] = task[v] /\ Early(v)
      BY <1>2, <1>6, <2>2 DEF Early
    <3>2. task[v].by <= requests /\ task[v].by \in Nat
      BY <3>1, TaskIs DEF HitsKept, Early, At, Lookups, Storings
    <3>3. QED
      BY <1>3, <3>1, <3>2
  <2>3. QED
    BY <2>1, <2>2
<1>7. ASSUME NEW v \in Workers, Early(v)', v # w
      PROVE  task'[v] = task[v] /\ Early(v) /\ task'[v].by # requests'
  <2>1. task'[v] = task[v] /\ Early(v)
    BY <1>2, <1>7 DEF Early
  <2>2. task[v].by <= requests /\ task[v].by \in Nat
    BY <2>1, TaskIs DEF HitsKept, Early, At, Lookups, Storings
  <2>3. QED
    BY <1>3, <2>1, <2>2
<1>8. \A u, v \in Workers : Early(u)' /\ Early(v)' /\ u # v => task'[u].by # task'[v].by
  <2> TAKE u, v \in Workers
  <2>1. CASE u = w /\ v # w
    BY <1>2, <1>7, <2>1
  <2>2. CASE u # w /\ v = w
    BY <1>2, <1>7, <2>2
  <2>3. CASE u # w /\ v # w
    BY <1>7, <2>3 DEF HitsKept
  <2>4. QED
    BY <2>1, <2>2, <2>3
<1>9. \A v \in Workers : At(v, "look")' => \A s \in stored' : s.by # task'[v].by
  <2> TAKE v \in Workers
  <2>1. CASE v = w
    BY <1>2, <1>5, <2>1
  <2>2. CASE v # w
    BY <1>2, <1>3, <2>2 DEF HitsKept, At
  <2>3. QED
    BY <2>1, <2>2
<1>10. \A v \in Workers : Early(v)' => \A x \in task'[v].seen : Earned(stored', task'[v], x)
  <2> TAKE v \in Workers
  <2>1. CASE v = w
    BY <1>2, <2>1
  <2>2. CASE v # w
    BY <1>3, <1>7, <2>2 DEF HitsKept
  <2>3. QED
    BY <2>1, <2>2
<1>11. \A k \in DOMAIN segments' : segments'[k].state = "whole" =>
          \E s \in stored' : s.key = k /\ s.at = segments'[k].at
  BY <1>3 DEF HitsKept
<1>12. \A v \in Workers : Early(v)' => task'[v].by <= requests'
  BY <1>6
<1>13. \A s \in stored' : s.by <= requests'
  BY <1>5
<1>14. QED
  BY <1>8, <1>9, <1>10, <1>11, <1>12, <1>13 DEF HitsKept

LEMMA HitsLook ==
    ASSUME Typed, HitsKept, NEW w \in Workers, Look(w)
    PROVE  HitsKept'
<1>1. PICK s \in Seg : \E hit \in {segment_is_fresh(s, task[w].since), FALSE} :
              /\ s = Head(task[w].todo) /\ task[w] \in Lookups
              /\ task' = [task EXCEPT ![w] =
                    [at |-> "look", by |-> task[w].by, since |-> task[w].since, all |-> task[w].all,
                     todo |-> Tail(task[w].todo), raw |-> task[w].raw,
                     seen |-> IF hit THEN task[w].seen \cup {[key |-> s.key, ttl |-> s.ttl]}
                              ELSE task[w].seen]]
  BY LookIs
<1>2. UNCHANGED <<segments, stored, requests>>
  BY DEF Look, input, counters
<1>3. task[w].at = "look" /\ task[w].since \in Nat /\ s.ttl \in Nat /\ task \in [Workers -> Tasks]
  BY <1>1 DEF Lookups, Seg, Typed
<1>4. GoesOn(w) /\ task'[w].by = task[w].by /\ task'[w].since = task[w].since
  BY <1>1, <1>3 DEF GoesOn, Early
<1>5. PICK y : y = [key |-> s.key, ttl |-> s.ttl]
  OBVIOUS
<1>6. \/ task'[w].seen = task[w].seen
      \/ task'[w].seen = task[w].seen \cup {y} /\ segment_is_fresh(s, task[w].since)
  <2>1. PICK hit \in {segment_is_fresh(s, task[w].since), FALSE} :
              task' = [task EXCEPT ![w] =
                    [at |-> "look", by |-> task[w].by, since |-> task[w].since, all |-> task[w].all,
                     todo |-> Tail(task[w].todo), raw |-> task[w].raw,
                     seen |-> IF hit THEN task[w].seen \cup {[key |-> s.key, ttl |-> s.ttl]}
                              ELSE task[w].seen]]
    BY <1>1
  <2>2. task'[w].seen = IF hit THEN task[w].seen \cup {y} ELSE task[w].seen
    BY <1>3, <1>5, <2>1
  <2>3. hit => segment_is_fresh(s, task[w].since)
    BY <2>1
  <2>4. CASE hit
    <3>1. task'[w].seen = task[w].seen \cup {y}
      BY <2>2, <2>4
    <3>2. segment_is_fresh(s, task[w].since)
      BY <2>3, <2>4
    <3>3. QED
      BY <3>1, <3>2
  <2>5. CASE ~hit
    <3>1. task'[w].seen = task[w].seen
      BY <2>2, <2>5
    <3>2. QED
      BY <3>1
  <2>6. QED
    BY <2>4, <2>5
<1>7. ASSUME segment_is_fresh(s, task[w].since)
      PROVE  Earned(stored', task'[w], y)
  <2>1. /\ s.key \in DOMAIN segments /\ segments[s.key].state = "whole"
        /\ AtLeast(0, task[w].since - segments[s.key].at) < AtMost(segments[s.key].ttl, s.ttl)
    BY <1>7 DEF segment_is_fresh
  <2>2. segments[s.key].at \in Nat /\ segments[s.key].ttl \in Nat
    <3>1. segments[s.key] \in Files
      BY <2>1 DEF Typed
    <3>2. QED
      BY <3>1 DEF Files
  <2>3. PICK at, ttl : at = segments[s.key].at /\ ttl = segments[s.key].ttl
    OBVIOUS
  <2>4. task[w].since - at < s.ttl
    BY <1>3, <2>1, <2>2, <2>3 DEF AtLeast, AtMost
  <2>5. PICK x \in stored : x.key = s.key /\ x.at = at
    BY <2>1, <2>3 DEF HitsKept
  <2>6. x.by # task[w].by
    BY <1>3 DEF HitsKept, At
  <2>7. y.key = s.key /\ y.ttl = s.ttl
    BY <1>5
  <2>8. QED
    BY <1>2, <1>4, <2>4, <2>5, <2>6, <2>7 DEF Earned
<1>8. \A x \in task'[w].seen : x \in task[w].seen \/ Earned(stored', task'[w], x)
  BY <1>6, <1>7
<1>9. \A k \in DOMAIN segments' : segments'[k].state = "whole" =>
          \E x \in stored' : x.key = k /\ x.at = segments'[k].at
  BY <1>2 DEF HitsKept
<1>10. /\ stored \subseteq stored'
        /\ \A x \in stored' : x \in stored \/ (x.by = task[w].by /\ task[w].at = "store")
  <2>1. stored' = stored
    BY <1>2
  <2>2. QED
    BY <2>1
<1>11. QED
  BY <1>2, <1>4, <1>8, <1>9, <1>10, HitsGoOn

LEMMA HitsLooked ==
    ASSUME Typed, HitsKept, NEW w \in Workers, Looked(w)
    PROVE  HitsKept'
<1>1. UNCHANGED <<segments, stored, requests>>
  BY DEF Looked, input, counters
<1>2. task[w].at = "look" /\ task \in [Workers -> Tasks]
  BY DEF Looked, At, Typed
<1>3. /\ task'[w].by = task[w].by /\ task'[w].since = task[w].since /\ task'[w].seen = task[w].seen
      /\ task'[w].at = "store" /\ \A v \in Workers \ {w} : task'[v] = task[v]
  BY <1>2 DEF Looked
<1>4. GoesOn(w)
  BY <1>2, <1>3 DEF GoesOn, Early
<1>5. \A x \in task'[w].seen : x \in task[w].seen \/ Earned(stored', task'[w], x)
  BY <1>3
<1>6. \A k \in DOMAIN segments' : segments'[k].state = "whole" =>
          \E x \in stored' : x.key = k /\ x.at = segments'[k].at
  BY <1>1 DEF HitsKept
<1>7. /\ stored \subseteq stored'
        /\ \A x \in stored' : x \in stored \/ (x.by = task[w].by /\ task[w].at = "store")
  <2>1. stored' = stored
    BY <1>1
  <2>2. QED
    BY <2>1
<1>8. QED
  BY <1>1, <1>4, <1>5, <1>6, <1>7, HitsGoOn

LEMMA HitsStoreSegment ==
    ASSUME Typed, HitsKept, NEW w \in Workers, StoreSegment(w)
    PROVE  HitsKept'
<1>1. /\ task[w] \in Storings
      /\ task' = [task EXCEPT ![w] =
             [at |-> "store", by |-> task[w].by, since |-> task[w].since,
              todo |-> Tail(task[w].todo), seen |-> task[w].seen, report |-> task[w].report]]
  BY StoringIs
<1>2. PICK s : s = Head(task[w].todo)
  OBVIOUS
<1>3. \/ /\ StoresFile(w, s, "whole") /\ UNCHANGED counters
         /\ stored' = stored \cup {[key |-> s.key, at |-> task[w].since, by |-> task[w].by]}
      \/ Fault /\ StoresFile(w, s, "torn") /\ UNCHANGED stored
  BY <1>2, StoreCases
<1>4. task[w].at = "store" /\ task \in [Workers -> Tasks]
  BY <1>1 DEF Storings, Typed
<1>5. /\ task'[w].by = task[w].by /\ task'[w].since = task[w].since /\ task'[w].seen = task[w].seen
      /\ task'[w].at = "store" /\ \A v \in Workers \ {w} : task'[v] = task[v]
  BY <1>1, <1>4
<1>6. GoesOn(w)
  BY <1>4, <1>5 DEF GoesOn, Early
<1>7. requests' = requests
  BY <1>3 DEF counters, Fault
<1>8. stored \subseteq stored' /\ \A x \in stored' : x \in stored \/ (x.by = task[w].by /\ task[w].at = "store")
  BY <1>3, <1>4
<1>9. ASSUME NEW k \in DOMAIN segments', segments'[k].state = "whole"
      PROVE  \E x \in stored' : x.key = k /\ x.at = segments'[k].at
  <2>1. CASE k # s.key
    <3>1. k \in DOMAIN segments /\ segments'[k] = segments[k]
      BY <1>3, <1>9, <2>1 DEF StoresFile
    <3>2. QED
      BY <1>8, <1>9, <3>1 DEF HitsKept
  <2>2. CASE k = s.key /\ StoresFile(w, s, "whole")
           /\ stored' = stored \cup {[key |-> s.key, at |-> task[w].since, by |-> task[w].by]}
    <3>1. segments'[k].at = task[w].since
      BY <2>2 DEF StoresFile
    <3>2. PICK x : x = [key |-> s.key, at |-> task[w].since, by |-> task[w].by]
      OBVIOUS
    <3>3. x \in stored' /\ x.key = k /\ x.at = task[w].since
      BY <2>2, <3>2
    <3>4. QED
      BY <3>1, <3>3
  <2>3. CASE k = s.key /\ StoresFile(w, s, "torn")
    <3>1. segments'[k].state = "torn"
      BY <2>3 DEF StoresFile
    <3>2. QED
      BY <1>9, <3>1
  <2>4. QED
    BY <1>3, <2>1, <2>2, <2>3
<1>10. \A x \in task'[w].seen : x \in task[w].seen \/ Earned(stored', task'[w], x)
  BY <1>5
<1>11. \A k \in DOMAIN segments' : segments'[k].state = "whole" =>
          \E x \in stored' : x.key = k /\ x.at = segments'[k].at
  BY <1>9
<1>12. QED
  BY <1>6, <1>7, <1>8, <1>10, <1>11, HitsGoOn

LEMMA ToLogIs ==
    ASSUME task \in [Workers -> Tasks], NEW w \in Workers, NEW how, NEW said, NEW told,
           ToLog(w, how, said, told)
    PROVE  /\ task'[w].at = "log" /\ task'[w].how = how /\ task'[w].n = 0
           /\ task'[w] = [at |-> "log", how |-> how, report |-> task[w].report, said |-> said,
                          told |-> told, n |-> 0,
                          numbers |-> compute_input_cache_accounting(task[w].report, told)]
           /\ \A v \in Workers \ {w} : task'[v] = task[v]
<1>1. PICK t : t = [at |-> "log", how |-> how, report |-> task[w].report, said |-> said,
                    told |-> told, n |-> 0,
                    numbers |-> compute_input_cache_accounting(task[w].report, told)]
  OBVIOUS
<1>2. task' = [task EXCEPT ![w] = t]
  BY <1>1 DEF ToLog
<1>3. QED
  BY <1>1, <1>2

\* The log and the answers leave the segments alone.
LEMMA HitsLogging ==
    ASSUME Typed, HitsKept, LogKept, NEW w \in Workers,
           \/ Answer(w) \/ Replay(w) \/ Fail(w) \/ Leave(w)
           \/ BeginRecord(w) \/ WriteRest(w) \/ EndLine(w) \/ MakeRoom(w)
    PROVE  HitsKept'
<1>1. UNCHANGED <<segments, stored>>
  BY DEF Answer, Replay, Fail, Leave, BeginRecord, WriteRest, EndLine, MakeRoom, input
<1>2. requests' = requests
  BY DEF Answer, Replay, Fail, Leave, BeginRecord, WriteRest, EndLine, MakeRoom, counters, Fault
<1>3. task \in [Workers -> Tasks]
  BY DEF Typed
<1>4. task'[w].at \in {"log", "idle"} /\ \A v \in Workers \ {w} : task'[v] = task[v]
  <2>1. CASE Answer(w) \/ Replay(w) \/ Fail(w) \/ Leave(w)
    <3>1. Finish(w) \/ \E how, said, told : ToLog(w, how, said, told)
      BY <2>1 DEF Answer, Replay, Fail, Leave
    <3>2. CASE Finish(w)
      BY <1>3, <3>2 DEF Finish, Idle
    <3>3. ASSUME NEW how, NEW said, NEW told, ToLog(w, how, said, told)
          PROVE  task'[w].at \in {"log", "idle"} /\ \A v \in Workers \ {w} : task'[v] = task[v]
      BY <1>3, <3>3, ToLogIs
    <3>4. QED
      BY <3>1, <3>2, <3>3
  <2>2. CASE BeginRecord(w)
    BY <1>3, <2>2 DEF BeginRecord, Finish, Idle
  <2>3. CASE WriteRest(w) \/ EndLine(w) \/ MakeRoom(w)
    <3>1. task[w] \in Appends
      BY <2>3, WriterIs DEF WriteRest, EndLine, MakeRoom
    <3>2. \/ Finish(w) \/ task' = [task EXCEPT ![w].step = "end"]
          \/ task' = [task EXCEPT ![w].step = "room"]
      BY <2>3 DEF WriteRest, EndLine, MakeRoom
    <3>3. \/ Finish(w)
          \/ task' = [task EXCEPT ![w] = [at |-> "log", n |-> task[w].n, step |-> "end"]]
          \/ task' = [task EXCEPT ![w] = [at |-> "log", n |-> task[w].n, step |-> "room"]]
      BY <3>1, <3>2, StepTypes
    <3>4. QED
      BY <1>3, <3>3 DEF Finish, Idle
  <2>4. QED
    BY <2>1, <2>2, <2>3
<1>5. FilesKept
  BY <1>1 DEF FilesKept
<1>6. \A v \in Workers : task'[v].at \in {"look", "store"} => task'[v] = task[v]
  BY <1>4
<1>7. QED
  BY <1>1, <1>2, <1>5, <1>6, HitsSame

LEMMA HitsAlways ==
    ASSUME Typed, HitsKept, LogKept, [Next]_vars
    PROVE  HitsKept'
<1>1. ASSUME NEW w \in Workers, Step(w)
      PROVE  HitsKept'
  BY <1>1, HitsAsk, HitsLook, HitsLooked, HitsStoreSegment, HitsLogging DEF Step
<1>2. CASE Tick \/ UNCHANGED vars
  <2>1. UNCHANGED <<segments, stored, requests, task>>
    BY <1>2 DEF Tick, vars, input, counters
  <2>2. FilesKept
    BY <2>1 DEF FilesKept
  <2>3. QED
    BY <2>1, <2>2, HitsSame
<1>3. CASE Kill
  <2>1. UNCHANGED <<stored, requests>> /\ task' = [v \in Workers |-> Idle]
    BY <1>3 DEF Kill
  <2>2. \A v \in Workers : task'[v].at = "idle"
    BY <2>1 DEF Idle
  <2>3. FilesKept
    <3>1. segments \in [DOMAIN segments -> Files]
      BY DEF Typed
    <3>2. Tears
      BY <1>3, KillTears
    <3>3. CASE segments' = segments
      BY <3>3 DEF FilesKept
    <3>4. ASSUME NEW k \in DOMAIN segments, segments' = [segments EXCEPT ![k].state = "torn"]
          PROVE  FilesKept
      <4>1. DOMAIN segments' = DOMAIN segments /\ \A j \in DOMAIN segments \ {k} : segments'[j] = segments[j]
        BY <3>1, <3>4
      <4>2. segments'[k].state = "torn"
        <5>1. segments'[k] = [segments[k] EXCEPT !.state = "torn"]
          BY <3>1, <3>4
        <5>2. segments[k] \in Files
          BY <3>1
        <5>3. QED
          BY <5>1, <5>2 DEF Files
      <4>3. QED
        BY <4>1, <4>2 DEF FilesKept
    <3>5. QED
      BY <3>2, <3>3, <3>4 DEF Tears
  <2>4. QED
    BY <2>1, <2>2, <2>3, HitsSame
<1>4. QED
  BY <1>1, <1>2, <1>3 DEF Next, Rest

-----------------------------------------------------------------------------
(* What the client is told, and what is logged.                               *)

\* A step of w that leaves no new answer.
LEMMA UsageSame ==
    ASSUME UsageKept, NEW w \in Workers, \A v \in Workers \ {w} : task'[v] = task[v],
           \/ task'[w] = task[w] \/ task'[w].at # "log"
           \/ task'[w].n # 0 \/ task'[w].how # "success"
    PROVE  UsageKept'
<1> SUFFICES ASSUME NEW v \in Workers, (At(v, "log") /\ task[v].n = 0 /\ task[v].how = "success")'
             PROVE  Agree(task'[v].report, task'[v].said, task'[v].told, task'[v].numbers)
  BY DEF UsageKept
<1>1. task'[v].at = "log" /\ task'[v].n = 0 /\ task'[v].how = "success"
  BY DEF At
<1>2. task'[v] = task[v]
  BY <1>1
<1>3. At(v, "log") /\ task[v].n = 0 /\ task[v].how = "success"
  BY <1>1, <1>2 DEF At
<1>4. Agree(task[v].report, task[v].said, task[v].told, task[v].numbers)
  BY <1>3 DEF UsageKept
<1>5. QED
  BY <1>2, <1>4

LEMMA UsageAnswer ==
    ASSUME Typed, UsageKept, NEW w \in Workers, Answer(w)
    PROVE  UsageKept'
<1>1. task \in [Workers -> Tasks] /\ task[w].report \in Report
  BY TaskIs DEF Typed, Answer, Stored, Storings
<1>2. CASE ToLog(w, "empty", 0, NoUsage)
  <2>1. task'[w].how = "empty" /\ \A v \in Workers \ {w} : task'[v] = task[v]
    BY <1>1, <1>2, ToLogIs
  <2>2. task'[w].how # "success"
    BY <2>1
  <2>3. QED
    BY <2>1, <2>2, UsageSame
<1>3. ASSUME NEW u \in Usages, ToLog(w, "success", InputOf(u), Adjusted(task[w].report, u))
      PROVE  UsageKept'
  <2>1. PICK report : report = task[w].report
    OBVIOUS
  <2>2. PICK told : told = Adjusted(report, u)
    OBVIOUS
  <2>3. PICK said : said = InputOf(u)
    OBVIOUS
  <2>4. PICK numbers : numbers = compute_input_cache_accounting(report, told)
    OBVIOUS
  <2>5. Agree(report, said, told, numbers)
    <3>1. report \in Report /\ u \in Usage
      BY <1>1, <2>1, UsagesAre
    <3>2. Agree(report, InputOf(u), Adjusted(report, u),
                compute_input_cache_accounting(report, Adjusted(report, u)))
      BY <3>1, AdjustedAgrees
    <3>3. QED
      BY <2>2, <2>3, <2>4, <3>2
  <2>6. ToLog(w, "success", said, told)
    BY <1>3, <2>1, <2>2, <2>3
  <2>7. /\ task'[w] = [at |-> "log", how |-> "success", report |-> report, said |-> said,
                       told |-> told, n |-> 0, numbers |-> numbers]
        /\ \A v \in Workers \ {w} : task'[v] = task[v]
    BY <1>1, <2>1, <2>4, <2>6, ToLogIs
  <2> SUFFICES ASSUME NEW v \in Workers, (At(v, "log") /\ task[v].n = 0 /\ task[v].how = "success")'
               PROVE  Agree(task'[v].report, task'[v].said, task'[v].told, task'[v].numbers)
    BY DEF UsageKept
  <2>8. CASE v = w
    <3>1. /\ task'[v].report = report /\ task'[v].said = said /\ task'[v].told = told
          /\ task'[v].numbers = numbers
      BY <2>7, <2>8
    <3>2. QED
      BY <2>5, <3>1
  <2>9. CASE v # w
    <3>1. task'[v] = task[v]
      BY <2>7, <2>9
    <3>2. At(v, "log") /\ task[v].n = 0 /\ task[v].how = "success"
      BY <3>1 DEF At
    <3>3. Agree(task[v].report, task[v].said, task[v].told, task[v].numbers)
      BY <3>2 DEF UsageKept
    <3>4. QED
      BY <3>1, <3>3
  <2>10. QED
    BY <2>8, <2>9
<1>4. QED
  BY <1>2, <1>3 DEF Answer

\* Where each of the other steps leaves its worker.
LEMMA UsageOthers ==
    ASSUME Typed, UsageKept, LogKept, NEW w \in Workers, Step(w), ~Answer(w)
    PROVE  UsageKept'
<1>1. task \in [Workers -> Tasks]
  BY DEF Typed
<1>2. CASE Ask(w)
  <2>1. \E r \in mix.asked : \E raw \in RawCounts(r) :
           LET ss == IF raw = 0 THEN << >> ELSE extract_segments(r)
           IN  task' = [task EXCEPT ![w] =
                   [at |-> "look", by |-> requests', since |-> now, all |-> ss, todo |-> ss,
                    raw |-> raw, seen |-> {}]]
    BY <1>2 DEF Ask
  <2>2. task'[w].at # "log" /\ \A v \in Workers \ {w} : task'[v] = task[v]
    BY <1>1, <2>1
  <2>3. QED
    BY <2>2, UsageSame
<1>3. CASE Look(w)
  <2>1. task'[w].at = "look" /\ \A v \in Workers \ {w} : task'[v] = task[v]
    BY <1>1, <1>3, LookIs
  <2>2. QED
    BY <2>1, UsageSame
<1>4. CASE Looked(w)
  <2>1. task'[w].at = "store" /\ \A v \in Workers \ {w} : task'[v] = task[v]
    BY <1>1, <1>4 DEF Looked
  <2>2. QED
    BY <2>1, UsageSame
<1>5. CASE StoreSegment(w)
  <2>1. task'[w].at = "store" /\ \A v \in Workers \ {w} : task'[v] = task[v]
    BY <1>1, <1>5, StoringIs
  <2>2. QED
    BY <2>1, UsageSame
<1>6. CASE Replay(w)
  <2>1. PICK said, told : ToLog(w, "hit", said, told)
    BY <1>6 DEF Replay
  <2>2. task'[w].how = "hit" /\ \A v \in Workers \ {w} : task'[v] = task[v]
    BY <1>1, <2>1, ToLogIs
  <2>3. QED
    BY <2>2, UsageSame
<1>7. CASE Fail(w)
  <2>1. task'[w].how = "error" /\ \A v \in Workers \ {w} : task'[v] = task[v]
    BY <1>1, <1>7, ToLogIs DEF Fail
  <2>2. QED
    BY <2>1, UsageSame
<1>8. ASSUME Finish(w)
      PROVE  UsageKept'
  <2>1. task'[w].at = "idle" /\ \A v \in Workers \ {w} : task'[v] = task[v]
    BY <1>1, <1>8 DEF Finish, Idle
  <2>2. QED
    BY <2>1, UsageSame
<1>9. CASE Leave(w)
  BY <1>8, <1>9 DEF Leave
<1>10. CASE BeginRecord(w)
  <2>1. Finish(w) \/ task' = [task EXCEPT ![w] = [at |-> "log", n |-> written + 1, step |-> "rest"]]
    BY <1>10 DEF BeginRecord
  <2>2. CASE task' = [task EXCEPT ![w] = [at |-> "log", n |-> written + 1, step |-> "rest"]]
    <3>1. task'[w].n = written + 1 /\ \A v \in Workers \ {w} : task'[v] = task[v]
      BY <1>1, <2>2
    <3>2. task'[w].n # 0
      BY <3>1 DEF Typed
    <3>3. QED
      BY <3>1, <3>2, UsageSame
  <2>3. QED
    BY <1>8, <2>1, <2>2
<1>11. CASE WriteRest(w) \/ EndLine(w) \/ MakeRoom(w)
  <2>1. task[w] \in Appends
    BY <1>11, WriterIs DEF WriteRest, EndLine, MakeRoom
  <2>2. \/ Finish(w) \/ task' = [task EXCEPT ![w].step = "end"]
        \/ task' = [task EXCEPT ![w].step = "room"]
    BY <1>11 DEF WriteRest, EndLine, MakeRoom
  <2>3. ASSUME NEW step \in {"rest", "end", "room"}, task' = [task EXCEPT ![w].step = step]
        PROVE  UsageKept'
    <3>1. task' = [task EXCEPT ![w] = [at |-> "log", n |-> task[w].n, step |-> step]]
      BY <2>1, <2>3, StepTypes
    <3>2. task'[w].n = task[w].n /\ \A v \in Workers \ {w} : task'[v] = task[v]
      BY <1>1, <3>1
    <3>3. task'[w].n # 0
      BY <2>1, <3>2 DEF Appends
    <3>4. QED
      BY <3>2, <3>3, UsageSame
  <2>4. QED
    BY <1>8, <2>2, <2>3
<1>12. QED
  BY <1>2, <1>3, <1>4, <1>5, <1>6, <1>7, <1>9, <1>10, <1>11 DEF Step

LEMMA UsageAlways ==
    ASSUME Typed, UsageKept, LogKept, [Next]_vars
    PROVE  UsageKept'
<1>1. ASSUME NEW w \in Workers, Step(w)
      PROVE  UsageKept'
  BY <1>1, UsageAnswer, UsageOthers
<1>2. CASE Tick \/ UNCHANGED vars
  <2>1. UNCHANGED task
    BY <1>2 DEF Tick, vars
  <2>2. QED
    BY <2>1 DEF UsageKept, At
<1>3. CASE Kill
  <2>1. \A v \in Workers : task'[v].at = "idle"
    BY <1>3 DEF Kill, Idle
  <2>2. QED
    BY <2>1 DEF UsageKept, At
<1>4. QED
  BY <1>1, <1>2, <1>3 DEF Next, Rest

-----------------------------------------------------------------------------
(* The lines of the log, in order.                                            *)

LEMMA LinesAre ==
    ASSUME NEW k, NEW lines \in Seq(Lines(k))
    PROVE  /\ lines \in Seq(Line) /\ Len(lines) \in Nat /\ DOMAIN lines = 1 .. Len(lines)
           /\ \A i \in 1 .. Len(lines) : lines[i] \in Lines(k) /\ lines[i] \in Line
<1>1. Lines(k) \subseteq Line
  BY DEF Lines
<1>2. lines \in Seq(Line)
  BY <1>1, SeqMonotonic
<1>3. \A i \in 1 .. Len(lines) : lines[i] \in Lines(k)
  BY ElementOfSeq
<1>4. QED
  BY <1>1, <1>2, <1>3, LenProperties

LEMMA LinesGrow ==
    ASSUME NEW k \in Nat, NEW m \in Nat, k <= m
    PROVE  /\ Lines(k) \subseteq Lines(m)
           /\ \A lines : lines \in Seq(Lines(k)) => lines \in Seq(Lines(m))
<1>1. 1 .. k \subseteq 1 .. m
  OBVIOUS
<1>2. Lines(k) \subseteq Lines(m)
  BY <1>1 DEF Lines
<1>3. QED
  BY <1>2, SeqMonotonic

LEMMA LineIs ==
    ASSUME NEW k, NEW line \in Lines(k)
    PROVE  /\ line.pieces \in Seq(Piece) /\ Len(line.pieces) \in Nat /\ Len(line.pieces) >= 1
           /\ line.ended \in BOOLEAN /\ Number(line) \in 1 .. k
           /\ line = [pieces |-> line.pieces, ended |-> line.ended]
           /\ \A j \in 1 .. Len(line.pieces) : line.pieces[j] \in Piece /\ line.pieces[j].n \in 1 .. k
<1>1. line.pieces \in Seq(Piece) /\ line.ended \in BOOLEAN
      /\ line = [pieces |-> line.pieces, ended |-> line.ended]
  BY DEF Lines, Line
<1>2. Len(line.pieces) \in Nat
  BY <1>1, LenProperties
<1>3. \A j \in 1 .. Len(line.pieces) : line.pieces[j] \in Piece
  BY <1>1, ElementOfSeq
<1>4. Len(line.pieces) >= 1 /\ \A j \in 1 .. Len(line.pieces) : line.pieces[j].n \in 1 .. k
  BY DEF Lines
<1>5. 1 \in 1 .. Len(line.pieces)
  BY <1>2, <1>4
<1>6. Number(line) \in 1 .. k
  BY <1>4, <1>5 DEF Number
<1>7. QED
  BY <1>1, <1>2, <1>3, <1>4, <1>6

LEMMA SettledIs ==
    ASSUME NEW k, NEW lines \in Seq(Lines(k))
    PROVE  /\ Settled(lines) \in Seq(Lines(k))
           /\ Open(lines) =>
                 /\ Len(Settled(lines)) = Len(lines) - 1
                 /\ \A i \in 1 .. Len(lines) - 1 : Settled(lines)[i] = lines[i]
           /\ ~Open(lines) => Settled(lines) = lines
<1>1. Len(lines) \in Nat /\ \A i \in 1 .. Len(lines) : lines[i] \in Lines(k)
  BY LinesAre
<1>2. CASE ~Open(lines)
  BY <1>2 DEF Settled
<1>3. CASE Open(lines)
  <2>1. PICK n : n = Len(lines) - 1
    OBVIOUS
  <2>2. n \in Nat /\ n \in Int /\ 1 \in Int /\ \A i \in 1 .. n : i \in 1 .. Len(lines)
    BY <1>1, <1>3, <2>1 DEF Open
  <2>3. \A i \in 1 .. n : lines[i] \in Lines(k)
    BY <1>1, <2>2
  <2>4. PICK s : s = SubSeq(lines, 1, n)
    OBVIOUS
  <2>5. /\ s \in Seq(Lines(k)) /\ Len(s) = IF 1 <= n THEN n - 1 + 1 ELSE 0
        /\ \A i \in 1 .. n - 1 + 1 : s[i] = lines[1 + i - 1]
    BY <2>2, <2>3, <2>4, SubSeqProperties
  <2>6. Len(s) = n
    BY <2>2, <2>5
  <2>7. \A i \in 1 .. n : s[i] = lines[i]
    <3> TAKE i \in 1 .. n
    <3>1. i \in 1 .. n - 1 + 1 /\ 1 + i - 1 = i
      BY <2>2
    <3>2. QED
      BY <2>5, <3>1
  <2>8. Settled(lines) = s
    BY <1>3, <2>1, <2>4 DEF Settled
  <2>9. QED
    BY <1>3, <2>1, <2>5, <2>6, <2>7, <2>8
<1>4. QED
  BY <1>2, <1>3

\* Two logs without their open lines are the same when they agree before them.
LEMMA SettledSame ==
    ASSUME NEW k, NEW m, NEW lines \in Seq(Lines(k)), NEW new \in Seq(Lines(m)), Open(lines), Open(new),
           Len(lines) = Len(new), \A i \in 1 .. Len(lines) - 1 : lines[i] = new[i]
    PROVE  Settled(new) = Settled(lines)
<1>1. PICK a, b : a = Settled(lines) /\ b = Settled(new)
  OBVIOUS
<1>2. a \in Seq(Lines(k)) /\ b \in Seq(Lines(m)) /\ Len(a) = Len(lines) - 1 /\ Len(b) = Len(lines) - 1
  BY <1>1, SettledIs
<1>3. a \in Seq(Line) /\ b \in Seq(Line)
  BY <1>2, LinesAre
<1>4. \A i \in 1 .. Len(lines) - 1 : a[i] = lines[i] /\ b[i] = new[i]
  BY <1>1, SettledIs
<1>5. \A i \in 1 .. Len(a) : a[i] = b[i]
  BY <1>2, <1>4
<1>6. a = b
  BY <1>2, <1>3, <1>5, SeqEqual
<1>7. QED
  BY <1>1, <1>6

LEMMA ReadWithin ==
    ASSUME NEW k, NEW lines \in Seq(Lines(k))
    PROVE  /\ read_records(lines) \in Seq(Lines(k)) /\ Len(read_records(lines)) \in Nat
           /\ \A i \in 1 .. Len(read_records(lines)) :
                 /\ IsRecord(read_records(lines)[i]) /\ read_records(lines)[i] \in Lines(k)
                 /\ Number(read_records(lines)[i]) \in 1 .. k
<1>1. lines \in Seq(Line) /\ Len(lines) \in Nat /\ \A i \in 1 .. Len(lines) : lines[i] \in Lines(k)
  BY LinesAre
<1>2. PICK s : s = Legible(lines)
  OBVIOUS
<1>3. /\ s \in Seq(Line) /\ Len(s) <= Len(lines) /\ Len(s) \in Nat
      /\ \A i \in 1 .. Len(s) : s[i] = lines[i]
  BY <1>1, <1>2, LegibleTypes, LenProperties
<1>4. \A i \in 1 .. Len(s) : s[i] \in Lines(k)
  BY <1>1, <1>3
<1>5. s \in Seq(Lines(k))
  <2>1. s \in [1 .. Len(s) -> Line]
    BY <1>3, LenProperties
  <2>2. s \in [1 .. Len(s) -> Lines(k)]
    BY <1>4, <2>1
  <2>3. QED
    BY <1>3, <2>2, SeqDef
<1>6. PICK rs : rs = read_records(lines)
  OBVIOUS
<1>7. rs = Only(s, Records)
  BY <1>1, <1>2, <1>6, ReadIs
<1>8. rs \in Seq(Lines(k) \cap Records)
  BY <1>5, <1>7, OnlyTypes
<1>9. Lines(k) \cap Records \subseteq Lines(k)
  OBVIOUS
<1>10. rs \in Seq(Lines(k)) /\ Len(rs) \in Nat
  BY <1>8, <1>9, SeqMonotonic, LenProperties
<1>11. \A i \in 1 .. Len(rs) : rs[i] \in Lines(k) \cap Records
  BY <1>8, ElementOfSeq
<1>12. \A i \in 1 .. Len(rs) : IsRecord(rs[i]) /\ rs[i] \in Lines(k) /\ Number(rs[i]) \in 1 .. k
  BY <1>11, LineIs DEF Records
<1>13. QED
  BY <1>6, <1>10, <1>12

\* The log without its open line is what it was, when the open line becomes another.
LastBecomes(lines, l, new) == new = [lines EXCEPT ![Len(lines)] = l]

LEMMA OpenLine ==
    ASSUME NEW k \in Nat, NEW n \in Nat, k <= n, NEW lines, Tidy(lines, k), Open(lines),
           NEW l \in Lines(n), ~l.ended, Number(l) = Number(lines[Len(lines)]),
           NEW new, LastBecomes(lines, l, new)
    PROVE  /\ Tidy(new, n) /\ Open(new) /\ Len(new) = Len(lines) /\ new[Len(new)] = l
           /\ Settled(new) = Settled(lines)
<1>1. lines \in Seq(Lines(k)) /\ lines \in Seq(Lines(n))
  BY LinesGrow DEF Tidy
<1>2. Len(lines) \in Nat /\ Len(lines) >= 1 /\ \A i \in 1 .. Len(lines) : lines[i] \in Lines(n)
  BY <1>1, LinesAre DEF Open
<1>3. new \in Seq(Lines(n)) /\ Len(new) = Len(lines)
  BY <1>1, <1>2, ExceptSeq DEF LastBecomes
<1>4. new[Len(lines)] = l /\ \A i \in 1 .. Len(lines) - 1 : new[i] = lines[i]
  <2>1. DOMAIN lines = 1 .. Len(lines)
    BY <1>1, LinesAre
  <2>2. QED
    BY <1>2, <2>1 DEF LastBecomes
<1>5. Open(new)
  BY <1>2, <1>3, <1>4 DEF Open
<1>6. Settled(new) = Settled(lines)
  BY <1>1, <1>3, <1>4, <1>5, SettledSame
<1>7. \A i \in 1 .. Len(new) - 1 : new[i].ended
  BY <1>3, <1>4 DEF Tidy
<1>8. Tidy(new, n)
  <2>1. Number(new[Len(new)]) = Number(lines[Len(lines)])
    BY <1>3, <1>4
  <2>2. QED
    BY <1>3, <1>6, <1>7, <2>1 DEF Tidy
<1>9. QED
  BY <1>3, <1>4, <1>5, <1>6, <1>8

LEMMA PutIs ==
    ASSUME NEW k \in Nat, NEW line \in Lines(k), NEW piece \in Piece, piece.n = k + 1
    PROVE  /\ Put(line, piece) \in Lines(k + 1) /\ Put(line, piece).ended = line.ended
           /\ Number(Put(line, piece)) = Number(line)
<1>1. PICK p : p = Append(line.pieces, piece)
  OBVIOUS
<1>2. PICK m : m = Put(line, piece)
  OBVIOUS
<1>3. m = [pieces |-> p, ended |-> line.ended]
  <2>1. line = [pieces |-> line.pieces, ended |-> line.ended]
    BY LineIs
  <2>2. m = [f \in {"pieces", "ended"} |-> m[f]]
    BY <1>2, <2>1 DEF Put
  <2>3. m.pieces = p /\ m.ended = line.ended
    BY <1>1, <1>2, <2>1 DEF Put
  <2>4. QED
    BY <2>2, <2>3
<1>4. /\ line.pieces \in Seq(Piece) /\ Len(line.pieces) \in Nat /\ Len(line.pieces) >= 1
      /\ line.ended \in BOOLEAN
      /\ \A j \in 1 .. Len(line.pieces) : line.pieces[j].n \in 1 .. k
  BY LineIs
<1>5. /\ p \in Seq(Piece) /\ Len(p) = Len(line.pieces) + 1
      /\ \A j \in 1 .. Len(line.pieces) : p[j] = line.pieces[j]
      /\ p[Len(line.pieces) + 1] = piece
  BY <1>1, <1>4, AppendProperties
<1>6. \A j \in 1 .. Len(p) : p[j].n \in 1 .. k + 1
  <2> TAKE j \in 1 .. Len(p)
  <2>1. CASE j = Len(line.pieces) + 1
    BY <1>5, <2>1
  <2>2. CASE j # Len(line.pieces) + 1
    <3>1. j \in 1 .. Len(line.pieces)
      BY <1>4, <1>5, <2>2
    <3>2. p[j].n \in 1 .. k
      BY <1>4, <1>5, <3>1
    <3>3. QED
      BY <3>2
  <2>3. QED
    BY <2>1, <2>2
<1>7. m \in Line
  BY <1>3, <1>4, <1>5 DEF Line
<1>8. m.pieces = p /\ m.ended = line.ended /\ Len(p) >= 1
  BY <1>3, <1>4, <1>5
<1>9. m \in Lines(k + 1)
  BY <1>6, <1>7, <1>8 DEF Lines
<1>10. p[1] = line.pieces[1]
  BY <1>4, <1>5
<1>11. Number(m) = Number(line)
  BY <1>8, <1>10 DEF Number
<1>12. QED
  BY <1>2, <1>8, <1>9, <1>11

\* A record is begun.
Begun(lines, piece) ==
    IF Open(lines) THEN [lines EXCEPT ![Len(lines)] = Put(@, piece)]
    ELSE Append(lines, [pieces |-> << piece >>, ended |-> FALSE])

LEMMA BegunIs ==
    ASSUME NEW k \in Nat, NEW lines, Tidy(lines, k), NEW piece \in Piece, piece.n = k + 1
    PROVE  /\ Tidy(Begun(lines, piece), k + 1) /\ Open(Begun(lines, piece))
           /\ Settled(Begun(lines, piece)) = Settled(lines) /\ Settled(lines) \in Seq(Lines(k))
           /\ ~Open(lines) =>
                 Begun(lines, piece)[Len(Begun(lines, piece))].pieces = << piece >>
<1>1. lines \in Seq(Lines(k)) /\ lines \in Seq(Lines(k + 1)) /\ Settled(lines) \in Seq(Lines(k))
  BY LinesGrow, SettledIs DEF Tidy
<1>2. Len(lines) \in Nat /\ \A i \in 1 .. Len(lines) : lines[i] \in Lines(k)
  BY <1>1, LinesAre
<1>3. PICK new : new = Begun(lines, piece)
  OBVIOUS
<1>4. CASE Open(lines)
  <2>1. PICK l : l = lines[Len(lines)]
    OBVIOUS
  <2>2. l \in Lines(k) /\ ~l.ended
    BY <1>2, <1>4, <2>1 DEF Open
  <2>3. PICK m : m = Put(l, piece)
    OBVIOUS
  <2>4. m \in Lines(k + 1) /\ ~m.ended /\ Number(m) = Number(l)
    BY <2>2, <2>3, PutIs
  <2>5. new = [lines EXCEPT ![Len(lines)] = m]
    BY <1>3, <1>4, <2>1, <2>3 DEF Begun
  <2>6. k + 1 \in Nat /\ k <= k + 1 /\ Number(m) = Number(lines[Len(lines)])
    BY <2>1, <2>4
  <2>7. Tidy(new, k + 1) /\ Open(new) /\ Settled(new) = Settled(lines)
    <3>1. PICK n \in Nat : n = k + 1
      BY <2>6
    <3>2. k <= n /\ m \in Lines(n)
      BY <2>4, <2>6, <3>1
    <3>3. LastBecomes(lines, m, new)
      BY <2>5 DEF LastBecomes
    <3>4. Tidy(new, n) /\ Open(new) /\ Settled(new) = Settled(lines)
      BY <1>4, <2>4, <2>6, <3>2, <3>3, OpenLine
    <3>5. QED
      BY <3>1, <3>4
  <2>8. QED
    BY <1>1, <1>3, <1>4, <2>7
<1>5. CASE ~Open(lines)
  <2>1. PICK l : l = [pieces |-> << piece >>, ended |-> FALSE]
    OBVIOUS
  <2>2. l \in Lines(k + 1) /\ ~l.ended /\ Number(l) = k + 1 /\ l.pieces = << piece >>
    <3>1. << piece >> \in Seq(Piece) /\ Len(<< piece >>) = 1 /\ << piece >>[1] = piece
      OBVIOUS
    <3>2. l \in Line
      BY <2>1, <3>1 DEF Line
    <3>3. l.pieces = << piece >> /\ l.ended = FALSE
      BY <2>1
    <3>4. \A j \in 1 .. 1 : l.pieces[j].n \in 1 .. k + 1
      BY <3>1, <3>3
    <3>5. l \in Lines(k + 1)
      <4>1. Len(l.pieces) = 1
        BY <3>1, <3>3
      <4>2. Len(l.pieces) >= 1 /\ \A j \in 1 .. Len(l.pieces) : l.pieces[j].n \in 1 .. k + 1
        BY <3>4, <4>1
      <4>3. QED
        BY <3>2, <4>2 DEF Lines
    <3>6. QED
      BY <3>1, <3>3, <3>5 DEF Number
  <2>3. new = Append(lines, l)
    BY <1>3, <1>5, <2>1 DEF Begun
  <2>4. /\ new \in Seq(Lines(k + 1)) /\ Len(new) = Len(lines) + 1 /\ new[Len(lines) + 1] = l
        /\ \A i \in 1 .. Len(lines) : new[i] = lines[i]
    BY <1>1, <2>2, <2>3, AppendProperties
  <2>5. Open(new)
    BY <1>2, <2>2, <2>4 DEF Open
  <2>6. Settled(new) = lines
    <3>1. PICK b : b = Settled(new)
      OBVIOUS
    <3>2. b \in Seq(Lines(k + 1)) /\ Len(b) = Len(lines) /\ \A i \in 1 .. Len(lines) : b[i] = new[i]
      <4>1. /\ b \in Seq(Lines(k + 1)) /\ Len(b) = Len(new) - 1
            /\ \A i \in 1 .. Len(new) - 1 : b[i] = new[i]
        BY <2>4, <2>5, <3>1, SettledIs
      <4>2. Len(new) - 1 = Len(lines)
        BY <1>2, <2>4
      <4>3. QED
        BY <4>1, <4>2
    <3>3. \A i \in 1 .. Len(lines) : b[i] = lines[i]
      BY <2>4, <3>2
    <3>4. b \in Seq(Line) /\ lines \in Seq(Line)
      BY <1>1, <3>2, LinesAre
    <3>5. b = lines
      BY <3>2, <3>3, <3>4, SeqEqual
    <3>6. QED
      BY <3>1, <3>5
  <2>7. Settled(lines) = lines
    BY <1>5 DEF Settled
  <2>8. \A i \in 1 .. Len(new) - 1 : new[i].ended
    <3> TAKE i \in 1 .. Len(new) - 1
    <3>1. i \in 1 .. Len(lines) /\ new[i] = lines[i]
      BY <1>2, <2>4
    <3>2. CASE i = Len(lines)
      BY <1>2, <1>5, <3>1, <3>2 DEF Open
    <3>3. CASE i # Len(lines)
      <4>1. i \in 1 .. Len(lines) - 1
        BY <1>2, <3>1, <3>3
      <4>2. QED
        BY <3>1, <4>1 DEF Tidy
    <3>4. QED
      BY <3>2, <3>3
  <2>9. Below(read_records(lines), k + 1)
    <3>1. \A i \in 1 .. Len(read_records(lines)) : Number(read_records(lines)[i]) \in 1 .. k
      BY <1>1, ReadWithin
    <3>2. QED
      BY <3>1 DEF Below
  <2>10. new[Len(new)] = l
    BY <2>4
  <2>11. Tidy(new, k + 1)
    BY <2>2, <2>4, <2>6, <2>7, <2>8, <2>9, <2>10 DEF Tidy
  <2>12. new[Len(new)].pieces = << piece >>
    BY <2>2, <2>10
  <2>13. QED
    BY <1>1, <1>3, <2>5, <2>6, <2>7, <2>11, <2>12
<1>6. QED
  BY <1>4, <1>5

\* The pieces of record n become whole, or stay as they are.
Turned(line, state, n) ==
    [line EXCEPT !.pieces =
        [j \in DOMAIN @ |-> IF @[j].n = n THEN [@[j] EXCEPT !.state = state] ELSE @[j]]]
Became(lines, state, n) == [i \in DOMAIN lines |-> Turned(lines[i], state, n)]

LEMMA BecomeIs ==
    ASSUME NEW state, NEW n
    PROVE  Become(state, n) = Became(log, state, n)
BY DEF Become, Became, Turned

TurnsInto(line, m, k, state, n) ==
    /\ m \in Lines(k) /\ m.ended = line.ended /\ Number(m) = Number(line)
    /\ line \in Lines(n - 1) => m = line
    /\ \A other : line.pieces = << [n |-> n, state |-> other] >> =>
          m.pieces = << [n |-> n, state |-> state] >>

LEMMA TurnedIs ==
    ASSUME NEW k \in Nat, NEW line \in Lines(k), NEW state \in {"half", "whole", "cut"}, NEW n \in Nat
    PROVE  TurnsInto(line, Turned(line, state, n), k, state, n)
<1>1. PICK q : q = line.pieces
  OBVIOUS
<1>2. /\ q \in Seq(Piece) /\ Len(q) \in Nat /\ Len(q) >= 1 /\ DOMAIN q = 1 .. Len(q)
      /\ line.ended \in BOOLEAN /\ line = [pieces |-> q, ended |-> line.ended]
      /\ \A j \in 1 .. Len(q) : q[j] \in Piece /\ q[j].n \in 1 .. k
  BY <1>1, LineIs, LenProperties
<1>3. PICK p : p = [j \in DOMAIN q |-> IF q[j].n = n THEN [q[j] EXCEPT !.state = state] ELSE q[j]]
  OBVIOUS
<1>4. ASSUME NEW j \in 1 .. Len(q)
      PROVE  p[j] \in Piece /\ p[j].n = q[j].n /\ (q[j].n # n => p[j] = q[j])
             /\ (q[j].n = n => p[j].state = state)
  <2>1. p[j] = IF q[j].n = n THEN [q[j] EXCEPT !.state = state] ELSE q[j]
    BY <1>2, <1>3
  <2>2. q[j] \in Piece
    BY <1>2
  <2>3. QED
    BY <2>1, <2>2 DEF Piece
<1>5. p \in Seq(Piece) /\ Len(p) = Len(q)
  <2>1. p \in [1 .. Len(q) -> Piece]
    BY <1>2, <1>3, <1>4
  <2>2. QED
    BY <1>2, <2>1, ListOf
<1>6. PICK m : m = Turned(line, state, n)
  OBVIOUS
<1>7. m = [pieces |-> p, ended |-> line.ended]
  <2>1. m = [f \in {"pieces", "ended"} |-> m[f]]
    BY <1>2, <1>6 DEF Turned
  <2>2. m.pieces = p /\ m.ended = line.ended
    BY <1>1, <1>2, <1>3, <1>6 DEF Turned
  <2>3. QED
    BY <2>1, <2>2
<1>8. m.pieces = p /\ m.ended = line.ended /\ m \in Line
  BY <1>2, <1>5, <1>7 DEF Line
<1>9. m \in Lines(k)
  <2>1. Len(m.pieces) >= 1 /\ \A j \in 1 .. Len(m.pieces) : m.pieces[j].n \in 1 .. k
    BY <1>2, <1>4, <1>5, <1>8
  <2>2. QED
    BY <1>8, <2>1 DEF Lines
<1>10. 1 \in 1 .. Len(q)
  BY <1>2
<1>11. Number(m) = Number(line)
  BY <1>1, <1>4, <1>8, <1>10 DEF Number
<1>12. ASSUME line \in Lines(n - 1)
       PROVE  m = line
  <2>1. \A j \in 1 .. Len(q) : q[j].n \in 1 .. n - 1
    BY <1>1, <1>12 DEF Lines
  <2>2. \A j \in 1 .. Len(q) : q[j].n # n
    BY <2>1
  <2>3. \A j \in 1 .. Len(q) : p[j] = q[j]
    BY <1>4, <2>2
  <2>4. p = q
    BY <1>2, <1>5, <2>3, SeqEqual
  <2>5. QED
    BY <1>2, <1>7, <2>4
<1>13. ASSUME NEW other, line.pieces = << [n |-> n, state |-> other] >>
       PROVE  m.pieces = << [n |-> n, state |-> state] >>
  <2>1. Len(q) = 1 /\ q[1].n = n
    BY <1>1, <1>13
  <2>2. p[1] \in Piece /\ p[1].n = n /\ p[1].state = state
    BY <1>4, <1>10, <2>1
  <2>3. p[1] = [n |-> n, state |-> state]
    BY <2>2 DEF Piece
  <2>4. p = << [n |-> n, state |-> state] >>
    BY <1>5, <2>1, <2>3
  <2>5. QED
    BY <1>8, <2>4
<1>14. TurnsInto(line, m, k, state, n)
  BY <1>8, <1>9, <1>11, <1>12, <1>13 DEF TurnsInto
<1>15. QED
  BY <1>6, <1>14

LEMMA BecameIs ==
    ASSUME NEW k \in Nat, NEW lines, Tidy(lines, k), Open(lines), Settled(lines) \in Seq(Lines(k - 1)),
           NEW state \in {"half", "whole", "cut"}
    PROVE  /\ Tidy(Became(lines, state, k), k) /\ Open(Became(lines, state, k))
           /\ Settled(Became(lines, state, k)) = Settled(lines)
           /\ \A other : Alone(lines, k, other) => Alone(Became(lines, state, k), k, state)
<1>1. lines \in Seq(Lines(k))
  BY DEF Tidy
<1>2. /\ Len(lines) \in Nat /\ Len(lines) >= 1 /\ DOMAIN lines = 1 .. Len(lines)
      /\ \A i \in 1 .. Len(lines) : lines[i] \in Lines(k)
  BY <1>1, LinesAre DEF Open
<1>3. PICK l : l = Turned(lines[Len(lines)], state, k)
  OBVIOUS
<1>4. PICK new : new = Became(lines, state, k)
  OBVIOUS
<1>5. /\ l \in Lines(k) /\ l.ended = lines[Len(lines)].ended
      /\ Number(l) = Number(lines[Len(lines)])
  <2>1. lines[Len(lines)] \in Lines(k)
    BY <1>2
  <2>2. TurnsInto(lines[Len(lines)], l, k, state, k)
    BY <1>3, <2>1, TurnedIs
  <2>3. QED
    BY <2>2 DEF TurnsInto
<1>6. ~l.ended
  BY <1>5 DEF Open
<1>7. \A i \in 1 .. Len(lines) - 1 : Turned(lines[i], state, k) = lines[i]
  <2> TAKE i \in 1 .. Len(lines) - 1
  <2>1. PICK s : s = Settled(lines)
    OBVIOUS
  <2>2. s[i] = lines[i] /\ Len(s) = Len(lines) - 1
    BY <1>1, <2>1, SettledIs
  <2>3. s[i] \in Lines(k - 1)
    BY <2>1, <2>2, ElementOfSeq
  <2>4. i \in 1 .. Len(lines)
    BY <1>2
  <2>5. lines[i] \in Lines(k) /\ lines[i] \in Lines(k - 1)
    BY <1>2, <2>2, <2>3, <2>4
  <2>6. TurnsInto(lines[i], Turned(lines[i], state, k), k, state, k)
    BY <2>5, TurnedIs
  <2>7. QED
    BY <2>5, <2>6 DEF TurnsInto
<1>8. LastBecomes(lines, l, new)
  <2>1. new = [i \in 1 .. Len(lines) |-> Turned(lines[i], state, k)]
    BY <1>2, <1>4 DEF Became
  <2>2. \A i \in 1 .. Len(lines) :
           Turned(lines[i], state, k) = IF i = Len(lines) THEN l ELSE lines[i]
    <3> TAKE i \in 1 .. Len(lines)
    <3>1. PICK n \in Nat : n = Len(lines)
      BY <1>2
    <3>2. i \in 1 .. n /\ (i # n => i \in 1 .. n - 1)
      BY <3>1
    <3>3. QED
      BY <1>3, <1>7, <3>1, <3>2
  <2>3. new = [i \in 1 .. Len(lines) |-> IF i = Len(lines) THEN l ELSE lines[i]]
    BY <2>1, <2>2
  <2>4. lines \in [1 .. Len(lines) -> Lines(k)]
    BY <1>1, LenProperties
  <2>5. QED
    BY <1>2, <2>3, <2>4 DEF LastBecomes
<1>9. k <= k
  OBVIOUS
<1>10. /\ Tidy(new, k) /\ Open(new) /\ Len(new) = Len(lines) /\ new[Len(new)] = l
       /\ Settled(new) = Settled(lines)
  BY <1>5, <1>6, <1>8, <1>9, OpenLine
<1>11. ASSUME NEW other, Alone(lines, k, other)
       PROVE  Alone(new, k, state)
  <2>1. lines[Len(lines)].pieces = << [n |-> k, state |-> other] >> /\ ~HasCut(Settled(lines))
    BY <1>11 DEF Alone
  <2>2. lines[Len(lines)] \in Lines(k)
    BY <1>2
  <2>3. l.pieces = << [n |-> k, state |-> state] >>
    <3>1. TurnsInto(lines[Len(lines)], l, k, state, k)
      BY <1>3, <2>2, TurnedIs
    <3>2. QED
      BY <2>1, <3>1 DEF TurnsInto
  <2>4. QED
    BY <1>10, <2>1, <2>3 DEF Alone
<1>12. QED
  BY <1>4, <1>10, <1>11

\* t is rs with l behind it, and still in order.
Longer(rs, l, t) ==
    /\ Ascending(t) /\ Len(t) = Len(rs) + 1 /\ t[Len(t)] = l
    /\ \A a \in Nat : Keeps(rs, a) => Keeps(t, a)

LEMMA AscendAppend ==
    ASSUME NEW k, NEW rs \in Seq(Lines(k)), NEW l \in Lines(k), Ascending(rs), Below(rs, Number(l))
    PROVE  Longer(rs, l, Append(rs, l))
<1>0. PICK t : t = Append(rs, l)
  OBVIOUS
<1>1. /\ t \in Seq(Lines(k)) /\ Len(t) = Len(rs) + 1 /\ t[Len(rs) + 1] = l
      /\ \A i \in 1 .. Len(rs) : t[i] = rs[i]
  BY <1>0, AppendProperties
<1>2. PICK n \in Nat : n = Len(rs)
  BY LenProperties
<1>3. /\ \A i \in 1 .. n : Number(t[i]) = Number(rs[i]) /\ Number(rs[i]) \in Int
      /\ Number(t[n + 1]) = Number(l) /\ Number(l) \in Int
      /\ \A i \in 1 .. n : Number(rs[i]) < Number(l)
  <2>1. \A i \in 1 .. n : rs[i] \in Lines(k)
    BY <1>2, ElementOfSeq
  <2>2. \A i \in 1 .. n : Number(rs[i]) \in Int
    BY <2>1, LineIs
  <2>3. Number(l) \in Int
    BY LineIs
  <2>4. QED
    BY <1>1, <1>2, <2>2, <2>3 DEF Below
<1>4. Ascending(t)
  <2> SUFFICES ASSUME NEW i \in 1 .. n + 1, NEW j \in 1 .. n + 1, i < j
               PROVE  Number(t[i]) < Number(t[j])
    BY <1>1, <1>2 DEF Ascending
  <2>1. i \in 1 .. n
    OBVIOUS
  <2>2. CASE j = n + 1
    BY <1>3, <2>1, <2>2
  <2>3. CASE j # n + 1
    <3>1. j \in 1 .. n
      BY <2>3
    <3>2. Number(rs[i]) < Number(rs[j])
      BY <1>2, <2>1, <3>1 DEF Ascending
    <3>3. QED
      BY <1>3, <2>1, <3>1, <3>2
  <2>4. QED
    BY <2>2, <2>3
<1>5. ASSUME NEW a \in Nat, Keeps(rs, a)
      PROVE  Keeps(t, a)
  <2>1. CASE \E i \in 1 .. Len(rs) : Number(rs[i]) = a
    <3>1. PICK i \in 1 .. n : Number(rs[i]) = a
      BY <1>2, <2>1
    <3>2. i \in 1 .. Len(t) /\ Number(t[i]) = a
      BY <1>1, <1>2, <1>3, <3>1
    <3>3. QED
      BY <3>2 DEF Keeps
  <2>2. CASE Len(rs) >= MaxRecords /\ a < Number(rs[Len(rs) + 1 - MaxRecords])
    <3>1. MaxRecords \in Nat \ {0}
      BY RecordsAssumption
    <3>2. PICK i : i = n + 1 - MaxRecords
      OBVIOUS
    <3>3. i \in 1 .. n /\ i + 1 \in 1 .. n + 1 /\ Len(t) >= MaxRecords /\ Len(t) + 1 - MaxRecords = i + 1
      BY <1>1, <1>2, <2>2, <3>1, <3>2
    <3>4. a < Number(rs[i])
      BY <1>2, <2>2, <3>2
    <3>5. a < Number(t[i + 1])
      <4>1. CASE i = n
        BY <1>3, <3>3, <3>4, <4>1
      <4>2. CASE i # n
        <5>1. i + 1 \in 1 .. n
          BY <3>3, <4>2
        <5>2. i < i + 1
          BY <3>3
        <5>3. Number(rs[i]) < Number(rs[i + 1])
          BY <1>2, <3>3, <5>1, <5>2 DEF Ascending
        <5>4. QED
          BY <1>3, <3>3, <3>4, <5>1, <5>3
      <4>3. QED
        BY <4>1, <4>2
    <3>6. QED
      BY <3>3, <3>5 DEF Keeps
  <2>3. QED
    BY <1>5, <2>1, <2>2 DEF Keeps
<1>6. t[Len(t)] = l
  BY <1>1
<1>7. Longer(rs, l, t)
  BY <1>1, <1>4, <1>5, <1>6 DEF Longer
<1>8. QED
  BY <1>0, <1>7

\* The line is ended, and the record on it is read if it is alone there.
Ended(lines) == [lines EXCEPT ![Len(lines)].ended = TRUE]

LEMMA EndedIs ==
    ASSUME NEW k \in Nat, NEW lines, Tidy(lines, k), Open(lines)
    PROVE  /\ Tidy(Ended(lines), k) /\ ~Open(Ended(lines))
           /\ Alone(lines, k, "whole") => LastIs(read_records(Ended(lines)), k)
           /\ \A a \in Nat : Keeps(read_records(Settled(lines)), a) => Keeps(read_records(Ended(lines)), a)
<1>1. lines \in Seq(Lines(k))
  BY DEF Tidy
<1>2. /\ Len(lines) \in Nat /\ Len(lines) >= 1 /\ DOMAIN lines = 1 .. Len(lines)
      /\ \A i \in 1 .. Len(lines) : lines[i] \in Lines(k)
  BY <1>1, LinesAre DEF Open
<1>3. PICK n \in Nat : n + 1 = Len(lines)
  <2>1. Len(lines) - 1 \in Nat /\ (Len(lines) - 1) + 1 = Len(lines)
    BY <1>2
  <2>2. QED
    BY <2>1
<1>4. PICK line : line = lines[Len(lines)]
  OBVIOUS
<1>5. line \in Lines(k)
  BY <1>2, <1>4
<1>6. PICK l : l = [pieces |-> line.pieces, ended |-> TRUE]
  OBVIOUS
<1>7. l \in Lines(k) /\ l.ended /\ l.pieces = line.pieces /\ Number(l) = Number(line)
  <2>1. l.ended = TRUE /\ l.pieces = line.pieces
    BY <1>6
  <2>2. /\ line.pieces \in Seq(Piece) /\ Len(line.pieces) >= 1
        /\ \A j \in 1 .. Len(line.pieces) : line.pieces[j].n \in 1 .. k
    BY <1>5, LineIs
  <2>3. l \in Line
    BY <1>6, <2>2 DEF Line
  <2>4. l \in Lines(k)
    BY <2>1, <2>2, <2>3 DEF Lines
  <2>5. QED
    BY <2>1, <2>4 DEF Number
<1>8. l = [line EXCEPT !.ended = TRUE]
  <2>1. PICK m : m = [line EXCEPT !.ended = TRUE]
    OBVIOUS
  <2>2. line = [pieces |-> line.pieces, ended |-> line.ended]
    BY <1>5, LineIs
  <2>3. m = [f \in {"pieces", "ended"} |-> m[f]]
    BY <2>1, <2>2
  <2>4. m.pieces = line.pieces /\ m.ended = TRUE
    BY <2>1, <2>2
  <2>5. QED
    BY <1>6, <2>1, <2>3, <2>4
<1>9. PICK new : new = Ended(lines)
  OBVIOUS
<1>10. new = [lines EXCEPT ![Len(lines)] = l]
  BY <1>4, <1>8, <1>9 DEF Ended
<1>11. new \in Seq(Lines(k)) /\ Len(new) = Len(lines)
  BY <1>1, <1>2, <1>7, <1>10, ExceptSeq
<1>12. new[n + 1] = l /\ \A i \in 1 .. n : new[i] = lines[i]
  <2>1. n + 1 \in 1 .. n + 1 /\ \A i \in 1 .. n : i \in 1 .. n + 1 /\ i # n + 1
    OBVIOUS
  <2>2. QED
    BY <1>2, <1>3, <1>10, <2>1
<1>13. PICK before : before = Settled(lines)
  OBVIOUS
<1>14. before \in Seq(Lines(k)) /\ Len(before) = n /\ \A i \in 1 .. n : before[i] = lines[i]
  <2>1. /\ before \in Seq(Lines(k)) /\ Len(before) = Len(lines) - 1
        /\ \A i \in 1 .. Len(lines) - 1 : before[i] = lines[i]
    BY <1>1, <1>13, SettledIs
  <2>2. Len(lines) - 1 = n
    BY <1>3
  <2>3. QED
    BY <2>1, <2>2
<1>15. new = Append(before, l)
  <2>1. PICK t : t = Append(before, l)
    OBVIOUS
  <2>2. /\ t \in Seq(Lines(k)) /\ Len(t) = n + 1 /\ t[n + 1] = l
        /\ \A i \in 1 .. n : t[i] = before[i]
    BY <1>7, <1>14, <2>1, AppendProperties
  <2>3. \A i \in 1 .. n + 1 : t[i] = new[i]
    <3> TAKE i \in 1 .. n + 1
    <3>1. CASE i = n + 1
      BY <1>12, <2>2, <3>1
    <3>2. CASE i # n + 1
      <4>1. i \in 1 .. n
        BY <3>2
      <4>2. QED
        BY <1>12, <1>14, <2>2, <4>1
    <3>3. QED
      BY <3>1, <3>2
  <2>4. t \in Seq(Line) /\ new \in Seq(Line) /\ Len(new) = n + 1
    BY <1>3, <1>11, <2>2, LinesAre
  <2>5. t = new
    BY <2>2, <2>3, <2>4, SeqEqual
  <2>6. QED
    BY <2>1, <2>5
<1>16. PICK rs : rs = read_records(before)
  OBVIOUS
<1>17. rs \in Seq(Lines(k)) /\ Ascending(rs) /\ Below(rs, Number(l))
  <2>1. rs \in Seq(Lines(k))
    BY <1>14, <1>16, ReadWithin
  <2>2. QED
    BY <1>4, <1>7, <1>13, <1>16, <2>1 DEF Tidy
<1>18. PICK after : after = read_records(new)
  OBVIOUS
<1>19. after = IF ~HasCut(before) /\ IsRecord(l) THEN Append(rs, l) ELSE rs
  <2>1. before \in Seq(Line) /\ l \in Line
    BY <1>7, <1>14, LinesAre DEF Lines
  <2>2. QED
    BY <1>15, <1>16, <1>18, <2>1, ReadAppend
<1>20. PICK t : t = Append(rs, l)
  OBVIOUS
<1>21. /\ Ascending(t) /\ Len(t) = Len(rs) + 1 /\ t[Len(t)] = l /\ Len(rs) \in Nat
       /\ \A a \in Nat : Keeps(rs, a) => Keeps(t, a)
  <2>1. Longer(rs, l, t)
    BY <1>7, <1>17, <1>20, AscendAppend
  <2>2. Len(rs) \in Nat
    BY <1>17, LenProperties
  <2>3. QED
    BY <2>1, <2>2 DEF Longer
<1>22. Ascending(after) /\ \A a \in Nat : Keeps(rs, a) => Keeps(after, a)
  <2>1. after = t \/ after = rs
    BY <1>19, <1>20
  <2>2. QED
    BY <1>17, <1>21, <2>1
<1>23. ~Open(new)
  BY <1>3, <1>7, <1>11, <1>12 DEF Open
<1>24. Settled(new) = new
  BY <1>23 DEF Settled
<1>25. \A i \in 1 .. Len(new) - 1 : new[i].ended
  <2> TAKE i \in 1 .. Len(new) - 1
  <2>1. i \in 1 .. n /\ i \in 1 .. Len(lines) - 1
    BY <1>3, <1>11
  <2>2. lines[i].ended
    BY <2>1 DEF Tidy
  <2>3. QED
    BY <1>12, <2>1, <2>2
<1>26. Tidy(new, k)
  BY <1>11, <1>18, <1>22, <1>23, <1>24, <1>25 DEF Tidy
<1>27. ASSUME Alone(lines, k, "whole")
       PROVE  LastIs(after, k)
  <2>1. ~HasCut(before) /\ line.pieces = << [n |-> k, state |-> "whole"] >>
    BY <1>4, <1>13, <1>27 DEF Alone
  <2>2. PICK p : p = [n |-> k, state |-> "whole"]
    OBVIOUS
  <2>3. l.pieces = << p >> /\ p.n = k /\ p.state = "whole"
    BY <1>7, <2>1, <2>2
  <2>4. IsRecord(l) /\ Number(l) = k
    BY <2>3 DEF IsRecord, Number
  <2>5. after = t
    BY <1>19, <1>20, <2>1, <2>4
  <2>6. QED
    BY <1>21, <2>4, <2>5 DEF LastIs
<1>28. QED
  BY <1>9, <1>13, <1>16, <1>18, <1>22, <1>23, <1>26, <1>27

\* The last records stay.
Room(lines) ==
    IF Len(read_records(lines)) <= MaxRecords THEN lines
    ELSE [i \in 1 .. MaxRecords |->
             [LastOnes(read_records(lines), MaxRecords)[i] EXCEPT !.ended = TRUE]]

\* new is what a compaction keeps of the records rs: the last MaxRecords of them, with
\* their numbers.
KeptOf(rs, new, k) ==
    /\ new \in Seq(Lines(k)) /\ Len(new) = MaxRecords
    /\ \A i \in 1 .. MaxRecords :
          new[i].ended /\ IsRecord(new[i]) /\ Number(new[i]) = Number(rs[Len(rs) - MaxRecords + i])

LEMMA RestIs ==
    ASSUME NEW k \in Nat, NEW rs \in Seq(Lines(k)), \A i \in 1 .. Len(rs) : IsRecord(rs[i]),
           Len(rs) > MaxRecords
    PROVE  KeptOf(rs, [i \in 1 .. MaxRecords |-> [LastOnes(rs, MaxRecords)[i] EXCEPT !.ended = TRUE]], k)
<1>1. PICK M \in Nat \ {0} : M = MaxRecords
  BY RecordsAssumption
<1>2. PICK n \in Nat : n = Len(rs)
  BY LenProperties
<1>3. PICK sub : sub = LastOnes(rs, M)
  OBVIOUS
<1>4. \A i \in 1 .. M : sub[i] = rs[n - M + i] /\ n - M + i \in 1 .. n
  <2>1. n > M /\ n - M + 1 \in Nat /\ 1 <= n - M + 1
    BY <1>1, <1>2
  <2>2. AtLeast(1, n - M + 1) = n - M + 1
    BY <2>1 DEF AtLeast
  <2>3. PICK m : m = n - M + 1
    OBVIOUS
  <2>4. sub = SubSeq(rs, m, n)
    BY <1>2, <1>3, <2>2, <2>3 DEF LastOnes
  <2>5. m \in Int /\ n \in Int /\ \A i \in m .. n : i \in 1 .. Len(rs)
    BY <1>2, <2>1, <2>3
  <2>6. \A i \in m .. n : rs[i] \in Lines(k)
    BY <2>5, ElementOfSeq
  <2>7. \A i \in 1 .. n - m + 1 : SubSeq(rs, m, n)[i] = rs[m + i - 1]
    BY <2>5, <2>6, SubSeqProperties
  <2>8. n - m + 1 = M
    BY <1>1, <1>2, <2>3
  <2> TAKE i \in 1 .. M
  <2>9. m + i - 1 = n - M + i /\ n - M + i \in 1 .. n
    BY <1>1, <1>2, <2>1, <2>3
  <2>10. QED
    BY <2>4, <2>7, <2>8, <2>9
<1>5. ASSUME NEW line \in Lines(k), IsRecord(line)
      PROVE  LET l == [line EXCEPT !.ended = TRUE] IN
             /\ l \in Lines(k) /\ l.ended /\ IsRecord(l) /\ Number(l) = Number(line)
  <2>1. PICK m : m = [line EXCEPT !.ended = TRUE]
    OBVIOUS
  <2>2. line = [pieces |-> line.pieces, ended |-> line.ended]
    BY LineIs
  <2>3. m = [f \in {"pieces", "ended"} |-> m[f]]
    BY <2>1, <2>2
  <2>4. m.pieces = line.pieces /\ m.ended = TRUE
    BY <2>1, <2>2
  <2>5. m = [pieces |-> line.pieces, ended |-> TRUE]
    BY <2>3, <2>4
  <2>6. /\ line.pieces \in Seq(Piece) /\ Len(line.pieces) >= 1
        /\ \A j \in 1 .. Len(line.pieces) : line.pieces[j].n \in 1 .. k
    BY LineIs
  <2>7. m \in Line
    BY <2>5, <2>6 DEF Line
  <2>8. m \in Lines(k)
    BY <2>4, <2>6, <2>7 DEF Lines
  <2>9. IsRecord(m) /\ Number(m) = Number(line)
    BY <1>5, <2>4 DEF IsRecord, Number
  <2>10. QED
    BY <2>1, <2>4, <2>8, <2>9
<1>6. PICK new : new = [i \in 1 .. M |-> [sub[i] EXCEPT !.ended = TRUE]]
  OBVIOUS
<1>7. ASSUME NEW i \in 1 .. M
      PROVE  /\ new[i] \in Lines(k) /\ new[i].ended /\ IsRecord(new[i])
             /\ Number(new[i]) = Number(rs[n - M + i])
  <2>1. PICK line : line = rs[n - M + i]
    OBVIOUS
  <2>2. line \in Lines(k) /\ IsRecord(line) /\ sub[i] = line
    BY <1>2, <1>4, <2>1, ElementOfSeq
  <2>3. new[i] = [line EXCEPT !.ended = TRUE]
    BY <1>6, <2>2
  <2>4. QED
    BY <1>5, <2>1, <2>2, <2>3
<1>8. new \in Seq(Lines(k)) /\ Len(new) = M
  <2>1. new \in [1 .. M -> Lines(k)]
    BY <1>6, <1>7
  <2>2. QED
    BY <2>1, ListOf
<1>9. KeptOf(rs, new, k)
  BY <1>1, <1>2, <1>7, <1>8 DEF KeptOf
<1>10. QED
  BY <1>1, <1>3, <1>6, <1>9

LEMMA RestKeeps ==
    ASSUME NEW k \in Nat, NEW rs \in Seq(Lines(k)), Ascending(rs), Len(rs) > MaxRecords,
           NEW new, KeptOf(rs, new, k)
    PROVE  Ascending(new) /\ \A a \in Nat : Keeps(rs, a) => Keeps(new, a)
<1>1. PICK M \in Nat \ {0} : M = MaxRecords
  BY RecordsAssumption
<1>2. PICK n \in Nat : n = Len(rs)
  BY LenProperties
<1>3. \A i \in 1 .. M : n - M + i \in 1 .. n /\ Number(new[i]) = Number(rs[n - M + i])
  <2>1. \A i \in 1 .. M : n - M + i \in 1 .. n
    BY <1>1, <1>2
  <2>2. \A i \in 1 .. M : Number(new[i]) = Number(rs[n - M + i])
    BY <1>1, <1>2 DEF KeptOf
  <2>3. QED
    BY <2>1, <2>2
<1>4. Len(new) = M /\ \A i, j \in 1 .. n : i < j => Number(rs[i]) < Number(rs[j])
  BY <1>1, <1>2 DEF KeptOf, Ascending
<1>5. Ascending(new)
  <2> SUFFICES ASSUME NEW i \in 1 .. M, NEW j \in 1 .. M, i < j
               PROVE  Number(new[i]) < Number(new[j])
    BY <1>4 DEF Ascending
  <2>1. PICK a, b : a = n - M + i /\ b = n - M + j
    OBVIOUS
  <2>2. a \in 1 .. n /\ b \in 1 .. n /\ a < b
    BY <1>1, <1>3, <2>1
  <2>3. Number(rs[a]) < Number(rs[b])
    BY <1>4, <2>2
  <2>4. QED
    BY <1>3, <2>1, <2>3
<1>6. ASSUME NEW a \in Nat, Keeps(rs, a)
      PROVE  Keeps(new, a)
  <2>1. 1 \in 1 .. M /\ n - M + 1 \in 1 .. n /\ n > M /\ M + 1 - M = 1
    BY <1>1, <1>2, <1>3
  <2>2. Number(new[1]) = Number(rs[n - M + 1])
    BY <1>3, <2>1
  <2>3. a < Number(rs[n - M + 1]) => Keeps(new, a)
    <3>1. Len(new) >= MaxRecords /\ new[Len(new) + 1 - MaxRecords] = new[1]
      BY <1>1, <1>4, <2>1
    <3>2. QED
      BY <2>2, <3>1 DEF Keeps
  <2>4. CASE \E i \in 1 .. Len(rs) : Number(rs[i]) = a
    <3>1. PICK i \in 1 .. n : Number(rs[i]) = a
      BY <1>2, <2>4
    <3>2. CASE i < n - M + 1
      <4>1. Number(rs[i]) < Number(rs[n - M + 1])
        BY <1>4, <2>1, <3>2
      <4>2. QED
        BY <2>3, <3>1, <4>1
    <3>3. CASE ~(i < n - M + 1)
      <4>1. PICK j : j = i - (n - M)
        OBVIOUS
      <4>2. j \in 1 .. M /\ n - M + j = i
        BY <1>1, <2>1, <3>3, <4>1
      <4>3. Number(new[j]) = a /\ j \in 1 .. Len(new)
        BY <1>3, <1>4, <3>1, <4>2
      <4>4. QED
        BY <4>3 DEF Keeps
    <3>4. QED
      BY <3>2, <3>3
  <2>5. CASE Len(rs) >= MaxRecords /\ a < Number(rs[Len(rs) + 1 - MaxRecords])
    <3>1. Len(rs) + 1 - MaxRecords = n - M + 1
      BY <1>1, <1>2
    <3>2. QED
      BY <2>3, <2>5, <3>1
  <2>6. QED
    BY <1>6, <2>4, <2>5 DEF Keeps
<1>7. QED
  BY <1>5, <1>6

LEMMA LastKeeps ==
    ASSUME NEW rs, Len(rs) \in Nat, NEW k, LastIs(rs, k)
    PROVE  Keeps(rs, k)
<1>1. Len(rs) \in 1 .. Len(rs) /\ Number(rs[Len(rs)]) = k
  BY DEF LastIs
<1>2. QED
  BY <1>1 DEF Keeps

LEMMA RoomIs ==
    ASSUME NEW k \in Nat, NEW lines, Tidy(lines, k), ~Open(lines)
    PROVE  /\ Tidy(Room(lines), k) /\ ~Open(Room(lines))
           /\ \A a \in Nat : Keeps(read_records(lines), a) => Keeps(read_records(Room(lines)), a)
<1>1. lines \in Seq(Lines(k)) /\ Settled(lines) = lines
  BY DEF Tidy, Settled
<1>2. PICK rs : rs = read_records(lines)
  OBVIOUS
<1>3. /\ rs \in Seq(Lines(k)) /\ Len(rs) \in Nat /\ Ascending(rs)
      /\ \A i \in 1 .. Len(rs) : IsRecord(rs[i])
  BY <1>1, <1>2, ReadWithin DEF Tidy
<1>4. CASE Len(rs) <= MaxRecords
  <2>1. Room(lines) = lines
    BY <1>2, <1>4 DEF Room
  <2>2. QED
    BY <2>1
<1>5. CASE ~(Len(rs) <= MaxRecords)
  <2>1. MaxRecords \in Nat \ {0} /\ Len(rs) > MaxRecords
    BY <1>3, <1>5, RecordsAssumption
  <2>2. PICK new : new = Room(lines)
    OBVIOUS
  <2>3. new = [i \in 1 .. MaxRecords |-> [LastOnes(rs, MaxRecords)[i] EXCEPT !.ended = TRUE]]
    BY <1>2, <1>5, <2>2 DEF Room
  <2>4. KeptOf(rs, new, k)
    BY <1>3, <2>1, <2>3, RestIs
  <2>5. Ascending(new) /\ \A a \in Nat : Keeps(rs, a) => Keeps(new, a)
    BY <1>3, <2>1, <2>4, RestKeeps
  <2>6. /\ new \in Seq(Lines(k)) /\ Len(new) = MaxRecords
        /\ \A i \in 1 .. Len(new) : new[i].ended /\ IsRecord(new[i])
    BY <2>4 DEF KeptOf
  <2>7. read_records(new) = new
    <3>1. new \in Seq(Line)
      BY <2>6, LinesAre
    <3>2. QED
      BY <2>6, <3>1, ReadAll
  <2>8. ~Open(new)
    BY <2>1, <2>6 DEF Open
  <2>9. Settled(new) = new
    BY <2>8 DEF Settled
  <2>10. \A i \in 1 .. Len(new) - 1 : new[i].ended
    BY <2>1, <2>6
  <2>11. Tidy(new, k)
    BY <2>5, <2>6, <2>7, <2>8, <2>9, <2>10 DEF Tidy
  <2>12. QED
    BY <1>2, <2>2, <2>5, <2>7, <2>8, <2>11
<1>6. QED
  BY <1>4, <1>5

-----------------------------------------------------------------------------
(* The log, step by step.                                                     *)

LEMMA NoWriter ==
    ASSUME LogKept, held = {}, NEW w \in Workers
    PROVE  ~Writing(w)
<1>1. held # {w}
  OBVIOUS
<1>2. QED
  BY <1>1 DEF LogKept

LEMMA OneWriter ==
    ASSUME LogKept, NEW w \in Workers, held = {w}, NEW v \in Workers \ {w}
    PROVE  ~Writing(v)
<1>1. held # {v}
  OBVIOUS
<1>2. QED
  BY <1>1 DEF LogKept

\* The log is at rest, and nobody is writing.
LEMMA LogAtRest ==
    ASSUME Tidy(log', written'), \A i \in 1 .. Len(acked') : Safe(acked'[i], log', spoiled'),
           held' = {}, \A v \in Workers : ~Writing(v)'
    PROVE  LogKept'
BY DEF LogKept

\* The log is being written by w.
LEMMA LogWritten ==
    ASSUME Tidy(log', written'), \A i \in 1 .. Len(acked') : Safe(acked'[i], log', spoiled'),
           NEW w \in Workers, held' = {w}, Writing(w)', task'[w].n = written',
           Writes(task'[w].step, log', written', spoiled'),
           \A v \in Workers \ {w} : ~Writing(v)'
    PROVE  LogKept'
BY DEF LogKept

\* A step of w that writes nothing.
LEMMA LogSame ==
    ASSUME LogKept, UNCHANGED calllog, NEW w \in Workers, ~Writing(w), ~Writing(w)',
           \A v \in Workers \ {w} : task'[v] = task[v]
    PROVE  LogKept'
<1>1. UNCHANGED <<log, held, written, acked, spoiled>>
  BY DEF calllog
<1>2. \A v \in Workers : Writing(v)' => Writing(v) /\ task'[v] = task[v]
  BY DEF Writing, At
<1>3. \A v \in Workers : Writing(v) => Writing(v)' /\ task'[v] = task[v]
  BY DEF Writing, At
<1>4. Tidy(log', written') /\ \A i \in 1 .. Len(acked') : Safe(acked'[i], log', spoiled')
  BY <1>1 DEF LogKept
<1>5. \A v \in Workers : Writing(v)' =>
          held' = {v} /\ task'[v].n = written' /\ Writes(task'[v].step, log', written', spoiled')
  BY <1>1, <1>2 DEF LogKept
<1>6. held' # {} => \E v \in Workers : held' = {v} /\ Writing(v)'
  BY <1>1, <1>3 DEF LogKept
<1>7. QED
  BY <1>4, <1>5, <1>6 DEF LogKept

LEMMA LogElsewhere ==
    ASSUME Typed, LogKept, NEW w \in Workers,
           \/ Ask(w) \/ Look(w) \/ Looked(w) \/ StoreSegment(w)
           \/ Answer(w) \/ Replay(w) \/ Fail(w) \/ Leave(w)
    PROVE  LogKept'
<1>1. UNCHANGED calllog
  BY DEF Ask, Look, Looked, StoreSegment, Answer, Replay, Fail, Leave
<1>2. task \in [Workers -> Tasks] /\ task[w].at # "log"
  BY DEF Typed, Ask, Look, Looked, StoreSegment, Answer, Replay, Fail, Leave, Stored, At
<1>3. ~Writing(w)
  BY <1>2 DEF Writing, At
<1>4. (task'[w].at # "log" \/ task'[w].n = 0) /\ \A v \in Workers \ {w} : task'[v] = task[v]
  <2>1. CASE Ask(w)
    <3>1. \E r \in mix.asked : \E raw \in RawCounts(r) :
             LET ss == IF raw = 0 THEN << >> ELSE extract_segments(r)
             IN  task' = [task EXCEPT ![w] =
                     [at |-> "look", by |-> requests', since |-> now, all |-> ss, todo |-> ss,
                      raw |-> raw, seen |-> {}]]
      BY <2>1 DEF Ask
    <3>2. QED
      BY <1>2, <3>1
  <2>2. CASE Look(w)
    BY <1>2, <2>2, LookIs
  <2>3. CASE Looked(w)
    BY <1>2, <2>3 DEF Looked
  <2>4. CASE StoreSegment(w)
    BY <1>2, <2>4, StoringIs
  <2>5. CASE Answer(w) \/ Replay(w) \/ Fail(w) \/ Leave(w)
    <3>1. Finish(w) \/ \E how, said, told : ToLog(w, how, said, told)
      BY <2>5 DEF Answer, Replay, Fail, Leave
    <3>2. CASE Finish(w)
      BY <1>2, <3>2 DEF Finish, Idle
    <3>3. ASSUME NEW how, NEW said, NEW told, ToLog(w, how, said, told)
          PROVE  task'[w].n = 0 /\ \A v \in Workers \ {w} : task'[v] = task[v]
      BY <1>2, <3>3, ToLogIs
    <3>4. QED
      BY <3>1, <3>2, <3>3
  <2>6. QED
    BY <2>1, <2>2, <2>3, <2>4, <2>5
<1>5. ~Writing(w)'
  BY <1>4 DEF Writing, At
<1>6. QED
  BY <1>1, <1>3, <1>4, <1>5, LogSame

LEMMA LogFacts ==
    ASSUME Typed, LogKept
    PROVE  /\ Tidy(log, written) /\ written \in Nat /\ log \in Seq(Lines(written)) /\ Len(log) \in Nat
           /\ acked \in Seq(Nat) /\ Len(acked) \in Nat
           /\ \A i \in 1 .. Len(acked) : acked[i] \in Nat /\ Safe(acked[i], log, spoiled)
<1>1. Tidy(log, written) /\ written \in Nat /\ acked \in Seq(Nat)
  BY DEF LogKept, Typed
<1>2. log \in Seq(Lines(written))
  BY <1>1 DEF Tidy
<1>3. Len(log) \in Nat
  BY <1>2, LenProperties
<1>4. Len(acked) \in Nat /\ \A i \in 1 .. Len(acked) : acked[i] \in Nat
  BY <1>1, LenProperties, ElementOfSeq
<1>5. QED
  BY <1>1, <1>2, <1>3, <1>4 DEF LogKept

LEMMA LogBegin ==
    ASSUME Typed, LogKept, NEW w \in Workers, BeginRecord(w)
    PROVE  LogKept'
<1> DEFINE n     == written + 1
           piece == [n |-> n, state |-> "half"]
           joins == log # << >> /\ ~Last(log).ended
<1>1. /\ Tidy(log, written) /\ written \in Nat /\ log \in Seq(Lines(written)) /\ Len(log) \in Nat
      /\ acked \in Seq(Nat) /\ Len(acked) \in Nat
      /\ \A i \in 1 .. Len(acked) : acked[i] \in Nat /\ Safe(acked[i], log, spoiled)
  BY LogFacts
<1>2. held = {} /\ acked' = acked /\ task \in [Workers -> Tasks] /\ ~Writing(w)
  BY DEF BeginRecord, Typed, Writing
<1>3. \/ /\ held' = {w} /\ written' = n
         /\ log' = IF joins THEN [log EXCEPT ![Len(log)] = Put(@, piece)]
                   ELSE Append(log, [pieces |-> << piece >>, ended |-> FALSE])
         /\ spoiled' = IF joins \/ HasCut(log) THEN spoiled \cup {n} ELSE spoiled
         /\ task' = [task EXCEPT ![w] = [at |-> "log", n |-> n, step |-> "rest"]]
      \/ Finish(w) /\ UNCHANGED <<log, held, written, spoiled>>
  BY DEF BeginRecord
<1>4. joins <=> Open(log)
  <2>1. log # << >> <=> Len(log) >= 1
    BY <1>1, EmptySeq
  <2>2. QED
    BY <2>1 DEF Open, Last
<1>5. CASE Finish(w) /\ UNCHANGED <<log, held, written, spoiled>>
  <2>1. task'[w].at = "idle" /\ \A v \in Workers \ {w} : task'[v] = task[v]
    BY <1>2, <1>5 DEF Finish, Idle
  <2>2. ~Writing(w)'
    BY <2>1 DEF Writing, At
  <2>3. UNCHANGED calllog
    BY <1>2, <1>5 DEF calllog
  <2>4. QED
    BY <1>2, <2>1, <2>2, <2>3, LogSame
<1>6. ASSUME held' = {w}, written' = n,
             log' = IF joins THEN [log EXCEPT ![Len(log)] = Put(@, piece)]
                   ELSE Append(log, [pieces |-> << piece >>, ended |-> FALSE]),
             spoiled' = IF joins \/ HasCut(log) THEN spoiled \cup {n} ELSE spoiled,
             task' = [task EXCEPT ![w] = [at |-> "log", n |-> n, step |-> "rest"]]
      PROVE  LogKept'
  <2>1. piece \in Piece /\ piece.n = written + 1
    BY <1>1 DEF Piece
  <2>2. log' = Begun(log, piece)
    <3> HIDE DEF piece
    <3>1. CASE Open(log)
      BY <1>4, <1>6, <3>1 DEF Begun
    <3>2. CASE ~Open(log)
      BY <1>4, <1>6, <3>2 DEF Begun
    <3>3. QED
      BY <3>1, <3>2
  <2>3. /\ Tidy(log', n) /\ Open(log') /\ Settled(log') = Settled(log)
        /\ Settled(log) \in Seq(Lines(written))
        /\ ~Open(log) => log'[Len(log')].pieces = << piece >>
    <3> HIDE DEF piece
    <3>1. QED
      BY <1>1, <2>1, <2>2, BegunIs
  <2>4. /\ task'[w] = [at |-> "log", n |-> n, step |-> "rest"]
        /\ \A v \in Workers \ {w} : task'[v] = task[v]
    BY <1>2, <1>6
  <2>5. task'[w].at = "log" /\ task'[w].n = n /\ task'[w].step = "rest"
    BY <2>4
  <2>6. Writing(w)'
    BY <1>1, <2>5 DEF Writing, At
  <2>7. \A v \in Workers \ {w} : ~Writing(v)'
    <3> TAKE v \in Workers \ {w}
    <3>1. ~Writing(v)
      BY <1>2, NoWriter
    <3>2. QED
      BY <2>4, <3>1 DEF Writing, At
  <2>8. \A i \in 1 .. Len(acked') : Safe(acked'[i], log', spoiled')
    <3> TAKE i \in 1 .. Len(acked')
    <3>1. Safe(acked[i], log, spoiled)
      BY <1>1, <1>2
    <3>2. spoiled \subseteq spoiled'
      BY <1>6
    <3>3. QED
      BY <1>2, <2>3, <3>1, <3>2 DEF Safe
  <2>9. Settled(log') \in Seq(Lines(n - 1))
    <3>1. n - 1 = written
      BY <1>1
    <3>2. QED
      BY <2>3, <3>1
  <2>10. ASSUME n \notin spoiled'
         PROVE  Alone(log', n, "half")
    <3>1. ~joins /\ ~HasCut(log)
      BY <1>6, <2>10
    <3>2. ~Open(log)
      BY <1>4, <3>1
    <3>3. Settled(log) = log
      BY <3>2 DEF Settled
    <3>4. QED
      BY <2>3, <3>1, <3>2, <3>3 DEF Alone
  <2>11. Writes("rest", log', n, spoiled')
    BY <2>3, <2>9, <2>10 DEF Writes
  <2>12. Writes(task'[w].step, log', written', spoiled')
    BY <1>6, <2>5, <2>11
  <2>13. Tidy(log', written') /\ task'[w].n = written'
    BY <1>6, <2>3, <2>5
  <2>14. QED
    BY <1>6, <2>6, <2>7, <2>8, <2>12, <2>13, LogWritten
<1>7. QED
  BY <1>3, <1>5, <1>6

\* The writer's task when it is done, and when it goes on.
LEMMA WriterDone ==
    ASSUME Typed, LogKept, NEW w \in Workers, Appending(w), Release, Finish(w)
    PROVE  held' = {} /\ \A v \in Workers : ~Writing(v)'
<1>1. task'[w].at = "idle" /\ \A v \in Workers \ {w} : task'[v] = task[v]
  BY DEF Typed, Finish, Idle
<1>2. \A v \in Workers \ {w} : ~Writing(v)
  BY OneWriter DEF Appending
<1>3. QED
  BY <1>1, <1>2 DEF Writing, At, Release

LEMMA WriterGoesOn ==
    ASSUME Typed, LogKept, NEW w \in Workers, Appending(w), UNCHANGED <<held, written>>,
           NEW step \in {"rest", "end", "room"}, task' = [task EXCEPT ![w].step = step]
    PROVE  /\ held' = {w} /\ Writing(w)' /\ task'[w].n = written' /\ task'[w].step = step
           /\ \A v \in Workers \ {w} : ~Writing(v)'
<1>1. task[w] \in Appends /\ task[w].n = written /\ task \in [Workers -> Tasks]
  BY WriterIs DEF Typed
<1>2. task' = [task EXCEPT ![w] = [at |-> "log", n |-> task[w].n, step |-> step]]
  BY <1>1, StepTypes
<1>3. /\ task'[w].at = "log" /\ task'[w].n = task[w].n /\ task'[w].step = step
      /\ \A v \in Workers \ {w} : task'[v] = task[v]
  BY <1>1, <1>2
<1>4. task[w].n # 0
  BY <1>1 DEF Appends
<1>5. \A v \in Workers \ {w} : ~Writing(v)
  BY OneWriter DEF Appending
<1>6. Writing(w)'
  BY <1>3, <1>4 DEF Writing, At
<1>7. \A v \in Workers \ {w} : ~Writing(v)'
  BY <1>3, <1>5 DEF Writing, At
<1>8. QED
  BY <1>1, <1>3, <1>6, <1>7 DEF Appending

LEMMA LogWriteRest ==
    ASSUME Typed, LogKept, NEW w \in Workers, WriteRest(w)
    PROVE  LogKept'
<1>1. /\ Tidy(log, written) /\ written \in Nat /\ log \in Seq(Lines(written)) /\ Len(log) \in Nat
      /\ \A i \in 1 .. Len(acked) : acked[i] \in Nat /\ Safe(acked[i], log, spoiled)
  BY LogFacts
<1>2. Appending(w) /\ task[w].step = "rest" /\ UNCHANGED <<written, acked, spoiled>>
  BY DEF WriteRest
<1>3. task[w] \in Appends /\ task[w].n = written /\ Writes("rest", log, written, spoiled)
  BY <1>2, WriterIs
<1>4. /\ Open(log) /\ Settled(log) \in Seq(Lines(written - 1))
      /\ written \notin spoiled => Alone(log, written, "half")
  BY <1>3 DEF Writes
<1>5. ASSUME NEW state \in {"half", "whole", "cut"}, log' = Become(state, task[w].n)
      PROVE  /\ Tidy(log', written') /\ Open(log') /\ Settled(log') = Settled(log)
             /\ \A i \in 1 .. Len(acked') : Safe(acked'[i], log', spoiled')
             /\ written \notin spoiled => Alone(log', written, state)
  <2>1. log' = Became(log, state, written)
    BY <1>3, <1>5, BecomeIs
  <2>2. /\ Tidy(log', written) /\ Open(log') /\ Settled(log') = Settled(log)
        /\ \A other : Alone(log, written, other) => Alone(log', written, state)
    BY <1>1, <1>4, <2>1, BecameIs
  <2>3. \A i \in 1 .. Len(acked') : Safe(acked'[i], log', spoiled')
    BY <1>1, <1>2, <2>2 DEF Safe
  <2>4. QED
    BY <1>2, <1>4, <2>2, <2>3
<1>6. CASE log' = Become("whole", task[w].n) /\ task' = [task EXCEPT ![w].step = "end"] /\ UNCHANGED held
  <2>1. /\ Tidy(log', written') /\ Open(log') /\ Settled(log') = Settled(log)
        /\ \A i \in 1 .. Len(acked') : Safe(acked'[i], log', spoiled')
        /\ written \notin spoiled => Alone(log', written, "whole")
    BY <1>5, <1>6
  <2>2. /\ held' = {w} /\ Writing(w)' /\ task'[w].n = written' /\ task'[w].step = "end"
        /\ \A v \in Workers \ {w} : ~Writing(v)'
    BY <1>2, <1>6, WriterGoesOn
  <2>3. Writes("end", log', written', spoiled')
    BY <1>2, <1>4, <2>1 DEF Writes
  <2>4. QED
    BY <2>1, <2>2, <2>3, LogWritten
<1>7. CASE Release /\ Finish(w) /\ \E state \in {"half", "cut"} : log' = Become(state, task[w].n)
  <2>1. PICK state \in {"half", "whole", "cut"} : log' = Become(state, task[w].n)
    BY <1>7
  <2>2. Tidy(log', written') /\ \A i \in 1 .. Len(acked') : Safe(acked'[i], log', spoiled')
    BY <1>5, <2>1
  <2>3. held' = {} /\ \A v \in Workers : ~Writing(v)'
    BY <1>2, <1>7, WriterDone
  <2>4. QED
    BY <2>2, <2>3, LogAtRest
<1>8. QED
  BY <1>6, <1>7 DEF WriteRest

LEMMA LogEndLine ==
    ASSUME Typed, LogKept, NEW w \in Workers, EndLine(w)
    PROVE  LogKept'
<1>1. /\ Tidy(log, written) /\ written \in Nat /\ log \in Seq(Lines(written)) /\ Len(log) \in Nat
      /\ \A i \in 1 .. Len(acked) : acked[i] \in Nat /\ Safe(acked[i], log, spoiled)
  BY LogFacts
<1>2. Appending(w) /\ task[w].step = "end" /\ UNCHANGED <<written, acked, spoiled>>
  BY DEF EndLine
<1>3. Writes("end", log, written, spoiled)
  BY <1>2, WriterIs
<1>4. Open(log) /\ (written \notin spoiled => Alone(log, written, "whole"))
  BY <1>3 DEF Writes
<1>5. CASE log' = Ended(log) /\ task' = [task EXCEPT ![w].step = "room"] /\ UNCHANGED held
  <2>1. /\ Tidy(log', written) /\ ~Open(log')
        /\ Alone(log, written, "whole") => LastIs(read_records(log'), written)
        /\ \A a \in Nat : Keeps(read_records(Settled(log)), a) => Keeps(read_records(log'), a)
    BY <1>1, <1>4, <1>5, EndedIs
  <2>2. /\ held' = {w} /\ Writing(w)' /\ task'[w].n = written' /\ task'[w].step = "room"
        /\ \A v \in Workers \ {w} : ~Writing(v)'
    BY <1>2, <1>5, WriterGoesOn
  <2>3. Writes("room", log', written', spoiled')
    BY <1>2, <1>4, <2>1 DEF Writes
  <2>4. Settled(log') = log'
    BY <2>1 DEF Settled
  <2>5. \A i \in 1 .. Len(acked') : Safe(acked'[i], log', spoiled')
    <3> TAKE i \in 1 .. Len(acked')
    <3>1. acked[i] \in Nat /\ Safe(acked[i], log, spoiled)
      BY <1>1, <1>2
    <3>2. Keeps(read_records(Settled(log)), acked[i]) => Keeps(read_records(Settled(log')), acked[i])
      BY <2>1, <2>4, <3>1
    <3>3. QED
      BY <1>2, <3>1, <3>2 DEF Safe
  <2>6. QED
    BY <1>2, <2>1, <2>2, <2>3, <2>5, LogWritten
<1>6. CASE Release /\ Finish(w) /\ UNCHANGED log
  <2>1. Tidy(log', written') /\ \A i \in 1 .. Len(acked') : Safe(acked'[i], log', spoiled')
    BY <1>1, <1>2, <1>6
  <2>2. held' = {} /\ \A v \in Workers : ~Writing(v)'
    BY <1>2, <1>6, WriterDone
  <2>3. QED
    BY <2>1, <2>2, LogAtRest
<1>7. QED
  BY <1>5, <1>6 DEF EndLine, Ended

LEMMA LogMakeRoom ==
    ASSUME Typed, LogKept, NEW w \in Workers, MakeRoom(w)
    PROVE  LogKept'
<1>1. /\ Tidy(log, written) /\ written \in Nat /\ log \in Seq(Lines(written)) /\ Len(log) \in Nat
      /\ acked \in Seq(Nat) /\ Len(acked) \in Nat
      /\ \A i \in 1 .. Len(acked) : acked[i] \in Nat /\ Safe(acked[i], log, spoiled)
  BY LogFacts
<1>2. Appending(w) /\ task[w].step = "room" /\ UNCHANGED <<written, spoiled>> /\ Release /\ Finish(w)
  BY DEF MakeRoom
<1>3. task[w].n = written /\ Writes("room", log, written, spoiled)
  BY <1>2, WriterIs
<1>4. ~Open(log) /\ (written \notin spoiled => LastIs(read_records(log), written))
  BY <1>3 DEF Writes
<1>5. held' = {} /\ \A v \in Workers : ~Writing(v)'
  BY <1>2, WriterDone
<1>6. CASE UNCHANGED <<log, acked>>
  BY <1>1, <1>2, <1>5, <1>6, LogAtRest
<1>7. CASE log' = Room(log) /\ acked' = Append(acked, written)
  <2>1. /\ Tidy(log', written) /\ ~Open(log')
        /\ \A a \in Nat : Keeps(read_records(log), a) => Keeps(read_records(log'), a)
    BY <1>1, <1>4, <1>7, RoomIs
  <2>2. Settled(log') = log' /\ Settled(log) = log
    BY <1>4, <2>1 DEF Settled
  <2>3. ASSUME NEW a \in Nat, Safe(a, log, spoiled)
        PROVE  Safe(a, log', spoiled')
    BY <1>2, <2>1, <2>2, <2>3 DEF Safe
  <2>4. Safe(written, log, spoiled)
    <3>1. CASE written \in spoiled
      BY <3>1 DEF Safe
    <3>2. CASE written \notin spoiled
      <4>1. LastIs(read_records(log), written) /\ Len(read_records(log)) \in Nat
        BY <1>1, <1>4, <3>2, ReadWithin
      <4>2. QED
        BY <2>2, <4>1, LastKeeps DEF Safe
    <3>3. QED
      BY <3>1, <3>2
  <2>5. \A i \in 1 .. Len(acked') : Safe(acked'[i], log', spoiled')
    <3> TAKE i \in 1 .. Len(acked')
    <3>1. /\ Len(acked') = Len(acked) + 1 /\ acked'[Len(acked) + 1] = written
          /\ \A j \in 1 .. Len(acked) : acked'[j] = acked[j]
      BY <1>1, <1>7, AppendProperties
    <3>2. CASE i = Len(acked) + 1
      BY <1>1, <2>3, <2>4, <3>1, <3>2
    <3>3. CASE i # Len(acked) + 1
      <4>1. i \in 1 .. Len(acked)
        BY <1>1, <3>1, <3>3
      <4>2. acked[i] \in Nat /\ Safe(acked[i], log, spoiled) /\ acked'[i] = acked[i]
        BY <1>1, <3>1, <4>1
      <4>3. QED
        BY <2>3, <4>2
    <3>4. QED
      BY <3>2, <3>3
  <2>6. QED
    BY <1>2, <1>5, <2>1, <2>5, LogAtRest
<1>8. UNCHANGED <<log, acked>> \/ (log' = Room(log) /\ acked' = Append(acked, written))
  BY <1>3 DEF MakeRoom, Room
<1>9. QED
  BY <1>6, <1>7, <1>8

LEMMA LogAlways ==
    ASSUME Typed, LogKept, [Next]_vars
    PROVE  LogKept'
<1>1. ASSUME NEW w \in Workers, Step(w)
      PROVE  LogKept'
  BY <1>1, LogElsewhere, LogBegin, LogWriteRest, LogEndLine, LogMakeRoom DEF Step
<1>2. CASE Tick \/ UNCHANGED vars
  <2>1. UNCHANGED <<log, held, written, acked, spoiled, task>>
    BY <1>2 DEF Tick, vars, calllog
  <2>2. QED
    BY <2>1 DEF LogKept, Writing, At
<1>3. CASE Kill
  <2>1. \A v \in Workers : task'[v].at = "idle"
    BY <1>3 DEF Kill, Idle
  <2>2. UNCHANGED <<log, written, acked, spoiled>> /\ held' = {}
    BY <1>3 DEF Kill
  <2>3. \A v \in Workers : ~Writing(v)'
    BY <2>1 DEF Writing, At
  <2>4. Tidy(log', written') /\ \A i \in 1 .. Len(acked') : Safe(acked'[i], log', spoiled')
    BY <2>2, LogFacts
  <2>5. QED
    BY <2>2, <2>3, <2>4, LogAtRest
<1>4. QED
  BY <1>1, <1>2, <1>3 DEF Next, Rest

-----------------------------------------------------------------------------
(* What the invariant says of the listed records.                             *)

\* What is listed: the settled records, and one behind them that has not been acknowledged.
LEMMA ListedIs ==
    ASSUME Typed, LogKept
    PROVE  LET rs == read_records(log)
               es == read_records(Settled(log))
           IN  /\ Ascending(rs) /\ rs \in Seq(Lines(written)) /\ es \in Seq(Lines(written))
               /\ Ascending(es) /\ Len(es) <= Len(rs) /\ \A i \in 1 .. Len(es) : rs[i] = es[i]
<1>1. Tidy(log, written) /\ log \in Seq(Lines(written)) /\ Len(log) \in Nat /\ written \in Nat
  BY LogFacts
<1>2. PICK rs, es, before : rs = read_records(log) /\ es = read_records(before) /\ before = Settled(log)
  OBVIOUS
<1>3. before \in Seq(Lines(written))
  BY <1>1, <1>2, SettledIs
<1>4. rs \in Seq(Lines(written)) /\ es \in Seq(Lines(written)) /\ Len(es) \in Nat
  BY <1>1, <1>2, <1>3, ReadWithin
<1>5. Ascending(es)
  BY <1>1, <1>2 DEF Tidy
<1>6. CASE ~Open(log)
  <2>1. before = log
    BY <1>2, <1>6 DEF Settled
  <2>2. rs = es /\ Len(es) <= Len(rs)
    BY <1>2, <1>4, <2>1
  <2>3. QED
    BY <1>2, <1>4, <1>5, <2>2
<1>7. CASE Open(log)
  <2>1. PICK n \in Nat : n + 1 = Len(log)
    <3>1. Len(log) - 1 \in Nat /\ (Len(log) - 1) + 1 = Len(log)
      BY <1>1, <1>7 DEF Open
    <3>2. QED
      BY <3>1
  <2>2. PICK l : l = log[n + 1]
    OBVIOUS
  <2>3. n + 1 \in 1 .. Len(log)
    BY <2>1
  <2>4. l \in Lines(written)
    BY <1>1, <2>2, <2>3, ElementOfSeq
  <2>5. Len(before) = n /\ \A i \in 1 .. n : before[i] = log[i]
    <3>1. Len(before) = Len(log) - 1 /\ \A i \in 1 .. Len(log) - 1 : before[i] = log[i]
      BY <1>1, <1>2, <1>7, SettledIs
    <3>2. Len(log) - 1 = n
      BY <2>1
    <3>3. QED
      BY <3>1, <3>2
  <2>6. log = Append(before, l)
    <3>1. PICK t : t = Append(before, l)
      OBVIOUS
    <3>2. /\ t \in Seq(Lines(written)) /\ Len(t) = n + 1 /\ t[n + 1] = l
          /\ \A i \in 1 .. n : t[i] = before[i]
      BY <1>3, <2>4, <2>5, <3>1, AppendProperties
    <3>3. \A i \in 1 .. n + 1 : t[i] = log[i]
      <4> TAKE i \in 1 .. n + 1
      <4>1. CASE i = n + 1
        BY <2>2, <3>2, <4>1
      <4>2. CASE i # n + 1
        <5>1. i \in 1 .. n
          BY <4>2
        <5>2. QED
          BY <2>5, <3>2, <5>1
      <4>3. QED
        BY <4>1, <4>2
    <3>4. t = log
      BY <1>1, <2>1, <3>2, <3>3, SeqEqual
    <3>5. QED
      BY <3>1, <3>4
  <2>7. rs = IF ~HasCut(before) /\ IsRecord(l) THEN Append(es, l) ELSE es
    <3>1. before \in Seq(Line) /\ l \in Line
      BY <1>3, <2>4, LinesAre DEF Lines
    <3>2. QED
      BY <1>2, <2>6, <3>1, ReadAppend
  <2>8. Below(es, Number(l))
    BY <1>1, <1>2, <1>7, <2>1, <2>2 DEF Tidy
  <2>9. PICK t : t = Append(es, l)
    OBVIOUS
  <2>10. Longer(es, l, t)
    BY <1>4, <1>5, <2>4, <2>8, <2>9, AscendAppend
  <2>11. CASE rs = t
    <3>1. Ascending(rs) /\ Len(rs) = Len(es) + 1
      BY <2>10, <2>11 DEF Longer
    <3>2. \A i \in 1 .. Len(es) : rs[i] = es[i]
      BY <1>4, <2>4, <2>9, <2>11, AppendProperties
    <3>3. Len(es) <= Len(rs)
      BY <1>4, <3>1
    <3>4. QED
      BY <1>2, <1>4, <1>5, <3>1, <3>2, <3>3
  <2>12. CASE rs = es
    <3>1. Len(es) <= Len(rs)
      BY <1>4, <2>12
    <3>2. QED
      BY <1>2, <1>4, <1>5, <2>12, <3>1
  <2>13. QED
    BY <2>7, <2>9, <2>11, <2>12
<1>8. QED
  BY <1>6, <1>7

\* k numbers of a range are in a part of it with at least k elements.
LEMMA ManyOf ==
    ASSUME NEW n \in Nat, NEW k \in Nat, k <= n, NEW T, T \subseteq 1 .. n,
           NEW m \in Nat, k <= m, m <= n, \A j \in (m - k) + 1 .. m : j \in T
    PROVE  Cardinality(T) >= k
<1>1. PICK a \in Int : a = (m - k) + 1
  OBVIOUS
<1>2. IsFiniteSet(a .. m) /\ Cardinality(a .. m) = IF a > m THEN 0 ELSE m - a + 1
  BY <1>1, FS_Interval
<1>3. Cardinality(a .. m) = k
  BY <1>1, <1>2
<1>4. IsFiniteSet(1 .. n)
  BY FS_Interval
<1>5. IsFiniteSet(T) /\ Cardinality(T) \in Nat
  BY <1>4, FS_Subset, FS_CardinalityType
<1>6. a .. m \subseteq T
  BY <1>1
<1>7. Cardinality(a .. m) <= Cardinality(T)
  BY <1>5, <1>6, FS_Subset
<1>8. QED
  BY <1>3, <1>7

LEMMA IntactNow ==
    ASSUME Typed, LogKept
    PROVE  LogIntact
<1>1. PICK rs, es : rs = read_records(log) /\ es = read_records(Settled(log))
  OBVIOUS
<1>2. /\ Ascending(rs) /\ rs \in Seq(Lines(written)) /\ es \in Seq(Lines(written))
      /\ Ascending(es) /\ Len(es) <= Len(rs) /\ \A i \in 1 .. Len(es) : rs[i] = es[i]
  BY <1>1, ListedIs
<1>3. PICK n \in Nat : n = Len(rs)
  BY <1>2, LenProperties
<1>4. PICK m \in Nat : m = Len(es)
  BY <1>2, LenProperties
<1>5. PICK listed : listed = [i \in DOMAIN rs |-> rs[i].pieces[1].n]
  OBVIOUS
<1>6. DOMAIN rs = 1 .. n
  BY <1>2, <1>3, LenProperties
<1>7. DOMAIN listed = 1 .. n /\ \A i \in 1 .. n : listed[i] = Number(rs[i])
  BY <1>5, <1>6 DEF Number
<1>8. \A i \in 1 .. n : Number(rs[i]) \in Int
  <2>1. \A i \in 1 .. n : rs[i] \in Lines(written)
    BY <1>2, <1>3, ElementOfSeq
  <2>2. QED
    BY <2>1, LineIs
<1>9. m <= n /\ \A i \in 1 .. m : i \in 1 .. n /\ listed[i] = Number(es[i])
  <2>1. m <= n /\ \A i \in 1 .. m : i \in 1 .. n /\ rs[i] = es[i]
    BY <1>2, <1>3, <1>4
  <2>2. QED
    BY <1>7, <2>1
<1>10. \A i, j \in DOMAIN listed : i < j => listed[i] < listed[j]
  BY <1>2, <1>3, <1>7 DEF Ascending
<1>11. ASSUME NEW i \in DOMAIN acked
       PROVE  \/ acked[i] \in Range(listed) \/ acked[i] \in spoiled
              \/ Cardinality({j \in DOMAIN listed : listed[j] > acked[i]}) >= MaxRecords
  <2>1. PICK a : a = acked[i]
    OBVIOUS
  <2>2. a \in Nat /\ (a \in spoiled \/ Keeps(es, a))
    <3>1. DOMAIN acked = 1 .. Len(acked)
      BY LenProperties DEF Typed
    <3>2. acked[i] \in Nat /\ Safe(acked[i], log, spoiled)
      BY <3>1, LogFacts
    <3>3. QED
      BY <1>1, <2>1, <3>2 DEF Safe
  <2>3. CASE a \in spoiled
    BY <2>1, <2>3
  <2>4. CASE \E j \in 1 .. Len(es) : Number(es[j]) = a
    <3>1. PICK j \in 1 .. m : Number(es[j]) = a
      BY <1>4, <2>4
    <3>2. j \in DOMAIN listed /\ listed[j] = a
      BY <1>7, <1>9, <3>1
    <3>3. a \in Range(listed)
      BY <3>2 DEF Range
    <3>4. QED
      BY <2>1, <3>3
  <2>5. CASE Len(es) >= MaxRecords /\ a < Number(es[Len(es) + 1 - MaxRecords])
    <3>1. PICK k \in Nat \ {0} : k = MaxRecords
      BY RecordsAssumption
    <3>2. PICK b \in Int : b = m + 1 - k
      <4>1. m + 1 - k \in Int
        BY <3>1
      <4>2. QED
        BY <4>1
    <3>3. k <= m /\ b \in 1 .. m /\ a < Number(es[b]) /\ b = (m - k) + 1
      <4>1. k <= m /\ Len(es) + 1 - MaxRecords = b
        BY <1>4, <2>5, <3>1, <3>2
      <4>2. b \in 1 .. m /\ b = (m - k) + 1
        BY <3>1, <3>2, <4>1
      <4>3. QED
        BY <2>5, <4>1, <4>2
    <3>4. PICK T : T = {j \in DOMAIN listed : listed[j] > a}
      OBVIOUS
    <3>5. ASSUME NEW j \in b .. m
          PROVE  j \in T
      <4>1. j \in 1 .. m /\ b <= j
        BY <3>3
      <4>2. listed[j] = Number(es[j]) /\ listed[b] = Number(es[b]) /\ j \in DOMAIN listed
            /\ b \in DOMAIN listed
        BY <1>7, <1>9, <3>3, <4>1
      <4>3. listed[j] \in Int /\ listed[b] \in Int
        BY <1>7, <1>8, <4>2
      <4>4. b < j => listed[b] < listed[j]
        BY <1>10, <4>2
      <4>5. listed[j] > a
        <5>1. CASE b = j
          BY <2>2, <3>3, <4>2, <4>3, <5>1
        <5>2. CASE b < j
          BY <2>2, <3>3, <4>2, <4>3, <4>4, <5>2
        <5>3. QED
          BY <4>1, <5>1, <5>2
      <4>6. QED
        BY <3>4, <4>2, <4>5
    <3>6. T \subseteq 1 .. n
      BY <1>7, <3>4
    <3>7. k \in Nat /\ k <= n
      BY <1>9, <3>3
    <3>8. \A j \in (m - k) + 1 .. m : j \in T
      BY <3>3, <3>5
    <3>9. Cardinality(T) >= k
      BY <1>9, <3>3, <3>6, <3>7, <3>8, ManyOf
    <3>10. QED
      BY <2>1, <3>1, <3>4, <3>9
  <2>6. QED
    BY <2>2, <2>3, <2>4, <2>5 DEF Keeps
<1>12. /\ \A i, j \in DOMAIN listed : i < j => listed[i] < listed[j]
       /\ \A i \in DOMAIN acked :
             \/ acked[i] \in Range(listed) \/ acked[i] \in spoiled
             \/ Cardinality({j \in DOMAIN listed : listed[j] > acked[i]}) >= MaxRecords
  BY <1>10, <1>11
<1>13. QED
  BY <1>1, <1>5, <1>12 DEF LogIntact

-----------------------------------------------------------------------------
(* The theorems.                                                              *)

RecordsInv == Typed /\ HitsKept /\ UsageKept /\ LogKept

LEMMA RecordsBegin ==
    Init => RecordsInv
<1> SUFFICES ASSUME Init PROVE RecordsInv
  OBVIOUS
<1>1. \A w \in Workers : task[w] = Idle /\ task[w].at = "idle"
  BY DEF Init, Idle
<1>2. HitsKept
  BY <1>1 DEF Init, HitsKept, Early, At
<1>3. UsageKept
  BY <1>1 DEF UsageKept, At
<1>4. LogKept
  <2>1. log = << >> /\ written = 0 /\ acked = << >> /\ held = {}
    BY DEF Init
  <2>2. << >> \in Seq(Lines(0)) /\ << >> \in Seq(Line) /\ Len(<< >>) = 0
    BY EmptySeq
  <2>3. ~Open(<< >>) /\ Settled(<< >>) = << >>
    BY <2>2 DEF Open, Settled
  <2>4. read_records(<< >>) = << >>
    <3>1. \A i \in 1 .. Len(<< >>) : IsRecord(<< >>[i])
      BY <2>2
    <3>2. QED
      BY <2>2, <3>1, ReadAll
  <2>5. Ascending(<< >>)
    BY <2>2 DEF Ascending
  <2>6. Tidy(<< >>, 0)
    BY <2>2, <2>3, <2>4, <2>5 DEF Tidy
  <2>7. \A w \in Workers : ~Writing(w)
    BY <1>1 DEF Writing, At
  <2>8. Len(acked) = 0
    BY <2>1, <2>2
  <2>9. QED
    BY <2>1, <2>6, <2>7, <2>8 DEF LogKept
<1>5. QED
  BY <1>2, <1>3, <1>4, TypesBegin DEF RecordsInv

LEMMA RecordsStep ==
    RecordsInv /\ [Next]_vars => RecordsInv'
<1> SUFFICES ASSUME RecordsInv, [Next]_vars PROVE RecordsInv'
  OBVIOUS
<1>1. Typed /\ HitsKept /\ UsageKept /\ LogKept
  BY DEF RecordsInv
<1>2. QED
  BY <1>1, TypesKept, HitsAlways, UsageAlways, LogAlways DEF RecordsInv

LEMMA RecordsAlways ==
    Spec => []RecordsInv
BY RecordsBegin, RecordsStep, PTL DEF Spec

\* Every request's task, the files of segments and the lines of the log have the types the
\* code gives them, whatever is counted, reported, interrupted or killed.
THEOREM RecordTypes == Spec => []Typed
<1>1. RecordsInv => Typed
  BY DEF RecordsInv
<1>2. QED
  BY <1>1, RecordsAlways, PTL

\* Whatever requests run at once, in whatever order they look up and store, and whichever
\* writes fail or are interrupted: a segment counts as read from the cache only when
\* another request has stored it, within the lifetime (analyze_and_store_at).
THEOREM HitsAreEarned == Spec => []HitsEarned
<1>1. RecordsInv => HitsEarned
  BY DEF RecordsInv, HitsKept, HitsEarned, Earned, Early, At
<1>2. QED
  BY <1>1, RecordsAlways, PTL

\* For every count of the tokens, every saving above zero and every usage a successful
\* answer may report, the told usage and the logged one come to the same (compute_input_cache_accounting,
\* adjusted_input_cache_usage).
THEOREM UsageAlwaysAgrees == Spec => []UsageAgrees
<1>1. RecordsInv => UsageAgrees
  BY DEF RecordsInv, UsageKept, UsageAgrees, Agree
<1>2. QED
  BY <1>1, RecordsAlways, PTL

\* A record that was acknowledged stays listed, in order, until MaxRecords later ones are,
\* through any number of failed writes, cut lines, failed compactions and kills
\* (CallLogStore).
THEOREM LogStaysIntact == Spec => []LogIntact
<1>1. RecordsInv => LogIntact
  BY IntactNow DEF RecordsInv
<1>2. QED
  BY <1>1, RecordsAlways, PTL
=============================================================================
