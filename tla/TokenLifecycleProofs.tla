------------------------ MODULE TokenLifecycleProofs ------------------------
(* What the runs show of TokenLifecycle on small instances, for all of them. *)
EXTENDS TokenLifecycle, SequenceTheorems, Induction, TLAPS

-----------------------------------------------------------------------------
(* The inductive invariant.                                                 *)

Tasks == [pc : PCs, kind : AllOps \cup {"none"}, id : Nat, cred : Creds, snap : Seq(Entry)]

\* no credential is ahead of the server of its account
LiveCreds == {c \in Creds : c.acct \in Accounts /\ c.rt <= server[c.acct]}
Live      == {e \in Entry : e.cred \in LiveCreds}
LiveTasks ==
    {t \in Tasks : /\ t.snap \in Seq(Live)
                   /\ t.pc \in {"ask", "store", "number", "push"} => t.cred \in LiveCreds
                   /\ t.pc = "push" => t.id # 0}

Typed ==
    /\ entries \in Seq(Live)
    /\ server \in [Accounts -> 0..MaxRotations]
    /\ lock \in Workers \cup {NoWorker}
    /\ disk.ok \in BOOLEAN /\ disk.list \in Seq(Live)
    /\ up \in {"up", "down", "refused"}
    /\ task \in [Workers -> LiveTasks]
    /\ jobs \in 0..MaxJobs /\ faults \in 0..MaxFaults /\ saveFailed \in BOOLEAN
    /\ given \subseteq Accounts /\ deleted \subseteq given /\ overlapped \in BOOLEAN

\* a process that is not up has nothing in memory
StoppedEmpty ==
    up # "up" => entries = << >> /\ \A w \in Workers : task[w] = Idle

\* a refresh of an entry is under way
Refreshing(w) == task[w].kind # "add" /\ task[w].pc \in {"ask", "store"}

KindsFit ==
    \A w \in Workers :
        /\ task[w].pc \in {"wait", "store"} => task[w].kind # "add"
        /\ task[w].pc \in {"number", "push"} => task[w].kind = "add"
        /\ task[w].pc = "ask" /\ task[w].kind = "add" => task[w].cred.rt = 0

\* one refresh at a time
RefreshLocked == \A w \in Workers : Refreshing(w) => lock = w

IsFirst(i, id) ==
    i \in DOMAIN entries /\ entries[i].id = id /\ \A j \in 1..(i - 1) : entries[j].id # id

\* while a refresh is under way, the entry it was begun for stays, and has no
\* later token than the refresh
OwnEntry(w, i) ==
    /\ IsFirst(i, task[w].id)
    /\ entries[i].cred.acct = task[w].cred.acct
    /\ task[w].pc = "ask" => entries[i].cred.rt = task[w].cred.rt
    /\ Accepts(entries[i].cred) => Accepts(task[w].cred)
EntryStays ==
    \A w \in Workers :
        Refreshing(w) /\ task[w].cred.acct \notin deleted
            => \E i \in DOMAIN entries : OwnEntry(w, i)

RefreshInv == KindsFit /\ RefreshLocked /\ EntryStays

Mentions(es, a) == \E i \in DOMAIN es : es[i].cred.acct = a
\* the account has been used
Seen(a) ==
    \/ server[a] # 0
    \/ Mentions(entries, a) \/ Mentions(disk.list, a)
    \/ \E w \in Workers : Mentions(task[w].snap, a)
    \/ \E w \in Workers : task[w].pc \in {"number", "push"} /\ task[w].cred.acct = a

\* the latest token of every account that has been used is held, or in the file
\* of a process that is not running
HeldInv ==
    \A a \in Accounts \ given :
        Seen(a) => IF up = "up" THEN Held(a) ELSE HasLatest(disk.list, a)

SameSaved(e, d) ==
    /\ d.id = e.id /\ d.dis = e.dis
    /\ d.cred.acct = e.cred.acct /\ d.cred.rt = e.cred.rt /\ d.cred.prio = e.cred.prio
Covers(fs, es) == \A i \in DOMAIN es : \E j \in DOMAIN fs : SameSaved(es[i], fs[j])

\* an undisturbed save is alone, and the last one has what the memory has
Writing(t) == t.pc \in {"truncate", "write"}
SavesWell(tasks, es, fs) ==
    /\ \A v, w \in Workers : Writing(tasks[v]) /\ Writing(tasks[w]) => v = w
    /\ \A w \in Workers : tasks[w].pc = "write" => fs = << >>
    /\ \/ \E w \in Workers : tasks[w].pc = "save"
       \/ \E w \in Workers : Writing(tasks[w]) /\ Covers(tasks[w].snap, es)
       \/ (\A w \in Workers : ~Writing(tasks[w])) /\ Covers(fs, es)
SaveInv ==
    up = "up" /\ ~saveFailed /\ ~overlapped => SavesWell(task, entries, disk.list)

TokenInv == Typed /\ StoppedEmpty /\ RefreshInv /\ HeldInv /\ SaveInv

-----------------------------------------------------------------------------
(* The operators of the model.                                              *)

\* f tells where the elements of p come from: all those of s[1..n] with an index in T
Picks(f, p, s, T, n) ==
    /\ f \in [1..Len(p) -> (1..n) \cap T]
    /\ \A j \in 1..Len(p) : p[j] = s[f[j]]
    /\ \A j, k \in 1..Len(p) : j < k => f[j] < f[k]
    /\ \A i \in (1..n) \cap T : \E j \in 1..Len(p) : f[j] = i

LEMMA PicksMore ==
    ASSUME NEW S, NEW s \in Seq(S), NEW T, NEW n \in 0..Len(s) - 1, NEW p \in Seq(S),
           NEW f, Picks(f, p, s, T, n), n + 1 \in T
    PROVE  \E g : Picks(g, Append(p, s[n + 1]), s, T, n + 1)
<1> DEFINE q == Append(p, s[n + 1])
           g == [j \in 1..Len(q) |-> IF j = Len(q) THEN n + 1 ELSE f[j]]
<1>0. Len(s) \in Nat /\ Len(p) \in Nat /\ n \in Nat /\ n + 1 \in 1..Len(s)
  BY LenProperties
<1>1. s[n + 1] \in S
  BY <1>0, ElementOfSeq
<1>2. /\ Len(q) = Len(p) + 1 /\ q[Len(p) + 1] = s[n + 1]
      /\ \A j \in 1..Len(p) : q[j] = p[j]
  BY <1>1, AppendProperties
<1> HIDE DEF q
<1>3. \A j \in 1..Len(p) : g[j] = f[j] /\ j \in 1..Len(q) /\ f[j] \in (1..n) \cap T
  BY <1>0, <1>2 DEF Picks
<1>4. g[Len(p) + 1] = n + 1 /\ Len(p) + 1 \in 1..Len(q)
  BY <1>0, <1>2
<1>5. \A j \in 1..Len(q) : j \in 1..Len(p) \/ j = Len(p) + 1
  BY <1>0, <1>2
<1>6. g \in [1..Len(q) -> (1..n + 1) \cap T]
  <2>1. ASSUME NEW j \in 1..Len(q)
        PROVE  (IF j = Len(q) THEN n + 1 ELSE f[j]) \in (1..n + 1) \cap T
    <3>1. n + 1 \in (1..n + 1) \cap T
      BY <1>0
    <3>2. CASE j = Len(q)
      BY <3>1, <3>2
    <3>3. CASE j # Len(q)
      <4>1. f[j] \in (1..n) \cap T
        BY <1>0, <1>2, <1>3, <1>5, <3>3
      <4>2. QED
        BY <1>0, <3>3, <4>1
    <3>4. QED
      BY <3>2, <3>3
  <2>2. QED
    BY <2>1
<1> HIDE DEF g
<1>7. \A j \in 1..Len(q) : q[j] = s[g[j]]
  BY <1>2, <1>3, <1>4, <1>5 DEF Picks
<1>8. \A j, k \in 1..Len(q) : j < k => g[j] < g[k]
  <2> TAKE j, k \in 1..Len(q)
  <2> SUFFICES ASSUME j < k PROVE g[j] < g[k]
    OBVIOUS
  <2>1. j \in 1..Len(p)
    BY <1>0, <1>5
  <2>2. CASE k \in 1..Len(p)
    BY <1>3, <2>1, <2>2 DEF Picks
  <2>3. CASE k = Len(p) + 1
    BY <1>0, <1>3, <1>4, <2>1, <2>3
  <2>4. QED
    BY <1>5, <2>2, <2>3
<1>9. \A i \in (1..n + 1) \cap T : \E j \in 1..Len(q) : g[j] = i
  <2> TAKE i \in (1..n + 1) \cap T
  <2>1. CASE i = n + 1
    BY <1>4, <2>1
  <2>2. CASE i \in 1..n
    <3>1. PICK j \in 1..Len(p) : f[j] = i
      BY <2>2 DEF Picks
    <3>2. QED
      BY <1>3, <3>1
  <2>3. QED
    BY <1>0, <2>1, <2>2
<1>10. Picks(g, q, s, T, n + 1)
  BY <1>6, <1>7, <1>8, <1>9 DEF Picks
<1>11. QED
  BY <1>10 DEF q

LEMMA PicksSame ==
    ASSUME NEW S, NEW s \in Seq(S), NEW T, NEW n \in 0..Len(s) - 1, NEW p \in Seq(S),
           NEW f, Picks(f, p, s, T, n), n + 1 \notin T
    PROVE  Picks(f, p, s, T, n + 1)
<1>0. Len(s) \in Nat /\ n \in Nat
  BY LenProperties
<1>1. (1..n + 1) \cap T = (1..n) \cap T
  BY <1>0
<1>2. QED
  BY <1>1 DEF Picks

\* What Kept keeps: exactly the elements at the indices in T, in their order.
LEMMA KeptProperties ==
    ASSUME NEW S, NEW s \in Seq(S), NEW T
    PROVE  /\ Kept(s, T) \in Seq(S)
           /\ \E f : Picks(f, Kept(s, T), s, T, Len(s))
<1> DEFINE N == Len(s)
           next(n, p) == IF n \in T THEN Append(p, s[n]) ELSE p
           step == [q \in Nat \X Seq(S) |-> IF q[1] + 1 \in 1..N THEN next(q[1] + 1, q[2]) ELSE q[2]]
           Turns(g) == g = [n \in 0..N |-> IF n = 0 THEN << >>
                            ELSE IF n \in T THEN Append(g[n - 1], s[n]) ELSE g[n - 1]]
           upTo == CHOOSE g : Turns(g)
<1>0. N \in Nat /\ << >> \in Seq(S)
  BY LenProperties, EmptySeq
<1>1. \A n \in 1..N, p \in Seq(S) : next(n, p) \in Seq(S)
  <2> TAKE n \in 1..N, p \in Seq(S)
  <2>1. s[n] \in S
    BY ElementOfSeq
  <2>2. Append(p, s[n]) \in Seq(S)
    BY <2>1, AppendProperties
  <2>3. QED
    BY <2>2
<1>2. step \in [Nat \X Seq(S) -> Seq(S)]
  <2> HIDE DEF next, N
  <2>1. QED
    BY <1>1
<1>3. Solvable(N, Seq(S), << >>, step)
  <2> HIDE DEF N, step
  <2>1. QED
    BY <1>0, <1>2, RecursionUpTo
<1>4. PICK g \in [0..N -> Seq(S)] :
           g[0] = << >> /\ \A k \in 0..N - 1 : g[k + 1] = step[<<k, g[k]>>]
  <2> HIDE DEF N, step
  <2>1. QED
    BY <1>3 DEF Solvable
<1>5. ASSUME NEW n \in 0..N, n # 0
      PROVE  g[n] = next(n, g[n - 1])
  <2> HIDE DEF next, N
  <2>1. n - 1 \in 0..N - 1 /\ n - 1 \in 0..N /\ (n - 1) + 1 = n /\ n - 1 \in Nat /\ n \in 1..N
    BY <1>0, <1>5
  <2>2. g[n] = step[<<n - 1, g[n - 1]>>] /\ g[n - 1] \in Seq(S)
    BY <1>4, <2>1
  <2>3. QED
    BY <2>1, <2>2
<1>6. Turns(g)
  <2> HIDE DEF N
  <2>1. QED
    BY <1>0, <1>4, <1>5
<1>7. Turns(upTo)
  <2> HIDE DEF Turns
  <2>1. QED
    BY <1>6
<1>8. Kept(s, T) = upTo[N]
  BY DEF Kept
<1> DEFINE Fits(n) == upTo[n] \in Seq(S) /\ \E f : Picks(f, upTo[n], s, T, n)
           U == {n \in 0..N : Fits(n)}
<1>9. 0 \in U
  <2> HIDE DEF upTo
  <2>1. upTo[0] = << >>
    BY <1>0, <1>7
  <2>2. Picks([j \in 1..0 |-> 0], << >>, s, T, 0)
    <3>1. Len(<< >>) = 0
      BY EmptySeq
    <3>2. 1..0 = {}
      OBVIOUS
    <3>3. QED
      BY <3>1, <3>2 DEF Picks
  <2>3. Fits(0)
    BY <1>0, <2>1, <2>2
  <2>4. QED
    BY <1>0, <2>3
<1>10. ASSUME NEW n \in 0..N - 1, n \in U
       PROVE  n + 1 \in U
  <2> HIDE DEF upTo
  <2>1. n + 1 \in 0..N /\ n + 1 # 0 /\ (n + 1) - 1 = n /\ n + 1 \in 1..N
    BY <1>0
  <2>2. upTo[n + 1] = next(n + 1, upTo[n])
    BY <1>7, <2>1
  <2>3. upTo[n] \in Seq(S)
    BY <1>10
  <2>4. PICK f : Picks(f, upTo[n], s, T, n)
    BY <1>10
  <2>5. upTo[n + 1] \in Seq(S)
    <3> HIDE DEF next
    <3>1. QED
      BY <1>1, <2>1, <2>2, <2>3
  <2>6. \E h : Picks(h, upTo[n + 1], s, T, n + 1)
    <3>1. CASE n + 1 \in T
      <4>1. upTo[n + 1] = Append(upTo[n], s[n + 1])
        BY <2>2, <3>1
      <4>2. \E h : Picks(h, Append(upTo[n], s[n + 1]), s, T, n + 1)
        BY <2>3, <2>4, <3>1, PicksMore
      <4>3. QED
        BY <4>1, <4>2
    <3>2. CASE n + 1 \notin T
      <4>1. upTo[n + 1] = upTo[n]
        BY <2>2, <3>2
      <4>2. Picks(f, upTo[n], s, T, n + 1)
        BY <2>3, <2>4, <3>2, PicksSame
      <4>3. QED
        BY <4>1, <4>2
    <3>3. QED
      BY <3>1, <3>2
  <2>7. QED
    BY <2>1, <2>5, <2>6
<1>11. \A n \in 0..N : n \in U
  <2> HIDE DEF U, N
  <2>1. QED
    BY <1>0, <1>9, <1>10, InductionUpTo
<1>12. N \in 0..N
  BY <1>0
<1>13. Fits(N)
  BY <1>11, <1>12
<1>14. QED
  BY <1>8, <1>13

\* An id that some entry has is that of a first entry.
LEMMA AtIsFirst ==
    ASSUME NEW S, entries \in Seq(S), NEW id \in Ids
    PROVE  IsFirst(At(id), id) /\ \A i : IsFirst(i, id) => i = At(id)
<1>1. DOMAIN entries = 1..Len(entries) /\ Len(entries) \in Nat
  BY LenProperties
<1> DEFINE T == {i \in DOMAIN entries : entries[i].id = id}
<1>2. T \subseteq Nat /\ T # {}
  BY <1>1 DEF Ids
<1>3. PICK i \in T : \A j \in T : i <= j
  <2> HIDE DEF T
  <2>1. QED
    BY <1>2, LeastOf
<1>4. IsFirst(i, id)
  <2>1. \A j \in 1..i - 1 : j \in DOMAIN entries /\ ~(i <= j)
    BY <1>1
  <2>2. QED
    BY <1>3, <2>1 DEF IsFirst
<1>5. IsFirst(At(id), id)
  BY <1>4 DEF At, IsFirst
<1>6. \A j, k : IsFirst(j, id) /\ IsFirst(k, id) => ~(j < k)
  BY <1>1 DEF IsFirst
<1>7. \A j, k : IsFirst(j, id) /\ IsFirst(k, id) => j = k
  BY <1>1, <1>6 DEF IsFirst
<1>8. QED
  BY <1>5, <1>7

\* A new entry gets an id, and never 0.
LEMMA NewIdPositive ==
    ASSUME NEW S, entries \in Seq(S), \A i \in DOMAIN entries : entries[i].id \in Nat \ {0}
    PROVE  NewId \in Nat \ {0}
<1>0. DOMAIN entries = 1..Len(entries) /\ Len(entries) \in Nat
  BY LenProperties
<1> DEFINE N == Len(entries)
           Top(i, n) == i \in 1..n /\ \A j \in 1..n : entries[j].id <= entries[i].id
           T == {n \in 0..N : n = 0 \/ \E i : Top(i, n)}
<1>1. 0 \in T
  BY <1>0
<1>2. ASSUME NEW n \in 0..N - 1, n \in T
      PROVE  n + 1 \in T
  <2>0. n + 1 \in 1..N /\ \A j \in 1..n + 1 : j \in DOMAIN entries /\ entries[j].id \in Nat
    BY <1>0
  <2>1. CASE n = 0
    <3>1. Top(1, n + 1)
      BY <2>0, <2>1
    <3>2. QED
      BY <2>0, <3>1
  <2>2. CASE n # 0
    <3>1. PICK i : Top(i, n)
      BY <1>2, <2>2
    <3>2. CASE entries[n + 1].id <= entries[i].id
      <4>1. Top(i, n + 1)
        BY <2>0, <3>1, <3>2
      <4>2. QED
        BY <2>0, <4>1
    <3>3. CASE ~(entries[n + 1].id <= entries[i].id)
      <4>1. Top(n + 1, n + 1)
        BY <2>0, <3>1, <3>3
      <4>2. QED
        BY <2>0, <4>1
    <3>4. QED
      BY <3>2, <3>3
  <2>3. QED
    BY <2>1, <2>2
<1>3. \A n \in 0..N : n \in T
  <2> HIDE DEF T, N
  <2>1. N \in Nat
    BY <1>0 DEF N
  <2>2. QED
    BY <1>1, <1>2, <2>1, InductionUpTo
<1>4. CASE entries = << >>
  BY <1>4 DEF NewId
<1>5. CASE entries # << >>
  <2>1. N # 0
    BY <1>5, EmptySeq
  <2>2. PICK i : Top(i, N)
    BY <1>0, <1>3, <2>1
  <2>3. entries[i].id \in Ids /\ \A m \in Ids : m <= entries[i].id
    BY <1>0, <2>2 DEF Ids
  <2> DEFINE m == CHOOSE m \in Ids : \A n \in Ids : n <= m
  <2>4. m \in Ids
    BY <2>3
  <2>5. m \in Nat \ {0}
    BY <2>4 DEF Ids
  <2>6. NewId = m + 1
    BY <1>5 DEF NewId
  <2>7. QED
    BY <2>5, <2>6
<1>6. QED
  BY <1>4, <1>5

-----------------------------------------------------------------------------
(* Types.                                                                   *)

LEMMA ServerStep ==
    ASSUME Typed, Next
    PROVE  /\ server' \in [Accounts -> 0..MaxRotations]
           /\ \A a \in Accounts : server[a] <= server'[a]
<1>0. server \in [Accounts -> 0..MaxRotations] /\ MaxRotations \in Nat
  BY BoundsAssumption DEF Typed
<1>1. ASSUME NEW a, server[a] < MaxRotations, server' = [server EXCEPT ![a] = @ + 1]
      PROVE  /\ server' \in [Accounts -> 0..MaxRotations]
             /\ \A b \in Accounts : server[b] <= server'[b]
  <2>1. DOMAIN server = Accounts /\ DOMAIN server' = Accounts
    BY <1>0, <1>1
  <2>2. ASSUME NEW b \in Accounts
        PROVE  server'[b] \in 0..MaxRotations /\ server[b] <= server'[b]
    <3>1. server[b] \in 0..MaxRotations
      BY <1>0
    <3>2. CASE b = a
      <4>1. server'[b] = server[b] + 1 /\ server[b] < MaxRotations
        BY <1>1, <2>1, <3>2
      <4>2. QED
        BY <1>0, <3>1, <4>1
    <3>3. CASE b # a
      <4>1. server'[b] = server[b]
        BY <1>1, <2>1, <3>3
      <4>2. QED
        BY <1>0, <3>1, <4>1
    <3>4. QED
      BY <3>2, <3>3
  <2>3. server' = [b \in Accounts |-> server'[b]]
    BY <1>1, <2>1
  <2>4. QED
    BY <2>2, <2>3
<1>2. CASE UNCHANGED server
  BY <1>0, <1>2
<1>3. ASSUME NEW w \in Workers, Refreshed(w) \/ ReplyRefused(w) \/ ReplyLost(w)
      PROVE  UNCHANGED server \/ Rotates(task[w].cred.acct)
  BY <1>3 DEF Refreshed, ReplyRefused, ReplyLost
<1>4. ASSUME NEW w \in Workers, Work(w), ~(Refreshed(w) \/ ReplyRefused(w) \/ ReplyLost(w))
      PROVE  UNCHANGED server
  BY <1>4 DEF Work, Refresh, Persist, Admin, BeginEnsure, BeginForce, BeginUsage, LockedNoEntry,
     LockedFresh, LockedStale, ReplyRefused, RefreshFailed, StoreRefreshed, Snapshot,
     SaveFailed, Truncate, Write, UsageReply, Edit, SetDisabled, Delete, BeginAdd, ChooseId,
     PushEntry, mem
<1>5. CASE Expire \/ Crash \/ Boot \/ AllOver
  <2>1. UNCHANGED server
    BY <1>5 DEF Expire, Crash, Boot, AllOver, vars, mem
  <2>2. QED
    BY <1>2, <2>1
<1>6. QED
  BY <1>1, <1>2, <1>3, <1>4, <1>5 DEF Next, Rotates

\* What was not ahead of the servers is not ahead of them later.
LEMMA LiveStep ==
    ASSUME Typed, Next
    PROVE  /\ LiveCreds \subseteq LiveCreds' /\ Live \subseteq Live'
           /\ Seq(Live) \subseteq Seq(Live') /\ LiveTasks \subseteq LiveTasks'
<1>0. /\ server \in [Accounts -> 0..MaxRotations] /\ server' \in [Accounts -> 0..MaxRotations]
      /\ \A a \in Accounts : server[a] <= server'[a]
  BY ServerStep DEF Typed
<1>1. ASSUME NEW c \in LiveCreds
      PROVE  c \in LiveCreds'
  <2>1. c \in Creds /\ c.acct \in Accounts /\ c.rt <= server[c.acct]
    BY DEF LiveCreds
  <2>2. c.rt \in Nat /\ server[c.acct] \in Nat /\ server'[c.acct] \in Nat
    BY <1>0, <2>1, BoundsAssumption DEF Creds
  <2>3. c.rt <= server'[c.acct]
    BY <1>0, <2>1, <2>2
  <2>4. QED
    BY <2>1, <2>3 DEF LiveCreds
<1>2. Live \subseteq Live'
  BY <1>1 DEF Live
<1>3. Seq(Live) \subseteq Seq(Live')
  <2> SUFFICES ASSUME NEW s \in Seq(Live) PROVE s \in Seq(Live')
    OBVIOUS
  <2>1. Len(s) \in Nat /\ s \in [1..Len(s) -> Live]
    BY LenProperties
  <2>2. s \in [1..Len(s) -> Live']
    BY <1>2, <2>1
  <2>3. QED
    BY <2>1, <2>2, SeqDef
<1>4. LiveTasks \subseteq LiveTasks'
  BY <1>1, <1>3 DEF LiveTasks
<1>5. QED
  BY <1>1, <1>2, <1>3, <1>4

LEMMA EntryFacts ==
    ASSUME Typed
    PROVE  /\ DOMAIN entries = 1..Len(entries) /\ Len(entries) \in Nat
           /\ \A i \in DOMAIN entries : entries[i] \in Live
           /\ \A id \in Ids : At(id) \in DOMAIN entries /\ entries[At(id)].id = id
<1>1. entries \in Seq(Live)
  BY DEF Typed
<1>2. DOMAIN entries = 1..Len(entries) /\ Len(entries) \in Nat
  BY <1>1, LenProperties
<1>3. \A i \in DOMAIN entries : entries[i] \in Live
  BY <1>1, <1>2, ElementOfSeq
<1>4. \A id \in Ids : IsFirst(At(id), id)
  BY <1>1, AtIsFirst
<1>5. QED
  BY <1>2, <1>3, <1>4 DEF IsFirst

LEMMA TaskFacts ==
    ASSUME Typed, NEW w \in Workers
    PROVE  /\ task[w] \in Tasks /\ task[w].snap \in Seq(Live)
           /\ task[w].pc \in {"ask", "store", "number", "push"} => task[w].cred \in LiveCreds
           /\ task[w].pc = "push" => task[w].id # 0
BY DEF Typed, LiveTasks

\* Replacing one entry by a live one, or its credentials by live ones.
LEMMA EntryChanged ==
    ASSUME Typed, NEW S, Live \subseteq S, NEW i \in DOMAIN entries, NEW e \in S,
           NEW es, es = [entries EXCEPT ![i] = e]
    PROVE  es \in Seq(S)
<1>1. entries \in [1..Len(entries) -> Live] /\ Len(entries) \in Nat
  BY LenProperties DEF Typed
<1>2. es \in [1..Len(entries) -> S]
  BY <1>1
<1>3. QED
  BY <1>1, <1>2, SeqDef

LEMMA EntriesTyped ==
    ASSUME Typed, Next
    PROVE  entries' \in Seq(Live')
<1>0. Live \subseteq Live' /\ Seq(Live) \subseteq Seq(Live') /\ LiveCreds \subseteq LiveCreds'
  BY LiveStep
<1>1. /\ entries \in Seq(Live) /\ \A i \in DOMAIN entries : entries[i] \in Live
      /\ \A id \in Ids : At(id) \in DOMAIN entries
  BY EntryFacts DEF Typed
<1>2. CASE UNCHANGED entries
  BY <1>0, <1>1, <1>2
<1>3. ASSUME NEW i \in DOMAIN entries, NEW c \in LiveCreds', entries' = [entries EXCEPT ![i].cred = c]
      PROVE  entries' \in Seq(Live')
  <2>1. entries[i] \in Entry
    BY <1>1 DEF Live
  <2>2. [entries[i] EXCEPT !.cred = c] \in Live'
    BY <2>1, <1>3 DEF Live, LiveCreds, Entry
  <2>3. entries' = [entries EXCEPT ![i] = [entries[i] EXCEPT !.cred = c]]
    BY <1>3
  <2>4. QED
    BY <1>0, <2>2, <2>3, EntryChanged
<1>4. ASSUME NEW w \in Workers, StoreRefreshed(w)
      PROVE  entries' \in Seq(Live')
  <2>1. task[w].cred \in LiveCreds'
    BY <1>0, <1>4, TaskFacts DEF StoreRefreshed
  <2>2. QED
    BY <1>1, <1>2, <1>3, <1>4, <2>1 DEF StoreRefreshed, Store
<1>5. ASSUME NEW i \in DOMAIN entries
      PROVE  /\ [entries[i].cred EXCEPT !.title = TRUE] \in LiveCreds'
             /\ [entries[i].cred EXCEPT !.prio = 1] \in LiveCreds'
             /\ [entries[i].cred EXCEPT !.fresh = FALSE] \in LiveCreds'
             /\ \A b \in BOOLEAN : [entries[i] EXCEPT !.dis = b] \in Live'
  <2>1. entries[i] \in Entry /\ entries[i].cred \in LiveCreds
    BY <1>1 DEF Live
  <2>2. /\ [entries[i].cred EXCEPT !.title = TRUE] \in LiveCreds
        /\ [entries[i].cred EXCEPT !.prio = 1] \in LiveCreds
        /\ [entries[i].cred EXCEPT !.fresh = FALSE] \in LiveCreds
    <3> DEFINE c == entries[i].cred
    <3>0. c \in Creds /\ c.acct \in Accounts /\ c.rt <= server[c.acct]
      BY <2>1 DEF LiveCreds
    <3> HIDE DEF c
    <3>1. [c EXCEPT !.title = TRUE] \in LiveCreds
      BY <3>0 DEF LiveCreds, Creds
    <3>2. [c EXCEPT !.prio = 1] \in LiveCreds
      BY <3>0 DEF LiveCreds, Creds
    <3>3. [c EXCEPT !.fresh = FALSE] \in LiveCreds
      BY <3>0 DEF LiveCreds, Creds
    <3>4. QED
      BY <3>1, <3>2, <3>3 DEF c
  <2>3. \A b \in BOOLEAN : [entries[i] EXCEPT !.dis = b] \in Live
    BY <2>1 DEF Entry, Live
  <2>4. QED
    BY <1>0, <2>2, <2>3
<1>6. ASSUME NEW w \in Workers, UsageReply(w)
      PROVE  entries' \in Seq(Live')
  <2>1. UNCHANGED entries \/ \E i \in DOMAIN entries :
            entries' = [entries EXCEPT ![i].cred = [entries[i].cred EXCEPT !.title = TRUE]]
    BY <1>1, <1>6 DEF UsageReply
  <2>2. QED
    BY <1>2, <1>3, <1>5, <2>1
<1>7. ASSUME NEW w \in Workers, Edit(w)
      PROVE  entries' \in Seq(Live')
  <2>1. \E i \in DOMAIN entries :
            entries' = [entries EXCEPT ![i].cred = [entries[i].cred EXCEPT !.prio = 1]]
    BY <1>1, <1>7 DEF Edit
  <2>2. QED
    BY <1>3, <1>5, <2>1
<1>8. ASSUME NEW w \in Workers, SetDisabled(w)
      PROVE  entries' \in Seq(Live')
  <2>1. PICK i \in DOMAIN entries, b \in BOOLEAN :
            entries' = [entries EXCEPT ![i] = [entries[i] EXCEPT !.dis = b]]
    BY <1>1, <1>8 DEF SetDisabled
  <2>2. [entries[i] EXCEPT !.dis = b] \in Live'
    BY <1>5
  <2>3. QED
    BY <1>0, <2>1, <2>2, EntryChanged
<1>9. ASSUME NEW w \in Workers, Delete(w)
      PROVE  entries' \in Seq(Live')
  <2>1. \E T : entries' = Kept(entries, T)
    BY <1>9 DEF Delete
  <2>2. QED
    BY <1>0, <1>1, <2>1, KeptProperties
<1>10. ASSUME NEW w \in Workers, PushEntry(w)
       PROVE  entries' \in Seq(Live')
  <2>1. entries' = Append(entries, [id |-> task[w].id, dis |-> FALSE, cred |-> task[w].cred])
    BY <1>10 DEF PushEntry
  <2>2. task[w].cred \in LiveCreds /\ task[w].id \in Nat \ {0}
    BY <1>10, TaskFacts DEF PushEntry, Tasks
  <2>3. [id |-> task[w].id, dis |-> FALSE, cred |-> task[w].cred] \in Live
    BY <2>2 DEF Live, LiveCreds, Entry
  <2>4. QED
    BY <1>0, <1>1, <2>1, <2>3, AppendProperties
<1>11. CASE Expire
  <2>1. \E i \in DOMAIN entries :
            entries' = [entries EXCEPT ![i].cred = [entries[i].cred EXCEPT !.fresh = FALSE]]
    BY <1>11 DEF Expire
  <2>2. QED
    BY <1>3, <1>5, <2>1
<1>12. CASE Crash
  BY <1>12, EmptySeq DEF Crash
<1>13. CASE Boot
  <2>1. disk.list \in Seq(Live)
    BY DEF Typed
  <2>2. Sorted(disk.list) \in Seq(Live)
    BY <2>1, KeptProperties, ConcatProperties DEF Sorted
  <2>3. QED
    BY <1>0, <1>2, <1>13, <2>2 DEF Boot
<1>14. ASSUME NEW w \in Workers, Work(w), ~StoreRefreshed(w), ~UsageReply(w), ~Edit(w),
              ~SetDisabled(w), ~Delete(w), ~PushEntry(w)
       PROVE  UNCHANGED entries
  BY <1>14 DEF Work, Refresh, Persist, Admin, BeginEnsure, BeginForce, BeginUsage,
     LockedNoEntry, LockedFresh, LockedStale, Refreshed, ReplyRefused, RefreshFailed, ReplyLost,
     Snapshot, SaveFailed, Truncate, Write, BeginAdd, ChooseId, mem
<1>15. CASE AllOver
  BY <1>2, <1>15 DEF AllOver, vars, mem
<1>16. QED
  BY <1>2, <1>4, <1>6, <1>7, <1>8, <1>9, <1>10, <1>11, <1>12, <1>13, <1>14, <1>15 DEF Next

\* points at which the credentials of a request do not matter
Plain == {"idle", "wait", "save", "truncate", "write", "fetch"}

LEMMA PlainTask ==
    ASSUME NEW pc \in Plain, NEW k \in AllOps \cup {"none"}, NEW id \in Nat, NEW c \in Creds
    PROVE  Task(pc, k, id, c) \in LiveTasks /\ Task(pc, k, id, c) \in LiveTasks'
<1>1. << >> \in Seq(Live) /\ << >> \in Seq(Live') /\ << >> \in Seq(Entry)
  BY EmptySeq
<1>2. Task(pc, k, id, c) \in Tasks
  BY <1>1 DEF Task, Tasks, Plain, PCs
<1>3. Task(pc, k, id, c).pc \in Plain /\ Task(pc, k, id, c).snap = << >>
  BY DEF Task
<1>4. QED
  BY <1>1, <1>2, <1>3 DEF LiveTasks, Plain

LEMMA NoCredTyped == NoCred \in Creds
  BY BoundsAssumption DEF NoCred, Cred, Creds

LEMMA IdleTyped == Idle \in LiveTasks /\ Idle \in LiveTasks'
<1>1. "idle" \in Plain
  BY DEF Plain
<1>2. QED
  BY <1>1, NoCredTyped, PlainTask DEF Idle

LEMMA TasksTyped ==
    ASSUME Typed, Next
    PROVE  task' \in [Workers -> LiveTasks']
<1>0. /\ task \in [Workers -> LiveTasks] /\ LiveTasks \subseteq LiveTasks'
      /\ LiveCreds \subseteq LiveCreds' /\ Seq(Live) \subseteq Seq(Live')
  BY LiveStep DEF Typed
<1>1. ASSUME NEW w, NEW t \in LiveTasks', task' = [task EXCEPT ![w] = t]
      PROVE  task' \in [Workers -> LiveTasks']
  BY <1>0, <1>1
<1>2. CASE UNCHANGED task
  BY <1>0, <1>2
<1>3. /\ \A id \in Ids : /\ id \in Nat /\ At(id) \in DOMAIN entries
                           /\ entries[At(id)].cred \in Creds /\ entries[At(id)].cred \in LiveCreds
      /\ \A i \in DOMAIN entries : entries[i].id \in Nat \ {0}
  BY EntryFacts DEF Ids, Live, Entry
<1>4. ASSUME NEW w, task' = [task EXCEPT ![w] = Idle]
      PROVE  task' \in [Workers -> LiveTasks']
  BY <1>1, <1>4, IdleTyped
<1>5. ASSUME NEW w, NEW k \in AllOps, NEW id \in Nat, NEW pc \in Plain, NEW c \in Creds,
             task' = [task EXCEPT ![w] = Task(pc, k, id, c)]
      PROVE  task' \in [Workers -> LiveTasks']
  <2>1. Task(pc, k, id, c) \in LiveTasks'
    BY PlainTask
  <2>2. QED
    BY <1>1, <1>5, <2>1
<1>6. ASSUME NEW w \in Workers, NEW pc \in Plain, task' = [task EXCEPT ![w].pc = pc]
      PROVE  task' \in [Workers -> LiveTasks']
  <2>1. [task[w] EXCEPT !.pc = pc] \in LiveTasks
    BY TaskFacts DEF LiveTasks, Tasks, Plain, PCs
  <2>2. task' = [task EXCEPT ![w] = [task[w] EXCEPT !.pc = pc]]
    BY <1>6
  <2>3. QED
    BY <1>0, <1>1, <2>1, <2>2
<1>7. ASSUME NEW w \in Workers, BeginEnsure(w) \/ BeginForce(w) \/ BeginUsage(w)
      PROVE  task' \in [Workers -> LiveTasks']
  <2>1. \E k \in AllOps, id \in Nat, pc \in Plain, c \in Creds :
            task' = [task EXCEPT ![w] = Task(pc, k, id, c)]
    <3>1. CASE BeginEnsure(w)
      <4>1. PICK id \in Ids :
                task' = [task EXCEPT ![w] = Task("wait", "ensure", id, entries[At(id)].cred)]
        BY <3>1 DEF BeginEnsure, Begin
      <4>2. QED
        BY <1>3, <4>1 DEF AllOps, Plain
    <3>2. CASE BeginForce(w)
      <4>1. PICK id \in Ids : task' = [task EXCEPT ![w] = Task("wait", "force", id, NoCred)]
        BY <3>2 DEF BeginForce, Begin
      <4>2. QED
        BY <1>3, <4>1, NoCredTyped DEF AllOps, Plain
    <3>3. CASE BeginUsage(w)
      <4>1. PICK id \in Ids :
                \/ task' = [task EXCEPT ![w] = Task("fetch", "usage", id, NoCred)]
                \/ task' = [task EXCEPT ![w] = Task("wait", "usage", id, entries[At(id)].cred)]
        BY <3>3 DEF BeginUsage, Begin
      <4>2. QED
        BY <1>3, <4>1, NoCredTyped DEF AllOps, Plain
    <3>4. QED
      BY <1>7, <3>1, <3>2, <3>3
  <2>2. PICK k \in AllOps, id \in Nat, pc \in Plain, c \in Creds :
            task' = [task EXCEPT ![w] = Task(pc, k, id, c)]
    BY <2>1
  <2>3. QED
    BY <1>5, <2>2
<1>8. ASSUME NEW w \in Workers,
             \/ LockedNoEntry(w) \/ LockedFresh(w)
             \/ StoreRefreshed(w) \/ Snapshot(w) \/ SaveFailed(w) \/ Truncate(w) \/ Write(w)
             \/ UsageReply(w) \/ ReplyRefused(w) \/ RefreshFailed(w)
      PROVE  task' \in [Workers -> LiveTasks']
  <2>0. task[w] \in Tasks /\ task[w].id \in Nat /\ "usage" \in AllOps /\ "save" \in Plain
        /\ "truncate" \in Plain /\ "write" \in Plain /\ "fetch" \in Plain
    BY TaskFacts DEF Tasks, AllOps, Plain
  <2>1. ASSUME task' = [task EXCEPT ![w] = Task("fetch", "usage", task[w].id, NoCred)]
        PROVE  task' \in [Workers -> LiveTasks']
    BY <1>5, <2>0, <2>1, NoCredTyped
  <2>2. CASE LockedNoEntry(w) \/ ReplyRefused(w) \/ RefreshFailed(w)
    BY <1>4, <2>2 DEF LockedNoEntry, ReplyRefused, RefreshFailed, End
  <2>3. CASE LockedFresh(w)
    BY <1>4, <2>1, <2>3 DEF LockedFresh, End
  <2>4. CASE SaveFailed(w) \/ Write(w)
    BY <1>4, <2>1, <2>4 DEF SaveFailed, Write, Saved, End
  <2>5. CASE Truncate(w)
    BY <1>6, <2>0, <2>5 DEF Truncate, Goto
  <2>6. CASE UsageReply(w)
    BY <1>4, <1>6, <2>0, <2>6 DEF UsageReply, Goto, End
  <2>7. CASE StoreRefreshed(w)
    <3> DEFINE t == [task[w] EXCEPT !.pc = "save", !.cred = NoCred]
    <3>1. t \in LiveTasks
      BY TaskFacts, NoCredTyped DEF LiveTasks, Tasks, PCs
    <3>2. task' = [task EXCEPT ![w] = t]
      BY <2>7 DEF StoreRefreshed
    <3> HIDE DEF t
    <3>3. QED
      BY <1>0, <1>1, <3>1, <3>2
  <2>8. CASE Snapshot(w)
    <3> DEFINE t == [task[w] EXCEPT !.pc = "truncate", !.snap = entries]
    <3>1. entries \in Seq(Live) /\ Live \subseteq Entry
      BY DEF Typed, Live
    <3>2. entries \in Seq(Entry)
      <4>1. Len(entries) \in Nat /\ entries \in [1..Len(entries) -> Entry]
        BY <3>1, LenProperties
      <4>2. QED
        BY <4>1, SeqDef
    <3>3. t \in LiveTasks
      BY <3>1, <3>2, TaskFacts DEF LiveTasks, Tasks, PCs
    <3>4. task' = [task EXCEPT ![w] = t]
      BY <2>8 DEF Snapshot
    <3> HIDE DEF t
    <3>5. QED
      BY <1>0, <1>1, <3>3, <3>4
  <2>9. QED
    BY <1>8, <2>2, <2>3, <2>4, <2>5, <2>6, <2>7, <2>8
<1>9. ASSUME NEW w \in Workers, LockedStale(w)
      PROVE  task' \in [Workers -> LiveTasks']
  <2> DEFINE c == Reread(w)
             t == [task[w] EXCEPT !.pc = "ask", !.cred = c]
  <2>1. c \in Creds /\ c \in LiveCreds
    BY <1>3, <1>9 DEF LockedStale, Reread
  <2> HIDE DEF c
  <2>2. t \in LiveTasks
    BY <2>1, TaskFacts DEF LiveTasks, Tasks, PCs
  <2>3. task' = [task EXCEPT ![w] = t]
    BY <1>9 DEF LockedStale, c
  <2> HIDE DEF t
  <2>4. QED
    BY <1>0, <1>1, <2>2, <2>3
<1>10. ASSUME NEW w \in Workers, Refreshed(w)
       PROVE  task' \in [Workers -> LiveTasks']
  <2>0. PICK f \in BOOLEAN :
            task' = [task EXCEPT ![w].cred = Renewed(@, f),
                                 ![w].pc = IF task[w].kind = "add" THEN "number" ELSE "store"]
    BY <1>10 DEF Refreshed
  <2> DEFINE c == Renewed(task[w].cred, f)
             pc == IF task[w].kind = "add" THEN "number" ELSE "store"
             t == [task[w] EXCEPT !.pc = pc, !.cred = c]
  <2>1. task[w].cred \in Creds /\ task[w].cred.acct \in Accounts
    BY <1>10, TaskFacts DEF Refreshed, LiveCreds
  <2>2. server' \in [Accounts -> 0..MaxRotations]
    BY ServerStep
  <2>3. server'[task[w].cred.acct] \in 0..MaxRotations
        /\ server'[task[w].cred.acct] <= server'[task[w].cred.acct]
    BY <2>1, <2>2, BoundsAssumption
  <2>4. c \in Creds /\ c.acct = task[w].cred.acct /\ c.rt = server'[task[w].cred.acct]
    BY <2>1, <2>3 DEF Renewed, Creds
  <2>5. c \in LiveCreds'
    BY <2>1, <2>3, <2>4 DEF LiveCreds
  <2>6. task' = [task EXCEPT ![w] = t]
    BY <2>0
  <2> HIDE DEF c
  <2>7. t \in Tasks /\ t.cred = c /\ t.snap = task[w].snap /\ t.pc # "push"
    BY <2>4, TaskFacts DEF Tasks, PCs
  <2> HIDE DEF t, pc
  <2>8. t.snap \in Seq(Live')
    BY <1>0, <2>7, TaskFacts
  <2>9. t \in LiveTasks'
    BY <2>5, <2>7, <2>8 DEF LiveTasks
  <2>10. QED
    BY <1>1, <2>6, <2>9
<1>11. ASSUME NEW w \in Workers, ReplyLost(w)
       PROVE  task' \in [Workers -> LiveTasks']
  BY <1>2, <1>4, <1>11 DEF ReplyLost, End
<1>12. ASSUME NEW w \in Workers,
              Edit(w) \/ SetDisabled(w) \/ Delete(w) \/ PushEntry(w)
       PROVE  task' \in [Workers -> LiveTasks']
  <2>1. \E k \in AllOps : task' = [task EXCEPT ![w] = Task("save", k, 0, NoCred)]
    BY <1>12 DEF Edit, SetDisabled, Delete, PushEntry, Begin, AllOps
  <2>2. QED
    BY <1>5, <2>1, NoCredTyped DEF Plain
<1>13. ASSUME NEW w \in Workers, BeginAdd(w)
       PROVE  task' \in [Workers -> LiveTasks']
  <2>1. PICK a \in NewAccounts :
            task' = [task EXCEPT ![w] = Task("ask", "add", 0, Cred(a, 0, FALSE))]
    BY <1>13 DEF BeginAdd, Begin
  <2>2. a \in Accounts /\ server[a] \in 0..MaxRotations
    BY AccountsAssumption DEF Typed
  <2>3. Cred(a, 0, FALSE) \in Creds /\ Cred(a, 0, FALSE).acct = a /\ Cred(a, 0, FALSE).rt = 0
    BY <2>2, BoundsAssumption DEF Cred, Creds
  <2> DEFINE c == Cred(a, 0, FALSE)
  <2> HIDE DEF c
  <2>4. c \in LiveCreds
    <3>0. 0 <= server[a]
      BY <2>2, BoundsAssumption
    <3>1. c \in Creds /\ c.acct = a /\ c.rt = 0 /\ 0 <= server[a]
      BY <2>3, <3>0 DEF c
    <3>2. QED
      BY <2>2, <3>1 DEF LiveCreds
  <2>5. Task("ask", "add", 0, c) \in LiveTasks
    BY <2>3, <2>4, EmptySeq DEF Task, Tasks, LiveTasks, PCs, AllOps, c
  <2>6. QED
    BY <1>0, <1>1, <2>1, <2>5 DEF c
<1>14. ASSUME NEW w \in Workers, ChooseId(w)
       PROVE  task' \in [Workers -> LiveTasks']
  <2> DEFINE t == [task[w] EXCEPT !.id = NewId, !.pc = "push"]
  <2>1. NewId \in Nat \ {0}
    BY <1>3, NewIdPositive DEF Typed
  <2>2. task[w].cred \in LiveCreds
    BY <1>14, TaskFacts DEF ChooseId
  <2>3. t \in LiveTasks
    BY <2>1, <2>2, TaskFacts DEF LiveTasks, Tasks, PCs
  <2>4. task' = [task EXCEPT ![w] = t]
    BY <1>14 DEF ChooseId
  <2> HIDE DEF t
  <2>5. QED
    BY <1>0, <1>1, <2>3, <2>4
<1>15. CASE Expire \/ Boot \/ AllOver
  BY <1>2, <1>15 DEF Expire, Boot, AllOver, vars
<1>16. CASE Crash
  BY <1>16, IdleTyped DEF Crash
<1>17. QED
  BY <1>7, <1>8, <1>9, <1>10, <1>11, <1>12, <1>13, <1>14, <1>15, <1>16
  DEF Next, Work, Refresh, Persist, Admin

LEMMA WorkKeepsUp ==
    ASSUME NEW w \in Workers, Work(w)
    PROVE  up' = up
BY DEF Work, Refresh, Persist, Admin, BeginEnsure, BeginForce, BeginUsage, LockedNoEntry,
   LockedFresh, LockedStale, Refreshed, ReplyRefused, RefreshFailed, ReplyLost, StoreRefreshed,
   Snapshot, SaveFailed, Truncate, Write, UsageReply, Edit, SetDisabled, Delete, BeginAdd,
   ChooseId, PushEntry, file

\* An account whose token is out of the program's hands stays one.
LEMMA GivenGrows ==
    ASSUME Typed, Next
    PROVE  given \subseteq given' /\ given' \subseteq Accounts
<1>0. given \subseteq Accounts /\ \A i \in DOMAIN entries : entries[i].cred.acct \in Accounts
  BY EntryFacts DEF Typed, Live, LiveCreds
<1>1. CASE UNCHANGED given
  BY <1>0, <1>1
<1>2. ASSUME NEW w \in Workers, ReplyRefused(w) \/ ReplyLost(w)
      PROVE  given \subseteq given' /\ given' \subseteq Accounts
  <2>1. task[w].cred.acct \in Accounts
    BY <1>2, TaskFacts DEF ReplyRefused, ReplyLost, LiveCreds
  <2>2. QED
    BY <1>0, <1>2, <2>1 DEF ReplyRefused, ReplyLost
<1>3. ASSUME NEW w \in Workers, StoreRefreshed(w)
      PROVE  given \subseteq given' /\ given' \subseteq Accounts
  <2>1. CASE task[w].id \in Ids
    <3>1. Reread(w).acct \in Accounts
      BY <1>0, <2>1, EntryFacts DEF Reread
    <3>2. QED
      BY <1>0, <1>3, <2>1, <3>1 DEF StoreRefreshed, Store
  <2>2. CASE task[w].id \notin Ids
    BY <1>0, <1>3, <2>2 DEF StoreRefreshed, Store
  <2>3. QED
    BY <2>1, <2>2
<1>4. ASSUME NEW w \in Workers, Delete(w)
      PROVE  given \subseteq given' /\ given' \subseteq Accounts
  <2>1. PICK id : given' = given \cup {entries[i].cred.acct :
                                            i \in {j \in DOMAIN entries : entries[j].id = id}}
    BY <1>4 DEF Delete
  <2>2. QED
    BY <1>0, <2>1
<1>5. ASSUME NEW w \in Workers, Work(w), ~ReplyRefused(w), ~ReplyLost(w), ~StoreRefreshed(w),
             ~Delete(w)
      PROVE  UNCHANGED given
  BY <1>5 DEF Work, Refresh, Persist, Admin, BeginEnsure, BeginForce, BeginUsage, LockedNoEntry,
     LockedFresh, LockedStale, Refreshed, ReplyRefused, RefreshFailed, Snapshot, SaveFailed,
     Truncate, Write, UsageReply, Edit, SetDisabled, BeginAdd, ChooseId, PushEntry
<1>6. CASE Crash
  BY <1>0, <1>6 DEF Crash
<1>7. CASE Expire \/ Boot \/ AllOver
  BY <1>1, <1>7 DEF Expire, Boot, AllOver, vars
<1>8. QED
  BY <1>1, <1>2, <1>3, <1>4, <1>5, <1>6, <1>7 DEF Next

\* An account whose entry an admin has deleted stays one, and its token is out of the
\* program's hands.
LEMMA DeletedGrows ==
    ASSUME Typed, Next
    PROVE  deleted \subseteq deleted' /\ deleted' \subseteq given'
<1>0. deleted \subseteq given
  BY DEF Typed
<1>1. given \subseteq given'
  BY GivenGrows
<1>2. ASSUME NEW w \in Workers, Delete(w)
      PROVE  \E S : given' = given \cup S /\ deleted' = deleted \cup S
  BY <1>2 DEF Delete
<1>3. ASSUME NEW w \in Workers, Work(w), ~Delete(w)
      PROVE  UNCHANGED deleted
  BY <1>3 DEF Work, Refresh, Persist, Admin, BeginEnsure, BeginForce, BeginUsage, LockedNoEntry,
     LockedFresh, LockedStale, Refreshed, ReplyRefused, RefreshFailed, ReplyLost, StoreRefreshed,
     Snapshot, SaveFailed, Truncate, Write, UsageReply, Edit, SetDisabled, BeginAdd, ChooseId,
     PushEntry
<1>4. ASSUME Expire \/ Crash \/ Boot \/ AllOver
      PROVE  UNCHANGED deleted
  BY <1>4 DEF Expire, Crash, Boot, AllOver, vars
<1>5. QED
  BY <1>0, <1>1, <1>2, <1>3, <1>4 DEF Next

LEMMA TypedInit == Init => Typed
<1> SUFFICES ASSUME Init PROVE Typed
  OBVIOUS
<1>0. InitAccounts \in Seq(Accounts) /\ MaxRotations \in Nat /\ MaxJobs \in Nat /\ MaxFaults \in Nat
  BY AccountsAssumption, BoundsAssumption
<1>1. Len(InitAccounts) \in Nat /\ DOMAIN InitAccounts = 1..Len(InitAccounts)
  BY <1>0, LenProperties
<1>2. \A i \in 1..Len(InitAccounts) : InitAccounts[i] \in Accounts
  BY <1>0, <1>1, ElementOfSeq
<1>3. server \in [Accounts -> 0..MaxRotations] /\ \A a \in Accounts : server[a] = 0
  BY <1>0 DEF Init
<1>4. \A i \in 1..Len(InitAccounts) :
          [id |-> i, dis |-> FALSE, cred |-> Cred(InitAccounts[i], 0, FALSE)] \in Live
  <2> TAKE i \in 1..Len(InitAccounts)
  <2> DEFINE c == Cred(InitAccounts[i], 0, FALSE)
  <2>1. c \in Creds /\ c.acct \in Accounts /\ c.rt = 0
    BY <1>0, <1>2 DEF Cred, Creds
  <2> HIDE DEF c
  <2>2. c \in LiveCreds
    BY <1>3, <2>1 DEF LiveCreds
  <2>3. [id |-> i, dis |-> FALSE, cred |-> c] \in Live
    BY <1>1, <2>1, <2>2 DEF Live, Entry
  <2>4. QED
    BY <2>3 DEF c
<1>5. entries \in Seq(Live)
  <2>1. entries = [i \in 1..Len(InitAccounts) |->
                      [id |-> i, dis |-> FALSE, cred |-> Cred(InitAccounts[i], 0, FALSE)]]
    BY <1>1 DEF Init
  <2>2. entries \in [1..Len(InitAccounts) -> Live]
    BY <1>4, <2>1
  <2>3. QED
    BY <1>1, <2>2, SeqDef
<1>6. task \in [Workers -> LiveTasks]
  BY IdleTyped DEF Init
<1>7. disk.ok = TRUE /\ disk.list = entries /\ lock = NoWorker /\ up = "up"
  BY DEF Init
<1>8. /\ jobs \in 0..MaxJobs /\ faults \in 0..MaxFaults /\ saveFailed \in BOOLEAN
      /\ given \subseteq Accounts /\ deleted \subseteq given /\ overlapped \in BOOLEAN
  <2>1. /\ jobs = 0 /\ faults = 0 /\ saveFailed = FALSE
        /\ given = {} /\ deleted = {} /\ overlapped = FALSE
    BY DEF Init
  <2>2. 0 \in 0..MaxJobs /\ 0 \in 0..MaxFaults
    BY <1>0
  <2>3. QED
    BY <2>1, <2>2
<1>9. QED
  BY <1>3, <1>5, <1>6, <1>7, <1>8 DEF Typed

LEMMA TypedStep ==
    ASSUME Typed, Next
    PROVE  Typed'
<1>1. lock' \in Workers \cup {NoWorker}
  <2>0. lock \in Workers \cup {NoWorker}
    BY DEF Typed
  <2>1. ASSUME NEW w \in Workers, Work(w)
        PROVE  lock' = lock \/ lock' = w \/ lock' = NoWorker
    BY <2>1 DEF Work, Refresh, Persist, Admin, BeginEnsure, BeginForce, BeginUsage,
       LockedNoEntry, LockedFresh, LockedStale, Refreshed, ReplyRefused, RefreshFailed,
       ReplyLost, StoreRefreshed, Snapshot, SaveFailed, Truncate, Write, UsageReply, Edit,
       SetDisabled, Delete, BeginAdd, ChooseId, PushEntry, mem, Unlock, Saved
  <2>2. CASE Expire \/ Crash \/ Boot \/ AllOver
    BY <2>0, <2>2 DEF Expire, Crash, Boot, AllOver, mem, vars
  <2>3. QED
    BY <2>0, <2>1, <2>2 DEF Next
<1>2. disk'.ok \in BOOLEAN /\ disk'.list \in Seq(Live')
  <2>0. disk.ok \in BOOLEAN /\ disk.list \in Seq(Live') /\ << >> \in Seq(Live')
    BY LiveStep, EmptySeq DEF Typed
  <2>1. ASSUME NEW w \in Workers, Truncate(w)
        PROVE  disk'.ok = TRUE /\ disk'.list = << >>
    BY <2>1 DEF Truncate
  <2>2. ASSUME NEW w \in Workers, Write(w)
        PROVE  \/ disk'.ok = TRUE /\ disk'.list = task[w].snap
               \/ disk'.ok = FALSE /\ disk'.list = << >>
    BY <2>2 DEF Write
  <2>3. \A w \in Workers : task[w].snap \in Seq(Live')
    BY LiveStep, TaskFacts
  <2>4. ASSUME NEW w \in Workers, Work(w), ~Truncate(w), ~Write(w)
        PROVE  UNCHANGED disk
    BY <2>4 DEF Work, Refresh, Persist, Admin, BeginEnsure, BeginForce, BeginUsage,
       LockedNoEntry, LockedFresh, LockedStale, Refreshed, ReplyRefused, RefreshFailed,
       ReplyLost, StoreRefreshed, Snapshot, SaveFailed, UsageReply, Edit, SetDisabled, Delete,
       BeginAdd, ChooseId, PushEntry, file
  <2>5. CASE Expire \/ Crash \/ Boot \/ AllOver
    BY <2>0, <2>5 DEF Expire, Crash, Boot, AllOver, file, vars
  <2>6. ASSUME NEW w \in Workers, Work(w)
        PROVE  disk'.ok \in BOOLEAN /\ disk'.list \in Seq(Live')
    <3>1. CASE Truncate(w)
      <4>1. disk'.ok = TRUE /\ disk'.list = << >>
        BY <2>1, <3>1
      <4>2. QED
        BY <2>0, <4>1
    <3>2. CASE Write(w)
      <4>1. \/ disk'.ok = TRUE /\ disk'.list = task[w].snap
            \/ disk'.ok = FALSE /\ disk'.list = << >>
        BY <2>2, <3>2
      <4>2. QED
        BY <2>0, <2>3, <4>1
    <3>3. CASE ~Truncate(w) /\ ~Write(w)
      BY <2>0, <2>4, <2>6, <3>3
    <3>4. QED
      BY <3>1, <3>2, <3>3
  <2>7. QED
    BY <2>0, <2>5, <2>6 DEF Next
<1>3. up' \in {"up", "down", "refused"}
  <2>1. ASSUME NEW w \in Workers, Work(w)
        PROVE  up' = up
    BY <2>1, WorkKeepsUp
  <2>2. QED
    BY <2>1 DEF Next, Expire, Crash, Boot, AllOver, file, vars, Typed
<1>4. jobs' \in 0..MaxJobs /\ faults' \in 0..MaxFaults /\ saveFailed' \in BOOLEAN
  <2>0. /\ jobs \in 0..MaxJobs /\ faults \in 0..MaxFaults /\ saveFailed \in BOOLEAN
        /\ MaxJobs \in Nat /\ MaxFaults \in Nat
    BY BoundsAssumption DEF Typed
  <2>1. ASSUME NEW w \in Workers, Work(w)
        PROVE  /\ jobs' = jobs \/ (jobs < MaxJobs /\ jobs' = jobs + 1)
               /\ faults' = faults \/ (faults < MaxFaults /\ faults' = faults + 1)
               /\ saveFailed' = saveFailed \/ saveFailed' = TRUE
    BY <2>1 DEF Work, Refresh, Persist, Admin, BeginEnsure, BeginForce, BeginUsage,
       LockedNoEntry, LockedFresh, LockedStale, Refreshed, ReplyRefused, RefreshFailed,
       ReplyLost, StoreRefreshed, Snapshot, SaveFailed, Truncate, Write, UsageReply, Edit,
       SetDisabled, Delete, BeginAdd, ChooseId, PushEntry, counts, Begin
  <2>2. CASE Expire \/ Crash \/ Boot \/ AllOver
    BY <2>0, <2>2 DEF Expire, Crash, Boot, AllOver, counts, vars
  <2>3. ASSUME NEW w \in Workers, Work(w)
        PROVE  jobs' \in 0..MaxJobs /\ faults' \in 0..MaxFaults /\ saveFailed' \in BOOLEAN
    <3>0. /\ jobs' = jobs \/ (jobs < MaxJobs /\ jobs' = jobs + 1)
          /\ faults' = faults \/ (faults < MaxFaults /\ faults' = faults + 1)
          /\ saveFailed' = saveFailed \/ saveFailed' = TRUE
      BY <2>1, <2>3
    <3>1. jobs' \in 0..MaxJobs
      BY <2>0, <3>0
    <3>2. faults' \in 0..MaxFaults
      BY <2>0, <3>0
    <3>3. saveFailed' \in BOOLEAN
      BY <2>0, <3>0
    <3>4. QED
      BY <3>1, <3>2, <3>3
  <2>4. ASSUME Expire \/ Crash \/ Boot \/ AllOver
        PROVE  jobs' \in 0..MaxJobs /\ faults' \in 0..MaxFaults /\ saveFailed' \in BOOLEAN
    BY <2>2, <2>4
  <2>5. QED
    BY <2>3, <2>4 DEF Next
<1>5. overlapped' \in BOOLEAN
  <2>1. ASSUME NEW w \in Workers, Work(w)
        PROVE  overlapped' = overlapped \/ overlapped' = (overlapped \/ Saving # {})
    BY <2>1 DEF Work, Refresh, Persist, Admin, BeginEnsure, BeginForce, BeginUsage,
       LockedNoEntry, LockedFresh, LockedStale, Refreshed, ReplyRefused, RefreshFailed,
       ReplyLost, StoreRefreshed, Snapshot, SaveFailed, Truncate, Write, UsageReply, Edit,
       SetDisabled, Delete, BeginAdd, ChooseId, PushEntry
  <2>2. CASE Expire \/ Crash \/ Boot \/ AllOver
    BY <2>2 DEF Expire, Crash, Boot, AllOver, vars, Typed
  <2>3. QED
    BY <2>1, <2>2 DEF Next, Typed
<1>6. given' \subseteq Accounts /\ deleted' \subseteq given'
  BY GivenGrows, DeletedGrows
<1>7. QED
  BY <1>1, <1>2, <1>3, <1>4, <1>5, <1>6, ServerStep, EntriesTyped, TasksTyped DEF Typed

-----------------------------------------------------------------------------
(* What a step of one worker changes.                                       *)

LEMMA TaskFrame ==
    ASSUME Typed, NEW w \in Workers, Work(w)
    PROVE  /\ \A v \in Workers \ {w} : task'[v] = task[v]
           /\ task[w].pc # "idle" \/ up = "up"
<1>1. DOMAIN task = Workers
  BY DEF Typed
<1>2. UNCHANGED task \/ \E t : task' = [task EXCEPT ![w] = t]
  BY DEF Work, Refresh, Persist, Admin, BeginEnsure, BeginForce, BeginUsage, LockedNoEntry,
     LockedFresh, LockedStale, Refreshed, ReplyRefused, RefreshFailed, ReplyLost,
     StoreRefreshed, Snapshot, SaveFailed, Truncate, Write, UsageReply, Edit, SetDisabled,
     Delete, BeginAdd, ChooseId, PushEntry, Begin, Goto, End, Saved
<1>3. task[w].pc # "idle" \/ up = "up"
  BY DEF Work, Refresh, Persist, Admin, BeginEnsure, BeginForce, BeginUsage, LockedNoEntry,
     LockedFresh, LockedStale, Refreshed, ReplyRefused, RefreshFailed, ReplyLost,
     StoreRefreshed, Snapshot, SaveFailed, Truncate, Write, UsageReply, Edit, SetDisabled,
     Delete, BeginAdd, ChooseId, PushEntry, Begin
<1>4. QED
  BY <1>1, <1>2, <1>3

LEMMA WorksUp ==
    ASSUME Typed, StoppedEmpty, NEW w \in Workers, Work(w)
    PROVE  up = "up" /\ up' = "up"
<1>1. Idle.pc = "idle"
  BY DEF Idle, Task
<1>2. QED
  BY <1>1, TaskFrame, WorkKeepsUp DEF StoppedEmpty

\* The new task of the worker.
LEMMA TaskMoves ==
    ASSUME Typed, NEW w \in Workers, Work(w)
    PROVE  \/ task'[w].pc \in Plain \ {"wait"}
           \/ task'[w].pc = "wait" /\ task'[w].kind # "add"
           \/ /\ LockedStale(w) /\ task'[w].pc = "ask" /\ task'[w].kind = task[w].kind
              /\ task'[w].id = task[w].id /\ task'[w].cred = Reread(w)
           \/ /\ Refreshed(w) /\ task'[w].kind = task[w].kind /\ task'[w].id = task[w].id
              /\ task'[w].pc = IF task[w].kind = "add" THEN "number" ELSE "store"
              /\ task'[w].cred.acct = task[w].cred.acct
              /\ task'[w].cred.rt = server'[task[w].cred.acct]
           \/ ReplyLost(w) /\ task'[w] = task[w] /\ lock' = lock
           \/ /\ BeginAdd(w) /\ task'[w].pc = "ask" /\ task'[w].kind = "add"
              /\ task'[w].cred.rt = 0
           \/ /\ ChooseId(w) /\ task'[w].pc = "push" /\ task'[w].kind = task[w].kind
              /\ task'[w].cred = task[w].cred
<1>0. w \in DOMAIN task /\ task[w] \in Tasks
  BY TaskFacts DEF Typed
<1>1. \A pc, k, id, c : Task(pc, k, id, c).pc = pc /\ Task(pc, k, id, c).kind = k
                        /\ Task(pc, k, id, c).cred = c
  BY DEF Task
<1>2. Idle.pc = "idle"
  BY <1>1 DEF Idle
<1>3. CASE BeginEnsure(w) \/ BeginForce(w)
  <2>1. task'[w].pc = "wait" /\ task'[w].kind # "add"
    BY <1>0, <1>1, <1>3 DEF BeginEnsure, BeginForce, Begin
  <2>2. QED
    BY <2>1 DEF Plain
<1>4. CASE BeginUsage(w)
  <2>1. task'[w].pc \in {"fetch", "wait"} /\ task'[w].kind # "add"
    <3>1. PICK id \in Ids :
              task' = [task EXCEPT ![w] =
                          IF entries[At(id)].cred.fresh
                          THEN Task("fetch", "usage", id, NoCred)
                          ELSE Task("wait", "usage", id, entries[At(id)].cred)]
      BY <1>4 DEF BeginUsage, Begin
    <3>2. QED
      BY <1>0, <1>1, <3>1
  <2>2. QED
    BY <2>1 DEF Plain
<1>5. CASE \/ LockedNoEntry(w) \/ LockedFresh(w) \/ ReplyRefused(w) \/ RefreshFailed(w)
           \/ SaveFailed(w) \/ Write(w)
  <2>1. task'[w].pc \in {"idle", "fetch"}
    BY <1>0, <1>1, <1>2, <1>5 DEF LockedNoEntry, LockedFresh, ReplyRefused, RefreshFailed,
       SaveFailed, Write, Saved, End
  <2>2. QED
    BY <2>1 DEF Plain
<1>6. CASE StoreRefreshed(w) \/ Snapshot(w) \/ Truncate(w) \/ UsageReply(w)
  <2>1. CASE StoreRefreshed(w)
    BY <1>0, <2>1 DEF StoreRefreshed, Plain, Tasks
  <2>2. CASE Snapshot(w)
    BY <1>0, <2>2 DEF Snapshot, Plain, Tasks
  <2>3. CASE Truncate(w)
    BY <1>0, <2>3 DEF Truncate, Goto, Plain, Tasks
  <2>4. CASE UsageReply(w)
    <3>1. task'[w].pc \in {"save", "idle"}
      BY <1>0, <1>2, <2>4 DEF UsageReply, Goto, End, Tasks
    <3>2. QED
      BY <3>1 DEF Plain
  <2>5. QED
    BY <1>6, <2>1, <2>2, <2>3, <2>4
<1>7. CASE Edit(w) \/ SetDisabled(w) \/ Delete(w) \/ PushEntry(w)
  <2>1. \E k : task' = [task EXCEPT ![w] = Task("save", k, 0, NoCred)]
    BY <1>7 DEF Edit, SetDisabled, Delete, PushEntry, Begin
  <2>2. task'[w].pc = "save"
    BY <1>0, <1>1, <2>1
  <2>3. QED
    BY <2>2 DEF Plain
<1>8. CASE LockedStale(w)
  BY <1>0, <1>8 DEF LockedStale, Tasks
<1>9. CASE Refreshed(w)
  <2>1. task[w].cred \in Creds
    BY <1>0 DEF Tasks
  <2>2. PICK f \in BOOLEAN :
            task'[w] = [task[w] EXCEPT !.cred = Renewed(task[w].cred, f),
                            !.pc = IF task[w].kind = "add" THEN "number" ELSE "store"]
    BY <1>0, <1>9 DEF Refreshed
  <2>3. Renewed(task[w].cred, f).acct = task[w].cred.acct
        /\ Renewed(task[w].cred, f).rt = server'[task[w].cred.acct]
    BY <2>1 DEF Renewed, Creds
  <2>4. QED
    BY <1>0, <1>9, <2>2, <2>3 DEF Tasks
<1>10. CASE ReplyLost(w)
  <2>1. UNCHANGED <<task, lock>> \/ task'[w].pc = "idle"
    BY <1>0, <1>2, <1>10 DEF ReplyLost, End
  <2>2. QED
    BY <1>10, <2>1 DEF Plain
<1>11. CASE BeginAdd(w)
  <2>1. PICK a \in NewAccounts : task' = [task EXCEPT ![w] = Task("ask", "add", 0, Cred(a, 0, FALSE))]
    BY <1>11 DEF BeginAdd, Begin
  <2>2. Cred(a, 0, FALSE).rt = 0
    BY DEF Cred
  <2>3. task'[w] = Task("ask", "add", 0, Cred(a, 0, FALSE))
    BY <1>0, <2>1
  <2>4. task'[w].pc = "ask" /\ task'[w].kind = "add" /\ task'[w].cred = Cred(a, 0, FALSE)
    BY <2>3 DEF Task
  <2>5. QED
    BY <1>11, <2>2, <2>4
<1>12. CASE ChooseId(w)
  BY <1>0, <1>12 DEF ChooseId, Tasks
<1>13. QED
  BY <1>3, <1>4, <1>5, <1>6, <1>7, <1>8, <1>9, <1>10, <1>11, <1>12
  DEF Work, Refresh, Persist, Admin

LEMMA LockMoves ==
    ASSUME NEW w \in Workers, Work(w)
    PROVE  /\ lock' = lock \/ lock = w \/ (lock = NoWorker /\ lock' = w)
           /\ Refreshed(w) => lock' = lock
           /\ LockedStale(w) => lock' = w
BY DEF Work, Refresh, Persist, Admin, BeginEnsure, BeginForce, BeginUsage, LockedNoEntry,
   LockedFresh, LockedStale, LockFree, Refreshed, ReplyRefused, RefreshFailed, ReplyLost,
   StoreRefreshed, Snapshot, SaveFailed, Truncate, Write, UsageReply, Edit, SetDisabled, Delete,
   BeginAdd, ChooseId, PushEntry, mem, Unlock, Saved

LEMMA StoppedEmptyInit == Init => StoppedEmpty
BY DEF Init, StoppedEmpty

LEMMA StoppedEmptyStep ==
    ASSUME Typed, StoppedEmpty, Next
    PROVE  StoppedEmpty'
<1>1. ASSUME NEW w \in Workers, Work(w)
      PROVE  StoppedEmpty'
  BY <1>1, WorksUp DEF StoppedEmpty
<1>2. CASE Expire
  BY <1>2 DEF Expire, StoppedEmpty, file
<1>3. CASE Crash
  <2>1. \A w \in Workers : task'[w] = Idle
    BY <1>3 DEF Crash
  <2>2. QED
    BY <1>3, <2>1 DEF Crash, StoppedEmpty, Idle, Task, NoCred, Cred
<1>4. CASE Boot
  BY <1>4 DEF Boot, StoppedEmpty
<1>5. CASE AllOver
  BY <1>5 DEF AllOver, vars, mem, file, StoppedEmpty
<1>6. QED
  BY <1>1, <1>2, <1>3, <1>4, <1>5 DEF Next

-----------------------------------------------------------------------------
(* Refreshes.                                                               *)

\* A step that is no worker's leaves every task, or ends it.
LEMMA OtherSteps ==
    ASSUME Typed, StoppedEmpty, Expire \/ Crash \/ Boot \/ AllOver
    PROVE  \/ UNCHANGED <<task, lock>>
           \/ \A w \in Workers : task'[w].pc = "idle" /\ task'[w].kind = "none" /\ task'[w].snap = << >>
<1>1. Idle.pc = "idle" /\ Idle.kind = "none" /\ Idle.snap = << >>
  BY DEF Idle, Task
<1>2. CASE Crash
  <2>1. \A w \in Workers : task'[w] = Idle
    BY <1>2 DEF Crash
  <2>2. QED
    BY <1>1, <2>1
<1>3. CASE Expire \/ Boot \/ AllOver
  BY <1>3 DEF Expire, Boot, AllOver, vars, mem
<1>4. QED
  BY <1>2, <1>3

LEMMA KindsFitStep ==
    ASSUME Typed, StoppedEmpty, KindsFit, Next
    PROVE  KindsFit'
<1> DEFINE Fits(t) == /\ t.pc \in {"wait", "store"} => t.kind # "add"
                      /\ t.pc \in {"number", "push"} => t.kind = "add"
                      /\ t.pc = "ask" /\ t.kind = "add" => t.cred.rt = 0
<1>1. \A w \in Workers : Fits(task[w])
  BY DEF KindsFit
<1>2. ASSUME NEW w \in Workers, Work(w)
      PROVE  \A v \in Workers : Fits(task'[v])
  <2>1. Fits(task'[w])
    <3>1. CASE task'[w].pc \in Plain \ {"wait"} \/ (task'[w].pc = "wait" /\ task'[w].kind # "add")
      BY <3>1 DEF Plain
    <3>2. CASE LockedStale(w) /\ task'[w].pc = "ask" /\ task'[w].kind = task[w].kind
      <4>1. task[w].kind # "add"
        BY <1>1, <3>2 DEF LockedStale
      <4>2. QED
        BY <3>2, <4>1
    <3>3. CASE /\ Refreshed(w) /\ task'[w].kind = task[w].kind
               /\ task'[w].pc = IF task[w].kind = "add" THEN "number" ELSE "store"
      BY <3>3
    <3>4. CASE ReplyLost(w) /\ task'[w] = task[w]
      BY <1>1, <3>4
    <3>5. CASE BeginAdd(w) /\ task'[w].pc = "ask" /\ task'[w].kind = "add" /\ task'[w].cred.rt = 0
      BY <3>5
    <3>6. CASE /\ ChooseId(w) /\ task'[w].pc = "push" /\ task'[w].kind = task[w].kind
               /\ task'[w].cred = task[w].cred
      BY <1>1, <3>6 DEF ChooseId
    <3>7. QED
      BY <1>2, <3>1, <3>2, <3>3, <3>4, <3>5, <3>6, TaskMoves
  <2>2. \A v \in Workers \ {w} : Fits(task'[v])
    BY <1>1, <1>2, TaskFrame
  <2>3. QED
    BY <2>1, <2>2
<1>3. ASSUME Expire \/ Crash \/ Boot \/ AllOver
      PROVE  \A v \in Workers : Fits(task'[v])
  <2>1. CASE UNCHANGED task
    BY <1>1, <2>1
  <2>2. CASE \A v \in Workers : task'[v].pc = "idle"
    BY <2>2
  <2>3. QED
    BY <1>3, <2>1, <2>2, OtherSteps
<1>4. \A v \in Workers : Fits(task'[v])
  BY <1>2, <1>3 DEF Next
<1>5. QED
  BY <1>4 DEF KindsFit

LEMMA RefreshLockedStep ==
    ASSUME Typed, StoppedEmpty, KindsFit, RefreshLocked, Next
    PROVE  RefreshLocked'
<1>0. NoWorker \notin Workers
  BY WorkersAssumption
<1>1. ASSUME NEW w \in Workers, Work(w), NEW v \in Workers,
             task'[v].kind # "add", task'[v].pc \in {"ask", "store"}
      PROVE  lock' = v
  <2>1. CASE v # w
    <3>1. task'[v] = task[v]
      BY <1>1, <2>1, TaskFrame
    <3>2. lock = v
      BY <1>1, <3>1 DEF RefreshLocked, Refreshing
    <3>3. QED
      BY <1>0, <1>1, <2>1, <3>2, LockMoves
  <2>2. CASE v = w
    <3>1. CASE task'[w].pc \in Plain \ {"wait"} \/ task'[w].pc = "wait"
      BY <1>1, <2>2, <3>1 DEF Plain
    <3>2. CASE LockedStale(w)
      BY <1>1, <2>2, <3>2, LockMoves
    <3>3. CASE Refreshed(w) /\ task'[w].kind = task[w].kind
      BY <1>1, <2>2, <3>3, LockMoves DEF RefreshLocked, Refreshing, Refreshed
    <3>4. CASE ReplyLost(w) /\ task'[w] = task[w] /\ lock' = lock
      BY <1>1, <2>2, <3>4 DEF RefreshLocked, Refreshing
    <3>5. CASE (BeginAdd(w) /\ task'[w].kind = "add") \/ (ChooseId(w) /\ task'[w].pc = "push")
      BY <1>1, <2>2, <3>5
    <3>6. QED
      BY <1>1, <3>1, <3>2, <3>3, <3>4, <3>5, TaskMoves
  <2>3. QED
    BY <2>1, <2>2
<1>2. ASSUME Expire \/ Crash \/ Boot \/ AllOver, NEW v \in Workers,
             task'[v].kind # "add", task'[v].pc \in {"ask", "store"}
      PROVE  lock' = v
  <2>1. CASE UNCHANGED <<task, lock>>
    BY <1>2, <2>1 DEF RefreshLocked, Refreshing
  <2>2. CASE \A w \in Workers : task'[w].pc = "idle"
    BY <1>2, <2>2
  <2>3. QED
    BY <1>2, <2>1, <2>2, OtherSteps
<1>3. QED
  BY <1>1, <1>2 DEF Next, RefreshLocked, Refreshing

\* No id, account or token of an entry is other than before.
SameTokens(es, fs) ==
    /\ DOMAIN fs = DOMAIN es
    /\ \A i \in DOMAIN es : /\ fs[i].id = es[i].id /\ fs[i].cred.acct = es[i].cred.acct
                            /\ fs[i].cred.rt = es[i].cred.rt

Edits == (\E w \in Workers : UsageReply(w) \/ Edit(w) \/ SetDisabled(w)) \/ Expire

LEMMA EditsKeepTokens ==
    ASSUME Typed, Edits
    PROVE  SameTokens(entries, entries')
<1>0. /\ \A i \in DOMAIN entries : entries[i] \in Entry
      /\ \A id \in Ids : At(id) \in DOMAIN entries
  BY EntryFacts DEF Live
<1>1. ASSUME NEW i \in DOMAIN entries, NEW e, entries' = [entries EXCEPT ![i] = e],
             e.id = entries[i].id, e.cred.acct = entries[i].cred.acct, e.cred.rt = entries[i].cred.rt
      PROVE  SameTokens(entries, entries')
  <2>1. DOMAIN entries' = DOMAIN entries /\ entries'[i] = e
        /\ \A j \in DOMAIN entries : j # i => entries'[j] = entries[j]
    BY <1>1
  <2>2. QED
    BY <1>1, <2>1 DEF SameTokens
<1>2. ASSUME NEW i \in DOMAIN entries, NEW c, entries' = [entries EXCEPT ![i].cred = c],
             c.acct = entries[i].cred.acct, c.rt = entries[i].cred.rt
      PROVE  SameTokens(entries, entries')
  <2>1. entries' = [entries EXCEPT ![i] = [entries[i] EXCEPT !.cred = c]]
    BY <1>2
  <2>2. [entries[i] EXCEPT !.cred = c].id = entries[i].id /\ [entries[i] EXCEPT !.cred = c].cred = c
    BY <1>0 DEF Entry
  <2>3. QED
    BY <1>1, <1>2, <2>1, <2>2
<1>3. ASSUME NEW i \in DOMAIN entries
      PROVE  LET c == entries[i].cred
                 Same(d) == d.acct = c.acct /\ d.rt = c.rt
             IN  /\ Same([c EXCEPT !.title = TRUE]) /\ Same([c EXCEPT !.prio = 1])
                 /\ Same([c EXCEPT !.fresh = FALSE])
  <2>1. entries[i].cred \in Creds
    BY <1>0 DEF Entry
  <2>2. QED
    BY <2>1 DEF Creds
<1>4. CASE UNCHANGED entries
  BY <1>4 DEF SameTokens
<1>5. ASSUME NEW w \in Workers, UsageReply(w)
      PROVE  SameTokens(entries, entries')
  <2>1. UNCHANGED entries \/ \E i \in DOMAIN entries :
            entries' = [entries EXCEPT ![i].cred = [entries[i].cred EXCEPT !.title = TRUE]]
    BY <1>0, <1>5 DEF UsageReply
  <2>2. QED
    BY <1>2, <1>3, <1>4, <2>1
<1>6. ASSUME NEW w \in Workers, Edit(w)
      PROVE  SameTokens(entries, entries')
  <2>1. \E i \in DOMAIN entries :
            entries' = [entries EXCEPT ![i].cred = [entries[i].cred EXCEPT !.prio = 1]]
    BY <1>0, <1>6 DEF Edit
  <2>2. QED
    BY <1>2, <1>3, <2>1
<1>7. ASSUME NEW w \in Workers, SetDisabled(w)
      PROVE  SameTokens(entries, entries')
  <2>1. PICK i \in DOMAIN entries, b \in BOOLEAN :
            entries' = [entries EXCEPT ![i] = [entries[i] EXCEPT !.dis = b]]
    BY <1>0, <1>7 DEF SetDisabled
  <2>2. [entries[i] EXCEPT !.dis = b].id = entries[i].id
        /\ [entries[i] EXCEPT !.dis = b].cred = entries[i].cred
    BY <1>0 DEF Entry
  <2>3. QED
    BY <1>1, <2>1, <2>2
<1>8. ASSUME Expire
      PROVE  SameTokens(entries, entries')
  <2>1. \E i \in DOMAIN entries :
            entries' = [entries EXCEPT ![i].cred = [entries[i].cred EXCEPT !.fresh = FALSE]]
    BY <1>8 DEF Expire
  <2>2. QED
    BY <1>2, <1>3, <2>1
<1>9. QED
  BY <1>5, <1>6, <1>7, <1>8 DEF Edits

\* fs[k] is the entry es[i], perhaps edited, and first with its id if es[i] was
Alike(es, i, fs, k) ==
    /\ k \in DOMAIN fs /\ fs[k].id = es[i].id
    /\ fs[k].cred.acct = es[i].cred.acct /\ fs[k].cred.rt = es[i].cred.rt
    /\ (\A j \in 1..(i - 1) : es[j].id # es[i].id) => \A j \in 1..(k - 1) : fs[j].id # es[i].id

LEMMA AlikeIfSame ==
    ASSUME NEW es, DOMAIN es = 1..Len(es), Len(es) \in Nat, NEW fs, SameTokens(es, fs),
           NEW i \in DOMAIN es
    PROVE  Alike(es, i, fs, i)
<1>1. \A j \in 1..(i - 1) : j \in DOMAIN es
  OBVIOUS
<1>2. QED
  BY <1>1 DEF SameTokens, Alike

Deletes == \E w \in Workers : Delete(w)
Pushes  == \E w \in Workers : PushEntry(w)
Stores  == \E w \in Workers : StoreRefreshed(w)

\* Which steps change the entries.
LEMMA EntryMovers ==
    ASSUME Next
    PROVE  UNCHANGED entries \/ Edits \/ Deletes \/ Pushes \/ Stores \/ Crash \/ Boot
<1>1. ASSUME NEW w \in Workers, Work(w), ~StoreRefreshed(w), ~UsageReply(w), ~Edit(w),
             ~SetDisabled(w), ~Delete(w), ~PushEntry(w)
      PROVE  UNCHANGED entries
  BY <1>1 DEF Work, Refresh, Persist, Admin, BeginEnsure, BeginForce, BeginUsage, LockedNoEntry,
     LockedFresh, LockedStale, Refreshed, ReplyRefused, RefreshFailed, ReplyLost, Snapshot,
     SaveFailed, Truncate, Write, BeginAdd, ChooseId, mem
<1>2. CASE AllOver
  BY <1>2 DEF AllOver, vars, mem
<1>3. QED
  BY <1>1, <1>2 DEF Next, Edits, Deletes, Pushes, Stores

\* A deletion keeps every other entry, as it is and in its order.
LEMMA DeleteKeeps ==
    ASSUME Typed, Deletes
    PROVE  /\ \A i \in DOMAIN entries : \/ entries[i].cred.acct \in deleted'
                                        \/ \E k : Alike(entries, i, entries', k)
           /\ \A k \in DOMAIN entries' : \E i \in DOMAIN entries : entries'[k] = entries[i]
<1>0. DOMAIN entries = 1..Len(entries) /\ Len(entries) \in Nat /\ entries \in Seq(Live)
  BY EntryFacts DEF Typed
<1>1. PICK id : /\ entries' = Kept(entries, {i \in DOMAIN entries : entries[i].id # id})
                /\ deleted' = deleted \cup {entries[i].cred.acct :
                                               i \in {j \in DOMAIN entries : entries[j].id = id}}
  BY DEF Deletes, Delete
<1> DEFINE T == {i \in DOMAIN entries : entries[i].id # id}
           n == Len(entries')
<1>2. entries' \in Seq(Live) /\ \E f : Picks(f, entries', entries, T, Len(entries))
  BY <1>0, <1>1, KeptProperties
<1>3. PICK f : Picks(f, entries', entries, T, Len(entries))
  BY <1>2
<1>4. DOMAIN entries' = 1..n /\ n \in Nat
  BY <1>2, LenProperties
<1>5. /\ \A k \in 1..n : f[k] \in DOMAIN entries /\ entries'[k] = entries[f[k]]
      /\ \A j, k \in 1..n : j < k => f[j] < f[k]
      /\ \A i \in T : \E k \in 1..n : f[k] = i
  BY <1>0, <1>3 DEF Picks
<1> HIDE DEF n
<1>6. ASSUME NEW i \in T
      PROVE  \E k : Alike(entries, i, entries', k)
  <2>1. PICK k \in 1..n : f[k] = i
    BY <1>5
  <2>2. entries'[k] = entries[i] /\ k \in DOMAIN entries'
    BY <1>4, <1>5, <2>1
  <2>3. ASSUME \A j \in 1..(i - 1) : entries[j].id # entries[i].id, NEW j \in 1..(k - 1)
        PROVE  entries'[j].id # entries[i].id
    <3>1. j \in 1..n /\ j < k
      BY <1>4
    <3>2. f[j] \in DOMAIN entries /\ f[j] < i /\ entries'[j] = entries[f[j]]
      BY <1>5, <2>1, <3>1
    <3>3. f[j] \in 1..(i - 1)
      BY <1>0, <3>2
    <3>4. QED
      BY <2>3, <3>2, <3>3
  <2>4. Alike(entries, i, entries', k)
    BY <2>2, <2>3 DEF Alike
  <2>5. QED
    BY <2>4
<1>7. \A i \in DOMAIN entries : i \notin T => entries[i].cred.acct \in deleted'
  BY <1>1
<1>8. QED
  BY <1>4, <1>5, <1>6, <1>7

LEMMA PushKeeps ==
    ASSUME Typed, NEW w \in Workers, PushEntry(w)
    PROVE  /\ \A i \in DOMAIN entries : Alike(entries, i, entries', i) /\ entries'[i] = entries[i]
           /\ DOMAIN entries' = 1..(Len(entries) + 1)
           /\ entries'[Len(entries) + 1].cred = task[w].cred
<1>0. DOMAIN entries = 1..Len(entries) /\ Len(entries) \in Nat
  BY EntryFacts
<1>1. entries' = Append(entries, [id |-> task[w].id, dis |-> FALSE, cred |-> task[w].cred])
  BY DEF PushEntry
<1>2. task[w].cred \in LiveCreds /\ task[w].id \in Nat \ {0}
  BY TaskFacts DEF PushEntry, Tasks
<1>3. [id |-> task[w].id, dis |-> FALSE, cred |-> task[w].cred] \in Live
  BY <1>2 DEF Live, LiveCreds, Entry
<1>4. /\ \A i \in 1..Len(entries) : entries'[i] = entries[i]
      /\ DOMAIN entries' = 1..(Len(entries) + 1)
      /\ entries'[Len(entries) + 1] = [id |-> task[w].id, dis |-> FALSE, cred |-> task[w].cred]
  <2>1. entries \in Seq(Live)
    BY DEF Typed
  <2>2. entries' \in Seq(Live) /\ Len(entries') = Len(entries) + 1
    BY <1>1, <1>3, <2>1, AppendProperties
  <2>3. QED
    BY <1>1, <1>3, <2>1, <2>2, AppendProperties, LenProperties
<1>5. ASSUME NEW i \in DOMAIN entries
      PROVE  Alike(entries, i, entries', i)
  <2>1. \A j \in 1..(i - 1) : j \in 1..Len(entries)
    BY <1>0
  <2>2. QED
    BY <1>0, <1>4, <2>1 DEF Alike
<1>6. QED
  BY <1>0, <1>4, <1>5

LEMMA EntriesKept ==
    ASSUME Typed, Next, ~Stores, ~Crash, ~Boot, NEW i \in DOMAIN entries,
           entries[i].cred.acct \notin deleted'
    PROVE  \E k : Alike(entries, i, entries', k)
<1>0. DOMAIN entries = 1..Len(entries) /\ Len(entries) \in Nat
  BY EntryFacts
<1>1. CASE UNCHANGED entries
  <2>1. SameTokens(entries, entries')
    BY <1>1 DEF SameTokens
  <2>2. QED
    BY <1>0, <2>1, AlikeIfSame
<1>2. CASE Edits
  BY <1>0, <1>2, EditsKeepTokens, AlikeIfSame
<1>3. CASE Deletes
  BY <1>3, DeleteKeeps
<1>4. CASE Pushes
  BY <1>4, PushKeeps DEF Pushes
<1>5. QED
  BY <1>1, <1>2, <1>3, <1>4, EntryMovers

\* The entry of a refresh that is under way outlives what the others do.
LEMMA OwnEntryStays ==
    ASSUME Typed, Next, ~Stores, ~Crash, ~Boot, NEW v \in Workers, task'[v] = task[v],
           Refreshing(v), task[v].cred.acct \notin deleted', NEW i \in DOMAIN entries, OwnEntry(v, i)
    PROVE  \E k \in DOMAIN entries' : OwnEntry(v, k)'
<1>0. DOMAIN entries = 1..Len(entries) /\ Len(entries) \in Nat /\ entries[i] \in Live
  BY EntryFacts
<1>1. /\ entries[i].id = task[v].id /\ entries[i].cred.acct = task[v].cred.acct
      /\ \A j \in 1..(i - 1) : entries[j].id # entries[i].id
      /\ task[v].pc = "ask" => entries[i].cred.rt = task[v].cred.rt
      /\ Accepts(entries[i].cred) => Accepts(task[v].cred)
  BY DEF OwnEntry, IsFirst
<1>2. PICK k : Alike(entries, i, entries', k)
  BY <1>1, EntriesKept
<1>3. /\ k \in DOMAIN entries' /\ entries'[k].id = task'[v].id
      /\ entries'[k].cred.acct = task'[v].cred.acct /\ entries'[k].cred.rt = entries[i].cred.rt
      /\ \A j \in 1..(k - 1) : entries'[j].id # task'[v].id
  BY <1>1, <1>2 DEF Alike
<1> DEFINE a == task[v].cred.acct
           r == entries[i].cred.rt
<1>4. entries'[k].cred.rt = server'[a] => task'[v].cred.rt = server'[a]
  <2>0. a \in Accounts /\ r <= server[a] /\ r \in 0..MaxRotations
    BY <1>0, <1>1 DEF Live, LiveCreds, Creds
  <2>1. server[a] \in 0..MaxRotations /\ server'[a] \in 0..MaxRotations /\ server[a] <= server'[a]
        /\ MaxRotations \in Nat
    BY <2>0, ServerStep, BoundsAssumption DEF Typed
  <2>2. r = server[a] => task[v].cred.rt = server[a]
    BY <1>1 DEF Accepts
  <2> HIDE DEF a, r
  <2>3. r = server'[a] => server'[a] = server[a]
    BY <2>0, <2>1
  <2>4. QED
    BY <1>3, <2>2, <2>3 DEF r
<1>5. OwnEntry(v, k)'
  BY <1>1, <1>3, <1>4 DEF OwnEntry, IsFirst, Accepts
<1>6. QED
  BY <1>3, <1>5

LEMMA EntryStaysStep ==
    ASSUME Typed, StoppedEmpty, KindsFit, RefreshLocked, EntryStays, Next
    PROVE  EntryStays'
<1>0. deleted \subseteq deleted'
  BY DeletedGrows
<1>1. ASSUME NEW v \in Workers, Refreshing(v)', task'[v].cred.acct \notin deleted'
      PROVE  \E k \in DOMAIN entries' : OwnEntry(v, k)'
  <2>0. task'[v].kind # "add" /\ task'[v].pc \in {"ask", "store"}
    BY <1>1 DEF Refreshing
  <2>1. CASE task'[v] = task[v] /\ ~Crash /\ ~Boot
    <3>1. Refreshing(v) /\ task[v].cred.acct \notin deleted
      BY <1>0, <1>1, <2>0, <2>1 DEF Refreshing
    <3>2. PICK i \in DOMAIN entries : OwnEntry(v, i)
      BY <3>1 DEF EntryStays
    <3>3. ~Stores
      <4> SUFFICES ASSUME NEW u \in Workers, StoreRefreshed(u) PROVE FALSE
        BY DEF Stores
      <4>1. Refreshing(u)
        BY DEF StoreRefreshed, KindsFit, Refreshing
      <4>2. u = v
        BY <3>1, <4>1 DEF RefreshLocked
      <4>3. task'[u].pc = "save"
        BY TaskFacts DEF StoreRefreshed, Typed, Tasks
      <4>4. QED
        BY <2>0, <4>2, <4>3
    <3>4. QED
      BY <1>1, <2>1, <3>1, <3>2, <3>3, OwnEntryStays
  <2>2. CASE Crash \/ Boot
    <3>1. task'[v].pc = "idle"
      <4>1. Idle.pc = "idle"
        BY DEF Idle, Task
      <4>2. CASE Crash
        BY <4>1, <4>2 DEF Crash
      <4>3. CASE Boot
        BY <4>1, <4>3 DEF Boot, StoppedEmpty
      <4>4. QED
        BY <2>2, <4>2, <4>3
    <3>2. QED
      BY <2>0, <3>1
  <2>3. ASSUME Work(v), task'[v] # task[v], ~Crash, ~Boot
        PROVE  \E k \in DOMAIN entries' : OwnEntry(v, k)'
    <3>1. CASE /\ LockedStale(v) /\ task'[v].pc = "ask" /\ task'[v].kind = task[v].kind
               /\ task'[v].id = task[v].id /\ task'[v].cred = Reread(v)
      <4>1. /\ task[v].id \in Ids /\ UNCHANGED <<entries, server>>
        BY <3>1 DEF LockedStale
      <4>2. IsFirst(At(task[v].id), task[v].id)
        BY <4>1, AtIsFirst DEF Typed
      <4>3. PICK k : k = At(task[v].id)
        OBVIOUS
      <4>4. task'[v].cred = entries[k].cred /\ IsFirst(k, task[v].id)
        BY <3>1, <4>2, <4>3 DEF Reread
      <4>5. OwnEntry(v, k)' /\ k \in DOMAIN entries'
        BY <3>1, <4>1, <4>4 DEF OwnEntry, IsFirst, Accepts
      <4>6. QED
        BY <4>5
    <3>2. CASE /\ Refreshed(v) /\ task'[v].kind = task[v].kind /\ task'[v].id = task[v].id
               /\ task'[v].pc = IF task[v].kind = "add" THEN "number" ELSE "store"
               /\ task'[v].cred.acct = task[v].cred.acct
               /\ task'[v].cred.rt = server'[task[v].cred.acct]
      <4>1. Refreshing(v) /\ task[v].cred.acct \notin deleted /\ UNCHANGED entries
        BY <1>0, <1>1, <2>0, <3>2 DEF Refreshed, Refreshing
      <4>2. PICK i \in DOMAIN entries : OwnEntry(v, i)
        BY <4>1 DEF EntryStays
      <4>3. task'[v].pc = "store"
        BY <2>0, <3>2
      <4>4. OwnEntry(v, i)' /\ i \in DOMAIN entries'
        BY <3>2, <4>1, <4>2, <4>3 DEF OwnEntry, IsFirst, Accepts
      <4>5. QED
        BY <4>4
    <3>3. CASE task'[v].pc \in Plain \ {"wait"} \/ task'[v].pc = "wait" \/ task'[v].pc = "push"
               \/ task'[v].kind = "add"
      BY <2>0, <3>3 DEF Plain
    <3>4. QED
      BY <2>3, <3>1, <3>2, <3>3, TaskMoves
  <2>4. ASSUME NEW w \in Workers, Work(w), task'[v] # task[v]
        PROVE  w = v
    BY <2>4, TaskFrame
  <2>5. CASE Expire \/ AllOver
    BY <2>1, <2>2, <2>5 DEF Expire, AllOver, vars
  <2>6. QED
    BY <2>1, <2>2, <2>3, <2>4, <2>5 DEF Next
<1>2. QED
  BY <1>1 DEF EntryStays

LEMMA RefreshInvInit == Init => RefreshInv
<1>1. Idle.pc = "idle"
  BY DEF Idle, Task
<1>2. Init => \A w \in Workers : task[w] = Idle
  BY DEF Init
<1>3. QED
  BY <1>1, <1>2 DEF RefreshInv, KindsFit, RefreshLocked, EntryStays, Refreshing

LEMMA RefreshInvStep ==
    ASSUME Typed, StoppedEmpty, RefreshInv, Next
    PROVE  RefreshInv'
BY KindsFitStep, RefreshLockedStep, EntryStaysStep DEF RefreshInv

-----------------------------------------------------------------------------
(* The latest token of every account.                                       *)

LEMMA ServerMoves ==
    ASSUME Typed, NEW w \in Workers, Work(w), NEW a \in Accounts, a \notin given'
    PROVE  server'[a] = server[a] \/ (Refreshed(w) /\ task[w].cred.acct = a)
<1>0. DOMAIN server = Accounts
  BY DEF Typed
<1>1. ASSUME NEW b, Rotates(b), b # a
      PROVE  server'[a] = server[a]
  BY <1>0, <1>1 DEF Rotates
<1>2. CASE Refreshed(w)
  BY <1>1, <1>2 DEF Refreshed
<1>3. CASE ReplyRefused(w) \/ ReplyLost(w)
  BY <1>1, <1>3 DEF ReplyRefused, ReplyLost
<1>4. ASSUME ~Refreshed(w), ~ReplyRefused(w), ~ReplyLost(w)
      PROVE  UNCHANGED server
  BY <1>4 DEF Work, Refresh, Persist, Admin, BeginEnsure, BeginForce, BeginUsage, LockedNoEntry,
     LockedFresh, LockedStale, ReplyRefused, RefreshFailed, StoreRefreshed, Snapshot,
     SaveFailed, Truncate, Write, UsageReply, Edit, SetDisabled, Delete, BeginAdd, ChooseId,
     PushEntry, mem
<1>5. QED
  BY <1>2, <1>3, <1>4

\* A successful refresh leaves the latest token with its worker.
LEMMA RefreshedHolds ==
    ASSUME Typed, NEW w \in Workers, Refreshed(w), NEW a, a = task[w].cred.acct
    PROVE  Holds(w, a)'
<1>0. w \in DOMAIN task /\ task[w] \in Tasks /\ task[w].cred \in Creds
  BY TaskFacts DEF Typed, Tasks
<1>1. PICK f \in BOOLEAN :
          task'[w] = [task[w] EXCEPT !.cred = Renewed(task[w].cred, f),
                          !.pc = IF task[w].kind = "add" THEN "number" ELSE "store"]
  BY <1>0 DEF Refreshed
<1>2. Renewed(task[w].cred, f).acct = a /\ Renewed(task[w].cred, f).rt = server'[a]
  BY <1>0 DEF Renewed, Creds
<1>3. /\ task'[w].cred = Renewed(task[w].cred, f)
      /\ task'[w].pc \in {"store", "number", "push"}
  BY <1>0, <1>1 DEF Tasks
<1>4. task'[w].cred.acct = a /\ task'[w].cred.rt = server'[a]
  BY <1>2, <1>3
<1>5. QED
  BY <1>3, <1>4 DEF Holds

\* What a refresh stores replaces its own entry, and no later token.
LEMMA StoreKeeps ==
    ASSUME Typed, RefreshInv, NEW w \in Workers, StoreRefreshed(w)
    PROVE  /\ UNCHANGED <<server, disk, up>>
           /\ \/ task[w].id \notin Ids /\ UNCHANGED entries /\ task[w].cred.acct \in given
              \/ \E i \in DOMAIN entries :
                    /\ DOMAIN entries' = DOMAIN entries
                    /\ \A j \in DOMAIN entries : j # i => entries'[j] = entries[j]
                    /\ entries'[i].cred = task[w].cred /\ entries'[i].id = entries[i].id
                    /\ \/ entries[i].cred.acct \in given' /\ task[w].cred.acct \in given
                       \/ /\ entries[i].cred.acct = task[w].cred.acct
                          /\ \/ entries[i].cred.acct \in given
                             \/ Accepts(entries[i].cred) => Accepts(task[w].cred)
<1>0. Refreshing(w) /\ UNCHANGED <<server, disk, up>> /\ deleted \subseteq given
  BY DEF RefreshInv, KindsFit, Refreshing, StoreRefreshed, file, Typed
<1>1. CASE task[w].id \notin Ids
  <2>1. task[w].cred.acct \in given
    BY <1>0, <1>1 DEF RefreshInv, EntryStays, OwnEntry, IsFirst, Ids
  <2>2. QED
    BY <1>0, <1>1, <2>1 DEF StoreRefreshed, Store
<1>2. CASE task[w].id \in Ids
  <2>1. PICK i : i = At(task[w].id)
    OBVIOUS
  <2>2. i \in DOMAIN entries /\ \A k : IsFirst(k, task[w].id) => k = i
    BY <1>2, <2>1, EntryFacts, AtIsFirst DEF Typed
  <2>3. entries[i] \in Entry
    BY <2>2, EntryFacts DEF Live
  <2>4. /\ entries' = [entries EXCEPT ![i].cred = task[w].cred]
        /\ given' = given \cup ({entries[i].cred.acct} \ {task[w].cred.acct})
    BY <1>2, <2>1 DEF StoreRefreshed, Store, Reread
  <2>5. entries' = [entries EXCEPT ![i] = [entries[i] EXCEPT !.cred = task[w].cred]]
    BY <2>4
  <2>6. /\ DOMAIN entries' = DOMAIN entries
        /\ \A j \in DOMAIN entries : j # i => entries'[j] = entries[j]
        /\ entries'[i] = [entries[i] EXCEPT !.cred = task[w].cred]
    BY <2>2, <2>5
  <2>7. entries'[i].cred = task[w].cred /\ entries'[i].id = entries[i].id
    BY <2>3, <2>6 DEF Entry
  <2>8. task[w].cred.acct \notin given => OwnEntry(w, i)
    BY <1>0, <2>2 DEF RefreshInv, EntryStays, OwnEntry
  <2>9. \/ entries[i].cred.acct \in given' /\ task[w].cred.acct \in given
        \/ /\ entries[i].cred.acct = task[w].cred.acct
           /\ \/ entries[i].cred.acct \in given
              \/ Accepts(entries[i].cred) => Accepts(task[w].cred)
    <3>1. CASE task[w].cred.acct \notin given
      BY <2>8, <3>1 DEF OwnEntry
    <3>2. CASE task[w].cred.acct \in given
      BY <2>4, <3>2
    <3>3. QED
      BY <3>1, <3>2
  <2>10. QED
    BY <1>0, <2>2, <2>6, <2>7, <2>9
<1>3. QED
  BY <1>1, <1>2

LEMMA LatestStays ==
    ASSUME Typed, StoppedEmpty, RefreshInv, Next, NEW w \in Workers, Work(w),
           NEW a \in Accounts, a \notin given', HasLatest(entries, a), server'[a] = server[a]
    PROVE  HasLatest(entries, a)'
<1>0. PICK i \in DOMAIN entries : entries[i].cred.acct = a /\ entries[i].cred.rt = server[a]
  BY DEF HasLatest
<1>1. CASE ~Stores
  <2>1. ~Crash /\ ~Boot
    BY WorksUp DEF Crash, Boot
  <2>2. PICK k : Alike(entries, i, entries', k)
    BY <1>0, <1>1, <2>1, EntriesKept, DeletedGrows
  <2>3. QED
    BY <1>0, <2>2 DEF Alike, HasLatest
<1>2. CASE Stores
  <2>1. PICK u \in Workers : StoreRefreshed(u)
    BY <1>2 DEF Stores
  <2>2. CASE UNCHANGED entries
    BY <1>0, <2>2 DEF HasLatest
  <2>3. ASSUME NEW m \in DOMAIN entries,
               DOMAIN entries' = DOMAIN entries,
               \A j \in DOMAIN entries : j # m => entries'[j] = entries[j],
               entries'[m].cred = task[u].cred,
               \/ entries[m].cred.acct \in given' /\ task[u].cred.acct \in given
               \/ /\ entries[m].cred.acct = task[u].cred.acct
                  /\ \/ entries[m].cred.acct \in given
                     \/ Accepts(entries[m].cred) => Accepts(task[u].cred)
        PROVE  HasLatest(entries, a)'
    <3>1. CASE i # m
      BY <1>0, <2>3, <3>1 DEF HasLatest
    <3>2. CASE i = m
      <4>1. /\ entries[m].cred.acct = task[u].cred.acct
            /\ Accepts(entries[m].cred) => Accepts(task[u].cred)
        BY <1>0, <2>3, <3>2, GivenGrows
      <4>2. task[u].cred.acct = a /\ task[u].cred.rt = server[a]
        BY <1>0, <3>2, <4>1 DEF Accepts
      <4>3. QED
        BY <1>0, <2>3, <3>2, <4>2 DEF HasLatest
    <3>3. QED
      BY <3>1, <3>2
  <2>4. QED
    BY <2>1, <2>2, <2>3, StoreKeeps
<1>3. QED
  BY <1>1, <1>2

LEMMA HeldStays ==
    ASSUME Typed, StoppedEmpty, RefreshInv, Next, NEW w \in Workers, Work(w),
           NEW a \in Accounts, a \notin given', Held(a)
    PROVE  Held(a)'
<1>1. CASE Refreshed(w) /\ task[w].cred.acct = a
  BY <1>1, RefreshedHolds DEF Held
<1>2. CASE server'[a] = server[a]
  <2>1. CASE HasLatest(entries, a)
    BY <1>2, <2>1, LatestStays DEF Held
  <2>2. ASSUME NEW v \in Workers, Holds(v, a)
        PROVE  Held(a)'
    <3>1. CASE v # w
      <4>1. task'[v] = task[v]
        BY <3>1, TaskFrame
      <4>2. Holds(v, a)'
        BY <1>2, <2>2, <4>1 DEF Holds
      <4>3. QED
        BY <4>2 DEF Held
    <3>2. CASE v = w
      <4>0. task[w].cred.acct = a /\ task[w].cred.rt = server[a] /\ a \notin given
        BY <2>2, <3>2, GivenGrows DEF Holds
      <4>1. StoreRefreshed(w) \/ ChooseId(w) \/ PushEntry(w)
        BY <2>2, <3>2 DEF Holds, Work, Refresh, Persist, Admin, BeginEnsure, BeginForce,
           BeginUsage, LockedNoEntry, LockedFresh, LockedStale, Refreshed, ReplyRefused,
           RefreshFailed, ReplyLost, Snapshot, SaveFailed, Truncate, Write, UsageReply, Edit,
           SetDisabled, Delete, BeginAdd, Begin
      <4>2. CASE StoreRefreshed(w)
        <5>1. PICK i \in DOMAIN entries :
                  DOMAIN entries' = DOMAIN entries /\ entries'[i].cred = task[w].cred
          BY <4>0, <4>2, StoreKeeps
        <5>2. HasLatest(entries, a)'
          BY <1>2, <4>0, <5>1 DEF HasLatest
        <5>3. QED
          BY <5>2 DEF Held
      <4>3. CASE ChooseId(w)
        <5>1. task'[w].pc = "push" /\ task'[w].cred = task[w].cred
          BY <4>3, TaskFacts DEF ChooseId, Typed, Tasks
        <5>2. Holds(w, a)'
          BY <1>2, <4>0, <5>1 DEF Holds
        <5>3. QED
          BY <5>2 DEF Held
      <4>4. CASE PushEntry(w)
        <5>1. Len(entries) + 1 \in DOMAIN entries' /\ entries'[Len(entries) + 1].cred = task[w].cred
          BY <4>4, PushKeeps, EntryFacts
        <5>2. HasLatest(entries, a)'
          BY <1>2, <4>0, <5>1 DEF HasLatest
        <5>3. QED
          BY <5>2 DEF Held
      <4>5. QED
        BY <4>1, <4>2, <4>3, <4>4
    <3>3. QED
      BY <3>1, <3>2
  <2>3. QED
    BY <2>1, <2>2 DEF Held
<1>3. QED
  BY <1>1, <1>2, ServerMoves

LEMMA DiskMoves ==
    ASSUME NEW w \in Workers, Work(w)
    PROVE  /\ disk'.list = disk.list \/ disk'.list = << >> \/ disk'.list = task[w].snap
           /\ UNCHANGED disk \/ Truncate(w) \/ Write(w)
<1>1. CASE Truncate(w)
  <2>1. disk'.list = << >>
    BY <1>1 DEF Truncate
  <2>2. QED
    BY <1>1, <2>1
<1>2. CASE Write(w)
  <2>1. disk'.list = << >> \/ disk'.list = task[w].snap
    BY <1>2 DEF Write
  <2>2. QED
    BY <1>2, <2>1
<1>3. CASE ~Truncate(w) /\ ~Write(w)
  <2>1. UNCHANGED disk
    BY <1>3 DEF Work, Refresh, Persist, Admin, BeginEnsure, BeginForce, BeginUsage,
       LockedNoEntry, LockedFresh, LockedStale, Refreshed, ReplyRefused, RefreshFailed,
       ReplyLost, StoreRefreshed, Snapshot, SaveFailed, UsageReply, Edit, SetDisabled, Delete,
       BeginAdd, ChooseId, PushEntry, file
  <2>2. QED
    BY <2>1
<1>4. QED
  BY <1>1, <1>2, <1>3

LEMMA SnapMoves ==
    ASSUME Typed, NEW w \in Workers, Work(w)
    PROVE  \/ task'[w].snap = task[w].snap \/ task'[w].snap = << >>
           \/ Snapshot(w) /\ task'[w].snap = entries
<1>0. w \in DOMAIN task /\ task[w] \in Tasks
  BY TaskFacts DEF Typed
<1>1. Idle.snap = << >> /\ \A pc, k, id, c : Task(pc, k, id, c).snap = << >>
  BY DEF Idle, Task
<1>2. ASSUME NEW pc, task' = [task EXCEPT ![w].pc = pc]
      PROVE  task'[w].snap = task[w].snap
  BY <1>0, <1>2 DEF Tasks
<1>3. ASSUME \E pc, k, id, c : task' = [task EXCEPT ![w] = Task(pc, k, id, c)]
      PROVE  task'[w].snap = << >>
  BY <1>0, <1>1, <1>3
<1>4. CASE BeginEnsure(w) \/ BeginForce(w) \/ BeginUsage(w)
  <2>1. \E pc, k, id, c : task' = [task EXCEPT ![w] = Task(pc, k, id, c)]
    <3>1. CASE BeginEnsure(w)
      BY <3>1 DEF BeginEnsure, Begin
    <3>2. CASE BeginForce(w)
      BY <3>2, ZenonT(30) DEF BeginForce, Begin
    <3>3. CASE BeginUsage(w)
      <4>1. PICK id \in Ids :
                \/ task' = [task EXCEPT ![w] = Task("fetch", "usage", id, NoCred)]
                \/ task' = [task EXCEPT ![w] = Task("wait", "usage", id, entries[At(id)].cred)]
        BY <3>3 DEF BeginUsage, Begin
      <4>2. QED
        BY <4>1
    <3>4. QED
      BY <1>4, <3>1, <3>2, <3>3
  <2>2. QED
    BY <1>3, <2>1
<1>5. CASE Edit(w) \/ SetDisabled(w) \/ Delete(w) \/ PushEntry(w)
  <2>1. \E k : task' = [task EXCEPT ![w] = Task("save", k, 0, NoCred)]
    BY <1>5 DEF Edit, SetDisabled, Delete, PushEntry, Begin
  <2>2. QED
    BY <1>3, <2>1
<1>6. CASE BeginAdd(w)
  <2>1. \E a \in NewAccounts : task' = [task EXCEPT ![w] = Task("ask", "add", 0, Cred(a, 0, FALSE))]
    BY <1>6 DEF BeginAdd, Begin
  <2>2. QED
    BY <1>3, <2>1
<1>7. CASE \/ LockedNoEntry(w) \/ LockedFresh(w) \/ ReplyRefused(w) \/ RefreshFailed(w)
           \/ SaveFailed(w) \/ Write(w)
  <2>1. \/ task' = [task EXCEPT ![w] = Idle]
        \/ \E pc, k, id, c : task' = [task EXCEPT ![w] = Task(pc, k, id, c)]
    BY <1>7 DEF LockedNoEntry, LockedFresh, ReplyRefused, RefreshFailed, SaveFailed, Write, Saved,
       End
  <2>2. QED
    BY <1>0, <1>1, <1>3, <2>1
<1>8. CASE UsageReply(w) \/ ReplyLost(w) \/ Truncate(w)
  <2>1. UNCHANGED task \/ task' = [task EXCEPT ![w] = Idle] \/ \E pc : task' = [task EXCEPT ![w].pc = pc]
    BY <1>8 DEF UsageReply, ReplyLost, Truncate, End, Goto
  <2>2. QED
    BY <1>0, <1>1, <1>2, <2>1
<1>9. CASE LockedStale(w)
  BY <1>0, <1>9 DEF LockedStale, Tasks
<1>10. CASE Refreshed(w)
  <2>1. PICK f \in BOOLEAN :
            task'[w] = [task[w] EXCEPT !.cred = Renewed(task[w].cred, f),
                            !.pc = IF task[w].kind = "add" THEN "number" ELSE "store"]
    BY <1>0, <1>10 DEF Refreshed
  <2>2. QED
    BY <1>0, <2>1 DEF Tasks
<1>11. CASE StoreRefreshed(w)
  BY <1>0, <1>11 DEF StoreRefreshed, Tasks
<1>12. CASE Snapshot(w)
  BY <1>0, <1>12 DEF Snapshot, Tasks
<1>13. CASE ChooseId(w)
  BY <1>0, <1>13 DEF ChooseId, Tasks
<1>14. QED
  BY <1>4, <1>5, <1>6, <1>7, <1>8, <1>9, <1>10, <1>11, <1>12, <1>13
  DEF Work, Refresh, Persist, Admin

\* No account turns up in the entries that has not been used.
LEMMA EntriesSeen ==
    ASSUME Typed, StoppedEmpty, RefreshInv, Next, NEW w \in Workers, Work(w),
           NEW a \in Accounts, a \notin given', Mentions(entries, a)'
    PROVE  Seen(a)
<1>0. PICK k \in DOMAIN entries' : entries'[k].cred.acct = a
  BY DEF Mentions
<1>1. SUFFICES \/ \E i \in DOMAIN entries : entries[i].cred.acct = a
               \/ \E u \in Workers : task[u].pc \in {"number", "push"} /\ task[u].cred.acct = a
  BY DEF Seen, Mentions
<1>2. CASE UNCHANGED entries
  BY <1>0, <1>2
<1>3. CASE Edits
  BY <1>0, <1>3, EditsKeepTokens DEF SameTokens
<1>4. CASE Deletes
  BY <1>0, <1>4, DeleteKeeps
<1>5. CASE Pushes
  <2>1. PICK u \in Workers : PushEntry(u)
    BY <1>5 DEF Pushes
  <2>2. CASE k \in DOMAIN entries
    BY <1>0, <2>1, <2>2, PushKeeps
  <2>3. CASE k \notin DOMAIN entries
    <3>1. k = Len(entries) + 1
      BY <1>0, <2>1, <2>3, PushKeeps, EntryFacts
    <3>2. task[u].cred.acct = a /\ task[u].pc = "push"
      BY <1>0, <2>1, <3>1, PushKeeps DEF PushEntry
    <3>3. QED
      BY <3>2
  <2>4. QED
    BY <2>2, <2>3
<1>6. CASE Stores
  <2>1. PICK u \in Workers : StoreRefreshed(u)
    BY <1>6 DEF Stores
  <2>2. a \notin given
    BY GivenGrows
  <2>3. ASSUME NEW i \in DOMAIN entries,
               DOMAIN entries' = DOMAIN entries,
               \A j \in DOMAIN entries : j # i => entries'[j] = entries[j],
               entries'[i].cred = task[u].cred,
               \/ entries[i].cred.acct \in given' /\ task[u].cred.acct \in given
               \/ entries[i].cred.acct = task[u].cred.acct
        PROVE  \E m \in DOMAIN entries : entries[m].cred.acct = a
    <3>1. CASE k = i
      BY <1>0, <2>2, <2>3, <3>1
    <3>2. CASE k # i
      BY <1>0, <2>3, <3>2
    <3>3. QED
      BY <3>1, <3>2
  <2>4. QED
    BY <1>2, <2>1, <2>3, StoreKeeps
<1>7. CASE Crash \/ Boot
  BY <1>7, WorksUp DEF Crash, Boot
<1>8. QED
  BY <1>2, <1>3, <1>4, <1>5, <1>6, <1>7, EntryMovers

LEMMA SeenBefore ==
    ASSUME Typed, StoppedEmpty, RefreshInv, Next, NEW w \in Workers, Work(w),
           NEW a \in Accounts, a \notin given', Seen(a)'
    PROVE  Seen(a) \/ (Refreshed(w) /\ task[w].cred.acct = a)
<1>1. CASE server'[a] # 0
  BY <1>1, ServerMoves DEF Seen
<1>2. CASE Mentions(entries, a)'
  BY <1>2, EntriesSeen
<1>3. CASE Mentions(disk.list, a)'
  <2>1. PICK i \in DOMAIN disk'.list : disk'.list[i].cred.acct = a
    BY <1>3 DEF Mentions
  <2>2. disk'.list # << >>
    BY <2>1, EmptySeq
  <2>3. Mentions(disk.list, a) \/ Mentions(task[w].snap, a)
    BY <2>1, <2>2, DiskMoves DEF Mentions
  <2>4. QED
    BY <2>3 DEF Seen
<1>4. ASSUME NEW v \in Workers, Mentions(task[v].snap, a)'
      PROVE  Seen(a)
  <2>1. PICK i \in DOMAIN task'[v].snap : task'[v].snap[i].cred.acct = a
    BY <1>4 DEF Mentions
  <2>2. task'[v].snap # << >>
    BY <2>1, EmptySeq
  <2>3. task'[v].snap = task[v].snap \/ task'[v].snap = entries
    BY <2>2, SnapMoves, TaskFrame
  <2>4. Mentions(task[v].snap, a) \/ Mentions(entries, a)
    BY <2>1, <2>3 DEF Mentions
  <2>5. QED
    BY <2>4 DEF Seen
<1>5. ASSUME NEW v \in Workers, task'[v].pc \in {"number", "push"}, task'[v].cred.acct = a
      PROVE  Seen(a) \/ (Refreshed(w) /\ task[w].cred.acct = a)
  <2>1. CASE task'[v] = task[v]
    BY <1>5, <2>1 DEF Seen
  <2>2. CASE v = w
    <3>1. CASE ChooseId(w) /\ task'[w].cred = task[w].cred
      BY <1>5, <2>2, <3>1 DEF Seen, ChooseId
    <3>2. CASE Refreshed(w) /\ task'[w].cred.acct = task[w].cred.acct
      BY <1>5, <2>2, <3>2
    <3>3. CASE task'[w].pc \in Plain \ {"wait"} \/ task'[w].pc = "wait" \/ task'[w].pc = "ask"
      BY <1>5, <2>2, <3>3 DEF Plain
    <3>4. QED
      BY <2>1, <2>2, <3>1, <3>2, <3>3, TaskMoves
  <2>3. QED
    BY <2>1, <2>2, TaskFrame
<1>6. QED
  BY <1>1, <1>2, <1>3, <1>4, <1>5 DEF Seen

\* The start takes over every entry of the file.
LEMMA BootKeeps ==
    ASSUME Typed, Boot, up' = "up"
    PROVE  /\ \A j \in DOMAIN disk.list : \E i \in DOMAIN entries' : entries'[i] = disk.list[j]
           /\ \A i \in DOMAIN entries' : \E j \in DOMAIN disk.list : entries'[i] = disk.list[j]
<1> DEFINE s == disk.list
           T(p) == {i \in DOMAIN s : s[i].cred.prio = p}
           k0 == Kept(s, T(0))
           k1 == Kept(s, T(1))
<1>0. s \in Seq(Live)
  BY DEF Typed
<1>1. entries' = k0 \o k1
  BY DEF Boot, Sorted
<1>2. DOMAIN s = 1..Len(s) /\ Len(s) \in Nat /\ \A j \in DOMAIN s : s[j] \in Live
  BY <1>0, LenProperties, ElementOfSeq
<1>3. \A j \in DOMAIN s : j \in T(0) \/ j \in T(1)
  BY <1>2 DEF Live, LiveCreds, Creds
<1> HIDE DEF s
<1>4. /\ k0 \in Seq(Live) /\ \E f : Picks(f, k0, s, T(0), Len(s))
      /\ k1 \in Seq(Live) /\ \E f : Picks(f, k1, s, T(1), Len(s))
  <2>1. \A U : Kept(s, U) \in Seq(Live) /\ \E f : Picks(f, Kept(s, U), s, U, Len(s))
    BY <1>0, KeptProperties
  <2>2. QED
    BY <2>1
<1> HIDE DEF k0, k1
<1>5. /\ Len(k0) \in Nat /\ Len(k1) \in Nat /\ DOMAIN entries' = 1..(Len(k0) + Len(k1))
      /\ \A i \in 1..Len(k0) : entries'[i] = k0[i]
      /\ \A i \in 1..Len(k1) : entries'[Len(k0) + i] = k1[i]
  <2>1. k0 \o k1 \in Seq(Live) /\ Len(k0 \o k1) = Len(k0) + Len(k1)
        /\ Len(k0) \in Nat /\ Len(k1) \in Nat
    BY <1>4, ConcatProperties, LenProperties
  <2>2. \A i \in 1..(Len(k0) + Len(k1)) :
            (k0 \o k1)[i] = IF i <= Len(k0) THEN k0[i] ELSE k1[i - Len(k0)]
    BY <1>4, ConcatProperties
  <2>3. DOMAIN entries' = 1..(Len(k0) + Len(k1))
    BY <1>1, <2>1, LenProperties
  <2>4. \A i \in 1..Len(k0) : entries'[i] = k0[i]
    BY <1>1, <2>1, <2>2
  <2>5. ASSUME NEW i \in 1..Len(k1)
        PROVE  entries'[Len(k0) + i] = k1[i]
    <3>1. Len(k0) + i \in 1..(Len(k0) + Len(k1)) /\ ~(Len(k0) + i <= Len(k0))
          /\ (Len(k0) + i) - Len(k0) = i
      BY <2>1
    <3>2. QED
      BY <1>1, <2>2, <3>1
  <2>6. QED
    BY <2>1, <2>3, <2>4, <2>5
<1>6. ASSUME NEW j \in DOMAIN s
      PROVE  \E i \in DOMAIN entries' : entries'[i] = s[j]
  <2>1. CASE j \in T(0)
    <3>0. PICK f : Picks(f, k0, s, T(0), Len(s))
      BY <1>4
    <3>1. PICK i \in 1..Len(k0) : k0[i] = s[j]
      <4>1. j \in (1..Len(s)) \cap T(0)
        BY <1>2, <2>1
      <4> HIDE DEF T
      <4>2. QED
        BY <3>0, <4>1 DEF Picks
    <3>2. QED
      BY <1>5, <3>1
  <2>2. CASE j \in T(1)
    <3>0. PICK f : Picks(f, k1, s, T(1), Len(s))
      BY <1>4
    <3>1. PICK i \in 1..Len(k1) : k1[i] = s[j]
      <4>1. j \in (1..Len(s)) \cap T(1)
        BY <1>2, <2>2
      <4> HIDE DEF T
      <4>2. QED
        BY <3>0, <4>1 DEF Picks
    <3>2. Len(k0) + i \in DOMAIN entries'
      BY <1>5
    <3>3. QED
      BY <1>5, <3>1, <3>2
  <2>3. QED
    BY <1>3, <2>1, <2>2
<1>7. ASSUME NEW i \in DOMAIN entries'
      PROVE  \E j \in DOMAIN s : entries'[i] = s[j]
  <2>1. CASE i \in 1..Len(k0)
    <3>1. \E j \in DOMAIN s : k0[i] = s[j]
      BY <1>2, <1>4, <2>1 DEF Picks
    <3>2. QED
      BY <1>5, <2>1, <3>1
  <2>2. CASE i \notin 1..Len(k0)
    <3>1. i - Len(k0) \in 1..Len(k1) /\ Len(k0) + (i - Len(k0)) = i
      BY <1>5, <2>2
    <3>2. \E j \in DOMAIN s : k1[i - Len(k0)] = s[j]
      BY <1>2, <1>4, <3>1 DEF Picks
    <3>3. QED
      BY <1>5, <3>1, <3>2
  <2>3. QED
    BY <2>1, <2>2
<1>8. QED
  BY <1>6, <1>7 DEF s

\* The file has the latest token of an entry once nothing is left to be saved.
LEMMA SavedLatest ==
    ASSUME SaveInv, up = "up", NEW a, ~Unsaved(a)
    PROVE  HasLatest(disk.list, a)
<1>1. HasLatest(entries, a) /\ ~saveFailed /\ ~overlapped
      /\ \A w \in Workers : task[w].pc \notin {"save", "truncate", "write"}
  BY DEF Unsaved
<1>2. Covers(disk.list, entries)
  BY <1>1 DEF SaveInv, SavesWell, Writing
<1>3. PICK i \in DOMAIN entries : entries[i].cred.acct = a /\ entries[i].cred.rt = server[a]
  BY <1>1 DEF HasLatest
<1>4. PICK j \in DOMAIN disk.list : SameSaved(entries[i], disk.list[j])
  BY <1>2 DEF Covers
<1>5. QED
  BY <1>3, <1>4 DEF SameSaved, HasLatest

LEMMA HeldInvStep ==
    ASSUME Typed, StoppedEmpty, RefreshInv, HeldInv, SaveInv, Next
    PROVE  HeldInv'
<1> SUFFICES ASSUME NEW a \in Accounts, a \notin given', Seen(a)'
             PROVE  IF up' = "up" THEN Held(a)' ELSE HasLatest(disk.list, a)'
  BY DEF HeldInv
<1>0. a \notin given
  BY GivenGrows
<1>1. Seen(a) => IF up = "up" THEN Held(a) ELSE HasLatest(disk.list, a)
  BY <1>0 DEF HeldInv
<1>2. ASSUME NEW w \in Workers, Work(w)
      PROVE  up' = "up" /\ Held(a)'
  <2>0. up = "up" /\ up' = "up"
    BY <1>2, WorksUp
  <2>1. CASE Refreshed(w) /\ task[w].cred.acct = a
    BY <2>0, <2>1, RefreshedHolds DEF Held
  <2>2. CASE Seen(a)
    BY <1>1, <1>2, <2>0, <2>2, HeldStays
  <2>3. QED
    BY <1>2, <2>1, <2>2, SeenBefore
<1>3. CASE AllOver
  BY <1>1, <1>3 DEF AllOver, vars, mem, file, Seen, Mentions, Held, Holds, HasLatest
<1>4. CASE Expire
  <2>1. SameTokens(entries, entries') /\ up = "up"
    BY <1>4, EditsKeepTokens DEF Edits, Expire
  <2>2. UNCHANGED <<server, disk, up, task>>
    BY <1>4 DEF Expire, file
  <2>3. Seen(a)
    BY <2>1, <2>2 DEF Seen, Mentions, SameTokens
  <2>4. Held(a)
    BY <1>1, <2>1, <2>3
  <2>5. Held(a)'
    BY <2>1, <2>2, <2>4 DEF Held, HasLatest, Holds, SameTokens
  <2>6. QED
    BY <2>1, <2>2, <2>5
<1>5. CASE Crash
  <2>1. /\ UNCHANGED <<server, disk>> /\ entries' = << >> /\ up = "up" /\ up' = "down"
        /\ given' = given \cup {b \in Accounts : Held(b) /\ ~HasLatest(disk.list, b) /\ Unsaved(b)}
    BY <1>5 DEF Crash
  <2>2. \A w \in Workers : task'[w].snap = << >> /\ task'[w].pc = "idle"
    <3>1. Idle.snap = << >> /\ Idle.pc = "idle"
      BY DEF Idle, Task
    <3>2. QED
      BY <1>5, <3>1 DEF Crash
  <2>3. DOMAIN << >> = {}
    BY EmptySeq
  <2>4. Seen(a)
    BY <2>1, <2>2, <2>3 DEF Seen, Mentions
  <2>5. HasLatest(disk.list, a) \/ ~Unsaved(a)
    BY <1>1, <2>1, <2>4
  <2>6. ~Unsaved(a) => HasLatest(disk.list, a)
    BY <2>1, SavedLatest
  <2>7. QED
    BY <2>1, <2>5, <2>6 DEF HasLatest
<1>6. CASE Boot
  <2>1. UNCHANGED <<server, disk, task>> /\ up = "down"
    BY <1>6 DEF Boot
  <2>2. CASE up' # "up"
    <3>1. UNCHANGED entries
      BY <1>6, <2>2 DEF Boot
    <3>2. Seen(a)
      BY <2>1, <3>1 DEF Seen, Mentions
    <3>3. QED
      BY <1>1, <2>1, <2>2, <3>2 DEF HasLatest
  <2>3. CASE up' = "up"
    <3>1. Seen(a)
      BY <1>6, <2>1, <2>3, BootKeeps DEF Seen, Mentions
    <3>2. PICK j \in DOMAIN disk.list :
              disk.list[j].cred.acct = a /\ disk.list[j].cred.rt = server[a]
      BY <1>1, <2>1, <3>1 DEF HasLatest
    <3>3. PICK i \in DOMAIN entries' : entries'[i] = disk.list[j]
      BY <1>6, <2>3, BootKeeps
    <3>4. HasLatest(entries, a)'
      BY <2>1, <3>2, <3>3 DEF HasLatest
    <3>5. QED
      BY <2>3, <3>4 DEF Held
  <2>4. QED
    BY <2>2, <2>3
<1>7. QED
  BY <1>2, <1>3, <1>4, <1>5, <1>6 DEF Next

LEMMA HeldInvInit == Init => HeldInv
<1> SUFFICES ASSUME Init, NEW a \in Accounts, Seen(a)
             PROVE  up = "up" /\ Held(a)
  BY DEF Init, HeldInv
<1>0. /\ server[a] = 0 /\ disk.list = entries /\ \A w \in Workers : task[w] = Idle
      /\ up = "up"
  BY DEF Init
<1>1. Idle.snap = << >> /\ Idle.pc = "idle" /\ DOMAIN << >> = {}
  BY EmptySeq DEF Idle, Task
<1>2. PICK i \in DOMAIN entries : entries[i].cred.acct = a
  BY <1>0, <1>1 DEF Seen, Mentions
<1>3. entries[i].cred.rt = 0
  BY DEF Init, Cred
<1>4. HasLatest(entries, a)
  BY <1>0, <1>2, <1>3 DEF HasLatest
<1>5. QED
  BY <1>0, <1>4 DEF Held

-----------------------------------------------------------------------------
(* Saves of the file.                                                       *)

\* How a worker comes to save and ends it; a change of the entries is to be saved.
LEMMA SaveMoves ==
    ASSUME Typed, NEW w \in Workers, Work(w)
    PROVE  /\ task'[w].pc = "truncate" <=> Snapshot(w)
           /\ task'[w].pc = "write" <=> Truncate(w)
           /\ task[w].pc = "save" => Snapshot(w)
           /\ task[w].pc \in {"truncate", "write"} => SaveFailed(w) \/ Truncate(w) \/ Write(w)
           /\ UNCHANGED entries \/ task'[w].pc = "save"
<1>0. w \in DOMAIN task /\ task[w] \in Tasks
  BY TaskFacts DEF Typed
<1>1. Idle.pc = "idle" /\ \A pc, k, id, c : Task(pc, k, id, c).pc = pc
  BY DEF Idle, Task
<1>2. ASSUME \E pc, k, id, c : task' = [task EXCEPT ![w] = Task(pc, k, id, c)] /\ pc \in {"save", "wait", "fetch", "ask"}
      PROVE  task'[w].pc \in {"save", "wait", "fetch", "ask"}
  BY <1>0, <1>1, <1>2
<1>3. CASE Snapshot(w)
  <2>1. task[w].pc = "save" /\ UNCHANGED entries /\ task'[w].pc = "truncate"
    BY <1>0, <1>3 DEF Snapshot, mem, Tasks
  <2>2. ~Truncate(w)
    BY <2>1 DEF Truncate
  <2>3. QED
    BY <1>3, <2>1, <2>2
<1>4. CASE Truncate(w)
  <2>1. task[w].pc = "truncate" /\ UNCHANGED entries /\ task'[w].pc = "write"
    BY <1>0, <1>4 DEF Truncate, Goto, mem, Tasks
  <2>2. ~Snapshot(w)
    BY <2>1 DEF Snapshot
  <2>3. QED
    BY <1>4, <2>1, <2>2
<1>5. CASE SaveFailed(w) \/ Write(w)
  <2>1. task[w].pc \in {"truncate", "write"} /\ UNCHANGED entries
    BY <1>5 DEF SaveFailed, Write
  <2>2. task'[w].pc \in {"idle", "fetch"}
    BY <1>0, <1>1, <1>5 DEF SaveFailed, Write, Saved, End
  <2>3. ~Snapshot(w) /\ ~Truncate(w)
    BY <1>0, <2>2 DEF Snapshot, Truncate, Goto, Tasks
  <2>4. QED
    BY <1>5, <2>1, <2>2, <2>3
<1>6. ASSUME ~Snapshot(w), ~Truncate(w), ~SaveFailed(w), ~Write(w)
      PROVE  /\ task'[w].pc \notin {"truncate", "write"}
             /\ task[w].pc \notin {"save", "truncate", "write"}
             /\ UNCHANGED entries \/ task'[w].pc = "save"
  <2>1. task[w].pc \notin {"save", "truncate", "write"}
    BY <1>6 DEF Work, Refresh, Persist, Admin, BeginEnsure, BeginForce, BeginUsage,
       LockedNoEntry, LockedFresh, LockedStale, Refreshed, ReplyRefused, RefreshFailed,
       ReplyLost, StoreRefreshed, UsageReply, Edit, SetDisabled, Delete, BeginAdd, ChooseId,
       PushEntry, Begin
  <2>2. CASE BeginEnsure(w) \/ BeginForce(w) \/ BeginUsage(w) \/ BeginAdd(w)
    <3>1. UNCHANGED entries
      BY <2>2 DEF BeginEnsure, BeginForce, BeginUsage, BeginAdd, mem
    <3>2. task'[w].pc \in {"save", "wait", "fetch", "ask"}
      <4>1. CASE BeginEnsure(w) \/ BeginForce(w)
        BY <1>2, <4>1 DEF BeginEnsure, BeginForce, Begin
      <4>2. CASE BeginUsage(w)
        <5>1. PICK id \in Ids :
                  \/ task' = [task EXCEPT ![w] = Task("fetch", "usage", id, NoCred)]
                  \/ task' = [task EXCEPT ![w] = Task("wait", "usage", id, entries[At(id)].cred)]
          BY <4>2 DEF BeginUsage, Begin
        <5>2. QED
          BY <1>2, <5>1
      <4>3. CASE BeginAdd(w)
        <5>1. \E a \in NewAccounts :
                  task' = [task EXCEPT ![w] = Task("ask", "add", 0, Cred(a, 0, FALSE))]
          BY <4>3 DEF BeginAdd, Begin
        <5>2. QED
          BY <1>2, <5>1
      <4>4. QED
        BY <2>2, <4>1, <4>2, <4>3
    <3>3. QED
      BY <2>1, <3>1, <3>2
  <2>3. CASE LockedNoEntry(w) \/ LockedFresh(w) \/ ReplyRefused(w) \/ RefreshFailed(w)
    <3>1. UNCHANGED entries
      BY <2>3 DEF LockedNoEntry, LockedFresh, ReplyRefused, RefreshFailed, mem
    <3>2. task'[w].pc \in {"idle", "fetch"}
      BY <1>0, <1>1, <2>3 DEF LockedNoEntry, LockedFresh, ReplyRefused, RefreshFailed, End
    <3>3. QED
      BY <2>1, <3>1, <3>2
  <2>4. CASE LockedStale(w) \/ ReplyLost(w) \/ ChooseId(w)
    <3>1. UNCHANGED entries
      BY <2>4 DEF LockedStale, ReplyLost, ChooseId, mem
    <3>2. task'[w].pc \in {"ask", "idle", "push"}
      <4>1. CASE LockedStale(w)
        BY <1>0, <4>1 DEF LockedStale, Tasks
      <4>2. CASE ReplyLost(w)
        BY <1>0, <1>1, <4>2 DEF ReplyLost, End
      <4>3. CASE ChooseId(w)
        BY <1>0, <4>3 DEF ChooseId, Tasks
      <4>4. QED
        BY <2>4, <4>1, <4>2, <4>3
    <3>3. QED
      BY <2>1, <3>1, <3>2
  <2>5. CASE Refreshed(w)
    <3>1. PICK f \in BOOLEAN :
              task'[w] = [task[w] EXCEPT !.cred = Renewed(task[w].cred, f),
                              !.pc = IF task[w].kind = "add" THEN "number" ELSE "store"]
      BY <1>0, <2>5 DEF Refreshed
    <3>2. task'[w].pc \in {"number", "store"} /\ UNCHANGED entries
      BY <1>0, <2>5, <3>1 DEF Refreshed, Tasks
    <3>3. QED
      BY <2>1, <3>2
  <2>6. CASE StoreRefreshed(w)
    BY <1>0, <2>1, <2>6 DEF StoreRefreshed, Tasks
  <2>7. CASE Edit(w) \/ SetDisabled(w) \/ Delete(w) \/ PushEntry(w)
    <3>1. \E k : task' = [task EXCEPT ![w] = Task("save", k, 0, NoCred)]
      BY <2>7 DEF Edit, SetDisabled, Delete, PushEntry, Begin
    <3>2. task'[w].pc = "save"
      BY <1>0, <1>1, <3>1
    <3>3. QED
      BY <2>1, <3>2
  <2>8. CASE UsageReply(w)
    <3>1. task'[w].pc = "save" \/ (task'[w].pc = "idle" /\ UNCHANGED entries)
      BY <1>0, <1>1, <2>8 DEF UsageReply, Goto, End, Tasks
    <3>2. QED
      BY <2>1, <3>1
  <2>9. QED
    BY <1>6, <2>2, <2>3, <2>4, <2>5, <2>6, <2>7, <2>8 DEF Work, Refresh, Persist, Admin
<1>7. QED
  <2>1. ASSUME Snapshot(w) \/ Truncate(w) \/ SaveFailed(w) \/ Write(w)
        PROVE  task[w].pc \in {"save", "truncate", "write"}
    BY <2>1 DEF Snapshot, Truncate, SaveFailed, Write
  <2>2. QED
    BY <1>3, <1>4, <1>5, <1>6

LEMMA HistoryMoves ==
    ASSUME NEW w \in Workers, Work(w)
    PROVE  /\ ~saveFailed' => ~saveFailed /\ ~SaveFailed(w)
           /\ ~overlapped' => ~overlapped /\ (Snapshot(w) => Saving = {})
<1>1. CASE SaveFailed(w)
  BY <1>1 DEF SaveFailed, Snapshot
<1>2. CASE Snapshot(w)
  BY <1>2 DEF Snapshot, SaveFailed, counts
<1>3. CASE ~SaveFailed(w) /\ ~Snapshot(w)
  <2>1. saveFailed' = saveFailed /\ overlapped' = overlapped
    BY <1>3 DEF Work, Refresh, Persist, Admin, BeginEnsure, BeginForce, BeginUsage,
       LockedNoEntry, LockedFresh, LockedStale, Refreshed, ReplyRefused, RefreshFailed,
       ReplyLost, StoreRefreshed, Truncate, Write, UsageReply, Edit, SetDisabled, Delete,
       BeginAdd, ChooseId, PushEntry, counts, Begin
  <2>2. QED
    BY <1>3, <2>1
<1>4. QED
  BY <1>1, <1>2, <1>3

LEMMA ExpireKeepsSaved ==
    ASSUME Typed, Expire
    PROVE  DOMAIN entries' = DOMAIN entries /\ \A i \in DOMAIN entries : SameSaved(entries[i], entries'[i])
<1>1. PICK i \in DOMAIN entries : entries' = [entries EXCEPT ![i].cred.fresh = FALSE]
  BY DEF Expire
<1>2. entries[i] \in Entry
  BY EntryFacts DEF Live
<1>3. PICK d : d = [entries[i].cred EXCEPT !.fresh = FALSE]
  OBVIOUS
<1>4. d.acct = entries[i].cred.acct /\ d.rt = entries[i].cred.rt /\ d.prio = entries[i].cred.prio
  <2>1. entries[i].cred \in Creds
    BY <1>2 DEF Entry
  <2>2. QED
    BY <1>3, <2>1 DEF Creds
<1>5. entries' = [entries EXCEPT ![i] = [entries[i] EXCEPT !.cred = d]]
  BY <1>1, <1>3
<1>6. /\ DOMAIN entries' = DOMAIN entries
      /\ \A j \in DOMAIN entries : j # i => entries'[j] = entries[j]
      /\ entries'[i] = [entries[i] EXCEPT !.cred = d]
  BY <1>5
<1>7. entries'[i].id = entries[i].id /\ entries'[i].dis = entries[i].dis /\ entries'[i].cred = d
  BY <1>2, <1>6 DEF Entry
<1>8. QED
  BY <1>4, <1>6, <1>7 DEF SameSaved

LEMMA SaveInvStep ==
    ASSUME Typed, StoppedEmpty, SaveInv, Next
    PROVE  SaveInv'
<1> SUFFICES ASSUME up' = "up", ~saveFailed', ~overlapped'
             PROVE  SavesWell(task', entries', disk'.list)
  BY DEF SaveInv
<1>0. up = "up" /\ ~saveFailed /\ ~overlapped => SavesWell(task, entries, disk.list)
  BY DEF SaveInv
<1>1. ASSUME NEW w \in Workers, Work(w)
      PROVE  SavesWell(task', entries', disk'.list)
  <2>0. /\ SavesWell(task, entries, disk.list)
        /\ ~SaveFailed(w) /\ (Snapshot(w) => \A u \in Workers : ~Writing(task[u]))
    BY <1>0, <1>1, WorksUp, HistoryMoves DEF Saving, Writing
  <2>1. /\ \A u, v \in Workers : Writing(task[u]) /\ Writing(task[v]) => u = v
        /\ \A u \in Workers : task[u].pc = "write" => disk.list = << >>
        /\ \/ \E u \in Workers : task[u].pc = "save"
           \/ \E u \in Workers : Writing(task[u]) /\ Covers(task[u].snap, entries)
           \/ (\A u \in Workers : ~Writing(task[u])) /\ Covers(disk.list, entries)
    BY <2>0 DEF SavesWell
  <2>2. \A u \in Workers \ {w} : task'[u] = task[u]
    BY <1>1, TaskFrame
  <2>3. CASE Snapshot(w)
    <3>1. /\ task'[w].pc = "truncate" /\ task'[w].snap = entries /\ UNCHANGED entries
      BY <2>3, TaskFacts DEF Snapshot, mem, Tasks, Typed
    <3>2. Covers(entries, entries)
      BY DEF Covers, SameSaved
    <3>3. Writing(task'[w]) /\ Covers(task'[w].snap, entries')
      BY <3>1, <3>2 DEF Writing
    <3>4. \A u \in Workers : Writing(task'[u]) => u = w
      BY <2>0, <2>2, <2>3
    <3>5. \A u \in Workers : task'[u].pc # "write"
      BY <3>1, <3>4 DEF Writing
    <3>6. QED
      BY <3>3, <3>4, <3>5 DEF SavesWell
  <2>4. CASE Truncate(w)
    <3>1. /\ task[w].pc = "truncate" /\ task'[w].pc = "write" /\ task'[w].snap = task[w].snap
          /\ UNCHANGED entries
      BY <2>4, TaskFacts DEF Truncate, Goto, mem, Tasks, Typed
    <3>2. disk'.list = << >>
      BY <2>4 DEF Truncate
    <3>3. Writing(task[w]) /\ Writing(task'[w])
      BY <3>1 DEF Writing
    <3>4. \A u \in Workers : Writing(task'[u]) => Writing(task[u])
      BY <2>2, <3>3
    <3>5. \A u, v \in Workers : Writing(task'[u]) /\ Writing(task'[v]) => u = v
      BY <2>1, <3>4
    <3>6. \/ \E u \in Workers : task'[u].pc = "save"
          \/ \E u \in Workers : Writing(task'[u]) /\ Covers(task'[u].snap, entries')
      <4>1. CASE \E u \in Workers : task[u].pc = "save"
        BY <2>2, <3>1, <4>1
      <4>2. CASE \E u \in Workers : Writing(task[u]) /\ Covers(task[u].snap, entries)
        <5>1. PICK u \in Workers : Writing(task[u]) /\ Covers(task[u].snap, entries)
          BY <4>2
        <5>2. u = w
          BY <2>1, <3>3, <5>1
        <5>3. Covers(task'[w].snap, entries')
          BY <3>1, <5>1, <5>2
        <5>4. QED
          BY <3>3, <5>3
      <4>3. QED
        BY <2>1, <3>3, <4>1, <4>2
    <3>7. QED
      BY <3>2, <3>5, <3>6 DEF SavesWell
  <2>5. CASE Write(w)
    <3>1. /\ task[w].pc = "write" /\ ~Writing(task'[w]) /\ UNCHANGED entries
      <4>1. task[w].pc = "write" /\ UNCHANGED entries
        BY <2>5 DEF Write
      <4>2. ~Snapshot(w) /\ ~Truncate(w)
        BY <4>1 DEF Snapshot, Truncate
      <4>3. QED
        BY <1>1, <4>1, <4>2, SaveMoves DEF Writing
    <3>2. disk'.list = task[w].snap
      <4>1. disk.list = << >>
        BY <2>1, <3>1
      <4>2. disk' = [ok |-> TRUE, list |-> task[w].snap]
        BY <2>5, <4>1 DEF Write
      <4>3. QED
        BY <4>2
    <3>3. Writing(task[w])
      BY <3>1 DEF Writing
    <3>4. \A u \in Workers : ~Writing(task'[u])
      BY <2>1, <2>2, <3>1, <3>3
    <3>5. (\E u \in Workers : task'[u].pc = "save") \/ Covers(disk'.list, entries')
      <4>1. CASE \E u \in Workers : task[u].pc = "save"
        BY <2>2, <3>1, <4>1
      <4>2. CASE \E u \in Workers : Writing(task[u]) /\ Covers(task[u].snap, entries)
        <5>1. PICK u \in Workers : Writing(task[u]) /\ Covers(task[u].snap, entries)
          BY <4>2
        <5>2. u = w
          BY <2>1, <3>3, <5>1
        <5>3. QED
          BY <3>1, <3>2, <5>1, <5>2
      <4>3. QED
        BY <2>1, <3>3, <4>1, <4>2
    <3>6. \A u \in Workers : task'[u].pc # "write"
      BY <3>4 DEF Writing
    <3>7. QED
      BY <3>4, <3>5, <3>6 DEF SavesWell
  <2>6. CASE ~Snapshot(w) /\ ~Truncate(w) /\ ~Write(w)
    <3>1. /\ task[w].pc # "save" /\ ~Writing(task[w]) /\ ~Writing(task'[w])
          /\ UNCHANGED entries \/ task'[w].pc = "save"
          /\ UNCHANGED disk
      BY <1>1, <2>0, <2>6, SaveMoves, DiskMoves DEF Writing
    <3>2. \A u \in Workers : /\ Writing(task'[u]) <=> Writing(task[u])
                             /\ Writing(task[u]) => task'[u] = task[u]
                             /\ task[u].pc = "save" => task'[u].pc = "save"
      BY <2>2, <3>1
    <3>3. /\ \A u, v \in Workers : Writing(task'[u]) /\ Writing(task'[v]) => u = v
          /\ \A u \in Workers : task'[u].pc = "write" => disk'.list = << >>
      BY <2>1, <3>1, <3>2 DEF Writing
    <3>4. \/ \E u \in Workers : task'[u].pc = "save"
          \/ \E u \in Workers : Writing(task'[u]) /\ Covers(task'[u].snap, entries')
          \/ (\A u \in Workers : ~Writing(task'[u])) /\ Covers(disk'.list, entries')
      <4>1. CASE task'[w].pc = "save"
        BY <4>1
      <4>2. CASE \E u \in Workers : task[u].pc = "save"
        BY <3>2, <4>2
      <4>3. CASE UNCHANGED entries /\ \E u \in Workers : Writing(task[u]) /\ Covers(task[u].snap, entries)
        <5>1. PICK u \in Workers : Writing(task[u]) /\ Covers(task[u].snap, entries)
          BY <4>3
        <5>2. Writing(task'[u]) /\ Covers(task'[u].snap, entries')
          BY <3>2, <4>3, <5>1
        <5>3. QED
          BY <5>2
      <4>4. CASE UNCHANGED entries /\ (\A u \in Workers : ~Writing(task[u])) /\ Covers(disk.list, entries)
        BY <3>1, <3>2, <4>4
      <4>5. QED
        BY <2>1, <3>1, <4>1, <4>2, <4>3, <4>4
    <3>5. QED
      BY <3>3, <3>4 DEF SavesWell
  <2>7. QED
    BY <2>3, <2>4, <2>5, <2>6
<1>2. CASE Expire
  <2>1. UNCHANGED <<task, disk, saveFailed, overlapped, up>>
    BY <1>2 DEF Expire, file, counts
  <2>2. SavesWell(task, entries, disk.list)
    BY <1>0, <2>1
  <2>3. ASSUME NEW fs, Covers(fs, entries)
        PROVE  Covers(fs, entries')
    BY <1>2, <2>3, ExpireKeepsSaved DEF Covers, SameSaved
  <2>4. task' = task /\ disk'.list = disk.list
    BY <2>1
  <2>5. QED
    BY <2>2, <2>3, <2>4 DEF SavesWell
<1>3. CASE Boot
  <2>1. \A u \in Workers : task'[u].pc = "idle"
    <3>1. Idle.pc = "idle"
      BY DEF Idle, Task
    <3>2. QED
      BY <1>3, <3>1 DEF Boot, StoppedEmpty
  <2>2. disk'.list = disk.list
    BY <1>3 DEF Boot
  <2>3. Covers(disk'.list, entries')
    BY <1>3, <2>2, BootKeeps DEF Covers, SameSaved
  <2>4. QED
    BY <2>1, <2>3 DEF SavesWell, Writing
<1>4. CASE Crash
  BY <1>4 DEF Crash
<1>5. CASE AllOver
  <2>1. UNCHANGED <<task, entries, disk, saveFailed, overlapped, up>>
    BY <1>5 DEF AllOver, vars, mem, file, counts
  <2>2. QED
    BY <1>0, <2>1
<1>6. QED
  BY <1>1, <1>2, <1>3, <1>4, <1>5 DEF Next

LEMMA SaveInvInit == Init => SaveInv
<1> SUFFICES ASSUME Init PROVE SaveInv
  OBVIOUS
<1>1. Idle.pc = "idle"
  BY DEF Idle, Task
<1>2. \A w \in Workers : task[w].pc = "idle"
  BY <1>1 DEF Init
<1>3. disk.list = entries
  BY DEF Init
<1>4. Covers(disk.list, entries)
  BY <1>3 DEF Covers, SameSaved
<1>5. QED
  BY <1>2, <1>4 DEF SaveInv, SavesWell, Writing

-----------------------------------------------------------------------------
(* The theorems.                                                            *)

LEMMA TokenInvHolds == Spec => []TokenInv
<1>1. Init => TokenInv
  BY TypedInit, StoppedEmptyInit, RefreshInvInit, HeldInvInit, SaveInvInit DEF TokenInv
<1>2. TokenInv /\ [Next]_vars => TokenInv'
  <2> SUFFICES ASSUME TokenInv, [Next]_vars PROVE TokenInv'
    OBVIOUS
  <2>1. CASE Next
    BY <2>1, TypedStep, StoppedEmptyStep, RefreshInvStep, HeldInvStep, SaveInvStep DEF TokenInv
  <2>2. CASE UNCHANGED vars
    <3>1. AllOver => TokenInv'
      <4>1. AllOver => Next
        BY DEF Next
      <4>2. QED
        BY <4>1, TypedStep, StoppedEmptyStep, RefreshInvStep, HeldInvStep, SaveInvStep DEF TokenInv
    <3>2. UNCHANGED <<entries, server, lock, disk, up, task, jobs, faults, saveFailed,
                    given, deleted, overlapped>>
      BY <2>2 DEF vars, mem, file, counts
    <3>3. QED
      BY <3>2 DEF TokenInv, Typed, StoppedEmpty, RefreshInv, HeldInv, SaveInv, LiveTasks, Live,
         LiveCreds, KindsFit, RefreshLocked, Refreshing, EntryStays, OwnEntry, IsFirst, Accepts,
         Seen, Mentions, Held, Holds, HasLatest
  <2>3. QED
    BY <2>1, <2>2
<1>3. QED
  BY <1>1, <1>2, PTL DEF Spec

\* Every variable has its type; in particular no entry gets the id 0, and no
\* credential is ahead of the authorization server (TokenInv).
THEOREM TokenTypes == Spec => []TypeOK
<1>1. TokenInv => TypeOK
  <2> SUFFICES ASSUME TokenInv PROVE TypeOK
    OBVIOUS
  <2>1. Live \subseteq Entry
    BY DEF Live
  <2>2. \A s \in Seq(Live) : s \in Seq(Entry)
    <3> TAKE s \in Seq(Live)
    <3>1. Len(s) \in Nat /\ s \in [1..Len(s) -> Live]
      BY LenProperties
    <3>2. s \in [1..Len(s) -> Entry]
      BY <2>1, <3>1
    <3>3. QED
      BY <3>1, <3>2, SeqDef
  <2>3. \A w \in Workers : task[w] \in Tasks
    BY TaskFacts DEF TokenInv
  <2>4. QED
    BY <2>2, <2>3 DEF TokenInv, Typed, TypeOK, Tasks
<1>2. QED
  BY <1>1, TokenInvHolds, PTL

\* As long as an entry, or a request about to store it, has the refresh token that an
\* account's server accepts now, a refresh of that account presents this one, whatever
\* the requests interleave with: one refresh holds the lock at a time and has read its
\* entry under it, the entry stays, and with the account in one place only the token is
\* nowhere else.  Left out are accounts in two places at once and accounts whose entry
\* was deleted.
THEOREM RefreshesPresentLatest == Spec => []PresentsLatest
<1>1. TokenInv => PresentsLatest
  <2> SUFFICES ASSUME TokenInv, NEW w \in Workers, task[w].pc = "ask",
                      Held(task[w].cred.acct), task[w].cred.acct \notin deleted,
                      ~Shared(task[w].cred.acct)
               PROVE  Accepts(task[w].cred)
    BY DEF PresentsLatest
  <2> DEFINE a == task[w].cred.acct
  <2>0. KindsFit /\ RefreshLocked /\ EntryStays
    BY DEF TokenInv, RefreshInv
  <2>1. ASSUME NEW v \in Workers, Refreshing(v), task[v].cred.acct = a
        PROVE  \E i \in Entered(a) : OwnEntry(v, i)
    <3>1. PICK i \in DOMAIN entries : OwnEntry(v, i)
      BY <2>0, <2>1 DEF EntryStays
    <3>2. QED
      BY <2>1, <3>1 DEF OwnEntry, Entered
  <2>2. ASSUME NEW v \in Workers, Holds(v, a)
        PROVE  task[v].cred.acct = a /\ v # w /\ (v \in Adding(a) \/ Refreshing(v))
    BY <2>0, <2>2 DEF Holds, KindsFit, Adding, Refreshing
  <2>3. task[w].kind # "add"
    <3> SUFFICES ASSUME task[w].kind = "add" PROVE FALSE
      OBVIOUS
    <3>1. Entered(a) = {} /\ \A v \in Adding(a) : v = w
      BY DEF Adding, Shared
    <3>2. ~HasLatest(entries, a)
      BY <3>1 DEF HasLatest, Entered
    <3>3. PICK v \in Workers : Holds(v, a)
      BY <3>2 DEF Held
    <3>4. QED
      BY <2>1, <2>2, <3>1, <3>3
  <2>4. Refreshing(w)
    BY <2>3 DEF Refreshing
  <2>5. PICK i \in Entered(a) : OwnEntry(w, i)
    BY <2>1, <2>4
  <2>6. Adding(a) = {} /\ \A j \in Entered(a) : j = i
    BY <2>5 DEF Shared
  <2>7. HasLatest(entries, a)
    <3> SUFFICES ASSUME NEW v \in Workers, Holds(v, a) PROVE FALSE
      BY DEF Held
    <3>1. Refreshing(v) /\ v # w
      BY <2>2, <2>6
    <3>2. QED
      BY <2>0, <2>4, <3>1 DEF RefreshLocked
  <2>8. entries[i].cred.rt = server[a]
    BY <2>6, <2>7 DEF HasLatest, Entered
  <2>9. QED
    BY <2>5, <2>8 DEF OwnEntry, Accepts, Entered
<1>2. QED
  BY <1>1, TokenInvHolds, PTL

\* The latest refresh token of every account with an entry is in an entry or with the
\* worker that has just received it, from the rotation at the server to the store in
\* memory, through deletions of other entries, additions and restarts, but where one of
\* the events that TokenNeverLost names has taken it: a lost or a refused reply, a
\* deletion, an id that was used again, or a crash before the token was saved.
THEOREM LatestTokenHeld == Spec => []TokenNeverLost
<1>1. TokenInv => TokenNeverLost
  <2> SUFFICES ASSUME TokenInv, NEW i \in DOMAIN entries, entries[i].cred.acct \notin given
               PROVE  Held(entries[i].cred.acct)
    BY DEF TokenNeverLost
  <2>1. Typed /\ StoppedEmpty /\ HeldInv
    BY DEF TokenInv
  <2>2. entries[i].cred.acct \in Accounts
    BY <2>1, EntryFacts DEF Live, LiveCreds
  <2>3. up = "up"
    <3>1. entries # << >>
      BY EmptySeq
    <3>2. QED
      BY <2>1, <3>1 DEF StoppedEmpty
  <2>4. Seen(entries[i].cred.acct)
    BY DEF Seen, Mentions
  <2>5. QED
    BY <2>1, <2>2, <2>3, <2>4 DEF HeldInv
<1>2. QED
  BY <1>1, TokenInvHolds, PTL

\* Once no request is saving or about to save, the credentials file has every entry as
\* the memory has it, unless a save failed or two saves overlapped.
THEOREM FileCatchesUp == Spec => []DiskCatchesUp
<1>1. TokenInv => DiskCatchesUp
  BY DEF TokenInv, SaveInv, SavesWell, Writing, Covers, SameSaved, DiskCatchesUp
<1>2. QED
  BY <1>1, TokenInvHolds, PTL
=============================================================================
