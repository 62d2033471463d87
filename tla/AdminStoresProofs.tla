-------------------------- MODULE AdminStoresProofs --------------------------
(* Proofs about AdminStores for any number of threads, proxies, credentials,  *)
(* requests, faults and restarts.                                             *)
EXTENDS AdminStores, SequenceTheorems, FiniteSetTheorems, Induction, TLAPS

-----------------------------------------------------------------------------
(* The inductive invariant.                                                   *)

\* f maps some ids into S.
IsMap(f, S) ==
    /\ f = [i \in DOMAIN f |-> f[i]] /\ DOMAIN f \subseteq Ids
    /\ \A i \in DOMAIN f : f[i] \in S

Pools   == {p \in Seq(Item) : \A i, j \in DOMAIN p : p[i].proxy = p[j].proxy => i = j}
Configs == [pool : Pools, mode : Modes, state : {"whole", "torn"}]
Balance == [account : Nat \ {0}, at : Nat]

\* The locals of a request.
ModeTask ==
    [at : {"mode", "load", "undo"}, field : {"mode"}, was : Modes, to : Modes]
    \cup [at : {"truncate", "write", "undo"}, field : {"mode"}, was : Modes, image : Configs]
PoolTask ==
    [at : {"take", "load", "undo"}, field : {"pool"}, was : Pools, to : Pools]
    \cup [at : {"truncate", "write", "undo"}, field : {"pool"}, was : Pools, image : Configs]
CallTask   == [at : {"query", "call", "mark"}, cred : Ids, account : Nat]
DeleteTask == [at : {"forget", "drop", "save"}, id : Ids]
StatsTask  == [at : {"snap", "clear"}, id : Ids \cup {0}]
OneStep    == [at : {"idle", "persist", "save"}]
StoreTask(t) ==
    /\ t = [at |-> "store", id |-> t.id, snapshot |-> t.snapshot]
    /\ t.id \in Ids \cup {0} /\ IsMap(t.snapshot, Entry)
AssignTask(t) ==
    /\ t = [at |-> "assign", all |-> t.all, ids |-> t.ids, limit |-> t.limit,
            overwrite |-> t.overwrite, proxies |-> t.proxies]
    /\ t.all \in BOOLEAN /\ t.overwrite \in BOOLEAN /\ t.ids \subseteq Ids /\ t.limit \in Nat
    /\ DOMAIN t.proxies \subseteq Nat
    /\ \A k \in DOMAIN t.proxies : t.proxies[k] \in Proxies
    /\ \A k, l \in DOMAIN t.proxies : t.proxies[k] = t.proxies[l] => k = l

Task(t) ==
    \/ t \in ModeTask \/ t \in PoolTask \/ t \in CallTask \/ t \in DeleteTask
    \/ t \in StatsTask \/ t \in OneStep
    \/ (t.at = "store" /\ StoreTask(t)) \/ (t.at = "assign" /\ AssignTask(t))

AccountsOf(es) ==
    /\ \A i \in DOMAIN es : es[i].account \in DOMAIN served
    /\ \A i, j \in DOMAIN es : es[i].account = es[j].account => i = j

ConfigTyped == pool \in Pools /\ mode \in Modes /\ config \in Configs
EntriesTyped ==
    /\ served \in Seq(Nat)
    /\ IsMap(entries, Entry) /\ AccountsOf(entries)
    /\ IsMap(creds, Entry) /\ AccountsOf(creds)
FilesTyped ==
    /\ IsMap(balances, Balance) /\ IsMap(balanceFile.map, Balance) /\ IsMap(stats.map, Nat)
    /\ balanceFile = [map |-> balanceFile.map, state |-> balanceFile.state]
    /\ stats = [map |-> stats.map, state |-> stats.state]
ClockTyped ==
    /\ now \in 0 .. mix.time /\ mix \in Mixes
    /\ savedAt \subseteq 0 .. mix.time /\ dirty \in BOOLEAN
    /\ tangled \subseteq Ids
TasksTyped ==
    /\ task = [w \in Workers |-> task[w]]
    /\ \A w \in Workers : Task(task[w])
    /\ \A w \in Workers : task[w].at \in {"query", "call"} => task[w].account \in DOMAIN served
    /\ \A w \in Workers : task[w].at = "store" => AccountsOf(task[w].snapshot)
Typed == ConfigTyped /\ EntriesTyped /\ FilesTyped /\ ClockTyped /\ TasksTyped

\* config.json agrees with memory but for what task t has not saved yet.
Behind(t, p, m) ==
    IF t.field = "pool" THEN p = t.was /\ m = mode ELSE p = pool /\ m = t.was
ConfigOf(t) ==
    /\ t.at \in {"mode", "take", "load", "undo"} =>
           (config.state = "whole" => Behind(t, config.pool, config.mode))
    /\ t.at = "mode" => t.was = mode /\ t.field = "mode"
    /\ t.at = "load" => (IF t.field = "pool" THEN t.to = pool ELSE t.to = mode)
    /\ t.at = "truncate" => config.state = "whole" /\ Behind(t, config.pool, config.mode)
    /\ t.at = "write" => config.state = "torn"
    /\ t.at \in {"truncate", "write"} =>
           t.image.state = "whole" /\ t.image.pool = pool /\ t.image.mode = mode
ConfigInv == ~raced =>
    /\ \A v, w \in Workers : task[v].at \in Changing /\ task[w].at \in Changing => v = w
    /\ \A w \in Workers : task[w].at \in Changing => ConfigOf(task[w])
    /\ (\A w \in Workers : task[w].at \notin Changing) /\ config.state = "whole"
           => config.pool = pool /\ config.mode = mode

\* The id is that of a credential whose deletion has got to one of these places.
DeletedAt(i, places) ==
    \E w \in Workers : task[w].at \in places /\ "id" \in DOMAIN task[w] /\ task[w].id = i

\* No credential is credited with calls that its account has not answered.
CountsOwn(es) == \A i \in DOMAIN es \ tangled : es[i].count <= served[es[i].account]
StatsOwn ==
    stats.state = "whole" =>
        \A i \in DOMAIN stats.map \ tangled :
            \/ DeletedAt(i, {"forget", "snap"})
            \/ i \in DOMAIN entries /\ stats.map[i] <= served[entries[i].account]
CallsInv ==
    /\ CountsOwn(entries) /\ StatsOwn
    /\ \A w \in Workers : task[w].at = "store" => CountsOwn(task[w].snapshot)

\* A balance is that of the credential which has the id now.
BalancesInv ==
    /\ \A i \in DOMAIN balances \ tangled :
           \/ DeletedAt(i, {"forget", "snap", "store", "clear", "drop"})
           \/ balances[i].account = AccountOf(entries, i)
    /\ \A i \in DOMAIN balanceFile.map \ tangled :
           \/ DeletedAt(i, {"forget", "snap", "store", "clear", "drop", "save"})
           \/ balanceFile.map[i].account = AccountOf(entries, i)

\* The counts that the statistics file stands for.
SavedCount(i) ==
    LET saved == Loaded(stats, << >>) IN IF i \in DOMAIN saved THEN saved[i] ELSE 0
AllSaved ==
    \A i \in DOMAIN entries \ tangled :
        DeletedAt(i, {"forget", "snap", "store"}) \/ entries[i].count = SavedCount(i)
\* Snapshot s has the counts of the credentials that are still there.
UpToDate(s) ==
    \A i \in DOMAIN entries \ tangled :
        IF i \in DOMAIN s
        THEN s[i].account = entries[i].account => s[i].count = entries[i].count
        ELSE entries[i].count = 0
SavingInv == ~missed =>
    /\ \A v, w \in Workers :
           task[v].at \in {"store", "clear"} /\ task[w].at \in {"store", "clear"} => v = w
    /\ \A w \in Workers :
           task[w].at = "store" => stats.state = "torn" /\ UpToDate(task[w].snapshot)
    /\ \A w \in Workers : task[w].at = "clear" => AllSaved
    /\ ~dirty /\ (\A w \in Workers : task[w].at \notin {"mark", "snap", "store", "clear"})
           => AllSaved

StoresInv == Typed /\ ConfigInv /\ CallsInv /\ BalancesInv /\ SavingInv

-----------------------------------------------------------------------------
(* What each step leaves as it is.                                            *)

\* The variables that only some of the steps of a worker change.
Frame(w) ==
    /\ UNCHANGED <<now, up, mix>>
    /\ \/ UNCHANGED <<pool, mode, config>> \/ ChangePool(w) \/ SetMode(w)
       \/ TruncateConfig(w) \/ WriteConfig(w) \/ UndoChange(w)
    /\ \/ UNCHANGED <<entries, served>> \/ SetProxy(w) \/ Assign(w) \/ AddCred(w)
       \/ SetDisabled(w) \/ DeleteCred(w) \/ FinishCall(w)
    /\ UNCHANGED creds \/ Persist(w) \/ PersistDelete(w)
    /\ UNCHANGED <<balances, balanceFile>> \/ DropBalance(w) \/ KeepBalance(w) \/ SaveBalances(w)
    /\ UNCHANGED stats \/ SnapStats(w) \/ WriteStats(w)
    /\ UNCHANGED <<dirty, savedAt>> \/ Mark(w) \/ ClearStats(w)
    /\ \/ UNCHANGED tangled \/ PersistDelete(w) \/ KeepBalance(w) \/ SaveBalances(w)
       \/ FinishCall(w) \/ WriteStats(w)
    /\ UNCHANGED missed \/ FinishCall(w) \/ SnapStats(w) \/ WriteStats(w)
    /\ UNCHANGED raced \/ ChangePool(w) \/ AskMode(w)

LEMMA StepFrame ==
    ASSUME NEW w \in Workers, Step(w)
    PROVE  Frame(w)
<1> USE DEF Frame, memory, disk, counters, history, Begin, Fault
<1>1. CASE ChangePool(w)
  BY <1>1 DEF ChangePool
<1>2. CASE AskMode(w)
  BY <1>2 DEF AskMode
<1>3. CASE SetMode(w)
  BY <1>3 DEF SetMode
<1>4. CASE TakePool(w)
  BY <1>4 DEF TakePool
<1>5. CASE LoadConfig(w)
  BY <1>5 DEF LoadConfig
<1>6. CASE TruncateConfig(w)
  BY <1>6 DEF TruncateConfig
<1>7. CASE WriteConfig(w)
  BY <1>7 DEF WriteConfig
<1>8. CASE UndoChange(w)
  BY <1>8 DEF UndoChange
<1>9. CASE SetProxy(w)
  BY <1>9 DEF SetProxy
<1>10. CASE AskAssign(w)
  BY <1>10 DEF AskAssign
<1>11. CASE Assign(w)
  BY <1>11 DEF Assign
<1>12. CASE Persist(w)
  BY <1>12 DEF Persist
<1>13. CASE AddCred(w)
  BY <1>13 DEF AddCred
<1>14. CASE SetDisabled(w)
  BY <1>14 DEF SetDisabled
<1>15. CASE DeleteCred(w)
  BY <1>15 DEF DeleteCred
<1>16. CASE PersistDelete(w)
  BY <1>16 DEF PersistDelete
<1>17. CASE DropBalance(w)
  BY <1>17 DEF DropBalance
<1>18. CASE AskBalance(w)
  BY <1>18 DEF AskBalance
<1>19. CASE KeepBalance(w)
  BY <1>19 DEF KeepBalance
<1>20. CASE SaveBalances(w)
  BY <1>20 DEF SaveBalances
<1>21. CASE StartCall(w)
  BY <1>21 DEF StartCall
<1>22. CASE FinishCall(w)
  BY <1>22 DEF FinishCall
<1>23. CASE Mark(w)
  BY <1>23 DEF Mark
<1>24. CASE SnapStats(w)
  BY <1>24 DEF SnapStats
<1>25. CASE WriteStats(w)
  BY <1>25 DEF WriteStats
<1>26. CASE ClearStats(w)
  BY <1>26 DEF ClearStats
<1>27. QED
  BY <1>1, <1>2, <1>3, <1>4, <1>5, <1>6, <1>7, <1>8, <1>9, <1>10, <1>11, <1>12, <1>13, <1>14,
     <1>15, <1>16, <1>17, <1>18, <1>19, <1>20, <1>21, <1>22, <1>23, <1>24, <1>25, <1>26
     DEF Step

-----------------------------------------------------------------------------
(* Types of the pool, the mode and config.json.                               *)

LEMMA RemoveAtProperties ==
    ASSUME NEW S, NEW s \in Seq(S), NEW i \in 1 .. Len(s)
    PROVE  /\ RemoveAt(s, i) \in Seq(S) /\ Len(RemoveAt(s, i)) = Len(s) - 1
           /\ \A k \in 1 .. Len(s) - 1 :
                  RemoveAt(s, i)[k] = IF k < i THEN s[k] ELSE s[k + 1]
<1> DEFINE a == SubSeq(s, 1, i - 1)
           b == SubSeq(s, i + 1, Len(s))
<1>0. Len(s) \in Nat
  BY LenProperties
<1>1. a \in Seq(S) /\ Len(a) = i - 1 /\ \A k \in 1 .. i - 1 : a[k] = s[k]
  BY <1>0
<1>2. b \in Seq(S) /\ Len(b) = Len(s) - i /\ \A k \in 1 .. Len(s) - i : b[k] = s[i + k]
  BY <1>0
<1> HIDE DEF a, b
<1>3. /\ a \o b \in Seq(S) /\ Len(a \o b) = Len(s) - 1
      /\ \A k \in 1 .. Len(s) - 1 :
            (a \o b)[k] = IF k <= i - 1 THEN a[k] ELSE b[k - (i - 1)]
  <2>1. Len(a) + Len(b) = Len(s) - 1
    BY <1>0, <1>1, <1>2
  <2>2. /\ a \o b \in Seq(S) /\ Len(a \o b) = Len(a) + Len(b)
        /\ \A k \in 1 .. Len(a) + Len(b) :
              (a \o b)[k] = IF k <= Len(a) THEN a[k] ELSE b[k - Len(a)]
    BY <1>1, <1>2, ConcatProperties
  <2>3. QED
    BY <1>1, <2>1, <2>2
<1>4. ASSUME NEW k \in 1 .. Len(s) - 1
      PROVE  (a \o b)[k] = IF k < i THEN s[k] ELSE s[k + 1]
  <2>1. CASE k < i
    BY <1>0, <1>1, <1>3, <2>1
  <2>2. CASE ~(k < i)
    <3>1. k - (i - 1) \in 1 .. Len(s) - i /\ i + (k - (i - 1)) = k + 1 /\ ~(k <= i - 1)
      BY <1>0, <2>2
    <3>2. b[k - (i - 1)] = s[k + 1]
      BY <1>2, <3>1
    <3>3. QED
      BY <1>3, <2>2, <3>1, <3>2
  <2>3. QED
    BY <2>1, <2>2
<1>5. QED
  BY <1>3, <1>4 DEF RemoveAt, a, b

LEMMA PoolProperties ==
    ASSUME NEW p \in Pools
    PROVE  /\ p \in Seq(Item) /\ Len(p) \in Nat /\ DOMAIN p = 1 .. Len(p)
           /\ \A i \in 1 .. Len(p) : p[i] \in Item
           /\ \A i, j \in 1 .. Len(p) : p[i].proxy = p[j].proxy => i = j
<1>1. p \in Seq(Item) /\ \A i, j \in DOMAIN p : p[i].proxy = p[j].proxy => i = j
  BY DEF Pools
<1>2. QED
  BY <1>1, LenProperties, ElementOfSeq

\* A change leaves no proxy in the pool twice.
LEMMA ChangedPoolsTyped ==
    ASSUME pool \in Pools, NEW p \in ChangedPools
    PROVE  p \in Pools
<1>0. /\ pool \in Seq(Item) /\ Len(pool) \in Nat /\ DOMAIN pool = 1 .. Len(pool)
      /\ \A i \in 1 .. Len(pool) : pool[i] \in Item
      /\ \A i, j \in 1 .. Len(pool) : pool[i].proxy = pool[j].proxy => i = j
  BY PoolProperties
<1>1. ASSUME NEW x \in Item, ~SomeProxy(x.proxy, pool), p = Append(pool, x)
      PROVE  p \in Pools
  <2>1. \A i \in 1 .. Len(pool) : pool[i].proxy # x.proxy
    BY <1>0, <1>1 DEF SomeProxy
  <2>2. /\ Append(pool, x) \in Seq(Item) /\ Len(Append(pool, x)) = Len(pool) + 1
        /\ \A i \in 1 .. Len(pool) : Append(pool, x)[i] = pool[i]
        /\ Append(pool, x)[Len(pool) + 1] = x
    BY <1>0, AppendProperties
  <2>3. /\ p \in Seq(Item) /\ DOMAIN p = 1 .. Len(pool) + 1
        /\ \A i \in 1 .. Len(pool) : p[i] = pool[i]
        /\ p[Len(pool) + 1] = x
    BY <1>1, <2>2, LenProperties
  <2>4. \A i, j \in DOMAIN p : p[i].proxy = p[j].proxy => i = j
    BY <1>0, <2>1, <2>3
  <2>5. QED
    BY <2>3, <2>4 DEF Pools
<1>2. ASSUME NEW n \in DOMAIN pool, p = RemoveAt(pool, n)
      PROVE  p \in Pools
  <2>1. /\ p \in Seq(Item) /\ Len(p) = Len(pool) - 1
        /\ \A k \in 1 .. Len(pool) - 1 : p[k] = IF k < n THEN pool[k] ELSE pool[k + 1]
    <3>1. n \in 1 .. Len(pool)
      BY <1>0
    <3>2. QED
      BY <1>0, <1>2, <3>1, RemoveAtProperties
  <2>2. DOMAIN p = 1 .. Len(pool) - 1
    BY <2>1, LenProperties
  <2>3. \A i, j \in DOMAIN p : p[i].proxy = p[j].proxy => i = j
    <3> TAKE i \in DOMAIN p, j \in DOMAIN p
    <3> HAVE p[i].proxy = p[j].proxy
    <3> DEFINE at(k) == IF k < n THEN k ELSE k + 1
    <3>1. /\ at(i) \in 1 .. Len(pool) /\ p[i] = pool[at(i)]
          /\ at(j) \in 1 .. Len(pool) /\ p[j] = pool[at(j)]
      BY <1>0, <1>2, <2>1, <2>2
    <3>2. at(i) = at(j)
      BY <1>0, <3>1
    <3>3. QED
      BY <1>0, <1>2, <2>2, <3>2
  <2>4. QED
    BY <2>1, <2>3 DEF Pools
<1>3. ASSUME NEW n \in DOMAIN pool, NEW d \in BOOLEAN, p = [pool EXCEPT ![n].disabled = d]
      PROVE  p \in Pools
  <2>1. /\ DOMAIN p = 1 .. Len(pool)
        /\ \A i \in 1 .. Len(pool) : p[i] \in Item /\ p[i].proxy = pool[i].proxy
    BY <1>0, <1>3 DEF Item
  <2>2. p = [i \in 1 .. Len(pool) |-> p[i]]
    BY <1>0, <1>3
  <2>3. p \in Seq(Item)
    BY <1>0, <2>1, <2>2
  <2>4. QED
    BY <1>0, <2>1, <2>3 DEF Pools
<1>4. \/ p \in {Append(pool, x) : x \in {y \in Item : ~SomeProxy(y.proxy, pool)}}
      \/ p \in {RemoveAt(pool, n) : n \in DOMAIN pool}
      \/ p \in {[pool EXCEPT ![n].disabled = d] : n \in DOMAIN pool, d \in BOOLEAN}
  BY DEF ChangedPools
<1>5. QED
  BY <1>1, <1>2, <1>3, <1>4

LEMMA ConfigTypedStep ==
    ASSUME Typed, NEW w \in Workers, Step(w)
    PROVE  ConfigTyped'
<1>0. ConfigTyped /\ Task(task[w])
  BY DEF Typed, TasksTyped
<1>1. CASE UNCHANGED <<pool, mode, config>>
  BY <1>0, <1>1 DEF ConfigTyped
<1>2. CASE ChangePool(w)
  BY <1>0, <1>2, ChangedPoolsTyped DEF ChangePool, ConfigTyped, disk
<1>3. CASE SetMode(w)
  <2>1. task[w].to \in Modes
    BY <1>0, <1>3 DEF SetMode, At, Task, ModeTask, PoolTask, CallTask, DeleteTask, StatsTask,
                      OneStep
  <2>2. QED
    BY <1>0, <1>3, <2>1 DEF SetMode, ConfigTyped, disk
<1>4. CASE TruncateConfig(w)
  BY <1>0, <1>4 DEF TruncateConfig, ConfigTyped, Configs, memory
<1>5. CASE WriteConfig(w)
  <2>1. task[w].image \in Configs
    BY <1>0, <1>5 DEF WriteConfig, At, Task, ModeTask, PoolTask, CallTask, DeleteTask, StatsTask,
                      OneStep
  <2>2. QED
    BY <1>0, <1>5, <2>1 DEF WriteConfig, ConfigTyped, Configs, memory
<1>6. CASE UndoChange(w)
  <2>1. (task[w].field = "pool" => task[w].was \in Pools) /\ (task[w].field = "mode" => task[w].was \in Modes)
    BY <1>0, <1>6 DEF UndoChange, At, Task, ModeTask, PoolTask, CallTask, DeleteTask, StatsTask,
                      OneStep
  <2>2. QED
    BY <1>0, <1>6, <2>1 DEF UndoChange, ConfigTyped, disk
<1>7. QED
  BY <1>1, <1>2, <1>3, <1>4, <1>5, <1>6, StepFrame DEF Frame

-----------------------------------------------------------------------------
(* What assign_proxy_pool hands out.                                          *)

Bindings == Proxies \cup {Unset, Direct}
States(r, D) == [bound : [D -> Bindings], load : [DOMAIN r.proxies -> Nat]]

\* Among proxies with room there is a first one of the least used.
LEMMA LeastUsed ==
    ASSUME NEW K \in SUBSET Nat, K # {}, NEW load, \A k \in K : load[k] \in Nat
    PROVE  \E k \in K : \A l \in K : load[k] < load[l] \/ (load[k] = load[l] /\ k <= l)
<1> DEFINE Loads == {load[k] : k \in K}
<1>1. PICK m \in Loads : \A n \in Loads : m <= n
  <2>1. Loads \subseteq Nat /\ Loads # {}
    OBVIOUS
  <2> HIDE DEF Loads
  <2>2. QED
    BY <2>1, LeastOf
<1> DEFINE First == {k \in K : load[k] = m}
<1>2. PICK k \in First : \A l \in First : k <= l
  <2>1. First \subseteq Nat /\ First # {}
    BY <1>1
  <2> HIDE DEF First
  <2>2. QED
    BY <2>1, LeastOf
<1>3. ASSUME NEW l \in K
      PROVE  load[k] < load[l] \/ (load[k] = load[l] /\ k <= l)
  <2>1. m \in Nat /\ load[l] \in Nat /\ m <= load[l] /\ load[k] = m
    BY <1>1, <1>2
  <2>2. CASE load[l] = m
    BY <1>2, <2>1, <2>2
  <2>3. CASE load[l] # m
    BY <2>1, <2>3
  <2>4. QED
    BY <2>2, <2>3
<1>4. QED
  BY <1>2, <1>3

LEMMA HandTyped ==
    ASSUME NEW r, AssignTask(r), NEW D \in SUBSET Ids, NEW s \in States(r, D), NEW i \in D
    PROVE  Hand(r, s, i) \in States(r, D)
<1> DEFINE room == {k \in DOMAIN r.proxies : r.limit = 0 \/ s.load[k] < r.limit}
           least(k) == \A l \in room : s.load[k] < s.load[l] \/ (s.load[k] = s.load[l] /\ k <= l)
           k0 == CHOOSE k \in room : least(k)
<1>1. CASE room = {} \/ ~Selected(r, i) \/ (s.bound[i] # Unset /\ ~r.overwrite)
  BY <1>1 DEF Hand
<1>2. CASE ~(room = {} \/ ~Selected(r, i) \/ (s.bound[i] # Unset /\ ~r.overwrite))
  <2>1. Hand(r, s, i) = [bound |-> [s.bound EXCEPT ![i] = r.proxies[k0]],
                         load  |-> [s.load EXCEPT ![k0] = @ + 1]]
    BY <1>2 DEF Hand
  <2>2. k0 \in room
    <3>1. room \in SUBSET Nat /\ room # {} /\ \A k \in room : s.load[k] \in Nat
      BY <1>2 DEF AssignTask, States
    <3> HIDE DEF room
    <3>2. \E k \in room : least(k)
      BY <3>1, LeastUsed
    <3> HIDE DEF least
    <3>3. QED
      BY <3>2
  <2>3. k0 \in DOMAIN r.proxies /\ r.proxies[k0] \in Bindings
    BY <2>2 DEF AssignTask, Bindings
  <2> HIDE DEF k0
  <2>4. QED
    BY <2>1, <2>3 DEF States
<1>3. QED
  BY <1>1, <1>2

LEMMA NoneHandedTyped ==
    ASSUME NEW r, AssignTask(r), NEW D \in SUBSET Ids, NEW bound \in [D -> Bindings]
    PROVE  NoneHanded(r, bound) \in States(r, D)
<1>1. ASSUME NEW p
      PROVE  LoadOf(r, bound, p) \in Nat
  <2> DEFINE B == {i \in DOMAIN bound : bound[i] = p /\ ~(r.overwrite /\ i \in r.ids)}
  <2>1. IsFiniteSet(Ids)
    BY FS_Interval, StoresAssumption DEF Ids
  <2>2. B \subseteq Ids
    OBVIOUS
  <2>3. Cardinality(B) \in Nat
    BY <2>1, <2>2, FS_Subset, FS_CardinalityType
  <2>4. QED
    BY <2>3 DEF LoadOf
<1>2. QED
  BY <1>1 DEF NoneHanded, States

\* One after the other, until all have had their turn.
TurnsOf(g, r, bound) ==
    /\ g[0] = NoneHanded(r, bound)
    /\ \A i \in 1 .. MaxIds : g[i] = IF i \in DOMAIN bound THEN Hand(r, g[i - 1], i) ELSE g[i - 1]
    /\ g[MaxIds] = Handed(r, bound)
Turnable(r, bound, D) == \E g \in [0 .. MaxIds -> States(r, D)] : TurnsOf(g, r, bound)

LEMMA HandedTurns ==
    ASSUME NEW r, AssignTask(r), NEW D \in SUBSET Ids, NEW bound \in [D -> Bindings]
    PROVE  Turnable(r, bound, D)
<1> DEFINE S == States(r, D)
           none == NoneHanded(r, bound)
           next(i, s) == IF i \in D THEN Hand(r, s, i) ELSE s
           step == [p \in Nat \X S |-> next(p[1] + 1, p[2])]
           Turns(g) == g = [i \in 0 .. MaxIds |-> IF i = 0 THEN none
                            ELSE IF i \in DOMAIN bound THEN Hand(r, g[i - 1], i) ELSE g[i - 1]]
           upTo == CHOOSE g : Turns(g)
<1>0. MaxIds \in Nat /\ DOMAIN bound = D
  BY StoresAssumption
<1>1. none \in S
  BY NoneHandedTyped
<1>2. \A i : \A s \in S : next(i, s) \in S
  BY HandTyped
<1>3. step \in [Nat \X S -> S]
  <2> HIDE DEF S, next
  <2>1. QED
    BY <1>2
<1>4. Solvable(MaxIds, S, none, step)
  <2> HIDE DEF S, none, step
  <2>1. MaxIds \in Nat
    BY <1>0
  <2>2. QED
    BY <2>1, <1>1, <1>3, RecursionUpTo
<1>5. PICK g \in [0 .. MaxIds -> S] :
           g[0] = none /\ \A k \in 0 .. MaxIds - 1 : g[k + 1] = step[<<k, g[k]>>]
  <2> HIDE DEF S, none, step
  <2>1. QED
    BY <1>4 DEF Solvable
<1>6. ASSUME NEW i \in 0 .. MaxIds, i # 0
      PROVE  g[i] = next(i, g[i - 1])
  <2> HIDE DEF next, S
  <2>1. i - 1 \in 0 .. MaxIds - 1 /\ i - 1 \in 0 .. MaxIds /\ (i - 1) + 1 = i /\ i - 1 \in Nat
    BY <1>0, <1>6
  <2>2. g[i] = step[<<i - 1, g[i - 1]>>] /\ g[i - 1] \in S
    BY <1>5, <2>1
  <2>3. QED
    BY <2>1, <2>2
<1>7. Turns(g)
  <2> HIDE DEF none, S
  <2>1. QED
    BY <1>0, <1>5, <1>6
<1>8. Turns(upTo)
  <2> HIDE DEF Turns
  <2>1. QED
    BY <1>7
<1>9. Handed(r, bound) = upTo[MaxIds]
  BY DEF Handed
<1>10. \A i \in 0 .. MaxIds : i \in {j \in 0 .. MaxIds : upTo[j] \in S}
  <2> DEFINE T == {j \in 0 .. MaxIds : upTo[j] \in S}
  <2> HIDE DEF upTo, none, S
  <2>1. 0 \in T
    BY <1>0, <1>1, <1>8
  <2>2. ASSUME NEW j \in 0 .. MaxIds - 1, j \in T
        PROVE  j + 1 \in T
    <3>1. j + 1 \in 0 .. MaxIds /\ j + 1 # 0 /\ (j + 1) - 1 = j
      BY <1>0
    <3>2. upTo[j + 1] = next(j + 1, upTo[j])
      BY <1>0, <1>8, <3>1
    <3>3. upTo[j] \in S
      BY <2>2
    <3> HIDE DEF next
    <3>4. upTo[j + 1] \in S
      BY <1>2, <3>2, <3>3
    <3>5. QED
      BY <3>1, <3>4
  <2> HIDE DEF T
  <2>3. \A i \in 0 .. MaxIds : i \in T
    BY <1>0, <2>1, <2>2, InductionUpTo
  <2>4. QED
    BY <2>3 DEF T
<1>11. upTo \in [0 .. MaxIds -> S]
  <2>1. upTo = [i \in 0 .. MaxIds |-> upTo[i]]
    <3> HIDE DEF upTo, none
    <3>1. QED
      BY <1>8
  <2> HIDE DEF upTo, S
  <2>2. QED
    BY <1>10, <2>1
<1>12. TurnsOf(upTo, r, bound)
  <2>1. upTo[0] = none
    <3> HIDE DEF upTo, none
    <3>1. QED
      BY <1>0, <1>8
  <2>2. \A i \in 1 .. MaxIds : upTo[i] = IF i \in DOMAIN bound THEN Hand(r, upTo[i - 1], i) ELSE upTo[i - 1]
    <3> HIDE DEF upTo, none
    <3>1. QED
      BY <1>0, <1>8
  <2> HIDE DEF upTo
  <2>3. QED
    BY <1>9, <2>1, <2>2 DEF TurnsOf
<1>13. QED
  <2> HIDE DEF upTo
  <2>1. QED
    BY <1>11, <1>12 DEF Turnable

LEMMA HandedTyped ==
    ASSUME NEW r, AssignTask(r), NEW D \in SUBSET Ids, NEW bound \in [D -> Bindings]
    PROVE  Handed(r, bound) \in States(r, D)
<1>1. PICK g \in [0 .. MaxIds -> States(r, D)] : TurnsOf(g, r, bound)
  BY HandedTurns DEF Turnable
<1>2. MaxIds \in 0 .. MaxIds
  BY StoresAssumption
<1>3. QED
  BY <1>1, <1>2 DEF TurnsOf

-----------------------------------------------------------------------------
(* Types of the credentials, and of the calls that their accounts answer.     *)

LEMMA WithMap ==
    ASSUME NEW S, NEW f, IsMap(f, S), NEW i \in Ids, NEW v \in S
    PROVE  /\ IsMap(With(f, i, v), S) /\ DOMAIN With(f, i, v) = DOMAIN f \cup {i}
           /\ With(f, i, v)[i] = v /\ \A j \in DOMAIN f \ {i} : With(f, i, v)[j] = f[j]
BY DEF IsMap, With

LEMMA WithoutMap ==
    ASSUME NEW S, NEW f, IsMap(f, S), NEW i
    PROVE  /\ IsMap(Without(f, i), S) /\ DOMAIN Without(f, i) = DOMAIN f \ {i}
           /\ \A j \in DOMAIN f \ {i} : Without(f, i)[j] = f[j]
BY DEF IsMap, Without

\* The next id is one that no credential has.
LEMMA NextId ==
    ASSUME NEW D \in SUBSET Ids
    PROVE  1 + Max(D \cup {0}) \in Nat /\ 1 + Max(D \cup {0}) \notin D
<1> DEFINE T == D \cup {0}
           Top(x) == \A y \in T : x >= y
<1>0. MaxIds \in Nat /\ T # {} /\ T \subseteq 0 .. MaxIds
  BY StoresAssumption DEF Ids
<1>1. \E x \in T : \A y \in T : y <= x
  <2> HIDE DEF T
  <2>1. QED
    BY <1>0, GreatestOf
<1>2. \E x \in T : Top(x)
  BY <1>0, <1>1
<1>3. Max(T) = CHOOSE x \in T : Top(x)
  BY DEF Max
<1>4. Max(T) \in T /\ Top(Max(T))
  <2> HIDE DEF T, Top
  <2>1. QED
    BY <1>2, <1>3
<1>5. Max(T) \in Nat /\ \A y \in D : Max(T) >= y /\ y \in Nat
  BY <1>0, <1>4
<1> HIDE DEF T
<1>6. 1 + Max(T) \in Nat /\ 1 + Max(T) \notin D
  BY <1>5
<1>7. QED
  BY <1>6 DEF T

LEMMA TaskKind ==
    ASSUME NEW t, Task(t)
    PROVE  /\ t.at = "mode" => t \in ModeTask
           /\ t.at = "take" => t \in PoolTask
           /\ t.at \in {"load", "truncate", "write", "undo"} => t \in ModeTask \cup PoolTask
           /\ t.at \in {"query", "call", "mark"} => t \in CallTask
           /\ t.at \in {"forget", "drop"} => t \in DeleteTask
           /\ t.at \in {"snap", "clear"} => t \in StatsTask
           /\ t.at = "store" => StoreTask(t)
           /\ t.at = "assign" => AssignTask(t)
BY DEF Task, ModeTask, PoolTask, CallTask, DeleteTask, StatsTask, OneStep

\* An assignment leaves the accounts and the counts alone.
LEMMA AssignKeeps ==
    ASSUME Typed, NEW w \in Workers, Assign(w)
    PROVE  /\ IsMap(entries', Entry) /\ DOMAIN entries' = DOMAIN entries
           /\ \A i \in DOMAIN entries : /\ entries'[i].account = entries[i].account
                                        /\ entries'[i].count = entries[i].count
<1> DEFINE r == task[w]
           bound == [i \in DOMAIN entries |-> entries[i].proxy]
           D == DOMAIN entries
           after == [i \in D |-> [entries[i] EXCEPT !.proxy = Handed(r, bound).bound[i]]]
<1>1. IsMap(entries, Entry) /\ AssignTask(r)
  BY TaskKind DEF Typed, EntriesTyped, TasksTyped, Assign, At
<1>2. D \in SUBSET Ids /\ bound \in [D -> Bindings]
  BY <1>1 DEF IsMap, Entry, Bindings
<1>3. Handed(r, bound) \in States(r, D)
  <2> HIDE DEF r, bound, D
  <2>1. QED
    BY <1>1, <1>2, HandedTyped
<1>4. \A i \in D : Handed(r, bound).bound[i] \in Bindings
  BY <1>3 DEF States
<1>5. \A i \in D : entries[i] \in Entry
  BY <1>1 DEF IsMap
<1> DEFINE H == Handed(r, bound).bound
<1>6. entries' = entries \/ entries' = [i \in D |-> [entries[i] EXCEPT !.proxy = H[i]]]
  BY DEF Assign
<1>7. CASE entries' = entries
  BY <1>1, <1>7
<1>8. CASE entries' = [i \in D |-> [entries[i] EXCEPT !.proxy = H[i]]]
  <2>1. \A i \in D : H[i] \in Bindings
    BY <1>4
  <2> HIDE DEF H
  <2>2. \A i \in D : /\ entries'[i] \in Entry
                     /\ entries'[i].account = entries[i].account
                     /\ entries'[i].count = entries[i].count
    BY <1>5, <1>8, <2>1 DEF Entry, Bindings
  <2>3. QED
    BY <1>2, <1>8, <2>2 DEF IsMap
<1>9. QED
  BY <1>6, <1>7, <1>8

LEMMA EntriesStep ==
    ASSUME Typed, NEW w \in Workers, Step(w)
    PROVE  /\ served' \in Seq(Nat) /\ DOMAIN served \subseteq DOMAIN served'
           /\ IsMap(entries', Entry) /\ AccountsOf(entries)'
<1>0. /\ served \in Seq(Nat) /\ Len(served) \in Nat /\ DOMAIN served = 1 .. Len(served)
      /\ IsMap(entries, Entry) /\ AccountsOf(entries)
  BY LenProperties DEF Typed, EntriesTyped
<1>1. CASE UNCHANGED <<entries, served>>
  BY <1>0, <1>1 DEF AccountsOf
<1>2. CASE SetProxy(w)
  <2>1. PICK i \in DOMAIN entries, p \in Proxies \cup {Unset, Direct} :
            entries' = [entries EXCEPT ![i].proxy = p] /\ served' = served
    BY <1>2 DEF SetProxy, history
  <2>2. /\ DOMAIN entries' = DOMAIN entries /\ entries' = [j \in DOMAIN entries' |-> entries'[j]]
        /\ \A j \in DOMAIN entries : entries'[j] \in Entry /\ entries'[j].account = entries[j].account
    BY <1>0, <2>1 DEF IsMap, Entry
  <2>3. QED
    BY <1>0, <2>1, <2>2, SMTT(30) DEF IsMap, AccountsOf
<1>3. CASE Assign(w)
  <2>1. served' = served
    BY <1>3 DEF Assign, history
  <2>2. QED
    BY <1>0, <1>3, <2>1, AssignKeeps DEF AccountsOf
<1>4. CASE AddCred(w)
  <2> DEFINE id == 1 + Max(DOMAIN entries \cup {0})
             new == [account |-> Len(served) + 1, proxy |-> Unset, disabled |-> FALSE, count |-> 0]
  <2>1. /\ id \in Ids /\ entries' = With(entries, id, new) /\ served' = Append(served, 0)
    BY <1>4 DEF AddCred
  <2>2. /\ served' \in Seq(Nat) /\ DOMAIN served' = 1 .. Len(served) + 1
    <3>1. served' \in Seq(Nat) /\ Len(served') = Len(served) + 1
      BY <1>0, <2>1, AppendProperties
    <3>2. QED
      BY <3>1, LenProperties
  <2>3. new \in Entry
    BY <1>0 DEF Entry
  <2>4. /\ IsMap(entries', Entry) /\ DOMAIN entries' = DOMAIN entries \cup {id}
        /\ entries'[id] = new /\ \A j \in DOMAIN entries \ {id} : entries'[j] = entries[j]
    BY <1>0, <2>1, <2>3 DEF With, IsMap
  <2>5. entries'[id].account = Len(served) + 1
    BY <2>4
  <2> HIDE DEF id, new
  <2>6. \A j \in DOMAIN entries : entries[j].account \in 1 .. Len(served)
    BY <1>0 DEF AccountsOf
  <2>7. QED
    BY <1>0, <2>2, <2>4, <2>5, <2>6 DEF AccountsOf
<1>5. CASE SetDisabled(w)
  <2>1. PICK i \in DOMAIN entries, d \in BOOLEAN :
            entries' = [entries EXCEPT ![i].disabled = d] /\ served' = served
    BY <1>5 DEF SetDisabled, history
  <2>2. /\ DOMAIN entries' = DOMAIN entries /\ entries' = [j \in DOMAIN entries' |-> entries'[j]]
        /\ \A j \in DOMAIN entries : entries'[j] \in Entry /\ entries'[j].account = entries[j].account
    BY <1>0, <2>1 DEF IsMap, Entry
  <2>3. QED
    BY <1>0, <2>1, <2>2 DEF IsMap, AccountsOf
<1>6. CASE DeleteCred(w)
  <2>1. PICK i \in DOMAIN entries : entries' = Without(entries, i) /\ served' = served
    BY <1>6 DEF DeleteCred, history
  <2>2. /\ IsMap(entries', Entry) /\ DOMAIN entries' \subseteq DOMAIN entries
        /\ \A j \in DOMAIN entries' : entries'[j] = entries[j]
    BY <1>0, <2>1 DEF Without, IsMap
  <2>3. QED
    BY <1>0, <2>1, <2>2 DEF AccountsOf
<1>7. CASE FinishCall(w)
  <2> DEFINE i == task[w].cred
             a == task[w].account
  <2>1. /\ entries' = IF i \in DOMAIN entries THEN [entries EXCEPT ![i].count = @ + 1] ELSE entries
        /\ served' = [served EXCEPT ![a] = @ + 1]
    BY <1>7 DEF FinishCall
  <2>2. served' \in Seq(Nat) /\ DOMAIN served' = DOMAIN served
    <3>1. DOMAIN served' = 1 .. Len(served) /\ \A b \in 1 .. Len(served) : served'[b] \in Nat
      BY <1>0, <2>1
    <3>2. served' = [b \in 1 .. Len(served) |-> served'[b]]
      BY <1>0, <2>1
    <3>3. QED
      BY <1>0, <3>1, <3>2
  <2>3. /\ DOMAIN entries' = DOMAIN entries
        /\ \A j \in DOMAIN entries : entries'[j] \in Entry /\ entries'[j].account = entries[j].account
    <3>1. \A j \in DOMAIN entries : entries[j] \in Entry
      BY <1>0 DEF IsMap
    <3>2. CASE i \in DOMAIN entries
      <4>1. entries' = [entries EXCEPT ![i].count = entries[i].count + 1] /\ entries[i].count + 1 \in Nat
        BY <2>1, <3>1, <3>2 DEF Entry
      <4>2. QED
        BY <3>1, <4>1 DEF Entry
    <3>3. CASE i \notin DOMAIN entries
      BY <2>1, <3>1, <3>3
    <3>4. QED
      BY <3>2, <3>3
  <2>4. entries' = [j \in DOMAIN entries' |-> entries'[j]]
    BY <1>0, <2>1 DEF IsMap
  <2>5. QED
    BY <1>0, <2>2, <2>3, <2>4 DEF IsMap, AccountsOf
<1>8. QED
  BY <1>1, <1>2, <1>3, <1>4, <1>5, <1>6, <1>7, StepFrame DEF Frame

LEMMA EntriesTypedStep ==
    ASSUME Typed, NEW w \in Workers, Step(w)
    PROVE  EntriesTyped'
<1>0. /\ served' \in Seq(Nat) /\ DOMAIN served \subseteq DOMAIN served'
      /\ IsMap(entries', Entry) /\ AccountsOf(entries)'
  BY EntriesStep
<1>1. IsMap(entries, Entry) /\ AccountsOf(entries) /\ IsMap(creds, Entry) /\ AccountsOf(creds)
  BY DEF Typed, EntriesTyped
<1>2. CASE creds' = creds
  BY <1>0, <1>1, <1>2 DEF EntriesTyped, AccountsOf
<1>3. CASE creds' = Persistent(entries)
  <2>1. /\ DOMAIN creds' = DOMAIN entries /\ creds' = [i \in DOMAIN creds' |-> creds'[i]]
        /\ \A i \in DOMAIN entries : creds'[i] \in Entry /\ creds'[i].account = entries[i].account
    BY <1>1, <1>3 DEF Persistent, IsMap, Entry
  <2>2. QED
    BY <1>0, <1>1, <2>1 DEF EntriesTyped, AccountsOf, IsMap
<1>4. creds' = creds \/ creds' = Persistent(entries)
  BY StepFrame DEF Frame, Persist, PersistDelete
<1>5. QED
  BY <1>2, <1>3, <1>4


-----------------------------------------------------------------------------
(* Types of the other files, of the clock and of the tasks.                   *)

LEMMA FilesTypedStep ==
    ASSUME Typed, NEW w \in Workers, Step(w)
    PROVE  FilesTyped'
<1>0. FilesTyped /\ ClockTyped /\ Task(task[w]) /\ now \in Nat
  BY StoresAssumption DEF Typed, TasksTyped, ClockTyped
<1>1. IsMap(balances', Balance) /\ IsMap(balanceFile'.map, Balance)
      /\ balanceFile' = [map |-> balanceFile'.map, state |-> balanceFile'.state]
  <2>1. CASE UNCHANGED <<balances, balanceFile>>
    BY <1>0, <2>1 DEF FilesTyped
  <2>2. CASE DropBalance(w)
    <3>1. balances' = Without(balances, task[w].id) /\ balanceFile' = balanceFile
      BY <2>2 DEF DropBalance, disk
    <3>2. IsMap(Without(balances, task[w].id), Balance)
      BY <1>0, WithoutMap DEF FilesTyped
    <3>3. QED
      BY <1>0, <3>1, <3>2 DEF FilesTyped
  <2>3. CASE KeepBalance(w)
    <3> DEFINE b == [account |-> task[w].account, at |-> now]
    <3>1. /\ balances' = balances \/ balances' = With(balances, task[w].cred, b)
          /\ balanceFile' = balanceFile
      BY <2>3 DEF KeepBalance, disk
    <3>2. task[w].cred \in Ids /\ b \in Balance
      <4>1. task[w].at = "query" /\ task[w].account \in DOMAIN served
        BY <2>3 DEF KeepBalance, At, Typed, TasksTyped
      <4>2. DOMAIN served = 1 .. Len(served) /\ Len(served) \in Nat
        BY LenProperties DEF Typed, EntriesTyped
      <4>3. task[w].account \in Nat \ {0}
        BY <4>1, <4>2
      <4>4. QED
        BY <1>0, <4>1, <4>3, TaskKind DEF CallTask, Balance
    <3>3. IsMap(With(balances, task[w].cred, b), Balance)
      BY <1>0, <3>2 DEF FilesTyped, With, IsMap
    <3> HIDE DEF b
    <3>4. QED
      BY <1>0, <3>1, <3>3 DEF FilesTyped
  <2>4. CASE SaveBalances(w)
    <3>1. /\ balances' = balances
          /\ balanceFile' = balanceFile \/ balanceFile' = [map |-> balances, state |-> "whole"]
      BY <2>4 DEF SaveBalances, memory
    <3>2. QED
      BY <1>0, <3>1 DEF FilesTyped
  <2>5. QED
    BY <2>1, <2>2, <2>3, <2>4, StepFrame DEF Frame
<1>2. IsMap(stats'.map, Nat) /\ stats' = [map |-> stats'.map, state |-> stats'.state]
  <2>1. CASE stats' = stats
    BY <1>0, <2>1 DEF FilesTyped
  <2>2. CASE SnapStats(w)
    BY <1>0, <2>2 DEF FilesTyped, SnapStats
  <2>3. CASE WriteStats(w)
    <3>1. \/ stats' = stats \/ stats' = [stats EXCEPT !.state = "torn"]
          \/ stats' = [map |-> Counts(task[w].snapshot), state |-> "whole"]
      BY <2>3 DEF WriteStats
    <3>2. IsMap(task[w].snapshot, Entry)
      BY <1>0, <2>3, TaskKind DEF WriteStats, At, StoreTask
    <3>3. IsMap(Counts(task[w].snapshot), Nat)
      BY <3>2 DEF IsMap, Counts, Entry
    <3>4. QED
      BY <1>0, <3>1, <3>3 DEF FilesTyped
  <2>4. QED
    BY <2>1, <2>2, <2>3, StepFrame DEF Frame
<1>3. QED
  BY <1>1, <1>2 DEF FilesTyped

LEMMA ClockTypedStep ==
    ASSUME Typed, NEW w \in Workers, Step(w)
    PROVE  ClockTyped'
<1>0. /\ ClockTyped /\ FilesTyped /\ Task(task[w])
      /\ \A i \in DOMAIN entries : i \in Ids
      /\ now' = now /\ mix' = mix
  BY StepFrame DEF Typed, TasksTyped, EntriesTyped, IsMap, Frame
<1>1. savedAt' \subseteq 0 .. mix.time /\ dirty' \in BOOLEAN
  <2>1. CASE UNCHANGED <<dirty, savedAt>>
    BY <1>0, <2>1 DEF ClockTyped
  <2>2. CASE Mark(w)
    BY <1>0, <2>2 DEF ClockTyped, Mark
  <2>3. CASE ClearStats(w)
    BY <1>0, <2>3 DEF ClockTyped, ClearStats
  <2>4. QED
    BY <2>1, <2>2, <2>3, StepFrame DEF Frame
<1>2. tangled' \subseteq Ids
  <2>1. CASE tangled' = tangled
    BY <1>0, <2>1 DEF ClockTyped
  <2>2. CASE PersistDelete(w)
    <3>1. task[w].id \in Ids
      BY <1>0, <2>2, TaskKind DEF PersistDelete, At, DeleteTask
    <3>2. QED
      BY <1>0, <2>2, <3>1 DEF ClockTyped, PersistDelete
  <2>3. CASE KeepBalance(w)
    <3>1. task[w].cred \in Ids
      BY <1>0, <2>3, TaskKind DEF KeepBalance, At, CallTask
    <3>2. QED
      BY <1>0, <2>3, <3>1 DEF ClockTyped, KeepBalance
  <2>4. CASE SaveBalances(w)
    BY <1>0, <2>4 DEF ClockTyped, SaveBalances, FilesTyped, IsMap
  <2>5. CASE FinishCall(w)
    <3>1. task[w].cred \in Ids
      BY <1>0, <2>5, TaskKind DEF FinishCall, At, CallTask
    <3>2. QED
      BY <1>0, <2>5, <3>1 DEF ClockTyped, FinishCall
  <2>6. CASE WriteStats(w)
    <3>1. task[w].id \in Ids \cup {0} /\ DOMAIN task[w].snapshot \subseteq Ids
      BY <1>0, <2>6, TaskKind DEF WriteStats, At, StoreTask, IsMap
    <3>2. QED
      BY <1>0, <2>6, <3>1 DEF ClockTyped, WriteStats
  <2>7. QED
    BY <2>1, <2>2, <2>3, <2>4, <2>5, <2>6, StepFrame DEF Frame
<1>3. QED
  BY <1>0, <1>1, <1>2 DEF ClockTyped

LEMMA TaskChange ==
    ASSUME TasksTyped, NEW w \in Workers, NEW t, Task(t), task' = [task EXCEPT ![w] = t],
           DOMAIN served \subseteq DOMAIN served',
           t.at \in {"query", "call"} => t.account \in DOMAIN served,
           t.at = "store" => AccountsOf(t.snapshot)
    PROVE  TasksTyped'
<1>1. /\ task' = [v \in Workers |-> task'[v]] /\ task'[w] = t
      /\ \A v \in Workers \ {w} : task'[v] = task[v]
  BY DEF TasksTyped
<1>2. QED
  BY <1>1 DEF TasksTyped, AccountsOf

\* A request that only goes on elsewhere, with the same locals.
LEMMA TaskGoes ==
    ASSUME TasksTyped, NEW w \in Workers, NEW place, Goto(w, place),
           Task([task[w] EXCEPT !.at = place]), place \notin {"query", "call", "store"},
           DOMAIN served \subseteq DOMAIN served'
    PROVE  TasksTyped'
<1> DEFINE t == [task[w] EXCEPT !.at = place]
<1>1. task' = [task EXCEPT ![w] = t]
  BY DEF Goto, TasksTyped
<1>2. "at" \in DOMAIN task[w]
  BY DEF TasksTyped, Task, ModeTask, PoolTask, CallTask, DeleteTask, StatsTask, OneStep,
         StoreTask, AssignTask
<1>3. t.at = place
  BY <1>2
<1> HIDE DEF t
<1>4. QED
  BY <1>1, <1>3, TaskChange DEF t

LEMMA TaskEnds ==
    ASSUME TasksTyped, NEW w \in Workers, Finish(w), DOMAIN served \subseteq DOMAIN served'
    PROVE  TasksTyped'
<1>1. Task(Idle) /\ Idle.at = "idle"
  BY DEF Task, OneStep, Idle
<1>2. QED
  BY <1>1, TaskChange DEF Finish


LEMMA TasksTypedStep ==
    ASSUME Typed, NEW w \in Workers, Step(w)
    PROVE  TasksTyped'
<1>0. /\ TasksTyped /\ ConfigTyped /\ DOMAIN served \subseteq DOMAIN served'
      /\ \A i \in DOMAIN entries : i \in Ids /\ entries[i] \in Entry
      /\ \A i \in DOMAIN entries : entries[i].account \in Nat /\ entries[i].account \in DOMAIN served
      /\ IsMap(entries, Entry) /\ AccountsOf(entries)
  BY EntriesStep DEF Typed, EntriesTyped, IsMap, AccountsOf, Entry
<1>1. ASSUME NEW p \in {"persist", "save"}
      PROVE  Task([at |-> p])
  BY DEF Task, OneStep
<1>2. Task(task[w]) /\ (At(w, task[w].at) => up)
  BY <1>0 DEF TasksTyped, At
<1>3. CASE ChangePool(w)
  <2> DEFINE t == [at |-> "take", field |-> "pool", was |-> pool, to |-> << >>]
  <2>1. Task(t) /\ t.at = "take"
    <3>1. << >> \in Pools
      BY EmptySeq DEF Pools
    <3>2. QED
      BY <1>0, <3>1 DEF Task, PoolTask, ConfigTyped
  <2>2. task' = [task EXCEPT ![w] = t]
    BY <1>3 DEF ChangePool, Begin
  <2> HIDE DEF t
  <2>3. QED
    BY <1>0, <2>1, <2>2, TaskChange
<1>4. CASE AskMode(w)
  <2>1. PICK m \in Modes :
            task' = [task EXCEPT ![w] = [at |-> "mode", field |-> "mode", was |-> mode, to |-> m]]
    BY <1>4 DEF AskMode, Begin
  <2> DEFINE t == [at |-> "mode", field |-> "mode", was |-> mode, to |-> m]
  <2>2. Task(t) /\ t.at = "mode"
    BY <1>0 DEF Task, ModeTask, ConfigTyped
  <2>3. task' = [task EXCEPT ![w] = t]
    BY <2>1
  <2> HIDE DEF t
  <2>4. QED
    BY <1>0, <2>2, <2>3, TaskChange
<1>5. CASE SetMode(w)
  <2>1. Task([task[w] EXCEPT !.at = "load"])
    <3>1. task[w] \in [at : {"mode", "load", "undo"}, field : {"mode"}, was : Modes, to : Modes]
      BY <1>2, <1>5, TaskKind DEF SetMode, At, ModeTask
    <3>2. QED
      BY <3>1 DEF Task, ModeTask
  <2>2. QED
    BY <1>0, <1>5, <2>1, TaskGoes DEF SetMode
<1>6. CASE TakePool(w)
  <2> DEFINE t == [task[w] EXCEPT !.at = "load", !.to = pool]
  <2>1. task[w] \in [at : {"take", "load", "undo"}, field : {"pool"}, was : Pools, to : Pools]
    BY <1>2, <1>6, TaskKind DEF TakePool, At, PoolTask
  <2>2. Task(t) /\ t.at = "load"
    <3>1. t \in [at : {"take", "load", "undo"}, field : {"pool"}, was : Pools, to : Pools] /\ t.at = "load"
      BY <1>0, <2>1 DEF ConfigTyped
    <3>2. QED
      BY <3>1 DEF Task, PoolTask
  <2>3. task' = [task EXCEPT ![w] = t]
    BY <1>0, <1>6 DEF TakePool, TasksTyped
  <2> HIDE DEF t
  <2>4. QED
    BY <1>0, <2>2, <2>3, TaskChange
<1>7. CASE LoadConfig(w)
  <2> DEFINE image == IF task[w].field = "pool" THEN [config EXCEPT !.pool = task[w].to]
                      ELSE [config EXCEPT !.mode = task[w].to]
             t == IF config.state = "torn" THEN [task[w] EXCEPT !.at = "undo"]
                  ELSE [at |-> "truncate", field |-> task[w].field, was |-> task[w].was,
                        image |-> image]
  <2>1. task' = [task EXCEPT ![w] = t]
    BY <1>0, <1>7 DEF LoadConfig, TasksTyped
  <2>2. \/ task[w] \in [at : {"mode", "load", "undo"}, field : {"mode"}, was : Modes, to : Modes]
        \/ task[w] \in [at : {"take", "load", "undo"}, field : {"pool"}, was : Pools, to : Pools]
    BY <1>2, <1>7, TaskKind DEF LoadConfig, At, ModeTask, PoolTask
  <2>3. image \in Configs
    BY <1>0, <2>2 DEF ConfigTyped, Configs
  <2>4. Task(t) /\ t.at \in {"undo", "truncate"}
    <3>1. CASE config.state = "torn"
      BY <2>2, <3>1 DEF Task, ModeTask, PoolTask
    <3>2. CASE config.state # "torn"
      <4> HIDE DEF image
      <4>1. t = [at |-> "truncate", field |-> task[w].field, was |-> task[w].was, image |-> image]
        BY <3>2
      <4>2. QED
        BY <2>2, <2>3, <4>1 DEF Task, ModeTask, PoolTask
    <3>3. QED
      BY <3>1, <3>2
  <2> HIDE DEF t
  <2>5. QED
    BY <1>0, <2>1, <2>4, TaskChange
<1>8. CASE TruncateConfig(w)
  <2>1. Task([task[w] EXCEPT !.at = "write"]) /\ Task([task[w] EXCEPT !.at = "undo"])
    BY <1>2, <1>8, TaskKind DEF TruncateConfig, At, Task, ModeTask, PoolTask
  <2>2. QED
    BY <1>0, <1>8, <2>1, TaskGoes DEF TruncateConfig
<1>9. CASE WriteConfig(w)
  <2>1. Task([task[w] EXCEPT !.at = "undo"])
    BY <1>2, <1>9, TaskKind DEF WriteConfig, At, Task, ModeTask, PoolTask
  <2>2. QED
    BY <1>0, <1>9, <2>1, TaskGoes, TaskEnds DEF WriteConfig
<1>10. CASE UndoChange(w)
  BY <1>0, <1>10, TaskEnds DEF UndoChange
<1>11. CASE SetProxy(w) \/ SetDisabled(w) \/ AddCred(w)
  <2>1. task' = [task EXCEPT ![w] = [at |-> "persist"]]
    BY <1>11 DEF SetProxy, SetDisabled, AddCred, Begin
  <2>2. Task([at |-> "persist"])
    BY <1>1
  <2>3. QED
    BY <1>0, <2>1, <2>2, TaskChange
<1>12. CASE AskAssign(w)
  <2> DEFINE enabled == {k \in DOMAIN pool : ~pool[k].disabled}
             proxies == [k \in enabled |-> pool[k].proxy]
  <2>1. PICK ids \in SUBSET DOMAIN entries, all \in BOOLEAN, overwrite \in BOOLEAN, limit \in Limits :
            Begin(w, "assign", [at |-> "assign", all |-> all, ids |-> ids, limit |-> limit,
                                overwrite |-> overwrite, proxies |-> proxies])
    BY <1>12, Zenon DEF AskAssign
  <2> DEFINE t == [at |-> "assign", all |-> all, ids |-> ids, limit |-> limit,
                   overwrite |-> overwrite, proxies |-> proxies]
  <2>2. /\ DOMAIN proxies \subseteq Nat
        /\ \A k \in DOMAIN proxies : proxies[k] \in Proxies
        /\ \A k, l \in DOMAIN proxies : proxies[k] = proxies[l] => k = l
    <3>1. DOMAIN pool = 1 .. Len(pool) /\ Len(pool) \in Nat /\ \A k \in 1 .. Len(pool) : pool[k] \in Item
      BY <1>0, PoolProperties DEF ConfigTyped
    <3>2. \A k, l \in DOMAIN pool : pool[k].proxy = pool[l].proxy => k = l
      BY <1>0 DEF ConfigTyped, Pools
    <3>3. QED
      BY <3>1, <3>2 DEF Item
  <2>3. limit \in Nat /\ ids \subseteq Ids
    BY <1>0, StoresAssumption
  <2> HIDE DEF proxies
  <2>4. AssignTask(t) /\ t.at = "assign"
    BY <2>2, <2>3 DEF AssignTask
  <2>5. task' = [task EXCEPT ![w] = t]
    BY <2>1 DEF Begin
  <2> HIDE DEF t
  <2>6. Task(t)
    BY <2>4 DEF Task
  <2>7. QED
    BY <1>0, <2>4, <2>5, <2>6, TaskChange
<1>13. CASE Assign(w)
  <2>1. task' = [task EXCEPT ![w] = [at |-> "persist"]] \/ Finish(w)
    BY <1>13 DEF Assign
  <2>2. Task([at |-> "persist"])
    BY <1>1
  <2>3. QED
    BY <1>0, <2>1, <2>2, TaskChange, TaskEnds
<1>14. CASE Persist(w)
  BY <1>0, <1>14, TaskEnds DEF Persist
<1>15. CASE DeleteCred(w)
  <2>1. PICK i \in DOMAIN entries : task' = [task EXCEPT ![w] = [at |-> "forget", id |-> i]]
    BY <1>15 DEF DeleteCred, Begin
  <2>2. Task([at |-> "forget", id |-> i])
    BY <1>0 DEF Task, DeleteTask
  <2>3. QED
    BY <1>0, <2>1, <2>2, TaskChange
<1>16. CASE PersistDelete(w)
  <2>1. Task([task[w] EXCEPT !.at = "snap"])
    BY <1>2, <1>16, TaskKind DEF PersistDelete, At, Task, DeleteTask, StatsTask
  <2>2. QED
    BY <1>0, <1>16, <2>1, TaskGoes, TaskEnds DEF PersistDelete
<1>17. CASE DropBalance(w)
  <2>1. Task([task[w] EXCEPT !.at = "save"])
    BY <1>2, <1>17, TaskKind DEF DropBalance, At, Task, DeleteTask
  <2>2. QED
    BY <1>0, <1>17, <2>1, TaskGoes DEF DropBalance
<1>18. CASE AskBalance(w) \/ StartCall(w)
  <2>1. PICK i \in DOMAIN entries, p \in {"query", "call"} :
            task' = [task EXCEPT ![w] = [at |-> p, cred |-> i, account |-> entries[i].account]]
    BY <1>18 DEF AskBalance, StartCall, Begin
  <2> DEFINE t == [at |-> p, cred |-> i, account |-> entries[i].account]
  <2>2. Task(t) /\ t.at # "store" /\ t.account \in DOMAIN served
    BY <1>0 DEF Task, CallTask
  <2>3. task' = [task EXCEPT ![w] = t]
    BY <2>1
  <2> HIDE DEF t
  <2>4. QED
    BY <1>0, <2>2, <2>3, TaskChange
<1>19. CASE KeepBalance(w)
  <2>1. task' = [task EXCEPT ![w] = [at |-> "save"]] \/ Finish(w)
    BY <1>19 DEF KeepBalance
  <2>2. Task([at |-> "save"])
    BY <1>1
  <2>3. QED
    BY <1>0, <2>1, <2>2, TaskChange, TaskEnds
<1>20. CASE SaveBalances(w)
  BY <1>0, <1>20, TaskEnds DEF SaveBalances
<1>21. CASE FinishCall(w)
  <2>1. Task([task[w] EXCEPT !.at = "mark"])
    BY <1>2, <1>21, TaskKind DEF FinishCall, At, Task, CallTask
  <2>2. QED
    BY <1>0, <1>21, <2>1, TaskGoes DEF FinishCall
<1>22. CASE Mark(w)
  <2>1. task' = [task EXCEPT ![w] = [at |-> "snap", id |-> 0]] \/ Finish(w)
    BY <1>22 DEF Mark, Finish
  <2>2. Task([at |-> "snap", id |-> 0])
    BY DEF Task, StatsTask
  <2>3. QED
    BY <1>0, <2>1, <2>2, TaskChange, TaskEnds
<1>23. CASE SnapStats(w)
  <2> DEFINE t == [at |-> "store", id |-> task[w].id, snapshot |-> entries]
  <2>1. task[w].id \in Ids \cup {0}
    BY <1>2, <1>23, TaskKind DEF SnapStats, At, StatsTask
  <2>2. StoreTask(t) /\ t.at = "store" /\ t.snapshot = entries
    BY <1>0, <2>1 DEF StoreTask
  <2>3. task' = [task EXCEPT ![w] = t]
    BY <1>0, <1>23 DEF SnapStats, TasksTyped
  <2> HIDE DEF t
  <2>4. Task(t)
    BY <2>2 DEF Task
  <2>5. QED
    BY <1>0, <2>2, <2>3, <2>4, TaskChange
<1>24. CASE WriteStats(w) \/ ClearStats(w)
  <2>1. task[w].id \in Ids \cup {0}
    BY <1>2, <1>24, TaskKind DEF WriteStats, ClearStats, At, StatsTask, StoreTask
  <2>2. ToClear(w) \/ Leave(w)
    BY <1>24 DEF WriteStats, ClearStats
  <2>3. CASE ToClear(w)
    <3>1. task' = [task EXCEPT ![w] = [at |-> "clear", id |-> task[w].id]]
      BY <1>0, <2>3 DEF ToClear, TasksTyped
    <3>2. Task([at |-> "clear", id |-> task[w].id])
      BY <2>1 DEF Task, StatsTask
    <3>3. QED
      BY <1>0, <3>1, <3>2, TaskChange
  <2>4. CASE Leave(w)
    <3>1. task' = [task EXCEPT ![w] = IF task[w].id = 0 THEN Idle ELSE [at |-> "drop", id |-> task[w].id]]
      BY <1>0, <2>4 DEF Leave, TasksTyped
    <3>2. CASE task[w].id = 0
      BY <1>0, <3>1, <3>2, TaskEnds DEF Finish
    <3>3. CASE task[w].id # 0
      <4>1. Task([at |-> "drop", id |-> task[w].id])
        BY <2>1, <3>3 DEF Task, DeleteTask
      <4>2. QED
        BY <1>0, <3>1, <3>3, <4>1, TaskChange
    <3>4. QED
      BY <3>2, <3>3
  <2>5. QED
    BY <2>2, <2>3, <2>4
<1>25. QED
  BY <1>3, <1>4, <1>5, <1>6, <1>7, <1>8, <1>9, <1>10, <1>11, <1>12, <1>13, <1>14, <1>15, <1>16,
     <1>17, <1>18, <1>19, <1>20, <1>21, <1>22, <1>23, <1>24 DEF Step


-----------------------------------------------------------------------------
(* Types of all variables, from the start and over a restart.                 *)

LEMMA TypedInit ==
    ASSUME Init
    PROVE  Typed
<1> DEFINE N == Len(InitEntries)
<1>1. /\ InitEntries \in Seq(Entry) /\ N \in Nat /\ DOMAIN InitEntries = 1 .. N
      /\ \A i \in 1 .. N : InitEntries[i] \in Entry /\ InitEntries[i].account = i
      /\ 1 .. N \subseteq Ids /\ InitEntries = [i \in 1 .. N |-> InitEntries[i]]
  BY StoresAssumption, LenProperties, ElementOfSeq DEF Ids
<1> HIDE DEF N
<1>2. ConfigTyped
  BY StoresAssumption DEF Init, ConfigTyped, Pools, Configs, Modes
<1>3. EntriesTyped
  <2>1. served = [a \in 1 .. N |-> InitEntries[a].count] /\ \A a \in 1 .. N : served[a] \in Nat
    BY <1>1 DEF Init, Entry
  <2>2. served \in Seq(Nat) /\ DOMAIN served = 1 .. N
    BY <1>1, <2>1
  <2>3. IsMap(entries, Entry) /\ AccountsOf(entries)
    BY <1>1, <2>2 DEF Init, IsMap, AccountsOf
  <2>4. /\ creds = [i \in 1 .. N |-> [InitEntries[i] EXCEPT !.count = 0]]
        /\ \A i \in 1 .. N : creds[i] \in Entry /\ creds[i].account = i
    BY <1>1 DEF Init, Persistent, Entry
  <2>5. IsMap(creds, Entry) /\ AccountsOf(creds)
    <3>1. DOMAIN creds = 1 .. N /\ creds = [i \in DOMAIN creds |-> creds[i]]
      BY <2>4
    <3>2. IsMap(creds, Entry)
      BY <1>1, <2>4, <3>1 DEF IsMap
    <3>3. AccountsOf(creds)
      BY <2>2, <2>4, <3>1 DEF AccountsOf
    <3>4. QED
      BY <3>2, <3>3
  <2>6. QED
    BY <2>2, <2>3, <2>5 DEF EntriesTyped
<1>4. FilesTyped
  <2>1. IsMap(Counts(InitEntries), Nat)
    BY <1>1 DEF IsMap, Counts, Entry
  <2>2. IsMap(<< >>, Balance)
    BY DEF IsMap
  <2>3. QED
    BY <2>1, <2>2 DEF FilesTyped, Init
<1>5. ClockTyped
  <2>1. mix \in Mixes /\ mix.time \in Nat /\ now = 0 /\ savedAt = {0} /\ dirty = FALSE /\ tangled = {}
    BY StoresAssumption DEF Init
  <2>2. 0 \in 0 .. mix.time
    BY <2>1
  <2>3. QED
    BY <2>1, <2>2 DEF ClockTyped
<1>6. TasksTyped
  BY DEF Init, TasksTyped, Task, OneStep, Idle
<1>7. QED
  BY <1>2, <1>3, <1>4, <1>5, <1>6 DEF Typed

LEMMA TypedStep ==
    ASSUME Typed, NEW w \in Workers, Step(w)
    PROVE  Typed'
BY ConfigTypedStep, EntriesTypedStep, FilesTypedStep, ClockTypedStep, TasksTypedStep DEF Typed

LEMMA TypedTick ==
    ASSUME Typed, Tick
    PROVE  Typed'
<1>1. UNCHANGED <<memory, disk, up, task, counters, history>> /\ now < mix.time /\ now' = now + 1
  BY DEF Tick
<1>2. mix.time \in Nat /\ now \in 0 .. mix.time
  BY StoresAssumption DEF Typed, ClockTyped
<1>3. ClockTyped'
  BY <1>1, <1>2 DEF Typed, ClockTyped, memory, counters, history
<1>4. (ConfigTyped /\ EntriesTyped /\ FilesTyped /\ TasksTyped)'
  BY <1>1 DEF Typed, ConfigTyped, EntriesTyped, AccountsOf, FilesTyped, TasksTyped, memory, disk,
              counters, history
<1>5. QED
  BY <1>3, <1>4 DEF Typed

LEMMA TypedRest ==
    ASSUME Typed, UNCHANGED vars
    PROVE  Typed'
BY DEF Typed, ConfigTyped, EntriesTyped, AccountsOf, FilesTyped, ClockTyped, TasksTyped, vars,
       memory, disk, counters, history

\* The ids that deletions have in hand.
LEMMA DeletingIds ==
    ASSUME TasksTyped
    PROVE  Deleting \subseteq Ids
<1> SUFFICES ASSUME NEW w \in Workers, "id" \in DOMAIN task[w], task[w].id # 0
             PROVE  task[w].id \in Ids
  BY DEF Deleting
<1>1. Task(task[w])
  BY DEF TasksTyped
<1>2. QED
  BY <1>1 DEF Task, ModeTask, PoolTask, CallTask, DeleteTask, StatsTask, OneStep, StoreTask,
              AssignTask

LEMMA RestartEntries ==
    ASSUME Typed, Restart
    PROVE  /\ DOMAIN entries' = DOMAIN creds
           /\ \A i \in DOMAIN creds : /\ entries'[i].account = creds[i].account
                                      /\ entries'[i].count = SavedCount(i)
           /\ IsMap(entries', Entry)
<1> DEFINE counted == Loaded(stats, << >>)
           count(i) == IF i \in DOMAIN counted THEN counted[i] ELSE 0
<1>1. entries' = [i \in DOMAIN creds |-> [creds[i] EXCEPT !.count = count(i)]]
  BY DEF Restart
<1>2. \A i : count(i) \in Nat
  BY DEF Typed, FilesTyped, IsMap, Loaded
<1>3. \A i : count(i) = SavedCount(i)
  BY DEF SavedCount
<1>4. IsMap(creds, Entry)
  BY DEF Typed, EntriesTyped
<1> HIDE DEF count
<1>5. QED
  BY <1>1, <1>2, <1>3, <1>4 DEF IsMap, Entry

LEMMA TypedRestart ==
    ASSUME Typed, Restart
    PROVE  Typed'
<1>1. ConfigTyped'
  BY DEF Typed, ConfigTyped, Configs, Restart
<1>2. EntriesTyped'
  <2>1. /\ served \in Seq(Nat) /\ IsMap(creds, Entry) /\ AccountsOf(creds)
        /\ served' = served /\ creds' = creds
    BY DEF Typed, EntriesTyped, Restart
  <2>2. AccountsOf(creds)' /\ AccountsOf(entries)'
    BY <2>1, RestartEntries DEF AccountsOf
  <2>3. QED
    BY <2>1, <2>2, RestartEntries DEF EntriesTyped
<1>3. FilesTyped'
  <2> DEFINE kept == Loaded(balanceFile, << >>)
             fresh == {j \in DOMAIN kept : Fresh(kept[j])}
  <2>1. IsMap(kept, Balance)
    BY DEF Typed, FilesTyped, Loaded, IsMap
  <2>2. balances' = [i \in fresh |-> kept[i]] /\ fresh \subseteq DOMAIN kept
    BY DEF Restart
  <2>3. IsMap(balances', Balance)
    <3> HIDE DEF kept, fresh
    <3>1. QED
      BY <2>1, <2>2 DEF IsMap
  <2>4. balanceFile' = balanceFile \/ balanceFile' = [balanceFile EXCEPT !.state = "torn"]
    BY DEF Restart
  <2>5. QED
    BY <2>3, <2>4 DEF Typed, FilesTyped, Restart
<1>4. ClockTyped'
  <2>1. Deleting \subseteq Ids /\ Differing(entries, creds) \subseteq Ids
    BY DeletingIds DEF Typed, Differing
  <2>2. /\ now' = now /\ mix' = mix /\ dirty' = FALSE /\ savedAt' \subseteq {now}
        /\ tangled' = tangled \cup Deleting \cup Differing(entries, creds)
    BY DEF Restart
  <2>3. QED
    BY <2>1, <2>2 DEF Typed, ClockTyped
<1>5. TasksTyped'
  BY DEF Restart, TasksTyped, Task, OneStep, Idle
<1>6. QED
  BY <1>1, <1>2, <1>3, <1>4, <1>5 DEF Typed

\* The variables keep their types, the pool has no proxy twice, and no two credentials
\* have the same account.
THEOREM StoresTypes == Spec => []TypeOK
<1>1. Init => Typed
  BY TypedInit
<1>2. Typed /\ [Next]_vars => Typed'
  BY TypedStep, TypedTick, TypedRestart, TypedRest DEF Next, Rest
<1>3. Typed => TypeOK
  <2> SUFFICES ASSUME Typed
               PROVE  TypeOK
    OBVIOUS
  <2>1. /\ pool \in Seq(Item) /\ mode \in Modes /\ config.pool \in Seq(Item) /\ config.mode \in Modes
        /\ \A i, j \in DOMAIN pool : pool[i].proxy = pool[j].proxy => i = j
    BY DEF Typed, ConfigTyped, Pools, Configs
  <2>2. QED
    BY <2>1 DEF Typed, EntriesTyped, FilesTyped, ClockTyped, AccountsOf, IsMap, TypeOK
<1>4. QED
  BY <1>1, <1>2, <1>3, PTL DEF Spec


-----------------------------------------------------------------------------
(* Where each step is, and where it goes.                                     *)

ConfigStep(w) ==
    \/ ChangePool(w) \/ AskMode(w) \/ SetMode(w) \/ TakePool(w)
    \/ LoadConfig(w) \/ TruncateConfig(w) \/ WriteConfig(w) \/ UndoChange(w)
SavingPlaces == {"mark", "snap", "store", "clear"}
Moves(w) ==
    /\ \A v \in Workers \ {w} : task'[v] = task[v]
    /\ ConfigStep(w) \/ (task[w].at \notin Changing /\ task'[w].at \notin Changing)
    /\ \/ PersistDelete(w) \/ FinishCall(w) \/ Mark(w) \/ SnapStats(w) \/ WriteStats(w) \/ ClearStats(w)
       \/ task[w].at \notin SavingPlaces /\ task'[w].at \notin SavingPlaces

LEMMA StepMoves ==
    ASSUME TasksTyped, NEW w \in Workers, Step(w)
    PROVE  Moves(w)
<1>0. DOMAIN task = Workers /\ "at" \in DOMAIN task[w]
  BY DEF TasksTyped, Task, ModeTask, PoolTask, CallTask, DeleteTask, StatsTask, OneStep,
         StoreTask, AssignTask
<1> USE DEF Begin, At, Goto, Finish, Idle, Changing, SavingPlaces, Moves
<1>1. CASE ChangePool(w)
  BY <1>0, <1>1 DEF ChangePool, ConfigStep
<1>2. CASE AskMode(w)
  <2>1. /\ \A v \in Workers \ {w} : task'[v] = task[v]
        /\ task[w].at = "idle" /\ task'[w].at = "mode"
    BY <1>0, <1>2 DEF AskMode
  <2>2. QED
    BY <1>2, <2>1 DEF ConfigStep
<1>3. CASE SetMode(w)
  BY <1>0, <1>3 DEF SetMode, ConfigStep
<1>4. CASE TakePool(w)
  BY <1>0, <1>4 DEF TakePool, ConfigStep
<1>5. CASE LoadConfig(w)
  BY <1>0, <1>5 DEF LoadConfig, ConfigStep
<1>6. CASE TruncateConfig(w)
  BY <1>0, <1>6 DEF TruncateConfig, ConfigStep
<1>7. CASE WriteConfig(w)
  BY <1>0, <1>7 DEF WriteConfig, ConfigStep
<1>8. CASE UndoChange(w)
  BY <1>0, <1>8 DEF UndoChange, ConfigStep
<1>9. CASE SetProxy(w)
  BY <1>0, <1>9 DEF SetProxy
<1>10. CASE AskAssign(w)
  BY <1>0, <1>10 DEF AskAssign
<1>11. CASE Assign(w)
  BY <1>0, <1>11 DEF Assign
<1>12. CASE Persist(w)
  BY <1>0, <1>12 DEF Persist
<1>13. CASE AddCred(w)
  BY <1>0, <1>13 DEF AddCred
<1>14. CASE SetDisabled(w)
  BY <1>0, <1>14 DEF SetDisabled
<1>15. CASE DeleteCred(w)
  BY <1>0, <1>15 DEF DeleteCred
<1>16. CASE PersistDelete(w)
  BY <1>0, <1>16 DEF PersistDelete
<1>17. CASE DropBalance(w)
  BY <1>0, <1>17 DEF DropBalance
<1>18. CASE AskBalance(w)
  BY <1>0, <1>18 DEF AskBalance
<1>19. CASE KeepBalance(w)
  BY <1>0, <1>19 DEF KeepBalance
<1>20. CASE SaveBalances(w)
  BY <1>0, <1>20 DEF SaveBalances
<1>21. CASE StartCall(w)
  BY <1>0, <1>21 DEF StartCall
<1>22. CASE FinishCall(w)
  BY <1>0, <1>22 DEF FinishCall
<1>23. CASE Mark(w)
  BY <1>0, <1>23 DEF Mark
<1>24. CASE SnapStats(w)
  BY <1>0, <1>24 DEF SnapStats
<1>25. CASE WriteStats(w)
  BY <1>0, <1>25 DEF WriteStats, Leave, ToClear
<1>26. CASE ClearStats(w)
  BY <1>0, <1>26 DEF ClearStats, Leave
<1>27. QED
  BY <1>1, <1>2, <1>3, <1>4, <1>5, <1>6, <1>7, <1>8, <1>9, <1>10, <1>11, <1>12, <1>13,
     <1>14, <1>15, <1>16, <1>17, <1>18, <1>19, <1>20, <1>21, <1>22, <1>23, <1>24, <1>25, <1>26
     DEF Step

-----------------------------------------------------------------------------
(* config.json agrees with memory.                                            *)

LEMMA ChangingKind ==
    ASSUME NEW t, Task(t), t.at \in Changing
    PROVE  \/ t \in ModeTask /\ t.field = "mode" /\ t.was \in Modes
           \/ t \in PoolTask /\ t.field = "pool" /\ t.was \in Pools
BY DEF Task, ModeTask, PoolTask, CallTask, DeleteTask, StatsTask, OneStep, Changing

\* One change at a time: that of w is the only one, before and after the step.
LEMMA ConfigAlone ==
    ASSUME NEW w \in Workers, Moves(w), ~raced,
           \A v \in Workers \ {w} : task[v].at \notin Changing,
           task'[w].at \in Changing => ConfigOf(task[w])',
           task'[w].at \notin Changing /\ config'.state = "whole"
               => config'.pool = pool' /\ config'.mode = mode'
    PROVE  ConfigInv'
<1>1. \A v \in Workers \ {w} : task'[v].at \notin Changing
  BY DEF Moves
<1>2. \A v \in Workers : task'[v].at \in Changing => v = w
  BY <1>1
<1>3. \A v \in Workers : task'[v].at \in Changing => ConfigOf(task[v])'
  BY <1>2
<1>4. QED
  BY <1>1, <1>2, <1>3 DEF ConfigInv

LEMMA ConfigInvStep ==
    ASSUME Typed, ConfigInv, NEW w \in Workers, Step(w)
    PROVE  ConfigInv'
<1>0. /\ TasksTyped /\ Task(task[w]) /\ DOMAIN task = Workers /\ config \in Configs
      /\ Moves(w)
  BY StepMoves DEF Typed, TasksTyped, ConfigTyped
<1>1. CASE raced'
  BY <1>1 DEF ConfigInv
<1>2. CASE ~raced' /\ ~ConfigStep(w)
  <2>1. /\ UNCHANGED <<pool, mode, config, raced>>
        /\ task[w].at \notin Changing /\ task'[w].at \notin Changing
        /\ \A v \in Workers \ {w} : task'[v] = task[v]
    BY <1>0, <1>2, StepFrame DEF Frame, Moves, ConfigStep
  <2>2. \A v \in Workers : ConfigOf(task[v]) /\ v # w => ConfigOf(task[v])'
    BY <2>1 DEF ConfigOf, Behind
  <2>3. QED
    BY <1>2, <2>1, <2>2 DEF ConfigInv
<1>3. ASSUME ~raced', ChangePool(w) \/ AskMode(w)
      PROVE  ConfigInv'
  <2>1. /\ ~raced /\ \A v \in Workers \ {w} : task[v].at \notin Changing
        /\ task[w].at = "idle" /\ config' = config
    BY <1>3 DEF ChangePool, AskMode, Others, Begin, At, disk
  <2>2. config.state = "whole" => config.pool = pool /\ config.mode = mode
    BY <2>1 DEF ConfigInv, Changing
  <2>3. task'[w].at \in Changing /\ ConfigOf(task[w])'
    <3>1. CASE ChangePool(w)
      <4>1. /\ task'[w] = [at |-> "take", field |-> "pool", was |-> pool, to |-> << >>]
            /\ mode' = mode
        BY <1>0, <3>1 DEF ChangePool, Begin
      <4>2. QED
        BY <2>1, <2>2, <4>1 DEF ConfigOf, Behind, Changing
    <3>2. CASE AskMode(w)
      <4>1. /\ task'[w].at = "mode" /\ task'[w].field = "mode" /\ task'[w].was = mode
            /\ mode' = mode /\ pool' = pool
        BY <1>0, <3>2 DEF AskMode, Begin, memory
      <4>2. QED
        BY <2>1, <2>2, <4>1 DEF ConfigOf, Behind, Changing
    <3>3. QED
      BY <1>3, <3>1, <3>2
  <2>4. QED
    BY <1>0, <2>1, <2>3, ConfigAlone
<1>4. ASSUME ~raced', task[w].at \in Changing, ~ChangePool(w), ~AskMode(w)
      PROVE  /\ ~raced /\ \A v \in Workers \ {w} : task[v].at \notin Changing
             /\ ConfigOf(task[w])
  <2>1. ~raced
    BY <1>4, StepFrame DEF Frame
  <2>2. QED
    BY <1>4, <2>1 DEF ConfigInv
<1>5. ASSUME ~raced', SetMode(w)
      PROVE  ConfigInv'
  <2>1. /\ task[w].at = "mode" /\ mode' = task[w].to /\ pool' = pool /\ config' = config
        /\ task'[w] = [task[w] EXCEPT !.at = "load"]
    BY <1>0, <1>5 DEF SetMode, At, Goto, disk
  <2>2. task[w] \in [at : {"mode", "load", "undo"}, field : {"mode"}, was : Modes, to : Modes]
    BY <1>0, <2>1, TaskKind DEF ModeTask
  <2>3. /\ task'[w].at = "load" /\ task'[w].field = "mode" /\ task'[w].was = task[w].was
        /\ task'[w].to = task[w].to
    BY <2>1, <2>2
  <2>4. /\ ~raced /\ \A v \in Workers \ {w} : task[v].at \notin Changing
        /\ ConfigOf(task[w])
    <3>1. ~ChangePool(w) /\ ~AskMode(w)
      BY <2>1 DEF ChangePool, AskMode, Begin, At
    <3>2. QED
      BY <1>4, <1>5, <2>1, <3>1 DEF Changing
  <2>5. ConfigOf(task[w])'
    BY <2>1, <2>2, <2>3, <2>4 DEF ConfigOf, Behind
  <2>6. QED
    BY <1>0, <2>3, <2>4, <2>5, ConfigAlone DEF Changing
<1>6. ASSUME ~raced', TakePool(w)
      PROVE  ConfigInv'
  <2>1. /\ task[w].at = "take" /\ UNCHANGED <<pool, mode, config>>
        /\ task'[w] = [task[w] EXCEPT !.at = "load", !.to = pool]
    BY <1>0, <1>6 DEF TakePool, At, memory, disk
  <2>2. task[w] \in [at : {"take", "load", "undo"}, field : {"pool"}, was : Pools, to : Pools]
    BY <1>0, <2>1, TaskKind DEF PoolTask
  <2>3. /\ task'[w].at = "load" /\ task'[w].field = "pool" /\ task'[w].was = task[w].was
        /\ task'[w].to = pool
    BY <2>1, <2>2
  <2>4. /\ ~raced /\ \A v \in Workers \ {w} : task[v].at \notin Changing
        /\ ConfigOf(task[w])
    <3>1. ~ChangePool(w) /\ ~AskMode(w)
      BY <2>1 DEF ChangePool, AskMode, Begin, At
    <3>2. QED
      BY <1>4, <1>6, <2>1, <3>1 DEF Changing
  <2>5. ConfigOf(task[w])'
    BY <2>1, <2>2, <2>3, <2>4 DEF ConfigOf, Behind
  <2>6. QED
    BY <1>0, <2>3, <2>4, <2>5, ConfigAlone DEF Changing
<1>7. ASSUME ~raced', LoadConfig(w)
      PROVE  ConfigInv'
  <2>1. task[w].at = "load" /\ UNCHANGED <<pool, mode, config>>
    BY <1>7 DEF LoadConfig, At, memory, disk
  <2>2. \/ task[w] \in [at : {"mode", "load", "undo"}, field : {"mode"}, was : Modes, to : Modes]
        \/ task[w] \in [at : {"take", "load", "undo"}, field : {"pool"}, was : Pools, to : Pools]
    BY <1>0, <2>1, TaskKind DEF ModeTask, PoolTask
  <2>3. /\ ~raced /\ \A v \in Workers \ {w} : task[v].at \notin Changing
        /\ ConfigOf(task[w])
    <3>1. ~ChangePool(w) /\ ~AskMode(w)
      BY <2>1 DEF ChangePool, AskMode, Begin, At
    <3>2. QED
      BY <1>4, <1>7, <2>1, <3>1 DEF Changing
  <2>4. task'[w].at \in Changing /\ ConfigOf(task[w])'
    <3>1. CASE config.state = "torn"
      <4>1. task'[w] = [task[w] EXCEPT !.at = "undo"]
        BY <1>0, <1>7, <3>1 DEF LoadConfig
      <4>2. task'[w].at = "undo"
        BY <2>2, <4>1
      <4>3. QED
        BY <2>1, <3>1, <4>2 DEF ConfigOf, Changing
    <3>2. CASE config.state = "whole"
      <4> DEFINE image == IF task[w].field = "pool" THEN [config EXCEPT !.pool = task[w].to]
                          ELSE [config EXCEPT !.mode = task[w].to]
      <4>1. task'[w] = [at |-> "truncate", field |-> task[w].field, was |-> task[w].was,
                        image |-> image]
        BY <1>0, <1>7, <3>2 DEF LoadConfig
      <4>2. Behind(task[w], config.pool, config.mode)
        BY <2>1, <2>3, <3>2 DEF ConfigOf
      <4>3. image.state = "whole" /\ image.pool = pool /\ image.mode = mode
        BY <1>0, <2>1, <2>2, <2>3, <3>2, <4>2 DEF ConfigOf, Behind, Configs
      <4> HIDE DEF image
      <4>4. /\ task'[w].at = "truncate" /\ task'[w].field = task[w].field
            /\ task'[w].was = task[w].was /\ task'[w].image = image
        BY <4>1
      <4>5. QED
        BY <2>1, <3>2, <4>2, <4>3, <4>4 DEF ConfigOf, Behind, Changing
    <3>3. QED
      BY <1>0, <3>1, <3>2 DEF Configs
  <2>5. QED
    BY <1>0, <2>3, <2>4, ConfigAlone
<1>8. ASSUME ~raced', TruncateConfig(w)
      PROVE  ConfigInv'
  <2>1. task[w].at = "truncate" /\ UNCHANGED <<pool, mode>>
    BY <1>8 DEF TruncateConfig, At, memory
  <2>2. \/ task[w] \in [at : {"truncate", "write", "undo"}, field : {"mode"}, was : Modes, image : Configs]
        \/ task[w] \in [at : {"truncate", "write", "undo"}, field : {"pool"}, was : Pools, image : Configs]
    BY <1>0, <2>1, TaskKind DEF ModeTask, PoolTask
  <2>3. /\ ~raced /\ \A v \in Workers \ {w} : task[v].at \notin Changing
        /\ ConfigOf(task[w])
    <3>1. ~ChangePool(w) /\ ~AskMode(w)
      BY <2>1 DEF ChangePool, AskMode, Begin, At
    <3>2. QED
      BY <1>4, <1>8, <2>1, <3>1 DEF Changing
  <2>4. CASE config' = [config EXCEPT !.state = "torn"] /\ Goto(w, "write")
    <3>1. /\ config'.state = "torn" /\ task'[w].at = "write"
          /\ task'[w].image = task[w].image
      BY <1>0, <2>2, <2>4 DEF Goto, Configs
    <3>2. ConfigOf(task[w])'
      BY <2>1, <2>3, <3>1 DEF ConfigOf
    <3>3. QED
      BY <1>0, <2>3, <3>1, <3>2, ConfigAlone DEF Changing
  <2>5. CASE config' = config /\ Goto(w, "undo")
    <3>1. /\ task'[w].at = "undo" /\ task'[w].field = task[w].field /\ task'[w].was = task[w].was
      BY <1>0, <2>2, <2>5 DEF Goto
    <3>2. ConfigOf(task[w])'
      BY <2>1, <2>3, <2>5, <3>1 DEF ConfigOf, Behind
    <3>3. QED
      BY <1>0, <2>3, <3>1, <3>2, ConfigAlone DEF Changing
  <2>6. QED
    BY <1>8, <2>4, <2>5 DEF TruncateConfig
<1>9. ASSUME ~raced', WriteConfig(w)
      PROVE  ConfigInv'
  <2>1. task[w].at = "write" /\ UNCHANGED <<pool, mode>>
    BY <1>9 DEF WriteConfig, At, memory
  <2>2. \/ task[w] \in [at : {"truncate", "write", "undo"}, field : {"mode"}, was : Modes, image : Configs]
        \/ task[w] \in [at : {"truncate", "write", "undo"}, field : {"pool"}, was : Pools, image : Configs]
    BY <1>0, <2>1, TaskKind DEF ModeTask, PoolTask
  <2>3. /\ ~raced /\ \A v \in Workers \ {w} : task[v].at \notin Changing
        /\ ConfigOf(task[w])
    <3>1. ~ChangePool(w) /\ ~AskMode(w)
      BY <2>1 DEF ChangePool, AskMode, Begin, At
    <3>2. QED
      BY <1>4, <1>9, <2>1, <3>1 DEF Changing
  <2>4. config.state = "torn"
    BY <2>1, <2>3 DEF ConfigOf
  <2>5. CASE config' = task[w].image /\ Finish(w)
    <3>1. task'[w].at = "idle"
      BY <1>0, <2>5 DEF Finish, Idle
    <3>2. config'.pool = pool' /\ config'.mode = mode'
      BY <2>1, <2>3, <2>5 DEF ConfigOf
    <3>3. QED
      BY <1>0, <2>3, <3>1, <3>2, ConfigAlone DEF Changing
  <2>6. CASE config' = config /\ Goto(w, "undo")
    <3>1. task'[w].at = "undo"
      BY <1>0, <2>2, <2>6 DEF Goto
    <3>2. ConfigOf(task[w])'
      BY <2>4, <2>6, <3>1 DEF ConfigOf
    <3>3. QED
      BY <1>0, <2>3, <3>1, <3>2, ConfigAlone DEF Changing
  <2>7. QED
    BY <1>9, <2>4, <2>5, <2>6 DEF WriteConfig
<1>10. ASSUME ~raced', UndoChange(w)
       PROVE  ConfigInv'
  <2>1. /\ task[w].at = "undo" /\ config' = config /\ task'[w].at = "idle"
        /\ pool' = IF task[w].field = "pool" THEN task[w].was ELSE pool
        /\ mode' = IF task[w].field = "mode" THEN task[w].was ELSE mode
    BY <1>0, <1>10 DEF UndoChange, At, Finish, Idle, disk
  <2>2. /\ ~raced /\ \A v \in Workers \ {w} : task[v].at \notin Changing
        /\ ConfigOf(task[w])
    <3>1. ~ChangePool(w) /\ ~AskMode(w)
      BY <2>1 DEF ChangePool, AskMode, Begin, At
    <3>2. QED
      BY <1>4, <1>10, <2>1, <3>1 DEF Changing
  <2>3. task[w].field \in {"pool", "mode"}
    BY <1>0, <2>1, ChangingKind DEF Changing
  <2>4. config'.state = "whole" => config'.pool = pool' /\ config'.mode = mode'
    BY <2>1, <2>2, <2>3 DEF ConfigOf, Behind
  <2>5. QED
    BY <1>0, <2>1, <2>2, <2>4, ConfigAlone DEF Changing
<1>11. QED
  BY <1>1, <1>2, <1>3, <1>5, <1>6, <1>7, <1>8, <1>9, <1>10 DEF ConfigStep


-----------------------------------------------------------------------------
(* How the credentials, the calls and the doubtful ids change.                *)

\* Nothing that the invariants say of the credentials changes.
SameEntries ==
    /\ served' = served /\ DOMAIN entries' = DOMAIN entries
    /\ \A i \in DOMAIN entries : /\ entries'[i].account = entries[i].account
                                 /\ entries'[i].count = entries[i].count

LEMMA EntriesChange ==
    ASSUME Typed, NEW w \in Workers, Step(w)
    PROVE  SameEntries \/ AddCred(w) \/ DeleteCred(w) \/ FinishCall(w)
<1>0. entries = [i \in DOMAIN entries |-> entries[i]] /\ \A i \in DOMAIN entries : entries[i] \in Entry
  BY DEF Typed, EntriesTyped, IsMap
<1>1. CASE UNCHANGED <<entries, served>>
  BY <1>1 DEF SameEntries
<1>2. CASE SetProxy(w)
  <2>1. PICK i \in DOMAIN entries, p \in Proxies \cup {Unset, Direct} :
            entries' = [entries EXCEPT ![i].proxy = p] /\ served' = served
    BY <1>2 DEF SetProxy, history
  <2>2. QED
    BY <1>0, <2>1 DEF SameEntries, Entry
<1>3. CASE SetDisabled(w)
  <2>1. PICK i \in DOMAIN entries, d \in BOOLEAN :
            entries' = [entries EXCEPT ![i].disabled = d] /\ served' = served
    BY <1>3 DEF SetDisabled, history
  <2>2. QED
    BY <1>0, <2>1 DEF SameEntries, Entry
<1>4. CASE Assign(w)
  <2>1. served' = served
    BY <1>4 DEF Assign, history
  <2>2. QED
    BY <1>4, <2>1, AssignKeeps DEF SameEntries
<1>5. QED
  BY <1>1, <1>2, <1>3, <1>4, StepFrame DEF Frame

LEMMA AddCredChange ==
    ASSUME Typed, NEW w \in Workers, AddCred(w)
    PROVE  \E id \in Ids \ DOMAIN entries :
               /\ DOMAIN entries' = DOMAIN entries \cup {id}
               /\ \A i \in DOMAIN entries : entries'[i] = entries[i]
               /\ entries'[id].count = 0 /\ entries'[id].account = Len(served) + 1
               /\ Len(served) + 1 \in DOMAIN served' /\ Len(served) + 1 \notin DOMAIN served
               /\ \A a \in DOMAIN served : a \in DOMAIN served' /\ served'[a] = served[a]
               /\ served'[Len(served) + 1] \in Nat
<1> DEFINE id == 1 + Max(DOMAIN entries \cup {0})
           new == [account |-> Len(served) + 1, proxy |-> Unset, disabled |-> FALSE, count |-> 0]
<1>1. id \in Ids /\ entries' = With(entries, id, new) /\ served' = Append(served, 0)
  BY DEF AddCred
<1>2. served \in Seq(Nat) /\ IsMap(entries, Entry) /\ DOMAIN entries \in SUBSET Ids
  BY DEF Typed, EntriesTyped, IsMap
<1>3. id \notin DOMAIN entries
  BY <1>2, NextId
<1>4. new.count = 0 /\ new.account = Len(served) + 1
  OBVIOUS
<1>5. /\ DOMAIN served = 1 .. Len(served) /\ Len(served) \in Nat
      /\ DOMAIN served' = 1 .. Len(served) + 1
      /\ \A a \in 1 .. Len(served) : served'[a] = served[a]
      /\ served'[Len(served) + 1] = 0
  <2>1. /\ served' \in Seq(Nat) /\ Len(served') = Len(served) + 1
        /\ \A a \in 1 .. Len(served) : served'[a] = served[a]
        /\ served'[Len(served) + 1] = 0
    BY <1>1, <1>2, AppendProperties
  <2>2. QED
    BY <1>2, <2>1, LenProperties
<1> HIDE DEF id, new
<1>6. /\ DOMAIN entries' = DOMAIN entries \cup {id} /\ entries'[id] = new
      /\ \A i \in DOMAIN entries : entries'[i] = entries[i]
  BY <1>1, <1>3 DEF With
<1>7. QED
  <2>1. id \in Ids \ DOMAIN entries
    BY <1>1, <1>3
  <2>2. served'[Len(served) + 1] \in Nat /\ Len(served) + 1 \in DOMAIN served'
        /\ Len(served) + 1 \notin DOMAIN served
    BY <1>5
  <2>3. \A a \in DOMAIN served : a \in DOMAIN served' /\ served'[a] = served[a]
    BY <1>5
  <2>4. QED
    BY <1>4, <1>6, <2>1, <2>2, <2>3

LEMMA DeleteCredChange ==
    ASSUME Typed, NEW w \in Workers, DeleteCred(w)
    PROVE  \E id \in DOMAIN entries :
               /\ DOMAIN entries' = DOMAIN entries \ {id}
               /\ \A i \in DOMAIN entries \ {id} : entries'[i] = entries[i]
               /\ served' = served /\ task[w].at = "idle"
               /\ task'[w] = [at |-> "forget", id |-> id]
<1>1. PICK id \in DOMAIN entries :
          /\ entries' = Without(entries, id) /\ served' = served
          /\ Begin(w, "delete", [at |-> "forget", id |-> id])
  BY DEF DeleteCred, history
<1>2. task[w].at = "idle" /\ task'[w] = [at |-> "forget", id |-> id]
  BY <1>1 DEF Begin, At, Typed, TasksTyped
<1>3. QED
  BY <1>1, <1>2 DEF Without

LEMMA FinishCallChange ==
    ASSUME Typed, NEW w \in Workers, FinishCall(w)
    PROVE  /\ DOMAIN entries' = DOMAIN entries /\ DOMAIN served' = DOMAIN served
           /\ task[w].account \in DOMAIN served
           /\ served'[task[w].account] = served[task[w].account] + 1
           /\ \A a \in DOMAIN served \ {task[w].account} : served'[a] = served[a]
           /\ \A i \in DOMAIN entries :
                  /\ entries'[i].account = entries[i].account
                  /\ entries'[i].count = IF i = task[w].cred THEN entries[i].count + 1
                                         ELSE entries[i].count
           /\ tangled' = IF AccountOf(entries, task[w].cred) \in {0, task[w].account} THEN tangled
                         ELSE tangled \cup {task[w].cred}
<1> DEFINE c == task[w].cred
           a == task[w].account
<1>1. /\ entries' = IF c \in DOMAIN entries THEN [entries EXCEPT ![c].count = @ + 1] ELSE entries
      /\ served' = [served EXCEPT ![a] = @ + 1]
      /\ task[w].at = "call"
      /\ tangled' = IF AccountOf(entries, c) \in {0, a} THEN tangled ELSE tangled \cup {c}
  BY DEF FinishCall, At
<1>2. a \in DOMAIN served /\ \A i \in DOMAIN entries : entries[i] \in Entry
  BY <1>1 DEF Typed, TasksTyped, EntriesTyped, IsMap
<1>3. /\ DOMAIN served' = DOMAIN served /\ served'[a] = served[a] + 1
      /\ \A b \in DOMAIN served \ {a} : served'[b] = served[b]
  BY <1>1, <1>2
<1>4. /\ DOMAIN entries' = DOMAIN entries
      /\ \A i \in DOMAIN entries :
            /\ entries'[i].account = entries[i].account
            /\ entries'[i].count = IF i = c THEN entries[i].count + 1 ELSE entries[i].count
  BY <1>1, <1>2 DEF Entry
<1>5. QED
  BY <1>1, <1>2, <1>3, <1>4

LEMMA ServedGrows ==
    ASSUME Typed, NEW w \in Workers, Step(w)
    PROVE  /\ tangled \subseteq tangled'
           /\ \A a \in DOMAIN served : /\ a \in DOMAIN served' /\ served[a] \in Nat
                                       /\ served'[a] \in Nat /\ served[a] <= served'[a]
<1>1. tangled \subseteq tangled'
  BY StepFrame DEF Frame, PersistDelete, KeepBalance, SaveBalances, FinishCall, WriteStats
<1>2. \A a \in DOMAIN served : served[a] \in Nat
  BY LenProperties, ElementOfSeq DEF Typed, EntriesTyped
<1>3. ASSUME NEW a \in DOMAIN served
      PROVE  a \in DOMAIN served' /\ served'[a] \in Nat /\ served[a] <= served'[a]
  <2>1. CASE served' = served
    BY <1>2, <2>1
  <2>2. CASE AddCred(w)
    <3>1. a \in DOMAIN served' /\ served'[a] = served[a]
      BY <2>2, AddCredChange
    <3>2. QED
      BY <1>2, <3>1
  <2>3. CASE FinishCall(w)
    BY <1>2, <2>3, FinishCallChange
  <2>4. QED
    BY <2>1, <2>2, <2>3, EntriesChange, DeleteCredChange DEF SameEntries
<1>4. QED
  BY <1>1, <1>2, <1>3

\* A deletion is still at one of the places if the step is not one of a request there.
LEMMA DeletedStays ==
    ASSUME NEW w \in Workers, Moves(w), NEW CONSTANT i, NEW CONSTANT places,
           DeletedAt(i, places), task[w].at \notin places
    PROVE  DeletedAt(i, places)'
BY DEF DeletedAt, Moves

LEMMA DeletedNow ==
    ASSUME NEW w \in Workers, NEW CONSTANT i, NEW CONSTANT places,
           task'[w].at \in places, "id" \in DOMAIN task'[w], task'[w].id = i
    PROVE  DeletedAt(i, places)'
BY DEF DeletedAt

LEMMA DeletedIsDeleting ==
    ASSUME NEW i \in Ids, NEW places, DeletedAt(i, places)
    PROVE  i \in Deleting
<1>1. i # 0
  BY DEF Ids
<1>2. QED
  BY <1>1 DEF DeletedAt, Deleting

\* Accounts have numbers from 1, so that 0 stands for none.
LEMMA AccountIsSome ==
    ASSUME Typed
    PROVE  /\ \A i \in DOMAIN entries : entries[i].account \in DOMAIN served /\ entries[i].account # 0
           /\ \A i \in DOMAIN creds : creds[i].account \in DOMAIN served /\ creds[i].account # 0
           /\ \A w \in Workers : task[w].at = "store" =>
                  \A i \in DOMAIN task[w].snapshot :
                      /\ task[w].snapshot[i].account \in DOMAIN served
                      /\ task[w].snapshot[i].account # 0
<1>1. 0 \notin DOMAIN served
  <2>1. DOMAIN served = 1 .. Len(served)
    BY LenProperties DEF Typed, EntriesTyped
  <2>2. QED
    BY <2>1
<1>2. QED
  BY <1>1 DEF Typed, EntriesTyped, TasksTyped, AccountsOf


-----------------------------------------------------------------------------
(* Calls are credited to the account that has answered them.                  *)

\* What a snapshot says stays true, since accounts only answer more calls.
LEMMA CountsOwnStays ==
    ASSUME Typed, NEW w \in Workers, Step(w), NEW es, CountsOwn(es),
           \A i \in DOMAIN es : es[i].count \in Nat /\ es[i].account \in DOMAIN served
    PROVE  \A i \in DOMAIN es \ tangled' : es[i].count <= served'[es[i].account]
<1> SUFFICES ASSUME NEW i \in DOMAIN es \ tangled'
             PROVE  es[i].count <= served'[es[i].account]
  OBVIOUS
<1>1. /\ i \notin tangled /\ served[es[i].account] \in Nat /\ served'[es[i].account] \in Nat
      /\ served[es[i].account] <= served'[es[i].account]
  BY ServedGrows
<1>2. es[i].count <= served[es[i].account]
  BY <1>1 DEF CountsOwn
<1>3. QED
  BY <1>1, <1>2

LEMMA EntriesOwn ==
    ASSUME Typed, CallsInv, NEW w \in Workers, Step(w)
    PROVE  CountsOwn(entries)'
<1>0. /\ CountsOwn(entries) /\ \A i \in DOMAIN entries : entries[i].count \in Nat
      /\ \A i \in DOMAIN entries : entries[i].account \in DOMAIN served
  BY AccountIsSome DEF CallsInv, Typed, EntriesTyped, IsMap, Entry
<1>1. \A i \in DOMAIN entries \ tangled' : entries[i].count <= served'[entries[i].account]
  BY <1>0, CountsOwnStays
<1>2. CASE SameEntries
  BY <1>1, <1>2 DEF SameEntries, CountsOwn
<1>3. CASE AddCred(w)
  <2>1. PICK id \in Ids \ DOMAIN entries :
            /\ DOMAIN entries' = DOMAIN entries \cup {id}
            /\ \A i \in DOMAIN entries : entries'[i] = entries[i]
            /\ entries'[id].count = 0 /\ entries'[id].account = Len(served) + 1
            /\ served'[Len(served) + 1] \in Nat
    BY <1>3, AddCredChange
  <2>2. entries'[id].count <= served'[entries'[id].account]
    BY <2>1
  <2>3. QED
    BY <1>1, <2>1, <2>2 DEF CountsOwn
<1>4. CASE DeleteCred(w)
  BY <1>1, <1>4, DeleteCredChange DEF CountsOwn
<1>5. CASE FinishCall(w)
  <2> SUFFICES ASSUME NEW i \in DOMAIN entries', i \notin tangled'
               PROVE  entries'[i].count <= served'[entries'[i].account]
    BY DEF CountsOwn
  <2>1. i \in DOMAIN entries /\ entries'[i].account = entries[i].account
    BY <1>5, FinishCallChange
  <2>2. CASE i # task[w].cred
    BY <1>1, <1>5, <2>1, <2>2, FinishCallChange
  <2>3. CASE i = task[w].cred
    <3>1. AccountOf(entries, i) = entries[i].account /\ entries[i].account # 0
      BY <2>1, AccountIsSome DEF AccountOf
    <3>2. entries[i].account = task[w].account
      BY <1>5, <2>3, <3>1, FinishCallChange
    <3>3. /\ entries'[i].count = entries[i].count + 1
          /\ served'[entries[i].account] = served[entries[i].account] + 1
      BY <1>5, <2>1, <2>3, <3>2, FinishCallChange
    <3>4. entries[i].count <= served[entries[i].account]
      <4>1. i \notin tangled
        BY ServedGrows
      <4>2. QED
        BY <1>0, <2>1, <4>1 DEF CountsOwn
    <3>5. entries[i].count \in Nat /\ served[entries[i].account] \in Nat
      BY <1>0, <2>1, ServedGrows
    <3>6. QED
      BY <2>1, <3>3, <3>4, <3>5
  <2>4. QED
    BY <2>2, <2>3
<1>6. QED
  BY <1>2, <1>3, <1>4, <1>5, EntriesChange

LEMMA SnapshotsOwn ==
    ASSUME Typed, CallsInv, NEW w \in Workers, Step(w), NEW v \in Workers, task'[v].at = "store"
    PROVE  CountsOwn(task[v].snapshot)'
<1>1. CASE SnapStats(w) /\ v = w
  <2>1. task'[v].snapshot = entries /\ entries' = entries
    BY <1>1 DEF SnapStats, Typed, TasksTyped, memory
  <2>2. QED
    BY <2>1, EntriesOwn DEF CountsOwn
<1>2. CASE ~(SnapStats(w) /\ v = w)
  <2>1. task'[v] = task[v]
    <3>1. CASE v # w
      BY <3>1, StepMoves DEF Moves, Typed
    <3>2. CASE v = w
      <4>1. /\ ~SnapStats(w) /\ DOMAIN task = Workers /\ task'[w].at = "store"
        BY <1>2, <3>2 DEF Typed, TasksTyped
      <4>2. PersistDelete(w) \/ FinishCall(w) \/ Mark(w) \/ WriteStats(w) \/ ClearStats(w)
        BY <4>1, StepMoves DEF Moves, Typed, SavingPlaces
      <4>3. "at" \in DOMAIN task[w]
        BY DEF Typed, TasksTyped, Task, ModeTask, PoolTask, CallTask, DeleteTask, StatsTask, OneStep,
               StoreTask, AssignTask
      <4>4. FALSE
        BY <4>1, <4>2, <4>3 DEF PersistDelete, FinishCall, Mark, WriteStats, ClearStats, Goto, Finish,
                           Idle, Leave, ToClear
      <4>5. QED
        BY <4>4
    <3>3. QED
      BY <3>1, <3>2
  <2> DEFINE s == task[v].snapshot
  <2>2. CountsOwn(s) /\ \A i \in DOMAIN s : s[i].count \in Nat /\ s[i].account \in DOMAIN served
    <3>1. task[v].at = "store" /\ Task(task[v])
      BY <2>1 DEF Typed, TasksTyped
    <3>2. IsMap(s, Entry)
      BY <3>1, TaskKind DEF StoreTask
    <3>3. QED
      BY <3>1, <3>2, AccountIsSome DEF CallsInv, IsMap, Entry
  <2> HIDE DEF s
  <2>3. \A i \in DOMAIN s \ tangled' : s[i].count <= served'[s[i].account]
    BY <2>2, CountsOwnStays
  <2>4. QED
    BY <2>1, <2>3 DEF s, CountsOwn
<1>3. QED
  BY <1>1, <1>2

LEMMA StatsOwnStep ==
    ASSUME Typed, CallsInv, NEW w \in Workers, Step(w)
    PROVE  StatsOwn'
<1> DEFINE places == {"forget", "snap"}
<1>0. Moves(w) /\ tangled \subseteq tangled' /\ DOMAIN task = Workers /\ Task(task[w])
  BY StepMoves, ServedGrows DEF Typed, TasksTyped
<1>1. CASE stats' = stats
  <2> SUFFICES ASSUME stats.state = "whole", NEW i \in DOMAIN stats.map, i \notin tangled'
               PROVE  \/ DeletedAt(i, places)'
                      \/ i \in DOMAIN entries' /\ stats.map[i] <= served'[entries'[i].account]
    BY <1>1 DEF StatsOwn
  <2>0. i \in Ids /\ stats.map[i] \in Nat
    BY DEF Typed, FilesTyped, IsMap
  <2>1. CASE DeletedAt(i, places)
    <3>1. CASE task[w].at \notin places
      BY <1>0, <2>1, <3>1, DeletedStays
    <3>2. CASE task[w].at \in places
      <4>1. CASE SnapStats(w)
        BY <1>1, <4>1 DEF SnapStats
      <4>2. CASE ~SnapStats(w)
        <5>1. PersistDelete(w)
          BY <1>0, <3>2, <4>2 DEF Step, ChangePool, AskMode, SetMode, TakePool, LoadConfig,
             TruncateConfig, WriteConfig, UndoChange, SetProxy, AskAssign, Assign, Persist, AddCred,
             SetDisabled, DeleteCred, DropBalance, AskBalance, KeepBalance, SaveBalances, StartCall,
             FinishCall, Mark, WriteStats, ClearStats, Begin, At
        <5>2. CASE task[w].id = i
          <6>1. task[w].at = "forget" /\ (Goto(w, "snap") \/ tangled' = tangled \cup {task[w].id})
            BY <5>1 DEF PersistDelete, At
          <6>2. CASE Goto(w, "snap")
            <7>1. task[w] \in DeleteTask
              <8>1. Task(task[w]) /\ task[w].at = "forget"
                BY <1>0, <6>1
              <8>2. QED
                BY <8>1, TaskKind
            <7>2. task'[w].at = "snap" /\ "id" \in DOMAIN task'[w] /\ task'[w].id = i
              BY <1>0, <5>2, <6>2, <7>1 DEF Goto, DeleteTask
            <7>3. QED
              BY <7>2, DeletedNow
          <6>3. QED
            BY <5>2, <6>1, <6>2
        <5>3. CASE task[w].id # i
          <6>1. PICK v \in Workers : task[v].at \in places /\ "id" \in DOMAIN task[v] /\ task[v].id = i
            BY <2>1 DEF DeletedAt
          <6>2. task'[v] = task[v]
            BY <1>0, <5>3, <6>1 DEF Moves
          <6>3. QED
            BY <6>1, <6>2 DEF DeletedAt
        <5>4. QED
          BY <5>2, <5>3
      <4>3. QED
        BY <4>1, <4>2
    <3>3. QED
      BY <3>1, <3>2
  <2>2. CASE i \in DOMAIN entries /\ stats.map[i] <= served[entries[i].account]
    <3>1. entries[i].account \in DOMAIN served
      BY <2>2, AccountIsSome
    <3>2. stats.map[i] <= served'[entries[i].account]
      BY <2>0, <2>2, <3>1, ServedGrows
    <3>3. CASE SameEntries \/ AddCred(w) \/ FinishCall(w)
      BY <2>2, <3>2, <3>3, AddCredChange, FinishCallChange DEF SameEntries
    <3>4. CASE DeleteCred(w)
      <4>1. PICK id \in DOMAIN entries :
               /\ DOMAIN entries' = DOMAIN entries \ {id}
               /\ \A j \in DOMAIN entries \ {id} : entries'[j] = entries[j]
               /\ task'[w] = [at |-> "forget", id |-> id]
        BY <3>4, DeleteCredChange
      <4>2. CASE i = id
        <5>1. task'[w].at \in places /\ "id" \in DOMAIN task'[w] /\ task'[w].id = i
          BY <4>1, <4>2
        <5>2. QED
          BY <5>1, DeletedNow
      <4>3. CASE i # id
        BY <2>2, <3>2, <4>1, <4>3
      <4>4. QED
        BY <4>2, <4>3
    <3>5. QED
      BY <3>3, <3>4, EntriesChange
  <2>3. QED
    BY <1>0, <2>1, <2>2 DEF CallsInv, StatsOwn
<1>2. CASE SnapStats(w)
  <2>1. stats'.state = "torn"
    BY <1>2 DEF SnapStats, Typed, FilesTyped
  <2>2. QED
    BY <2>1 DEF StatsOwn
<1>3. CASE WriteStats(w)
  <2> DEFINE s == task[w].snapshot
  <2>1. \/ /\ stats' = [map |-> Counts(s), state |-> "whole"]
           /\ tangled' = tangled \cup {i \in DOMAIN s : AccountOf(entries, i) # s[i].account}
        \/ stats' = [stats EXCEPT !.state = "torn"]
        \/ stats' = stats
    BY <1>3 DEF WriteStats
  <2>2. CASE stats' = [stats EXCEPT !.state = "torn"]
    <3>1. stats'.state = "torn"
      BY <2>2 DEF Typed, FilesTyped
    <3>2. QED
      BY <3>1 DEF StatsOwn
  <2>3. CASE /\ stats' = [map |-> Counts(s), state |-> "whole"]
             /\ tangled' = tangled \cup {i \in DOMAIN s : AccountOf(entries, i) # s[i].account}
    <3> SUFFICES ASSUME NEW i \in DOMAIN Counts(s), i \notin tangled'
                 PROVE  i \in DOMAIN entries' /\ Counts(s)[i] <= served'[entries'[i].account]
      BY <2>3 DEF StatsOwn
    <3>1. i \in DOMAIN s /\ Counts(s)[i] = s[i].count
      BY DEF Counts
    <3>2. AccountOf(entries, i) = s[i].account /\ i \notin tangled
      BY <2>3, <3>1
    <3>3. task[w].at = "store" /\ entries' = entries /\ served' = served
      BY <1>3 DEF WriteStats, At, memory
    <3>4. s[i].account # 0
      BY <3>1, <3>3, AccountIsSome
    <3>5. i \in DOMAIN entries /\ entries[i].account = s[i].account
      BY <3>2, <3>4 DEF AccountOf
    <3>6. s[i].count <= served[s[i].account]
      BY <3>1, <3>2, <3>3 DEF CallsInv, CountsOwn
    <3>7. QED
      BY <3>1, <3>3, <3>5, <3>6
  <2>4. QED
    BY <1>1, <2>1, <2>2, <2>3
<1>4. QED
  BY <1>1, <1>2, <1>3, StepFrame DEF Frame

LEMMA CallsInvStep ==
    ASSUME Typed, CallsInv, NEW w \in Workers, Step(w)
    PROVE  CallsInv'
BY EntriesOwn, SnapshotsOwn, StatsOwnStep DEF CallsInv


-----------------------------------------------------------------------------
(* Balances belong to the credential that has the id.                         *)

\* A deletion goes from place to place, or leaves its id doubtful.
LEMMA DeletionGoes ==
    ASSUME Typed, NEW w \in Workers, Step(w), "id" \in DOMAIN task[w],
           task[w].at \in {"forget", "snap", "store", "clear", "drop"}, task[w].id # 0
    PROVE  \/ task[w].id \in tangled'
           \/ /\ "id" \in DOMAIN task'[w] /\ task'[w].id = task[w].id
              /\ \/ task[w].at = "forget" /\ task'[w].at = "snap"
                 \/ task[w].at = "snap" /\ task'[w].at = "store" /\ SnapStats(w)
                 \/ task[w].at = "store" /\ task'[w].at \in {"clear", "drop"} /\ WriteStats(w)
                 \/ task[w].at = "clear" /\ task'[w].at = "drop" /\ ClearStats(w)
                 \/ task[w].at = "drop" /\ task'[w].at = "save" /\ DropBalance(w)
<1>0. Task(task[w]) /\ DOMAIN task = Workers
  BY DEF Typed, TasksTyped
<1>1. PersistDelete(w) \/ SnapStats(w) \/ WriteStats(w) \/ ClearStats(w) \/ DropBalance(w)
  BY DEF Step, ChangePool, AskMode, SetMode, TakePool, LoadConfig, TruncateConfig, WriteConfig,
         UndoChange, SetProxy, AskAssign, Assign, Persist, AddCred, SetDisabled, DeleteCred,
         AskBalance, KeepBalance, SaveBalances, StartCall, FinishCall, Mark, Begin, At
<1>2. CASE PersistDelete(w)
  <2>1. task[w].at = "forget" /\ (Goto(w, "snap") \/ tangled' = tangled \cup {task[w].id})
    BY <1>2 DEF PersistDelete, At
  <2>2. task[w] \in DeleteTask
    BY <1>0, <2>1, TaskKind
  <2>3. CASE Goto(w, "snap")
    BY <1>0, <2>1, <2>2, <2>3 DEF Goto, DeleteTask
  <2>4. QED
    BY <2>1, <2>3
<1>3. CASE SnapStats(w)
  BY <1>0, <1>3 DEF SnapStats, At
<1>4. CASE WriteStats(w)
  BY <1>0, <1>4 DEF WriteStats, At, ToClear, Leave
<1>5. CASE ClearStats(w)
  BY <1>0, <1>5 DEF ClearStats, At, Leave
<1>6. CASE DropBalance(w)
  <2>1. task[w].at = "drop" /\ Goto(w, "save")
    BY <1>6 DEF DropBalance, At
  <2>2. task[w] \in DeleteTask
    BY <1>0, <2>1, TaskKind
  <2>3. QED
    BY <1>0, <1>6, <2>1, <2>2 DEF Goto, DeleteTask
<1>7. QED
  BY <1>1, <1>2, <1>3, <1>4, <1>5, <1>6

ToDrop == {"forget", "snap", "store", "clear", "drop"}

LEMMA ToDropStays ==
    ASSUME Typed, NEW w \in Workers, Step(w), NEW i \in Ids, DeletedAt(i, ToDrop), i \notin tangled'
    PROVE  \/ DeletedAt(i, ToDrop)'
           \/ DropBalance(w) /\ task[w].id = i /\ DeletedAt(i, ToDrop \cup {"save"})'
<1>1. PICK v \in Workers : task[v].at \in ToDrop /\ "id" \in DOMAIN task[v] /\ task[v].id = i
  BY DEF DeletedAt
<1>2. CASE v # w
  <2>1. task'[v] = task[v]
    BY <1>2, StepMoves DEF Moves, Typed
  <2>2. QED
    BY <1>1, <2>1 DEF DeletedAt
<1>3. CASE v = w
  <2>1. i # 0
    BY DEF Ids
  <2>2. /\ "id" \in DOMAIN task'[w] /\ task'[w].id = i
        /\ task'[w].at \in ToDrop \/ (task'[w].at = "save" /\ DropBalance(w))
    BY <1>1, <1>3, <2>1, DeletionGoes DEF ToDrop
  <2>3. CASE task'[w].at \in ToDrop
    BY <2>2, <2>3 DEF DeletedAt
  <2>4. CASE task'[w].at = "save" /\ DropBalance(w)
    BY <1>1, <1>3, <2>2, <2>4 DEF DeletedAt
  <2>5. QED
    BY <2>2, <2>3, <2>4
<1>4. QED
  BY <1>2, <1>3

\* The account that has an id changes only when a credential comes or goes.
LEMMA AccountChange ==
    ASSUME Typed, NEW w \in Workers, Step(w), NEW i \in Ids, i \notin tangled',
           AccountOf(entries, i) # 0
    PROVE  AccountOf(entries', i) = AccountOf(entries, i) \/ DeletedAt(i, ToDrop)'
<1>1. i \in DOMAIN entries
  BY DEF AccountOf
<1>2. CASE DeleteCred(w)
  <2>1. PICK id \in DOMAIN entries :
            /\ DOMAIN entries' = DOMAIN entries \ {id}
            /\ \A j \in DOMAIN entries \ {id} : entries'[j] = entries[j]
            /\ task'[w] = [at |-> "forget", id |-> id]
    BY <1>2, DeleteCredChange
  <2>2. CASE i = id
    <3>1. task'[w].at \in ToDrop /\ "id" \in DOMAIN task'[w] /\ task'[w].id = i
      BY <2>1, <2>2 DEF ToDrop
    <3>2. QED
      BY <3>1, DeletedNow
  <2>3. CASE i # id
    BY <1>1, <2>1, <2>3 DEF AccountOf
  <2>4. QED
    BY <2>2, <2>3
<1>3. CASE SameEntries \/ FinishCall(w)
  BY <1>1, <1>3, FinishCallChange DEF SameEntries, AccountOf
<1>4. CASE AddCred(w)
  BY <1>1, <1>4, AddCredChange DEF AccountOf
<1>5. QED
  BY <1>2, <1>3, <1>4, EntriesChange

\* What has been said of a balance stays true, unless the deletion drops it.
LEMMA BalanceStays ==
    ASSUME Typed, NEW w \in Workers, Step(w), NEW i \in Ids, i \notin tangled', NEW a, a # 0,
           DeletedAt(i, ToDrop) \/ a = AccountOf(entries, i)
    PROVE  \/ DeletedAt(i, ToDrop)' \/ a = AccountOf(entries', i)
           \/ DropBalance(w) /\ task[w].id = i /\ DeletedAt(i, ToDrop \cup {"save"})'
BY ToDropStays, AccountChange

LEMMA CachedBalances ==
    ASSUME Typed, BalancesInv, NEW w \in Workers, Step(w), NEW i \in DOMAIN balances', i \notin tangled'
    PROVE  DeletedAt(i, ToDrop)' \/ balances'[i].account = AccountOf(entries', i)
<1>0. /\ IsMap(balances, Balance) /\ Task(task[w]) /\ tangled \subseteq tangled'
      /\ i \in Ids
  BY TypedStep, ServedGrows DEF Typed, FilesTyped, TasksTyped, IsMap
<1>1. ASSUME i \in DOMAIN balances, balances'[i] = balances[i], ~(DropBalance(w) /\ task[w].id = i)
      PROVE  DeletedAt(i, ToDrop)' \/ balances'[i].account = AccountOf(entries', i)
  <2>1. balances[i].account # 0
    BY <1>0, <1>1 DEF IsMap, Balance
  <2>2. DeletedAt(i, ToDrop) \/ balances[i].account = AccountOf(entries, i)
    BY <1>0, <1>1 DEF BalancesInv, ToDrop
  <2>3. QED
    BY <1>0, <1>1, <2>1, <2>2, BalanceStays
<1>2. CASE (UNCHANGED <<balances, balanceFile>> \/ SaveBalances(w)) /\ ~DropBalance(w)
  <2>1. balances' = balances /\ ~DropBalance(w)
    BY <1>2 DEF SaveBalances, memory
  <2>2. QED
    BY <1>1, <2>1
<1>3. CASE DropBalance(w)
  <2>1. balances' = Without(balances, task[w].id)
    BY <1>3 DEF DropBalance
  <2>2. i \in DOMAIN balances /\ balances'[i] = balances[i] /\ task[w].id # i
    BY <2>1 DEF Without
  <2>3. QED
    BY <1>1, <2>2
<1>4. CASE KeepBalance(w)
  <2> DEFINE b == [account |-> task[w].account, at |-> now]
  <2>1. /\ entries' = entries /\ ~DropBalance(w)
        /\ balances' = balances \/
             (/\ balances' = With(balances, task[w].cred, b)
              /\ tangled' = IF AccountOf(entries, task[w].cred) = task[w].account THEN tangled
                            ELSE tangled \cup {task[w].cred})
    BY <1>4 DEF KeepBalance, DropBalance, At
  <2>2. CASE balances' = balances
    BY <1>1, <2>1, <2>2
  <2>3. CASE /\ balances' = With(balances, task[w].cred, b)
             /\ tangled' = IF AccountOf(entries, task[w].cred) = task[w].account THEN tangled
                           ELSE tangled \cup {task[w].cred}
    <3>1. CASE i = task[w].cred
      BY <2>1, <2>3, <3>1 DEF With
    <3>2. CASE i # task[w].cred
      <4>1. i \in DOMAIN balances /\ balances'[i] = balances[i]
        BY <2>3, <3>2 DEF With
      <4>2. QED
        BY <1>1, <2>1, <4>1
    <3>3. QED
      BY <3>1, <3>2
  <2>4. QED
    BY <2>1, <2>2, <2>3
<1>5. QED
  BY <1>2, <1>3, <1>4, StepFrame DEF Frame

LEMMA FiledBalances ==
    ASSUME Typed, BalancesInv, NEW w \in Workers, Step(w),
           NEW i \in DOMAIN balanceFile'.map, i \notin tangled'
    PROVE  \/ DeletedAt(i, ToDrop \cup {"save"})'
           \/ balanceFile'.map[i].account = AccountOf(entries', i)
<1>0. /\ IsMap(balanceFile.map, Balance) /\ IsMap(balances, Balance)
      /\ tangled \subseteq tangled' /\ i \in Ids /\ Moves(w)
  BY TypedStep, ServedGrows, StepMoves DEF Typed, FilesTyped, IsMap
<1>1. DeletedAt(i, ToDrop)' => DeletedAt(i, ToDrop \cup {"save"})'
  BY DEF DeletedAt
<1>2. CASE balanceFile' = balanceFile /\ ~SaveBalances(w)
  <2>0. balanceFile.map[i].account # 0
    BY <1>0, <1>2 DEF IsMap, Balance
  <2>1. DeletedAt(i, ToDrop \cup {"save"}) \/ balanceFile.map[i].account = AccountOf(entries, i)
    BY <1>0, <1>2 DEF BalancesInv, ToDrop
  <2>2. CASE DeletedAt(i, ToDrop) \/ balanceFile.map[i].account = AccountOf(entries, i)
    BY <1>0, <1>1, <1>2, <2>0, <2>2, BalanceStays
  <2>3. CASE DeletedAt(i, {"save"})
    <3>1. task[w].at # "save"
      BY <1>2 DEF Step, ChangePool, AskMode, SetMode, TakePool, LoadConfig, TruncateConfig, WriteConfig,
         UndoChange, SetProxy, AskAssign, Assign, Persist, AddCred, SetDisabled, DeleteCred,
         PersistDelete, DropBalance, AskBalance, KeepBalance, StartCall, FinishCall, Mark, SnapStats,
         WriteStats, ClearStats, Begin, At
    <3>2. DeletedAt(i, {"save"})'
      BY <1>0, <2>3, <3>1, DeletedStays
    <3>3. QED
      BY <3>2 DEF DeletedAt
  <2>4. QED
    BY <2>1, <2>2, <2>3 DEF DeletedAt
<1>3. CASE SaveBalances(w)
  <2>0. /\ task[w].at = "save" /\ ~DropBalance(w) /\ entries' = entries
    BY <1>3 DEF SaveBalances, DropBalance, At, memory
  <2>1. CASE balanceFile' = [map |-> balances, state |-> "whole"]
    <3>1. DeletedAt(i, ToDrop) \/ balances[i].account = AccountOf(entries, i)
      BY <1>0, <2>1 DEF BalancesInv, ToDrop
    <3>2. balances[i].account # 0
      BY <1>0, <2>1 DEF IsMap, Balance
    <3>3. QED
      BY <1>0, <1>1, <2>0, <2>1, <3>1, <3>2, BalanceStays
  <2>2. CASE /\ balanceFile' = balanceFile
             /\ tangled' = tangled \cup {j \in DOMAIN balanceFile.map : j \notin DOMAIN balances
                                  \/ balances[j].account # balanceFile.map[j].account}
    <3>1. i \in DOMAIN balances /\ balances[i].account = balanceFile.map[i].account
      BY <2>2
    <3>2. DeletedAt(i, ToDrop) \/ balances[i].account = AccountOf(entries, i)
      BY <1>0, <3>1 DEF BalancesInv, ToDrop
    <3>3. balances[i].account # 0
      BY <1>0, <3>1 DEF IsMap, Balance
    <3>4. QED
      BY <1>0, <1>1, <2>0, <2>2, <3>1, <3>2, <3>3, BalanceStays
  <2>3. QED
    BY <1>3, <2>1, <2>2 DEF SaveBalances
<1>4. balanceFile' = balanceFile \/ SaveBalances(w)
  BY StepFrame DEF Frame, DropBalance, KeepBalance, disk
<1>5. QED
  BY <1>2, <1>3, <1>4

LEMMA BalancesInvStep ==
    ASSUME Typed, BalancesInv, NEW w \in Workers, Step(w)
    PROVE  BalancesInv'
<1>1. ToDrop \cup {"save"} = {"forget", "snap", "store", "clear", "drop", "save"}
  BY DEF ToDrop
<1>2. \A i \in DOMAIN balances' \ tangled' :
           DeletedAt(i, ToDrop)' \/ balances'[i].account = AccountOf(entries', i)
  BY CachedBalances
<1>3. \A i \in DOMAIN balanceFile'.map \ tangled' :
           DeletedAt(i, {"forget", "snap", "store", "clear", "drop", "save"})'
           \/ balanceFile'.map[i].account = AccountOf(entries', i)
  BY <1>1, FiledBalances
<1>4. QED
  BY <1>2, <1>3 DEF BalancesInv, ToDrop


-----------------------------------------------------------------------------
(* The statistics file has the latest counts when nothing is marked.          *)

LEMMA AllSavedStays ==
    ASSUME Typed, CallsInv, NEW w \in Workers, Step(w), AllSaved, stats' = stats, ~FinishCall(w),
           task[w].at # "store"
    PROVE  AllSaved'
<1> DEFINE places == {"forget", "snap", "store"}
<1> SUFFICES ASSUME NEW i \in DOMAIN entries', i \notin tangled'
             PROVE  DeletedAt(i, places)' \/ entries'[i].count = SavedCount(i)'
  BY DEF AllSaved
<1>0. i \notin tangled /\ SavedCount(i)' = SavedCount(i) /\ i \in Ids /\ Moves(w)
  BY ServedGrows, TypedStep, StepMoves DEF SavedCount, Loaded, Typed, EntriesTyped, IsMap
<1>1. ASSUME DeletedAt(i, places)
      PROVE  DeletedAt(i, places)'
  <2>1. PICK v \in Workers : task[v].at \in places /\ "id" \in DOMAIN task[v] /\ task[v].id = i
    BY <1>1 DEF DeletedAt
  <2>2. CASE v # w
    BY <1>0, <2>1, <2>2 DEF DeletedAt, Moves
  <2>3. CASE v = w
    <3>1. i # 0
      BY <1>0 DEF Ids
    <3>2. "id" \in DOMAIN task'[w] /\ task'[w].id = i /\ task'[w].at \in places
      BY <2>1, <2>3, <3>1, DeletionGoes
    <3>3. QED
      BY <3>2, DeletedNow
  <2>4. QED
    BY <2>2, <2>3
<1>2. ASSUME i \in DOMAIN entries, entries'[i].count = entries[i].count
      PROVE  DeletedAt(i, places)' \/ entries'[i].count = SavedCount(i)'
  BY <1>0, <1>1, <1>2 DEF AllSaved
<1>3. CASE SameEntries \/ DeleteCred(w)
  BY <1>2, <1>3, DeleteCredChange DEF SameEntries
<1>4. CASE AddCred(w)
  <2>1. PICK id \in Ids \ DOMAIN entries :
            /\ DOMAIN entries' = DOMAIN entries \cup {id}
            /\ \A j \in DOMAIN entries : entries'[j] = entries[j]
            /\ entries'[id].count = 0
    BY <1>4, AddCredChange
  <2>2. CASE i # id
    BY <1>2, <2>1, <2>2
  <2>3. CASE i = id
    <3>1. CASE stats.state = "whole" /\ i \in DOMAIN stats.map
      <4>1. DeletedAt(i, {"forget", "snap"})
        BY <1>0, <2>1, <2>3, <3>1 DEF CallsInv, StatsOwn
      <4>2. DeletedAt(i, places)
        BY <4>1 DEF DeletedAt
      <4>3. QED
        BY <1>1, <4>2
    <3>2. CASE ~(stats.state = "whole" /\ i \in DOMAIN stats.map)
      <4>1. SavedCount(i) = 0
        BY <3>2 DEF SavedCount, Loaded
      <4>2. QED
        BY <1>0, <2>1, <2>3, <4>1
    <3>3. QED
      BY <3>1, <3>2
  <2>4. QED
    BY <2>2, <2>3
<1>5. QED
  BY <1>3, <1>4, EntriesChange

LEMMA UpToDateStays ==
    ASSUME Typed, NEW w \in Workers, Step(w), ~FinishCall(w), NEW v \in Workers \ {w},
           task[v].at = "store", UpToDate(task[v].snapshot)
    PROVE  UpToDate(task[v].snapshot)'
<1> DEFINE s == task[v].snapshot
<1>0. task'[v] = task[v] /\ tangled \subseteq tangled'
  BY StepMoves, ServedGrows DEF Moves, Typed
<1>1. \A i \in DOMAIN s : s[i].account \in DOMAIN served
  BY AccountIsSome
<1> SUFFICES ASSUME NEW i \in DOMAIN entries', i \notin tangled'
             PROVE  IF i \in DOMAIN s
                    THEN s[i].account = entries'[i].account => s[i].count = entries'[i].count
                    ELSE entries'[i].count = 0
  BY <1>0 DEF UpToDate
<1>2. ASSUME i \in DOMAIN entries, entries'[i].count = entries[i].count,
             entries'[i].account = entries[i].account
      PROVE  IF i \in DOMAIN s
             THEN s[i].account = entries'[i].account => s[i].count = entries'[i].count
             ELSE entries'[i].count = 0
  BY <1>0, <1>2 DEF UpToDate
<1>3. CASE SameEntries \/ DeleteCred(w)
  BY <1>2, <1>3, DeleteCredChange DEF SameEntries
<1>4. CASE AddCred(w)
  <2>1. PICK id \in Ids \ DOMAIN entries :
            /\ DOMAIN entries' = DOMAIN entries \cup {id}
            /\ \A j \in DOMAIN entries : entries'[j] = entries[j]
            /\ entries'[id].count = 0 /\ entries'[id].account = Len(served) + 1
            /\ Len(served) + 1 \notin DOMAIN served
    BY <1>4, AddCredChange
  <2>2. CASE i # id
    BY <1>2, <2>1, <2>2
  <2>3. CASE i = id
    BY <1>1, <2>1, <2>3
  <2>4. QED
    BY <2>2, <2>3
<1>5. QED
  BY <1>3, <1>4, EntriesChange

\* A step that saves nothing and counts nothing.
LEMMA SavingStays ==
    ASSUME Typed, CallsInv, SavingInv, NEW w \in Workers, Step(w), ~missed', missed' = missed,
           stats' = stats, ~FinishCall(w),
           task[w].at \notin {"store", "clear"}, task'[w].at \notin {"store", "clear"},
           ~dirty' => ~dirty /\ task[w].at \notin SavingPlaces
    PROVE  SavingInv'
<1>0. /\ Moves(w) /\ ~missed
      /\ \A x, y \in Workers :
             task[x].at \in {"store", "clear"} /\ task[y].at \in {"store", "clear"} => x = y
  BY StepMoves DEF Typed, SavingInv
<1>1. \A v \in Workers : task'[v].at \in {"store", "clear"} => v # w /\ task'[v] = task[v]
  BY <1>0 DEF Moves
<1>2. ASSUME NEW x \in Workers, NEW y \in Workers,
             task'[x].at \in {"store", "clear"}, task'[y].at \in {"store", "clear"}
      PROVE  x = y
  BY <1>0, <1>1, <1>2
<1>3. ASSUME NEW v \in Workers, task'[v].at = "store"
      PROVE  stats'.state = "torn" /\ UpToDate(task[v].snapshot)'
  <2>1. v # w /\ task[v].at = "store"
    BY <1>1, <1>3
  <2>2. stats.state = "torn" /\ UpToDate(task[v].snapshot)
    BY <1>0, <2>1 DEF SavingInv
  <2>3. QED
    BY <2>1, <2>2, UpToDateStays
<1>4. AllSaved => AllSaved'
  BY AllSavedStays
<1>5. ASSUME NEW v \in Workers, task'[v].at = "clear"
      PROVE  AllSaved'
  BY <1>0, <1>1, <1>4, <1>5 DEF SavingInv
<1>6. ASSUME ~dirty', \A v \in Workers : task'[v].at \notin SavingPlaces
      PROVE  AllSaved'
  <2>1. ~dirty /\ \A v \in Workers : task[v].at \notin SavingPlaces
    BY <1>0, <1>6 DEF Moves
  <2>2. QED
    BY <1>0, <1>4, <2>1 DEF SavingInv, SavingPlaces
<1>7. QED
  BY <1>2, <1>3, <1>5, <1>6 DEF SavingInv, SavingPlaces

\* The step of the only one that saves.
LEMMA SavingAlone ==
    ASSUME NEW w \in Workers, Moves(w), ~missed,
           \A v \in Workers \ {w} : task[v].at \notin {"store", "clear"},
           task'[w].at = "store" => stats'.state = "torn" /\ UpToDate(task[w].snapshot)',
           task'[w].at = "clear" => AllSaved',
           ~dirty' /\ task'[w].at \notin SavingPlaces => AllSaved'
    PROVE  SavingInv'
<1>1. \A v \in Workers : task'[v].at \in {"store", "clear"} => v = w
  BY DEF Moves
<1>2. \A v \in Workers : task'[v].at = "store" => stats'.state = "torn" /\ UpToDate(task[v].snapshot)'
  BY <1>1
<1>3. \A v \in Workers : task'[v].at = "clear" => AllSaved'
  BY <1>1
<1>4. QED
  BY <1>1, <1>2, <1>3 DEF SavingInv, SavingPlaces

LEMMA SavingInvStep ==
    ASSUME Typed, CallsInv, SavingInv, NEW w \in Workers, Step(w)
    PROVE  SavingInv'
<1>0. Moves(w) /\ DOMAIN task = Workers /\ Task(task[w])
  BY StepMoves DEF Typed, TasksTyped
<1>1. CASE missed'
  BY <1>1 DEF SavingInv
<1>2. ASSUME ~missed', ~FinishCall(w), ~Mark(w), ~SnapStats(w), ~WriteStats(w), ~ClearStats(w)
      PROVE  SavingInv'
  <2>1. missed' = missed /\ stats' = stats /\ dirty' = dirty
    BY <1>2, StepFrame DEF Frame
  <2>2. task[w].at \notin SavingPlaces /\ task'[w].at \notin {"store", "clear"}
    <3>1. CASE PersistDelete(w)
      <4>1. task[w].at = "forget" /\ (Goto(w, "snap") \/ Finish(w))
        BY <3>1 DEF PersistDelete, At
      <4>2. task[w] \in DeleteTask
        BY <1>0, <4>1, TaskKind
      <4>3. task'[w].at \in {"snap", "idle"}
        BY <1>0, <4>1, <4>2 DEF Goto, Finish, Idle, DeleteTask
      <4>4. QED
        BY <4>1, <4>3 DEF SavingPlaces
    <3>2. QED
      BY <1>0, <1>2, <3>1 DEF Moves, SavingPlaces
  <2>3. QED
    BY <1>2, <2>1, <2>2, SavingStays DEF SavingPlaces
<1>3. ASSUME ~missed', Mark(w)
      PROVE  SavingInv'
  <2>1. /\ missed' = missed /\ stats' = stats /\ dirty' = TRUE /\ task[w].at = "mark"
        /\ task'[w].at \in {"snap", "idle"} /\ ~FinishCall(w)
    BY <1>0, <1>3 DEF Mark, At, Idle, history, disk, FinishCall
  <2>2. QED
    BY <1>3, <2>1, SavingStays
<1>4. ASSUME ~missed', FinishCall(w)
      PROVE  SavingInv'
  <2>1. /\ ~missed /\ task[w].at = "call" /\ Goto(w, "mark")
        /\ \A v \in Workers \ {w} : task[v].at \notin {"store", "clear"}
    BY <1>4 DEF FinishCall, At, Others
  <2>2. task'[w].at = "mark"
    <3>1. task[w] \in CallTask
      BY <1>0, <2>1, TaskKind
    <3>2. QED
      BY <1>0, <2>1, <3>1 DEF Goto, CallTask
  <2>3. QED
    BY <1>0, <2>1, <2>2, SavingAlone DEF SavingPlaces
<1>5. ASSUME ~missed', SnapStats(w)
      PROVE  SavingInv'
  <2>1. /\ ~missed /\ \A v \in Workers \ {w} : task[v].at \notin {"store", "clear"}
        /\ task'[w].at = "store" /\ task'[w].snapshot = entries /\ entries' = entries
        /\ stats' = [stats EXCEPT !.state = "torn"]
    BY <1>0, <1>5 DEF SnapStats, Others, memory
  <2>2. stats'.state = "torn"
    BY <2>1 DEF Typed, FilesTyped
  <2>3. UpToDate(task[w].snapshot)'
    BY <2>1 DEF UpToDate
  <2>4. QED
    BY <1>0, <2>1, <2>2, <2>3, SavingAlone DEF SavingPlaces
<1>6. ASSUME ~missed', WriteStats(w)
      PROVE  SavingInv'
  <2> DEFINE s == task[w].snapshot
             gone == {i \in DOMAIN s : AccountOf(entries, i) # s[i].account}
  <2>1. task[w].at = "store" /\ ~missed
    <3>1. task[w].at = "store" /\ (missed' = missed \/ missed' = (missed \/ ~dirty))
      BY <1>6 DEF WriteStats, At
    <3>2. CASE missed' = missed
      BY <1>6, <3>1, <3>2
    <3>3. CASE missed' = (missed \/ ~dirty)
      BY <1>6, <3>1, <3>3
    <3>4. QED
      BY <3>1, <3>2, <3>3
  <2>2. /\ \A v \in Workers \ {w} : task[v].at \notin {"store", "clear"}
        /\ stats.state = "torn" /\ UpToDate(s)
    BY <2>1 DEF SavingInv
  <2>3. CASE /\ stats' = [map |-> Counts(s), state |-> "whole"]
             /\ tangled' = tangled \cup gone /\ ToClear(w)
    <3>1. task'[w].at = "clear" /\ entries' = entries
      BY <1>0, <1>6, <2>3 DEF ToClear, WriteStats, memory
    <3>2. ASSUME NEW i \in DOMAIN entries, i \notin tangled'
          PROVE  entries[i].count = SavedCount(i)'
      <4>1. i \notin tangled /\ (i \in DOMAIN s => s[i].account = entries[i].account)
        BY <2>3, <3>2 DEF AccountOf
      <4>2. IF i \in DOMAIN s THEN s[i].count = entries[i].count ELSE entries[i].count = 0
        BY <2>2, <4>1 DEF UpToDate
      <4>3. SavedCount(i)' = IF i \in DOMAIN s THEN s[i].count ELSE 0
        BY <2>3 DEF SavedCount, Loaded, Counts
      <4>4. QED
        BY <4>2, <4>3
    <3>3. AllSaved'
      BY <3>1, <3>2 DEF AllSaved
    <3>4. QED
      BY <1>0, <2>1, <2>2, <3>1, <3>3, SavingAlone DEF SavingPlaces
  <2>4. CASE Leave(w) /\ dirty
    <3>1. task'[w].at \in {"idle", "drop"} /\ dirty' = dirty
      BY <1>0, <1>6, <2>4 DEF Leave, Idle, WriteStats, memory
    <3>2. QED
      BY <1>0, <2>1, <2>2, <2>4, <3>1, SavingAlone DEF SavingPlaces
  <2>5. QED
    BY <1>6, <2>2, <2>3, <2>4 DEF WriteStats
<1>7. ASSUME ~missed', ClearStats(w)
      PROVE  SavingInv'
  <2>1. task[w].at = "clear" /\ ~missed /\ stats' = stats /\ ~FinishCall(w)
    BY <1>7 DEF ClearStats, At, history, disk, FinishCall
  <2>2. task'[w].at \in {"idle", "drop"}
    BY <1>0, <1>7 DEF ClearStats, Leave, Idle
  <2>3. (\A v \in Workers \ {w} : task[v].at \notin {"store", "clear"}) /\ AllSaved
    BY <2>1 DEF SavingInv
  <2>4. AllSaved'
    BY <2>1, <2>3, AllSavedStays
  <2>5. QED
    BY <1>0, <2>1, <2>2, <2>3, <2>4, SavingAlone
<1>8. QED
  BY <1>1, <1>2, <1>3, <1>4, <1>5, <1>6, <1>7


-----------------------------------------------------------------------------
(* The invariants hold from the start, and over a restart.                    *)

LEMMA StoresInit ==
    ASSUME Init
    PROVE  StoresInv
<1>1. Typed
  BY TypedInit
<1>2. \A w \in Workers : task[w].at = "idle"
  BY DEF Init, Idle
<1>3. ConfigInv
  BY <1>2 DEF Init, ConfigInv, Changing
<1>4. /\ DOMAIN stats.map = DOMAIN entries /\ stats.state = "whole"
      /\ \A i \in DOMAIN entries : /\ stats.map[i] = entries[i].count
                                   /\ entries[i].count \in Nat
                                   /\ served[entries[i].account] = entries[i].count
  <2>1. \A i \in DOMAIN entries : entries[i].account = i /\ entries[i].count \in Nat
    BY <1>1, StoresAssumption DEF Init, Typed, EntriesTyped, IsMap, Entry
  <2>2. QED
    BY <2>1 DEF Init, Counts
<1>5. CallsInv
  BY <1>2, <1>4 DEF CallsInv, CountsOwn, StatsOwn
<1>6. BalancesInv
  BY DEF Init, BalancesInv
<1>7. SavingInv
  <2>1. AllSaved
    BY <1>4 DEF AllSaved, SavedCount, Loaded
  <2>2. QED
    BY <1>2, <2>1 DEF SavingInv
<1>8. QED
  BY <1>1, <1>3, <1>5, <1>6, <1>7 DEF StoresInv

\* All but the time is as it was.
LEMMA StoresSame ==
    ASSUME StoresInv, UNCHANGED <<memory, disk, up, task, history>>
    PROVE  ConfigInv' /\ CallsInv' /\ BalancesInv' /\ SavingInv'
<1> USE DEF StoresInv, memory, disk, history
<1>1. ConfigInv'
  BY DEF ConfigInv, ConfigOf, Behind
<1>2. CallsInv'
  BY DEF CallsInv, CountsOwn, StatsOwn, DeletedAt
<1>3. BalancesInv'
  BY DEF BalancesInv, DeletedAt, AccountOf
<1>4. SavingInv'
  BY DEF SavingInv, AllSaved, SavedCount, UpToDate, DeletedAt, Loaded
<1>5. QED
  BY <1>1, <1>2, <1>3, <1>4

\* What the files say of a credential that is not doubtful.
LEMMA RestartAccounts ==
    ASSUME Typed, Restart, NEW i \in Ids, i \notin tangled'
    PROVE  /\ i \notin tangled /\ i \notin Deleting
           /\ AccountOf(entries', i) = AccountOf(entries, i)
<1>1. i \notin tangled /\ i \notin Deleting /\ AccountOf(entries, i) = AccountOf(creds, i)
  BY DEF Restart, Differing
<1>2. AccountOf(entries', i) = AccountOf(creds, i)
  BY RestartEntries DEF AccountOf
<1>3. QED
  BY <1>1, <1>2

LEMMA StoresRestart ==
    ASSUME StoresInv, Restart
    PROVE  StoresInv'
<1>0. Typed /\ Typed'
  BY TypedRestart DEF StoresInv
<1>1. \A w \in Workers : task'[w].at = "idle"
  BY DEF Restart, Idle
<1>2. ConfigInv'
  <2>1. pool' = config.pool /\ mode' = config.mode /\ config' = config
    BY DEF Restart
  <2>2. QED
    BY <1>1, <2>1 DEF ConfigInv, Changing
<1>3. /\ stats' = stats /\ served' = served /\ DOMAIN entries' = DOMAIN creds
      /\ \A i \in DOMAIN entries' : i \in Ids /\ entries'[i].count = SavedCount(i)
      /\ \A i \in DOMAIN entries' : entries'[i].account # 0 /\ served[entries'[i].account] \in Nat
  <2>1. stats' = stats /\ served' = served
    BY DEF Restart
  <2>2. \A i \in DOMAIN creds : creds[i].account # 0 /\ served[creds[i].account] \in Nat
    BY <1>0, AccountIsSome, LenProperties, ElementOfSeq DEF Typed, EntriesTyped
  <2>3. QED
    BY <1>0, <2>1, <2>2, RestartEntries DEF Typed, EntriesTyped, IsMap
<1>4. ASSUME NEW i \in DOMAIN stats.map, stats.state = "whole", i \notin tangled'
      PROVE  i \in DOMAIN entries' /\ stats.map[i] <= served[entries'[i].account]
  <2>1. i \in Ids
    BY <1>0 DEF Typed, FilesTyped, IsMap
  <2>2. /\ i \notin tangled /\ i \notin Deleting
        /\ AccountOf(entries', i) = AccountOf(entries, i)
    BY <1>0, <1>4, <2>1, RestartAccounts
  <2>3. i \in DOMAIN entries /\ stats.map[i] <= served[entries[i].account]
    BY <1>4, <2>1, <2>2, DeletedIsDeleting DEF StoresInv, CallsInv, StatsOwn
  <2>4. AccountOf(entries', i) = entries[i].account /\ entries[i].account # 0
    BY <1>0, <2>2, <2>3, AccountIsSome DEF AccountOf
  <2>5. i \in DOMAIN entries' /\ entries'[i].account = entries[i].account
    BY <2>4 DEF AccountOf
  <2>6. QED
    BY <2>3, <2>5
<1>5. CallsInv'
  <2>1. ASSUME NEW i \in DOMAIN entries', i \notin tangled'
        PROVE  entries'[i].count <= served[entries'[i].account]
    <3>1. CASE stats.state = "whole" /\ i \in DOMAIN stats.map
      BY <1>3, <1>4, <2>1, <3>1 DEF SavedCount, Loaded
    <3>2. CASE ~(stats.state = "whole" /\ i \in DOMAIN stats.map)
      <4>1. SavedCount(i) = 0
        BY <3>2 DEF SavedCount, Loaded
      <4>2. QED
        BY <1>3, <2>1, <4>1
    <3>3. QED
      BY <3>1, <3>2
  <2>2. CountsOwn(entries)'
    BY <1>3, <2>1 DEF CountsOwn
  <2>3. StatsOwn'
    BY <1>3, <1>4 DEF StatsOwn
  <2>4. QED
    BY <1>1, <2>2, <2>3 DEF CallsInv
<1>6. BalancesInv'
  <2>1. ASSUME NEW i \in DOMAIN balanceFile.map, i \notin tangled'
        PROVE  balanceFile.map[i].account = AccountOf(entries', i)
    <3>1. i \in Ids
      BY <1>0 DEF Typed, FilesTyped, IsMap
    <3>2. /\ i \notin tangled /\ i \notin Deleting
          /\ AccountOf(entries', i) = AccountOf(entries, i)
      BY <1>0, <2>1, <3>1, RestartAccounts
    <3>3. QED
      BY <2>1, <3>1, <3>2, DeletedIsDeleting DEF StoresInv, BalancesInv
  <2>2. balanceFile'.map = balanceFile.map
    BY <1>0 DEF Restart, Typed, FilesTyped
  <2>3. \A i \in DOMAIN balances' : i \in DOMAIN balanceFile.map /\ balances'[i] = balanceFile.map[i]
    <3> DEFINE kept == Loaded(balanceFile, << >>)
               fresh == {j \in DOMAIN kept : Fresh(kept[j])}
    <3>1. balances' = [i \in fresh |-> kept[i]]
      BY DEF Restart
    <3>2. \A i \in fresh : i \in DOMAIN balanceFile.map /\ kept[i] = balanceFile.map[i]
      BY DEF Loaded
    <3> HIDE DEF fresh, kept
    <3>3. QED
      BY <3>1, <3>2
  <2>4. QED
    BY <2>1, <2>2, <2>3 DEF BalancesInv
<1>7. SavingInv'
  <2>1. AllSaved'
    BY <1>3 DEF AllSaved, SavedCount, Loaded
  <2>2. QED
    BY <1>1, <2>1 DEF SavingInv
<1>8. QED
  BY <1>0, <1>2, <1>5, <1>6, <1>7 DEF StoresInv

LEMMA StoresNext == StoresInv /\ [Next]_vars => StoresInv'
<1> SUFFICES ASSUME StoresInv, [Next]_vars
             PROVE  StoresInv'
  OBVIOUS
<1>1. ASSUME NEW w \in Workers, Step(w)
      PROVE  StoresInv'
  BY <1>1, TypedStep, ConfigInvStep, CallsInvStep, BalancesInvStep, SavingInvStep DEF StoresInv
<1>2. CASE Tick
  BY <1>2, TypedTick, StoresSame DEF StoresInv, Tick
<1>3. CASE Restart
  BY <1>3, StoresRestart
<1>4. CASE UNCHANGED vars
  BY <1>4, TypedRest, StoresSame DEF StoresInv, vars
<1>5. QED
  BY <1>1, <1>2, <1>3, <1>4 DEF Next, Rest

\* Changes of the pool and of the mode that do not overlap leave config.json as memory is.
THEOREM ConfigFollows == Spec => []ConfigAgrees
<1>1. Init => StoresInv
  BY StoresInit
<1>2. StoresInv => ConfigAgrees
  BY DEF StoresInv, ConfigInv, ConfigAgrees
<1>3. QED
  BY <1>1, <1>2, StoresNext, PTL DEF Spec

\* A credential has the balance and the calls of its own account, although ids are used again.
THEOREM RecordsAreOwn == Spec => []OwnRecords
<1>1. Init => StoresInv
  BY StoresInit
<1>2. StoresInv => OwnRecords
  <2> SUFFICES ASSUME StoresInv, NEW i \in DOMAIN entries, i \notin tangled, i \notin Deleting
               PROVE  /\ i \in DOMAIN balances => balances[i].account = entries[i].account
                      /\ entries[i].count <= served[entries[i].account]
    BY DEF OwnRecords
  <2>1. i \in Ids
    BY DEF StoresInv, Typed, EntriesTyped, IsMap
  <2>2. i \in DOMAIN balances => balances[i].account = entries[i].account
    BY <2>1, DeletedIsDeleting DEF StoresInv, BalancesInv, AccountOf
  <2>3. QED
    BY <2>2 DEF StoresInv, CallsInv, CountsOwn
<1>3. QED
  BY <1>1, <1>2, StoresNext, PTL DEF Spec

\* When nothing is marked and nobody is saving, the statistics file has the latest counts.
THEOREM SavedStatsAreLatest == Spec => []StatsCaughtUp
<1>1. Init => StoresInv
  BY StoresInit
<1>2. StoresInv => StatsCaughtUp
  <2> SUFFICES ASSUME StoresInv, ~dirty, ~missed,
                      \A w \in Workers : task[w].at \notin SavingPlaces,
                      NEW i \in DOMAIN entries, i \notin tangled, i \notin Deleting
               PROVE  entries[i].count = SavedCount(i)
    BY DEF StatsCaughtUp, SavedCount, SavingPlaces
  <2>1. AllSaved
    BY DEF StoresInv, SavingInv, SavingPlaces
  <2>2. i \in Ids
    BY DEF StoresInv, Typed, EntriesTyped, IsMap
  <2>3. QED
    BY <2>1, <2>2, DeletedIsDeleting DEF AllSaved
<1>3. QED
  BY <1>1, <1>2, StoresNext, PTL DEF Spec

-----------------------------------------------------------------------------
(* An assignment is fair.                                                     *)

\* The assignments that AssignFair is about.
Plain(r) == r.overwrite => ~r.all /\ r.limit = 0

\* Who is counted for proxy p when the ids up to n have had their turn.
Bearers(r, b, p, n) ==
    {i \in DOMAIN b : b[i] = p /\ ~(r.overwrite /\ i \in r.ids /\ i > n)}

\* Proxy k has been handed out, and is within the limit and not ahead of any other.
Level(r, load, k) ==
    /\ r.limit # 0 => load[k] <= r.limit
    /\ \A l \in DOMAIN r.proxies : load[k] <= load[l] + 1
\* What holds of bindings and loads s, from those at the start, after the turn of id n.
Dealt(r, start, s, n) ==
    /\ \A k \in DOMAIN r.proxies :
          /\ s.load[k] = Cardinality(Bearers(r, s.bound, r.proxies[k], n))
          /\ start.load[k] <= s.load[k]
          /\ start.load[k] < s.load[k] => Level(r, s.load, k)
    /\ \A i \in DOMAIN start.bound :
          /\ s.bound[i] # start.bound[i] =>
                \E k \in DOMAIN r.proxies : s.bound[i] = r.proxies[k] /\ start.load[k] < s.load[k]
          /\ ~Selected(r, i) \/ (~r.overwrite /\ start.bound[i] # Unset) => s.bound[i] = start.bound[i]
          /\ i > n => s.bound[i] = start.bound[i]

LEMMA BearersFinite ==
    ASSUME NEW r, NEW D \in SUBSET Ids, NEW b \in [D -> Bindings], NEW p, NEW n
    PROVE  IsFiniteSet(Bearers(r, b, p, n)) /\ Cardinality(Bearers(r, b, p, n)) \in Nat
<1>1. IsFiniteSet(Ids)
  BY FS_Interval, StoresAssumption DEF Ids
<1>2. Bearers(r, b, p, n) \in SUBSET Ids
  BY DEF Bearers
<1>3. QED
  BY <1>1, <1>2, FS_Subset, FS_CardinalityType

\* What a turn does that hands out a proxy.
Gives(r, s, t, i, k) ==
    /\ k \in DOMAIN r.proxies /\ Selected(r, i) /\ (s.bound[i] = Unset \/ r.overwrite)
    /\ r.limit = 0 \/ s.load[k] < r.limit
    /\ \A l \in DOMAIN r.proxies : r.limit = 0 \/ s.load[l] < r.limit => s.load[k] <= s.load[l]
    /\ t.bound = [s.bound EXCEPT ![i] = r.proxies[k]]
    /\ t.load = [s.load EXCEPT ![k] = @ + 1]
\* What one does that does not.
Passes(r, s, t, i) ==
    /\ t = s
    /\ \/ ~Selected(r, i) \/ (s.bound[i] # Unset /\ ~r.overwrite)
       \/ \A k \in DOMAIN r.proxies : ~(r.limit = 0 \/ s.load[k] < r.limit)

LEMMA HandIs ==
    ASSUME NEW r, AssignTask(r), NEW D \in SUBSET Ids, NEW s \in States(r, D), NEW i \in D
    PROVE  Passes(r, s, Hand(r, s, i), i) \/ \E k \in DOMAIN r.proxies : Gives(r, s, Hand(r, s, i), i, k)
<1> DEFINE room == {k \in DOMAIN r.proxies : r.limit = 0 \/ s.load[k] < r.limit}
           least(k) == \A l \in room : s.load[k] < s.load[l] \/ (s.load[k] = s.load[l] /\ k <= l)
           k0 == CHOOSE k \in room : least(k)
           t == Hand(r, s, i)
<1>1. CASE room = {} \/ ~Selected(r, i) \/ (s.bound[i] # Unset /\ ~r.overwrite)
  <2>1. t = s
    BY <1>1 DEF Hand
  <2>2. QED
    BY <1>1, <2>1 DEF Passes
<1>2. CASE ~(room = {} \/ ~Selected(r, i) \/ (s.bound[i] # Unset /\ ~r.overwrite))
  <2>1. Hand(r, s, i) = [bound |-> [s.bound EXCEPT ![i] = r.proxies[k0]],
                         load  |-> [s.load EXCEPT ![k0] = @ + 1]]
    BY <1>2 DEF Hand
  <2>2. k0 \in room /\ least(k0)
    <3>1. room \in SUBSET Nat /\ room # {} /\ \A k \in room : s.load[k] \in Nat
      BY <1>2 DEF AssignTask, States
    <3> HIDE DEF room
    <3>2. \E k \in room : least(k)
      BY <3>1, LeastUsed
    <3> HIDE DEF least
    <3>3. QED
      BY <3>2
  <2> HIDE DEF k0
  <2>3. \A l \in DOMAIN r.proxies : s.load[l] \in Nat
    BY DEF States
  <2>4. \A l \in DOMAIN r.proxies : r.limit = 0 \/ s.load[l] < r.limit => s.load[k0] <= s.load[l]
    BY <2>2, <2>3
  <2>5. Gives(r, s, t, i, k0)
    BY <1>2, <2>1, <2>2, <2>4 DEF Gives
  <2>6. QED
    BY <2>2, <2>5
<1>3. QED
  BY <1>1, <1>2

\* The turn of id n + 1, if it is handed nothing.
LEMMA PassDeals ==
    ASSUME NEW r, AssignTask(r), Plain(r), NEW D \in SUBSET Ids, NEW s \in States(r, D),
           NEW start \in States(r, D), NEW n \in Nat, Dealt(r, start, s, n),
           n + 1 \in D => Passes(r, s, s, n + 1)
    PROVE  Dealt(r, start, s, n + 1)
<1>1. DOMAIN s.bound = D /\ DOMAIN start.bound = D /\ \A i \in D : i \in Nat
  BY DEF States, Ids
<1>2. ASSUME NEW k \in DOMAIN r.proxies
      PROVE  Bearers(r, s.bound, r.proxies[k], n + 1) = Bearers(r, s.bound, r.proxies[k], n)
  <2>1. ASSUME n + 1 \in D, r.overwrite
        PROVE  n + 1 \notin r.ids
    BY <1>2, <2>1 DEF Passes, Plain, Selected
  <2>2. ASSUME NEW i \in D
        PROVE  (r.overwrite /\ i \in r.ids /\ i > n + 1) = (r.overwrite /\ i \in r.ids /\ i > n)
    <3>1. i \in Nat
      BY <1>1
    <3>2. CASE i = n + 1
      BY <2>1, <3>2
    <3>3. CASE i # n + 1
      <4>1. (i > n + 1) = (i > n)
        BY <3>1, <3>3
      <4>2. QED
        BY <4>1
    <3>4. QED
      BY <3>2, <3>3
  <2>3. QED
    BY <1>1, <2>2, Zenon DEF Bearers
<1>3. ASSUME NEW i \in D, i > n + 1
      PROVE  i > n
  BY <1>1, <1>3
<1>4. QED
  BY <1>1, <1>2, <1>3 DEF Dealt

\* The turn of id n + 1, if it is handed proxy k.
LEMMA GiveDeals ==
    ASSUME NEW r, AssignTask(r), Plain(r), NEW D \in SUBSET Ids, NEW s \in States(r, D),
           NEW t \in States(r, D), NEW start \in States(r, D), NEW n \in Nat, Dealt(r, start, s, n),
           n + 1 \in D, NEW k \in DOMAIN r.proxies, Gives(r, s, t, n + 1, k)
    PROVE  Dealt(r, start, t, n + 1)
<1>1. /\ DOMAIN s.bound = D /\ DOMAIN t.bound = D /\ DOMAIN start.bound = D
      /\ \A i \in D : i \in Nat
      /\ \A l \in DOMAIN r.proxies : /\ s.load[l] \in Nat /\ t.load[l] \in Nat
                                     /\ start.load[l] \in Nat
      /\ r.limit \in Nat
  BY DEF States, Ids, AssignTask
<1>2. /\ t.bound[n + 1] = r.proxies[k] /\ \A i \in D \ {n + 1} : t.bound[i] = s.bound[i]
      /\ t.load[k] = s.load[k] + 1 /\ \A l \in DOMAIN r.proxies \ {k} : t.load[l] = s.load[l]
  BY <1>1 DEF Gives, States
<1>3. ASSUME NEW p \in Proxies
      PROVE  n + 1 \notin Bearers(r, s.bound, p, n)
  <2>1. CASE r.overwrite
    <3>1. n + 1 \in r.ids
      BY <2>1 DEF Gives, Plain, Selected
    <3>2. QED
      BY <2>1, <3>1 DEF Bearers
  <2>2. CASE ~r.overwrite
    <3>1. s.bound[n + 1] = Unset
      BY <2>2 DEF Gives
    <3>2. QED
      BY <3>1, StoresAssumption DEF Bearers
  <2>3. QED
    BY <2>1, <2>2
<1>4. ASSUME NEW l \in DOMAIN r.proxies
      PROVE  t.load[l] = Cardinality(Bearers(r, t.bound, r.proxies[l], n + 1))
  <2> DEFINE before == Bearers(r, s.bound, r.proxies[l], n)
             after == Bearers(r, t.bound, r.proxies[l], n + 1)
  <2>1. n + 1 \notin before /\ s.load[l] = Cardinality(before)
    BY <1>3 DEF Dealt, AssignTask
  <2>2. ASSUME NEW i \in D, i # n + 1
        PROVE  i \in after <=> i \in before
    <3>1. i \in Nat /\ (i > n + 1 <=> i > n) /\ t.bound[i] = s.bound[i]
      BY <1>1, <1>2, <2>2
    <3>2. QED
      BY <1>1, <3>1 DEF Bearers
  <2>3. after \subseteq D /\ before \subseteq D
    BY <1>1 DEF Bearers
  <2>4. (n + 1 \in after) = (l = k)
    <3>1. ~(n + 1 > n + 1)
      OBVIOUS
    <3>2. (n + 1 \in after) = (r.proxies[l] = r.proxies[k])
      BY <1>1, <1>2, <3>1 DEF Bearers
    <3>3. QED
      BY <3>2 DEF AssignTask
  <2>5. IsFiniteSet(before)
    BY BearersFinite DEF States
  <2> HIDE DEF after, before
  <2>6. CASE l = k
    <3>1. after = before \cup {n + 1}
      BY <2>2, <2>3, <2>4, <2>6
    <3>2. Cardinality(after) = Cardinality(before) + 1
      BY <2>1, <2>5, <3>1, FS_AddElement
    <3>3. QED
      BY <1>2, <2>1, <2>6, <3>2 DEF after
  <2>7. CASE l # k
    <3>1. after = before
      BY <2>1, <2>2, <2>3, <2>4, <2>7
    <3>2. QED
      BY <1>2, <2>1, <2>7, <3>1 DEF after
  <2>8. QED
    BY <2>6, <2>7
<1>5. \A l \in DOMAIN r.proxies : s.load[l] <= t.load[l] /\ start.load[l] <= s.load[l]
  BY <1>1, <1>2 DEF Dealt
<1>6. Level(r, t.load, k)
  <2>1. r.limit # 0 => t.load[k] <= r.limit
    BY <1>1, <1>2 DEF Gives
  <2>2. ASSUME NEW l \in DOMAIN r.proxies
        PROVE  t.load[k] <= t.load[l] + 1
    <3>1. CASE r.limit = 0 \/ s.load[l] < r.limit
      <4>1. s.load[k] <= s.load[l] /\ s.load[l] <= t.load[l]
        BY <1>5, <3>1 DEF Gives
      <4>2. QED
        BY <1>1, <1>2, <4>1
    <3>2. CASE ~(r.limit = 0 \/ s.load[l] < r.limit)
      <4>1. s.load[k] < r.limit /\ r.limit <= s.load[l] /\ s.load[l] <= t.load[l]
        BY <1>1, <1>5, <3>2 DEF Gives
      <4>2. QED
        BY <1>1, <1>2, <4>1
    <3>3. QED
      BY <3>1, <3>2
  <2>3. QED
    BY <2>1, <2>2 DEF Level
<1>7. ASSUME NEW l \in DOMAIN r.proxies, start.load[l] < t.load[l]
      PROVE  Level(r, t.load, l)
  <2>1. CASE l = k
    BY <1>6, <2>1
  <2>2. CASE l # k
    <3>1. t.load[l] = s.load[l] /\ Level(r, s.load, l)
      BY <1>2, <1>7, <2>2 DEF Dealt
    <3>2. ASSUME NEW m \in DOMAIN r.proxies
          PROVE  t.load[l] <= t.load[m] + 1
      <4>1. s.load[l] <= s.load[m] + 1 /\ s.load[m] <= t.load[m]
        BY <1>5, <3>1 DEF Level
      <4>2. QED
        BY <1>1, <3>1, <4>1
    <3>3. QED
      BY <3>1, <3>2 DEF Level
  <2>3. QED
    BY <2>1, <2>2
<1>8. ASSUME NEW i \in D
      PROVE  /\ t.bound[i] # start.bound[i] =>
                    \E l \in DOMAIN r.proxies : t.bound[i] = r.proxies[l] /\ start.load[l] < t.load[l]
             /\ ~Selected(r, i) \/ (~r.overwrite /\ start.bound[i] # Unset) => t.bound[i] = start.bound[i]
             /\ i > n + 1 => t.bound[i] = start.bound[i]
  <2>1. CASE i = n + 1
    <3>1. start.load[k] < t.load[k]
      BY <1>1, <1>2, <1>5
    <3>2. s.bound[i] = start.bound[i]
      <4>1. i > n
        BY <2>1
      <4>2. QED
        BY <1>1, <4>1 DEF Dealt
    <3>3. Selected(r, i) /\ (start.bound[i] = Unset \/ r.overwrite)
      BY <2>1, <3>2 DEF Gives
    <3>4. ~(i > n + 1)
      BY <2>1
    <3>5. QED
      BY <1>2, <2>1, <3>1, <3>3, <3>4
  <2>2. CASE i # n + 1
    <3>1. t.bound[i] = s.bound[i] /\ (i > n + 1 => i > n)
      BY <1>1, <1>2, <2>2
    <3>2. ASSUME s.bound[i] # start.bound[i]
          PROVE  \E l \in DOMAIN r.proxies : s.bound[i] = r.proxies[l] /\ start.load[l] < t.load[l]
      <4>1. PICK l \in DOMAIN r.proxies : s.bound[i] = r.proxies[l] /\ start.load[l] < s.load[l]
        BY <1>1, <3>2 DEF Dealt
      <4>2. start.load[l] < t.load[l]
        BY <1>1, <1>5, <4>1
      <4>3. QED
        BY <4>1, <4>2
    <3>3. QED
      BY <1>1, <3>1, <3>2 DEF Dealt
  <2>3. QED
    BY <2>1, <2>2
<1>9. \A l \in DOMAIN r.proxies : start.load[l] <= t.load[l]
  BY <1>1, <1>5
<1>10. QED
  BY <1>1, <1>4, <1>7, <1>8, <1>9 DEF Dealt

\* Before the first turn.
LEMMA NoneDealt ==
    ASSUME NEW r, AssignTask(r), NEW D \in SUBSET Ids, NEW bound \in [D -> Bindings]
    PROVE  Dealt(r, NoneHanded(r, bound), NoneHanded(r, bound), 0)
<1> DEFINE none == NoneHanded(r, bound)
<1>1. none \in States(r, D) /\ none.bound = bound /\ DOMAIN bound = D
  BY NoneHandedTyped DEF NoneHanded
<1>2. ASSUME NEW k \in DOMAIN r.proxies
      PROVE  none.load[k] = Cardinality(Bearers(r, bound, r.proxies[k], 0)) /\ none.load[k] \in Nat
  <2>1. none.load[k] = LoadOf(r, bound, r.proxies[k])
    BY DEF NoneHanded
  <2>2. \A i \in D : i > 0
    BY DEF Ids
  <2>3. Bearers(r, bound, r.proxies[k], 0)
            = {i \in DOMAIN bound : bound[i] = r.proxies[k] /\ ~(r.overwrite /\ i \in r.ids)}
    BY <1>1, <2>2, Zenon DEF Bearers
  <2>4. none.load[k] \in Nat
    BY <1>1 DEF States
  <2>5. QED
    BY <2>1, <2>3, <2>4 DEF LoadOf
<1> HIDE DEF none
<1>3. QED
  BY <1>1, <1>2 DEF Dealt, none

LEMMA HandedDeals ==
    ASSUME NEW r, AssignTask(r), Plain(r), NEW D \in SUBSET Ids, NEW bound \in [D -> Bindings]
    PROVE  Dealt(r, NoneHanded(r, bound), Handed(r, bound), MaxIds)
<1>1. PICK g \in [0 .. MaxIds -> States(r, D)] : TurnsOf(g, r, bound)
  BY HandedTurns DEF Turnable
<1>2. MaxIds \in Nat /\ DOMAIN bound = D
  BY StoresAssumption
<1> DEFINE start == NoneHanded(r, bound)
           T == {n \in 0 .. MaxIds : Dealt(r, start, g[n], n)}
<1>3. start \in States(r, D)
  BY NoneHandedTyped
<1>4. 0 \in T
  BY <1>1, <1>2, NoneDealt DEF TurnsOf
<1>5. ASSUME NEW n \in 0 .. MaxIds - 1, n \in T
      PROVE  n + 1 \in T
  <2>1. n \in Nat /\ n + 1 \in 1 .. MaxIds /\ n \in 0 .. MaxIds /\ n + 1 \in 0 .. MaxIds /\ (n + 1) - 1 = n
    BY <1>2
  <2>2. g[n] \in States(r, D) /\ g[n + 1] \in States(r, D) /\ Dealt(r, start, g[n], n)
    BY <1>5, <2>1
  <2>3. g[n + 1] = IF n + 1 \in D THEN Hand(r, g[n], n + 1) ELSE g[n]
    BY <1>1, <1>2, <2>1 DEF TurnsOf
  <2> HIDE DEF start
  <2>4. Dealt(r, start, g[n + 1], n + 1)
    <3>1. CASE n + 1 \notin D
      BY <1>3, <2>1, <2>2, <2>3, <3>1, PassDeals
    <3>2. CASE n + 1 \in D /\ Passes(r, g[n], g[n + 1], n + 1)
      <4>1. g[n + 1] = g[n]
        BY <3>2 DEF Passes
      <4>2. QED
        BY <1>3, <2>1, <2>2, <3>2, <4>1, PassDeals
    <3>3. CASE n + 1 \in D /\ \E k \in DOMAIN r.proxies : Gives(r, g[n], g[n + 1], n + 1, k)
      BY <1>3, <2>1, <2>2, <3>3, GiveDeals
    <3>4. QED
      BY <2>2, <2>3, <3>1, <3>2, <3>3, HandIs
  <2>5. QED
    BY <2>1, <2>4
<1> HIDE DEF T
<1>6. \A n \in 0 .. MaxIds : n \in T
  BY <1>2, <1>4, <1>5, InductionUpTo
<1>7. MaxIds \in T
  BY <1>2, <1>6
<1>8. QED
  BY <1>1, <1>7 DEF T, TurnsOf

LEMMA AssignSpreads ==
    ASSUME Typed, NEW w \in Workers, Assign(w), Plain(task[w])
    PROVE  Spread(task[w], entries, entries')
<1> DEFINE r == task[w]
           bound == [i \in DOMAIN entries |-> entries[i].proxy]
           D == DOMAIN entries
           s == Handed(r, bound)
           start == NoneHanded(r, bound)
<1>1. IsMap(entries, Entry) /\ AssignTask(r)
  BY TaskKind DEF Typed, EntriesTyped, TasksTyped, Assign, At
<1>2. D \in SUBSET Ids /\ bound \in [D -> Bindings] /\ \A i \in D : bound[i] = entries[i].proxy
  BY <1>1 DEF IsMap, Entry, Bindings
<1>3. s \in States(r, D) /\ start \in States(r, D) /\ Dealt(r, start, s, MaxIds) /\ start.bound = bound
  <2>1. start.bound = bound
    BY DEF NoneHanded
  <2> HIDE DEF r, bound, D
  <2>2. QED
    BY <1>1, <1>2, <2>1, HandedTyped, HandedDeals, NoneHandedTyped DEF r
<1>4. \/ entries' = entries
      \/ entries' = [i \in D |-> [entries[i] EXCEPT !.proxy = s.bound[i]]]
  BY DEF Assign
<1>5. CASE entries' = entries
  BY <1>5 DEF Spread
<1>6. CASE entries' = [i \in D |-> [entries[i] EXCEPT !.proxy = s.bound[i]]]
  <2>1. DOMAIN entries' = D /\ \A i \in D : entries'[i].proxy = s.bound[i]
    BY <1>1, <1>6 DEF IsMap, Entry
  <2>2. DOMAIN s.bound = D /\ \A k \in DOMAIN r.proxies : s.load[k] \in Nat
    BY <1>3 DEF States
  <2> HIDE DEF s, bound, start, D
  <2>3. ASSUME NEW k \in DOMAIN r.proxies
        PROVE  s.load[k] = Through(entries', r.proxies[k])
    <3>1. \A i \in D : ~(i > MaxIds)
      <4>1. MaxIds \in Nat /\ \A i \in D : i \in 1 .. MaxIds
        BY <1>2, StoresAssumption DEF Ids
      <4>2. QED
        BY <4>1
    <3>2. Bearers(r, s.bound, r.proxies[k], MaxIds) = {i \in D : s.bound[i] = r.proxies[k]}
      BY <2>2, <3>1, Zenon DEF Bearers
    <3>3. {i \in DOMAIN entries' : entries'[i].proxy = r.proxies[k]} = {i \in D : s.bound[i] = r.proxies[k]}
      BY <2>1
    <3>4. s.load[k] = Cardinality(Bearers(r, s.bound, r.proxies[k], MaxIds))
      BY <1>3 DEF Dealt
    <3>5. QED
      BY <3>2, <3>3, <3>4 DEF Through
  <2>4. ASSUME NEW i \in D, entries'[i].proxy # entries[i].proxy
        PROVE  \E k \in DOMAIN r.proxies : entries'[i].proxy = r.proxies[k] /\ Level(r, s.load, k)
    <3>1. s.bound[i] # start.bound[i] /\ i \in DOMAIN start.bound
      BY <1>2, <1>3, <2>1, <2>4
    <3>2. PICK k \in DOMAIN r.proxies : s.bound[i] = r.proxies[k] /\ start.load[k] < s.load[k]
      BY <1>3, <3>1 DEF Dealt
    <3>3. Level(r, s.load, k)
      BY <1>3, <3>2 DEF Dealt
    <3>4. QED
      BY <2>1, <3>2, <3>3
  <2>5. ASSUME NEW p \in Range(r.proxies),
               NEW i \in DOMAIN entries', entries'[i].proxy = p, entries[i].proxy # p
        PROVE  /\ r.limit # 0 => Through(entries', p) <= r.limit
               /\ \A q \in Range(r.proxies) : Through(entries', p) <= Through(entries', q) + 1
    <3>1. PICK k \in DOMAIN r.proxies : p = r.proxies[k] /\ Level(r, s.load, k)
      BY <2>1, <2>4, <2>5
    <3>2. s.load[k] = Through(entries', p)
      BY <2>3, <3>1
    <3>3. ASSUME NEW q \in Range(r.proxies)
          PROVE  Through(entries', p) <= Through(entries', q) + 1
      <4>1. PICK l \in DOMAIN r.proxies : q = r.proxies[l]
        BY DEF Range
      <4>2. s.load[l] = Through(entries', q) /\ s.load[k] <= s.load[l] + 1
        BY <2>3, <3>1, <4>1 DEF Level
      <4>3. QED
        BY <3>2, <4>2
    <3>4. QED
      BY <3>1, <3>2, <3>3 DEF Level
  <2>6. ASSUME NEW i \in DOMAIN entries', ~Selected(r, i) \/ (~r.overwrite /\ entries[i].proxy # Unset)
        PROVE  entries'[i].proxy = entries[i].proxy
    BY <1>2, <1>3, <2>1, <2>6 DEF Dealt
  <2> HIDE DEF r
  <2>7. QED
    BY <2>5, <2>6 DEF Spread, r
<1>7. QED
  BY <1>4, <1>5, <1>6

\* Whatever assignments, additions and changes of the pool overlap, each assignment hands
\* the proxies out evenly and within the limit, and leaves all other bindings alone
\* (assign_proxy_pool).
THEOREM AssignmentsFair == Spec => AssignFair
<1>1. StoresInv /\ [Next]_vars =>
          [\A w \in Workers :
              Assign(w) /\ (task[w].overwrite => ~task[w].all /\ task[w].limit = 0)
                 => Spread(task[w], entries, entries')]_vars
  BY AssignSpreads DEF StoresInv, Plain
<1>2. QED
  BY <1>1, StoresInit, StoresNext, PTL DEF Spec, AssignFair

=============================================================================
