----------------------------- MODULE AdminStores -----------------------------
(* What the admin service (admin/service.rs) and MultiTokenManager keep       *)
(* beside the tokens, in memory and in a file each: the proxy pool and the    *)
(* mode in config.json, the proxy of each credential, the balance cache, and  *)
(* the statistics. Requests run on several threads, every mutex is held for   *)
(* one step only, files are written in place, and ids are used again.         *)
(* How a credential gets and keeps its tokens is in TokenLifecycle, whose     *)
(* credentials file is written in one step here.                              *)
EXTENDS Integers, FiniteSets, SequencesExt

CONSTANTS
    Workers,          \* threads, one request at a time
    Proxies,          \* proxies that may be in the pool
    InitPool,         \* sequence of [proxy, disabled]
    InitEntries,      \* the credentials at the start, which have the first ids
    Mixes,            \* kinds of request that are explored together, with bounds on
                      \* their number and on the time
    Limits,           \* values of max_credentials_per_proxy, 0 for none
    Unset, Direct,    \* proxy_url absent, or "direct"
    BalanceTTL, StatsDebounce,   \* in ticks
    MaxIds, MaxFaults, MaxRestarts   \* bounds

Modes  == {"priority", "balanced"}
Ids    == 1..MaxIds
Item   == [proxy : Proxies, disabled : BOOLEAN]
Entry  == [account : Nat, proxy : Proxies \cup {Unset, Direct}, disabled : BOOLEAN, count : Nat]
Kinds  == {"mode", "pool", "assign", "proxy", "balance", "add", "disabled", "delete", "call"}

ASSUME StoresAssumption ==
    /\ InitPool \in Seq(Item)
    /\ \A i, j \in DOMAIN InitPool : InitPool[i].proxy = InitPool[j].proxy => i = j
    /\ Mixes \subseteq [kinds : SUBSET Kinds, requests : Nat, time : Nat] /\ Limits \subseteq Nat
    /\ MaxIds \in Nat /\ InitEntries \in Seq(Entry) /\ Len(InitEntries) <= MaxIds
    /\ \A i \in DOMAIN InitEntries : InitEntries[i].account = i
    /\ Unset \notin Proxies /\ Direct \notin Proxies
    /\ BalanceTTL \in Nat /\ StatsDebounce \in Nat

VARIABLES
    now, entries, pool, mode, balances, dirty, savedAt,    \* memory
    config, creds, balanceFile, stats,                     \* the four files
    up,          \* the process runs
    task,        \* task[w]: where w is in its request, and its locals
    mix,         \* the member of Mixes this behaviour is of
    requests, faults, restarts,                            \* counters
    served,      \* served[a]: the calls that account a has really answered
    raced,       \* changes of the configuration have overlapped
    missed,      \* a save of the statistics may not have the latest ones
    tangled      \* ids whose records may be those of a deleted credential

memory == <<entries, pool, mode, balances, dirty, savedAt>>
disk   == <<config, creds, balanceFile, stats>>
counters == <<mix, requests, faults, restarts>>
history  == <<served, raced, missed, tangled>>
vars == <<now, memory, disk, up, task, counters, history>>

Idle == [at |-> "idle"]
At(w, place) == up /\ task[w].at = place
Goto(w, place) == task' = [task EXCEPT ![w].at = place]
Finish(w) == task' = [task EXCEPT ![w] = Idle]
Others(w, places) == \E v \in Workers \ {w} : task[v].at \in places

\* A request of the given kind arrives, and its handler has these locals.
Begin(w, kind, locals) ==
    /\ At(w, "idle") /\ kind \in mix.kinds /\ requests < mix.requests
    /\ requests' = requests + 1
    /\ task' = [task EXCEPT ![w] = locals]
    /\ UNCHANGED <<mix, faults, restarts>>

\* A write to a file fails.
Fault == faults < MaxFaults /\ faults' = faults + 1 /\ UNCHANGED <<mix, requests, restarts>>

Without(f, i) == [j \in DOMAIN f \ {i} |-> f[j]]
With(f, i, v) == [j \in DOMAIN f \cup {i} |-> IF j = i THEN v ELSE f[j]]

Persistent(es) == [i \in DOMAIN es |-> [es[i] EXCEPT !.count = 0]]
Counts(es) == [i \in DOMAIN es |-> es[i].count]

(***************************************************************************)
(* config.json: the pool and the mode. A change is made in memory first;    *)
(* then the file is read, one field replaced, and all of it written.        *)
(***************************************************************************)

Changing == {"mode", "take", "load", "truncate", "write", "undo"}

SomeProxy(p, ps) == \E i \in DOMAIN ps : ps[i].proxy = p

\* add_proxy_pool_item, delete_proxy_pool_item, set_proxy_pool_disabled
ChangedPools_Twice ==
    {Append(pool, x) : x \in Item}
    \cup {[pool EXCEPT ![i].disabled = d] : i \in DOMAIN pool, d \in BOOLEAN}
ChangedPools ==
    {Append(pool, x) : x \in {y \in Item : ~SomeProxy(y.proxy, pool)}}
    \cup {RemoveAt(pool, i) : i \in DOMAIN pool}
    \cup {[pool EXCEPT ![i].disabled = d] : i \in DOMAIN pool, d \in BOOLEAN}

ChangePool(w) ==
    \E changed \in ChangedPools :
        /\ Begin(w, "pool", [at |-> "take", field |-> "pool", was |-> pool, to |-> << >>])
        /\ pool' = changed
        /\ raced' = (raced \/ Others(w, Changing))
        /\ UNCHANGED <<now, entries, mode, balances, dirty, savedAt, disk, up, served, missed, tangled>>

\* set_load_balancing_mode reads the old mode and sets the new one in two steps.
AskMode(w) ==
    \E m \in Modes \ {mode} :
        /\ Begin(w, "mode", [at |-> "mode", field |-> "mode", was |-> mode, to |-> m])
        /\ raced' = (raced \/ Others(w, Changing))
        /\ UNCHANGED <<now, memory, disk, up, served, missed, tangled>>
SetMode(w) ==
    /\ At(w, "mode") /\ mode' = task[w].to /\ Goto(w, "load")
    /\ UNCHANGED <<now, entries, pool, balances, dirty, savedAt, disk, up, counters, history>>

TakePool(w) ==
    /\ At(w, "take")
    /\ task' = [task EXCEPT ![w].at = "load", ![w].to = pool]
    /\ UNCHANGED <<now, memory, disk, up, counters, history>>

\* Config::load refuses a file that is being written or was left unfinished.
LoadConfig(w) ==
    /\ At(w, "load")
    /\ task' = [task EXCEPT ![w] =
           IF config.state = "torn" THEN [@ EXCEPT !.at = "undo"]
           ELSE [at |-> "truncate", field |-> @.field, was |-> @.was,
                 image |-> IF @.field = "pool" THEN [config EXCEPT !.pool = task[w].to]
                           ELSE [config EXCEPT !.mode = task[w].to]]]
    /\ UNCHANGED <<now, memory, disk, up, counters, history>>

\* Config::save; the file is truncated, then written.
TruncateConfig(w) ==
    /\ At(w, "truncate")
    /\ \/ config' = [config EXCEPT !.state = "torn"] /\ Goto(w, "write") /\ UNCHANGED counters
       \/ Fault /\ Goto(w, "undo") /\ UNCHANGED config
    /\ UNCHANGED <<now, memory, creds, balanceFile, stats, up, history>>
WriteConfig(w) ==
    /\ At(w, "write")
    /\ \/ config' = task[w].image /\ Finish(w) /\ UNCHANGED counters
       \/ config.state = "whole" \* another has written since: the end of a longer text stays
          /\ config' = [task[w].image EXCEPT !.state = "torn"]
          /\ Finish(w) /\ UNCHANGED counters
       \/ Fault /\ Goto(w, "undo") /\ UNCHANGED config
    /\ UNCHANGED <<now, memory, creds, balanceFile, stats, up, history>>

\* The change could not be saved, and memory gets back what was there before it.
UndoChange_Not(w) ==
    /\ At(w, "undo") /\ Finish(w)
    /\ UNCHANGED <<now, memory, disk, up, counters, history>>
UndoChange(w) ==
    /\ At(w, "undo") /\ Finish(w)
    /\ pool' = IF task[w].field = "pool" THEN task[w].was ELSE pool
    /\ mode' = IF task[w].field = "mode" THEN task[w].was ELSE mode
    /\ UNCHANGED <<now, entries, balances, dirty, savedAt, disk, up, counters, history>>

(***************************************************************************)
(* Proxies of credentials.                                                  *)
(***************************************************************************)

\* set_proxy
SetProxy(w) ==
    \E i \in DOMAIN entries, p \in Proxies \cup {Unset, Direct} :
        /\ Begin(w, "proxy", [at |-> "persist"])
        /\ entries' = [entries EXCEPT ![i].proxy = p]
        /\ UNCHANGED <<now, pool, mode, balances, dirty, savedAt, disk, up, history>>

\* assign_proxy_pool looks at the pool first, and at the credentials later.
AskAssign(w) ==
    LET enabled == {k \in DOMAIN pool : ~pool[k].disabled}
    IN  \E ids \in SUBSET DOMAIN entries, all, overwrite \in BOOLEAN, limit \in Limits :
            /\ enabled # {} /\ (ids = {}) = all
            /\ Begin(w, "assign", [at |-> "assign", all |-> all, ids |-> ids, limit |-> limit,
                                   overwrite |-> overwrite,
                                   proxies |-> [k \in enabled |-> pool[k].proxy]])
            /\ UNCHANGED <<now, memory, disk, up, history>>

Selected(r, i) == r.all \/ i \in r.ids

\* Who counts as bound to a proxy when it is handed out: not those that are named
\* to be bound anew.
LoadOf(r, bound, p) ==
    Cardinality({i \in DOMAIN bound : bound[i] = p /\ ~(r.overwrite /\ i \in r.ids)})

\* Each in turn gets the first of the least used proxies that have room.
Hand_First(r, s, i) ==
    LET room == {k \in DOMAIN r.proxies : r.limit = 0 \/ s.load[k] < r.limit}
    IN  IF room = {} \/ ~Selected(r, i) \/ (s.bound[i] # Unset /\ ~r.overwrite) THEN s
        ELSE LET k == CHOOSE k \in room : \A l \in room : k <= l
             IN  [bound |-> [s.bound EXCEPT ![i] = r.proxies[k]], load |-> [s.load EXCEPT ![k] = @ + 1]]
Hand(r, s, i) ==
    LET room == {k \in DOMAIN r.proxies : r.limit = 0 \/ s.load[k] < r.limit}
    IN  IF room = {} \/ ~Selected(r, i) \/ (s.bound[i] # Unset /\ ~r.overwrite) THEN s
        ELSE LET k == CHOOSE k \in room : \A l \in room :
                        s.load[k] < s.load[l] \/ (s.load[k] = s.load[l] /\ k <= l)
             IN  [bound |-> [s.bound EXCEPT ![i] = r.proxies[k]], load |-> [s.load EXCEPT ![k] = @ + 1]]
NoneHanded(r, bound) ==
    [bound |-> bound, load |-> [k \in DOMAIN r.proxies |-> LoadOf(r, bound, r.proxies[k])]]
Handed(r, bound) ==
    LET upTo[i \in 0..MaxIds] ==
            IF i = 0 THEN NoneHanded(r, bound)
            ELSE IF i \in DOMAIN bound THEN Hand(r, upTo[i - 1], i) ELSE upTo[i - 1]
    IN  upTo[MaxIds]

\* It stops when a named credential is gone, and saves only if it has handed out any.
Assign(w) ==
    LET r == task[w]
        bound == [i \in DOMAIN entries |-> entries[i].proxy]
    IN  /\ At(w, "assign")
        /\ IF r.ids \subseteq DOMAIN entries /\ Handed(r, bound) # NoneHanded(r, bound)
           THEN /\ entries' = [i \in DOMAIN entries |->
                                 [entries[i] EXCEPT !.proxy = Handed(r, bound).bound[i]]]
                /\ task' = [task EXCEPT ![w] = [at |-> "persist"]]
           ELSE Finish(w) /\ UNCHANGED entries
        /\ UNCHANGED <<now, pool, mode, balances, dirty, savedAt, disk, up, counters, history>>

\* persist_credentials
Persist(w) ==
    /\ At(w, "persist") /\ Finish(w)
    /\ \/ creds' = Persistent(entries) /\ UNCHANGED counters
       \/ Fault /\ UNCHANGED creds
    /\ UNCHANGED <<now, memory, config, balanceFile, stats, up, history>>

(***************************************************************************)
(* Credentials come and go. An id is used again when the last one is        *)
(* deleted. (Two additions at once, which may take the same id, are in      *)
(* TokenLifecycle.)                                                         *)
(***************************************************************************)

AccountOf(es, i) == IF i \in DOMAIN es THEN es[i].account ELSE 0
Differing(es, fs) == {i \in Ids : AccountOf(es, i) # AccountOf(fs, i)}

AddCred(w) ==
    LET id == 1 + Max(DOMAIN entries \cup {0})
    IN  /\ id \in Ids /\ Begin(w, "add", [at |-> "persist"])
        /\ entries' = With(entries, id, [account |-> Len(served) + 1, proxy |-> Unset,
                                         disabled |-> FALSE, count |-> 0])
        /\ served' = Append(served, 0)
        /\ UNCHANGED <<now, pool, mode, balances, dirty, savedAt, disk, up, raced, missed, tangled>>

\* set_disabled
SetDisabled(w) ==
    \E i \in DOMAIN entries, d \in BOOLEAN :
        /\ Begin(w, "disabled", [at |-> "persist"])
        /\ entries' = [entries EXCEPT ![i].disabled = d]
        /\ UNCHANGED <<now, pool, mode, balances, dirty, savedAt, disk, up, history>>

\* delete_credential removes the entry, saves the credentials, then the statistics;
\* the admin service forgets the balance after it. If the credentials cannot be
\* saved it stops there.
DeleteCred(w) ==
    \E i \in DOMAIN entries :
        /\ entries[i].disabled /\ Begin(w, "delete", [at |-> "forget", id |-> i])
        /\ entries' = Without(entries, i)
        /\ UNCHANGED <<now, pool, mode, balances, dirty, savedAt, disk, up, history>>
PersistDelete(w) ==
    /\ At(w, "forget")
    /\ \/ creds' = Persistent(entries) /\ Goto(w, "snap") /\ UNCHANGED <<counters, tangled>>
       \/ Fault /\ Finish(w) /\ tangled' = tangled \cup {task[w].id} /\ UNCHANGED creds
    /\ UNCHANGED <<now, memory, config, balanceFile, stats, up, served, raced, missed>>
DropBalance_Keep(w) ==
    /\ At(w, "drop") /\ Goto(w, "save")
    /\ UNCHANGED <<now, memory, disk, up, counters, history>>
DropBalance(w) ==
    /\ At(w, "drop") /\ Goto(w, "save")
    /\ balances' = Without(balances, task[w].id)
    /\ UNCHANGED <<now, entries, pool, mode, dirty, savedAt, disk, up, counters, history>>

Deleting == {task[w].id : w \in {v \in Workers : "id" \in DOMAIN task[v]}} \ {0}

(***************************************************************************)
(* The balance cache.                                                       *)
(***************************************************************************)

Fresh(b) == now - b.at < BalanceTTL

\* get_balance that misses: a hit changes nothing.
AskBalance(w) ==
    \E i \in DOMAIN entries :
        /\ i \in DOMAIN balances => ~Fresh(balances[i])
        /\ Begin(w, "balance", [at |-> "query", cred |-> i, account |-> entries[i].account])
        /\ UNCHANGED <<now, memory, disk, up, history>>
KeepBalance(w) ==
    /\ At(w, "query")
    /\ \/ /\ balances' = With(balances, task[w].cred, [account |-> task[w].account, at |-> now])
          /\ tangled' = IF AccountOf(entries, task[w].cred) = task[w].account THEN tangled
                        ELSE tangled \cup {task[w].cred}
          /\ task' = [task EXCEPT ![w] = [at |-> "save"]]
       \/ Finish(w) /\ UNCHANGED <<balances, tangled>>    \* the upstream refuses
    /\ UNCHANGED <<now, entries, pool, mode, dirty, savedAt, disk, up, counters, served, raced, missed>>

\* save_balance_cache holds the lock while it writes, and does not report a failure.
SaveBalances(w) ==
    LET stale == {i \in DOMAIN balanceFile.map : i \notin DOMAIN balances
                      \/ balances[i].account # balanceFile.map[i].account}
    IN  /\ At(w, "save") /\ Finish(w)
        /\ \/ balanceFile' = [map |-> balances, state |-> "whole"] /\ UNCHANGED <<counters, tangled>>
           \/ Fault /\ tangled' = tangled \cup stale /\ UNCHANGED balanceFile
        /\ UNCHANGED <<now, memory, config, creds, stats, up, served, raced, missed>>

(***************************************************************************)
(* The statistics. report_success counts, marks, and saves now and then.    *)
(***************************************************************************)

StartCall(w) ==
    \E i \in DOMAIN entries :
        /\ ~entries[i].disabled
        /\ Begin(w, "call", [at |-> "call", cred |-> i, account |-> entries[i].account])
        /\ UNCHANGED <<now, memory, disk, up, history>>

\* The account answers; its entry may be gone, or belong to another by now.
FinishCall(w) ==
    LET i == task[w].cred
        a == task[w].account
    IN  /\ At(w, "call") /\ Goto(w, "mark")
        /\ entries' = IF i \in DOMAIN entries THEN [entries EXCEPT ![i].count = @ + 1] ELSE entries
        /\ served' = [served EXCEPT ![a] = @ + 1]
        /\ tangled' = IF AccountOf(entries, i) \in {0, a} THEN tangled ELSE tangled \cup {i}
        /\ missed' = (missed \/ Others(w, {"store", "clear"}))
        /\ UNCHANGED <<now, pool, mode, balances, dirty, savedAt, disk, up, counters, raced>>

\* save_stats_debounced
Mark_Silent(w) ==
    /\ At(w, "mark") /\ UNCHANGED dirty
    /\ task' = [task EXCEPT ![w] = IF savedAt = {} \/ \E t \in savedAt : now - t >= StatsDebounce
                                   THEN [at |-> "snap", id |-> 0] ELSE Idle]
    /\ UNCHANGED <<now, entries, pool, mode, balances, savedAt, disk, up, counters, history>>
Mark(w) ==
    /\ At(w, "mark") /\ dirty' = TRUE
    /\ task' = [task EXCEPT ![w] = IF savedAt = {} \/ \E t \in savedAt : now - t >= StatsDebounce
                                   THEN [at |-> "snap", id |-> 0] ELSE Idle]
    /\ UNCHANGED <<now, entries, pool, mode, balances, savedAt, disk, up, counters, history>>

\* save_stats. The snapshot is taken under the lock, the file is opened, written, and
\* only then are the time set and the mark removed.
SnapStats(w) ==
    /\ At(w, "snap")
    /\ task' = [task EXCEPT ![w] = [at |-> "store", id |-> @.id, snapshot |-> entries]]
    /\ stats' = [stats EXCEPT !.state = "torn"]
    /\ missed' = (missed \/ Others(w, {"store", "clear"}))
    /\ UNCHANGED <<now, memory, config, creds, balanceFile, up, counters, served, raced, tangled>>

\* A deletion goes on to the balance cache, whether the statistics were saved or not.
Leave(w) == task' = [task EXCEPT ![w] = IF @.id = 0 THEN Idle ELSE [at |-> "drop", id |-> @.id]]

ToClear(w) == task' = [task EXCEPT ![w] = [at |-> "clear", id |-> @.id]]

WriteStats(w) ==
    LET snapshot == task[w].snapshot
        gone == {i \in DOMAIN snapshot : AccountOf(entries, i) # snapshot[i].account}
        own  == {task[w].id} \ {0}
    IN  /\ At(w, "store")
        /\ \/ /\ stats' = [map |-> Counts(snapshot), state |-> "whole"] /\ tangled' = tangled \cup gone
              /\ ToClear(w) /\ UNCHANGED <<counters, missed>>
           \/ /\ stats.state = "whole"     \* written by another since it was opened here
              /\ stats' = [stats EXCEPT !.state = "torn"]
              /\ ToClear(w) /\ UNCHANGED <<counters, missed, tangled>>
           \/ /\ Fault /\ Leave(w)         \* half written
              /\ tangled' = tangled \cup own /\ missed' = (missed \/ ~dirty)
              /\ UNCHANGED stats
        /\ UNCHANGED <<now, memory, config, creds, balanceFile, up, served, raced>>
ClearStats(w) ==
    /\ At(w, "clear") /\ Leave(w)
    /\ savedAt' = {now} /\ dirty' = FALSE
    /\ UNCHANGED <<now, entries, pool, mode, balances, disk, up, counters, history>>

(***************************************************************************)
(* Time, and the process.                                                   *)
(***************************************************************************)

Tick ==
    /\ now < mix.time /\ now' = now + 1
    /\ UNCHANGED <<memory, disk, up, task, counters, history>>

Loaded(f, default) == IF f.state = "whole" THEN f.map ELSE default

\* The process is killed and started again. An unfinished config.json keeps it from
\* starting; the other two files are then taken for empty. Nothing is saved at the end.
Restart ==
    LET counted == Loaded(stats, << >>)
        kept    == Loaded(balanceFile, << >>)
    IN  /\ up /\ restarts < MaxRestarts /\ restarts' = restarts + 1
        /\ task' = [w \in Workers |-> Idle]
        /\ up' = (config.state = "whole")
        /\ pool' = config.pool /\ mode' = config.mode
        /\ entries' = [i \in DOMAIN creds |-> [creds[i] EXCEPT !.count =
                          IF i \in DOMAIN counted THEN counted[i] ELSE 0]]
        /\ balances' = [i \in {j \in DOMAIN kept : Fresh(kept[j])} |-> kept[i]]
        /\ dirty' = FALSE /\ savedAt' = IF stats.state = "whole" THEN {now} ELSE {}
        /\ balanceFile' \in {balanceFile} \cup
               {[balanceFile EXCEPT !.state = "torn"] : w \in {v \in Workers : At(v, "save")}}
        /\ tangled' = tangled \cup Deleting \cup Differing(entries, creds)
        /\ raced' = FALSE /\ missed' = FALSE
        /\ UNCHANGED <<now, config, creds, stats, mix, requests, faults, served>>

\* Waiting for requests; or stopped for good.
Rest == (~up \/ \A w \in Workers : task[w] = Idle) /\ UNCHANGED vars

\* Just started, after an earlier run has written the files.
Init ==
    /\ now = 0 /\ entries = InitEntries /\ pool = InitPool /\ mode = "priority"
    /\ balances = << >> /\ dirty = FALSE /\ savedAt = {0}
    /\ config = [pool |-> InitPool, mode |-> "priority", state |-> "whole"]
    /\ creds = Persistent(InitEntries)
    /\ balanceFile = [map |-> << >>, state |-> "whole"]
    /\ stats = [map |-> Counts(InitEntries), state |-> "whole"]
    /\ up = TRUE /\ task = [w \in Workers |-> Idle]
    /\ mix \in Mixes /\ requests = 0 /\ faults = 0 /\ restarts = 0
    /\ served = [a \in DOMAIN InitEntries |-> InitEntries[a].count]
    /\ raced = FALSE /\ missed = FALSE /\ tangled = {}

Step(w) ==
    \/ ChangePool(w) \/ AskMode(w) \/ SetMode(w) \/ TakePool(w)
    \/ LoadConfig(w) \/ TruncateConfig(w) \/ WriteConfig(w) \/ UndoChange(w)
    \/ SetProxy(w) \/ AskAssign(w) \/ Assign(w) \/ Persist(w)
    \/ AddCred(w) \/ SetDisabled(w) \/ DeleteCred(w) \/ PersistDelete(w) \/ DropBalance(w)
    \/ AskBalance(w) \/ KeepBalance(w) \/ SaveBalances(w)
    \/ StartCall(w) \/ FinishCall(w) \/ Mark(w)
    \/ SnapStats(w) \/ WriteStats(w) \/ ClearStats(w)

Next == (\E w \in Workers : Step(w)) \/ Tick \/ Restart \/ Rest

Spec == Init /\ [][Next]_vars

(***************************************************************************)
(* Properties.                                                              *)
(***************************************************************************)

\* The variables keep their types, no proxy is in the pool twice, and no two credentials
\* have the same account.
TypeOK ==
    /\ now \in 0..mix.time /\ pool \in Seq(Item) /\ mode \in Modes
    /\ \A i, j \in DOMAIN pool : pool[i].proxy = pool[j].proxy => i = j
    /\ DOMAIN entries \subseteq Ids /\ \A i \in DOMAIN entries : entries[i] \in Entry
    /\ \A i, j \in DOMAIN entries : entries[i].account = entries[j].account => i = j
    /\ DOMAIN balances \subseteq Ids
    /\ config.pool \in Seq(Item) /\ config.mode \in Modes
    /\ tangled \subseteq Ids /\ dirty \in BOOLEAN /\ savedAt \subseteq 0..mix.time

\* Changes of the pool and of the mode that do not overlap leave the file as memory is,
\* whether each was saved, failed half way, or was undone, and also after a restart.
\* A file left unfinished is the exception: the next change fails and is undone.
ConfigAgrees ==
    (up /\ ~raced /\ config.state = "whole" /\ ~\E w \in Workers : task[w].at \in Changing)
        => config.pool = pool /\ config.mode = mode

\* How many credentials go through proxy p.
Through(es, p) == Cardinality({i \in DOMAIN es : es[i].proxy = p})

\* What assign_proxy_pool promises of one assignment r: a proxy that got a credential
\* keeps to the limit, and has at most one more than any other of the pool that is below
\* it; a credential that was not asked for, or has a proxy and is not to be bound anew,
\* keeps what it has.
Spread(r, before, after) ==
    LET got(p) == \E i \in DOMAIN after : after[i].proxy = p /\ before[i].proxy # p
        used == Range(r.proxies)
    IN  /\ \A p \in used : got(p) =>
              /\ r.limit # 0 => Through(after, p) <= r.limit
              /\ \A q \in used : Through(after, p) <= Through(after, q) + 1
        /\ \A i \in DOMAIN after :
              ~Selected(r, i) \/ (~r.overwrite /\ before[i].proxy # Unset)
              => after[i].proxy = before[i].proxy

\* An assignment spreads the credentials over the pool and keeps to the limit. Not so
\* when it replaces bindings: if it names no credentials, the code counts the bindings
\* it is about to remove; and one that finds no room keeps its old one, uncounted.
AssignFair ==
    [][\A w \in Workers :
         Assign(w) /\ (task[w].overwrite => ~task[w].all /\ task[w].limit = 0)
            => Spread(task[w], entries, entries')]_vars

\* A credential's cached balance is its own, and it is not credited with calls another
\* has answered, although ids are used again; unless the deletion of the id's last
\* owner has failed half way, or overlapped with a request for it.
OwnRecords ==
    up => \A i \in DOMAIN entries \ (tangled \cup Deleting) :
        /\ i \in DOMAIN balances => balances[i].account = entries[i].account
        /\ entries[i].count <= served[entries[i].account]

\* When nothing is marked and nobody is saving, the file has the latest counts, so that
\* a kill loses nothing; unless saves and calls have overlapped.
StatsCaughtUp ==
    (up /\ ~dirty /\ ~missed /\ ~\E w \in Workers : task[w].at \in {"mark", "snap", "store", "clear"})
        => \A i \in DOMAIN entries \ (tangled \cup Deleting) :
               LET saved == Loaded(stats, << >>)
               IN  entries[i].count = IF i \in DOMAIN saved THEN saved[i] ELSE 0
=============================================================================
