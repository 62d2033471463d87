--------------------------- MODULE TokenLifecycle ---------------------------
(***************************************************************************)
(* The life of the refresh tokens of kiro2api: MultiTokenManager refreshes *)
(* them at an authorization server that may rotate them, the admin edits,  *)
(* adds and deletes the entries that hold them, and every change is        *)
(* written to the credentials file, which is all that survives a restart.  *)
(*                                                                         *)
(* A worker runs one request at a time.  A step ends where the code awaits, *)
(* releases the entries mutex, or touches the file.  CredentialPool has    *)
(* the selection of entries, the permits and the retries.                  *)
(***************************************************************************)
EXTENDS Naturals, Sequences

CONSTANTS
    Workers,        \* tasks that run requests
    Accounts,       \* upstream accounts
    InitAccounts,   \* a sequence: the accounts of the entries 1, 2, ... at start
    NewAccounts,    \* accounts the admin may add
    Ops,            \* the requests a behaviour may contain
    Deletable,      \* the ids the admin may delete
    MaxJobs,        \* bound: requests in a behaviour
    MaxRotations,   \* bound: rotations of one account's refresh token
    MaxFaults,      \* bound: lost replies, failed writes of the file and crashes
    NoWorker, NoAccount

AllOps == {"ensure", "force", "usage", "edit", "disable", "add", "delete"}

ASSUME WorkersAssumption == NoWorker \notin Workers
ASSUME AccountsAssumption ==
    /\ NoAccount \notin Accounts
    /\ InitAccounts \in Seq(Accounts) /\ NewAccounts \subseteq Accounts
    /\ \A i, j \in DOMAIN InitAccounts : InitAccounts[i] = InitAccounts[j] => i = j
    /\ \A i \in DOMAIN InitAccounts : InitAccounts[i] \notin NewAccounts
ASSUME BoundsAssumption ==
    /\ Ops \subseteq AllOps /\ Deletable \subseteq Nat
    /\ MaxJobs \in Nat /\ MaxRotations \in Nat /\ MaxFaults \in Nat

VARIABLES
    entries,   \* the CredentialEntry vector: [id, dis, cred]
    server,    \* the generation of each account's refresh token that is accepted
    lock,      \* the worker that holds refresh_lock
    disk,      \* the credentials file: [ok |-> it parses, list |-> its entries]
    up,        \* "up", "down", or "refused": the start failed
    task,      \* what each worker does: [pc, kind, id, cred, snap]
    jobs, faults,   \* counters for the bounds
    saveFailed,\* history: a write of the file has failed
    given,     \* history: accounts whose latest token is out of the program's hands
    deleted,   \* history: accounts whose entry an admin has deleted
    overlapped \* history: two saves of the file have overlapped

mem    == <<entries, server, lock>>
file   == <<disk, up>>
counts == <<jobs, faults, saveFailed>>
vars   == <<mem, file, task, counts, given, deleted, overlapped>>

-----------------------------------------------------------------------------
\* KiroCredentials: the account, the generation of its refresh token, whether
\* the access token outlives the next ten minutes, the priority the admin set
\* and the subscription title the last usage query brought
Cred(a, g, f) == [acct |-> a, rt |-> g, fresh |-> f, prio |-> 0, title |-> FALSE]
NoCred == Cred(NoAccount, 0, FALSE)

\* A request of kind k at a point pc: the id it is about (an add: the id it has
\* computed), its copy of the KiroCredentials, and the entries it is to write.
Task(pc, k, id, c) == [pc |-> pc, kind |-> k, id |-> id, cred |-> c, snap |-> << >>]
Idle == Task("idle", "none", 0, NoCred)

Ids == {entries[i].id : i \in DOMAIN entries}

\* entries.iter().find(|e| e.id == id)
At(id) == CHOOSE i \in DOMAIN entries :
              entries[i].id = id /\ \A j \in 1..(i - 1) : entries[j].id # id

\* the id of the new entry
NewId_FromZero ==
    IF entries = << >> THEN 0 ELSE (CHOOSE m \in Ids : \A n \in Ids : n <= m) + 1
NewId == IF entries = << >> THEN 1 ELSE (CHOOSE m \in Ids : \A n \in Ids : n <= m) + 1

\* add_credential refuses a refresh token some entry holds
Known(a, g) == \E i \in DOMAIN entries : entries[i].cred.acct = a /\ entries[i].cred.rt = g

\* one of the entries es has the refresh token that a's server accepts now
HasLatest(es, a) ==
    \E i \in DOMAIN es : es[i].cred.acct = a /\ es[i].cred.rt = server[a]

\* the program has it: in an entry or with a worker that has just received it
Holds(w, a) ==
    /\ task[w].pc \in {"store", "number", "push"}
    /\ task[w].cred.acct = a /\ task[w].cred.rt = server[a]
Held(a) == HasLatest(entries, a) \/ \E w \in Workers : Holds(w, a)

Goto(w, to) == task' = [task EXCEPT ![w].pc = to]
End(w)      == task' = [task EXCEPT ![w] = Idle]

Begin(w, op, t) ==
    /\ up = "up" /\ task[w].pc = "idle" /\ op \in Ops /\ jobs < MaxJobs
    /\ jobs' = jobs + 1
    /\ task' = [task EXCEPT ![w] = t]
    /\ UNCHANGED <<faults, saveFailed>>

\* drop of the refresh_lock guard
Unlock(w) == lock' = IF lock = w THEN NoWorker ELSE lock

-----------------------------------------------------------------------------
(* Refreshes: try_ensure_token, force_refresh_token_for, and the first half *)
(* of get_usage_limits_for.                                                *)

\* a request that found no usable access token in its copy of the entry
BeginEnsure(w) ==
    /\ \E id \in Ids :
          /\ ~entries[At(id)].dis /\ ~entries[At(id)].cred.fresh
          /\ Begin(w, "ensure", Task("wait", "ensure", id, entries[At(id)].cred))
    /\ UNCHANGED <<mem, file, given, deleted, overlapped>>

BeginForce(w) ==
    /\ \E id \in Ids : Begin(w, "force", Task("wait", "force", id, NoCred))
    /\ UNCHANGED <<mem, file, given, deleted, overlapped>>

BeginUsage(w) ==
    /\ \E id \in Ids :
          LET c == entries[At(id)].cred IN
          Begin(w, "usage", IF c.fresh THEN Task("fetch", "usage", id, NoCred)
                                       ELSE Task("wait", "usage", id, c))
    /\ UNCHANGED <<mem, file, given, deleted, overlapped>>

LockFree_Always == TRUE
LockFree == lock = NoWorker

\* the credentials that are refreshed: read again under the lock
Reread(w) == entries[At(task[w].id)].cred

\* the entry is gone
LockedNoEntry(w) ==
    /\ task[w].pc = "wait" /\ LockFree /\ task[w].id \notin Ids
    /\ End(w)
    /\ UNCHANGED <<mem, file, counts, given, deleted, overlapped>>

\* another request has refreshed it; a forced refresh does not look
LockedFresh(w) ==
    /\ task[w].pc = "wait" /\ LockFree /\ task[w].id \in Ids
    /\ task[w].kind # "force" /\ Reread(w).fresh
    /\ IF task[w].kind = "usage"
       THEN task' = [task EXCEPT ![w] = Task("fetch", "usage", @.id, NoCred)]
       ELSE End(w)
    /\ UNCHANGED <<mem, file, counts, given, deleted, overlapped>>

LockedStale(w) ==
    /\ task[w].pc = "wait" /\ LockFree /\ task[w].id \in Ids
    /\ task[w].kind = "force" \/ ~Reread(w).fresh
    /\ lock' = w
    /\ task' = [task EXCEPT ![w].pc = "ask", ![w].cred = Reread(w)]
    /\ UNCHANGED <<entries, server, file, counts, given, deleted, overlapped>>

\* the authorization server accepts an account's latest refresh token and may
\* replace it
Accepts(c) == c.rt = server[c.acct]
Rotates(a) == server[a] < MaxRotations /\ server' = [server EXCEPT ![a] = @ + 1]

\* The new credentials are the old ones with the tokens of the reply.  The new
\* access token need not be fresh: the lifetime in the reply may be short, and
\* without one the old expiry stays (bound: while requests may begin, as in Expire).
Renewed_KeepsToken(c, f) == [c EXCEPT !.fresh = f]
Renewed(c, f) == [c EXCEPT !.fresh = f, !.rt = server'[c.acct]]

Refreshed(w) ==
    /\ task[w].pc = "ask" /\ Accepts(task[w].cred)
    /\ Rotates(task[w].cred.acct) \/ UNCHANGED server
    /\ \E f \in BOOLEAN :
          /\ f \/ jobs < MaxJobs
          /\ task' = [task EXCEPT ![w].cred = Renewed(@, f),
                                  ![w].pc = IF task[w].kind = "add" THEN "number" ELSE "store"]
    /\ UNCHANGED <<entries, lock, file, counts, given, deleted, overlapped>>

\* try_ensure_token alone looks at the reply before it stores it: when the access
\* token in it is over, or within five minutes of it, the whole reply is dropped,
\* with the refresh token the server may have rotated
ReplyRefused(w) ==
    /\ task[w].pc = "ask" /\ task[w].kind = "ensure" /\ Accepts(task[w].cred)
    /\ \/ UNCHANGED <<server, given>>
       \/ /\ Rotates(task[w].cred.acct)
          /\ given' = given \cup {task[w].cred.acct}
    /\ End(w) /\ Unlock(w)
    /\ UNCHANGED <<entries, file, counts, deleted, overlapped>>

\* invalid_grant, or an error before the server saw the request
RefreshFailed(w) ==
    /\ task[w].pc = "ask"
    /\ Unlock(w)
    /\ End(w)
    /\ UNCHANGED <<entries, server, file, counts, given, deleted, overlapped>>

\* the reply is lost after the server rotated the token: an error, or (through a
\* proxy) one more direct attempt with the same token
ReplyLost(w) ==
    /\ task[w].pc = "ask" /\ Accepts(task[w].cred) /\ faults < MaxFaults
    /\ Rotates(task[w].cred.acct)
    /\ faults' = faults + 1
    /\ given' = given \cup {task[w].cred.acct}
    /\ \/ End(w) /\ Unlock(w)
       \/ UNCHANGED <<task, lock>>
    /\ UNCHANGED <<entries, file, jobs, saveFailed, deleted, overlapped>>

\* entry.credentials = new_creds, for the first entry with the id, if any.  It is
\* the entry of another account when the id was deleted and used again meanwhile:
\* the token of that account is gone then.
Store(w) ==
    \/ /\ task[w].id \notin Ids
       /\ UNCHANGED <<entries, given>>
    \/ /\ task[w].id \in Ids
       /\ entries' = [entries EXCEPT ![At(task[w].id)].cred = task[w].cred]
       /\ given' = given \cup ({Reread(w).acct} \ {task[w].cred.acct})

StoreRefreshed_Unsaved(w) ==
    /\ task[w].pc = "store"
    /\ Store(w) /\ Unlock(w) /\ End(w)
    /\ UNCHANGED <<server, file, counts, deleted, overlapped>>
StoreRefreshed(w) ==
    /\ task[w].pc = "store"
    /\ Store(w)
    /\ task' = [task EXCEPT ![w].pc = "save", ![w].cred = NoCred]
    /\ UNCHANGED <<server, lock, file, counts, deleted, overlapped>>

-----------------------------------------------------------------------------
(* persist_credentials: a snapshot under the entries mutex, then fs::write, *)
(* which truncates the file and writes it.                                 *)

Saving == {w \in Workers : task[w].pc \in {"truncate", "write"}}

\* a usage query that has refreshed the token goes on to ask for the limits
Saved(w) ==
    /\ IF task[w].kind = "usage" /\ lock = w
       THEN task' = [task EXCEPT ![w] = Task("fetch", "usage", @.id, NoCred)]
       ELSE End(w)
    /\ Unlock(w)

Snapshot(w) ==
    /\ task[w].pc = "save"
    /\ task' = [task EXCEPT ![w].pc = "truncate", ![w].snap = entries]
    /\ overlapped' = (overlapped \/ Saving # {})
    /\ UNCHANGED <<mem, file, counts, given, deleted>>

SaveFailed(w) ==
    /\ task[w].pc = "truncate" /\ faults < MaxFaults
    /\ faults' = faults + 1 /\ saveFailed' = TRUE
    /\ Saved(w)
    /\ UNCHANGED <<entries, server, file, jobs, given, deleted, overlapped>>

Truncate(w) ==
    /\ task[w].pc = "truncate"
    /\ disk' = [ok |-> TRUE, list |-> << >>]
    /\ Goto(w, "write")
    /\ UNCHANGED <<mem, up, counts, given, deleted, overlapped>>

\* over what another writer put there since, the tail of a longer text remains
Write(w) ==
    /\ task[w].pc = "write"
    /\ \/ disk' = [ok |-> TRUE, list |-> task[w].snap]
       \/ /\ disk.list # << >> /\ disk.list # task[w].snap
          /\ disk' = [ok |-> FALSE, list |-> << >>]
    /\ Saved(w)
    /\ UNCHANGED <<entries, server, up, counts, given, deleted, overlapped>>

-----------------------------------------------------------------------------
(* The admin requests.                                                     *)

\* get_usage_limits_for, second half: the title is written in place, and the
\* file only when it changed
UsageReply(w) ==
    /\ task[w].pc = "fetch"
    /\ \/ /\ task[w].id \in Ids /\ ~entries[At(task[w].id)].cred.title
          /\ entries' = [entries EXCEPT ![At(task[w].id)].cred.title = TRUE]
          /\ Goto(w, "save")
       \/ End(w) /\ UNCHANGED entries
    /\ UNCHANGED <<server, lock, file, counts, given, deleted, overlapped>>

\* set_priority; set_proxy changes its fields in the same way
Edit(w) ==
    /\ \E id \in Ids :
          /\ Begin(w, "edit", Task("save", "edit", 0, NoCred))
          /\ entries' = [entries EXCEPT ![At(id)].cred.prio = 1]
    /\ UNCHANGED <<server, lock, file, given, deleted, overlapped>>

SetDisabled(w) ==
    /\ \E id \in Ids, b \in BOOLEAN :
          /\ Begin(w, "disable", Task("save", "disable", 0, NoCred))
          /\ entries' = [entries EXCEPT ![At(id)].dis = b]
    /\ UNCHANGED <<server, lock, file, given, deleted, overlapped>>

\* what is left of s: the elements at the indices in T, in their order
Kept(s, T) ==
    LET upTo[n \in 0..Len(s)] ==
            IF n = 0 THEN << >>
            ELSE IF n \in T THEN Append(upTo[n - 1], s[n]) ELSE upTo[n - 1]
    IN upTo[Len(s)]

\* delete_credential: only if the first entry with the id is disabled
Delete(w) ==
    /\ \E id \in Ids \cap Deletable :
          /\ entries[At(id)].dis
          /\ Begin(w, "delete", Task("save", "delete", 0, NoCred))
          /\ entries' = Kept(entries, {i \in DOMAIN entries : entries[i].id # id})
          /\ LET gone == {entries[i].cred.acct :
                             i \in {j \in DOMAIN entries : entries[j].id = id}}
             IN  given' = given \cup gone /\ deleted' = deleted \cup gone
    /\ UNCHANGED <<server, lock, file, overlapped>>

\* add_credential: the duplicate check, then a refresh without refresh_lock ...
BeginAdd(w) ==
    /\ \E a \in NewAccounts :
          ~Known(a, 0) /\ Begin(w, "add", Task("ask", "add", 0, Cred(a, 0, FALSE)))
    /\ UNCHANGED <<mem, file, given, deleted, overlapped>>

\* ... then the new id under one lock, and the entry under another
ChooseId(w) ==
    /\ task[w].pc = "number"
    /\ task' = [task EXCEPT ![w].id = NewId, ![w].pc = "push"]
    /\ UNCHANGED <<mem, file, counts, given, deleted, overlapped>>

PushEntry(w) ==
    /\ task[w].pc = "push"
    /\ entries' = Append(entries, [id |-> task[w].id, dis |-> FALSE, cred |-> task[w].cred])
    /\ task' = [task EXCEPT ![w] = Task("save", "add", 0, NoCred)]
    /\ UNCHANGED <<server, lock, file, counts, given, deleted, overlapped>>

-----------------------------------------------------------------------------
(* Time, crashes and restarts.                                             *)

\* an access token comes within ten minutes of its expiry
Expire ==
    /\ up = "up" /\ jobs < MaxJobs
    /\ \E i \in DOMAIN entries : /\ entries[i].cred.fresh
                                 /\ entries' = [entries EXCEPT ![i].cred.fresh = FALSE]
    /\ UNCHANGED <<server, lock, file, task, counts, given, deleted, overlapped>>

\* the file need not have a's latest token yet: no entry has it so far, a save is
\* still to be done, or one has failed or overlapped with another
Unsaved(a) ==
    \/ ~HasLatest(entries, a)
    \/ saveFailed \/ overlapped
    \/ \E w \in Workers : task[w].pc \in {"save", "truncate", "write"}

\* the process is killed: only the file is left
Crash ==
    /\ up = "up" /\ faults < MaxFaults
    /\ faults' = faults + 1
    /\ up' = "down"
    /\ entries' = << >> /\ lock' = NoWorker
    /\ task' = [w \in Workers |-> Idle]
    /\ given' = given \cup {a \in Accounts : Held(a) /\ ~HasLatest(disk.list, a)
                                             /\ Unsaved(a)}
    /\ UNCHANGED <<server, disk, jobs, saveFailed, deleted, overlapped>>

DistinctIds(s) == \A i, j \in DOMAIN s : s[i].id = s[j].id => i = j

\* into_sorted_credentials: by priority, stable
Sorted(s) == Kept(s, {i \in DOMAIN s : s[i].cred.prio = 0})
                 \o Kept(s, {i \in DOMAIN s : s[i].cred.prio = 1})

\* main loads the file; MultiTokenManager::new refuses duplicate ids
Boot ==
    /\ up = "down"
    /\ \/ /\ disk.ok /\ DistinctIds(disk.list)
          /\ up' = "up" /\ entries' = Sorted(disk.list)
       \/ /\ ~(disk.ok /\ DistinctIds(disk.list))
          /\ up' = "refused" /\ UNCHANGED entries
    /\ UNCHANGED <<server, lock, disk, task, counts, given, deleted, overlapped>>

Refresh(w) ==
    \/ BeginEnsure(w) \/ BeginForce(w) \/ BeginUsage(w)
    \/ LockedNoEntry(w) \/ LockedFresh(w) \/ LockedStale(w)
    \/ Refreshed(w) \/ ReplyRefused(w) \/ RefreshFailed(w) \/ ReplyLost(w)
    \/ StoreRefreshed(w)

Persist(w) == Snapshot(w) \/ SaveFailed(w) \/ Truncate(w) \/ Write(w)

Admin(w) ==
    \/ UsageReply(w) \/ Edit(w) \/ SetDisabled(w) \/ Delete(w)
    \/ BeginAdd(w) \/ ChooseId(w) \/ PushEntry(w)

Work(w) == Refresh(w) \/ Persist(w) \/ Admin(w)

Init ==
    /\ entries = [i \in DOMAIN InitAccounts |->
                     [id |-> i, dis |-> FALSE, cred |-> Cred(InitAccounts[i], 0, FALSE)]]
    /\ server = [a \in Accounts |-> 0]
    /\ lock = NoWorker
    /\ disk = [ok |-> TRUE, list |-> entries]
    /\ up = "up"
    /\ task = [w \in Workers |-> Idle]
    /\ jobs = 0 /\ faults = 0 /\ saveFailed = FALSE
    /\ given = {} /\ deleted = {} /\ overlapped = FALSE

\* no request is left to make
AllOver ==
    /\ up = "refused" \/ \A w \in Workers : task[w].pc = "idle"
    /\ UNCHANGED vars

Next == (\E w \in Workers : Work(w)) \/ Expire \/ Crash \/ Boot \/ AllOver

Spec == Init /\ [][Next]_vars

-----------------------------------------------------------------------------
PCs == {"idle", "wait", "ask", "store", "save", "truncate", "write", "fetch", "number", "push"}

Creds == [acct : Accounts \cup {NoAccount}, rt : 0..MaxRotations, fresh : BOOLEAN,
          prio : 0..1, title : BOOLEAN]
Entry == [id : Nat \ {0}, dis : BOOLEAN, cred : Creds]

\* The variables range over the values the code gives them; in particular no
\* entry gets id 0, which current_id uses for "none".
TypeOK ==
    /\ entries \in Seq(Entry)
    /\ server \in [Accounts -> 0..MaxRotations]
    /\ lock \in Workers \cup {NoWorker}
    /\ disk.ok \in BOOLEAN /\ disk.list \in Seq(Entry)
    /\ up \in {"up", "down", "refused"}
    /\ \A w \in Workers :
          /\ task[w].pc \in PCs /\ task[w].kind \in AllOps \cup {"none"}
          /\ task[w].id \in Nat /\ task[w].cred \in Creds
          /\ task[w].snap \in Seq(Entry)
    /\ jobs \in 0..MaxJobs /\ faults \in 0..MaxFaults /\ saveFailed \in BOOLEAN
    /\ given \subseteq Accounts /\ deleted \subseteq given /\ overlapped \in BOOLEAN

\* two of a's credentials: entries, or additions that are under way
Adding(a) == {w \in Workers : task[w].kind = "add" /\ task[w].pc \in {"ask", "number", "push"}
                              /\ task[w].cred.acct = a}
Entered(a) == {i \in DOMAIN entries : entries[i].cred.acct = a}
Shared(a) ==
    \/ \E i, j \in Entered(a) : i # j
    \/ \E v, w \in Adding(a) : v # w
    \/ Entered(a) # {} /\ Adding(a) # {}

\* As long as the program has the refresh token that an account's server accepts
\* now (in an entry, or with a request that is about to store it), a refresh of
\* that account presents this token and not one that an earlier refresh has
\* replaced, however the requests for one entry interleave (the double check of
\* try_ensure_token, the re-read of force_refresh_token_for).  It does not speak of
\* an account that was added twice at once, past the duplicate check, while both
\* are there, nor of one whose entry an admin has deleted: its refresh may still be
\* under way when the account is added again.
PresentsLatest ==
    \A w \in Workers :
        LET a == task[w].cred.acct IN
        task[w].pc = "ask" /\ Held(a) /\ a \notin deleted /\ ~Shared(a)
            => Accepts(task[w].cred)

\* The refresh token an account can still be renewed with is in the program's
\* hands as long as the account has an entry, except when one of these has taken
\* it away: a lost reply; a reply that try_ensure_token refuses, because the access
\* token in it is already over; a deletion of the account's entry; a refresh that
\* ends when the id of its entry belongs to another account; or a crash while no
\* entry has the token yet, while a save is to be done, or after a save failed or
\* overlapped with another.
TokenNeverLost ==
    \A i \in DOMAIN entries : entries[i].cred.acct \notin given => Held(entries[i].cred.acct)

\* When no request is saving or about to save, the file has what the memory has,
\* unless a save failed or two saves overlapped.
DiskCatchesUp ==
    /\ up = "up" /\ ~saveFailed /\ ~overlapped
    /\ \A w \in Workers : task[w].pc \notin {"save", "truncate", "write"}
    => \A i \in DOMAIN entries :
          \E j \in DOMAIN disk.list :
              /\ disk.list[j].id = entries[i].id /\ disk.list[j].dis = entries[i].dis
              /\ disk.list[j].cred.acct = entries[i].cred.acct
              /\ disk.list[j].cred.rt = entries[i].cred.rt
              /\ disk.list[j].cred.prio = entries[i].cred.prio

\* Ids name one entry each, after any deletion, addition and restart.
UniqueIds == DistinctIds(entries)

\* A priority the admin has set stays until the admin changes it.
EditsStick ==
    [][\A i \in DOMAIN entries, j \in DOMAIN entries' :
          entries[i].id = entries'[j].id => entries[i].cred.prio <= entries'[j].cred.prio]_vars
=============================================================================
