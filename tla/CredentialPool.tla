--------------------------- MODULE CredentialPool ---------------------------
(***************************************************************************)
(* The credential pool of kiro2api: MultiTokenManager (selection, permits, *)
(* token refresh, failure reports, the admin operations on an entry)       *)
(* driven by the retry loop of KiroProvider.  A Call is one invocation of  *)
(* call_api_with_retry or call_mcp_with_retry.                             *)
(* A name with a suffix (ReleasePermit_Leak) is the same operation with one *)
(* mistake in it; it is used only to see that a property notices it.       *)
(*                                                                         *)
(* A step ends where the code releases a mutex or awaits, so every         *)
(* interleaving of two calls, or of a call and an admin request, is a      *)
(* behaviour.  Entries are neither added nor deleted here (see             *)
(* TokenLifecycle for that).  The order of the entry vector only breaks    *)
(* ties between equal priorities; a tie is an arbitrary choice here.       *)
(***************************************************************************)
EXTENDS Naturals, FiniteSets, Sequences

CONSTANTS
    Calls,             \* upstream calls; each is made once
    OpusCalls,         \* those whose model id contains "opus"
    Creds,             \* credential ids
    OpusCreds,         \* credentials whose subscription title is not a FREE one
    Cap,               \* MAX_CONCURRENT_REQUESTS_PER_CREDENTIAL
    RetriesPerCred,    \* MAX_RETRIES_PER_CREDENTIAL
    MaxTotalRetries,   \* MAX_TOTAL_RETRIES
    MaxFailures,       \* MAX_FAILURES_PER_CREDENTIAL
    Priorities,        \* priorities the admin may set
    InitPriorities,    \* the priority assignments a run starts from
    InitDisabled,      \* the sets of disabled entries a run starts from
    InitTokens,        \* the token states a run starts from
    InitModes,         \* the load-balancing modes a run starts from
    MaxAdminOps,       \* bound: admin requests in a behaviour
    MaxExpiries,       \* bound: tokens that enter their last ten minutes
    NoCall,            \* nobody holds the refresh lock
    NoCred             \* current_id = 0, the id of no entry

Modes == {"priority", "balanced"}

ASSUME CredsAssumption ==
    /\ IsFiniteSet(Creds) /\ Creds # {} /\ NoCred \notin Creds
    /\ OpusCreds \subseteq Creds
ASSUME CallsAssumption ==
    IsFiniteSet(Calls) /\ NoCall \notin Calls /\ OpusCalls \subseteq Calls
ASSUME LimitsAssumption ==
    /\ Cap \in Nat \ {0}
    /\ RetriesPerCred \in Nat \ {0} /\ MaxTotalRetries \in Nat \ {0}
    /\ MaxFailures \in Nat \ {0}
    /\ MaxAdminOps \in Nat /\ MaxExpiries \in Nat
ASSUME InitAssumption ==
    /\ Priorities \subseteq Nat
    /\ InitPriorities \subseteq [Creds -> Nat]
    /\ InitDisabled \subseteq SUBSET Creds
    /\ InitTokens \subseteq [Creds -> {"valid", "stale"}]
    /\ InitModes \subseteq Modes

VARIABLES
    disabled, priority, failures, successes,  \* CredentialEntry
    free,         \* available_permits() of the entry's semaphore
    token,        \* "valid", or "stale": missing, expired or expiring soon
    current,      \* current_id
    mode,         \* load_balancing_mode
    refresher,    \* the call that holds refresh_lock
    pc,           \* where a call is
    cred,         \* the credential the call selected (its CallContext id)
    seen,         \* the token state in the call's copy of the credentials
    attempt,      \* iterations of the provider's retry loop
    tokFails,     \* attempt_count of acquire_context
    forced,       \* force_refreshed
    admin,        \* the admin request in progress
    adminOps, expiries,   \* counters for the two bounds
    sends,        \* history: the credentials a call has sent its request on, in order
    limited       \* history: the credential this call just reported and left, as long
                  \* as no other call has moved current_id since

entryVars == <<disabled, priority, failures, successes, token>>
poolVars  == <<current, mode, refresher>>
callVars  == <<cred, seen, attempt, tokFails, forced>>
envVars   == <<admin, adminOps, expiries>>
history   == <<sends, limited>>
vars == <<entryVars, free, poolVars, pc, callVars, envVars, history>>

-----------------------------------------------------------------------------
(* The pool's own operators.                                               *)

Smaller(m, n) == IF m <= n THEN m ELSE n

\* max_retries of the provider and max_attempts of acquire_context
MaxRetries  == Smaller(Cardinality(Creds) * RetriesPerCred, MaxTotalRetries)
MaxTokFails == Cardinality(Creds) * MaxFailures

Enabled == {c \in Creds : ~disabled[c]}
Others_KeepsSelf(c) == Enabled
Others(c) == Enabled \ {c}
Supports(c, p) == p \in OpusCalls => c \in OpusCreds

\* has_eligible_credential
HasEligible(p) == \E c \in Enabled : Supports(c, p)

\* the entries select_next_credential does not filter out
Candidates(p) == {c \in Enabled : free[c] > 0 /\ Supports(c, p)}

HighestPriority(S) == {c \in S : \A d \in S : priority[c] <= priority[d]}

\* min_by_key on (success_count, priority)
LeastUsed(S) ==
    HighestPriority({c \in S : \A d \in S : successes[c] <= successes[d]})

Preferred(S) == IF mode = "balanced" THEN LeastUsed(S) ELSE HighestPriority(S)

\* current_id moves to the best of S, and stays when S is empty
MoveCurrentTo(S) ==
    \/ S = {} /\ UNCHANGED current
    \/ \E c \in HighestPriority(S) : current' = c

\* leave c for another enabled entry; the report of a disabled entry is ignored
LeaveCred(c) == IF disabled[c] THEN UNCHANGED current ELSE MoveCurrentTo(Others(c))

\* history: S is what p has left; if p moves current_id, the others are no longer held
\* to what they left
Leaves(p, S) ==
    limited' = [q \in Calls |-> IF q = p THEN S
                                ELSE IF current' = current THEN limited[q] ELSE {}]

CountFailure(c) ==
    failures' = IF disabled[c] THEN failures ELSE [failures EXCEPT ![c] = @ + 1]

\* The four reports below, and report_refresh_failure, return Others(c) # {}.
ReportRateLimited(c)        == LeaveCred(c) /\ CountFailure(c)
ReportTransportError(c)     == LeaveCred(c)
ReportQuotaExhausted(c)     == LeaveCred(c)
ReportRefreshTokenInvalid(c) == LeaveCred(c)

\* report_failure: only the third consecutive failure moves current_id;
\* it returns Enabled # {}.
ReportFailure(c) ==
    /\ CountFailure(c)
    /\ IF ~disabled[c] /\ failures[c] + 1 >= MaxFailures
       THEN MoveCurrentTo(Others(c)) ELSE UNCHANGED current

\* report_refresh_failure: moves only when c is the current credential
ReportRefreshFailure_Stays(c) == UNCHANGED current
ReportRefreshFailure(c) ==
    IF current = c THEN LeaveCred(c) ELSE UNCHANGED current

-----------------------------------------------------------------------------
(* The calls.                                                              *)

Step(p, from, to) == pc[p] = from /\ pc' = [pc EXCEPT ![p] = to]

\* another iteration of `for attempt in 0..max_retries`
MoreAttempts_OffByOne(p) == attempt[p] < MaxRetries
MoreAttempts(p) == attempt[p] + 1 < MaxRetries

\* `continue` of the provider's loop: the CallContext is dropped, and the loop
\* ends when max_retries iterations are over
NextAttempt(p) ==
    /\ attempt' = [attempt EXCEPT ![p] = @ + 1]
    /\ tokFails' = [tokFails EXCEPT ![p] = 0]
    /\ pc' = [pc EXCEPT ![p] = IF MoreAttempts(p) THEN "loop" ELSE "failed"]

\* `break`, `bail!`, or one more attempt when another credential remains
NextAttemptIf(p, more) ==
    \/ more /\ NextAttempt(p)
    \/ ~more /\ pc' = [pc EXCEPT ![p] = "failed"] /\ UNCHANGED <<attempt, tokFails>>

\* Drop of the OwnedSemaphorePermit
ReleasePermit_Twice(p) == free' = [free EXCEPT ![cred[p]] = @ + 2]
ReleasePermit_Leak(p) == UNCHANGED free
ReleasePermit(p) == free' = [free EXCEPT ![cred[p]] = @ + 1]

Start(p) ==
    /\ Step(p, "idle", "loop")
    /\ UNCHANGED <<entryVars, free, poolVars, callVars, envVars, history>>

\* acquire_context gives up after max_attempts credentials without a token
GiveUp(p) ==
    /\ pc[p] = "loop" /\ tokFails[p] >= MaxTokFails
    /\ NextAttempt(p)
    /\ UNCHANGED <<entryVars, free, poolVars, cred, seen, forced, envVars, history>>

ReadMode(p) ==
    /\ tokFails[p] < MaxTokFails
    /\ Step(p, "loop", IF mode = "balanced" THEN "next" ELSE "hit")
    /\ UNCHANGED <<entryVars, free, poolVars, callVars, envVars, history>>

\* priority mode takes the current entry when it is enabled, whatever its
\* permits and its subscription
CurrentHit(p) ==
    /\ current \in Enabled
    /\ Step(p, "hit", "permit")
    /\ cred' = [cred EXCEPT ![p] = current]
    /\ seen' = [seen EXCEPT ![p] = token[current]]
    /\ UNCHANGED <<entryVars, free, poolVars, attempt, tokFails, forced, envVars, history>>

CurrentMiss(p) ==
    /\ current \notin Enabled
    /\ Step(p, "hit", "next")
    /\ UNCHANGED <<entryVars, free, poolVars, callVars, envVars, history>>

\* select_next_credential
SelectNext(p) ==
    /\ Step(p, "next", "adopt")
    /\ \E c \in Preferred(Candidates(p)) :
          /\ cred' = [cred EXCEPT ![p] = c]
          /\ seen' = [seen EXCEPT ![p] = token[c]]
    /\ UNCHANGED <<entryVars, free, poolVars, attempt, tokFails, forced, envVars, history>>

SelectNone(p) ==
    /\ Candidates(p) = {}
    /\ Step(p, "next", "blocked")
    /\ UNCHANGED <<entryVars, free, poolVars, callVars, envVars, history>>

\* current_id is written after the entries lock was released
AdoptCurrent(p) ==
    /\ Step(p, "adopt", "permit")
    /\ current' = cred[p]
    /\ Leaves(p, limited[p])
    /\ UNCHANGED <<entryVars, free, mode, refresher, callVars, envVars, sends>>

\* try_acquire_permit
TakePermit(p) ==
    /\ Step(p, "permit", "token")
    /\ ~disabled[cred[p]] /\ free[cred[p]] > 0
    /\ free' = [free EXCEPT ![cred[p]] = @ - 1]
    /\ UNCHANGED <<entryVars, poolVars, callVars, envVars, history>>

NoPermit(p) ==
    /\ Step(p, "permit", "blocked")
    /\ disabled[cred[p]] \/ free[cred[p]] = 0
    /\ UNCHANGED <<entryVars, free, poolVars, callVars, envVars, history>>

\* has_eligible_credential holds: sleep CONCURRENCY_WAIT_DELAY and poll again;
\* the wait is not counted as an attempt
Poll(p) ==
    /\ Step(p, "blocked", "loop")
    /\ HasEligible(p)
    /\ UNCHANGED <<entryVars, free, poolVars, callVars, envVars, history>>

\* it does not: acquire_context bails, which costs the provider an attempt
Bail(p) ==
    /\ pc[p] = "blocked" /\ ~HasEligible(p)
    /\ NextAttempt(p)
    /\ UNCHANGED <<entryVars, free, poolVars, cred, seen, forced, envVars, history>>

-----------------------------------------------------------------------------
(* try_ensure_token and force_refresh_token_for.                           *)

\* refresh_lock can be taken
LockFree_Always(p) == TRUE
LockFree(p) == refresher = NoCall

\* the entry's token as read under the lock
Reread_Snapshot(p) == seen[p]
Reread(p) == token[cred[p]]

\* the copied credentials hold a token that outlives the next ten minutes
TokenFresh(p) ==
    /\ seen[p] = "valid"
    /\ Step(p, "token", "send")
    /\ UNCHANGED <<entryVars, free, poolVars, callVars, envVars, history>>

\* refresh_lock is granted and the entry read again: another call may have
\* refreshed it meanwhile
TokenRecheck(p) ==
    /\ pc[p] = "token" /\ seen[p] = "stale" /\ LockFree(p)
    /\ \/ /\ Reread(p) = "valid"
          /\ Step(p, "token", "send")
          /\ UNCHANGED refresher
       \/ /\ Reread(p) = "stale"
          /\ Step(p, "token", "refresh")
          /\ refresher' = p
    /\ UNCHANGED <<entryVars, free, current, mode, callVars, envVars, history>>

\* (a new token that lasts between five and ten minutes is also accepted: that
\* is this step followed by Expire)
RefreshDone(p) ==
    /\ Step(p, "refresh", "send")
    /\ token' = [token EXCEPT ![cred[p]] = "valid"]
    /\ refresher' = NoCall
    /\ UNCHANGED <<disabled, priority, failures, successes, free, current, mode,
                   callVars, envVars, history>>

\* the permit and the lock guard are dropped before the failure is reported
RefreshFailed(p) ==
    /\ \E kind \in {"tokfail", "tokinvalid"} : Step(p, "refresh", kind)
    /\ refresher' = NoCall
    /\ ReleasePermit(p)
    /\ UNCHANGED <<entryVars, current, mode, callVars, envVars, history>>

\* the Err arm of acquire_context
ReportTokenFailure(p) ==
    /\ \/ pc[p] = "tokfail" /\ ReportRefreshFailure(cred[p])
       \/ pc[p] = "tokinvalid" /\ ReportRefreshTokenInvalid(cred[p])
    /\ \/ /\ Others(cred[p]) # {}
          /\ pc' = [pc EXCEPT ![p] = "loop"]
          /\ tokFails' = [tokFails EXCEPT ![p] = @ + 1]
          /\ UNCHANGED attempt
       \/ Others(cred[p]) = {} /\ NextAttempt(p)
    /\ Leaves(p, {})
    /\ UNCHANGED <<entryVars, free, mode, refresher, cred, seen, forced, envVars, sends>>

\* the provider's forced refresh keeps the permit while it waits for the lock
ForceLock(p) ==
    /\ LockFree(p)
    /\ Step(p, "force", "forcing")
    /\ refresher' = p
    /\ UNCHANGED <<entryVars, free, current, mode, callVars, envVars, history>>

ForceDone(p) ==
    /\ pc[p] = "forcing"
    /\ token' = [token EXCEPT ![cred[p]] = "valid"]
    /\ refresher' = NoCall
    /\ ReleasePermit(p)
    /\ NextAttempt(p)
    /\ UNCHANGED <<disabled, priority, failures, successes, current, mode,
                   cred, seen, forced, envVars, history>>

\* force_refresh_token_for reports its own failure under the lock
ForceFailed(p) ==
    /\ Step(p, "forcing", "forcefail")
    /\ refresher' = NoCall
    /\ ReportRefreshFailure(cred[p]) \/ ReportRefreshTokenInvalid(cred[p])
    /\ Leaves(p, limited[p])
    /\ UNCHANGED <<entryVars, free, mode, callVars, envVars, sends>>

\* the provider then counts an API failure too
ForceFailedReport(p) ==
    /\ pc[p] = "forcefail"
    /\ ReportFailure(cred[p])
    /\ Leaves(p, limited[p])
    /\ ReleasePermit(p)
    /\ NextAttemptIf(p, Enabled # {})
    /\ UNCHANGED <<disabled, priority, successes, token, mode, refresher,
                   cred, seen, forced, envVars, sends>>

-----------------------------------------------------------------------------
(* One iteration of the provider's loop after acquire_context returned.    *)

\* endpoint_for rejects the credential's endpoint name
UnknownEndpoint(p) ==
    /\ pc[p] = "send"
    /\ ReportFailure(cred[p])
    /\ ReleasePermit(p)
    /\ NextAttempt(p)
    /\ Leaves(p, {})
    /\ UNCHANGED <<disabled, priority, successes, token, mode, refresher,
                   cred, seen, forced, envVars, sends>>

\* client_for fails: the `?` ends the call
NoClient(p) ==
    /\ Step(p, "send", "failed")
    /\ ReleasePermit(p)
    /\ UNCHANGED <<entryVars, poolVars, callVars, envVars, history>>

Send(p) ==
    /\ Step(p, "send", "reply")
    /\ sends' = [sends EXCEPT ![p] = Append(@, cred[p])]
    /\ limited' = [limited EXCEPT ![p] = {}]
    /\ UNCHANGED <<entryVars, free, poolVars, callVars, envVars>>

\* the id report_success is called with
CreditedTo_Current(p) == current
CreditedTo(p) == cred[p]

\* a 2xx status: the context, and its permit, is dropped while the body is
\* still to be read
ReplyOk(p) ==
    /\ Step(p, "reply", "body")
    /\ successes' = [successes EXCEPT ![CreditedTo(p)] = @ + 1]
    /\ failures' = [failures EXCEPT ![CreditedTo(p)] = 0]
    /\ ReleasePermit(p)
    /\ UNCHANGED <<disabled, priority, token, poolVars, callVars, envVars, history>>

BodyEnds(p) ==
    /\ Step(p, "body", "served")
    /\ UNCHANGED <<entryVars, free, poolVars, callVars, envVars, history>>

\* the send failed: back off holding the permit, unless no other entry is
\* enabled or this was the last attempt
ReplyTransportError(p) ==
    /\ pc[p] = "reply"
    /\ ReportTransportError(cred[p])
    /\ Leaves(p, {cred[p]})
    /\ IF Others(cred[p]) # {} /\ MoreAttempts(p)
       THEN Step(p, "reply", "backoff") /\ UNCHANGED <<free, attempt, tokFails>>
       ELSE ReleasePermit(p) /\ NextAttemptIf(p, Others(cred[p]) # {})
    /\ UNCHANGED <<entryVars, mode, refresher, cred, seen, forced, envVars, sends>>

\* 402 with MONTHLY_REQUEST_COUNT
ReplyQuota(p) ==
    /\ pc[p] = "reply"
    /\ ReportQuotaExhausted(cred[p])
    /\ Leaves(p, {cred[p]})
    /\ ReleasePermit(p)
    /\ NextAttemptIf(p, Others(cred[p]) # {})
    /\ UNCHANGED <<entryVars, mode, refresher, cred, seen, forced, envVars, sends>>

\* an explicit throttling signal
ReplyRateLimited(p) ==
    /\ pc[p] = "reply"
    /\ ReportRateLimited(cred[p])
    /\ Leaves(p, {cred[p]})
    /\ ReleasePermit(p)
    /\ NextAttemptIf(p, Others(cred[p]) # {})
    /\ UNCHANGED <<disabled, priority, successes, token, mode, refresher,
                   cred, seen, forced, envVars, sends>>

\* 400 and the other 4xx: the request itself is at fault
ReplyClientError(p) ==
    /\ Step(p, "reply", "failed")
    /\ ReleasePermit(p)
    /\ UNCHANGED <<entryVars, poolVars, callVars, envVars, history>>

\* 401/403 with the invalid-bearer-token message, first time on this credential
ReplyBearerInvalid(p) ==
    /\ cred[p] \notin forced[p]
    /\ Step(p, "reply", "force")
    /\ forced' = [forced EXCEPT ![p] = @ \cup {cred[p]}]
    /\ UNCHANGED <<entryVars, free, poolVars, cred, seen, attempt, tokFails,
                   envVars, history>>

\* any other 401/403, and the invalid-bearer-token message a second time
ReplyDenied(p) ==
    /\ pc[p] = "reply"
    /\ ReportFailure(cred[p])
    /\ Leaves(p, limited[p])
    /\ ReleasePermit(p)
    /\ NextAttemptIf(p, Enabled # {})
    /\ UNCHANGED <<disabled, priority, successes, token, mode, refresher,
                   cred, seen, forced, envVars, sends>>

\* 408, 429, 5xx and anything else: same credential, after a back-off
ReplyTransient(p) ==
    /\ pc[p] = "reply"
    /\ IF MoreAttempts(p)
       THEN Step(p, "reply", "backoff") /\ UNCHANGED <<free, attempt, tokFails>>
       ELSE ReleasePermit(p) /\ NextAttempt(p)
    /\ UNCHANGED <<entryVars, poolVars, cred, seen, forced, envVars, history>>

BackoffOver(p) ==
    /\ pc[p] = "backoff"
    /\ ReleasePermit(p)
    /\ NextAttempt(p)
    /\ UNCHANGED <<entryVars, poolVars, cred, seen, forced, envVars, history>>

Acquire(p) ==
    \/ GiveUp(p) \/ ReadMode(p) \/ CurrentHit(p) \/ CurrentMiss(p)
    \/ SelectNext(p) \/ SelectNone(p) \/ AdoptCurrent(p)
    \/ TakePermit(p) \/ NoPermit(p) \/ Poll(p) \/ Bail(p)

EnsureToken(p) ==
    \/ TokenFresh(p) \/ TokenRecheck(p) \/ RefreshDone(p) \/ RefreshFailed(p)
    \/ ReportTokenFailure(p)
    \/ ForceLock(p) \/ ForceDone(p) \/ ForceFailed(p) \/ ForceFailedReport(p)

Upstream(p) ==
    \/ UnknownEndpoint(p) \/ NoClient(p) \/ Send(p) \/ ReplyOk(p) \/ BodyEnds(p)
    \/ ReplyTransportError(p) \/ ReplyQuota(p) \/ ReplyRateLimited(p)
    \/ ReplyClientError(p) \/ ReplyBearerInvalid(p) \/ ReplyDenied(p)
    \/ ReplyTransient(p) \/ BackoffOver(p)

CallStep(p) == Start(p) \/ Acquire(p) \/ EnsureToken(p) \/ Upstream(p)

-----------------------------------------------------------------------------
(* The admin requests on an entry, one at a time.                          *)

NoRequest == [op |-> "none", id |-> NoCred]

AdminBegin(op, c) ==
    /\ admin = NoRequest /\ adminOps < MaxAdminOps
    /\ admin' = [op |-> op, id |-> c]
    /\ adminOps' = adminOps + 1
    /\ UNCHANGED expiries

\* AdminService::set_disabled(true) takes a snapshot of current_id first ...
DisableSnapshot(c) ==
    /\ AdminBegin(IF current = c THEN "disable_current" ELSE "disable", c)
    /\ UNCHANGED <<entryVars, free, poolVars, pc, callVars, history>>

\* ... then disables the entry; if it cannot be persisted the request ends here ...
DisableEntry ==
    /\ admin.op \in {"disable", "disable_current"}
    /\ disabled' = [disabled EXCEPT ![admin.id] = TRUE]
    /\ \/ admin' = NoRequest
       \/ admin.op = "disable_current" /\ admin' = [admin EXCEPT !.op = "switch"]
    /\ UNCHANGED <<priority, failures, successes, token, free, poolVars, pc, callVars,
                   adminOps, expiries, history>>

\* ... and calls switch_to_next if the snapshot named this entry
SwitchToNext ==
    /\ admin.op = "switch"
    /\ MoveCurrentTo(Others(current))
    /\ admin' = NoRequest
    /\ UNCHANGED <<entryVars, free, mode, refresher, pc, callVars, adminOps, expiries, history>>

\* set_disabled(false) and reset_and_enable
EnableEntry(c) ==
    /\ admin = NoRequest /\ adminOps < MaxAdminOps
    /\ adminOps' = adminOps + 1
    /\ disabled' = [disabled EXCEPT ![c] = FALSE]
    /\ failures' = [failures EXCEPT ![c] = 0]
    /\ UNCHANGED <<priority, successes, token, free, poolVars, pc, callVars,
                   admin, expiries, history>>

\* set_priority writes the priority under one lock ...
SetPriority(c, k) ==
    /\ AdminBegin("reselect", c)
    /\ priority' = [priority EXCEPT ![c] = k]
    /\ UNCHANGED <<disabled, failures, successes, token, free, poolVars, pc, callVars, history>>

\* ... and reselects under another
SelectHighestPriority ==
    /\ admin.op = "reselect"
    /\ MoveCurrentTo(Enabled)
    /\ admin' = NoRequest
    /\ UNCHANGED <<entryVars, free, mode, refresher, pc, callVars, adminOps, expiries, history>>

\* set_load_balancing_mode sets the mode, then writes config.json; a failed
\* write puts the previous mode back
SetMode ==
    /\ AdminBegin("save_mode", NoCred)
    /\ mode' = CHOOSE m \in Modes : m # mode
    /\ UNCHANGED <<entryVars, free, current, refresher, pc, callVars, history>>

SaveMode ==
    /\ admin.op = "save_mode"
    /\ UNCHANGED mode \/ mode' = CHOOSE m \in Modes : m # mode
    /\ admin' = NoRequest
    /\ UNCHANGED <<entryVars, free, current, refresher, pc, callVars, adminOps, expiries, history>>

AdminStep ==
    \/ \E c \in Creds :
          \/ DisableSnapshot(c) \/ EnableEntry(c)
          \/ \E k \in Priorities : SetPriority(c, k)
    \/ DisableEntry \/ SwitchToNext \/ SelectHighestPriority \/ SetMode \/ SaveMode

\* time passes: a token comes within ten minutes of its expiry
Expire(c) ==
    /\ token[c] = "valid" /\ expiries < MaxExpiries
    /\ token' = [token EXCEPT ![c] = "stale"]
    /\ expiries' = expiries + 1
    /\ UNCHANGED <<disabled, priority, failures, successes, free, poolVars, pc, callVars,
                   admin, adminOps, history>>

-----------------------------------------------------------------------------
\* MultiTokenManager::new: current_id is the best enabled entry, or 0
Init ==
    /\ disabled \in {[c \in Creds |-> c \in D] : D \in InitDisabled}
    /\ priority \in InitPriorities
    /\ failures = [c \in Creds |-> 0]
    /\ successes = [c \in Creds |-> 0]
    /\ token \in InitTokens
    /\ free = [c \in Creds |-> Cap]
    /\ current \in IF Enabled = {} THEN {NoCred} ELSE HighestPriority(Enabled)
    /\ mode \in InitModes
    /\ refresher = NoCall
    /\ pc = [p \in Calls |-> "idle"]
    /\ cred = [p \in Calls |-> NoCred]
    /\ seen = [p \in Calls |-> "stale"]
    /\ attempt = [p \in Calls |-> 0]
    /\ tokFails = [p \in Calls |-> 0]
    /\ forced = [p \in Calls |-> {}]
    /\ admin = NoRequest
    /\ adminOps = 0 /\ expiries = 0
    /\ sends = [p \in Calls |-> << >>]
    /\ limited = [p \in Calls |-> {}]

\* every call has ended and the admin request too
AllOver ==
    /\ \A p \in Calls : pc[p] \in {"served", "failed"}
    /\ admin = NoRequest
    /\ UNCHANGED vars

Next ==
    \/ \E p \in Calls : CallStep(p)
    \/ AdminStep
    \/ \E c \in Creds : Expire(c)
    \/ AllOver

Spec == Init /\ [][Next]_vars

\* Every await ends: the scheduler runs each task, the HTTP clients have
\* timeouts, and a task that waits for the refresh lock gets it once it stays
\* free.  Nothing is assumed of the admin.
FairSpec == Spec /\ \A p \in Calls : WF_vars(CallStep(p))

-----------------------------------------------------------------------------
PCs == {"idle", "loop", "hit", "next", "adopt", "permit", "blocked", "token",
        "refresh", "tokfail", "tokinvalid", "send", "reply", "backoff", "force",
        "forcing", "forcefail", "body", "served", "failed"}

AdminOps == {"none", "disable", "disable_current", "switch", "reselect", "save_mode"}

\* where a call owns a permit of cred[p], and where it owns the refresh lock
Holding    == {"token", "refresh", "send", "reply", "backoff", "force", "forcing", "forcefail"}
Refreshing == {"refresh", "forcing"}

Holders(c) == {p \in Calls : pc[p] \in Holding /\ cred[p] = c}

\* The variables range over the values the code gives them; in particular a
\* semaphore never holds more than Cap permits.
TypeOK ==
    /\ disabled \in [Creds -> BOOLEAN]
    /\ priority \in [Creds -> Nat]
    /\ failures \in [Creds -> Nat] /\ successes \in [Creds -> Nat]
    /\ token \in [Creds -> {"valid", "stale"}]
    /\ free \in [Creds -> 0..Cap]
    /\ current \in Creds \cup {NoCred}
    /\ mode \in Modes
    /\ refresher \in Calls \cup {NoCall}
    /\ pc \in [Calls -> PCs]
    /\ cred \in [Calls -> Creds \cup {NoCred}]
    /\ seen \in [Calls -> {"valid", "stale"}]
    /\ attempt \in [Calls -> Nat] /\ tokFails \in [Calls -> Nat]
    /\ forced \in [Calls -> SUBSET Creds]
    /\ admin \in [op : AdminOps, id : Creds \cup {NoCred}]
    /\ adminOps \in Nat /\ expiries \in Nat
    /\ sends \in [Calls -> Seq(Creds)]
    /\ limited \in [Calls -> SUBSET Creds]

\* No path through the retry loop, whatever error it takes, leaks a permit or
\* gives one back twice: those free and those held always add up to the limit.
PermitsConserved == \A c \in Creds : free[c] + Cardinality(Holders(c)) = Cap

\* At most one call at a time has a token refresh, forced or not, on the network
\* (refresh_lock of MultiTokenManager).  The refresh of an addition takes no lock.
RefreshSingleFlight ==
    \A p, q \in Calls : pc[p] \in Refreshing /\ pc[q] \in Refreshing => p = q

\* The second check under the lock works: a call refreshes only a token that is
\* still stale, however long ago it copied the credentials.
RefreshOnlyStale == \A p \in Calls : pc[p] = "refresh" => token[cred[p]] = "stale"

\* A call sends its request at most min(credentials * 3, 9) times in all, counting
\* every path that loops: back-off, failover, forced refresh, waiting.  How often one
\* credential is tried is not bounded by the code.
RetriesBounded == \A p \in Calls : Len(sends[p]) <= MaxRetries

\* success_count of a credential is the number of calls whose last request,
\* the one that was answered, went out on it: concurrent changes of current_id
\* never make a call credit another account.
SuccessesTruthful ==
    \A c \in Creds :
        successes[c] = Cardinality({p \in Calls :
            pc[p] \in {"body", "served"} /\ sends[p][Len(sends[p])] = c})

\* After a call has reported a credential limited, exhausted or unreachable, and
\* another one is enabled, its next request goes out on another credential
\* (a failure of that other one before it could be used ends the obligation, and so
\* does another call whose report moves current_id, maybe back). Said of priority
\* mode, whose current_id the reports move, and as long as no admin request moves it
\* too; balanced mode may select the same one again.
LeavesLimited ==
    [][\A p \in Calls :
         pc[p] = "send" /\ pc'[p] = "reply" /\ mode = "priority" /\ adminOps = 0
         => cred[p] \notin limited[p]]_vars

\* acquire_context gives up for lack of a token only when no credential it could
\* use holds a valid one.
GiveUpOnlyWithoutValid ==
    \A p \in Calls : pc[p] = "loop" /\ tokFails[p] >= MaxTokFails =>
        ~ \E c \in Enabled : Supports(c, p) /\ token[c] = "valid"

\* Every call that was started is answered or fails: no deadlock on the refresh
\* lock, no permit that never comes back, no endless retry.
CallEnds == \A p \in Calls : pc[p] # "idle" ~> pc[p] \in {"served", "failed"}
=============================================================================
