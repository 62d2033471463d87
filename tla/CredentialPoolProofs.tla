------------------------ MODULE CredentialPoolProofs ------------------------
(* Proofs about CredentialPool, for any calls, credentials and limits.     *)
EXTENDS CredentialPool, FiniteSetTheorems, TLAPS

\* Where a call has a credential of its own.
Chosen == Holding \cup {"adopt", "permit", "tokfail", "tokinvalid"}

\* TypeOK without the upper bound on free, which needs PermitsConserved.
Typed ==
    /\ disabled \in [Creds -> BOOLEAN]
    /\ priority \in [Creds -> Nat]
    /\ failures \in [Creds -> Nat] /\ successes \in [Creds -> Nat]
    /\ token \in [Creds -> {"valid", "stale"}]
    /\ free \in [Creds -> Nat]
    /\ current \in Creds \cup {NoCred}
    /\ mode \in Modes
    /\ refresher \in Calls \cup {NoCall}
    /\ pc \in [Calls -> PCs]
    /\ cred \in [Calls -> Creds \cup {NoCred}]
    /\ seen \in [Calls -> {"valid", "stale"}]
    /\ attempt \in [Calls -> Nat] /\ tokFails \in [Calls -> Nat]
    /\ forced \in [Calls -> SUBSET Creds]
    /\ admin \in [op : AdminOps, id : Creds \cup {NoCred}]
    /\ adminOps \in Nat /\ expiries \in Nat
    /\ sends \in [Calls -> Seq(Creds)]
    /\ limited \in [Calls -> SUBSET Creds]
    /\ \A p \in Calls : pc[p] \in Chosen => cred[p] \in Creds
    /\ admin.op \in {"disable", "disable_current"} => admin.id \in Creds

LEMMA InitTyped == Init => Typed
  <1> SUFFICES ASSUME Init PROVE Typed
    OBVIOUS
  <1> USE CredsAssumption, LimitsAssumption, InitAssumption
  <1>1. disabled \in [Creds -> BOOLEAN]
    <2>1. PICK D \in InitDisabled : disabled = [c \in Creds |-> c \in D]
      BY DEF Init
    <2>2. \A c \in Creds : (c \in D) \in BOOLEAN
      OBVIOUS
    <2>3. QED
      BY <2>1, <2>2
  <1>0. priority \in [Creds -> Nat] /\ failures \in [Creds -> Nat] /\ successes \in [Creds -> Nat]
    BY DEF Init
  <1>2. token \in [Creds -> {"valid", "stale"}] /\ free \in [Creds -> Nat]
    BY DEF Init
  <1>3. current \in Creds \cup {NoCred} /\ mode \in Modes
    BY DEF Init, Enabled, HighestPriority
  <1>4. refresher \in Calls \cup {NoCall} /\ pc \in [Calls -> PCs]
    BY DEF Init, PCs
  <1>5. /\ cred \in [Calls -> Creds \cup {NoCred}]
        /\ seen \in [Calls -> {"valid", "stale"}]
        /\ attempt \in [Calls -> Nat] /\ tokFails \in [Calls -> Nat]
        /\ forced \in [Calls -> SUBSET Creds]
        /\ sends \in [Calls -> Seq(Creds)] /\ limited \in [Calls -> SUBSET Creds]
    BY DEF Init
  <1>6. admin \in [op : AdminOps, id : Creds \cup {NoCred}] /\ adminOps \in Nat /\ expiries \in Nat
    BY DEF Init, NoRequest, AdminOps
  <1>7. /\ \A p \in Calls : pc[p] \in Chosen => cred[p] \in Creds
        /\ admin.op \in {"disable", "disable_current"} => admin.id \in Creds
    BY DEF Init, Chosen, Holding, NoRequest
  <1>8. QED
    BY <1>0, <1>1, <1>2, <1>3, <1>4, <1>5, <1>6, <1>7 DEF Typed

\* current_id only ever moves to an existing entry.
LEMMA MoveCurrentTyped ==
  ASSUME Typed, NEW S \in SUBSET Creds, MoveCurrentTo(S)
  PROVE  current' \in Creds \cup {NoCred}
  BY DEF MoveCurrentTo, HighestPriority, Typed

LEMMA LeaveCredTyped ==
  ASSUME Typed, NEW c, LeaveCred(c) \/ ReportFailure(c) \/ ReportRefreshFailure(c)
  PROVE  current' \in Creds \cup {NoCred}
  <1>1. Others(c) \in SUBSET Creds
    BY DEF Others, Enabled
  <1>2. QED
    BY <1>1, MoveCurrentTyped DEF LeaveCred, ReportFailure, ReportRefreshFailure, Typed

LEMMA FailuresTyped ==
  ASSUME Typed, NEW c \in Creds, CountFailure(c)
  PROVE  failures' \in [Creds -> Nat]
  <1>1. failures \in [Creds -> Nat]
    BY DEF Typed
  <1>2. QED
    BY <1>1 DEF CountFailure

LEMMA BumpTyped ==
  ASSUME NEW S, NEW f \in [S -> Nat], NEW c \in S
  PROVE  [f EXCEPT ![c] = @ + 1] \in [S -> Nat] /\ [f EXCEPT ![c] = 0] \in [S -> Nat]
  OBVIOUS

LEMMA AppendTyped ==
  ASSUME NEW S, NEW T, NEW f \in [S -> Seq(T)], NEW p \in S, NEW x \in T
  PROVE  [f EXCEPT ![p] = Append(@, x)] \in [S -> Seq(T)]
  OBVIOUS

LEMMA NextAttemptTyped ==
  ASSUME Typed, NEW p \in Calls, NEW more, NextAttempt(p) \/ NextAttemptIf(p, more)
  PROVE  /\ pc' \in [Calls -> PCs]
         /\ attempt' \in [Calls -> Nat] /\ tokFails' \in [Calls -> Nat]
         /\ \A q \in Calls : pc'[q] \in Chosen => pc[q] \in Chosen
  <1>1. PICK x \in {"loop", "failed"} : pc' = [pc EXCEPT ![p] = x]
    BY DEF NextAttempt, NextAttemptIf
  <1>2. pc' \in [Calls -> PCs] /\ \A q \in Calls : pc'[q] \in Chosen => pc[q] \in Chosen
    BY <1>1 DEF Typed, PCs, Chosen, Holding
  <1>3. attempt \in [Calls -> Nat] /\ tokFails \in [Calls -> Nat]
    BY DEF Typed
  <1>4. attempt' \in [Calls -> Nat] /\ tokFails' \in [Calls -> Nat]
    <2>1. CASE NextAttempt(p)
      BY <1>3, <2>1 DEF NextAttempt
    <2>2. CASE NextAttemptIf(p, more)
      BY <1>3, <2>2 DEF NextAttempt, NextAttemptIf
    <2>3. QED
      BY <2>1, <2>2
  <1>5. QED
    BY <1>2, <1>4

LEMMA ReleaseTyped ==
  ASSUME Typed, NEW p \in Calls, pc[p] \in Holding, ReleasePermit(p)
  PROVE  free' \in [Creds -> Nat]
  <1>1. cred[p] \in Creds /\ free \in [Creds -> Nat]
    BY DEF Typed, Chosen
  <1>2. QED
    BY <1>1 DEF ReleasePermit

LEMMA StepPcTyped ==
  ASSUME Typed, NEW p \in Calls, NEW from, NEW to \in PCs, Step(p, from, to),
         to \in Chosen => from \in Chosen
  PROVE  /\ pc' \in [Calls -> PCs]
         /\ \A q \in Calls : pc'[q] \in Chosen => pc[q] \in Chosen
  BY DEF Step, Typed

\* What a call has left stays a set of entries.
LEMMA LeavesTyped ==
  ASSUME Typed, NEW p \in Calls, NEW S \in SUBSET Creds, Leaves(p, S) \/ Leaves(p, limited[p])
  PROVE  limited' \in [Calls -> SUBSET Creds]
  <1>1. limited \in [Calls -> SUBSET Creds]
    BY DEF Typed
  <1>2. QED
    BY <1>1 DEF Leaves

LEMMA AcquireTyped ==
  ASSUME Typed, NEW p \in Calls, Start(p) \/ Acquire(p)
  PROVE  Typed'
  <1> USE DEF entryVars, poolVars, callVars, envVars, history
  <1>0. ASSUME UNCHANGED <<entryVars, envVars, sends, mode, refresher, forced>>,
               limited' \in [Calls -> SUBSET Creds],
               current' \in Creds \cup {NoCred}, free' \in [Creds -> Nat],
               seen' \in [Calls -> {"valid", "stale"}],
               pc' \in [Calls -> PCs], cred' \in [Calls -> Creds \cup {NoCred}],
               attempt' \in [Calls -> Nat], tokFails' \in [Calls -> Nat],
               \A q \in Calls : pc'[q] \in Chosen => cred'[q] \in Creds
        PROVE  Typed'
    BY <1>0 DEF Typed
  <1> DEFINE Rest == UNCHANGED <<entryVars, envVars, history, mode, refresher, forced>>
  <1>a. ASSUME Rest, UNCHANGED <<current, cred, seen>>, free' \in [Creds -> Nat],
               attempt' \in [Calls -> Nat], tokFails' \in [Calls -> Nat],
               pc' \in [Calls -> PCs],
               \A q \in Calls : pc'[q] \in Chosen => pc[q] \in Chosen
        PROVE  Typed'
    BY <1>0, <1>a DEF Typed
  <1>b. ASSUME NEW to \in PCs \ Chosen, Step(p, pc[p], to), Rest,
               UNCHANGED <<current, cred, seen, free, attempt, tokFails>>
        PROVE  Typed'
    <2>1. pc' \in [Calls -> PCs] /\ \A q \in Calls : pc'[q] \in Chosen => pc[q] \in Chosen
      BY <1>b, StepPcTyped
    <2>2. attempt' \in [Calls -> Nat] /\ tokFails' \in [Calls -> Nat] /\ free' \in [Creds -> Nat]
      BY <1>b DEF Typed
    <2>3. QED
      BY <1>a, <1>b, <2>1, <2>2
  <1>c. ASSUME NEW to \in PCs, Step(p, pc[p], to), Rest, NEW c \in Creds, NEW t \in {"valid", "stale"},
               cred' = [cred EXCEPT ![p] = c], seen' = [seen EXCEPT ![p] = t],
               UNCHANGED <<current, free, attempt, tokFails>>
        PROVE  Typed'
    <2>1. /\ cred \in [Calls -> Creds \cup {NoCred}] /\ seen \in [Calls -> {"valid", "stale"}]
          /\ pc \in [Calls -> PCs] /\ \A q \in Calls : pc[q] \in Chosen => cred[q] \in Creds
      BY DEF Typed
    <2>2. /\ cred' \in [Calls -> Creds \cup {NoCred}] /\ seen' \in [Calls -> {"valid", "stale"}]
          /\ pc' \in [Calls -> PCs] /\ \A q \in Calls : pc'[q] \in Chosen => cred'[q] \in Creds
      BY <1>c, <2>1 DEF Step
    <2>3. /\ attempt' \in [Calls -> Nat] /\ tokFails' \in [Calls -> Nat] /\ free' \in [Creds -> Nat]
          /\ current' \in Creds \cup {NoCred} /\ limited' \in [Calls -> SUBSET Creds]
      BY <1>c DEF Typed
    <2>4. QED
      BY <1>0, <1>c, <2>2, <2>3
  <1>1. CASE Start(p)
    BY <1>1, <1>b DEF Start, Step, PCs, Chosen, Holding
  <1>2. CASE GiveUp(p)
    BY <1>2, <1>a, NextAttemptTyped DEF GiveUp, Typed
  <1>3. CASE ReadMode(p)
    BY <1>3, <1>b DEF ReadMode, Step, PCs, Chosen, Holding
  <1>4. CASE CurrentHit(p)
    <2>1. current \in Creds /\ token[current] \in {"valid", "stale"}
      BY <1>4 DEF CurrentHit, Enabled, Typed
    <2>2. QED
      BY <1>4, <2>1, <1>c DEF CurrentHit, Step, PCs
  <1>5. CASE CurrentMiss(p)
    BY <1>5, <1>b DEF CurrentMiss, Step, PCs, Chosen, Holding
  <1>6. CASE SelectNext(p)
    <2>1. PICK c \in Preferred(Candidates(p)) :
             cred' = [cred EXCEPT ![p] = c] /\ seen' = [seen EXCEPT ![p] = token[c]]
      BY <1>6 DEF SelectNext
    <2>2. c \in Creds
      BY DEF Preferred, LeastUsed, HighestPriority, Candidates, Enabled
    <2>3. token[c] \in {"valid", "stale"}
      BY <2>2 DEF Typed
    <2>4. QED
      BY <1>6, <2>1, <2>2, <2>3, <1>c DEF SelectNext, Step, PCs
  <1>7. CASE SelectNone(p)
    BY <1>7, <1>b DEF SelectNone, Step, PCs, Chosen, Holding
  <1>8. CASE AdoptCurrent(p)
    <2>1. pc' \in [Calls -> PCs] /\ \A q \in Calls : pc'[q] \in Chosen => pc[q] \in Chosen
      BY <1>8, StepPcTyped DEF AdoptCurrent, PCs, Chosen, Holding
    <2>2. current' \in Creds \cup {NoCred}
      BY <1>8 DEF AdoptCurrent, Step, Typed, Chosen
    <2>3. limited' \in [Calls -> SUBSET Creds]
      BY <1>8, LeavesTyped DEF AdoptCurrent
    <2>4. QED
      BY <1>8, <2>1, <2>2, <2>3, <1>0 DEF AdoptCurrent, Typed
  <1>9. CASE TakePermit(p)
    <2>1. pc' \in [Calls -> PCs] /\ \A q \in Calls : pc'[q] \in Chosen => pc[q] \in Chosen
      BY <1>9, StepPcTyped DEF TakePermit, PCs, Chosen, Holding
    <2>2. cred[p] \in Creds /\ free \in [Creds -> Nat] /\ free[cred[p]] > 0
      BY <1>9 DEF TakePermit, Step, Typed, Chosen
    <2>3. free' \in [Creds -> Nat]
      BY <1>9, <2>2 DEF TakePermit
    <2>4. QED
      BY <1>9, <2>1, <2>3, <1>a DEF TakePermit, Typed
  <1>10. CASE NoPermit(p)
    BY <1>10, <1>b DEF NoPermit, Step, PCs, Chosen, Holding
  <1>11. CASE Poll(p)
    BY <1>11, <1>b DEF Poll, Step, PCs, Chosen, Holding
  <1>12. CASE Bail(p)
    BY <1>12, <1>a, NextAttemptTyped DEF Bail, Typed
  <1>13. QED
    BY <1>1, <1>2, <1>3, <1>4, <1>5, <1>6, <1>7, <1>8, <1>9, <1>10, <1>11, <1>12 DEF Acquire

LEMMA EnsureTokenTyped ==
  ASSUME Typed, NEW p \in Calls, EnsureToken(p)
  PROVE  Typed'
  <1> USE DEF Typed, entryVars, poolVars, callVars, envVars, history
  <1>1. CASE TokenFresh(p)
    <2>1. pc' \in [Calls -> PCs] /\ \A q \in Calls : pc'[q] \in Chosen => pc[q] \in Chosen
      BY <1>1, StepPcTyped DEF TokenFresh, PCs, Chosen, Holding
    <2>2. QED
      BY <1>1, <2>1 DEF TokenFresh
  <1>2. CASE TokenRecheck(p)
    <2>1. pc' \in [Calls -> PCs] /\ \A q \in Calls : pc'[q] \in Chosen => pc[q] \in Chosen
      BY <1>2, StepPcTyped DEF TokenRecheck, PCs, Chosen, Holding
    <2>2. refresher' \in Calls \cup {NoCall}
      BY <1>2 DEF TokenRecheck, Typed
    <2>3. UNCHANGED <<entryVars, free, current, mode, callVars, envVars, history>>
      BY <1>2 DEF TokenRecheck
    <2>4. QED
      BY <2>1, <2>2, <2>3 DEF Typed
  <1>3. CASE RefreshDone(p)
    <2>1. pc' \in [Calls -> PCs] /\ \A q \in Calls : pc'[q] \in Chosen => pc[q] \in Chosen
      BY <1>3, StepPcTyped DEF RefreshDone, PCs, Chosen, Holding
    <2>2. QED
      BY <1>3, <2>1 DEF RefreshDone
  <1>4. CASE RefreshFailed(p)
    <2>1. free' \in [Creds -> Nat]
      BY <1>4, ReleaseTyped DEF RefreshFailed, Holding, Step
    <2>2. pc' \in [Calls -> PCs] /\ \A q \in Calls : pc'[q] \in Chosen => pc[q] \in Chosen
      <3>1. PICK kind \in {"tokfail", "tokinvalid"} : Step(p, "refresh", kind)
        BY <1>4 DEF RefreshFailed
      <3>2. "refresh" \in Chosen /\ kind \in PCs
        BY DEF PCs, Chosen, Holding
      <3>3. QED
        BY <3>1, <3>2, StepPcTyped
    <2>3. QED
      BY <1>4, <2>1, <2>2 DEF RefreshFailed
  <1>5. CASE ReportTokenFailure(p)
    <2>1. current' \in Creds \cup {NoCred}
      BY <1>5, LeaveCredTyped DEF ReportRefreshTokenInvalid, ReportTokenFailure, Chosen, Holding
    <2>2. /\ pc' \in [Calls -> PCs]
          /\ attempt' \in [Calls -> Nat] /\ tokFails' \in [Calls -> Nat]
          /\ \A q \in Calls : pc'[q] \in Chosen => pc[q] \in Chosen
      <3>1. CASE NextAttempt(p)
        BY <3>1, NextAttemptTyped
      <3>2. CASE /\ pc' = [pc EXCEPT ![p] = "loop"] /\ attempt' = attempt
                 /\ tokFails' = [tokFails EXCEPT ![p] = @ + 1]
        BY <3>2 DEF PCs, Chosen, Holding
      <3>3. QED
        BY <1>5, <3>1, <3>2 DEF ReportTokenFailure
    <2>3. limited' \in [Calls -> SUBSET Creds]
      BY <1>5, LeavesTyped DEF ReportTokenFailure
    <2>4. QED
      BY <1>5, <2>1, <2>2, <2>3 DEF ReportTokenFailure
  <1>6. CASE ForceLock(p)
    <2>1. pc' \in [Calls -> PCs] /\ \A q \in Calls : pc'[q] \in Chosen => pc[q] \in Chosen
      BY <1>6, StepPcTyped DEF ForceLock, PCs, Chosen, Holding
    <2>2. QED
      BY <1>6, <2>1 DEF ForceLock
  <1>7. CASE ForceDone(p)
    <2>1. free' \in [Creds -> Nat]
      BY <1>7, ReleaseTyped DEF ForceDone, Holding, Step
    <2>2. /\ pc' \in [Calls -> PCs]
          /\ attempt' \in [Calls -> Nat] /\ tokFails' \in [Calls -> Nat]
          /\ \A q \in Calls : pc'[q] \in Chosen => pc[q] \in Chosen
      BY <1>7, NextAttemptTyped DEF ForceDone
    <2>3. QED
      BY <1>7, <2>1, <2>2 DEF ForceDone
  <1>8. CASE ForceFailed(p)
    <2>1. current' \in Creds \cup {NoCred}
      BY <1>8, LeaveCredTyped DEF ReportRefreshTokenInvalid, ForceFailed, Chosen, Holding
    <2>2. pc' \in [Calls -> PCs] /\ \A q \in Calls : pc'[q] \in Chosen => pc[q] \in Chosen
      BY <1>8, StepPcTyped DEF ForceFailed, PCs, Chosen, Holding
    <2>3. limited' \in [Calls -> SUBSET Creds]
      BY <1>8, LeavesTyped DEF ForceFailed
    <2>4. QED
      BY <1>8, <2>1, <2>2, <2>3 DEF ForceFailed
  <1>9. CASE ForceFailedReport(p)
    <2>1. current' \in Creds \cup {NoCred} /\ failures' \in [Creds -> Nat]
      BY <1>9, LeaveCredTyped, FailuresTyped DEF ForceFailedReport, ReportFailure, Chosen, Holding
    <2>2. free' \in [Creds -> Nat]
      BY <1>9, ReleaseTyped DEF ForceFailedReport, Holding, Step
    <2>3. /\ pc' \in [Calls -> PCs]
          /\ attempt' \in [Calls -> Nat] /\ tokFails' \in [Calls -> Nat]
          /\ \A q \in Calls : pc'[q] \in Chosen => pc[q] \in Chosen
      BY <1>9, NextAttemptTyped DEF ForceFailedReport
    <2>4. limited' \in [Calls -> SUBSET Creds]
      BY <1>9, LeavesTyped DEF ForceFailedReport
    <2>5. QED
      BY <1>9, <2>1, <2>2, <2>3, <2>4 DEF ForceFailedReport
  <1>10. QED
    BY <1>1, <1>2, <1>3, <1>4, <1>5, <1>6, <1>7, <1>8, <1>9 DEF EnsureToken

LEMMA UpstreamTyped ==
  ASSUME Typed, NEW p \in Calls, Upstream(p)
  PROVE  Typed'
  <1> USE DEF Typed, entryVars, poolVars, callVars, envVars, history
  <1>1. CASE UnknownEndpoint(p)
    <2>1. current' \in Creds \cup {NoCred} /\ failures' \in [Creds -> Nat]
      BY <1>1, LeaveCredTyped, FailuresTyped DEF UnknownEndpoint, ReportFailure, Chosen, Holding
    <2>2. free' \in [Creds -> Nat]
      BY <1>1, ReleaseTyped DEF UnknownEndpoint, Holding, Step
    <2>3. /\ pc' \in [Calls -> PCs]
          /\ attempt' \in [Calls -> Nat] /\ tokFails' \in [Calls -> Nat]
          /\ \A q \in Calls : pc'[q] \in Chosen => pc[q] \in Chosen
      BY <1>1, NextAttemptTyped DEF UnknownEndpoint
    <2>4. limited' \in [Calls -> SUBSET Creds]
      BY <1>1, LeavesTyped DEF UnknownEndpoint
    <2>5. QED
      BY <1>1, <2>1, <2>2, <2>3, <2>4 DEF UnknownEndpoint
  <1>2. CASE NoClient(p)
    <2>1. free' \in [Creds -> Nat]
      BY <1>2, ReleaseTyped DEF NoClient, Holding, Step
    <2>2. pc' \in [Calls -> PCs] /\ \A q \in Calls : pc'[q] \in Chosen => pc[q] \in Chosen
      BY <1>2, StepPcTyped DEF NoClient, PCs, Chosen, Holding
    <2>3. QED
      BY <1>2, <2>1, <2>2 DEF NoClient
  <1>3. CASE Send(p)
    <2>0. cred[p] \in Creds
      BY <1>3 DEF Send, Step, Chosen, Holding
    <2>1. pc' \in [Calls -> PCs] /\ \A q \in Calls : pc'[q] \in Chosen => pc[q] \in Chosen
      BY <1>3, StepPcTyped DEF Send, PCs, Chosen, Holding
    <2>2. QED
      <3>1. sends' \in [Calls -> Seq(Creds)] /\ limited' \in [Calls -> SUBSET Creds]
        <4>1. sends' \in [Calls -> Seq(Creds)]
          BY <1>3, <2>0, AppendTyped, Zenon DEF Send
        <4>2. limited' \in [Calls -> SUBSET Creds]
          BY <1>3 DEF Send
        <4>3. QED
          BY <4>1, <4>2
      <3>2. QED
        BY <1>3, <2>1, <3>1 DEF Send
  <1>4. CASE ReplyOk(p)
    <2>0. cred[p] \in Creds
      BY <1>4 DEF ReplyOk, Step, Chosen, Holding
    <2>1. free' \in [Creds -> Nat]
      BY <1>4, ReleaseTyped DEF ReplyOk, Holding, Step
    <2>2. pc' \in [Calls -> PCs] /\ \A q \in Calls : pc'[q] \in Chosen => pc[q] \in Chosen
      BY <1>4, StepPcTyped DEF ReplyOk, PCs, Chosen, Holding
    <2>3. QED
      <3>1. successes' \in [Creds -> Nat] /\ failures' \in [Creds -> Nat]
        BY <1>4, <2>0, BumpTyped, Zenon DEF ReplyOk, CreditedTo
      <3>2. QED
        BY <1>4, <2>1, <2>2, <3>1 DEF ReplyOk
  <1>5. CASE BodyEnds(p)
    <2>1. pc' \in [Calls -> PCs] /\ \A q \in Calls : pc'[q] \in Chosen => pc[q] \in Chosen
      BY <1>5, StepPcTyped DEF BodyEnds, PCs, Chosen, Holding
    <2>2. QED
      BY <1>5, <2>1 DEF BodyEnds
  <1>6. CASE ReplyTransportError(p)
    <2>0. cred[p] \in Creds
      BY <1>6 DEF ReplyTransportError, Step, Chosen, Holding
    <2>1. current' \in Creds \cup {NoCred}
      BY <1>6, LeaveCredTyped DEF ReportTransportError, ReplyTransportError, Chosen, Holding
    <2>2. free' \in [Creds -> Nat]
      BY <1>6, ReleaseTyped DEF ReplyTransportError, Holding, Step
    <2>3. /\ pc' \in [Calls -> PCs]
          /\ attempt' \in [Calls -> Nat] /\ tokFails' \in [Calls -> Nat]
          /\ \A q \in Calls : pc'[q] \in Chosen => pc[q] \in Chosen
      BY <1>6, NextAttemptTyped, StepPcTyped DEF ReplyTransportError, PCs, Chosen, Holding
    <2>4. limited' \in [Calls -> SUBSET Creds]
      <3>1. {cred[p]} \in SUBSET Creds /\ Leaves(p, {cred[p]})
        BY <1>6, <2>0 DEF ReplyTransportError
      <3>2. QED
        BY <3>1, LeavesTyped, Zenon
    <2>5. QED
      BY <1>6, <2>0, <2>1, <2>2, <2>3, <2>4 DEF ReplyTransportError
  <1>7. CASE ReplyQuota(p)
    <2>0. cred[p] \in Creds
      BY <1>7 DEF ReplyQuota, Step, Chosen, Holding
    <2>1. current' \in Creds \cup {NoCred}
      BY <1>7, LeaveCredTyped DEF ReportQuotaExhausted, ReplyQuota, Chosen, Holding
    <2>2. free' \in [Creds -> Nat]
      BY <1>7, ReleaseTyped DEF ReplyQuota, Holding, Step
    <2>3. /\ pc' \in [Calls -> PCs]
          /\ attempt' \in [Calls -> Nat] /\ tokFails' \in [Calls -> Nat]
          /\ \A q \in Calls : pc'[q] \in Chosen => pc[q] \in Chosen
      BY <1>7, NextAttemptTyped DEF ReplyQuota
    <2>4. limited' \in [Calls -> SUBSET Creds]
      <3>1. {cred[p]} \in SUBSET Creds /\ Leaves(p, {cred[p]})
        BY <1>7, <2>0 DEF ReplyQuota
      <3>2. QED
        BY <3>1, LeavesTyped, Zenon
    <2>5. QED
      BY <1>7, <2>0, <2>1, <2>2, <2>3, <2>4 DEF ReplyQuota
  <1>8. CASE ReplyRateLimited(p)
    <2>0. cred[p] \in Creds
      BY <1>8 DEF ReplyRateLimited, Step, Chosen, Holding
    <2>1. current' \in Creds \cup {NoCred} /\ failures' \in [Creds -> Nat]
      BY <1>8, LeaveCredTyped, FailuresTyped DEF ReportRateLimited, ReplyRateLimited, Chosen, Holding
    <2>2. free' \in [Creds -> Nat]
      BY <1>8, ReleaseTyped DEF ReplyRateLimited, Holding, Step
    <2>3. /\ pc' \in [Calls -> PCs]
          /\ attempt' \in [Calls -> Nat] /\ tokFails' \in [Calls -> Nat]
          /\ \A q \in Calls : pc'[q] \in Chosen => pc[q] \in Chosen
      BY <1>8, NextAttemptTyped DEF ReplyRateLimited
    <2>4. limited' \in [Calls -> SUBSET Creds]
      <3>1. {cred[p]} \in SUBSET Creds /\ Leaves(p, {cred[p]})
        BY <1>8, <2>0 DEF ReplyRateLimited
      <3>2. QED
        BY <3>1, LeavesTyped, Zenon
    <2>5. QED
      BY <1>8, <2>0, <2>1, <2>2, <2>3, <2>4 DEF ReplyRateLimited
  <1>9. CASE ReplyClientError(p)
    <2>1. free' \in [Creds -> Nat]
      BY <1>9, ReleaseTyped DEF ReplyClientError, Holding, Step
    <2>2. pc' \in [Calls -> PCs] /\ \A q \in Calls : pc'[q] \in Chosen => pc[q] \in Chosen
      BY <1>9, StepPcTyped DEF ReplyClientError, PCs, Chosen, Holding
    <2>3. QED
      BY <1>9, <2>1, <2>2 DEF ReplyClientError
  <1>10. CASE ReplyBearerInvalid(p)
    <2>1. pc' \in [Calls -> PCs] /\ \A q \in Calls : pc'[q] \in Chosen => pc[q] \in Chosen
      BY <1>10, StepPcTyped DEF ReplyBearerInvalid, PCs, Chosen, Holding
    <2>2. QED
      <3>1. cred[p] \in Creds
        BY <1>10 DEF ReplyBearerInvalid, Chosen, Holding, Step, Typed
      <3>2. forced' \in [Calls -> SUBSET Creds]
        <4>1. /\ forced \in [Calls -> SUBSET Creds]
              /\ forced' = [forced EXCEPT ![p] = @ \cup {cred[p]}]
          BY <1>10 DEF ReplyBearerInvalid, Typed
        <4>2. forced[p] \cup {cred[p]} \in SUBSET Creds
          BY <3>1, <4>1
        <4>3. QED
          BY <4>1, <4>2
      <3>3. QED
        BY <1>10, <2>1, <3>2 DEF ReplyBearerInvalid, Typed
  <1>11. CASE ReplyDenied(p)
    <2>1. current' \in Creds \cup {NoCred} /\ failures' \in [Creds -> Nat]
      BY <1>11, LeaveCredTyped, FailuresTyped DEF ReplyDenied, ReportFailure, Chosen, Holding
    <2>2. free' \in [Creds -> Nat]
      BY <1>11, ReleaseTyped DEF ReplyDenied, Holding, Step
    <2>3. /\ pc' \in [Calls -> PCs]
          /\ attempt' \in [Calls -> Nat] /\ tokFails' \in [Calls -> Nat]
          /\ \A q \in Calls : pc'[q] \in Chosen => pc[q] \in Chosen
      BY <1>11, NextAttemptTyped DEF ReplyDenied
    <2>4. limited' \in [Calls -> SUBSET Creds]
      BY <1>11, LeavesTyped DEF ReplyDenied
    <2>5. QED
      BY <1>11, <2>1, <2>2, <2>3, <2>4 DEF ReplyDenied
  <1>12. CASE ReplyTransient(p)
    <2>1. free' \in [Creds -> Nat]
      BY <1>12, ReleaseTyped DEF ReplyTransient, Holding, Step
    <2>2. /\ pc' \in [Calls -> PCs]
          /\ attempt' \in [Calls -> Nat] /\ tokFails' \in [Calls -> Nat]
          /\ \A q \in Calls : pc'[q] \in Chosen => pc[q] \in Chosen
      BY <1>12, NextAttemptTyped, StepPcTyped DEF ReplyTransient, PCs, Chosen, Holding
    <2>3. QED
      BY <1>12, <2>1, <2>2 DEF ReplyTransient
  <1>13. CASE BackoffOver(p)
    <2>1. free' \in [Creds -> Nat]
      BY <1>13, ReleaseTyped DEF BackoffOver, Holding, Step
    <2>2. /\ pc' \in [Calls -> PCs]
          /\ attempt' \in [Calls -> Nat] /\ tokFails' \in [Calls -> Nat]
          /\ \A q \in Calls : pc'[q] \in Chosen => pc[q] \in Chosen
      BY <1>13, NextAttemptTyped DEF BackoffOver
    <2>3. QED
      BY <1>13, <2>1, <2>2 DEF BackoffOver
  <1>14. QED
    BY <1>1, <1>2, <1>3, <1>4, <1>5, <1>6, <1>7, <1>8, <1>9, <1>10, <1>11, <1>12, <1>13
       DEF Upstream

LEMMA AdminTyped ==
  ASSUME Typed, AdminStep \/ \E c \in Creds : Expire(c)
  PROVE  Typed'
  <1> USE DEF Typed, entryVars, poolVars, callVars, envVars, history, AdminOps, NoRequest,
              AdminBegin, Modes
  <1>1. ASSUME NEW c \in Creds, DisableSnapshot(c) PROVE Typed'
    <2>1. admin' \in [op : AdminOps, id : Creds \cup {NoCred}] /\ admin'.id \in Creds
      BY <1>1 DEF DisableSnapshot
    <2>2. adminOps' \in Nat /\ expiries' \in Nat
      BY <1>1 DEF DisableSnapshot
    <2>3. QED
      BY <1>1, <2>1, <2>2 DEF DisableSnapshot
  <1>2. CASE DisableEntry
    <2>1. /\ admin' \in [op : AdminOps, id : Creds \cup {NoCred}]
          /\ admin'.op \in {"none", "switch"}
      <3>1. CASE admin' = NoRequest
        BY <3>1
      <3>2. CASE admin' = [admin EXCEPT !.op = "switch"]
        BY <3>2
      <3>3. QED
        BY <1>2, <3>1, <3>2 DEF DisableEntry
    <2>2. disabled' \in [Creds -> BOOLEAN]
      BY <1>2 DEF DisableEntry
    <2>3. /\ UNCHANGED <<priority, failures, successes, token, free, poolVars, pc, callVars>>
          /\ UNCHANGED <<adminOps, expiries, history>>
      BY <1>2 DEF DisableEntry
    <2>4. QED
      BY <2>1, <2>2, <2>3
  <1>3. CASE SwitchToNext
    <2>1. current' \in Creds \cup {NoCred}
      BY <1>3, MoveCurrentTyped DEF SwitchToNext, Others, Enabled
    <2>2. QED
      BY <1>3, <2>1 DEF SwitchToNext
  <1>4. ASSUME NEW c \in Creds, EnableEntry(c) PROVE Typed'
    <2>1. disabled' \in [Creds -> BOOLEAN]
      BY <1>4 DEF EnableEntry
    <2>2. failures' \in [Creds -> Nat] /\ adminOps' \in Nat
      BY <1>4 DEF EnableEntry
    <2>3. QED
      BY <1>4, <2>1, <2>2 DEF EnableEntry
  <1>5. ASSUME NEW c \in Creds, NEW k \in Priorities, SetPriority(c, k) PROVE Typed'
    <2>1. priority' \in [Creds -> Nat]
      BY <1>5, InitAssumption DEF SetPriority
    <2>2. /\ admin' \in [op : AdminOps, id : Creds \cup {NoCred}] /\ admin'.op = "reselect"
          /\ adminOps' \in Nat /\ expiries' \in Nat
      BY <1>5 DEF SetPriority
    <2>3. QED
      BY <1>5, <2>1, <2>2 DEF SetPriority
  <1>6. CASE SelectHighestPriority
    <2>1. current' \in Creds \cup {NoCred}
      BY <1>6, MoveCurrentTyped DEF SelectHighestPriority, Enabled
    <2>2. QED
      BY <1>6, <2>1 DEF SelectHighestPriority
  <1>7. CASE SetMode
    BY <1>7 DEF SetMode
  <1>8. CASE SaveMode
    BY <1>8 DEF SaveMode
  <1>9. ASSUME NEW c \in Creds, Expire(c) PROVE Typed'
    <2>1. token' \in [Creds -> {"valid", "stale"}] /\ expiries' \in Nat
      BY <1>9 DEF Expire
    <2>2. QED
      BY <1>9, <2>1 DEF Expire
  <1>10. QED
    BY <1>1, <1>2, <1>3, <1>4, <1>5, <1>6, <1>7, <1>8, <1>9 DEF AdminStep

LEMMA StepTyped == Typed /\ [Next]_vars => Typed'
  <1> SUFFICES ASSUME Typed, [Next]_vars PROVE Typed'
    OBVIOUS
  <1>1. CASE UNCHANGED vars
    BY <1>1 DEF Typed, vars, entryVars, poolVars, callVars, envVars, history
  <1>2. CASE AllOver
    BY <1>1, <1>2 DEF AllOver
  <1>3. QED
    BY <1>1, <1>2, AcquireTyped, EnsureTokenTyped, UpstreamTyped, AdminTyped DEF Next, CallStep

\* Typed holds in every reachable state.
THEOREM AlwaysTyped == Spec => []Typed
  BY InitTyped, StepTyped, PTL DEF Spec

-----------------------------------------------------------------------------
(* Permits.  A step of a call leaves its permit alone, takes one or gives  *)
(* it back.                                                                *)

MovesPc(p, x) == pc' = [pc EXCEPT ![p] = x]

Keeps(p) ==
    /\ free' = free
    /\ \E x \in PCs : MovesPc(p, x) /\ (x \in Holding <=> pc[p] \in Holding)
    /\ cred' = cred \/ (pc[p] \notin Holding /\ \E c \in Creds : cred' = [cred EXCEPT ![p] = c])

Gives(p) ==
    /\ pc[p] \in Holding
    /\ ReleasePermit(p)
    /\ \E x \in PCs \ Holding : MovesPc(p, x)
    /\ cred' = cred

LEMMA NextAttemptShape ==
  ASSUME NEW p \in Calls, NEW more, NextAttempt(p) \/ NextAttemptIf(p, more)
  PROVE  \E x \in PCs \ Holding : MovesPc(p, x)
  <1>1. PICK x \in {"loop", "failed"} : pc' = [pc EXCEPT ![p] = x]
    BY DEF NextAttempt, NextAttemptIf
  <1>2. QED
    BY <1>1 DEF PCs, Holding, MovesPc

LEMMA AcquireShape ==
  ASSUME Typed, NEW p \in Calls, Start(p) \/ Acquire(p)
  PROVE  Keeps(p) \/ TakePermit(p)
  <1> USE DEF Step, Keeps, MovesPc, PCs, Holding, callVars
  <1>1. CASE Start(p)
    BY <1>1 DEF Start
  <1>2. CASE GiveUp(p)
    BY <1>2, NextAttemptShape DEF GiveUp
  <1>3. CASE ReadMode(p)
    BY <1>3 DEF ReadMode
  <1>4. CASE CurrentHit(p)
    BY <1>4 DEF CurrentHit, Enabled
  <1>5. CASE CurrentMiss(p)
    BY <1>5 DEF CurrentMiss
  <1>6. CASE SelectNext(p)
    <2>1. Preferred(Candidates(p)) \subseteq Creds
      BY DEF Preferred, LeastUsed, HighestPriority, Candidates, Enabled
    <2>2. QED
      BY <1>6, <2>1 DEF SelectNext
  <1>7. CASE SelectNone(p)
    BY <1>7 DEF SelectNone
  <1>8. CASE AdoptCurrent(p)
    BY <1>8 DEF AdoptCurrent
  <1>9. CASE NoPermit(p)
    BY <1>9 DEF NoPermit
  <1>10. CASE Poll(p)
    BY <1>10 DEF Poll
  <1>11. CASE Bail(p)
    BY <1>11, NextAttemptShape DEF Bail
  <1>12. QED
    BY <1>1, <1>2, <1>3, <1>4, <1>5, <1>6, <1>7, <1>8, <1>9, <1>10, <1>11 DEF Acquire

LEMMA EnsureTokenShape ==
  ASSUME Typed, NEW p \in Calls, EnsureToken(p)
  PROVE  Keeps(p) \/ Gives(p)
  <1> USE DEF Step, MovesPc, PCs, Holding, callVars
  <1>1. CASE TokenFresh(p)
    BY <1>1 DEF TokenFresh, Keeps
  <1>2. CASE TokenRecheck(p)
    BY <1>2 DEF TokenRecheck, Keeps
  <1>3. CASE RefreshDone(p)
    BY <1>3 DEF RefreshDone, Keeps
  <1>4. CASE RefreshFailed(p)
    BY <1>4 DEF RefreshFailed, Gives
  <1>5. CASE ReportTokenFailure(p)
    <2>1. \E x \in PCs \ Holding : MovesPc(p, x)
      BY <1>5, NextAttemptShape DEF ReportTokenFailure
    <2>2. QED
      BY <1>5, <2>1 DEF ReportTokenFailure, Keeps
  <1>6. CASE ForceLock(p)
    BY <1>6 DEF ForceLock, Keeps
  <1>7. CASE ForceDone(p)
    BY <1>7, NextAttemptShape DEF ForceDone, Gives
  <1>8. CASE ForceFailed(p)
    BY <1>8 DEF ForceFailed, Keeps
  <1>9. CASE ForceFailedReport(p)
    BY <1>9, NextAttemptShape DEF ForceFailedReport, Gives
  <1>10. QED
    BY <1>1, <1>2, <1>3, <1>4, <1>5, <1>6, <1>7, <1>8, <1>9 DEF EnsureToken

LEMMA UpstreamShape ==
  ASSUME Typed, NEW p \in Calls, Upstream(p)
  PROVE  Keeps(p) \/ Gives(p)
  <1> USE DEF Step, MovesPc, PCs, Holding, callVars
  <1>1. CASE UnknownEndpoint(p)
    BY <1>1, NextAttemptShape DEF UnknownEndpoint, Gives
  <1>2. CASE NoClient(p)
    BY <1>2 DEF NoClient, Gives
  <1>3. CASE Send(p)
    BY <1>3 DEF Send, Keeps
  <1>4. CASE ReplyOk(p)
    BY <1>4 DEF ReplyOk, Gives
  <1>5. CASE BodyEnds(p)
    BY <1>5 DEF BodyEnds, Keeps
  <1>6. CASE ReplyTransportError(p)
    BY <1>6, NextAttemptShape DEF ReplyTransportError, Gives, Keeps
  <1>7. CASE ReplyQuota(p)
    BY <1>7, NextAttemptShape DEF ReplyQuota, Gives
  <1>8. CASE ReplyRateLimited(p)
    BY <1>8, NextAttemptShape DEF ReplyRateLimited, Gives
  <1>9. CASE ReplyClientError(p)
    BY <1>9 DEF ReplyClientError, Gives
  <1>10. CASE ReplyBearerInvalid(p)
    BY <1>10 DEF ReplyBearerInvalid, Keeps
  <1>11. CASE ReplyDenied(p)
    BY <1>11, NextAttemptShape DEF ReplyDenied, Gives
  <1>12. CASE ReplyTransient(p)
    BY <1>12, NextAttemptShape DEF ReplyTransient, Gives, Keeps
  <1>13. CASE BackoffOver(p)
    BY <1>13, NextAttemptShape DEF BackoffOver, Gives
  <1>14. QED
    BY <1>1, <1>2, <1>3, <1>4, <1>5, <1>6, <1>7, <1>8, <1>9, <1>10, <1>11, <1>12, <1>13
       DEF Upstream

LEMMA HoldersFinite ==
  ASSUME NEW c
  PROVE  IsFiniteSet(Holders(c)) /\ Cardinality(Holders(c)) \in Nat
  BY CallsAssumption, FS_Subset, FS_CardinalityType DEF Holders

LEMMA KeepsPermits ==
  ASSUME Typed, PermitsConserved, NEW p \in Calls, Keeps(p)
  PROVE  PermitsConserved'
  <1> USE DEF Holders
  <1>1. SUFFICES ASSUME NEW c \in Creds, NEW q \in Calls
                 PROVE  pc'[q] \in Holding /\ cred'[q] = c <=> pc[q] \in Holding /\ cred[q] = c
    <2>1. \A c \in Creds : Holders(c)' = Holders(c)
      BY <1>1
    <2>2. QED
      BY <2>1 DEF PermitsConserved, Keeps
  <1>2. PICK x \in PCs : pc' = [pc EXCEPT ![p] = x] /\ (x \in Holding <=> pc[p] \in Holding)
    BY DEF Keeps, MovesPc
  <1>3. pc \in [Calls -> PCs] /\ cred \in [Calls -> Creds \cup {NoCred}]
    BY DEF Typed
  <1>4. pc'[q] \in Holding <=> pc[q] \in Holding
    BY <1>2, <1>3
  <1>5. cred'[q] = cred[q] \/ (q = p /\ pc[p] \notin Holding)
    BY <1>3 DEF Keeps
  <1>6. QED
    BY <1>4, <1>5

LEMMA TakesPermits ==
  ASSUME Typed, PermitsConserved, NEW p \in Calls, TakePermit(p)
  PROVE  PermitsConserved'
  <1>1. pc[p] = "permit" /\ MovesPc(p, "token") /\ cred' = cred /\ cred[p] \in Creds
    BY DEF TakePermit, Step, MovesPc, callVars, Typed, Chosen
  <1>a. pc \in [Calls -> PCs] /\ pc' = [pc EXCEPT ![p] = "token"]
    BY <1>1 DEF MovesPc, Typed
  <1>b. pc[p] \notin Holding /\ pc'[p] \in Holding /\ \A q \in Calls \ {p} : pc'[q] = pc[q]
    BY <1>1, <1>a DEF Holding
  <1>2. p \notin Holders(cred[p]) /\ Holders(cred[p])' = Holders(cred[p]) \cup {p}
    BY <1>1, <1>b DEF Holders
  <1>3. \A c \in Creds \ {cred[p]} : Holders(c)' = Holders(c)
    BY <1>1, <1>b DEF Holders
  <1>4. Cardinality(Holders(cred[p]))' = Cardinality(Holders(cred[p])) + 1
    BY <1>2, HoldersFinite, FS_AddElement
  <1>5. free' = [free EXCEPT ![cred[p]] = @ - 1] /\ free \in [Creds -> Nat]
    BY DEF TakePermit, Typed
  <1>6. QED
    BY <1>1, <1>3, <1>4, <1>5, HoldersFinite, LimitsAssumption DEF PermitsConserved

LEMMA GivesPermits ==
  ASSUME Typed, PermitsConserved, NEW p \in Calls, Gives(p)
  PROVE  PermitsConserved'
  <1>1. cred[p] \in Creds /\ cred' = cred
    BY DEF Gives, Typed, Chosen
  <1>a. PICK x \in PCs \ Holding : pc' = [pc EXCEPT ![p] = x]
    BY DEF Gives, MovesPc
  <1>b. pc[p] \in Holding /\ pc'[p] \notin Holding /\ \A q \in Calls \ {p} : pc'[q] = pc[q]
    BY <1>a DEF Gives, Typed
  <1>2. p \in Holders(cred[p]) /\ Holders(cred[p])' = Holders(cred[p]) \ {p}
    BY <1>1, <1>b DEF Holders
  <1>3. \A c \in Creds \ {cred[p]} : Holders(c)' = Holders(c)
    BY <1>1, <1>b DEF Holders
  <1>4. Cardinality(Holders(cred[p]))' = Cardinality(Holders(cred[p])) - 1
    BY <1>2, HoldersFinite, FS_RemoveElement, ZenonT(30)
  <1>5. free' = [free EXCEPT ![cred[p]] = @ + 1] /\ free \in [Creds -> Nat]
    BY DEF Gives, ReleasePermit, Typed
  <1>6. QED
    BY <1>1, <1>3, <1>4, <1>5, HoldersFinite, LimitsAssumption DEF PermitsConserved

\* Admin requests, expiry and stuttering leave calls, permits and the lock alone.
LEMMA ElsewhereShape ==
  ASSUME [Next]_vars, ~ \E p \in Calls : CallStep(p)
  PROVE  /\ UNCHANGED <<pc, free, callVars, successes, refresher, sends>>
         /\ \A c \in Creds : token'[c] = token[c] \/ token'[c] = "stale"
  <1> USE DEF vars, entryVars, poolVars, callVars, envVars, history
  <1>1. CASE AdminStep
    BY <1>1 DEF AdminStep, DisableSnapshot, DisableEntry, SwitchToNext, EnableEntry, SetPriority,
                SelectHighestPriority, SetMode, SaveMode
  <1>2. CASE UNCHANGED vars \/ AllOver
    BY <1>2 DEF AllOver
  <1>3. ASSUME NEW c \in Creds, Expire(c)
        PROVE  /\ UNCHANGED <<pc, free, callVars, successes, refresher, sends>>
               /\ \A d \in Creds : token'[d] = token[d] \/ token'[d] = "stale"
    BY <1>3 DEF Expire
  <1>4. QED
    BY <1>1, <1>2, <1>3 DEF Next

\* Permits are conserved by every step, for every number of calls, credentials
\* and permits.
THEOREM PermitsAlwaysConserved == Spec => []PermitsConserved
  <1>1. Init => PermitsConserved
    <2> SUFFICES ASSUME Init, NEW c \in Creds PROVE free[c] + Cardinality(Holders(c)) = Cap
      BY DEF PermitsConserved
    <2>1. Holders(c) = {}
      BY DEF Init, Holders, Holding
    <2>2. QED
      BY <2>1, FS_EmptySet, LimitsAssumption DEF Init
  <1>2. Typed /\ PermitsConserved /\ [Next]_vars => PermitsConserved'
    <2> SUFFICES ASSUME Typed, PermitsConserved, [Next]_vars PROVE PermitsConserved'
      OBVIOUS
    <2>1. ASSUME NEW p \in Calls, CallStep(p) PROVE PermitsConserved'
      BY <2>1, AcquireShape, EnsureTokenShape, UpstreamShape,
         KeepsPermits, TakesPermits, GivesPermits DEF CallStep
    <2>2. CASE ~ \E p \in Calls : CallStep(p)
      BY <2>2, ElsewhereShape DEF PermitsConserved, Holders, callVars
    <2>3. QED
      BY <2>1, <2>2
  <1>3. QED
    BY <1>1, <1>2, AlwaysTyped, PTL DEF Spec

\* The type invariant, with the upper bound on the free permits: no semaphore
\* is ever given back a permit that was not taken from it.
THEOREM TypeCorrect == Spec => []TypeOK
  <1>1. Typed /\ PermitsConserved => TypeOK
    <2> SUFFICES ASSUME Typed, PermitsConserved PROVE TypeOK
      OBVIOUS
    <2>1. \A c \in Creds : free[c] \in 0..Cap
      BY HoldersFinite, LimitsAssumption DEF Typed, PermitsConserved
    <2>2. free \in [Creds -> 0..Cap]
      BY <2>1 DEF Typed
    <2>3. QED
      BY <2>2 DEF Typed, TypeOK
  <1>2. QED
    BY <1>1, AlwaysTyped, PermitsAlwaysConserved, PTL

-----------------------------------------------------------------------------
(* The refresh lock, the requests sent and the successes recorded.         *)

Early == {"idle", "loop", "hit", "next", "adopt", "permit", "blocked", "token",
          "refresh", "tokfail", "tokinvalid", "send"}
Late  == {"reply", "backoff", "force", "forcing", "forcefail", "body", "served"}
Answered == {"body", "served"}

\* refresh_lock is owned by exactly the call that is refreshing, and what it
\* refreshes unforced is stale.
LockInv ==
    /\ \A p \in Calls : pc[p] \in Refreshing <=> refresher = p
    /\ RefreshOnlyStale

\* Before a request is answered the sends number the attempts; afterwards the
\* last one went out on the call's credential.
SendsInv ==
    \A p \in Calls :
        /\ pc[p] \in Early => Len(sends[p]) <= attempt[p] /\ attempt[p] < MaxRetries
        /\ pc[p] \in Late =>
              /\ Len(sends[p]) <= attempt[p] + 1 /\ attempt[p] < MaxRetries
              /\ Len(sends[p]) > 0 /\ sends[p][Len(sends[p])] = cred[p]
        /\ pc[p] = "failed" => Len(sends[p]) <= MaxRetries

\* A step that leaves the lock alone, takes it, or returns it.
LockShape(p) ==
    \/ /\ UNCHANGED <<refresher, token>>
       /\ pc[p] \notin Refreshing /\ \E x \in PCs \ Refreshing : MovesPc(p, x)
    \/ /\ refresher = NoCall /\ refresher' = p /\ token' = token /\ cred' = cred
       /\ \/ MovesPc(p, "refresh") /\ token[cred[p]] = "stale"
          \/ MovesPc(p, "forcing")
    \/ /\ pc[p] \in Refreshing /\ refresher' = NoCall
       /\ \E x \in PCs \ Refreshing : MovesPc(p, x)

\* A step that sends, starts another attempt, or does neither.
SendShape(p) ==
    \/ Send(p)
    \/ NextAttempt(p) /\ sends' = sends
    \/ /\ UNCHANGED <<attempt, sends>>
       /\ \E x \in PCs : /\ MovesPc(p, x)
                         /\ x \in Early => pc[p] \in Early
                         /\ x \in Late => pc[p] \in Late /\ cred' = cred

\* A step that records a success, or neither records one nor ends a call well.
SuccessShape(p) ==
    \/ ReplyOk(p)
    \/ /\ successes' = successes
       /\ pc[p] \in Answered => sends' = sends
       /\ \E x \in PCs : MovesPc(p, x) /\ (x \in Answered <=> pc[p] \in Answered)

Shapes(p) == LockShape(p) /\ SendShape(p) /\ SuccessShape(p)

LEMMA NextAttemptMoves ==
  ASSUME NEW p \in Calls, NextAttempt(p)
  PROVE  \E x \in {"loop", "failed"} : MovesPc(p, x)
  BY DEF NextAttempt, MovesPc

LEMMA NextAttemptShapes ==
  ASSUME NEW p \in Calls, NEW more, NextAttempt(p) \/ NextAttemptIf(p, more),
         UNCHANGED <<refresher, token, sends, successes, cred>>,
         pc[p] \in PCs \ (Refreshing \cup Answered)
  PROVE  Shapes(p)
  <1>1. PICK x \in {"loop", "failed"} : MovesPc(p, x)
    BY NextAttemptMoves DEF NextAttemptIf, MovesPc
  <1>2. LockShape(p) /\ SuccessShape(p)
    BY <1>1 DEF LockShape, SuccessShape, PCs, Refreshing, Answered
  <1>3. NextAttempt(p) \/ (MovesPc(p, "failed") /\ attempt' = attempt)
    BY DEF NextAttemptIf, MovesPc
  <1>4. SendShape(p)
    BY <1>3 DEF SendShape, PCs, Early, Late
  <1>5. QED
    BY <1>2, <1>4 DEF Shapes

LEMMA StepShapes ==
  ASSUME NEW p \in Calls, NEW from \in PCs \ (Refreshing \cup Answered),
         NEW to \in PCs \ (Refreshing \cup Answered), Step(p, from, to),
         to \in Early => from \in Early, to \in Late => from \in Late /\ cred' = cred,
         UNCHANGED <<refresher, token, sends, successes, attempt>>
  PROVE  Shapes(p)
  BY DEF Shapes, LockShape, SendShape, SuccessShape, Step, MovesPc

LEMMA AcquireShapes ==
  ASSUME NEW p \in Calls, Start(p) \/ Acquire(p)
  PROVE  Shapes(p)
  <1> USE DEF entryVars, poolVars, callVars, history, PCs, Early, Late, Refreshing, Answered
  <1>1. CASE Start(p)
    BY <1>1, StepShapes DEF Start
  <1>2. CASE GiveUp(p)
    BY <1>2, NextAttemptShapes DEF GiveUp
  <1>3. CASE ReadMode(p)
    BY <1>3, StepShapes DEF ReadMode
  <1>4. CASE CurrentHit(p)
    BY <1>4, StepShapes DEF CurrentHit
  <1>5. CASE CurrentMiss(p)
    BY <1>5, StepShapes DEF CurrentMiss
  <1>6. CASE SelectNext(p)
    BY <1>6, StepShapes DEF SelectNext
  <1>7. CASE SelectNone(p)
    BY <1>7, StepShapes DEF SelectNone
  <1>8. CASE AdoptCurrent(p)
    BY <1>8, StepShapes DEF AdoptCurrent
  <1>9. CASE TakePermit(p)
    BY <1>9, StepShapes DEF TakePermit
  <1>10. CASE NoPermit(p)
    BY <1>10, StepShapes DEF NoPermit
  <1>11. CASE Poll(p)
    BY <1>11, StepShapes DEF Poll
  <1>12. CASE Bail(p)
    BY <1>12, NextAttemptShapes DEF Bail
  <1>13. QED
    BY <1>1, <1>2, <1>3, <1>4, <1>5, <1>6, <1>7, <1>8, <1>9, <1>10, <1>11, <1>12 DEF Acquire

LEMMA EnsureTokenShapes ==
  ASSUME Typed, NEW p \in Calls, EnsureToken(p)
  PROVE  Shapes(p)
  <1> USE DEF entryVars, poolVars, callVars, history, PCs, Early, Late, Refreshing, Answered
  <1>1. CASE TokenFresh(p)
    BY <1>1, StepShapes DEF TokenFresh
  <1>2. CASE TokenRecheck(p)
    BY <1>2 DEF TokenRecheck, LockFree, Reread, Shapes, LockShape, SendShape, SuccessShape, Step, MovesPc
  <1>3. CASE RefreshDone(p)
    BY <1>3 DEF RefreshDone, Shapes, LockShape, SendShape, SuccessShape, Step, MovesPc
  <1>4. CASE RefreshFailed(p)
    BY <1>4 DEF RefreshFailed, Shapes, LockShape, SendShape, SuccessShape, Step, MovesPc
  <1>5. CASE ReportTokenFailure(p)
    <2>1. CASE NextAttempt(p)
      BY <1>5, <2>1, NextAttemptShapes DEF ReportTokenFailure
    <2>2. CASE ~NextAttempt(p)
      BY <1>5, <2>2 DEF ReportTokenFailure, Shapes, LockShape, SendShape, SuccessShape, MovesPc
    <2>3. QED
      BY <2>1, <2>2
  <1>6. CASE ForceLock(p)
    BY <1>6 DEF ForceLock, LockFree, Shapes, LockShape, SendShape, SuccessShape, Step, MovesPc
  <1>7. CASE ForceDone(p)
    <2>1. \E x \in {"loop", "failed"} : MovesPc(p, x)
      BY <1>7, NextAttemptMoves DEF ForceDone
    <2>2. QED
      BY <1>7, <2>1 DEF ForceDone, Shapes, LockShape, SendShape, SuccessShape, MovesPc
  <1>8. CASE ForceFailed(p)
    BY <1>8 DEF ForceFailed, Shapes, LockShape, SendShape, SuccessShape, Step, MovesPc
  <1>9. CASE ForceFailedReport(p)
    BY <1>9, NextAttemptShapes DEF ForceFailedReport
  <1>10. QED
    BY <1>1, <1>2, <1>3, <1>4, <1>5, <1>6, <1>7, <1>8, <1>9 DEF EnsureToken

LEMMA UpstreamShapes ==
  ASSUME Typed, NEW p \in Calls, Upstream(p)
  PROVE  Shapes(p)
  <1> USE DEF entryVars, poolVars, callVars, history, PCs, Early, Late, Refreshing, Answered
  <1>1. CASE UnknownEndpoint(p)
    BY <1>1, NextAttemptShapes DEF UnknownEndpoint
  <1>2. CASE NoClient(p)
    BY <1>2, StepShapes DEF NoClient
  <1>3. CASE Send(p)
    BY <1>3 DEF Send, Shapes, LockShape, SendShape, SuccessShape, Step, MovesPc
  <1>4. CASE ReplyOk(p)
    BY <1>4 DEF ReplyOk, Shapes, LockShape, SendShape, SuccessShape, Step, MovesPc
  <1>5. CASE BodyEnds(p)
    BY <1>5 DEF BodyEnds, Shapes, LockShape, SendShape, SuccessShape, Step, MovesPc
  <1>6. CASE ReplyTransportError(p)
    BY <1>6, StepShapes, NextAttemptShapes DEF ReplyTransportError
  <1>7. CASE ReplyQuota(p)
    BY <1>7, NextAttemptShapes DEF ReplyQuota
  <1>8. CASE ReplyRateLimited(p)
    BY <1>8, NextAttemptShapes DEF ReplyRateLimited
  <1>9. CASE ReplyClientError(p)
    BY <1>9, StepShapes DEF ReplyClientError
  <1>10. CASE ReplyBearerInvalid(p)
    BY <1>10, StepShapes DEF ReplyBearerInvalid
  <1>11. CASE ReplyDenied(p)
    BY <1>11, NextAttemptShapes DEF ReplyDenied
  <1>12. CASE ReplyTransient(p)
    BY <1>12, StepShapes, NextAttemptShapes DEF ReplyTransient
  <1>13. CASE BackoffOver(p)
    BY <1>13, NextAttemptShapes DEF BackoffOver
  <1>14. QED
    BY <1>1, <1>2, <1>3, <1>4, <1>5, <1>6, <1>7, <1>8, <1>9, <1>10, <1>11, <1>12, <1>13
       DEF Upstream

LEMMA CallShapes ==
  ASSUME Typed, NEW p \in Calls, CallStep(p)
  PROVE  Shapes(p) /\ (Keeps(p) \/ TakePermit(p) \/ Gives(p))
  BY AcquireShapes, EnsureTokenShapes, UpstreamShapes, AcquireShape, EnsureTokenShape, UpstreamShape
     DEF CallStep

-----------------------------------------------------------------------------
LEMMA LockStep ==
  ASSUME Typed, LockInv, NEW p \in Calls, CallStep(p)
  PROVE  LockInv'
  <1>1. LockShape(p) /\ (Keeps(p) \/ TakePermit(p) \/ Gives(p))
    BY CallShapes DEF Shapes
  <1>2. \A q \in Calls \ {p} : pc'[q] = pc[q] /\ cred'[q] = cred[q]
    BY <1>1 DEF Keeps, TakePermit, Gives, MovesPc, Step, callVars, Typed
  <1>0. p # NoCall /\ (pc[p] \in Refreshing <=> refresher = p)
    BY CallsAssumption DEF LockInv
  <1>3. ASSUME NEW q \in Calls PROVE pc'[q] \in Refreshing <=> refresher' = q
    <2>0. q # NoCall /\ (pc[q] \in Refreshing <=> refresher = q)
      BY CallsAssumption DEF LockInv
    <2>1. ASSUME NEW x, MovesPc(p, x) PROVE pc'[p] = x
      BY <2>1 DEF MovesPc, Typed
    <2>2. CASE UNCHANGED <<refresher, token>> /\ pc[p] \notin Refreshing
               /\ \E x \in PCs \ Refreshing : MovesPc(p, x)
      <3>1. pc'[p] \notin Refreshing
        BY <2>1, <2>2
      <3>2. QED
        BY <1>0, <1>2, <2>0, <2>2, <3>1
    <2>3. CASE refresher = NoCall /\ refresher' = p
               /\ (MovesPc(p, "refresh") \/ MovesPc(p, "forcing"))
      <3>1. pc'[p] \in Refreshing
        BY <2>1, <2>3 DEF Refreshing
      <3>2. QED
        BY <1>0, <1>2, <2>0, <2>3, <3>1
    <2>4. CASE pc[p] \in Refreshing /\ refresher' = NoCall
               /\ \E x \in PCs \ Refreshing : MovesPc(p, x)
      <3>1. pc'[p] \notin Refreshing
        BY <2>1, <2>4
      <3>2. QED
        BY <1>0, <1>2, <2>0, <2>4, <3>1
    <2>5. QED
      BY <1>1, <2>2, <2>3, <2>4 DEF LockShape
  <1>4. ASSUME NEW q \in Calls, pc'[q] = "refresh" PROVE token'[cred'[q]] = "stale"
    <2>1. CASE q = p
      BY <1>1, <1>4, <2>1 DEF LockShape, MovesPc, Typed, Refreshing
    <2>2. CASE q # p
      BY <1>1, <1>2, <1>4, <2>2 DEF LockShape, LockInv, RefreshOnlyStale, Refreshing
    <2>3. QED
      BY <2>1, <2>2
  <1>5. QED
    BY <1>3, <1>4 DEF LockInv, RefreshOnlyStale

\* The refresh lock and the second check under it work for every number of calls.
THEOREM LockSafe == Spec => []LockInv
  <1>1. Init => LockInv
    BY CallsAssumption DEF Init, LockInv, RefreshOnlyStale, Refreshing
  <1>2. Typed /\ LockInv /\ [Next]_vars => LockInv'
    <2> SUFFICES ASSUME Typed, LockInv, [Next]_vars PROVE LockInv'
      OBVIOUS
    <2>1. CASE \E p \in Calls : CallStep(p)
      BY <2>1, LockStep
    <2>2. CASE ~ \E p \in Calls : CallStep(p)
      BY <2>2, ElsewhereShape DEF LockInv, RefreshOnlyStale, callVars, Typed, Chosen, Holding
    <2>3. QED
      BY <2>1, <2>2
  <1>3. QED
    BY <1>1, <1>2, AlwaysTyped, PTL DEF Spec

\* Refreshes are one at a time, forced ones included.
THEOREM SingleFlight == Spec => []RefreshSingleFlight
  <1>1. LockInv => RefreshSingleFlight
    BY DEF LockInv, RefreshSingleFlight
  <1>2. QED
    BY <1>1, LockSafe, PTL

\* A token that another call has just refreshed is never refreshed again.
THEOREM OnlyStaleRefreshed == Spec => []RefreshOnlyStale
  <1>1. LockInv => RefreshOnlyStale
    BY DEF LockInv
  <1>2. QED
    BY <1>1, LockSafe, PTL

-----------------------------------------------------------------------------
LEMMA MaxRetriesPositive == MaxRetries \in Nat /\ MaxRetries >= 1
  <1>1. Cardinality(Creds) \in Nat /\ Cardinality(Creds) # 0
    BY CredsAssumption, FS_CardinalityType, FS_EmptySet
  <1>2. Cardinality(Creds) * RetriesPerCred \in Nat /\ Cardinality(Creds) * RetriesPerCred >= 1
    BY <1>1, LimitsAssumption
  <1>3. QED
    BY <1>2, LimitsAssumption DEF MaxRetries, Smaller

\* A call that has failed makes no step.
LEMMA CallEnabledEarlyLate ==
  ASSUME Typed, NEW p \in Calls, CallStep(p)
  PROVE  pc[p] \in Early \cup Late
  <1>1. pc[p] # "failed"
    BY DEF CallStep, Start, Acquire, EnsureToken, Upstream, Step, GiveUp, ReadMode, CurrentHit,
       CurrentMiss, SelectNext, SelectNone, AdoptCurrent, TakePermit, NoPermit, Poll, Bail,
       TokenFresh, TokenRecheck, RefreshDone, RefreshFailed, ReportTokenFailure, ForceLock,
       ForceDone, ForceFailed, ForceFailedReport, UnknownEndpoint, NoClient, Send, ReplyOk,
       BodyEnds, ReplyTransportError, ReplyQuota, ReplyRateLimited, ReplyClientError,
       ReplyBearerInvalid, ReplyDenied, ReplyTransient, BackoffOver
  <1>2. QED
    BY <1>1 DEF Typed, PCs, Early, Late

LEMMA SendsStep ==
  ASSUME Typed, SendsInv, NEW p \in Calls, CallStep(p)
  PROVE  SendsInv'
  <1> DEFINE Ok(q) ==
        /\ pc[q] \in Early => Len(sends[q]) <= attempt[q] /\ attempt[q] < MaxRetries
        /\ pc[q] \in Late =>
              /\ Len(sends[q]) <= attempt[q] + 1 /\ attempt[q] < MaxRetries
              /\ Len(sends[q]) > 0 /\ sends[q][Len(sends[q])] = cred[q]
        /\ pc[q] = "failed" => Len(sends[q]) <= MaxRetries
  <1>1. SendShape(p) /\ (Keeps(p) \/ TakePermit(p) \/ Gives(p))
    BY CallShapes DEF Shapes
  <1>2. Len(sends[p]) \in Nat /\ attempt[p] \in Nat /\ MaxRetries \in Nat /\ pc[p] \in PCs
    BY MaxRetriesPositive DEF Typed
  <1>3. ASSUME NEW q \in Calls \ {p} PROVE Ok(q)'
    <2>1. /\ pc'[q] = pc[q] /\ cred'[q] = cred[q]
          /\ sends'[q] = sends[q] /\ attempt'[q] = attempt[q]
      BY <1>1 DEF SendShape, Keeps, TakePermit, Gives, MovesPc, Step, callVars, Typed, Send, NextAttempt
    <2>2. QED
      BY <2>1 DEF SendsInv
  <1>4. Ok(p)'
    <2>0. Ok(p)
      BY DEF SendsInv
    <2>1. CASE Send(p)
      <3>1. /\ pc[p] = "send" /\ pc'[p] = "reply" /\ cred'[p] = cred[p] /\ attempt'[p] = attempt[p]
            /\ sends'[p] = Append(sends[p], cred[p])
        BY <2>1 DEF Send, Step, callVars, Typed
      <3>2. cred[p] \in Creds /\ sends[p] \in Seq(Creds)
        BY <3>1 DEF Typed, Chosen, Holding
      <3>3. Len(sends'[p]) = Len(sends[p]) + 1 /\ sends'[p][Len(sends[p]) + 1] = cred[p]
        BY <3>1, <3>2
      <3>4. QED
        BY <1>2, <2>0, <3>1, <3>3 DEF Early, Late
    <2>2. CASE NextAttempt(p) /\ sends' = sends
      <3>1. attempt'[p] = attempt[p] + 1 /\ sends'[p] = sends[p]
        BY <2>2 DEF NextAttempt, Typed
      <3>2. /\ attempt[p] + 1 < MaxRetries => pc'[p] = "loop"
            /\ ~(attempt[p] + 1 < MaxRetries) => pc'[p] = "failed"
        BY <2>2 DEF NextAttempt, MoreAttempts, Typed
      <3>3. pc[p] \in Early \cup Late
        BY <1>1, <1>2, <2>2, CallEnabledEarlyLate
      <3>4. QED
        BY <1>2, <2>0, <3>1, <3>2, <3>3 DEF Early, Late
    <2>3. ASSUME NEW x \in PCs, MovesPc(p, x), UNCHANGED <<attempt, sends>>,
                 x \in Early => pc[p] \in Early,
                 x \in Late => pc[p] \in Late /\ cred' = cred
          PROVE  Ok(p)'
      <3>1. pc[p] \in Early \cup Late
        BY CallEnabledEarlyLate
      <3>3. pc'[p] = x /\ sends'[p] = sends[p] /\ attempt'[p] = attempt[p]
        BY <2>3 DEF MovesPc, Typed
      <3>4. Len(sends[p]) <= MaxRetries
        BY <1>2, <2>0, <3>1
      <3>5. CASE x \in Early
        BY <2>0, <2>3, <3>3, <3>5 DEF Early, Late
      <3>6. CASE x \in Late
        BY <2>0, <2>3, <3>3, <3>6 DEF Early, Late
      <3>7. CASE x = "failed"
        BY <3>3, <3>4, <3>7 DEF Early, Late
      <3>8. QED
        BY <3>5, <3>6, <3>7 DEF PCs, Early, Late
    <2>4. QED
      BY <1>1, <2>1, <2>2, <2>3 DEF SendShape
  <1>5. QED
    BY <1>3, <1>4 DEF SendsInv

LEMMA SendsSafe == Spec => []SendsInv
  <1>1. Init => SendsInv
    <2> SUFFICES ASSUME Init PROVE SendsInv
      OBVIOUS
    <2>1. 0 < MaxRetries
      BY MaxRetriesPositive
    <2>2. \A p \in Calls : pc[p] = "idle" /\ sends[p] = << >> /\ attempt[p] = 0
      BY DEF Init
    <2>3. QED
      BY <2>1, <2>2 DEF SendsInv, Early, Late
  <1>2. Typed /\ SendsInv /\ [Next]_vars => SendsInv'
    <2> SUFFICES ASSUME Typed, SendsInv, [Next]_vars PROVE SendsInv'
      OBVIOUS
    <2>1. CASE \E p \in Calls : CallStep(p)
      BY <2>1, SendsStep
    <2>2. CASE ~ \E p \in Calls : CallStep(p)
      BY <2>2, ElsewhereShape DEF SendsInv, callVars, history
    <2>3. QED
      BY <2>1, <2>2
  <1>3. QED
    BY <1>1, <1>2, AlwaysTyped, PTL DEF Spec

\* The bound on requests holds through every path of the retry loop.
THEOREM RetriesAlwaysBounded == Spec => []RetriesBounded
  <1>1. Typed /\ SendsInv => RetriesBounded
    <2> SUFFICES ASSUME Typed, SendsInv, NEW p \in Calls PROVE Len(sends[p]) <= MaxRetries
      BY DEF RetriesBounded
    <2>1. Len(sends[p]) \in Nat /\ attempt[p] \in Nat /\ MaxRetries \in Nat /\ pc[p] \in PCs
      BY MaxRetriesPositive DEF Typed
    <2>2. pc[p] \in Early \/ pc[p] \in Late \/ pc[p] = "failed"
      BY <2>1 DEF PCs, Early, Late
    <2>3. QED
      BY <2>1, <2>2 DEF SendsInv
  <1>2. QED
    BY <1>1, AlwaysTyped, SendsSafe, PTL

-----------------------------------------------------------------------------
\* The calls that were answered on c.
AnsweredOn(c) ==
    {p \in Calls : pc[p] \in {"body", "served"} /\ sends[p][Len(sends[p])] = c}

LEMMA AnsweredFinite == \A c \in Creds : /\ IsFiniteSet(AnsweredOn(c))
                                         /\ Cardinality(AnsweredOn(c)) \in Nat
  <1>1. \A c \in Creds : AnsweredOn(c) \subseteq Calls
    BY DEF AnsweredOn
  <1>2. QED
    BY <1>1, CallsAssumption, FS_Subset, FS_CardinalityType

\* A step of a call that is not the answer changes neither side.
LEMMA UnansweredStep ==
  ASSUME Typed, NEW p \in Calls, CallStep(p), ~ ReplyOk(p), NEW c \in Creds
  PROVE  successes'[c] = successes[c] /\ AnsweredOn(c)' = AnsweredOn(c)
  <1>1. SuccessShape(p) /\ SendShape(p) /\ (Keeps(p) \/ TakePermit(p) \/ Gives(p))
    BY CallShapes DEF Shapes
  <1>2. \A q \in Calls \ {p} : pc'[q] = pc[q] /\ sends'[q] = sends[q]
    BY <1>1 DEF SendShape, Keeps, TakePermit, Gives, MovesPc, Step, Typed, Send
  <1>3. PICK x \in PCs : MovesPc(p, x) /\ (x \in Answered <=> pc[p] \in Answered)
    BY <1>1 DEF SuccessShape
  <1>4. pc'[p] = x
    BY <1>3 DEF MovesPc, Typed
  <1>5. \A q \in Calls : pc'[q] \in Answered <=> pc[q] \in Answered
    BY <1>2, <1>3, <1>4
  <1>6. \A q \in Calls : pc[q] \in Answered => sends'[q] = sends[q]
    BY <1>1, <1>2 DEF SuccessShape
  <1>7. AnsweredOn(c)' = AnsweredOn(c)
    BY <1>5, <1>6 DEF AnsweredOn, Answered
  <1>8. QED
    BY <1>1, <1>7 DEF SuccessShape

\* The answer adds the call to the set of the credential its request went out on.
LEMMA AnswerStep ==
  ASSUME Typed, SendsInv, SuccessesTruthful, NEW p \in Calls, ReplyOk(p), NEW c \in Creds
  PROVE  successes'[c] = Cardinality(AnsweredOn(c)')
  <1>1. /\ pc[p] = "reply" /\ pc' = [pc EXCEPT ![p] = "body"] /\ sends' = sends
        /\ successes' = [successes EXCEPT ![cred[p]] = @ + 1]
    BY DEF ReplyOk, Step, CreditedTo, history
  <1>2. cred[p] \in Creds /\ sends[p][Len(sends[p])] = cred[p]
    BY <1>1 DEF Typed, Chosen, Holding, SendsInv, Late
  <1>3. pc'[p] = "body" /\ \A q \in Calls \ {p} : pc'[q] = pc[q]
    BY <1>1 DEF Typed
  <1>4. successes[c] = Cardinality(AnsweredOn(c))
    BY DEF SuccessesTruthful, AnsweredOn
  <1>5. p \notin AnsweredOn(c)
    BY <1>1 DEF AnsweredOn
  <1>6. CASE c = cred[p]
    <2>1. AnsweredOn(c)' = AnsweredOn(c) \cup {p}
      BY <1>1, <1>2, <1>3, <1>6 DEF AnsweredOn
    <2>2. Cardinality(AnsweredOn(c)') = Cardinality(AnsweredOn(c)) + 1
      BY <1>5, <2>1, AnsweredFinite, FS_AddElement
    <2>3. successes'[c] = successes[c] + 1
      BY <1>1, <1>2, <1>6 DEF Typed
    <2>4. QED
      BY <1>4, <2>2, <2>3
  <1>7. CASE c # cred[p]
    <2>1. AnsweredOn(c)' = AnsweredOn(c)
      BY <1>1, <1>2, <1>3, <1>7 DEF AnsweredOn
    <2>2. successes'[c] = successes[c]
      BY <1>1, <1>7 DEF Typed
    <2>3. QED
      BY <1>4, <2>1, <2>2
  <1>8. QED
    BY <1>6, <1>7

\* Each success is credited to the account that gave the answer, whatever the
\* other calls and the admin do to current_id meanwhile.
THEOREM SuccessesAlwaysTruthful == Spec => []SuccessesTruthful
  <1>1. Init => SuccessesTruthful
    <2> SUFFICES ASSUME Init, NEW c \in Creds PROVE successes[c] = Cardinality(AnsweredOn(c))
      BY DEF SuccessesTruthful, AnsweredOn
    <2>1. AnsweredOn(c) = {}
      BY DEF Init, AnsweredOn
    <2>2. QED
      BY <2>1, FS_EmptySet DEF Init
  <1>2. Typed /\ SendsInv /\ SuccessesTruthful /\ [Next]_vars => SuccessesTruthful'
    <2> SUFFICES ASSUME Typed, SendsInv, SuccessesTruthful, [Next]_vars, NEW c \in Creds
                 PROVE  successes'[c] = Cardinality(AnsweredOn(c)')
      BY DEF SuccessesTruthful, AnsweredOn
    <2>1. successes[c] = Cardinality(AnsweredOn(c))
      BY DEF SuccessesTruthful, AnsweredOn
    <2>2. CASE \E p \in Calls : CallStep(p)
      BY <2>1, <2>2, AnswerStep, UnansweredStep
    <2>3. CASE ~ \E p \in Calls : CallStep(p)
      BY <2>1, <2>3, ElsewhereShape DEF AnsweredOn
    <2>4. QED
      BY <2>2, <2>3
  <1>3. QED
    BY <1>1, <1>2, AlwaysTyped, SendsSafe, PTL DEF Spec

-----------------------------------------------------------------------------
(* Leaving a limited account.  Between the report and the next request     *)
(* current_id stays on another enabled account, which is the one the call  *)
(* selects.                                                                *)

BeforeSend == {"permit", "token", "refresh", "send"}
Underway == BeforeSend \cup {"loop", "hit", "blocked", "backoff", "tokfail", "tokinvalid"}

\* A call works on an enabled account, and after a report not on the one it left.
Left(p) ==
    /\ pc[p] \in Chosen => ~disabled[cred[p]]
    /\ limited[p] # {} =>
         \/ pc[p] = "failed"
         \/ /\ pc[p] \in Underway
            /\ current \in Enabled \ limited[p]
            /\ pc[p] \in BeforeSend => cred[p] \notin limited[p]

\* An admin request that is in progress has been counted.
LeftInv ==
    /\ admin # NoRequest => adminOps > 0
    /\ mode = "priority" /\ adminOps = 0 => \A p \in Calls : Left(p)

\* A step of the call that touches neither current_id nor what was left.
LEMMA LeftMoves ==
  ASSUME Typed, NEW p \in Calls, Left(p), NEW to, MovesPc(p, to),
         UNCHANGED <<cred, current, disabled, limited>>,
         to \in Chosen => pc[p] \in Chosen,
         pc[p] \in Underway => to = "failed" \/ to \in Underway,
         pc[p] = "failed" => to = "failed",
         to \in BeforeSend => pc[p] \in BeforeSend
  PROVE  Left(p)'
  <1>1. pc'[p] = to /\ Enabled' = Enabled
    BY DEF MovesPc, Typed, Enabled
  <1>2. QED
    BY <1>1 DEF Left

\* A step after which the call is held to nothing.
LEMMA LeftClears ==
  ASSUME Typed, NEW p \in Calls, Left(p), UNCHANGED <<cred, disabled>>, limited'[p] = {},
         pc'[p] \in Chosen => pc[p] \in Chosen
  PROVE  Left(p)'
  BY DEF Left

\* A report of the account in use, when another one is enabled, leaves it.
LEMMA LeftReports ==
  ASSUME Typed, NEW p \in Calls, Left(p), pc[p] = "reply",
         LeaveCred(cred[p]), Leaves(p, {cred[p]}), UNCHANGED <<cred, disabled>>,
         NEW to \in {"loop", "backoff", "failed"}, MovesPc(p, to),
         to # "failed" => Others(cred[p]) # {}
  PROVE  Left(p)'
  <1>1. cred[p] \in Creds /\ ~disabled[cred[p]]
    BY DEF Left, Typed, Chosen, Holding
  <1>2. pc'[p] = to /\ limited'[p] = {cred[p]} /\ Enabled' = Enabled
    BY DEF MovesPc, Typed, Leaves, Enabled
  <1>3. ASSUME to # "failed" PROVE current' \in Enabled \ {cred[p]}
    BY <1>1, <1>3 DEF LeaveCred, MoveCurrentTo, HighestPriority, Others
  <1>4. QED
    BY <1>1, <1>2, <1>3 DEF Left, Underway, BeforeSend, Chosen, Holding

LEMMA NextAttemptIfMoves ==
  ASSUME NEW p \in Calls, NEW more \in BOOLEAN, NextAttemptIf(p, more)
  PROVE  \E x \in {"loop", "failed"} : MovesPc(p, x) /\ (x # "failed" => more)
  BY NextAttemptMoves DEF NextAttemptIf, MovesPc

LEMMA AcquireLeft ==
  ASSUME Typed, NEW p \in Calls, Left(p), mode = "priority", Start(p) \/ Acquire(p)
  PROVE  Left(p)'
  <1> USE DEF Step, MovesPc, entryVars, poolVars, callVars, history,
              Chosen, Holding, Underway, BeforeSend
  <1>1. CASE Start(p)
    BY <1>1, LeftMoves DEF Start
  <1>2. CASE GiveUp(p) \/ Bail(p)
    <2>1. PICK x \in {"loop", "failed"} : MovesPc(p, x)
      BY <1>2, NextAttemptMoves DEF GiveUp, Bail
    <2>2. QED
      BY <1>2, <2>1, LeftMoves DEF GiveUp, Bail
  <1>3. CASE ReadMode(p)
    BY <1>3, LeftMoves DEF ReadMode
  <1>4. CASE CurrentHit(p)
    <2>1. /\ current \in Enabled /\ cred'[p] = current /\ pc[p] = "hit" /\ pc'[p] = "permit"
          /\ UNCHANGED <<current, disabled, limited>>
      BY <1>4 DEF CurrentHit, Typed
    <2>2. Enabled' = Enabled
      BY <2>1 DEF Enabled
    <2>3. QED
      BY <2>1, <2>2 DEF Left, Enabled
  <1>5. CASE CurrentMiss(p)
    <2>1. limited[p] = {} /\ limited' = limited
      BY <1>5 DEF CurrentMiss, Left
    <2>2. QED
      BY <1>5, <2>1, LeftClears DEF CurrentMiss, Typed
  <1>6. CASE SelectNext(p)
    <2>1. PICK c \in Preferred(Candidates(p)) : cred' = [cred EXCEPT ![p] = c]
      BY <1>6 DEF SelectNext
    <2>2. c \in Enabled
      BY DEF Preferred, LeastUsed, HighestPriority, Candidates
    <2>3. pc[p] = "next" /\ UNCHANGED <<disabled, limited>> /\ cred'[p] = c
      BY <1>6, <2>1 DEF SelectNext, Typed
    <2>4. QED
      BY <2>2, <2>3 DEF Left, Enabled
  <1>7. CASE SelectNone(p)
    <2>1. limited[p] = {} /\ limited' = limited
      BY <1>7 DEF SelectNone, Left
    <2>2. QED
      BY <1>7, <2>1, LeftClears DEF SelectNone, Typed
  <1>8. CASE AdoptCurrent(p)
    <2>1. limited[p] = {} /\ limited'[p] = limited[p]
      BY <1>8 DEF AdoptCurrent, Left, Leaves
    <2>2. QED
      BY <1>8, <2>1, LeftClears DEF AdoptCurrent, Typed
  <1>9. CASE TakePermit(p)
    BY <1>9, LeftMoves DEF TakePermit
  <1>10. CASE NoPermit(p)
    BY <1>10, LeftMoves DEF NoPermit
  <1>11. CASE Poll(p)
    BY <1>11, LeftMoves DEF Poll
  <1>12. QED
    BY <1>1, <1>2, <1>3, <1>4, <1>5, <1>6, <1>7, <1>8, <1>9, <1>10, <1>11 DEF Acquire

LEMMA EnsureTokenLeft ==
  ASSUME Typed, NEW p \in Calls, Left(p), EnsureToken(p)
  PROVE  Left(p)'
  <1> USE DEF Step, MovesPc, entryVars, poolVars, callVars, history,
              Chosen, Holding, Underway, BeforeSend
  <1>1. CASE TokenFresh(p)
    BY <1>1, LeftMoves DEF TokenFresh
  <1>2. CASE TokenRecheck(p)
    BY <1>2, LeftMoves DEF TokenRecheck
  <1>3. CASE RefreshDone(p)
    BY <1>3, LeftMoves DEF RefreshDone
  <1>4. CASE RefreshFailed(p)
    BY <1>4, LeftMoves DEF RefreshFailed
  <1>5. CASE ReportTokenFailure(p)
    <2>1. limited'[p] = {} /\ UNCHANGED <<cred, disabled>>
      BY <1>5 DEF ReportTokenFailure, Leaves
    <2>2. pc[p] \in Chosen
      BY <1>5 DEF ReportTokenFailure
    <2>3. QED
      BY <2>1, <2>2, LeftClears
  <1>6. CASE ForceLock(p)
    BY <1>6, LeftMoves DEF ForceLock
  <1>7. CASE ForceDone(p)
    <2>1. PICK x \in {"loop", "failed"} : MovesPc(p, x)
      BY <1>7, NextAttemptMoves DEF ForceDone
    <2>2. QED
      BY <1>7, <2>1, LeftMoves DEF ForceDone
  <1>8. CASE ForceFailed(p) \/ ForceFailedReport(p)
    <2>1. pc[p] \in {"forcing", "forcefail"} /\ UNCHANGED <<cred, disabled>> /\ limited'[p] = limited[p]
      BY <1>8 DEF ForceFailed, ForceFailedReport, Leaves
    <2>2. limited'[p] = {}
      BY <2>1 DEF Left
    <2>3. QED
      BY <2>1, <2>2, LeftClears
  <1>9. QED
    BY <1>1, <1>2, <1>3, <1>4, <1>5, <1>6, <1>7, <1>8 DEF EnsureToken

LEMMA UpstreamLeft ==
  ASSUME Typed, NEW p \in Calls, Left(p), Upstream(p)
  PROVE  Left(p)'
  <1> USE DEF Step, MovesPc, entryVars, poolVars, callVars, history,
              Chosen, Holding, Underway, BeforeSend
  <1>1. CASE NoClient(p)
    BY <1>1, LeftMoves DEF NoClient
  <1>2. CASE ReplyOk(p)
    BY <1>2, LeftMoves DEF ReplyOk
  <1>3. CASE BodyEnds(p)
    BY <1>3, LeftMoves DEF BodyEnds
  <1>4. CASE ReplyClientError(p)
    BY <1>4, LeftMoves DEF ReplyClientError
  <1>5. CASE ReplyBearerInvalid(p)
    BY <1>5, LeftMoves DEF ReplyBearerInvalid
  <1>6. CASE ReplyTransient(p) \/ BackoffOver(p)
    <2>1. PICK x \in {"loop", "backoff", "failed"} : MovesPc(p, x) /\ (x = "backoff" => pc[p] = "reply")
      BY <1>6, NextAttemptMoves DEF ReplyTransient, BackoffOver
    <2>2. QED
      BY <1>6, <2>1, LeftMoves DEF ReplyTransient, BackoffOver
  <1>7. CASE Send(p) \/ UnknownEndpoint(p)
    <2>1. pc[p] \in Chosen /\ UNCHANGED <<cred, disabled>> /\ limited'[p] = {}
      BY <1>7 DEF Send, UnknownEndpoint, Leaves, Typed
    <2>2. QED
      BY <2>1, LeftClears
  <1>8. CASE ReplyDenied(p)
    <2>1. pc[p] = "reply" /\ UNCHANGED <<cred, disabled>> /\ limited'[p] = limited[p]
      BY <1>8 DEF ReplyDenied, Leaves
    <2>2. limited'[p] = {}
      BY <2>1 DEF Left
    <2>3. QED
      BY <2>1, <2>2, LeftClears
  <1>9. CASE ReplyTransportError(p) \/ ReplyQuota(p) \/ ReplyRateLimited(p)
    <2>1. /\ pc[p] = "reply" /\ UNCHANGED <<cred, disabled>>
          /\ LeaveCred(cred[p]) /\ Leaves(p, {cred[p]})
      BY <1>9 DEF ReplyTransportError, ReplyQuota, ReplyRateLimited,
                  ReportTransportError, ReportQuotaExhausted, ReportRateLimited
    <2>2. \/ MovesPc(p, "backoff") /\ Others(cred[p]) # {}
          \/ NextAttemptIf(p, Others(cred[p]) # {})
      BY <1>9 DEF ReplyTransportError, ReplyQuota, ReplyRateLimited
    <2>3. PICK x \in {"loop", "backoff", "failed"} :
             MovesPc(p, x) /\ (x # "failed" => Others(cred[p]) # {})
      BY <2>2, NextAttemptIfMoves
    <2>4. QED
      BY <2>1, <2>3, LeftReports
  <1>10. QED
    BY <1>1, <1>2, <1>3, <1>4, <1>5, <1>6, <1>7, <1>8, <1>9 DEF Upstream

\* What a step of one call does to the others: it may move current_id, and then they
\* are held to nothing any more.
LEMMA OthersShape ==
  ASSUME Typed, NEW p \in Calls, CallStep(p)
  PROVE  /\ UNCHANGED <<disabled, mode, admin, adminOps>>
         /\ \A q \in Calls \ {p} : \/ limited'[q] = {}
                                   \/ limited'[q] = limited[q] /\ current' = current
  <1> USE DEF entryVars, poolVars, callVars, envVars, history
  <1>1. CASE Start(p) \/ Acquire(p)
    BY <1>1 DEF Start, Acquire, GiveUp, ReadMode, CurrentHit, CurrentMiss, SelectNext, SelectNone,
                AdoptCurrent, TakePermit, NoPermit, Poll, Bail, Leaves
  <1>2. CASE EnsureToken(p)
    BY <1>2 DEF EnsureToken, TokenFresh, TokenRecheck, RefreshDone, RefreshFailed,
                ReportTokenFailure, ForceLock, ForceDone, ForceFailed, ForceFailedReport, Leaves
  <1>3. CASE Upstream(p)
    <2>1. CASE Send(p)
      BY <2>1 DEF Send, Typed
    <2>2. CASE ~Send(p)
      BY <1>3, <2>2 DEF Upstream, UnknownEndpoint, NoClient, ReplyOk, BodyEnds,
                ReplyTransportError, ReplyQuota, ReplyRateLimited, ReplyClientError,
                ReplyBearerInvalid, ReplyDenied, ReplyTransient, BackoffOver, Leaves
    <2>3. QED
      BY <2>1, <2>2
  <1>4. QED
    BY <1>1, <1>2, <1>3 DEF CallStep

LEMMA CallLeft ==
  ASSUME Typed, LeftInv, NEW p \in Calls, CallStep(p)
  PROVE  LeftInv'
  <1>1. UNCHANGED <<disabled, mode, admin, adminOps>>
    BY OthersShape
  <1>2. ASSUME mode = "priority", adminOps = 0, NEW q \in Calls PROVE Left(q)'
    <2>1. Left(p) /\ Left(q)
      BY <1>2 DEF LeftInv
    <2>2. CASE q = p
      BY <1>2, <2>1, <2>2, AcquireLeft, EnsureTokenLeft, UpstreamLeft DEF CallStep
    <2>3. CASE q # p
      <3>0. Keeps(p) \/ TakePermit(p) \/ Gives(p)
        BY CallShapes
      <3>1. pc'[q] = pc[q] /\ cred'[q] = cred[q]
        BY <2>3, <3>0 DEF Keeps, TakePermit, Gives, MovesPc, Step, callVars, Typed
      <3>2. limited'[q] = {} \/ (limited'[q] = limited[q] /\ current' = current)
        BY <2>3, OthersShape
      <3>3. QED
        BY <1>1, <2>1, <3>1, <3>2 DEF Left, Enabled
    <2>4. QED
      BY <2>2, <2>3
  <1>3. QED
    BY <1>1, <1>2 DEF LeftInv, NoRequest

LEMMA ElsewhereLeft ==
  ASSUME Typed, LeftInv, [Next]_vars, ~ \E p \in Calls : CallStep(p)
  PROVE  LeftInv'
  <1> USE DEF vars, entryVars, poolVars, callVars, envVars, history, Typed
  <1>1. CASE AdminStep
    <2>1. adminOps' > 0
      BY <1>1 DEF AdminStep, AdminBegin, DisableSnapshot, DisableEntry, SwitchToNext, EnableEntry,
                  SetPriority, SelectHighestPriority, SetMode, SaveMode, LeftInv, NoRequest
    <2>2. QED
      BY <2>1 DEF LeftInv
  <1>2. CASE UNCHANGED vars \/ AllOver \/ \E c \in Creds : Expire(c)
    <2>1. UNCHANGED <<disabled, mode, admin, adminOps, pc, cred, current, limited>>
      BY <1>2 DEF AllOver, Expire
    <2>2. QED
      BY <2>1 DEF LeftInv, Left, Enabled
  <1>3. QED
    BY <1>1, <1>2 DEF Next

\* A report is obeyed: the next request of the call goes out on another account,
\* however many calls there are, unless another call or the admin moves current_id.
THEOREM LimitedAlwaysLeft == Spec => LeavesLimited
  <1>1. Init => LeftInv
    BY DEF Init, LeftInv, Left, Chosen, Holding
  <1>2. Typed /\ LeftInv /\ [Next]_vars => LeftInv'
    BY CallLeft, ElsewhereLeft
  <1>3. Typed /\ LeftInv /\ [Next]_vars =>
          [\A p \in Calls :
             pc[p] = "send" /\ pc'[p] = "reply" /\ mode = "priority" /\ adminOps = 0
             => cred[p] \notin limited[p]]_vars
    BY DEF LeftInv, Left, BeforeSend
  <1>4. QED
    BY <1>1, <1>2, <1>3, AlwaysTyped, PTL DEF Spec, LeavesLimited
=============================================================================
