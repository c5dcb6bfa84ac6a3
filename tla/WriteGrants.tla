---------------------------- MODULE WriteGrants ----------------------------
(***************************************************************************)
(* The approval of a write scenario and the execution grants issued under  *)
(* it: src/control/approval/scenario-store.ts (parts 1 to 4),              *)
(* execution-grant.ts and approval-validity.ts.  Every function there is   *)
(* one write transaction of the control database, so every action here is  *)
(* one transaction.                                                        *)
(*                                                                         *)
(* A call brings two inputs of its own: "at", the clock of the caller,     *)
(* which may be set back between two calls, and "seen", the facts it       *)
(* presents (profile, discovery, input rules, configuration digests), read *)
(* in part before the transaction began.  A rejected call that writes      *)
(* nothing is no step.  A grant and its job are one identity: the job id   *)
(* is bound to the grant and unique (execution_grants.job_id).  A grant    *)
(* reserves one write (write_reservations.count is 1 by its CHECK).        *)
(***************************************************************************)
EXTENDS Integers, FiniteSets

CONSTANTS
    Scenarios,          \* scenario ids
    Grants,             \* grant ids; each is used at most once
    Facts,              \* what the current facts of a scenario can be
    UsableFacts,        \* the facts that hold no reason against an approval
    Times,              \* clock readings
    ExecutionGrantTtl, ApprovalTtl,
    MinWriteInterval, WriteRateWindow, MaxWritesPerDay,
    CumulativeLimit,    \* limits.maxCumulativeCreates of scenario s at revision r
    MaxRevision,        \* bound: revisions a scenario reaches
    MaxReceipt          \* bound: approvals a scenario receives

ASSUME TimeAssumption == Times \subseteq Nat
ASSUME GrantsAssumption == IsFiniteSet(Grants)
ASSUME FactsAssumption == UsableFacts \subseteq Facts
ASSUME TtlAssumption == ExecutionGrantTtl \in Nat /\ ApprovalTtl \in Nat
ASSUME RateAssumption ==
    MinWriteInterval \in Nat /\ WriteRateWindow \in Nat /\ MaxWritesPerDay \in Nat
ASSUME LimitAssumption == CumulativeLimit \in [Scenarios -> [1..MaxRevision -> Nat]]
ASSUME BoundAssumption == MaxRevision \in Nat /\ MaxReceipt \in Nat

VARIABLES
    scenario,     \* rows of scenarios; revision 0: no row
    approval,     \* the last approval receipt of a scenario; receipt 0: none
    grant,        \* rows of execution_grants; issuedAt Null: no row
    reservation,  \* rows of write_reservations; state NONE: no row
    result        \* rows of write_results; recordedAt Null: no row

vars == <<scenario, approval, grant, reservation, result>>

Null == -1

WRITE_JOB_CONCURRENCY == 1

Later(a, b) == IF a < b THEN b ELSE a

-----------------------------------------------------------------------------
(* The rows *)

Timestamp == Times \cup {Null}

ScenarioRow == [revision : 0..MaxRevision, state : {"DRAFT", "APPROVED", "REVOKED"}, updatedAt : Times \cup {0}]
ApprovalRow == [receipt : 0..MaxReceipt, revision : 0..MaxRevision, facts : Facts \cup {Null},
                approvedAt : Timestamp, expiresAt : Int, revoked : BOOLEAN]
GrantRow == [scenario : Scenarios \cup {Null}, revision : 0..MaxRevision, receipt : 0..MaxReceipt,
             issuedAt : Timestamp, expiresAt : Int, consumedAt : Timestamp, invalidatedAt : Timestamp]
ReservationRow == [state : {"NONE", "RESERVED", "RELEASED", "COMMITTED", "UNKNOWN"}, settledAt : Timestamp]
ResultRow == [recordedAt : Timestamp, state : {"NONE", "RELEASED", "COMMITTED", "UNKNOWN"}, settledAt : Timestamp]

NoScenarioRow == [revision |-> 0, state |-> "DRAFT", updatedAt |-> 0]
NoApproval == [receipt |-> 0, revision |-> 0, facts |-> Null, approvedAt |-> Null, expiresAt |-> Null, revoked |-> FALSE]
NoGrantRow == [scenario |-> Null, revision |-> 0, receipt |-> 0, issuedAt |-> Null, expiresAt |-> Null,
               consumedAt |-> Null, invalidatedAt |-> Null]
NoReservation == [state |-> "NONE", settledAt |-> Null]
NoResult == [recordedAt |-> Null, state |-> "NONE", settledAt |-> Null]

Init ==
    /\ scenario = [s \in Scenarios |-> NoScenarioRow]
    /\ approval = [s \in Scenarios |-> NoApproval]
    /\ grant = [g \in Grants |-> NoGrantRow]
    /\ reservation = [g \in Grants |-> NoReservation]
    /\ result = [g \in Grants |-> NoResult]

-----------------------------------------------------------------------------
(* Scenarios and their approval *)

scenarioVars == <<scenario, approval>>
grantVars == <<grant, reservation, result>>

(* A change needs the row and a clock not before its last change. *)
Changeable(s, at) == scenario[s].revision > 0 /\ at >= scenario[s].updatedAt

CreateScenario(s, at) ==
    /\ scenario[s].revision = 0
    /\ 0 < MaxRevision
    /\ scenario' = [scenario EXCEPT ![s] = [revision |-> 1, state |-> "DRAFT", updatedAt |-> at]]
    /\ UNCHANGED <<approval, grantVars>>

NextRevision(row, at) == [revision |-> row.revision + 1, state |-> "DRAFT", updatedAt |-> at]

(* A new draft or newly attached input rules: the receipts and the grants   *)
(* of the old revision stay as they are.                                    *)
ReviseScenario(s, at) ==
    /\ Changeable(s, at)
    /\ scenario[s].revision < MaxRevision
    /\ scenario' = [scenario EXCEPT ![s] = NextRevision(@, at)]
    /\ UNCHANGED <<approval, grantVars>>

ApproveScenario(s, seen, at) ==
    /\ Changeable(s, at)
    /\ seen \in UsableFacts
    /\ approval[s].receipt < MaxReceipt
    /\ approval' = [approval EXCEPT ![s] =
          [receipt |-> @.receipt + 1, revision |-> scenario[s].revision, facts |-> seen,
           approvedAt |-> at, expiresAt |-> at + ApprovalTtl, revoked |-> FALSE]]
    /\ scenario' = [scenario EXCEPT ![s].state = "APPROVED", ![s].updatedAt = at]
    /\ UNCHANGED grantVars

(* evaluateApprovalValidity: the last approval is of this revision and of   *)
(* these facts, has not expired and was not revoked.                        *)
IsApproved(s, seen, at) ==
    /\ approval[s].receipt > 0
    /\ seen \in UsableFacts
    /\ approval[s].revision = scenario[s].revision
    /\ approval[s].facts = seen
    /\ at < approval[s].expiresAt
    /\ ~approval[s].revoked

-----------------------------------------------------------------------------
(* Grants and reservations *)

IsIssued(g) == grant[g].issuedAt # Null
IsOpen(g) == IsIssued(g) /\ grant[g].consumedAt = Null /\ grant[g].invalidatedAt = Null
IsConsumed(g) == grant[g].consumedAt # Null
IsInFlight(g) == IsConsumed(g) /\ reservation[g].state = "RESERVED"
IsGrantExpired(g, at) == at >= grant[g].expiresAt

(* Mutant: a newer approval of the same revision is taken for the old one. *)
GrantMatchesAnyApproval(g, s, seen, at) ==
    IsApproved(s, seen, at) /\ scenario[s].revision = grant[g].revision

GrantMatchesApproval(g, s, seen, at) ==
    /\ IsApproved(s, seen, at)
    /\ approval[s].receipt = grant[g].receipt
    /\ scenario[s].revision = grant[g].revision

GrantsOf(s) == {g \in Grants : grant[g].scenario = s}
OpenGrants == {g \in Grants : IsOpen(g)}

(* Mutant: a write is in flight only once its attempt is recorded. *)
RecordedInFlightGrants == {g \in Grants : IsInFlight(g) /\ result[g].recordedAt # Null}

InFlightGrants == {g \in Grants : IsInFlight(g)}

(* usedCumulativeWrites *)
UsedCumulativeWrites(s, excluded) ==
    Cardinality({g \in GrantsOf(s) \ excluded : reservation[g].state \in {"RESERVED", "COMMITTED", "UNKNOWN"}})

WriteLimitAccepts(s, excluded) ==
    UsedCumulativeWrites(s, excluded) < CumulativeLimit[s][scenario[s].revision]

(* The settlement times of the writes of s that were, or may have been, sent *)
WrittenGrants(s) == {g \in GrantsOf(s) : reservation[g].state \in {"COMMITTED", "UNKNOWN"}}

(* Mutant: a write settled after "now" is ignored. *)
WriteRateIgnoresFuture(s, now) ==
    \A g \in WrittenGrants(s) : now < reservation[g].settledAt \/ now - reservation[g].settledAt >= MinWriteInterval

WriteRateAccepts(s, now) ==
    /\ \A g \in WrittenGrants(s) : now - reservation[g].settledAt >= MinWriteInterval
    /\ Cardinality({g \in WrittenGrants(s) : now - reservation[g].settledAt < WriteRateWindow}) < MaxWritesPerDay

IsWriteConcurrencyAvailable(activeWrites) == activeWrites < WRITE_JOB_CONCURRENCY

(* Mutants: the two halves of an invalidation, each left out. *)
GrantsNotInvalidated(gs, at) == grant
GrantsNotReleased(gs, at) == reservation

(* invalidateGrantIn on each grant of a set *)
GrantsInvalidated(gs, at) ==
    [g \in Grants |-> IF g \in gs /\ IsOpen(g)
                      THEN [grant[g] EXCEPT !.invalidatedAt = Later(at, grant[g].issuedAt)] ELSE grant[g]]
GrantsReleased(gs, at) ==
    [g \in Grants |-> IF g \in gs /\ reservation[g].state = "RESERVED"
                      THEN [state |-> "RELEASED", settledAt |-> Later(at, grant[g].issuedAt)] ELSE reservation[g]]

(* Mutant: grants of an older approval are left open. *)
OpenGrantsOfReceipt(s) == {g \in OpenGrants : grant[g].scenario = s /\ grant[g].receipt = approval[s].receipt}

OpenGrantsOf(s) == {g \in OpenGrants : grant[g].scenario = s}

RevokeScenarioApproval(s, at) ==
    /\ Changeable(s, at)
    /\ scenario[s].state = "APPROVED"
    /\ approval[s].receipt > 0
    /\ ~approval[s].revoked
    /\ approval' = [approval EXCEPT ![s].revoked = TRUE]
    /\ scenario' = [scenario EXCEPT ![s].state = "REVOKED", ![s].updatedAt = at]
    /\ grant' = GrantsInvalidated(OpenGrantsOf(s), at)
    /\ reservation' = GrantsReleased(OpenGrantsOf(s), at)
    /\ UNCHANGED result

(* Open grants an issue for s at this moment replaces: expired ones of any  *)
(* scenario, and those of s that no longer match its approval.              *)
StaleGrants(s, seen, at) ==
    {g \in OpenGrants : \/ IsGrantExpired(g, at)
                        \/ grant[g].scenario = s /\ ~GrantMatchesApproval(g, s, seen, at)}

IssueExecutionGrant(g, s, seen, at) ==
    LET stale == StaleGrants(s, seen, at)
        live == OpenGrants \ stale
    IN  /\ IsApproved(s, seen, at)
        /\ at >= approval[s].approvedAt
        /\ \A h \in live : grant[h].scenario # s
        /\ WriteLimitAccepts(s, stale)
        /\ WriteRateAccepts(s, at)
        /\ IsWriteConcurrencyAvailable(Cardinality(live) + Cardinality(InFlightGrants))
        /\ ~IsIssued(g)
        /\ grant' = [GrantsInvalidated(stale, at) EXCEPT ![g] =
              [scenario |-> s, revision |-> scenario[s].revision, receipt |-> approval[s].receipt,
               issuedAt |-> at, expiresAt |-> at + ExecutionGrantTtl, consumedAt |-> Null, invalidatedAt |-> Null]]
        /\ reservation' = [GrantsReleased(stale, at) EXCEPT ![g] = [state |-> "RESERVED", settledAt |-> Null]]
        /\ UNCHANGED <<scenarioVars, result>>

ConsumeExecutionGrant(g, seen, at) ==
    /\ IsOpen(g)
    /\ at >= grant[g].issuedAt
    /\ ~IsGrantExpired(g, at)
    /\ GrantMatchesApproval(g, grant[g].scenario, seen, at)
    /\ grant' = [grant EXCEPT ![g].consumedAt = at]
    /\ UNCHANGED <<scenarioVars, reservation, result>>

(* The one rejection that writes: the late grant is invalidated. *)
ConsumeExpiredGrant(g, at) ==
    /\ IsOpen(g)
    /\ at >= grant[g].issuedAt
    /\ IsGrantExpired(g, at)
    /\ grant' = GrantsInvalidated({g}, at)
    /\ reservation' = GrantsReleased({g}, at)
    /\ UNCHANGED <<scenarioVars, result>>

(* settleWriteReservation: callers may only release, whatever the grant is. *)
SettleWriteReservation(g, at) ==
    /\ reservation[g].state = "RESERVED"
    /\ reservation' = GrantsReleased({g}, at)
    /\ UNCHANGED <<scenarioVars, grant, result>>

(* assertGrantStillValid: the read-only check just before the submission *)
IsGrantStillValid(g, seen, now) ==
    /\ IsInFlight(g)
    /\ grant[g].invalidatedAt = Null
    /\ GrantMatchesApproval(g, grant[g].scenario, seen, now)

-----------------------------------------------------------------------------
(* Write results *)

HasResult(g) == result[g].recordedAt # Null
IsResultSettled(g) == result[g].settledAt # Null

RecordWriteAttempt(g, at) ==
    /\ IsInFlight(g)
    /\ grant[g].invalidatedAt = Null
    /\ ~HasResult(g)
    /\ at >= grant[g].consumedAt
    /\ result' = [result EXCEPT ![g].recordedAt = at]
    /\ UNCHANGED <<scenarioVars, grant, reservation>>

(* Mutant: the submission state is stored as the state of the reservation. *)
SubmissionAsSettlement(submission, responseReceived) == submission

ReservationSettlementOf(submission, responseReceived) ==
    CASE submission = "NOT_SENT" /\ ~responseReceived -> "RELEASED"
      [] submission = "SENT" /\ responseReceived      -> "COMMITTED"
      [] OTHER                                        -> "UNKNOWN"

IsSettleable(g) == HasResult(g) /\ ~IsResultSettled(g) /\ reservation[g].state = "RESERVED"

SettleWriteResult(g, submission, responseReceived, at) ==
    /\ IsSettleable(g)
    /\ responseReceived => submission = "SENT"
    /\ at >= result[g].recordedAt
    /\ LET to == ReservationSettlementOf(submission, responseReceived)
       IN  /\ result' = [result EXCEPT ![g].state = to, ![g].settledAt = at]
           /\ reservation' = [reservation EXCEPT ![g] = [state |-> to, settledAt |-> Later(at, grant[g].issuedAt)]]
    /\ UNCHANGED <<scenarioVars, grant>>

(* Mutant: the row takes the clock as it is. *)
RecordedAtClock(g, at) == IF HasResult(g) THEN result[g].recordedAt ELSE at

(* Close g without a worker's report: with the row it needs, and never      *)
(* before the time of the row or of the consumption.                        *)
RecordedAt(g, at) == IF HasResult(g) THEN result[g].recordedAt ELSE Later(at, grant[g].consumedAt)
ClosedResult(g, to, at) ==
    [recordedAt |-> RecordedAt(g, at), state |-> to, settledAt |-> Later(at, RecordedAt(g, at))]
ClosedReservation(g, to, at) ==
    [state |-> to, settledAt |-> Later(Later(at, RecordedAt(g, at)), grant[g].issuedAt)]

(* "active" are the grants whose job row is STARTING, RUNNING or STOPPING. *)
OrphanedGrants(active) ==
    {g \in Grants \ active : IsInFlight(g) /\ grant[g].invalidatedAt = Null /\ ~IsResultSettled(g)}

CloseOrphanedWriteResults(active, at) ==
    /\ OrphanedGrants(active) # {}
    /\ result' = [g \in Grants |-> IF g \in OrphanedGrants(active) THEN ClosedResult(g, "UNKNOWN", at) ELSE result[g]]
    /\ reservation' = [g \in Grants |->
           IF g \in OrphanedGrants(active) THEN ClosedReservation(g, "UNKNOWN", at) ELSE reservation[g]]
    /\ UNCHANGED <<scenarioVars, grant>>

IsClosable(g) ==
    IsIssued(g) /\ grant[g].invalidatedAt = Null /\ reservation[g].state = "RESERVED" /\ ~IsResultSettled(g)

CloseWriteWithoutSending(g, at) ==
    /\ IsClosable(g)
    /\ \/ /\ ~IsConsumed(g)
          /\ grant' = GrantsInvalidated({g}, at)
          /\ reservation' = GrantsReleased({g}, at)
          /\ UNCHANGED result
       \/ /\ IsConsumed(g)
          /\ result' = [result EXCEPT ![g] = ClosedResult(g, "RELEASED", at)]
          /\ reservation' = [reservation EXCEPT ![g] = ClosedReservation(g, "RELEASED", at)]
          /\ UNCHANGED grant
    /\ UNCHANGED scenarioVars

-----------------------------------------------------------------------------

ScenarioStep ==
    \E s \in Scenarios, at \in Times :
        \/ CreateScenario(s, at)
        \/ ReviseScenario(s, at)
        \/ \E seen \in Facts : ApproveScenario(s, seen, at)
        \/ RevokeScenarioApproval(s, at)

GrantStep ==
    \E g \in Grants, at \in Times :
        \/ \E s \in Scenarios, seen \in Facts : IssueExecutionGrant(g, s, seen, at)
        \/ \E seen \in Facts : ConsumeExecutionGrant(g, seen, at)
        \/ ConsumeExpiredGrant(g, at)
        \/ SettleWriteReservation(g, at)

ResultStep ==
    \E g \in Grants, at \in Times :
        \/ RecordWriteAttempt(g, at)
        \/ \E submission \in {"NOT_SENT", "SENT", "UNKNOWN"}, responseReceived \in BOOLEAN :
              SettleWriteResult(g, submission, responseReceived, at)
        \/ CloseWriteWithoutSending(g, at)

RecoveryStep == \E active \in SUBSET Grants, at \in Times : CloseOrphanedWriteResults(active, at)

Next == ScenarioStep \/ GrantStep \/ ResultStep \/ RecoveryStep

Spec == Init /\ [][Next]_vars
-----------------------------------------------------------------------------
(* Properties *)

(* Every row has the columns and the ranges the tables give it. *)
TypeOK ==
    /\ scenario \in [Scenarios -> ScenarioRow]
    /\ approval \in [Scenarios -> ApprovalRow]
    /\ grant \in [Grants -> GrantRow]
    /\ reservation \in [Grants -> ReservationRow]
    /\ result \in [Grants -> ResultRow]

IsBusy(g) == IsOpen(g) \/ IsInFlight(g)

(* WRITE_JOB_CONCURRENCY holds across scenarios: of all the grants ever     *)
(* issued at most one is waiting or writing, although an issue neither      *)
(* sees its own clock go forward nor counts the grants it replaces.         *)
OneWriteAtATime == \A g, h \in Grants : IsBusy(g) /\ IsBusy(h) => g = h

(* The CHECKs of execution_grants, write_reservations and write_results on  *)
(* nulls and times: no transaction of the store, at any clock reading, ends *)
(* in a row the schema refuses.                                             *)
SchemaChecksHold ==
    \A g \in Grants : IsIssued(g) =>
        /\ IsConsumed(g) => grant[g].invalidatedAt = Null /\ grant[g].consumedAt >= grant[g].issuedAt
        /\ grant[g].invalidatedAt # Null => grant[g].invalidatedAt >= grant[g].issuedAt
        /\ (reservation[g].state = "RESERVED") <=> (reservation[g].settledAt = Null)
        /\ reservation[g].settledAt # Null => reservation[g].settledAt >= grant[g].issuedAt
        /\ HasResult(g) => IsConsumed(g) /\ result[g].recordedAt >= grant[g].consumedAt
        /\ IsResultSettled(g) => HasResult(g) /\ result[g].settledAt >= result[g].recordedAt
        /\ IsResultSettled(g) <=> (result[g].state # "NONE")

(* The screen shows the state column, the checks read the receipts: the two *)
(* agree after any sequence of revisions, approvals and revocations, and a  *)
(* revoked scenario keeps no unused grant, whichever of its receipts the    *)
(* grant was issued under.                                                  *)
RevocationIsComplete ==
    \A s \in Scenarios :
        LET current == approval[s].receipt > 0 /\ approval[s].revision = scenario[s].revision
        IN  /\ (scenario[s].state = "APPROVED") <=> (current /\ ~approval[s].revoked)
            /\ (scenario[s].state = "REVOKED") <=> (current /\ approval[s].revoked)
            /\ scenario[s].state = "REVOKED" => \A g \in Grants : grant[g].scenario = s => ~IsOpen(g)

WritesAreSpaced ==
    \A s \in Scenarios : \A g, h \in WrittenGrants(s) :
        g # h => \/ reservation[g].settledAt - reservation[h].settledAt >= MinWriteInterval
                 \/ reservation[h].settledAt - reservation[g].settledAt >= MinWriteInterval

WritesFitTheWindow ==
    \A s \in Scenarios : \A g \in WrittenGrants(s) :
        Cardinality({h \in WrittenGrants(s) :
            /\ reservation[h].settledAt <= reservation[g].settledAt
            /\ reservation[g].settledAt - reservation[h].settledAt < WriteRateWindow}) <= MaxWritesPerDay

(* The writes of a scenario that were or may have been sent are settled at  *)
(* least MIN_WRITE_INTERVAL_MS apart, and no WRITE_RATE_WINDOW_MS holds     *)
(* more than MAX_WRITES_PER_DAY of them, whatever the clock did between the *)
(* issue, which checks it, and the settlement.                              *)
WritesKeepTheRate == WritesAreSpaced /\ WritesFitTheWindow

(* A step that adds to the writes counted against a scenario leaves them    *)
(* within the limit of its current revision: the replaced grants that the   *)
(* issue leaves out of its count are really given back.                     *)
CountsStayWithinLimit ==
    [][\A s \in Scenarios :
        UsedCumulativeWrites(s, {})' > UsedCumulativeWrites(s, {})
            => UsedCumulativeWrites(s, {})' <= CumulativeLimit[s][scenario[s].revision]]_vars

(* A grant is consumed only while the approval it was issued under stands:  *)
(* no revision, no newer approval and no revocation has come between, and   *)
(* the time is in the validity of both.                                     *)
ConsumedOnlyAsApproved ==
    [][\A g \in Grants : ~IsConsumed(g) /\ IsConsumed(g)' =>
        LET s == grant[g].scenario
        IN  /\ scenario[s].state = "APPROVED"
            /\ grant[g].receipt = approval[s].receipt
            /\ grant'[g].consumedAt < grant[g].expiresAt
            /\ grant'[g].consumedAt < approval[s].expiresAt]_vars

-----------------------------------------------------------------------------
(* The promise of WriteSlot *)

Phase(g) ==
    CASE ~IsIssued(g) -> "UNUSED"
      [] IsOpen(g) -> "OPEN"
      [] IsInFlight(g) -> "WRITING"
      [] reservation[g].state \in {"COMMITTED", "UNKNOWN"} -> "SETTLED"
      [] OTHER -> "RETURNED"

Slot == INSTANCE WriteSlot WITH phase <- [g \in Grants |-> Phase(g)]

(* The tables implement the one-slot life cycle of a grant. *)
ImplementsWriteSlot == Slot!Spec
=============================================================================
