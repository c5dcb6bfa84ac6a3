------------------------- MODULE WriteGrants_proofs -------------------------
(***************************************************************************)
(* Theorems about WriteGrants for every set of scenarios, grants and clock *)
(* readings and every value of the limits.                                 *)
(***************************************************************************)
EXTENDS WriteGrants, FiniteSetTheorems, TLAPS

(* The helpers that invalidate and release keep the columns of the rows. *)
LEMMA InvalidationType ==
    ASSUME TypeOK, NEW gs, NEW at \in Times
    PROVE  /\ GrantsInvalidated(gs, at) \in [Grants -> GrantRow]
           /\ GrantsReleased(gs, at) \in [Grants -> ReservationRow]
<1>1. ASSUME NEW g \in Grants
      PROVE  Later(at, grant[g].issuedAt) \in Timestamp
  BY DEF TypeOK, GrantRow, Timestamp, Later
<1>2. ASSUME NEW g \in Grants, NEW t \in Timestamp
      PROVE  [grant[g] EXCEPT !.invalidatedAt = t] \in GrantRow
  BY DEF TypeOK, GrantRow
<1>3. ASSUME NEW g \in Grants, NEW t \in Timestamp
      PROVE  [state |-> "RELEASED", settledAt |-> t] \in ReservationRow
  BY DEF ReservationRow
<1> QED
  BY <1>1, <1>2, <1>3 DEF GrantsInvalidated, GrantsReleased, TypeOK

(* Closing a write without a report writes proper rows. *)
LEMMA ClosingType ==
    ASSUME TypeOK, NEW g \in Grants, NEW at \in Times, NEW to \in {"RELEASED", "UNKNOWN"}
    PROVE  /\ RecordedAt(g, at) \in Timestamp
           /\ ClosedResult(g, to, at) \in ResultRow
           /\ ClosedReservation(g, to, at) \in ReservationRow
<1>1. /\ grant[g].consumedAt \in Timestamp
      /\ grant[g].issuedAt \in Timestamp
      /\ result[g].recordedAt \in Timestamp
  BY DEF TypeOK, GrantRow, ResultRow
<1>2. RecordedAt(g, at) \in Timestamp
  BY <1>1 DEF RecordedAt, Timestamp, Later
<1>3. Later(at, RecordedAt(g, at)) \in Timestamp
  BY <1>2 DEF Timestamp, Later
<1>4. Later(Later(at, RecordedAt(g, at)), grant[g].issuedAt) \in Timestamp
  BY <1>1, <1>3 DEF Later
<1> QED
  BY <1>2, <1>3, <1>4 DEF ClosedResult, ClosedReservation, ResultRow, ReservationRow

(* The rows keep their columns and ranges: every transaction of the store  *)
(* writes rows its tables can hold.                                        *)
LEMMA TypeStep == TypeOK /\ [Next]_vars => TypeOK'
<1> SUFFICES ASSUME TypeOK, [Next]_vars PROVE TypeOK'
  OBVIOUS
<1> USE TimeAssumption, BoundAssumption, TtlAssumption
<1>1. ASSUME NEW s \in Scenarios, NEW at \in Times, CreateScenario(s, at)
      PROVE  TypeOK'
  BY <1>1 DEF TypeOK, CreateScenario, ScenarioRow, grantVars
<1>2. ASSUME NEW s \in Scenarios, NEW at \in Times, ReviseScenario(s, at)
      PROVE  TypeOK'
  <2>1. scenario[s].revision + 1 \in 0..MaxRevision
    BY <1>2 DEF TypeOK, ReviseScenario, Changeable, ScenarioRow
  <2> QED
    BY <1>2, <2>1 DEF TypeOK, ReviseScenario, NextRevision, ScenarioRow, grantVars
<1>3. ASSUME NEW s \in Scenarios, NEW at \in Times, NEW seen \in Facts, ApproveScenario(s, seen, at)
      PROVE  TypeOK'
  <2>1. approval[s].receipt + 1 \in 0..MaxReceipt
    BY <1>3 DEF TypeOK, ApproveScenario, ApprovalRow
  <2>2. scenario' \in [Scenarios -> ScenarioRow]
    BY <1>3 DEF TypeOK, ApproveScenario, ScenarioRow
  <2>3. [receipt |-> approval[s].receipt + 1, revision |-> scenario[s].revision, facts |-> seen,
         approvedAt |-> at, expiresAt |-> at + ApprovalTtl, revoked |-> FALSE] \in ApprovalRow
    BY <2>1 DEF TypeOK, ApprovalRow, ScenarioRow, Timestamp
  <2>4. approval' \in [Scenarios -> ApprovalRow]
    BY <1>3, <2>3 DEF TypeOK, ApproveScenario
  <2> QED
    BY <1>3, <2>2, <2>4 DEF TypeOK, ApproveScenario, grantVars
<1>4. ASSUME NEW s \in Scenarios, NEW at \in Times, RevokeScenarioApproval(s, at)
      PROVE  TypeOK'
  <2>1. scenario' \in [Scenarios -> ScenarioRow] /\ approval' \in [Scenarios -> ApprovalRow]
    BY <1>4 DEF TypeOK, RevokeScenarioApproval, ScenarioRow, ApprovalRow
  <2> QED
    BY <1>4, <2>1, InvalidationType DEF TypeOK, RevokeScenarioApproval
<1>5. ASSUME NEW g \in Grants, NEW at \in Times, NEW s \in Scenarios, NEW seen \in Facts,
             IssueExecutionGrant(g, s, seen, at)
      PROVE  TypeOK'
  <2>1. [scenario |-> s, revision |-> scenario[s].revision, receipt |-> approval[s].receipt, issuedAt |-> at,
         expiresAt |-> at + ExecutionGrantTtl, consumedAt |-> Null, invalidatedAt |-> Null] \in GrantRow
    BY DEF TypeOK, GrantRow, ScenarioRow, ApprovalRow, Timestamp
  <2>2. [state |-> "RESERVED", settledAt |-> Null] \in ReservationRow
    BY DEF ReservationRow, Timestamp
  <2> QED
    BY <1>5, <2>1, <2>2, InvalidationType DEF TypeOK, IssueExecutionGrant, scenarioVars
<1>6. ASSUME NEW g \in Grants, NEW at \in Times, NEW seen \in Facts, ConsumeExecutionGrant(g, seen, at)
      PROVE  TypeOK'
  BY <1>6 DEF TypeOK, ConsumeExecutionGrant, GrantRow, Timestamp, scenarioVars
<1>7. ASSUME NEW g \in Grants, NEW at \in Times, ConsumeExpiredGrant(g, at)
      PROVE  TypeOK'
  BY <1>7, InvalidationType DEF TypeOK, ConsumeExpiredGrant, scenarioVars
<1>8. ASSUME NEW g \in Grants, NEW at \in Times, SettleWriteReservation(g, at)
      PROVE  TypeOK'
  BY <1>8, InvalidationType DEF TypeOK, SettleWriteReservation, scenarioVars
<1>9. ASSUME NEW g \in Grants, NEW at \in Times, RecordWriteAttempt(g, at)
      PROVE  TypeOK'
  BY <1>9 DEF TypeOK, RecordWriteAttempt, ResultRow, Timestamp, scenarioVars
<1>10. ASSUME NEW g \in Grants, NEW at \in Times, NEW submission \in {"NOT_SENT", "SENT", "UNKNOWN"},
              NEW responded \in BOOLEAN, SettleWriteResult(g, submission, responded, at)
       PROVE  TypeOK'
  <2> DEFINE to == ReservationSettlementOf(submission, responded)
  <2>1. to \in {"RELEASED", "COMMITTED", "UNKNOWN"}
    BY DEF ReservationSettlementOf
  <2>2. Later(at, grant[g].issuedAt) \in Timestamp
    BY DEF TypeOK, GrantRow, Timestamp, Later
  <2>3. [state |-> to, settledAt |-> Later(at, grant[g].issuedAt)] \in ReservationRow
    BY <2>1, <2>2 DEF ReservationRow
  <2>4. [result[g] EXCEPT !.state = to, !.settledAt = at] \in ResultRow
    BY <2>1 DEF TypeOK, ResultRow, Timestamp
  <2> HIDE DEF to
  <2> QED
    BY <1>10, <2>3, <2>4 DEF TypeOK, SettleWriteResult, IsSettleable, scenarioVars, to
<1>11. ASSUME NEW g \in Grants, NEW at \in Times, CloseWriteWithoutSending(g, at)
       PROVE  TypeOK'
  BY <1>11, InvalidationType, ClosingType DEF TypeOK, CloseWriteWithoutSending, IsClosable, scenarioVars
<1>12. ASSUME NEW active \in SUBSET Grants, NEW at \in Times, CloseOrphanedWriteResults(active, at)
       PROVE  TypeOK'
  BY <1>12, ClosingType DEF TypeOK, CloseOrphanedWriteResults, OrphanedGrants, scenarioVars
<1>13. CASE UNCHANGED vars
  BY <1>13 DEF TypeOK, vars
<1> QED
  BY <1>1, <1>2, <1>3, <1>4, <1>5, <1>6, <1>7, <1>8, <1>9, <1>10, <1>11, <1>12, <1>13
     DEF Next, ScenarioStep, GrantStep, ResultStep, RecoveryStep

(* Empty tables hold proper rows. *)
LEMMA TypeInit == Init => TypeOK
  BY BoundAssumption DEF Init, TypeOK, NoScenarioRow, NoApproval, NoGrantRow, NoReservation, NoResult, Null, Timestamp,
     ScenarioRow, ApprovalRow, GrantRow, ReservationRow, ResultRow

(* The tables always hold rows of their columns and ranges. *)
THEOREM TypeCorrect == Spec => []TypeOK
  BY TypeInit, TypeStep, PTL DEF Spec
-----------------------------------------------------------------------------
(* One write at a time *)

(* The concurrency check of an issue finds the slot empty: every grant that *)
(* is open is one the issue replaces, and no write is in flight.            *)
LEMMA IssueFindsFreeSlot ==
    ASSUME NEW g \in Grants, NEW s \in Scenarios, NEW seen \in Facts, NEW at \in Times,
           IssueExecutionGrant(g, s, seen, at)
    PROVE  /\ OpenGrants \subseteq StaleGrants(s, seen, at)
           /\ InFlightGrants = {}
<1> DEFINE live == OpenGrants \ StaleGrants(s, seen, at)
<1>1. IsFiniteSet(live) /\ IsFiniteSet(InFlightGrants)
  BY GrantsAssumption, FS_Subset DEF OpenGrants, InFlightGrants
<1>2. Cardinality(live) \in Nat /\ Cardinality(InFlightGrants) \in Nat
  BY <1>1, FS_CardinalityType
<1>3. Cardinality(live) + Cardinality(InFlightGrants) < 1
  BY DEF IssueExecutionGrant, IsWriteConcurrencyAvailable, WRITE_JOB_CONCURRENCY
<1>4. Cardinality(live) = 0 /\ Cardinality(InFlightGrants) = 0
  BY <1>2, <1>3
<1> QED
  BY <1>1, <1>4, FS_EmptySet

(* Whatever an issue leaves busy is the grant it wrote. *)
LEMMA IssueTakesSlot ==
    ASSUME TypeOK, NEW g \in Grants, NEW s \in Scenarios, NEW seen \in Facts, NEW at \in Times,
           IssueExecutionGrant(g, s, seen, at), NEW h \in Grants, IsBusy(h)'
    PROVE  h = g
<1> SUFFICES ASSUME h # g PROVE FALSE
  OBVIOUS
<1> DEFINE stale == StaleGrants(s, seen, at)
<1>1. OpenGrants \subseteq stale /\ InFlightGrants = {}
  BY IssueFindsFreeSlot
<1>2. grant'[h] = GrantsInvalidated(stale, at)[h] /\ reservation'[h] = GrantsReleased(stale, at)[h]
  BY DEF IssueExecutionGrant, GrantsInvalidated, GrantsReleased
<1>3. CASE IsOpen(h)
  <2>1. h \in stale
    BY <1>1, <1>3 DEF OpenGrants
  <2>2. grant'[h] = [grant[h] EXCEPT !.invalidatedAt = Later(at, grant[h].issuedAt)]
    BY <1>2, <1>3, <2>1 DEF GrantsInvalidated
  <2>3. grant'[h].invalidatedAt # Null /\ grant'[h].consumedAt = Null
    BY <1>3, <2>2, TimeAssumption DEF TypeOK, GrantRow, Timestamp, Later, Null, IsOpen
  <2> QED
    BY <2>3 DEF IsBusy, IsOpen, IsInFlight, IsConsumed
<1>4. CASE ~IsOpen(h)
  <2>1. grant'[h] = grant[h]
    BY <1>2, <1>4 DEF GrantsInvalidated
  <2>2. ~IsInFlight(h)
    BY <1>1 DEF InFlightGrants
  <2>3. reservation'[h].state = "RESERVED" => reservation[h].state = "RESERVED"
    BY <1>2 DEF GrantsReleased
  <2> QED
    BY <1>4, <2>1, <2>2, <2>3 DEF IsBusy, IsOpen, IsInFlight, IsConsumed, IsIssued
<1> QED
  BY <1>3, <1>4

(* No other transaction makes a grant busy that was not. *)
LEMMA OnlyIssueMakesBusy ==
    ASSUME TypeOK, ScenarioStep \/ ResultStep \/ RecoveryStep \/ UNCHANGED vars
                   \/ (\E g \in Grants, at \in Times :
                         \/ \E seen \in Facts : ConsumeExecutionGrant(g, seen, at)
                         \/ ConsumeExpiredGrant(g, at)
                         \/ SettleWriteReservation(g, at)),
           NEW h \in Grants, IsBusy(h)'
    PROVE  IsBusy(h)
<1> USE DEF IsBusy, IsOpen, IsInFlight, IsConsumed, IsIssued
<1>1. CASE ScenarioStep
  BY <1>1 DEF ScenarioStep, CreateScenario, ReviseScenario, ApproveScenario, RevokeScenarioApproval,
              GrantsInvalidated, GrantsReleased, grantVars, TypeOK, GrantRow
<1>2. ASSUME NEW g \in Grants, NEW at \in Times, NEW seen \in Facts, ConsumeExecutionGrant(g, seen, at)
      PROVE  IsBusy(h)
  BY <1>2 DEF ConsumeExecutionGrant, TypeOK, GrantRow
<1>3. ASSUME NEW g \in Grants, NEW at \in Times, ConsumeExpiredGrant(g, at) \/ SettleWriteReservation(g, at)
      PROVE  IsBusy(h)
  BY <1>3 DEF ConsumeExpiredGrant, SettleWriteReservation, GrantsInvalidated, GrantsReleased, TypeOK, GrantRow
<1>4. ASSUME NEW g \in Grants, NEW at \in Times, RecordWriteAttempt(g, at)
      PROVE  IsBusy(h)
  BY <1>4 DEF RecordWriteAttempt
<1>5. ASSUME NEW g \in Grants, NEW at \in Times, NEW submission \in {"NOT_SENT", "SENT", "UNKNOWN"},
             NEW responded \in BOOLEAN, SettleWriteResult(g, submission, responded, at)
      PROVE  IsBusy(h)
  BY <1>5 DEF SettleWriteResult, IsSettleable, TypeOK
<1>6. ASSUME NEW g \in Grants, NEW at \in Times, CloseWriteWithoutSending(g, at)
      PROVE  IsBusy(h)
  BY <1>6 DEF CloseWriteWithoutSending, IsClosable, ClosedReservation, GrantsInvalidated, GrantsReleased, TypeOK, GrantRow
<1>7. CASE RecoveryStep
  BY <1>7 DEF RecoveryStep, CloseOrphanedWriteResults, OrphanedGrants, ClosedReservation
<1>8. CASE UNCHANGED vars
  BY <1>8 DEF vars
<1> QED
  BY <1>1, <1>2, <1>3, <1>4, <1>5, <1>6, <1>7, <1>8 DEF ResultStep

(* A transaction of the store leaves at most one write busy. *)
LEMMA OneWriteStep == TypeOK /\ OneWriteAtATime /\ [Next]_vars => OneWriteAtATime'
<1> SUFFICES ASSUME TypeOK, OneWriteAtATime, [Next]_vars, NEW h \in Grants, NEW k \in Grants,
                    IsBusy(h)', IsBusy(k)'
             PROVE  h = k
  BY DEF OneWriteAtATime
<1>1. ASSUME NEW g \in Grants, NEW s \in Scenarios, NEW seen \in Facts, NEW at \in Times,
             IssueExecutionGrant(g, s, seen, at)
      PROVE  h = k
  BY <1>1, IssueTakesSlot
<1>2. ASSUME ~\E g \in Grants, s \in Scenarios, seen \in Facts, at \in Times : IssueExecutionGrant(g, s, seen, at)
      PROVE  h = k
  <2>1. IsBusy(h) /\ IsBusy(k)
    BY <1>2, OnlyIssueMakesBusy DEF Next, GrantStep
  <2> QED
    BY <2>1 DEF OneWriteAtATime
<1> QED
  BY <1>1, <1>2

(* At most one grant is open or in flight, for any number of scenarios and  *)
(* grants and any behaviour of the clock.                                   *)
THEOREM OneWriteAtATimeHolds == Spec => []OneWriteAtATime
<1>1. Init => OneWriteAtATime
  BY DEF Init, OneWriteAtATime, IsBusy, IsOpen, IsInFlight, IsIssued, IsConsumed, NoGrantRow, NoReservation
<1> QED
  BY <1>1, TypeInit, TypeStep, OneWriteStep, PTL DEF Spec
-----------------------------------------------------------------------------
(* The life of a row *)

(* What a transaction can do to the rows of one grant. *)
RowKept(h) == grant'[h] = grant[h] /\ reservation'[h] = reservation[h] /\ result'[h] = result[h]

RowIssued(h) ==
    /\ ~IsIssued(h)
    /\ \E s \in Scenarios, at \in Times :
          grant'[h] = [scenario |-> s, revision |-> scenario[s].revision, receipt |-> approval[s].receipt, issuedAt |-> at,
                       expiresAt |-> at + ExecutionGrantTtl, consumedAt |-> Null, invalidatedAt |-> Null]
    /\ reservation'[h] = [state |-> "RESERVED", settledAt |-> Null]
    /\ result'[h] = result[h]

RowWithdrawn(h) ==
    /\ IsOpen(h)
    /\ \E t \in Times :
          /\ t >= grant[h].issuedAt
          /\ grant'[h] = [grant[h] EXCEPT !.invalidatedAt = t]
          /\ reservation'[h] = IF reservation[h].state = "RESERVED" THEN [state |-> "RELEASED", settledAt |-> t]
                               ELSE reservation[h]
    /\ result'[h] = result[h]

RowConsumed(h) ==
    /\ IsOpen(h)
    /\ \E t \in Times : t >= grant[h].issuedAt /\ grant'[h] = [grant[h] EXCEPT !.consumedAt = t]
    /\ reservation'[h] = reservation[h]
    /\ result'[h] = result[h]

RowReleased(h) ==
    /\ reservation[h].state = "RESERVED"
    /\ \E t \in Times : t >= grant[h].issuedAt /\ reservation'[h] = [state |-> "RELEASED", settledAt |-> t]
    /\ grant'[h] = grant[h]
    /\ result'[h] = result[h]

RowRecorded(h) ==
    /\ IsInFlight(h)
    /\ ~HasResult(h)
    /\ \E t \in Times : t >= grant[h].consumedAt /\ result'[h] = [result[h] EXCEPT !.recordedAt = t]
    /\ grant'[h] = grant[h]
    /\ reservation'[h] = reservation[h]

RowSettled(h) ==
    /\ IsInFlight(h)
    /\ ~IsResultSettled(h)
    /\ \E to \in {"RELEASED", "COMMITTED", "UNKNOWN"}, r, t, u \in Times :
          /\ r >= grant[h].consumedAt /\ t >= r /\ u >= grant[h].issuedAt
          /\ result'[h] = [recordedAt |-> r, state |-> to, settledAt |-> t]
          /\ reservation'[h] = [state |-> to, settledAt |-> u]
    /\ grant'[h] = grant[h]

RowMoves(h) ==
    \/ RowKept(h) \/ RowWithdrawn(h) \/ RowConsumed(h) \/ RowReleased(h) \/ RowRecorded(h) \/ RowSettled(h)

(* The inductive invariant of a grant: the CHECKs of the three tables, and  *)
(* what they do not say: rows come together, a reservation that is held     *)
(* belongs to a grant that was not invalidated, and only a consumed grant   *)
(* has written.                                                             *)
RowOK(g) ==
    /\ ~IsIssued(g) => grant[g] = NoGrantRow /\ reservation[g] = NoReservation /\ result[g] = NoResult
    /\ IsIssued(g) =>
        /\ grant[g].scenario \in Scenarios
        /\ reservation[g].state # "NONE"
        /\ IsConsumed(g) => grant[g].invalidatedAt = Null /\ grant[g].consumedAt >= grant[g].issuedAt
        /\ grant[g].invalidatedAt # Null => grant[g].invalidatedAt >= grant[g].issuedAt
        /\ (reservation[g].state = "RESERVED") <=> (reservation[g].settledAt = Null)
        /\ reservation[g].settledAt # Null => reservation[g].settledAt >= grant[g].issuedAt
        /\ HasResult(g) => IsConsumed(g) /\ result[g].recordedAt >= grant[g].consumedAt
        /\ IsResultSettled(g) => HasResult(g) /\ result[g].settledAt >= result[g].recordedAt
        /\ IsResultSettled(g) <=> (result[g].state # "NONE")
        /\ reservation[g].state = "RESERVED" => grant[g].invalidatedAt = Null
        /\ reservation[g].state \in {"COMMITTED", "UNKNOWN"} => IsConsumed(g)

RowsOK == \A g \in Grants : RowOK(g)

(* The inductive invariant of an approval: it is of a revision the scenario *)
(* has had, and the state column tells whether it is of the last one.       *)
ApprovalOK(s) ==
    /\ scenario[s].revision = 0 => scenario[s].state = "DRAFT"
    /\ approval[s].receipt > 0 => approval[s].revision \in 1 .. scenario[s].revision
    /\ LET current == approval[s].receipt > 0 /\ approval[s].revision = scenario[s].revision
       IN  /\ (scenario[s].state = "APPROVED") <=> (current /\ ~approval[s].revoked)
           /\ (scenario[s].state = "REVOKED") <=> (current /\ approval[s].revoked)

(* A revoked scenario holds no unused grant. *)
NoneOpen(s) == scenario[s].state = "REVOKED" => \A g \in Grants : grant[g].scenario = s => ~IsOpen(g)

(* A reservation that is held was issued in due distance of every write of  *)
(* its scenario, with room in the window that ended then.                   *)
HeldInRate(g) ==
    reservation[g].state = "RESERVED" =>
        LET before == WrittenGrants(grant[g].scenario)
        IN  /\ \A h \in before : grant[g].issuedAt - reservation[h].settledAt >= MinWriteInterval
            /\ Cardinality({h \in before : grant[g].issuedAt - reservation[h].settledAt < WriteRateWindow})
                   < MaxWritesPerDay

RateOK == \A g \in Grants : HeldInRate(g)
-----------------------------------------------------------------------------
(* Every transaction moves every row in one of these ways. *)

(* The columns of a row, and the moments that are times. *)
LEMMA RowTypes ==
    ASSUME TypeOK, RowsOK, NEW h \in Grants
    PROVE  /\ grant[h] \in GrantRow /\ reservation[h] \in ReservationRow /\ result[h] \in ResultRow
           /\ IsIssued(h) => grant[h].issuedAt \in Times
           /\ IsConsumed(h) => IsIssued(h) /\ grant[h].consumedAt \in Times
           /\ HasResult(h) => IsConsumed(h) /\ result[h].recordedAt \in Times
           /\ reservation[h].state = "RESERVED" => IsBusy(h)
           /\ Times \subseteq Nat /\ Null \notin Times
  BY TimeAssumption DEF TypeOK, RowsOK, RowOK, GrantRow, ReservationRow, ResultRow, Timestamp, IsIssued, IsConsumed, HasResult,
     IsBusy, IsOpen, IsInFlight, Null, NoGrantRow, NoReservation, NoResult

(* Later is the later of two times. *)
LEMMA LaterTime ==
    ASSUME NEW a \in Times, NEW b \in Times
    PROVE  Later(a, b) \in Times /\ Later(a, b) >= a /\ Later(a, b) >= b
  BY TimeAssumption DEF Later

(* The helpers of an invalidation withdraw the open grants of a set. *)
LEMMA InvalidationMoves ==
    ASSUME TypeOK, RowsOK, NEW gs \in SUBSET OpenGrants, NEW at \in Times, NEW h \in Grants,
           grant'[h] = GrantsInvalidated(gs, at)[h], reservation'[h] = GrantsReleased(gs, at)[h], result'[h] = result[h]
    PROVE  IF h \in gs THEN RowWithdrawn(h) ELSE RowKept(h)
<1>1. CASE h \in gs
  <2>1. IsOpen(h) /\ IsIssued(h)
    BY <1>1 DEF OpenGrants, IsOpen
  <2>2. Later(at, grant[h].issuedAt) \in Times /\ Later(at, grant[h].issuedAt) >= grant[h].issuedAt
    BY <2>1, RowTypes, LaterTime
  <2> QED
    BY <1>1, <2>1, <2>2 DEF GrantsInvalidated, GrantsReleased, RowWithdrawn
<1>2. CASE h \notin gs
  BY <1>2 DEF GrantsInvalidated, GrantsReleased, RowKept
<1> QED
  BY <1>1, <1>2

(* An issue writes one new row and withdraws the grants it replaces. *)
LEMMA IssueMoves ==
    ASSUME TypeOK, RowsOK, NEW g \in Grants, NEW s \in Scenarios, NEW seen \in Facts, NEW at \in Times,
           IssueExecutionGrant(g, s, seen, at), NEW h \in Grants
    PROVE  IF h = g THEN RowIssued(h) /\ grant'[h].issuedAt = at /\ grant'[h].scenario = s
           ELSE IF IsOpen(h) THEN RowWithdrawn(h) ELSE RowKept(h)
<1> DEFINE stale == StaleGrants(s, seen, at)
<1>1. stale \in SUBSET OpenGrants /\ OpenGrants \subseteq stale
  BY IssueFindsFreeSlot DEF StaleGrants
<1>2. CASE h = g
  <2>1. /\ grant'[h] = [scenario |-> s, revision |-> scenario[s].revision, receipt |-> approval[s].receipt, issuedAt |-> at,
                        expiresAt |-> at + ExecutionGrantTtl, consumedAt |-> Null, invalidatedAt |-> Null]
        /\ reservation'[h] = [state |-> "RESERVED", settledAt |-> Null]
    BY <1>2 DEF IssueExecutionGrant, GrantsInvalidated, GrantsReleased
  <2> QED
    BY <1>2, <2>1 DEF IssueExecutionGrant, RowIssued
<1>3. CASE h # g
  <2>1. /\ grant'[h] = GrantsInvalidated(stale, at)[h]
        /\ reservation'[h] = GrantsReleased(stale, at)[h]
        /\ result'[h] = result[h]
    BY <1>3 DEF IssueExecutionGrant, GrantsInvalidated, GrantsReleased
  <2>2. IF h \in stale THEN RowWithdrawn(h) ELSE RowKept(h)
    BY <1>1, <2>1, InvalidationMoves
  <2> QED
    BY <1>1, <1>3, <2>2 DEF OpenGrants
<1> QED
  BY <1>2, <1>3

(* A result that closes a write says when it was recorded and settled, and  *)
(* neither is before what it follows.                                       *)
LEMMA ClosingMoves ==
    ASSUME TypeOK, RowsOK, NEW h \in Grants, NEW at \in Times, NEW to \in {"RELEASED", "UNKNOWN"},
           IsInFlight(h), ~IsResultSettled(h),
           result'[h] = ClosedResult(h, to, at), reservation'[h] = ClosedReservation(h, to, at), grant'[h] = grant[h]
    PROVE  RowSettled(h)
<1> DEFINE r == RecordedAt(h, at)
           t == Later(at, r)
           u == Later(t, grant[h].issuedAt)
<1>1. IsConsumed(h) /\ IsIssued(h) /\ grant[h].consumedAt \in Times /\ grant[h].issuedAt \in Times
  BY RowTypes DEF IsInFlight
<1>2. r \in Times /\ r >= grant[h].consumedAt
  <2>1. CASE HasResult(h)
    BY <1>1, <2>1, RowTypes DEF RecordedAt, RowsOK, RowOK
  <2>2. CASE ~HasResult(h)
    BY <1>1, <2>2, LaterTime DEF RecordedAt
  <2> QED
    BY <2>1, <2>2
<1>3. t \in Times /\ t >= r
  BY <1>2, LaterTime
<1>4. u \in Times /\ u >= grant[h].issuedAt
  BY <1>1, <1>3, LaterTime
<1>5. result'[h] = [recordedAt |-> r, state |-> to, settledAt |-> t] /\ reservation'[h] = [state |-> to, settledAt |-> u]
  BY DEF ClosedResult, ClosedReservation
<1> HIDE DEF r, t, u
<1> QED
  BY <1>2, <1>3, <1>4, <1>5 DEF RowSettled

(* A report that settles a write does the same. *)
LEMMA SettlingMoves ==
    ASSUME TypeOK, RowsOK, NEW g \in Grants, NEW at \in Times, NEW submission \in {"NOT_SENT", "SENT", "UNKNOWN"},
           NEW responded \in BOOLEAN, SettleWriteResult(g, submission, responded, at)
    PROVE  RowSettled(g)
<1> DEFINE to == ReservationSettlementOf(submission, responded)
           r == result[g].recordedAt
           u == Later(at, grant[g].issuedAt)
<1>1. to \in {"RELEASED", "COMMITTED", "UNKNOWN"}
  BY DEF ReservationSettlementOf
<1>2. HasResult(g) /\ ~IsResultSettled(g) /\ reservation[g].state = "RESERVED" /\ at >= r
  BY DEF SettleWriteResult, IsSettleable
<1>3. /\ IsConsumed(g) /\ IsIssued(g) /\ grant[g].issuedAt \in Times /\ r \in Times
      /\ r >= grant[g].consumedAt
  BY <1>2, RowTypes DEF RowsOK, RowOK
<1>4. u \in Times /\ u >= grant[g].issuedAt
  BY <1>3, LaterTime
<1>5. /\ result'[g] = [result[g] EXCEPT !.state = to, !.settledAt = at]
      /\ reservation'[g] = [state |-> to, settledAt |-> u]
      /\ grant'[g] = grant[g]
  BY DEF SettleWriteResult, TypeOK
<1>6. result'[g] = [recordedAt |-> r, state |-> to, settledAt |-> at]
  BY <1>5, RowTypes DEF ResultRow
<1>7. IsInFlight(g)
  BY <1>2, <1>3 DEF IsInFlight
<1> HIDE DEF to, r, u
<1> SUFFICES \E to1 \in {"RELEASED", "COMMITTED", "UNKNOWN"}, r1, t1, u1 \in Times :
                 /\ r1 >= grant[g].consumedAt /\ t1 >= r1 /\ u1 >= grant[g].issuedAt
                 /\ result'[g] = [recordedAt |-> r1, state |-> to1, settledAt |-> t1]
                 /\ reservation'[g] = [state |-> to1, settledAt |-> u1]
  BY <1>2, <1>5, <1>7 DEF RowSettled
<1> USE <1>1, <1>3, <1>4
<1> WITNESS to \in {"RELEASED", "COMMITTED", "UNKNOWN"}, r \in Times, at \in Times, u \in Times
<1> QED
  BY <1>2, <1>5, <1>6

(* Outside an issue the rows of a grant move by themselves, and only those  *)
(* of a busy grant; a row that is not touched is kept.                      *)
LEMMA OtherMoves ==
    ASSUME TypeOK, RowsOK, NEW h \in Grants, [Next]_vars,
           ~\E g \in Grants, s \in Scenarios, seen \in Facts, at \in Times : IssueExecutionGrant(g, s, seen, at)
    PROVE  RowMoves(h) /\ (RowKept(h) \/ IsBusy(h))
<1> SUFFICES RowMoves(h)
  <2>1. RowMoves(h) => RowKept(h) \/ IsBusy(h)
    BY RowTypes DEF RowMoves, RowWithdrawn, RowConsumed, RowReleased, RowRecorded, RowSettled, IsBusy
  <2> QED
    BY <2>1
<1> USE DEF RowMoves
<1>1. CASE UNCHANGED grantVars
  BY <1>1 DEF grantVars, RowKept
<1>2. ASSUME NEW s \in Scenarios, NEW at \in Times, RevokeScenarioApproval(s, at)
      PROVE  RowMoves(h)
  <2>1. OpenGrantsOf(s) \in SUBSET OpenGrants
    BY DEF OpenGrantsOf
  <2>2. grant' = GrantsInvalidated(OpenGrantsOf(s), at) /\ reservation' = GrantsReleased(OpenGrantsOf(s), at) /\ result' = result
    BY <1>2 DEF RevokeScenarioApproval
  <2> QED
    BY <2>1, <2>2, InvalidationMoves
<1>3. ASSUME NEW g \in Grants, NEW at \in Times, NEW seen \in Facts, ConsumeExecutionGrant(g, seen, at)
      PROVE  RowMoves(h)
  BY <1>3 DEF ConsumeExecutionGrant, RowConsumed, RowKept, TypeOK
<1>4. ASSUME NEW g \in Grants, NEW at \in Times, ConsumeExpiredGrant(g, at)
      PROVE  RowMoves(h)
  <2>1. {g} \in SUBSET OpenGrants
    BY <1>4 DEF ConsumeExpiredGrant, OpenGrants
  <2>2. grant' = GrantsInvalidated({g}, at) /\ reservation' = GrantsReleased({g}, at) /\ result' = result
    BY <1>4 DEF ConsumeExpiredGrant
  <2> QED
    BY <2>1, <2>2, InvalidationMoves
<1>5. ASSUME NEW g \in Grants, NEW at \in Times, SettleWriteReservation(g, at)
      PROVE  RowMoves(h)
  <2>1. grant' = grant /\ result' = result /\ reservation' = GrantsReleased({g}, at)
    BY <1>5 DEF SettleWriteReservation
  <2>2. CASE h = g
    <3>1. reservation[h].state = "RESERVED"
      BY <1>5, <2>2 DEF SettleWriteReservation
    <3>2. Later(at, grant[h].issuedAt) \in Times /\ Later(at, grant[h].issuedAt) >= grant[h].issuedAt
      BY <3>1, RowTypes, LaterTime DEF IsBusy, IsOpen, IsInFlight
    <3> QED
      BY <2>1, <2>2, <3>1, <3>2 DEF GrantsReleased, RowReleased
  <2>3. CASE h # g
    BY <2>1, <2>3 DEF GrantsReleased, RowKept
  <2> QED
    BY <2>2, <2>3
<1>6. ASSUME NEW g \in Grants, NEW at \in Times, RecordWriteAttempt(g, at)
      PROVE  RowMoves(h)
  BY <1>6 DEF RecordWriteAttempt, RowRecorded, RowKept, TypeOK
<1>7. ASSUME NEW g \in Grants, NEW at \in Times, NEW submission \in {"NOT_SENT", "SENT", "UNKNOWN"},
             NEW responded \in BOOLEAN, SettleWriteResult(g, submission, responded, at)
      PROVE  RowMoves(h)
  <2>1. CASE h = g
    BY <1>7, <2>1, SettlingMoves
  <2>2. CASE h # g
    BY <1>7, <2>2 DEF SettleWriteResult, RowKept, TypeOK
  <2> QED
    BY <2>1, <2>2
<1>8. ASSUME NEW g \in Grants, NEW at \in Times, CloseWriteWithoutSending(g, at)
      PROVE  RowMoves(h)
  <2>1. IsClosable(g)
    BY <1>8 DEF CloseWriteWithoutSending
  <2>2. CASE ~IsConsumed(g)
    <3>1. {g} \in SUBSET OpenGrants
      BY <2>1, <2>2 DEF IsClosable, OpenGrants, IsOpen, IsConsumed
    <3>2. grant' = GrantsInvalidated({g}, at) /\ reservation' = GrantsReleased({g}, at) /\ result' = result
      BY <1>8, <2>2 DEF CloseWriteWithoutSending
    <3> QED
      BY <3>1, <3>2, InvalidationMoves
  <2>3. CASE IsConsumed(g) /\ h = g
    <3>1. IsInFlight(h) /\ ~IsResultSettled(h)
      BY <2>1, <2>3 DEF IsClosable, IsInFlight
    <3>2. /\ result'[h] = ClosedResult(h, "RELEASED", at) /\ reservation'[h] = ClosedReservation(h, "RELEASED", at)
          /\ grant'[h] = grant[h]
      BY <1>8, <2>3 DEF CloseWriteWithoutSending, TypeOK
    <3> QED
      BY <3>1, <3>2, ClosingMoves
  <2>4. CASE IsConsumed(g) /\ h # g
    BY <1>8, <2>4 DEF CloseWriteWithoutSending, TypeOK, RowKept
  <2> QED
    BY <2>2, <2>3, <2>4
<1>9. ASSUME NEW active \in SUBSET Grants, NEW at \in Times, CloseOrphanedWriteResults(active, at)
      PROVE  RowMoves(h)
  <2>1. CASE h \in OrphanedGrants(active)
    <3>1. IsInFlight(h) /\ ~IsResultSettled(h)
      BY <2>1 DEF OrphanedGrants
    <3>2. /\ result'[h] = ClosedResult(h, "UNKNOWN", at) /\ reservation'[h] = ClosedReservation(h, "UNKNOWN", at)
          /\ grant'[h] = grant[h]
      BY <1>9, <2>1 DEF CloseOrphanedWriteResults
    <3> QED
      BY <3>1, <3>2, ClosingMoves
  <2>2. CASE h \notin OrphanedGrants(active)
    BY <1>9, <2>2 DEF CloseOrphanedWriteResults, RowKept
  <2> QED
    BY <2>1, <2>2
<1>10. CASE ScenarioStep
  <2>1. \/ UNCHANGED grantVars
        \/ \E s \in Scenarios, at \in Times : RevokeScenarioApproval(s, at)
    BY <1>10 DEF ScenarioStep, CreateScenario, ReviseScenario, ApproveScenario, grantVars
  <2> QED
    BY <1>1, <1>2, <2>1
<1>11. CASE UNCHANGED vars
  BY <1>1, <1>11 DEF vars, grantVars
<1> QED
  BY <1>3, <1>4, <1>5, <1>6, <1>7, <1>8, <1>9, <1>10, <1>11 DEF Next, GrantStep, ResultStep, RecoveryStep

(* The rows of a grant as they are after a step: a new one, or moved.       *)
LEMMA RowStep ==
    ASSUME TypeOK, RowsOK, NEW h \in Grants, [Next]_vars
    PROVE  RowMoves(h) \/ RowIssued(h)
<1>1. ASSUME NEW g \in Grants, NEW s \in Scenarios, NEW seen \in Facts, NEW at \in Times,
             IssueExecutionGrant(g, s, seen, at)
      PROVE  RowMoves(h) \/ RowIssued(h)
  BY <1>1, IssueMoves DEF RowMoves
<1> QED
  BY <1>1, OtherMoves

(* The rows of a grant stay in order, however they move. *)
LEMMA RowsStep == TypeOK /\ RowsOK /\ [Next]_vars => RowsOK'
<1> SUFFICES ASSUME TypeOK, RowsOK, [Next]_vars, NEW h \in Grants PROVE RowOK(h)'
  BY DEF RowsOK
<1> DEFINE g0 == grant[h]
<1>1. RowOK(h) /\ grant[h] \in GrantRow /\ reservation[h] \in ReservationRow /\ result[h] \in ResultRow
  BY RowTypes DEF RowsOK
<1>2. Times \subseteq Nat /\ Null \notin Times
  BY RowTypes
<1> USE DEF RowOK, IsIssued, IsConsumed, HasResult, IsResultSettled
<1>3. CASE RowKept(h)
  BY <1>1, <1>3 DEF RowKept
<1>4. CASE RowIssued(h)
  BY <1>1, <1>2, <1>4 DEF RowIssued, NoResult
<1>5. CASE RowWithdrawn(h)
  BY <1>1, <1>2, <1>5 DEF RowWithdrawn, IsOpen, GrantRow, ReservationRow, ResultRow, Timestamp, Null
<1>6. CASE RowConsumed(h)
  BY <1>1, <1>2, <1>6 DEF RowConsumed, IsOpen, GrantRow, ReservationRow, ResultRow, Timestamp, Null
<1>7. CASE RowReleased(h)
  BY <1>1, <1>2, <1>7 DEF RowReleased, GrantRow, ReservationRow, ResultRow, Timestamp, Null, NoReservation
<1>8. CASE RowRecorded(h)
  <2>1. PICK t \in Times : t >= grant[h].consumedAt /\ result'[h] = [result[h] EXCEPT !.recordedAt = t]
    BY <1>8 DEF RowRecorded
  <2>2. result'[h].recordedAt = t /\ result'[h].state = result[h].state /\ result'[h].settledAt = result[h].settledAt
    BY <1>1, <2>1 DEF ResultRow
  <2>3. grant'[h] = grant[h] /\ reservation'[h] = reservation[h] /\ IsConsumed(h) /\ ~HasResult(h) /\ IsIssued(h)
    BY <1>8, RowTypes DEF RowRecorded, IsInFlight
  <2>4. result[h].settledAt = Null
    BY <1>1, <2>3
  <2> QED
    BY <1>1, <1>2, <2>1, <2>2, <2>3, <2>4
<1>9. CASE RowSettled(h)
  <2>1. PICK to \in {"RELEASED", "COMMITTED", "UNKNOWN"}, r \in Times, t \in Times, u \in Times :
          /\ r >= grant[h].consumedAt /\ t >= r /\ u >= grant[h].issuedAt
          /\ result'[h] = [recordedAt |-> r, state |-> to, settledAt |-> t]
          /\ reservation'[h] = [state |-> to, settledAt |-> u]
    BY <1>9 DEF RowSettled
  <2>2. grant'[h] = grant[h] /\ IsConsumed(h) /\ IsIssued(h)
    BY <1>9, RowTypes DEF RowSettled, IsInFlight
  <2>3. /\ result'[h].recordedAt = r /\ result'[h].state = to /\ result'[h].settledAt = t
        /\ reservation'[h].state = to /\ reservation'[h].settledAt = u
    BY <2>1
  <2> QED
    BY <1>1, <1>2, <2>1, <2>2, <2>3
<1> QED
  BY <1>3, <1>4, <1>5, <1>6, <1>7, <1>8, <1>9, RowStep DEF RowMoves

(* Empty tables are in order. *)
LEMMA RowsInit == Init => RowsOK
  BY DEF Init, RowsOK, RowOK, IsIssued, NoGrantRow

(* No transaction of the store, at any reading of the clock, ends in a row  *)
(* that a CHECK of its table refuses.                                       *)
THEOREM SchemaChecksAlwaysHold == Spec => []SchemaChecksHold
<1>1. RowsOK => SchemaChecksHold
  BY DEF RowsOK, RowOK, SchemaChecksHold
<1> QED
  BY <1>1, TypeInit, TypeStep, RowsInit, RowsStep, PTL DEF Spec
-----------------------------------------------------------------------------
(* Approvals *)

ApprovalsOK == \A s \in Scenarios : ApprovalOK(s) /\ NoneOpen(s)

(* The transactions on grants and results leave scenarios and approvals.    *)
LEMMA ScenarioFrame ==
    ASSUME GrantStep \/ ResultStep \/ RecoveryStep \/ UNCHANGED vars
    PROVE  UNCHANGED scenarioVars
<1>1. ASSUME NEW g \in Grants, NEW s \in Scenarios, NEW seen \in Facts, NEW at \in Times, IssueExecutionGrant(g, s, seen, at)
      PROVE  UNCHANGED scenarioVars
  BY <1>1 DEF IssueExecutionGrant
<1>2. ASSUME GrantStep, ~\E g \in Grants, s \in Scenarios, seen \in Facts, at \in Times : IssueExecutionGrant(g, s, seen, at)
      PROVE  UNCHANGED scenarioVars
  BY <1>2 DEF GrantStep, ConsumeExecutionGrant, ConsumeExpiredGrant, SettleWriteReservation
<1>3. CASE ResultStep
  BY <1>3 DEF ResultStep, RecordWriteAttempt, SettleWriteResult, CloseWriteWithoutSending
<1>4. CASE RecoveryStep \/ UNCHANGED vars
  BY <1>4 DEF RecoveryStep, CloseOrphanedWriteResults, vars, scenarioVars
<1> QED
  BY <1>1, <1>2, <1>3, <1>4

(* What the screen shows of an approval stays what its receipts say.        *)
LEMMA ApprovalStep ==
    ASSUME TypeOK, NEW s \in Scenarios, ApprovalOK(s), [Next]_vars
    PROVE  ApprovalOK(s)'
<1> USE DEF ApprovalOK
<1>1. scenario[s] \in ScenarioRow /\ approval[s] \in ApprovalRow /\ MaxRevision \in Nat /\ MaxReceipt \in Nat
  BY BoundAssumption DEF TypeOK
<1>2. CASE UNCHANGED scenarioVars
  BY <1>2 DEF scenarioVars
<1>3. ASSUME NEW z \in Scenarios, NEW at \in Times, CreateScenario(z, at)
      PROVE  ApprovalOK(s)'
  BY <1>1, <1>3 DEF CreateScenario, ScenarioRow, ApprovalRow, TypeOK
<1>4. ASSUME NEW z \in Scenarios, NEW at \in Times, ReviseScenario(z, at)
      PROVE  ApprovalOK(s)'
  BY <1>1, <1>4 DEF ReviseScenario, NextRevision, Changeable, ScenarioRow, ApprovalRow, TypeOK
<1>5. ASSUME NEW z \in Scenarios, NEW at \in Times, NEW seen \in Facts, ApproveScenario(z, seen, at)
      PROVE  ApprovalOK(s)'
  <2>1. CASE z # s
    BY <1>5, <2>1 DEF ApproveScenario, TypeOK
  <2>2. CASE z = s
    <3>1. /\ scenario'[s].revision = scenario[s].revision /\ scenario'[s].state = "APPROVED"
          /\ approval'[s].receipt = approval[s].receipt + 1 /\ approval'[s].revision = scenario[s].revision
          /\ approval'[s].revoked = FALSE
      BY <1>1, <1>5, <2>2 DEF ApproveScenario, TypeOK, ScenarioRow
    <3>2. scenario[s].revision \in Nat /\ scenario[s].revision > 0 /\ approval[s].receipt \in Nat
      BY <1>1, <1>5, <2>2 DEF ApproveScenario, Changeable, ScenarioRow, ApprovalRow
    <3> QED
      BY <3>1, <3>2
  <2> QED
    BY <2>1, <2>2
<1>6. ASSUME NEW z \in Scenarios, NEW at \in Times, RevokeScenarioApproval(z, at)
      PROVE  ApprovalOK(s)'
  <2>1. CASE z # s
    BY <1>6, <2>1 DEF RevokeScenarioApproval, TypeOK
  <2>2. CASE z = s
    <3>1. /\ scenario'[s].revision = scenario[s].revision /\ scenario'[s].state = "REVOKED"
          /\ approval'[s].receipt = approval[s].receipt /\ approval'[s].revision = approval[s].revision
          /\ approval'[s].revoked = TRUE
      BY <1>1, <1>6, <2>2 DEF RevokeScenarioApproval, TypeOK, ScenarioRow, ApprovalRow
    <3>2. scenario[s].revision # 0 /\ scenario[s].state = "APPROVED"
      BY <1>1, <1>6, <2>2 DEF RevokeScenarioApproval, Changeable, ScenarioRow
    <3> QED
      BY <3>1, <3>2
  <2> QED
    BY <2>1, <2>2
<1>7. CASE ScenarioStep
  BY <1>3, <1>4, <1>5, <1>6, <1>7 DEF ScenarioStep
<1>8. CASE GrantStep \/ ResultStep \/ RecoveryStep \/ UNCHANGED vars
  BY <1>2, <1>8, ScenarioFrame
<1> QED
  BY <1>7, <1>8 DEF Next

(* A step that is no issue opens no grant, and leaves it to its scenario.   *)
LEMMA OpenStaysOpen ==
    ASSUME TypeOK, RowsOK, NEW g \in Grants, RowMoves(g), IsOpen(g)'
    PROVE  IsOpen(g) /\ grant'[g].scenario = grant[g].scenario
  BY RowTypes DEF RowMoves, RowKept, RowWithdrawn, RowConsumed, RowReleased, RowRecorded, RowSettled, IsOpen, IsIssued,
                  GrantRow, Null

(* A revocation finds every open grant of its scenario, and while it stands *)
(* none is issued.                                                          *)
LEMMA NoneOpenStep ==
    ASSUME TypeOK, RowsOK, NEW s \in Scenarios, ApprovalOK(s), NoneOpen(s), [Next]_vars
    PROVE  NoneOpen(s)'
<1> SUFFICES ASSUME scenario'[s].state = "REVOKED", NEW g \in Grants, grant'[g].scenario = s, IsOpen(g)'
             PROVE  FALSE
  BY DEF NoneOpen
<1>1. ASSUME NEW i \in Grants, NEW z \in Scenarios, NEW seen \in Facts, NEW at \in Times,
             IssueExecutionGrant(i, z, seen, at)
      PROVE  FALSE
  <2>1. UNCHANGED scenarioVars
    BY <1>1 DEF IssueExecutionGrant
  <2>2. scenario[s].state = "REVOKED"
    BY <2>1 DEF scenarioVars
  <2>3. CASE g = i
    <3>1. z = s
      BY <1>1, <2>3, IssueMoves
    <3> QED
      BY <1>1, <2>2, <3>1 DEF IssueExecutionGrant, IsApproved, ApprovalOK, TypeOK, ScenarioRow, ApprovalRow
  <2>4. CASE g # i
    <3>1. RowMoves(g)
      BY <1>1, <2>4, IssueMoves DEF RowMoves
    <3> QED
      BY <2>2, <3>1, OpenStaysOpen DEF NoneOpen
  <2> QED
    BY <2>3, <2>4
<1>2. ASSUME ~\E i \in Grants, z \in Scenarios, seen \in Facts, at \in Times : IssueExecutionGrant(i, z, seen, at)
      PROVE  FALSE
  <2>1. IsOpen(g) /\ grant[g].scenario = s
    BY <1>2, OtherMoves, OpenStaysOpen
  <2>2. CASE scenario[s].state = "REVOKED"
    BY <2>1, <2>2 DEF NoneOpen
  <2>3. CASE scenario[s].state # "REVOKED"
    <3>1. PICK at \in Times : RevokeScenarioApproval(s, at)
      <4>1. ScenarioStep
        BY <2>3, ScenarioFrame DEF Next, scenarioVars
      <4>2. ASSUME NEW z \in Scenarios, NEW at \in Times, CreateScenario(z, at) \/ ReviseScenario(z, at)
            PROVE  FALSE
        BY <2>3, <4>2 DEF CreateScenario, ReviseScenario, NextRevision, TypeOK
      <4>3. ASSUME NEW z \in Scenarios, NEW at \in Times, NEW seen \in Facts, ApproveScenario(z, seen, at)
            PROVE  FALSE
        BY <2>3, <4>3 DEF ApproveScenario, TypeOK, ScenarioRow
      <4>4. ASSUME NEW z \in Scenarios, NEW at \in Times, RevokeScenarioApproval(z, at)
            PROVE  z = s
        BY <2>3, <4>4 DEF RevokeScenarioApproval, TypeOK, ScenarioRow
      <4> QED
        BY <4>1, <4>2, <4>3, <4>4 DEF ScenarioStep
    <3>2. g \in OpenGrantsOf(s)
      BY <2>1 DEF OpenGrantsOf, OpenGrants
    <3>3. grant'[g] = [grant[g] EXCEPT !.invalidatedAt = Later(at, grant[g].issuedAt)]
      BY <2>1, <3>1, <3>2 DEF RevokeScenarioApproval, GrantsInvalidated
    <3>4. Later(at, grant[g].issuedAt) \in Times /\ Null \notin Times
      BY <2>1, RowTypes, LaterTime DEF IsOpen
    <3> QED
      BY <3>3, <3>4, RowTypes DEF IsOpen, GrantRow
  <2> QED
    BY <2>2, <2>3
<1> QED
  BY <1>1, <1>2

(* There is no approval at first.                                           *)
LEMMA ApprovalsInit == Init => ApprovalsOK
  BY DEF Init, ApprovalsOK, ApprovalOK, NoneOpen, NoScenarioRow, NoApproval, NoGrantRow, IsOpen, IsIssued

(* Every step keeps what is said of the approvals.                          *)
LEMMA ApprovalsStep == TypeOK /\ RowsOK /\ ApprovalsOK /\ [Next]_vars => ApprovalsOK'
  BY ApprovalStep, NoneOpenStep DEF ApprovalsOK

(* After any sequence of revisions, approvals and revocations the state     *)
(* column agrees with the receipts, and a revoked scenario holds no unused  *)
(* grant.                                                                   *)
THEOREM RevocationIsAlwaysComplete == Spec => []RevocationIsComplete
<1>1. ApprovalsOK => RevocationIsComplete
  BY DEF ApprovalsOK, ApprovalOK, NoneOpen, RevocationIsComplete
<1> QED
  BY <1>1, TypeInit, TypeStep, RowsInit, RowsStep, ApprovalsInit, ApprovalsStep, PTL DEF Spec

(* A grant is consumed by the one action for it, whose guards find its      *)
(* approval standing and both lifetimes running.                            *)
LEMMA ConsumedAsApproved ==
    ASSUME TypeOK, RowsOK, ApprovalsOK, [Next]_vars, NEW g \in Grants, ~IsConsumed(g), IsConsumed(g)'
    PROVE  LET s == grant[g].scenario
           IN  /\ scenario[s].state = "APPROVED"
               /\ grant[g].receipt = approval[s].receipt
               /\ grant'[g].consumedAt < grant[g].expiresAt
               /\ grant'[g].consumedAt < approval[s].expiresAt
<1> DEFINE s == grant[g].scenario
<1>1. PICK at \in Times, seen \in Facts : ConsumeExecutionGrant(g, seen, at)
  <2>1. ~UNCHANGED grant
    BY DEF IsConsumed
  <2>2. ASSUME NEW i \in Grants, NEW z \in Scenarios, NEW seen \in Facts, NEW at \in Times, IssueExecutionGrant(i, z, seen, at)
        PROVE  FALSE
    <3>1. RowIssued(g) \/ RowWithdrawn(g) \/ RowKept(g)
      BY <2>2, IssueMoves
    <3>2. CASE RowIssued(g)
      BY <3>2 DEF RowIssued, IsConsumed
    <3>3. CASE RowWithdrawn(g)
      BY <3>3, RowTypes DEF RowWithdrawn, IsConsumed, IsOpen, GrantRow
    <3>4. CASE RowKept(g)
      BY <3>4 DEF RowKept, IsConsumed
    <3> QED
      BY <3>1, <3>2, <3>3, <3>4
  <2>3. ASSUME NEW gs \in SUBSET OpenGrants, NEW at \in Times, grant' = GrantsInvalidated(gs, at)
        PROVE  FALSE
    BY <2>3, RowTypes DEF GrantsInvalidated, IsConsumed, GrantRow
  <2>4. ASSUME NEW z \in Scenarios, NEW at \in Times, RevokeScenarioApproval(z, at)
        PROVE  FALSE
    BY <2>3, <2>4 DEF RevokeScenarioApproval, OpenGrantsOf
  <2>5. ASSUME NEW i \in Grants, NEW at \in Times, ConsumeExpiredGrant(i, at) \/ CloseWriteWithoutSending(i, at)
        PROVE  FALSE
    <3>1. IsOpen(i) \/ UNCHANGED grant
      BY <2>5 DEF ConsumeExpiredGrant, CloseWriteWithoutSending, IsClosable, IsOpen, IsConsumed
    <3> QED
      BY <2>1, <2>3, <2>5, <3>1 DEF ConsumeExpiredGrant, CloseWriteWithoutSending, OpenGrants
  <2>6. ASSUME NEW i \in Grants, NEW at \in Times, NEW seen \in Facts, ConsumeExecutionGrant(i, seen, at)
        PROVE  i = g
    BY <2>6 DEF ConsumeExecutionGrant, TypeOK, IsConsumed
  <2> QED
    BY <2>1, <2>2, <2>4, <2>5, <2>6
       DEF Next, ScenarioStep, GrantStep, ResultStep, RecoveryStep, CreateScenario, ReviseScenario, ApproveScenario,
           SettleWriteReservation, RecordWriteAttempt, SettleWriteResult, CloseOrphanedWriteResults, vars, grantVars
<1>2. IsOpen(g) /\ GrantMatchesApproval(g, s, seen, at) /\ ~IsGrantExpired(g, at) /\ grant'[g].consumedAt = at
  BY <1>1, RowTypes DEF ConsumeExecutionGrant, GrantRow, TypeOK
<1>3. s \in Scenarios /\ ApprovalOK(s) /\ scenario[s] \in ScenarioRow /\ approval[s] \in ApprovalRow
  BY <1>2 DEF IsOpen, RowsOK, RowOK, ApprovalsOK, TypeOK
<1>4. scenario[s].state = "APPROVED"
  BY <1>2, <1>3 DEF GrantMatchesApproval, IsApproved, ApprovalOK
<1>5. at \in Int /\ grant[g].expiresAt \in Int
  BY RowTypes DEF GrantRow
<1> QED
  BY <1>2, <1>4, <1>5 DEF GrantMatchesApproval, IsApproved, IsGrantExpired

(* A grant is consumed only while the approval it was issued under stands.  *)
THEOREM ConsumedOnlyAsApprovedHolds == Spec => ConsumedOnlyAsApproved
<1>1. TypeOK /\ RowsOK /\ ApprovalsOK /\ [Next]_vars =>
         [\A g \in Grants : ~IsConsumed(g) /\ IsConsumed(g)' =>
            LET s == grant[g].scenario
            IN  /\ scenario[s].state = "APPROVED"
                /\ grant[g].receipt = approval[s].receipt
                /\ grant'[g].consumedAt < grant[g].expiresAt
                /\ grant'[g].consumedAt < approval[s].expiresAt]_vars
  BY ConsumedAsApproved
<1> QED
  BY <1>1, TypeInit, TypeStep, RowsInit, RowsStep, ApprovalsInit, ApprovalsStep, PTL DEF Spec, ConsumedOnlyAsApproved
-----------------------------------------------------------------------------
(* The promise of WriteSlot *)

(* A grant is open or in flight exactly in the two phases that hold the     *)
(* slot.                                                                    *)
LEMMA PhaseMeaning ==
    ASSUME TypeOK, RowsOK, NEW h \in Grants
    PROVE  /\ IsOpen(h) <=> Phase(h) = "OPEN"
           /\ IsInFlight(h) <=> Phase(h) = "WRITING"
           /\ ~IsIssued(h) <=> Phase(h) = "UNUSED"
  BY RowTypes DEF Phase, IsOpen, IsInFlight, IsConsumed, IsIssued, RowsOK, RowOK, NoReservation

(* However a row moves, its grant goes on in one direction, if at all.      *)
LEMMA PhaseMoves ==
    ASSUME TypeOK, RowsOK, NEW h \in Grants, RowMoves(h)
    PROVE  \/ Phase(h)' = Phase(h)
           \/ Phase(h) = "OPEN" /\ Phase(h)' \in {"WRITING", "RETURNED"}
           \/ Phase(h) = "WRITING" /\ Phase(h)' \in {"SETTLED", "RETURNED"}
<1> USE RowTypes DEF Phase, IsOpen, IsInFlight, IsConsumed, IsIssued, Null
<1>1. CASE RowKept(h)
  BY <1>1 DEF RowKept
<1>2. CASE RowWithdrawn(h)
  BY <1>2 DEF RowWithdrawn, RowsOK, RowOK, GrantRow
<1>3. CASE RowConsumed(h)
  BY <1>3 DEF RowConsumed, RowsOK, RowOK, GrantRow
<1>4. CASE RowReleased(h)
  BY <1>4 DEF RowReleased
<1>5. CASE RowRecorded(h)
  BY <1>5 DEF RowRecorded
<1>6. CASE RowSettled(h)
  BY <1>6 DEF RowSettled
<1> QED
  BY <1>1, <1>2, <1>3, <1>4, <1>5, <1>6 DEF RowMoves

(* An issue gives the slot to its grant and takes it from the open ones.    *)
LEMMA PhaseOfIssue ==
    ASSUME TypeOK, RowsOK, NEW g \in Grants, NEW s \in Scenarios, NEW seen \in Facts, NEW at \in Times,
           IssueExecutionGrant(g, s, seen, at), NEW h \in Grants
    PROVE  Phase(h)' = IF h = g THEN "OPEN" ELSE IF Phase(h) = "OPEN" THEN "RETURNED" ELSE Phase(h)
<1>1. CASE h = g
  <2>1. RowIssued(h)
    BY <1>1, IssueMoves
  <2> QED
    BY <1>1, <2>1, RowTypes DEF RowIssued, Phase, IsOpen, IsInFlight, IsConsumed, IsIssued
<1>2. CASE h # g /\ IsOpen(h)
  <2>1. RowWithdrawn(h)
    BY <1>2, IssueMoves
  <2>2. Phase(h)' = "RETURNED"
    BY <2>1, RowTypes DEF RowWithdrawn, Phase, IsOpen, IsInFlight, IsConsumed, IsIssued, RowsOK, RowOK, GrantRow
  <2> QED
    BY <1>2, <2>2, PhaseMeaning
<1>3. CASE h # g /\ ~IsOpen(h)
  <2>1. RowKept(h)
    BY <1>3, IssueMoves
  <2>2. Phase(h)' = Phase(h)
    BY <2>1 DEF RowKept, Phase, IsOpen, IsInFlight, IsConsumed, IsIssued
  <2> QED
    BY <1>3, <2>2, PhaseMeaning
<1> QED
  BY <1>1, <1>2, <1>3

(* A transaction of the store is a step of the slot or leaves it as it is.  *)
LEMMA SlotStep ==
    ASSUME TypeOK, RowsOK, OneWriteAtATime, [Next]_vars
    PROVE  [Slot!Next]_([g \in Grants |-> Phase(g)])
<1> DEFINE phase == [g \in Grants |-> Phase(g)]
<1>1. ASSUME NEW g \in Grants, NEW s \in Scenarios, NEW seen \in Facts, NEW at \in Times,
             IssueExecutionGrant(g, s, seen, at)
      PROVE  Slot!Grant(g)
  <2>1. phase[g] = "UNUSED"
    BY <1>1, PhaseMeaning DEF IssueExecutionGrant
  <2>2. \A h \in Grants : phase[h] # "WRITING"
    BY <1>1, IssueFindsFreeSlot, PhaseMeaning DEF InFlightGrants
  <2>3. phase' = [h \in Grants |-> IF h = g THEN "OPEN" ELSE IF phase[h] = "OPEN" THEN "RETURNED" ELSE phase[h]]
    BY <1>1, PhaseOfIssue
  <2> QED
    BY <2>1, <2>2, <2>3 DEF Slot!Grant, Slot!Writing
<1>2. ASSUME ~\E g \in Grants, s \in Scenarios, seen \in Facts, at \in Times : IssueExecutionGrant(g, s, seen, at)
      PROVE  Slot!Next \/ phase' = phase
  <2>1. \A h \in Grants :
          \/ phase'[h] = phase[h]
          \/ phase[h] = "OPEN" /\ phase'[h] \in {"WRITING", "RETURNED"}
          \/ phase[h] = "WRITING" /\ phase'[h] \in {"SETTLED", "RETURNED"}
    BY <1>2, OtherMoves, PhaseMoves
  <2>2. CASE \A h \in Grants : phase'[h] = phase[h]
    BY <2>2
  <2>3. ASSUME NEW g \in Grants, phase'[g] # phase[g]
        PROVE  Slot!Next
    <3>1. IsBusy(g)
      BY <2>1, <2>3, PhaseMeaning DEF IsBusy
    <3>2. \A h \in Grants \ {g} : phase'[h] = phase[h]
      BY <2>1, <3>1, PhaseMeaning DEF OneWriteAtATime, IsBusy
    <3>3. phase' = [phase EXCEPT ![g] = phase'[g]]
      BY <3>2
    <3>4. CASE phase[g] = "OPEN"
      BY <2>1, <2>3, <3>3, <3>4 DEF Slot!Next, Slot!Begin, Slot!Withdraw
    <3>5. CASE phase[g] = "WRITING"
      BY <2>1, <2>3, <3>3, <3>5 DEF Slot!Next, Slot!Finish
    <3> QED
      BY <2>1, <2>3, <3>4, <3>5
  <2> QED
    BY <2>2, <2>3
<1> QED
  BY <1>1, <1>2 DEF Slot!Next

(* The tables implement the one slot: every grant goes through its phases   *)
(* once, and a new one displaces only grants whose write has not begun.     *)
THEOREM ImplementsWriteSlotHolds == Spec => ImplementsWriteSlot
<1>1. Init => Slot!Init
  <2> SUFFICES ASSUME Init PROVE \A g \in Grants : Phase(g) = "UNUSED"
    BY DEF Slot!Init
  <2> TAKE g \in Grants
  <2>1. grant[g].issuedAt = Null /\ grant[g].consumedAt = Null /\ reservation[g].state = "NONE"
    BY DEF Init, NoGrantRow, NoReservation
  <2> QED
    BY <2>1 DEF Phase, IsOpen, IsInFlight, IsConsumed, IsIssued
<1>2. Init => OneWriteAtATime
  BY DEF Init, OneWriteAtATime, IsBusy, IsOpen, IsInFlight, IsIssued, IsConsumed, NoGrantRow, NoReservation
<1> QED
  BY <1>1, <1>2, TypeInit, TypeStep, RowsInit, RowsStep, OneWriteStep, SlotStep, PTL DEF Spec, ImplementsWriteSlot, Slot!Spec
-----------------------------------------------------------------------------
(* The rate and the limit of writes *)

(* A write that counts for the rate keeps its scenario and its time, and a  *)
(* row begins to count only when its held reservation is settled, at or     *)
(* after its issue.                                                         *)
LEMMA WrittenMoves ==
    ASSUME TypeOK, RowsOK, NEW h \in Grants, RowMoves(h) \/ RowIssued(h), NEW s \in Scenarios, h \in WrittenGrants(s)'
    PROVE  \/ /\ h \in WrittenGrants(s)
              /\ reservation'[h] = reservation[h]
           \/ /\ IsInFlight(h) /\ reservation'[h].state # "RESERVED"
              /\ grant[h].scenario = s
              /\ reservation'[h].settledAt >= grant[h].issuedAt
<1> USE DEF WrittenGrants, GrantsOf
<1>1. CASE RowKept(h)
  BY <1>1 DEF RowKept
<1>2. CASE RowIssued(h)
  BY <1>2 DEF RowIssued
<1>3. CASE RowWithdrawn(h)
  BY <1>3, RowTypes DEF RowWithdrawn, GrantRow
<1>4. CASE RowConsumed(h)
  BY <1>4, RowTypes DEF RowConsumed, GrantRow
<1>5. CASE RowReleased(h)
  BY <1>5 DEF RowReleased
<1>6. CASE RowRecorded(h)
  BY <1>6 DEF RowRecorded
<1>7. CASE RowSettled(h)
  BY <1>7 DEF RowSettled
<1> QED
  BY <1>1, <1>2, <1>3, <1>4, <1>5, <1>6, <1>7 DEF RowMoves

(* A reservation that is held after a step was held before it or is new.    *)
LEMMA HeldMoves ==
    ASSUME TypeOK, RowsOK, NEW h \in Grants, RowMoves(h), reservation'[h].state = "RESERVED"
    PROVE  /\ reservation[h].state = "RESERVED"
           /\ grant'[h].scenario = grant[h].scenario
           /\ grant'[h].issuedAt = grant[h].issuedAt
<1>1. CASE RowKept(h) \/ RowReleased(h) \/ RowRecorded(h)
  BY <1>1 DEF RowKept, RowReleased, RowRecorded
<1>2. CASE RowWithdrawn(h) \/ RowConsumed(h)
  BY <1>2, RowTypes DEF RowWithdrawn, RowConsumed, GrantRow
<1>3. CASE RowSettled(h)
  BY <1>3 DEF RowSettled
<1> QED
  BY <1>1, <1>2, <1>3 DEF RowMoves

(* The writes of a scenario are finitely many, and their times are times.   *)
LEMMA WrittenTypes ==
    ASSUME TypeOK, RowsOK, NEW s, NEW h \in WrittenGrants(s)
    PROVE  h \in Grants /\ IsIssued(h) /\ reservation[h].settledAt \in Int
  BY RowTypes DEF WrittenGrants, GrantsOf, RowsOK, RowOK, ReservationRow, Timestamp, NoReservation, Null

(* A subset of the grants counts no more than a set that contains it, and   *)
(* one grant more counts one more.                                          *)
LEMMA GrantCount ==
    ASSUME NEW A \in SUBSET Grants, NEW B \in SUBSET Grants
    PROVE  /\ Cardinality(A) \in Nat
           /\ A \subseteq B => Cardinality(A) <= Cardinality(B)
           /\ \A g : A \subseteq B \cup {g} => Cardinality(A) <= Cardinality(B) + 1
<1>1. IsFiniteSet(A) /\ IsFiniteSet(B)
  BY GrantsAssumption, FS_Subset
<1>2. Cardinality(A) \in Nat /\ Cardinality(B) \in Nat
  BY <1>1, FS_CardinalityType
<1>3. A \subseteq B => Cardinality(A) <= Cardinality(B)
  BY <1>1, FS_Subset
<1>4. ASSUME NEW g, A \subseteq B \cup {g} PROVE Cardinality(A) <= Cardinality(B) + 1
  <2>1. /\ IsFiniteSet(B \cup {g})
        /\ Cardinality(B \cup {g}) = IF g \in B THEN Cardinality(B) ELSE Cardinality(B) + 1
    BY <1>1, FS_AddElement
  <2>2. Cardinality(A) <= Cardinality(B \cup {g})
    BY <1>4, <2>1, FS_Subset
  <2> QED
    BY <1>2, <2>1, <2>2
<1> QED
  BY <1>2, <1>3, <1>4

RateInv == RateOK /\ WritesKeepTheRate

(* While no write is settled as sent, the writes of a scenario are those    *)
(* before, and only an issue, which looks at them, holds a reservation.     *)
LEMMA RateStepWithoutWrite ==
    ASSUME TypeOK, RowsOK, RateInv, [Next]_vars,
           \A s \in Scenarios : \A h \in WrittenGrants(s)' : h \in WrittenGrants(s) /\ reservation'[h] = reservation[h]
    PROVE  RateInv'
<1>1. ASSUME NEW g \in Grants PROVE HeldInRate(g)'
  <2> SUFFICES ASSUME reservation'[g].state = "RESERVED" PROVE HeldInRate(g)'
    BY DEF HeldInRate
  <2>1. PICK z \in Scenarios : z = grant'[g].scenario
    <3>1. RowsOK' /\ TypeOK'
      BY RowsStep, TypeStep
    <3> QED
      BY <3>1 DEF RowsOK, RowOK, NoReservation
  <2> DEFINE old == {h \in WrittenGrants(z) : grant'[g].issuedAt - reservation[h].settledAt < WriteRateWindow}
             new == {h \in WrittenGrants(z)' : grant'[g].issuedAt - reservation'[h].settledAt < WriteRateWindow}
  <2>2. /\ \A h \in WrittenGrants(z) : grant'[g].issuedAt - reservation[h].settledAt >= MinWriteInterval
        /\ Cardinality(old) < MaxWritesPerDay
    <3>1. CASE RowMoves(g)
      BY <2>1, <3>1, HeldMoves DEF RateInv, RateOK, HeldInRate
    <3>2. ASSUME NEW i \in Grants, NEW s \in Scenarios, NEW seen \in Facts, NEW at \in Times,
                 IssueExecutionGrant(i, s, seen, at), i = g
          PROVE  /\ \A h \in WrittenGrants(z) : grant'[g].issuedAt - reservation[h].settledAt >= MinWriteInterval
                 /\ Cardinality(old) < MaxWritesPerDay
      <4>1. z = s /\ grant'[g].issuedAt = at
        BY <2>1, <3>2, IssueMoves
      <4>2. WriteRateAccepts(s, at)
        BY <3>2 DEF IssueExecutionGrant
      <4> QED
        BY <4>1, <4>2 DEF WriteRateAccepts
    <3>3. ASSUME NEW i \in Grants, NEW s \in Scenarios, NEW seen \in Facts, NEW at \in Times,
                 IssueExecutionGrant(i, s, seen, at), i # g
          PROVE  RowMoves(g)
      BY <3>3, IssueMoves DEF RowMoves
    <3> QED
      BY <3>1, <3>2, <3>3, OtherMoves
  <2>3. new \subseteq old /\ old \in SUBSET Grants /\ new \in SUBSET Grants
    <3>1. new \subseteq old
      OBVIOUS
    <3>2. old \in SUBSET Grants
      BY DEF WrittenGrants, GrantsOf
    <3> QED
      BY <3>1, <3>2
  <2>4. Cardinality(new) < MaxWritesPerDay
    <3>1. Cardinality(new) <= Cardinality(old) /\ Cardinality(new) \in Nat /\ Cardinality(old) \in Nat
      BY <2>3, GrantCount
    <3> QED
      BY <2>2, <3>1, RateAssumption
  <2>5. \A h \in WrittenGrants(z)' : grant'[g].issuedAt - reservation'[h].settledAt >= MinWriteInterval
    BY <2>2
  <2> QED
    BY <2>1, <2>4, <2>5 DEF HeldInRate
<1>2. WritesAreSpaced'
  BY DEF RateInv, WritesKeepTheRate, WritesAreSpaced
<1>3. WritesFitTheWindow'
  <2> SUFFICES ASSUME NEW s \in Scenarios, NEW g \in WrittenGrants(s)'
               PROVE  Cardinality({h \in WrittenGrants(s)' :
                          /\ reservation'[h].settledAt <= reservation'[g].settledAt
                          /\ reservation'[g].settledAt - reservation'[h].settledAt < WriteRateWindow}) <= MaxWritesPerDay
    BY DEF WritesFitTheWindow
  <2> DEFINE old == {h \in WrittenGrants(s) : /\ reservation[h].settledAt <= reservation[g].settledAt
                                              /\ reservation[g].settledAt - reservation[h].settledAt < WriteRateWindow}
             new == {h \in WrittenGrants(s)' : /\ reservation'[h].settledAt <= reservation'[g].settledAt
                                               /\ reservation'[g].settledAt - reservation'[h].settledAt < WriteRateWindow}
  <2>1. new \subseteq old /\ old \in SUBSET Grants /\ new \in SUBSET Grants /\ g \in WrittenGrants(s) /\ g \in Grants
    BY DEF WrittenGrants, GrantsOf
  <2>2. Cardinality(old) <= MaxWritesPerDay
    BY <2>1 DEF RateInv, WritesKeepTheRate, WritesFitTheWindow
  <2>3. Cardinality(new) <= Cardinality(old) /\ Cardinality(new) \in Nat /\ Cardinality(old) \in Nat
    BY <2>1, GrantCount
  <2> QED
    BY <2>2, <2>3, RateAssumption
<1> QED
  BY <1>1, <1>2, <1>3 DEF RateInv, RateOK, WritesKeepTheRate
(* A write that is settled as sent, or as perhaps sent, was held: it comes  *)
(* in due distance after the others and finds room in the window, and no    *)
(* other reservation is held meanwhile.                                     *)
LEMMA RateStepWithWrite ==
    ASSUME TypeOK, RowsOK, OneWriteAtATime, RateInv, [Next]_vars,
           NEW z \in Scenarios, NEW g0 \in WrittenGrants(z)', ~(g0 \in WrittenGrants(z) /\ reservation'[g0] = reservation[g0])
    PROVE  RateInv'
<1> USE RateAssumption
<1>1. g0 \in Grants
  BY DEF WrittenGrants, GrantsOf
<1>2. /\ IsInFlight(g0) /\ reservation'[g0].state # "RESERVED"
      /\ grant[g0].scenario = z
      /\ reservation'[g0].settledAt >= grant[g0].issuedAt
  BY <1>1, RowStep, WrittenMoves
<1>3. reservation[g0].state = "RESERVED" /\ HeldInRate(g0) /\ grant[g0].issuedAt \in Int
  BY <1>1, <1>2, RowTypes DEF IsInFlight, RateInv, RateOK
<1>4. ASSUME NEW h \in Grants \ {g0} PROVE RowKept(h)
  <2>1. ASSUME NEW i \in Grants, NEW s \in Scenarios, NEW seen \in Facts, NEW at \in Times,
               IssueExecutionGrant(i, s, seen, at)
        PROVE  FALSE
    BY <1>1, <1>2, <2>1, IssueFindsFreeSlot DEF InFlightGrants
  <2>2. RowKept(h) \/ IsBusy(h)
    BY <2>1, OtherMoves
  <2> QED
    BY <1>1, <1>2, <2>2 DEF OneWriteAtATime, IsBusy
<1>5. TypeOK' /\ RowsOK'
  BY TypeStep, RowsStep
<1>6. ASSUME NEW s \in Scenarios, NEW h \in WrittenGrants(s)', h # g0
      PROVE  h \in WrittenGrants(s) /\ reservation'[h] = reservation[h] /\ reservation[h].settledAt \in Int
  <2>1. h \in Grants
    BY DEF WrittenGrants, GrantsOf
  <2>2. h \in WrittenGrants(s) /\ reservation'[h] = reservation[h]
    BY <1>4, <1>6, <2>1 DEF RowKept, WrittenGrants, GrantsOf
  <2> QED
    BY <2>2, WrittenTypes
<1>7. ASSUME NEW s \in Scenarios, g0 \in WrittenGrants(s)'
      PROVE  s = z
  BY <1>7 DEF WrittenGrants, GrantsOf
<1>8. reservation'[g0].settledAt \in Int
  BY <1>1, <1>2, <1>5, RowTypes DEF WrittenGrants, GrantsOf, RowsOK, RowOK, ReservationRow, Timestamp, NoReservation, TypeOK, Null
<1> DEFINE before == WrittenGrants(z)
           room == {h \in before : grant[g0].issuedAt - reservation[h].settledAt < WriteRateWindow}
<1>9. /\ \A h \in before : grant[g0].issuedAt - reservation[h].settledAt >= MinWriteInterval
      /\ Cardinality(room) < MaxWritesPerDay
      /\ room \in SUBSET Grants
  BY <1>2, <1>3 DEF HeldInRate, WrittenGrants, GrantsOf
<1>10. RateOK'
  <2> SUFFICES ASSUME NEW g \in Grants PROVE HeldInRate(g)'
    BY DEF RateOK
  <2>1. reservation'[g].state # "RESERVED"
    <3>1. CASE g = g0
      BY <1>2, <3>1
    <3>2. CASE g # g0
      <4>1. RowKept(g)
        BY <1>4, <3>2
      <4>2. reservation[g].state = "RESERVED" => IsBusy(g)
        BY RowTypes
      <4> QED
        BY <1>1, <1>2, <3>2, <4>1, <4>2 DEF RowKept, OneWriteAtATime, IsBusy
    <3> QED
      BY <3>1, <3>2
  <2> QED
    BY <2>1 DEF HeldInRate
<1>11. WritesAreSpaced'
  <2> SUFFICES ASSUME NEW s \in Scenarios, NEW g \in WrittenGrants(s)', NEW h \in WrittenGrants(s)', g # h
               PROVE  \/ reservation'[g].settledAt - reservation'[h].settledAt >= MinWriteInterval
                      \/ reservation'[h].settledAt - reservation'[g].settledAt >= MinWriteInterval
    BY DEF WritesAreSpaced
  <2>1. CASE g # g0 /\ h # g0
    BY <1>6, <2>1 DEF RateInv, WritesKeepTheRate, WritesAreSpaced
  <2>2. CASE g = g0
    BY <1>2, <1>3, <1>6, <1>7, <1>8, <1>9, <2>2
  <2>3. CASE h = g0
    BY <1>2, <1>3, <1>6, <1>7, <1>8, <1>9, <2>3
  <2> QED
    BY <2>1, <2>2, <2>3
<1>12. WritesFitTheWindow'
  <2> SUFFICES ASSUME NEW s \in Scenarios, NEW g \in WrittenGrants(s)'
               PROVE  Cardinality({h \in WrittenGrants(s)' :
                          /\ reservation'[h].settledAt <= reservation'[g].settledAt
                          /\ reservation'[g].settledAt - reservation'[h].settledAt < WriteRateWindow}) <= MaxWritesPerDay
    BY DEF WritesFitTheWindow
  <2> DEFINE new == {h \in WrittenGrants(s)' : /\ reservation'[h].settledAt <= reservation'[g].settledAt
                                               /\ reservation'[g].settledAt - reservation'[h].settledAt < WriteRateWindow}
             old == {h \in WrittenGrants(s) : /\ reservation[h].settledAt <= reservation[g].settledAt
                                              /\ reservation[g].settledAt - reservation[h].settledAt < WriteRateWindow}
  <2>1. new \in SUBSET Grants /\ old \in SUBSET Grants
    BY DEF WrittenGrants, GrantsOf
  <2>2. CASE g0 \in new
    <3>1. s = z /\ reservation'[g0].settledAt <= reservation'[g].settledAt
      BY <1>7, <2>2
    <3>2. reservation'[g].settledAt = reservation'[g0].settledAt \/ reservation'[g].settledAt <= grant[g0].issuedAt
      BY <1>3, <1>6, <1>9, <3>1
    <3>3. reservation'[g].settledAt >= grant[g0].issuedAt
      <4>1. reservation'[g].settledAt \in Int
        BY <1>6, <1>8
      <4> QED
        BY <1>2, <1>3, <1>8, <3>1, <4>1
    <3>4. new \subseteq room \cup {g0}
      <4> SUFFICES ASSUME NEW h \in new, h # g0 PROVE h \in room
        OBVIOUS
      <4>1. h \in before /\ reservation'[h] = reservation[h] /\ reservation[h].settledAt \in Int
        BY <1>6, <3>1
      <4>2. reservation'[g].settledAt \in Int
        BY <1>6, <1>8
      <4> QED
        BY <1>3, <3>3, <4>1, <4>2
    <3>5. Cardinality(new) <= Cardinality(room) + 1 /\ Cardinality(new) \in Nat /\ Cardinality(room) \in Nat
      BY <1>1, <1>9, <2>1, <3>4, GrantCount
    <3> QED
      BY <1>9, <3>5
  <2>3. CASE g = g0 /\ g0 \notin new
    <3>1. WriteRateWindow = 0
      BY <1>8, <2>3
    <3>2. new = {}
      <4> SUFFICES ASSUME NEW h \in new PROVE FALSE
        OBVIOUS
      <4>1. reservation'[h].settledAt \in Int
        BY <1>6, <1>8
      <4> QED
        BY <1>8, <2>3, <3>1, <4>1
    <3>3. Cardinality(new) = 0
      BY <3>2, FS_EmptySet
    <3> QED
      BY <3>3
  <2>4. CASE g # g0 /\ g0 \notin new
    <3>1. g \in WrittenGrants(s) /\ reservation'[g] = reservation[g]
      BY <1>6, <2>4
    <3>2. new \subseteq old
      BY <1>6, <2>4, <3>1
    <3>3. Cardinality(old) <= MaxWritesPerDay
      BY <3>1 DEF RateInv, WritesKeepTheRate, WritesFitTheWindow
    <3>4. Cardinality(new) <= Cardinality(old) /\ Cardinality(new) \in Nat /\ Cardinality(old) \in Nat
      BY <1>1, <2>1, <3>2, GrantCount
    <3> QED
      BY <3>3, <3>4
  <2> QED
    BY <2>2, <2>3, <2>4
<1> QED
  BY <1>10, <1>11, <1>12 DEF RateInv, WritesKeepTheRate
(* Every step keeps the rate.                                               *)
LEMMA RateStep == TypeOK /\ RowsOK /\ OneWriteAtATime /\ RateInv /\ [Next]_vars => RateInv'
  BY RateStepWithoutWrite, RateStepWithWrite

(* Nothing is counted at first.                                             *)
LEMMA RateInit == Init => RateInv
<1> SUFFICES ASSUME Init PROVE RateInv
  OBVIOUS
<1>1. \A g \in Grants : reservation[g].state = "NONE"
  BY DEF Init, NoReservation
<1>2. \A s : WrittenGrants(s) = {}
  BY <1>1 DEF WrittenGrants, GrantsOf
<1> QED
  BY <1>1, <1>2 DEF RateInv, RateOK, HeldInRate, WritesKeepTheRate, WritesAreSpaced, WritesFitTheWindow

(* The writes of a scenario are settled far enough apart and no window has  *)
(* too many of them, however the clock moves between issue and settlement.  *)
THEOREM WritesAlwaysKeepTheRate == Spec => []WritesKeepTheRate
<1>1. Init => OneWriteAtATime
  BY DEF Init, OneWriteAtATime, IsBusy, IsOpen, IsInFlight, IsIssued, IsConsumed, NoGrantRow, NoReservation
<1>2. RateInv => WritesKeepTheRate
  BY DEF RateInv
<1> QED
  BY <1>1, <1>2, TypeInit, TypeStep, RowsInit, RowsStep, OneWriteStep, RateInit, RateStep, PTL DEF Spec

(* The writes counted against a scenario grow only by an issue, which finds *)
(* room for one more among those it does not give back.                     *)
LEMMA CountStep ==
    ASSUME TypeOK, RowsOK, ApprovalsOK, [Next]_vars, NEW s \in Scenarios,
           UsedCumulativeWrites(s, {})' > UsedCumulativeWrites(s, {})
    PROVE  UsedCumulativeWrites(s, {})' <= CumulativeLimit[s][scenario[s].revision]
<1> DEFINE States == {"RESERVED", "COMMITTED", "UNKNOWN"}
           old == {g \in GrantsOf(s) \ {} : reservation[g].state \in States}
           new == {g \in GrantsOf(s)' \ {} : reservation'[g].state \in States}
<1>1. UsedCumulativeWrites(s, {}) = Cardinality(old) /\ UsedCumulativeWrites(s, {})' = Cardinality(new)
  BY DEF UsedCumulativeWrites
<1>2. old \in SUBSET Grants /\ new \in SUBSET Grants
  BY DEF GrantsOf
<1>3. ASSUME NEW h \in Grants, RowMoves(h), h \in new PROVE h \in old
  <2>1. CASE RowKept(h) \/ RowReleased(h) \/ RowRecorded(h)
    BY <1>3, <2>1 DEF RowKept, RowReleased, RowRecorded, GrantsOf
  <2>2. CASE RowWithdrawn(h) \/ RowConsumed(h)
    BY <1>3, <2>2, RowTypes DEF RowWithdrawn, RowConsumed, GrantsOf, GrantRow
  <2>3. CASE RowSettled(h)
    BY <1>3, <2>3 DEF RowSettled, GrantsOf, IsInFlight
  <2> QED
    BY <1>3, <2>1, <2>2, <2>3 DEF RowMoves
<1>4. ASSUME new \subseteq old PROVE FALSE
  <2>1. Cardinality(new) <= Cardinality(old) /\ Cardinality(new) \in Nat /\ Cardinality(old) \in Nat
    BY <1>2, <1>4, GrantCount
  <2> QED
    BY <1>1, <2>1
<1>5. PICK g \in Grants, z \in Scenarios, seen \in Facts, at \in Times : IssueExecutionGrant(g, z, seen, at)
  BY <1>2, <1>3, <1>4, OtherMoves
<1>6. \A h \in Grants : h # g => RowMoves(h)
  BY <1>5, IssueMoves DEF RowMoves
<1>7. z = s
  <2>1. grant'[g].scenario = z
    BY <1>5, IssueMoves
  <2> QED
    BY <1>2, <1>3, <1>4, <1>6, <2>1 DEF GrantsOf
<1> DEFINE stale == StaleGrants(s, seen, at)
           left == {h \in GrantsOf(s) \ stale : reservation[h].state \in States}
<1>8. Cardinality(left) < CumulativeLimit[s][scenario[s].revision]
  BY <1>5, <1>7 DEF IssueExecutionGrant, WriteLimitAccepts, UsedCumulativeWrites
<1>9. new \subseteq left \cup {g}
  <2> SUFFICES ASSUME NEW h \in new, h # g PROVE h \in left
    OBVIOUS
  <2>1. h \in Grants /\ h \in old
    BY <1>2, <1>3, <1>6
  <2>2. h \notin stale
    <3>1. SUFFICES ASSUME IsOpen(h) PROVE FALSE
      BY DEF StaleGrants, OpenGrants
    <3>2. RowWithdrawn(h)
      BY <1>5, <2>1, <3>1, IssueMoves
    <3> QED
      BY <2>1, <3>1, <3>2 DEF RowWithdrawn, IsOpen, RowsOK, RowOK, IsConsumed
  <2> QED
    BY <2>1, <2>2
<1>10. left \in SUBSET Grants
  BY DEF GrantsOf
<1>11. Cardinality(new) <= Cardinality(left) + 1 /\ Cardinality(new) \in Nat /\ Cardinality(left) \in Nat
  BY <1>2, <1>9, <1>10, GrantCount
<1>12. CumulativeLimit[s][scenario[s].revision] \in Nat
  <2>1. scenario[s].revision \in 1..MaxRevision
    BY <1>5, <1>7, BoundAssumption DEF IssueExecutionGrant, IsApproved, ApprovalsOK, ApprovalOK, TypeOK, ScenarioRow, ApprovalRow
  <2> QED
    BY <2>1, LimitAssumption
<1> QED
  BY <1>1, <1>8, <1>11, <1>12

(* No issue takes the counted writes of a scenario above the limit of its   *)
(* current revision.                                                        *)
THEOREM CountsStayWithinLimitHolds == Spec => CountsStayWithinLimit
<1>1. TypeOK /\ RowsOK /\ ApprovalsOK /\ [Next]_vars =>
         [\A s \in Scenarios :
            UsedCumulativeWrites(s, {})' > UsedCumulativeWrites(s, {})
                => UsedCumulativeWrites(s, {})' <= CumulativeLimit[s][scenario[s].revision]]_vars
  BY CountStep
<1> QED
  BY <1>1, TypeInit, TypeStep, RowsInit, RowsStep, ApprovalsInit, ApprovalsStep, PTL DEF Spec, CountsStayWithinLimit
=============================================================================
