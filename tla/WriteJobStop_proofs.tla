------------------------ MODULE WriteJobStop_proofs -------------------------
(***************************************************************************)
(* That a stop is in time, for every set of scenarios, grants and clock    *)
(* readings and every bound of WriteJob: once a write was stopped, or its  *)
(* approval replaced, before the recheck was answered with yes, nothing is *)
(* written for it any more.                                                *)
(*                                                                         *)
(* The argument follows the stop on its way.  What dooms a write is first  *)
(* in the manager, then in the channel in front of every permission, then  *)
(* in the worker; it never gets lost between them, and neither manager nor *)
(* worker writes behind it.                                                *)
(***************************************************************************)
EXTENDS WriteJobWire_proofs

-----------------------------------------------------------------------------
(* Approvals only grow away from a grant *)

(* A grant is of a revision and a receipt its scenario has had.             *)
Ages(g) ==
    IsIssued(g) =>
        LET s == grant[g].scenario
        IN  /\ s \in Scenarios
            /\ grant[g].revision <= scenario[s].revision
            /\ grant[g].receipt <= approval[s].receipt

AgesOK == \A g \in Grants : Ages(g)

(* No facts at no time make the grant valid: its approval was revoked,      *)
(* replaced or has run out, or its scenario was changed.                    *)
NeverMatches(g) == \A seen \in Facts, now \in Times : ~GrantMatchesApproval(g, grant[g].scenario, seen, now)

(* An approval is replaced by one with a higher receipt, or revoked; a      *)
(* revision is never taken back.                                            *)
LEMMA ApprovalGrows ==
    ASSUME TypeOK, NEW s \in Scenarios, [Next]_vars
    PROVE  /\ scenario[s].revision \in Nat /\ scenario'[s].revision \in Nat
           /\ approval[s].receipt \in Nat /\ approval'[s].receipt \in Nat
           /\ scenario[s].revision <= scenario'[s].revision
           /\ approval[s].receipt <= approval'[s].receipt
           /\ approval'[s].receipt = approval[s].receipt =>
                 /\ approval'[s].revision = approval[s].revision /\ approval'[s].facts = approval[s].facts
                 /\ approval'[s].expiresAt = approval[s].expiresAt
                 /\ approval[s].revoked => approval'[s].revoked
<1>1. scenario[s] \in ScenarioRow /\ approval[s] \in ApprovalRow /\ MaxRevision \in Nat /\ MaxReceipt \in Nat
  BY BoundAssumption DEF TypeOK
<1>2. CASE UNCHANGED scenarioVars
  BY <1>1, <1>2 DEF scenarioVars, ScenarioRow, ApprovalRow
<1>3. ASSUME NEW z \in Scenarios, NEW at \in Times, CreateScenario(z, at) \/ ReviseScenario(z, at)
      PROVE  /\ scenario'[s].revision \in {scenario[s].revision, scenario[s].revision + 1} /\ approval' = approval
  BY <1>1, <1>3 DEF CreateScenario, ReviseScenario, NextRevision, ScenarioRow, TypeOK
<1>4. ASSUME NEW z \in Scenarios, NEW at \in Times, NEW seen \in Facts, ApproveScenario(z, seen, at)
      PROVE  /\ scenario'[s].revision = scenario[s].revision
             /\ approval'[s] = approval[s] \/ approval'[s].receipt = approval[s].receipt + 1
  BY <1>1, <1>4 DEF ApproveScenario, ScenarioRow, ApprovalRow, TypeOK
<1>5. ASSUME NEW z \in Scenarios, NEW at \in Times, RevokeScenarioApproval(z, at)
      PROVE  /\ scenario'[s].revision = scenario[s].revision
             /\ approval'[s] = approval[s] \/ approval'[s] = [approval[s] EXCEPT !.revoked = TRUE]
  BY <1>1, <1>5 DEF RevokeScenarioApproval, ScenarioRow, ApprovalRow, TypeOK
<1>6. /\ scenario[s].revision \in Nat /\ approval[s].receipt \in Nat
  BY <1>1 DEF ScenarioRow, ApprovalRow
<1>7. ASSUME NEW z \in Scenarios, NEW at \in Times, RevokeScenarioApproval(z, at)
      PROVE  /\ scenario'[s].revision = scenario[s].revision /\ approval'[s].receipt = approval[s].receipt
             /\ approval'[s].revision = approval[s].revision /\ approval'[s].facts = approval[s].facts
             /\ approval'[s].expiresAt = approval[s].expiresAt
             /\ approval[s].revoked => approval'[s].revoked
  BY <1>1, <1>5, <1>7 DEF ApprovalRow
<1>8. CASE ScenarioStep
  BY <1>3, <1>4, <1>6, <1>7, <1>8 DEF ScenarioStep
<1>9. CASE GrantStep \/ ResultStep \/ RecoveryStep \/ UNCHANGED vars
  BY <1>2, <1>9, ScenarioFrame
<1> QED
  BY <1>8, <1>9 DEF Next

(* Every transaction keeps that grants are of the past. *)
LEMMA AgesStep == TypeOK /\ RowsOK /\ AgesOK /\ [Next]_vars => AgesOK'
<1> SUFFICES ASSUME TypeOK, RowsOK, AgesOK, [Next]_vars, NEW h \in Grants PROVE Ages(h)'
  BY DEF AgesOK
<1>1. grant[h] \in GrantRow /\ Ages(h)
  BY DEF TypeOK, AgesOK
<1>2. CASE RowMoves(h)
  <2>1. /\ grant'[h].scenario = grant[h].scenario /\ grant'[h].revision = grant[h].revision
        /\ grant'[h].receipt = grant[h].receipt /\ grant'[h].issuedAt = grant[h].issuedAt
    BY <1>1, <1>2 DEF RowMoves, RowKept, RowWithdrawn, RowConsumed, RowReleased, RowRecorded, RowSettled, GrantRow
  <2> DEFINE s == grant[h].scenario
  <2>2. CASE IsIssued(h)
    <3>1. /\ s \in Scenarios /\ grant[h].revision <= scenario[s].revision /\ grant[h].receipt <= approval[s].receipt
      BY <1>1, <2>2 DEF Ages
    <3>2. /\ scenario[s].revision \in Nat /\ scenario'[s].revision \in Nat
          /\ approval[s].receipt \in Nat /\ approval'[s].receipt \in Nat
          /\ scenario[s].revision <= scenario'[s].revision /\ approval[s].receipt <= approval'[s].receipt
      BY <3>1, ApprovalGrows
    <3>3. grant[h].revision \in Nat /\ grant[h].receipt \in Nat
      BY <1>1, BoundAssumption DEF GrantRow
    <3>4. grant[h].revision <= scenario'[s].revision /\ grant[h].receipt <= approval'[s].receipt
      BY <3>1, <3>2, <3>3
    <3> QED
      BY <2>1, <3>1, <3>4 DEF Ages
  <2>3. CASE ~IsIssued(h)
    BY <2>1, <2>3 DEF Ages, IsIssued
  <2> QED
    BY <2>2, <2>3
<1>3. CASE RowIssued(h)
  <2>1. PICK s \in Scenarios, at \in Times :
          grant'[h] = [scenario |-> s, revision |-> scenario[s].revision, receipt |-> approval[s].receipt, issuedAt |-> at,
                       expiresAt |-> at + ExecutionGrantTtl, consumedAt |-> Null, invalidatedAt |-> Null]
    BY <1>3 DEF RowIssued
  <2>2. grant'[h].scenario = s /\ grant'[h].revision = scenario[s].revision /\ grant'[h].receipt = approval[s].receipt
    BY <2>1
  <2> QED
    BY <2>2, ApprovalGrows DEF Ages
<1> QED
  BY <1>2, <1>3, RowStep

(* No grant is issued at first. *)
LEMMA AgesInit == Init => AgesOK
  BY DEF Init, AgesOK, Ages, IsIssued, NoGrantRow

(* A grant that matches no more never matches again. *)
LEMMA NeverAgain ==
    ASSUME TypeOK, RowsOK, AgesOK, [Next]_vars, NEW g \in Grants, IsIssued(g), NeverMatches(g)
    PROVE  NeverMatches(g)'
<1> DEFINE s == grant[g].scenario
<1>1. /\ grant[g] \in GrantRow /\ s \in Scenarios
      /\ grant[g].revision <= scenario[s].revision /\ grant[g].receipt <= approval[s].receipt
  BY DEF TypeOK, AgesOK, Ages
<1>2. /\ grant'[g].scenario = s /\ grant'[g].revision = grant[g].revision /\ grant'[g].receipt = grant[g].receipt
  <2>1. RowMoves(g)
    BY RowStep DEF RowIssued
  <2> QED
    BY <1>1, <2>1 DEF RowMoves, RowKept, RowWithdrawn, RowConsumed, RowReleased, RowRecorded, RowSettled, GrantRow
<1>3. SUFFICES ASSUME NEW seen \in Facts, NEW now \in Times, GrantMatchesApproval(g, s, seen, now)'
               PROVE  FALSE
  BY <1>2 DEF NeverMatches
<1>4. /\ approval'[s].receipt > 0 /\ seen \in UsableFacts /\ approval'[s].revision = scenario'[s].revision
      /\ approval'[s].facts = seen /\ now < approval'[s].expiresAt /\ ~approval'[s].revoked
      /\ approval'[s].receipt = grant[g].receipt /\ scenario'[s].revision = grant[g].revision
  BY <1>2, <1>3 DEF GrantMatchesApproval, IsApproved
<1>5. grant[g].revision \in Nat /\ grant[g].receipt \in Nat
  BY <1>1, BoundAssumption DEF GrantRow
<1> HIDE DEF s
<1>6. approval'[s].receipt = approval[s].receipt /\ scenario'[s].revision = scenario[s].revision
  BY <1>1, <1>4, <1>5, ApprovalGrows
<1>7. /\ approval'[s].revision = approval[s].revision /\ approval'[s].facts = approval[s].facts
      /\ approval'[s].expiresAt = approval[s].expiresAt /\ ~approval[s].revoked
  BY <1>1, <1>4, <1>6, ApprovalGrows
<1>8. GrantMatchesApproval(g, s, seen, now)
  BY <1>4, <1>6, <1>7 DEF GrantMatchesApproval, IsApproved
<1> QED
  BY <1>8 DEF NeverMatches, s

-----------------------------------------------------------------------------
(* Where a stop is on its way *)

(* A stop or a disconnection comes before every permission.                 *)
Ahead(channel) ==
    \E j \in 1..Len(channel) : channel[j] \in {"STOP", "DISCONNECT"} /\ \A i \in 1..j : channel[i] # "ALLOWED"

(* What is in front stays in front of what is sent later, and a worker that *)
(* reads in order comes to it before a permission.                          *)
LEMMA AheadStays ==
    ASSUME NEW q \in Seq(WorkerMessages)
    PROVE  /\ \A r \in Seq(WorkerMessages) : Ahead(q) => Ahead(q \o r)
           /\ Ahead(q) => q # <<>> /\ Head(q) # "ALLOWED" /\ (Head(q) \in {"STOP", "DISCONNECT"} \/ Ahead(Tail(q)))
<1>1. ASSUME Ahead(q), NEW r \in Seq(WorkerMessages)
      PROVE  Ahead(q \o r)
  <2>1. PICK j \in 1..Len(q) : q[j] \in {"STOP", "DISCONNECT"} /\ \A i \in 1..j : q[i] # "ALLOWED"
    BY <1>1 DEF Ahead
  <2>2. /\ Len(q) \in Nat /\ Len(r) \in Nat /\ Len(q \o r) = Len(q) + Len(r)
        /\ \A i \in 1..Len(q) : (q \o r)[i] = q[i]
    BY ConcatProperties, LenProperties
  <2>3. j \in 1..Len(q \o r) /\ \A i \in 1..j : i \in 1..Len(q)
    BY <2>2
  <2>4. (q \o r)[j] \in {"STOP", "DISCONNECT"} /\ \A i \in 1..j : (q \o r)[i] # "ALLOWED"
    BY <2>1, <2>2, <2>3
  <2> QED
    BY <2>3, <2>4 DEF Ahead
<1>2. ASSUME Ahead(q)
      PROVE  q # <<>> /\ Head(q) # "ALLOWED" /\ (Head(q) \in {"STOP", "DISCONNECT"} \/ Ahead(Tail(q)))
  <2>1. PICK j \in 1..Len(q) : q[j] \in {"STOP", "DISCONNECT"} /\ \A i \in 1..j : q[i] # "ALLOWED"
    BY <1>2 DEF Ahead
  <2>2. Len(q) \in Nat /\ j \in Nat /\ 1 <= j
    BY LenProperties
  <2>3. q # <<>>
    BY <2>1, <2>2
  <2>4. /\ Head(q) = q[1] /\ Len(Tail(q)) = Len(q) - 1 /\ \A i \in 1..Len(Tail(q)) : Tail(q)[i] = q[i + 1]
    BY <2>3, HeadTailProperties
  <2>5. CASE j = 1
    BY <2>1, <2>3, <2>4, <2>5
  <2>6. CASE j # 1
    <3>1. /\ j - 1 \in 1..Len(Tail(q)) /\ (j - 1) + 1 = j
          /\ \A i \in 1..(j - 1) : i \in 1..Len(Tail(q)) /\ i + 1 \in 1..j
      BY <2>1, <2>2, <2>4, <2>6
    <3>2. Tail(q)[j - 1] \in {"STOP", "DISCONNECT"} /\ \A i \in 1..(j - 1) : Tail(q)[i] # "ALLOWED"
      BY <2>1, <2>4, <3>1
    <3>3. Ahead(Tail(q))
      BY <3>1, <3>2 DEF Ahead
    <3>4. 1 \in 1..j
      BY <2>2
    <3> QED
      BY <2>1, <2>3, <2>4, <3>3, <3>4
  <2> QED
    BY <2>5, <2>6
<1> QED
  BY <1>1, <1>2

(* A stop that is sent while no permission is under way is ahead.           *)
LEMMA StopsAhead ==
    ASSUME NEW q \in Seq(WorkerMessages), ~Holds(q, "ALLOWED")
    PROVE  Ahead(q \o <<"STOP">>) /\ Ahead(q \o <<"REFUSED", "STOP">>) /\ Ahead(q \o <<"DISCONNECT">>)
<1>1. Len(q) \in Nat /\ \A i \in 1..Len(q) : q[i] # "ALLOWED"
  BY LenProperties DEF Holds
<1>2. ASSUME NEW r \in Seq(WorkerMessages), ~Holds(r, "ALLOWED"), Len(r) > 0, r[Len(r)] \in {"STOP", "DISCONNECT"}
      PROVE  Ahead(q \o r)
  <2>1. /\ Len(r) \in Nat /\ Len(q \o r) = Len(q) + Len(r)
        /\ \A i \in 1..Len(q) : (q \o r)[i] = q[i]
        /\ \A i \in 1..Len(r) : (q \o r)[Len(q) + i] = r[i]
    BY ConcatProperties, LenProperties
  <2>2. ASSUME NEW i \in 1..Len(q \o r)
        PROVE  (q \o r)[i] # "ALLOWED"
    <3>1. Holds(q \o r, "ALLOWED") => Holds(q, "ALLOWED") \/ Holds(r, "ALLOWED")
      BY HoldsConcat
    <3> QED
      BY <1>2, <3>1 DEF Holds
  <2>3. Len(q \o r) \in 1..Len(q \o r) /\ (q \o r)[Len(q \o r)] = r[Len(r)]
    BY <1>1, <1>2, <2>1
  <2> QED
    BY <1>2, <2>2, <2>3 DEF Ahead
<1>3. /\ <<"STOP">> \in Seq(WorkerMessages) /\ <<"REFUSED", "STOP">> \in Seq(WorkerMessages)
      /\ <<"DISCONNECT">> \in Seq(WorkerMessages)
  BY DEF WorkerMessages
<1>4. ~Holds(<<"STOP">>, "ALLOWED") /\ ~Holds(<<"REFUSED", "STOP">>, "ALLOWED") /\ ~Holds(<<"DISCONNECT">>, "ALLOWED")
  BY HoldsFew
<1>5. Ahead(q \o <<"STOP">>)
  <2>1. Len(<<"STOP">>) = 1 /\ <<"STOP">>[1] = "STOP"
    OBVIOUS
  <2> QED
    BY <1>2, <1>3, <1>4, <2>1
<1>6. Ahead(q \o <<"DISCONNECT">>)
  <2>1. Len(<<"DISCONNECT">>) = 1 /\ <<"DISCONNECT">>[1] = "DISCONNECT"
    OBVIOUS
  <2> QED
    BY <1>2, <1>3, <1>4, <2>1
<1>7. Ahead(q \o <<"REFUSED", "STOP">>)
  <2>1. PICK r : r = <<"REFUSED", "STOP">>
    OBVIOUS
  <2>2. Len(r) = 2 /\ r[2] = "STOP"
    BY <2>1
  <2>3. r \in Seq(WorkerMessages) /\ ~Holds(r, "ALLOWED")
    BY <1>3, <1>4, <2>1, Zenon
  <2>4. Ahead(q \o r)
    BY <1>2, <2>2, <2>3
  <2> QED
    BY <2>1, <2>4
<1> QED
  BY <1>5, <1>6, <1>7

(* The stop is with the worker, or will be before it may write.             *)
Halted(g) ==
    /\ written[g] = 0 /\ worker[g].post = "NONE" /\ worker[g].stage \notin {"NONE", "PRESSED"}
    /\ \/ worker[g].stop \/ worker[g].distrusts \/ worker[g].stage \in {"EXITING", "GONE"}
       \/ Ahead(toWorker[g])

(* The manager will not allow the write: it was decided, is stopped as soon *)
(* as the worker is ready, or would not pass the check.                     *)
Blocked(g) ==
    /\ IsTracked(g)
    /\ job[g].recheck # "ALLOWED"
    /\ \/ job[g].phase = "DONE"
       \/ job[g].phase = "FORKED" /\ job[g].stopRequested
       \/ NeverMatches(g)

Doomed(g) == Halted(g) \/ Blocked(g)

(* A stop the manager remembers dooms the write, unless it came too late.   *)
(* A worker is asked for nothing before it is ready, and the row that ends  *)
(* is that of a worker that has gone.                                       *)
StopOK(g) ==
    /\ IsTracked(g) /\ job[g].stopRequested /\ job[g].recheck # "ALLOWED" => Doomed(g)
    /\ job[g].phase = "FORKED" => job[g].recheck = "NO"
    /\ \A state \in EndStates : todo = <<EndRow(g, state)>> => worker[g].stage \in {"NONE", "GONE"}

StopHeard == \A g \in Grants : StopOK(g)

(* Of a doomed write nothing was written. *)
LEMMA DoomedUnwritten ==
    ASSUME JobTypes, WireEach, NEW g \in Grants, Doomed(g)
    PROVE  written[g] = 0
<1>1. Blocked(g) => ~MayWrite(g)
  BY DEF Blocked, WireEach, WireOK, OrdersOK
<1>2. written[g] \in Nat
  BY DEF JobTypes, JobTypeOK
<1> QED
  BY <1>1, <1>2 DEF Doomed, Halted, MayWrite

-----------------------------------------------------------------------------
(* What the manager does with a stop *)

(* The stop has been sent, before anything else this handler sends.         *)
StopSent(g) == toWorker'[g] = Sent(g, <<"STOP">>) \/ toWorker'[g] = Sent(g, <<"REFUSED", "STOP">>)

(* What was sent stays sent, until the channel breaks.                      *)
Carries(g) ==
    \/ toWorker'[g] = toWorker[g] \/ toWorker'[g] = <<"DISCONNECT">>
    \/ \E r \in Seq(WorkerMessages) : toWorker'[g] = toWorker[g] \o r

(* A job is forgotten when its worker has gone, or the server dies.         *)
Forgets(g) ==
    IsTracked(g) /\ ~IsTracked(g)' =>
        \/ worker[g].stage \in {"NONE", "GONE"}
        \/ toWorker'[g] = <<"DISCONNECT">> \/ toWorker'[g] = toWorker[g] \o <<"DISCONNECT">>

(* A decided job stays decided, a stop stays requested and is sent as soon  *)
(* as it can be, and only a grant that is valid gets a permission.          *)
Minds(g) ==
    IsTracked(g)' =>
        /\ IsTracked(g)
        /\ job[g].phase = "DONE" => job'[g].phase = "DONE"
        /\ job'[g].phase = "FORKED" => job[g].phase = "FORKED"
        /\ job[g].phase = "FORKED" =>
              /\ job'[g].recheck = job[g].recheck
              /\ job'[g].phase \in {"FORKED", "DONE"} \/ ~job[g].stopRequested \/ StopSent(g)
        /\ job[g].stopRequested => job'[g].stopRequested
        /\ job'[g].stopRequested => job[g].stopRequested \/ job'[g].phase = "FORKED" \/ StopSent(g)
        /\ job'[g].recheck = "ALLOWED" =>
              \/ job[g].recheck = "ALLOWED"
              \/ job[g].phase # "DONE" /\ ~NeverMatches(g)
        /\ job[g].recheck = "ALLOWED" => job'[g].recheck = "ALLOWED"

Steers(g) == Carries(g) /\ Forgets(g) /\ Minds(g)

(* A job the step leaves alone. *)
LEMMA SteersAside ==
    ASSUME NEW g, job'[g] = job[g], toWorker'[g] = toWorker[g]
    PROVE  Steers(g)
  BY DEF Steers, Carries, Forgets, Minds, IsTracked

(* Whatever is sent goes behind what was sent before. *)
LEMMA SentCarries ==
    ASSUME NEW g, NEW messages \in Seq(WorkerMessages), toWorker'[g] = Sent(g, messages)
    PROVE  Carries(g)
  BY DEF Carries, Sent

(* A job that learns something: nothing about the recheck, and no stop but  *)
(* one that is sent, or will be at READY.                                   *)
LEMMA LearningSteers ==
    ASSUME NEW g, Carries(g), job'[g].phase # "NONE",
           job'[g].recheck = job[g].recheck,
           job[g].phase # "NONE", job[g].phase = "DONE" => job'[g].phase = "DONE",
           job'[g].phase = "FORKED" => job[g].phase = "FORKED",
           job[g].phase = "FORKED" => job'[g].phase \in {"FORKED", "DONE"} \/ ~job[g].stopRequested \/ StopSent(g),
           job[g].stopRequested => job'[g].stopRequested,
           job'[g].stopRequested => job[g].stopRequested \/ job'[g].phase = "FORKED" \/ StopSent(g)
    PROVE  Steers(g)
  BY DEF Steers, Forgets, Minds, IsTracked

(* Stops of any number of jobs. *)
LEMMA StopSteers ==
    ASSUME JobTypes, NEW gs \in SUBSET Grants, StopRequested(gs), \A g \in gs : IsUndecided(g), NEW h \in Grants
    PROVE  Steers(h)
<1>1. job[h] \in JobRecord
  BY DEF JobTypes, JobTypeOK
<1>2. CASE h \notin gs
  BY <1>2, SteersAside DEF StopRequested
<1>3. CASE h \in gs
  <2>1. job'[h] = [job[h] EXCEPT !.stopRequested = TRUE] /\ IsUndecided(h)
    BY <1>3 DEF StopRequested
  <2>2. /\ job'[h].phase = job[h].phase /\ job'[h].recheck = job[h].recheck /\ job'[h].stopRequested
        /\ job[h].phase \notin {"NONE", "DONE"}
    BY <1>1, <2>1 DEF JobRecord, IsUndecided
  <2>3. <<"STOP">> \in Seq(WorkerMessages)
    BY DEF WorkerMessages
  <2>4. CASE job[h].phase = "FORKED"
    <3>1. toWorker'[h] = toWorker[h]
      BY <2>4 DEF StopRequested
    <3> QED
      BY <2>2, <2>4, <3>1, LearningSteers DEF Carries
  <2>5. CASE job[h].phase # "FORKED"
    <3>1. toWorker'[h] = Sent(h, <<"STOP">>)
      BY <1>3, <2>5 DEF StopRequested
    <3>2. StopSent(h) /\ Carries(h)
      BY <2>3, <3>1, SentCarries DEF StopSent
    <3> QED
      BY <2>2, <2>5, <3>2, LearningSteers
  <2> QED
    BY <2>4, <2>5
<1> QED
  BY <1>2, <1>3

(* An ending decides the job and changes nothing else of it. *)
LEMMA EndingMinds ==
    ASSUME NEW j \in JobRecord, NEW ending \in {"RAN", "NOT_RUN", "FAILED", "INTERRUPTED", "NONE"}, j.phase # "NONE"
    PROVE  LET k == Ended(j, ending)
           IN  /\ k.phase \in {j.phase, "DONE"} /\ k.recheck = j.recheck /\ k.stopRequested = j.stopRequested
  BY DEF Ended, JobRecord

(* Messages of the worker. *)
LEMMA ReceiveSteers ==
    ASSUME JobTypes, NEW g \in Grants, ReceiveSteps(g), NEW h \in Grants
    PROVE  Steers(h)
<1>1. /\ job \in [Grants -> JobRecord] /\ toWorker \in [Grants -> Seq(WorkerMessages)] /\ job[g] \in JobRecord
      /\ toParent[g] \in Seq(ParentMessages)
  BY DEF JobTypes, JobTypeOK
<1>2. /\ job' = job \/ \E j : job' = [job EXCEPT ![g] = j]
      /\ toWorker' = toWorker \/ \E q : toWorker' = [toWorker EXCEPT ![g] = q]
      /\ IsTracked(g)
  BY DEF ReceiveSteps, ReceiveDecided, ReceiveReady, ReceiveRunStarted, ReceiveRecheckRequest, ReceiveSubmission,
         ReceiveFinished, ReceiveFailed, Receives
<1>3. CASE h # g
  BY <1>1, <1>2, <1>3, SteersAside
<1>4. job[g].phase # "NONE"
  BY <1>2 DEF IsTracked
<1>5. CASE ReceiveDecided(g)
  BY <1>5, SteersAside DEF ReceiveDecided
<1>6. CASE ReceiveReady(g)
  <2>1. job'[g] = AfterReady(job[g]) /\ job[g].phase = "FORKED"
    BY <1>1, <1>6 DEF ReceiveReady
  <2>2. /\ job'[g].phase = "STARTED" /\ job'[g].recheck = job[g].recheck /\ job'[g].stopRequested = job[g].stopRequested
    BY <1>1, <2>1 DEF AfterReady, JobRecord
  <2>3. PICK messages \in {<<"STOP">>, <<"START">>} :
            toWorker'[g] = Sent(g, messages) /\ (job[g].stopRequested => messages = <<"STOP">>)
    BY <1>1, <1>6 DEF ReceiveReady
  <2>4. messages \in Seq(WorkerMessages)
    <3>1. <<"STOP">> \in Seq(WorkerMessages) /\ <<"START">> \in Seq(WorkerMessages)
      BY DEF WorkerMessages
    <3> QED
      BY <3>1
  <2>5. Carries(g) /\ (~job[g].stopRequested \/ StopSent(g))
    BY <2>3, <2>4, SentCarries DEF StopSent
  <2>6. Steers(g)
    BY <1>4, <2>1, <2>2, <2>5, LearningSteers
  <2> QED
    BY <1>3, <2>6
<1>7. CASE ReceiveRunStarted(g)
  <2>1. job'[g] = [job[g] EXCEPT !.phase = "RUN"] /\ job[g].phase = "STARTED" /\ toWorker' = toWorker
    BY <1>1, <1>7 DEF ReceiveRunStarted
  <2>2. job'[g].phase = "RUN" /\ job'[g].recheck = job[g].recheck /\ job'[g].stopRequested = job[g].stopRequested
    BY <1>1, <2>1 DEF JobRecord
  <2>3. Steers(g)
    BY <2>1, <2>2, LearningSteers DEF Carries
  <2> QED
    BY <1>3, <2>3
<1>8. CASE ReceiveRecheckRequest(g)
  <2>1. job'[g] = [job[g] EXCEPT !.recheck = "REQUESTED"] /\ job[g].phase \in {"STARTED", "RUN"} /\ toWorker' = toWorker
        /\ job[g].recheck = "NO"
    BY <1>1, <1>8 DEF ReceiveRecheckRequest
  <2>2. job'[g].phase = job[g].phase /\ job'[g].recheck = "REQUESTED" /\ job'[g].stopRequested = job[g].stopRequested
    BY <1>1, <2>1 DEF JobRecord
  <2>3. Steers(g)
    BY <2>1, <2>2 DEF Steers, Carries, Forgets, Minds, IsTracked
  <2> QED
    BY <1>3, <2>3
<1>9. ASSUME NEW j \in JobRecord, NEW ending \in {"RAN", "NOT_RUN", "FAILED", "INTERRUPTED", "NONE"},
             job'[g] = j \/ job'[g] = Ended(j, ending),
             j.phase = job[g].phase, j.recheck = job[g].recheck, j.stopRequested = job[g].stopRequested, toWorker' = toWorker
      PROVE  Steers(g)
  <2>1. /\ job'[g].phase \in {j.phase, "DONE"} /\ job'[g].recheck = j.recheck /\ job'[g].stopRequested = j.stopRequested
    BY <1>4, <1>9, EndingMinds
  <2> QED
    BY <1>4, <1>9, <2>1, LearningSteers DEF Carries
<1>10. CASE ReceiveFinished(g) \/ ReceiveFailed(g)
  <2>1. PICK ending \in {"RAN", "NOT_RUN", "FAILED"} : job' = [job EXCEPT ![g] = Ended(@, ending)] /\ toWorker' = toWorker
    BY <1>10 DEF ReceiveFinished, ReceiveFailed, Receives
  <2>2. job'[g] = Ended(job[g], ending)
    BY <1>1, <2>1
  <2>3. Steers(g)
    BY <1>1, <1>9, <2>1, <2>2
  <2> QED
    BY <1>3, <2>3
<1>11. CASE ReceiveSubmission(g)
  <2> DEFINE report == Head(toParent[g])
             noted == [job[g] EXCEPT !.submission = report]
  <2>1. (job'[g] = noted \/ job'[g] = Ended(noted, "FAILED")) /\ toWorker' = toWorker
    BY <1>1, <1>11 DEF ReceiveSubmission
  <2>2. report \in {"NOT_SENT", "SENT", "UNKNOWN"}
    BY <1>11 DEF ReceiveSubmission, Receives
  <2>3. noted \in JobRecord /\ noted.phase = job[g].phase /\ noted.recheck = job[g].recheck
        /\ noted.stopRequested = job[g].stopRequested
    BY <1>1, <2>2 DEF JobRecord
  <2> HIDE DEF noted
  <2>4. Steers(g)
    BY <1>9, <2>1, <2>3
  <2> QED
    BY <1>3, <2>4
<1> QED
  BY <1>5, <1>6, <1>7, <1>8, <1>10, <1>11 DEF ReceiveSteps

(* The answer to a recheck: only a grant that matches is allowed. *)
LEMMA AnswerSteers ==
    ASSUME JobTypes, StopHeard, NEW g \in Grants, AnswerSteps(g), NEW h \in Grants
    PROVE  Steers(h)
<1>1. /\ job \in [Grants -> JobRecord] /\ toWorker \in [Grants -> Seq(WorkerMessages)] /\ job[g] \in JobRecord
  BY DEF JobTypes, JobTypeOK
<1>2. /\ IsRecheckPending(g) /\ \E j : job' = [job EXCEPT ![g] = j]
      /\ \E q : toWorker' = [toWorker EXCEPT ![g] = q]
  BY DEF AnswerSteps, AllowWrite, RefuseWrite
<1>3. CASE h # g
  BY <1>1, <1>2, <1>3, SteersAside
<1>4. job[g].phase \notin {"NONE", "DONE", "FORKED"} /\ job[g].recheck = "REQUESTED"
  BY <1>2 DEF IsRecheckPending, IsUndecided, StopHeard, StopOK
<1>5. ASSUME NEW seen \in Facts, NEW now \in Times, AllowWrite(g, seen, now)
      PROVE  Steers(g)
  <2>1. job'[g] = [job[g] EXCEPT !.recheck = "ALLOWED"] /\ toWorker'[g] = Sent(g, <<"ALLOWED">>)
    BY <1>1, <1>5 DEF AllowWrite
  <2>2. job'[g].phase = job[g].phase /\ job'[g].recheck = "ALLOWED" /\ job'[g].stopRequested = job[g].stopRequested
    BY <1>1, <2>1 DEF JobRecord
  <2>3. ~NeverMatches(g)
    BY <1>5 DEF AllowWrite, IsGrantStillValid, NeverMatches
  <2>4. Carries(g)
    <3>1. <<"ALLOWED">> \in Seq(WorkerMessages)
      BY DEF WorkerMessages
    <3> QED
      BY <2>1, <3>1, SentCarries
  <2> QED
    BY <1>4, <1>5, <2>2, <2>3, <2>4 DEF Steers, Forgets, Minds, IsTracked
<1>6. CASE RefuseWrite(g)
  <2>1. job'[g] = [job[g] EXCEPT !.rejected = TRUE, !.stopRequested = TRUE] /\ toWorker'[g] = Sent(g, <<"REFUSED", "STOP">>)
    BY <1>1, <1>6 DEF RefuseWrite
  <2>2. job'[g].phase = job[g].phase /\ job'[g].recheck = job[g].recheck /\ job'[g].stopRequested
    BY <1>1, <2>1 DEF JobRecord
  <2>3. Carries(g) /\ StopSent(g)
    <3>1. <<"REFUSED", "STOP">> \in Seq(WorkerMessages)
      BY DEF WorkerMessages
    <3> QED
      BY <2>1, <3>1, SentCarries DEF StopSent
  <2>4. Steers(g)
    BY <1>4, <2>2, <2>3, LearningSteers
  <2> QED
    BY <1>3, <2>4
<1> QED
  BY <1>3, <1>5, <1>6 DEF AnswerSteps

(* Timers and the exit of a worker. *)
LEMMA EndSteers ==
    ASSUME JobTypes, OwnedJobs, NEW g \in Grants, Timeout(g) \/ ExitSteps(g), NEW h \in Grants
    PROVE  Steers(h)
<1>1. /\ job \in [Grants -> JobRecord] /\ job[g] \in JobRecord /\ toWorker' = toWorker
  BY DEF JobTypes, JobTypeOK, Timeout, EndAndKill, ExitSteps, SeeProcessExit, EndDrain, RecordExit
<1>2. CASE \E at \in Times : RecordExit(g, at)
  BY <1>1, <1>2, SteersAside DEF RecordExit
<1>3. ASSUME NEW j, job' = [job EXCEPT ![g] = j], job[g].phase # "NONE",
             j.phase \in {job[g].phase, "DONE"}, j.recheck = job[g].recheck, j.stopRequested = job[g].stopRequested
      PROVE  Steers(h)
  <2>1. CASE h # g
    BY <1>1, <1>3, <2>1, SteersAside
  <2>2. job'[g] = j
    BY <1>1, <1>3
  <2>3. Steers(g)
    BY <1>1, <1>3, <2>2, LearningSteers DEF Carries
  <2> QED
    BY <2>1, <2>3
<1>4. CASE Timeout(g)
  <2>1. PICK ending \in {"RAN", "NOT_RUN", "FAILED", "INTERRUPTED", "NONE"} : EndAndKill(g, ending)
    <3>1. job[g].ending \in {"RAN", "NOT_RUN", "FAILED", "INTERRUPTED", "NONE"}
      BY <1>1 DEF JobRecord
    <3> QED
      BY <1>4, <3>1 DEF Timeout
  <2>2. job' = [job EXCEPT ![g] = Ended(@, ending)] /\ job[g].phase # "NONE"
    BY <2>1 DEF EndAndKill, IsTracked
  <2>3. PICK j : j = Ended(job[g], ending)
    OBVIOUS
  <2>4. job' = [job EXCEPT ![g] = j]
    BY <2>2, <2>3
  <2>5. j.phase \in {job[g].phase, "DONE"} /\ j.recheck = job[g].recheck /\ j.stopRequested = job[g].stopRequested
    BY <1>1, <2>2, <2>3, EndingMinds
  <2> QED
    BY <1>3, <2>2, <2>4, <2>5
<1>5. CASE SeeProcessExit(g)
  <2>1. job' = [job EXCEPT ![g] = [job[g] EXCEPT !.ipc = "DRAINING"]] /\ job[g].phase # "NONE"
    BY <1>1, <1>5 DEF SeeProcessExit, IsTracked
  <2>2. PICK j : j = [job[g] EXCEPT !.ipc = "DRAINING"]
    OBVIOUS
  <2>3. j.phase = job[g].phase /\ j.recheck = job[g].recheck /\ j.stopRequested = job[g].stopRequested
    BY <1>1, <2>2 DEF JobRecord
  <2> QED
    BY <1>3, <2>1, <2>2, <2>3
<1>6. CASE EndDrain(g)
  <2>1. PICK i : i = Ended(job[g], "INTERRUPTED")
    OBVIOUS
  <2>2. job[g].phase # "NONE"
    BY <1>6 DEF EndDrain, OwnedJobs, IsTracked
  <2>3. PICK j : j = [i EXCEPT !.ipc = "CLOSED"]
    OBVIOUS
  <2>4. job' = [job EXCEPT ![g] = j]
    BY <1>1, <1>6, <2>1, <2>3 DEF EndDrain
  <2>5. i \in JobRecord /\ i.phase \in {job[g].phase, "DONE"} /\ i.recheck = job[g].recheck
        /\ i.stopRequested = job[g].stopRequested
    BY <1>1, <2>1, <2>2, EndingMinds, RecordTypes
  <2>6. j.phase = i.phase /\ j.recheck = i.recheck /\ j.stopRequested = i.stopRequested
    BY <2>3, <2>5 DEF JobRecord
  <2> QED
    BY <1>3, <2>2, <2>4, <2>5, <2>6
<1> QED
  BY <1>2, <1>4, <1>5, <1>6 DEF ExitSteps

(* Errands, the death of the server and its restart, jobs of another kind.  *)
LEMMA ServerSteers ==
    ASSUME JobTypes, WireEach, StopHeard, Commits \/ StartOtherJob \/ Crash \/ Restart, NEW h \in Grants
    PROVE  Steers(h)
<1>1. /\ job \in [Grants -> JobRecord] /\ todo \in Errands /\ worker[h] \in WorkerRecord
      /\ WireOK(h) /\ StopOK(h)
  BY DEF JobTypes, JobTypeOK, WireEach, StopHeard
<1>2. CASE CommitEndRow
  <2>1. todo # <<>> /\ todo[1].op = "END_ROW" /\ job' = [job EXCEPT ![todo[1].grant] = NoJob] /\ toWorker' = toWorker
    BY <1>2 DEF CommitEndRow, Proceed
  <2>2. CASE h # todo[1].grant
    BY <1>1, <2>1, <2>2, SteersAside
  <2>3. CASE h = todo[1].grant
    <3>1. PICK f \in Grants, state \in EndStates : todo = <<EndRow(f, state)>>
      BY <1>1, <2>1 DEF Errands, CloseOrphans, CreateRow, CloseUnsent, EndRow
    <3>2. f = h
      BY <2>3, <3>1 DEF EndRow
    <3>3. worker[h].stage \in {"NONE", "GONE"}
      BY <1>1, <3>1, <3>2 DEF StopOK
    <3>4. ~IsTracked(h)'
      BY <1>1, <2>1, <2>3 DEF IsTracked, NoJob
    <3> QED
      BY <2>1, <3>3, <3>4 DEF Steers, Carries, Forgets, Minds
  <2> QED
    BY <2>2, <2>3
<1>3. CASE (\E at \in Times : CommitCloseOrphans(at) \/ CommitCreateRow(at) \/ CommitCloseUnsent(at)) \/ StartOtherJob \/ Restart
  <2>1. job' = job /\ toWorker' = toWorker
    BY <1>3 DEF CommitCloseOrphans, CommitCreateRow, CommitCloseUnsent, StartOtherJob, Restart, InterruptUnowned
  <2> QED
    BY <2>1, SteersAside
<1>4. CASE Crash
  <2>1. ~IsTracked(h)'
    BY <1>4 DEF Crash, IsTracked, NoJob
  <2>2. <<>> \o <<"DISCONNECT">> = <<"DISCONNECT">> /\ <<"DISCONNECT">> \in Seq(WorkerMessages)
    BY DEF WorkerMessages
  <2>3. IF IsTracked(h) /\ IsAlive(h)
        THEN toWorker'[h] = <<"DISCONNECT">> \/ toWorker'[h] = toWorker[h] \o <<"DISCONNECT">>
        ELSE toWorker'[h] = toWorker[h]
    BY <1>4, <2>2 DEF Crash
  <2>4. Carries(h)
    BY <2>2, <2>3 DEF Carries
  <2>5. Forgets(h)
    BY <2>3 DEF Forgets, IsAlive
  <2> QED
    BY <2>1, <2>4, <2>5 DEF Steers, Minds
<1> QED
  BY <1>2, <1>3, <1>4 DEF Commits

(* Screens and starts up to the fork. *)
LEMMA ScreenSteers ==
    ASSUME JobTypes, NEW h \in Grants,
           \/ StoreHandlers
           \/ \E g \in Grants : StopJob(g) \/ (StartSteps(g) /\ ~\E at \in Times : Launch(g, at))
    PROVE  Steers(h)
<1>1. CASE ChangeScenario
  BY <1>1, SteersAside DEF ChangeScenario, jobVars, serverVars
<1>2. ASSUME NEW s \in Scenarios, NEW at \in Times, InvalidateApproval(s, at)
      PROVE  Steers(h)
  <2>1. UndecidedJobsOf(s) \in SUBSET Grants /\ \A g \in UndecidedJobsOf(s) : IsUndecided(g)
    BY DEF UndecidedJobsOf, GrantsOf
  <2> QED
    BY <1>2, <2>1, StopSteers DEF InvalidateApproval
<1>3. ASSUME NEW g \in Grants, NEW s \in Scenarios, NEW seen \in Facts, NEW at \in Times, IssueAndStart(g, s, seen, at)
      PROVE  Steers(h)
  BY <1>3, SteersAside DEF IssueAndStart
<1>4. ASSUME NEW g \in Grants, StopJob(g)
      PROVE  Steers(h)
  BY <1>4, StopSteers DEF StopJob
<1>5. ASSUME NEW g \in Grants, StartSteps(g), ~\E at \in Times : Launch(g, at)
      PROVE  Steers(h)
  <2>1. job' = job /\ toWorker' = toWorker
    BY <1>5 DEF StartSteps, ReconcileBeforeRow, InterruptUnowned, FailPreparation, GiveUpStart, RejectStart, FailLaunch, Consume
  <2> QED
    BY <2>1, SteersAside
<1> QED
  BY <1>1, <1>2, <1>3, <1>4, <1>5 DEF StoreHandlers

(* Every step that is neither the fork of h nor of its worker is one in     *)
(* which the manager minds h.                                               *)
LEMMA AllSteer ==
    ASSUME JobTypes, OwnedJobs, WireEach, StopHeard, [JobNext]_allVars, NEW h \in Grants
    PROVE  Steers(h) \/ (\E at \in Times : Launch(h, at)) \/ WorkerMoves(h)
<1>1. /\ job \in [Grants -> JobRecord] /\ worker \in [Grants -> WorkerRecord] /\ toWorker \in [Grants -> Seq(WorkerMessages)]
  BY DEF JobTypes, JobTypeOK
<1>2. CASE UNCHANGED allVars
  BY <1>2, SteersAside DEF allVars, jobVars, serverVars
<1>3. ASSUME NEW g \in Grants, NEW at \in Times, Launch(g, at), h # g
      PROVE  Steers(h)
  <2>1. job'[h] = job[h] /\ toWorker'[h] = toWorker[h]
    BY <1>1, <1>3 DEF Launch
  <2> QED
    BY <2>1, SteersAside
<1>4. ASSUME NEW g \in Grants, WorkerMoves(g), h # g
      PROVE  Steers(h)
  <2>1. WorkerStep(g) /\ \E w, inbox : Becomes(g, w, inbox)
    BY <1>4 DEF WorkerMoves, RunSteps, BecomeReady, TakeStart, TakeStop, TakeRecheckResult, TakeLateResult, StartRun, SkipRun,
         EnterStage, RequestRecheck, TimeOutRecheck, AdmitPost, WritePost, SettlePost, CloseContext,
         ReportSubmission, Reports, FailRun, FinishRun, TakeSignal, WorkerDies, WorkerBecomes, TakesMessage, Goes
  <2>2. job'[h] = job[h] /\ toWorker'[h] = toWorker[h]
    BY <1>1, <1>4, <2>1 DEF WorkerStep, serverVars, Becomes
  <2> QED
    BY <2>2, SteersAside
<1>5. CASE StoreHandlers \/ Commits \/ StartOtherJob \/ Crash \/ Restart
  BY <1>5, ScreenSteers, ServerSteers
<1>6. ASSUME NEW g \in Grants, GrantSteps(g)
      PROVE  Steers(h) \/ (\E at \in Times : Launch(h, at)) \/ WorkerMoves(h)
  <2>1. CASE StopJob(g)
    BY <2>1, ScreenSteers
  <2>2. CASE StartSteps(g)
    BY <1>3, <2>2, ScreenSteers
  <2>3. CASE ReceiveSteps(g) \/ AnswerSteps(g) \/ Timeout(g) \/ ExitSteps(g)
    BY <2>3, ReceiveSteers, AnswerSteers, EndSteers
  <2>4. CASE RunSteps(g) \/ TakeSignal(g) \/ WorkerDies(g)
    BY <1>4, <2>4 DEF WorkerMoves
  <2> QED
    BY <1>6, <2>1, <2>2, <2>3, <2>4 DEF GrantSteps
<1> QED
  BY <1>2, <1>5, <1>6 DEF JobNext

-----------------------------------------------------------------------------
(* A doomed write stays doomed *)

(* A worker that was not allowed to write has done nothing it could report. *)
LEMMA Unallowed ==
    ASSUME JobTypes, NEW g \in Grants, WireOK(g), IsTracked(g), job[g].recheck # "ALLOWED"
    PROVE  /\ written[g] = 0 /\ worker[g].post = "NONE" /\ worker[g].stage \notin {"NONE", "PRESSED"}
           /\ ~Holds(toWorker[g], "ALLOWED")
<1>1. ~MayWrite(g) /\ worker[g].stage # "NONE"
  BY DEF WireOK, OrdersOK, StagesOK
<1>2. written[g] \in Nat
  BY DEF JobTypes, JobTypeOK
<1> QED
  BY <1>1, <1>2 DEF MayWrite, WireOK, PostsOK

(* A stop that is sent, or the disconnection of a dying server, is on its   *)
(* way, or the worker needs none any more.                                  *)
LEMMA SentHalts ==
    ASSUME JobTypes, NEW g \in Grants, WireOK(g), IsTracked(g), job[g].recheck # "ALLOWED",
           written'[g] = written[g], worker'[g] = worker[g] \/ worker'[g] = Signalled(worker[g]),
           \/ StopSent(g) \/ worker[g].stage \in {"NONE", "GONE"}
           \/ toWorker'[g] = <<"DISCONNECT">> \/ toWorker'[g] = toWorker[g] \o <<"DISCONNECT">>
    PROVE  Halted(g)'
<1>1. /\ written[g] = 0 /\ worker[g].post = "NONE" /\ worker[g].stage \notin {"NONE", "PRESSED"}
      /\ ~Holds(toWorker[g], "ALLOWED")
  BY Unallowed
<1>2. worker[g] \in WorkerRecord /\ toWorker[g] \in Seq(WorkerMessages)
  BY DEF JobTypes, JobTypeOK
<1>3. worker'[g].stage = worker[g].stage /\ worker'[g].post = worker[g].post
  BY <1>2 DEF Signalled, WorkerRecord
<1>4. CASE worker[g].stage \in {"EXITING", "GONE"}
  BY <1>1, <1>3, <1>4 DEF Halted
<1>5. CASE toWorker'[g] = <<"DISCONNECT">> \/ toWorker'[g] = toWorker[g] \o <<"DISCONNECT">>
  <2>1. Ahead(<<"DISCONNECT">>)
    <3>1. Len(<<"DISCONNECT">>) = 1 /\ <<"DISCONNECT">>[1] = "DISCONNECT"
      OBVIOUS
    <3>2. \A i \in 1..1 : <<"DISCONNECT">>[i] # "ALLOWED"
      OBVIOUS
    <3> QED
      BY <3>1, <3>2 DEF Ahead
  <2>2. Ahead(toWorker[g] \o <<"DISCONNECT">>)
    BY <1>1, <1>2, StopsAhead
  <2> QED
    BY <1>1, <1>3, <1>5, <2>1, <2>2 DEF Halted
<1>6. CASE StopSent(g) /\ worker[g].stage \notin {"EXITING", "GONE"}
  <2>1. job[g].ipc = "OPEN" /\ IsAlive(g)
    BY <1>1, <1>6 DEF WireOK, StagesOK, IsAlive
  <2>2. toWorker'[g] = toWorker[g] \o <<"STOP">> \/ toWorker'[g] = toWorker[g] \o <<"REFUSED", "STOP">>
    BY <1>6, <2>1 DEF StopSent, Sent
  <2>3. Ahead(toWorker'[g])
    BY <1>1, <1>2, <2>2, StopsAhead
  <2> QED
    BY <1>1, <1>3, <2>3 DEF Halted
<1> QED
  BY <1>1, <1>4, <1>5, <1>6

(* No step of the manager saves a doomed write. *)
LEMMA DoomedManager ==
    ASSUME JobTypes, TypeOK, RowsOK, AgesOK, [Next]_vars, NEW g \in Grants, WireOK(g), OnePost(g),
           ManagerMoves(g), Steers(g), Doomed(g)
    PROVE  Doomed(g)'
<1>1. worker[g] \in WorkerRecord /\ toWorker[g] \in Seq(WorkerMessages)
  BY DEF JobTypes, JobTypeOK
<1>2. /\ worker'[g] = worker[g] \/ worker'[g] = Signalled(worker[g])
      /\ written'[g] = written[g]
  BY DEF ManagerMoves
<1>3. CASE Halted(g)
  <2>1. /\ worker'[g].stage = worker[g].stage /\ worker'[g].post = worker[g].post
        /\ worker'[g].stop = worker[g].stop /\ worker'[g].distrusts = worker[g].distrusts
    BY <1>1, <1>2 DEF Signalled, WorkerRecord
  <2>2. CASE toWorker'[g] = <<"DISCONNECT">>
    <3>1. Len(<<"DISCONNECT">>) = 1 /\ <<"DISCONNECT">>[1] = "DISCONNECT" /\ \A i \in 1..1 : <<"DISCONNECT">>[i] # "ALLOWED"
      OBVIOUS
    <3>2. Ahead(toWorker'[g])
      BY <2>2, <3>1 DEF Ahead
    <3> QED
      BY <1>2, <1>3, <2>1, <3>2 DEF Halted, Doomed
  <2>3. CASE toWorker'[g] = toWorker[g] \/ \E r \in Seq(WorkerMessages) : toWorker'[g] = toWorker[g] \o r
    <3>1. Ahead(toWorker[g]) => Ahead(toWorker'[g])
      BY <1>1, <2>3, AheadStays
    <3> QED
      BY <1>2, <1>3, <2>1, <3>1 DEF Halted, Doomed
  <2> QED
    BY <2>2, <2>3 DEF Steers, Carries
<1>4. CASE Blocked(g)
  <2>1. IsTracked(g) /\ job[g].recheck # "ALLOWED"
    BY <1>4 DEF Blocked
  <2>2. CASE ~IsTracked(g)'
    BY <1>2, <2>1, <2>2, SentHalts DEF Steers, Forgets, Doomed
  <2>3. CASE IsTracked(g)'
    <3>1. CASE NeverMatches(g)
      <4>1. IsIssued(g)
        <5>1. worker[g].stage # "NONE"
          BY <2>1 DEF WireOK, StagesOK
        <5>2. HasResult(g)
          BY <5>1 DEF OnePost
        <5> QED
          BY <5>2 DEF RowsOK, RowOK, HasResult, NoResult
      <4>2. NeverMatches(g)'
        BY <3>1, <4>1, NeverAgain
      <4>3. job'[g].recheck # "ALLOWED"
        BY <2>1, <2>3, <3>1 DEF Steers, Minds
      <4> QED
        BY <2>3, <4>2, <4>3 DEF Doomed, Blocked
    <3>2. CASE job[g].phase = "DONE"
      BY <2>1, <2>3, <3>2 DEF Steers, Minds, Doomed, Blocked
    <3>3. CASE job[g].phase = "FORKED" /\ job[g].stopRequested
      <4>1. /\ job'[g].recheck # "ALLOWED" /\ job'[g].stopRequested
            /\ job'[g].phase \in {"FORKED", "DONE"} \/ StopSent(g)
        BY <2>1, <2>3, <3>3 DEF Steers, Minds
      <4>2. StopSent(g) => Halted(g)'
        BY <1>2, <2>1, SentHalts
      <4> QED
        BY <2>3, <4>1, <4>2 DEF Doomed, Blocked
    <3> QED
      BY <1>4, <3>1, <3>2, <3>3 DEF Blocked
  <2> QED
    BY <2>2, <2>3
<1> QED
  BY <1>3, <1>4 DEF Doomed

(* The worker's answer to an order: it goes back to nothing it has left.    *)
LEMMA InterruptedHalts ==
    ASSUME NEW w \in WorkerRecord
    PROVE  LET next == Interrupted(w)
           IN  /\ next.stage \in {w.stage, "GONE"} /\ next.post \in {w.post, "NONE"}
               /\ next.stop \/ next.stage \in {"EXITING", "GONE"}
<1>1. /\ NoWorker \in WorkerRecord /\ NoWorker.post = "NONE"
  BY RecordTypes DEF NoWorker
<1>2. Gone.stage = "GONE" /\ Gone.post = "NONE"
  BY <1>1 DEF Gone, WorkerRecord
<1>3. PICK stopped : stopped = [w EXCEPT !.stop = TRUE]
  OBVIOUS
<1>4. stopped.stage = w.stage /\ stopped.post = w.post /\ stopped.stop
  <2>1. stopped.stage = w.stage /\ stopped.post = w.post
    BY <1>3 DEF WorkerRecord
  <2>2. stopped.stop
    BY <1>3 DEF WorkerRecord
  <2> QED
    BY <2>1, <2>2
<1>5. (Interrupted(w) = w /\ w.stage = "EXITING") \/ Interrupted(w) = Gone \/ Interrupted(w) = stopped
  BY <1>3 DEF Interrupted
<1> QED
  BY <1>2, <1>4, <1>5

(* No step of the worker saves a write that is halted.                      *)
LEMMA HaltedWorker ==
    ASSUME JobTypes, NEW g \in Grants, Halted(g), WorkerMoves(g)
    PROVE  Halted(g)'
<1> DEFINE w == worker[g]
           q == toWorker[g]
           IsStopped(v) == v.stop \/ v.distrusts \/ v.stage \in {"EXITING", "GONE"}
<1>1. /\ worker \in [Grants -> WorkerRecord] /\ toWorker \in [Grants -> Seq(WorkerMessages)]
      /\ w \in WorkerRecord /\ q \in Seq(WorkerMessages)
  BY DEF JobTypes, JobTypeOK
<1>2. /\ written[g] = 0 /\ w.post = "NONE" /\ w.stage \notin {"NONE", "PRESSED"} /\ (IsStopped(w) \/ Ahead(q))
  BY DEF Halted
<1>3. ASSUME NEW next, NEW inbox, Becomes(g, next, inbox), written'[g] = 0, next.post = "NONE",
             next.stage \notin {"NONE", "PRESSED"}, IsStopped(next) \/ Ahead(inbox)
      PROVE  Halted(g)'
  <2>1. worker'[g] = next /\ toWorker'[g] = IF next.stage \in {"EXITING", "GONE"} THEN <<>> ELSE inbox
    BY <1>1, <1>3 DEF Becomes
  <2> QED
    BY <1>3, <2>1 DEF Halted
<1>4. Gone.stage = "GONE" /\ Gone.post = "NONE" /\ Exiting(w).stage = "EXITING" /\ Exiting(w).post = "NONE"
  <2>1. NoWorker \in WorkerRecord /\ NoWorker.post = "NONE"
    BY RecordTypes DEF NoWorker
  <2> QED
    BY <2>1 DEF Gone, Exiting, WorkerRecord
<1>5. ASSUME NEW next, NEW inbox, Becomes(g, next, inbox), written' = written,
             next.stage \notin {"NONE", "PRESSED"}, next.post = w.post, next.stop = w.stop, next.distrusts = w.distrusts,
             w.stage \notin {"EXITING", "GONE"}, inbox = q \/ (IsStopped(w) \/ Ahead(inbox))
      PROVE  Halted(g)'
  BY <1>2, <1>3, <1>5
<1>6. ASSUME NEW from \in SUBSET {"BOOTING", "WAITING", "RUNNING", "PREFLIGHT", "STAGE", "RECHECK", "PRESSED", "CLOSED", "REPORTED"},
             NEW to \in {"WAITING", "PREFLIGHT", "STAGE", "RECHECK", "CLOSED", "EXITING"}, NEW messages,
             Goes(g, from, to, messages)
      PROVE  Halted(g)'
  <2>1. PICK next : next = IF to = "EXITING" THEN Exiting(w) ELSE [w EXCEPT !.stage = to]
    OBVIOUS
  <2>2. Becomes(g, next, q) /\ written' = written /\ w.stage \notin {"EXITING", "GONE"}
    BY <1>6, <2>1 DEF Goes
  <2>3. CASE to = "EXITING"
    BY <1>2, <1>3, <1>4, <2>1, <2>2, <2>3
  <2>4. CASE to # "EXITING"
    <3>1. next.stage = to /\ next.post = w.post /\ next.stop = w.stop /\ next.distrusts = w.distrusts
      BY <1>1, <2>1, <2>4 DEF WorkerRecord
    <3> QED
      BY <1>5, <2>2, <2>4, <3>1
  <2> QED
    BY <2>3, <2>4
<1>7. CASE BecomeReady(g) \/ StartRun(g) \/ SkipRun(g) \/ EnterStage(g) \/ RequestRecheck(g) \/ CloseContext(g) \/ FailRun(g)
  BY <1>6, <1>7 DEF BecomeReady, StartRun, SkipRun, EnterStage, RequestRecheck, CloseContext, FailRun
<1>8. CASE ReportSubmission(g)
  <2>1. PICK facts : Reports(g, facts) /\ w.stage \in {"PREFLIGHT", "CLOSED"}
    BY <1>8 DEF ReportSubmission
  <2>2. PICK next : next = [w EXCEPT !.stage = "REPORTED", !.facts = facts]
    OBVIOUS
  <2>3. next.stage = "REPORTED" /\ next.post = w.post /\ next.stop = w.stop /\ next.distrusts = w.distrusts
    BY <1>1, <2>2 DEF WorkerRecord
  <2>4. Becomes(g, next, q) /\ written' = written
    BY <2>1, <2>2 DEF Reports
  <2> QED
    BY <1>5, <2>1, <2>3, <2>4
<1>9. CASE FinishRun(g)
  <2>1. Becomes(g, Exiting(w), q) /\ written' = written
    BY <1>9 DEF FinishRun
  <2> QED
    BY <1>2, <1>3, <1>4, <2>1
<1>10. CASE AdmitPost(g) \/ WritePost(g) \/ SettlePost(g)
  <2>1. AdmittablePosts(w) = 0
    BY <1>2 DEF AdmittablePosts
  <2> QED
    BY <1>2, <1>10, <2>1 DEF AdmitPost, WritePost, SettlePost
<1>11. CASE TimeOutRecheck(g)
  <2>1. PICK next : next = [w EXCEPT !.stage = "CLOSED"]
    OBVIOUS
  <2>2. next.stage = "CLOSED" /\ next.post = w.post /\ next.stop = w.stop /\ next.distrusts = w.distrusts
    BY <1>1, <2>1 DEF WorkerRecord
  <2>3. Becomes(g, next, q) /\ written' = written /\ w.stage = "RECHECK"
    BY <1>11, <2>1 DEF TimeOutRecheck, WorkerBecomes, AfterRecheckTimeout
  <2> QED
    BY <1>5, <2>2, <2>3
<1>12. ASSUME NEW v \in WorkerRecord, v.stage = w.stage, v.post = w.post, NEW inbox, Becomes(g, Interrupted(v), inbox),
              written' = written
       PROVE  Halted(g)'
  <2>1. /\ Interrupted(v).stage \in {w.stage, "GONE"} /\ Interrupted(v).post \in {w.post, "NONE"}
        /\ Interrupted(v).stop \/ Interrupted(v).stage \in {"EXITING", "GONE"}
    BY <1>12, InterruptedHalts
  <2> QED
    BY <1>2, <1>3, <1>12, <2>1
<1>13. CASE TakeSignal(g)
  <2>1. PICK v : v = [w EXCEPT !.signal = "TAKEN"]
    OBVIOUS
  <2>2. v \in WorkerRecord /\ v.stage = w.stage /\ v.post = w.post
    BY <1>1, <2>1 DEF WorkerRecord
  <2>3. Becomes(g, Interrupted(v), q) /\ written' = written
    BY <1>13, <2>1 DEF TakeSignal, WorkerBecomes
  <2> QED
    BY <1>12, <2>2, <2>3
<1>14. CASE WorkerDies(g)
  <2>1. Becomes(g, Gone, q) /\ written' = written
    BY <1>14 DEF WorkerDies, WorkerBecomes
  <2> QED
    BY <1>2, <1>3, <1>4, <2>1
<1>15. q # <<>> /\ ~IsStopped(w) => Head(q) # "ALLOWED" /\ (Head(q) \in {"STOP", "DISCONNECT"} \/ Ahead(Tail(q)))
  BY <1>1, <1>2, AheadStays
<1>16. CASE TakeStop(g)
  <2>1. PICK next : /\ Becomes(g, next, Tail(q)) /\ written' = written
                    /\ \/ next = w /\ w.distrusts
                       \/ next = Interrupted(w)
    BY <1>16 DEF TakeStop, TakesMessage
  <2>2. CASE next = w /\ w.distrusts
    BY <1>2, <1>3, <2>1, <2>2
  <2>3. CASE next = Interrupted(w)
    BY <1>1, <1>12, <2>1, <2>3
  <2> QED
    BY <2>1, <2>2, <2>3
<1>17. CASE TakeStart(g)
  <2>1. PICK next : next = [w EXCEPT !.stage = "RUNNING"]
    OBVIOUS
  <2>2. next.stage = "RUNNING" /\ next.post = w.post /\ next.stop = w.stop /\ next.distrusts = w.distrusts
    BY <1>1, <2>1 DEF WorkerRecord
  <2>3. Becomes(g, next, Tail(q)) /\ written' = written /\ w.stage = "WAITING" /\ q # <<>> /\ Head(q) = "START"
    BY <1>17, <2>1 DEF TakeStart, TakesMessage
  <2> QED
    BY <1>5, <1>15, <2>2, <2>3
<1>18. CASE TakeRecheckResult(g)
  <2>1. /\ w.stage = "RECHECK" /\ ~w.distrusts /\ q # <<>> /\ Head(q) \in {"ALLOWED", "REFUSED"} /\ written' = written
        /\ Becomes(g, AfterResult(w, Head(q) = "ALLOWED"), Tail(q))
    BY <1>18 DEF TakeRecheckResult, TakesMessage
  <2>2. PICK next : next = [w EXCEPT !.stage = "CLOSED"]
    OBVIOUS
  <2>3. next.stage = "CLOSED" /\ next.post = w.post /\ next.stop = w.stop /\ next.distrusts = w.distrusts
    BY <1>1, <2>2 DEF WorkerRecord
  <2>4. w.stop \/ Head(q) # "ALLOWED"
    BY <1>15, <2>1
  <2>5. AfterResult(w, Head(q) = "ALLOWED") = next
    BY <2>2, <2>4 DEF AfterResult
  <2> QED
    BY <1>5, <1>15, <2>1, <2>3, <2>5
<1>19. CASE TakeLateResult(g)
  <2>1. PICK v : v = [w EXCEPT !.distrusts = TRUE, !.failed = TRUE]
    OBVIOUS
  <2>2. v \in WorkerRecord /\ v.stage = w.stage /\ v.post = w.post
    BY <1>1, <2>1 DEF WorkerRecord
  <2>3. Becomes(g, Interrupted(v), Tail(q)) /\ written' = written
    BY <1>19, <2>1 DEF TakeLateResult, TakesMessage
  <2> QED
    BY <1>12, <2>2, <2>3
<1> QED
  BY <1>7, <1>8, <1>9, <1>10, <1>11, <1>13, <1>14, <1>16, <1>17, <1>18, <1>19 DEF WorkerMoves, RunSteps

-----------------------------------------------------------------------------
(* The theorem *)

(* A new worker was not stopped. *)
LEMMA DoomedLaunch ==
    ASSUME JobTypes, WireEach, NEW g \in Grants, NEW at \in Times, Launch(g, at)
    PROVE  ~Doomed(g) /\ (job'[g].phase = "FORKED" /\ job'[g].recheck = "NO" /\ ~job'[g].stopRequested)
<1>1. worker[g].stage = "NONE" /\ ~IsTracked(g)
  BY DEF Launch, WireEach, WireOK, StagesOK
<1>2. ~Doomed(g)
  BY <1>1 DEF Doomed, Halted, Blocked
<1>3. job'[g] = Forked
  BY DEF Launch, JobTypes, JobTypeOK
<1>4. Forked.phase = "FORKED" /\ Forked.recheck = "NO" /\ Forked.stopRequested = FALSE
  BY RecordTypes DEF Forked, NoJob
<1> QED
  BY <1>2, <1>3, <1>4

(* What dooms a write is never lost. *)
LEMMA DoomedStays ==
    ASSUME JobTypes, TypeOK, RowsOK, AgesOK, OnePostEach, OwnedJobs, WireEach, StopHeard, [JobNext]_allVars,
           NEW g \in Grants, Doomed(g)
    PROVE  Doomed(g)'
<1>1. WireOK(g) /\ OnePost(g)
  BY DEF WireEach, OnePostEach
<1>2. [Next]_vars
  BY StoreStep DEF JobTypes
<1>3. CASE WorkerMoves(g)
  <2>1. Halted(g) => Halted(g)'
    BY <1>3, HaltedWorker
  <2>2. Blocked(g) => Blocked(g)'
    <3>1. WorkerStep(g)
      BY <1>3 DEF WorkerMoves, RunSteps, BecomeReady, TakeStart, TakeStop, TakeRecheckResult, TakeLateResult, StartRun, SkipRun,
         EnterStage, RequestRecheck, TimeOutRecheck, AdmitPost, WritePost, SettlePost, CloseContext,
         ReportSubmission, Reports, FailRun, FinishRun, TakeSignal, WorkerDies, WorkerBecomes, TakesMessage, Goes
    <3>2. UNCHANGED <<job, scenario, approval, grant>>
      BY <3>1 DEF WorkerStep, vars, serverVars
    <3> QED
      BY <3>2 DEF Blocked, IsTracked, NeverMatches, GrantMatchesApproval, IsApproved
  <2> QED
    BY <2>1, <2>2 DEF Doomed
<1>4. CASE \E at \in Times : Launch(g, at)
  BY <1>4, DoomedLaunch
<1>5. CASE ~WorkerMoves(g) /\ ~\E at \in Times : Launch(g, at)
  <2>1. ManagerMoves(g)
    BY <1>5, WireMoves
  <2>2. Steers(g)
    BY <1>5, AllSteer
  <2> QED
    BY <1>1, <1>2, <2>1, <2>2, DoomedManager
<1> QED
  BY <1>3, <1>4, <1>5

(* A row is ended by an errand of its own only once its worker has gone.    *)
LEMMA EndsGone ==
    ASSUME JobTypes, RowsOK, OnePostEach, OwnedJobs, WireEach, StopHeard, [JobNext]_allVars,
           NEW g \in Grants, NEW state \in EndStates, todo' = <<EndRow(g, state)>>
    PROVE  worker'[g].stage \in {"NONE", "GONE"}
<1>1. /\ todo \in Errands /\ worker[g] \in WorkerRecord /\ WireOK(g) /\ StopOK(g)
      /\ worker \in [Grants -> WorkerRecord]
  BY DEF JobTypes, JobTypeOK, WireEach, StopHeard
<1>2. \/ todo' = todo
      \/ todo # <<>> /\ todo' = Tail(todo)
      \/ \E h \in Grants, at \in Times : RecordExit(h, at)
      \/ \E h \in Grants : todo' = <<CloseUnsent(h), EndRow(h, "FAILED")>>
      \/ todo' = <<CloseOrphans>> \/ \E h \in Grants : todo' = <<CloseOrphans, CreateRow(h)>>
      \/ todo' = <<>>
  <2>1. CASE UNCHANGED allVars
    BY <2>1 DEF allVars, jobVars, serverVars
  <2>2. CASE StoreHandlers
    BY <2>2 DEF StoreHandlers, ChangeScenario, InvalidateApproval, IssueAndStart, jobVars, serverVars
  <2>3. CASE Commits
    BY <2>3 DEF Commits, CommitEndRow, CommitCloseOrphans, CommitCreateRow, CommitCloseUnsent, Proceed
  <2>4. CASE StartOtherJob \/ Crash \/ Restart
    BY <2>4, PairOfErrands DEF StartOtherJob, Crash, Restart, InterruptUnowned
  <2>5. ASSUME NEW h \in Grants, StartSteps(h)
        PROVE  todo' = todo \/ todo' = <<CloseUnsent(h), EndRow(h, "FAILED")>> \/ todo' = <<CloseOrphans, CreateRow(h)>>
    BY <2>5, PairOfErrands DEF StartSteps, ReconcileBeforeRow, InterruptUnowned, FailPreparation, GiveUpStart, RejectStart, Launch, FailLaunch, Consume
  <2>6. ASSUME NEW h \in Grants, StopJob(h) \/ ReceiveSteps(h) \/ AnswerSteps(h) \/ Timeout(h)
        PROVE  todo' = todo
    BY <2>6 DEF StopJob, ReceiveSteps, ReceiveDecided, ReceiveReady, ReceiveRunStarted, ReceiveRecheckRequest,
         ReceiveSubmission, ReceiveFinished, ReceiveFailed, Receives, AnswerSteps, AllowWrite, RefuseWrite, Timeout, EndAndKill
  <2>7. ASSUME NEW h \in Grants, ExitSteps(h)
        PROVE  todo' = todo \/ \E at \in Times : RecordExit(h, at)
    BY <2>7 DEF ExitSteps, SeeProcessExit, EndDrain
  <2>8. ASSUME NEW h \in Grants, WorkerMoves(h)
        PROVE  todo' = todo
    BY <2>8 DEF WorkerMoves, RunSteps, BecomeReady, TakeStart, TakeStop, TakeRecheckResult, TakeLateResult, StartRun, SkipRun,
         EnterStage, RequestRecheck, TimeOutRecheck, AdmitPost, WritePost, SettlePost, CloseContext,
         ReportSubmission, Reports, FailRun, FinishRun, TakeSignal, WorkerDies, WorkerBecomes, TakesMessage, Goes,
         WorkerStep, serverVars
  <2> QED
    BY <2>1, <2>2, <2>3, <2>4, <2>5, <2>6, <2>7, <2>8 DEF JobNext, GrantSteps, WorkerMoves
<1>3. Ends(todo', g)
  BY DEF Ends
<1>4. worker[g].stage \in {"NONE", "GONE"}
  <2>1. CASE todo' = todo
    BY <1>1, <2>1 DEF StopOK
  <2>2. CASE todo # <<>> /\ todo' = Tail(todo)
    <3>1. Ends(todo, g)
      BY <1>1, <1>3, <2>2, EndsTail
    <3>2. CASE todo = <<CloseUnsent(g), EndRow(g, "FAILED")>>
      BY <1>1, <3>2 DEF WireOK, StagesOK, Starting
    <3> QED
      BY <1>1, <3>1, <3>2 DEF Ends, StopOK
  <2>3. ASSUME NEW h \in Grants, NEW at \in Times, RecordExit(h, at)
        PROVE  worker[g].stage = "GONE"
    <3>1. PICK other : todo' = <<EndRow(h, other)>>
      BY <2>3 DEF RecordExit
    <3>2. EndRow(g, state) = EndRow(h, other)
      BY <3>1
    <3>3. g = h
      BY <3>2 DEF EndRow
    <3> QED
      BY <1>1, <2>3, <3>3 DEF RecordExit, WireOK, StagesOK
  <2>4. ASSUME NEW h \in Grants, todo' = <<CloseUnsent(h), EndRow(h, "FAILED")>>
        PROVE  FALSE
    BY <2>4, ErrandForms
  <2>5. todo' # <<CloseOrphans>> /\ todo' # <<>> /\ \A h \in Grants : todo' # <<CloseOrphans, CreateRow(h)>>
    BY <1>3, EndsOne
  <2> QED
    BY <1>2, <2>1, <2>2, <2>3, <2>4, <2>5
<1>5. CASE ManagerMoves(g)
  BY <1>1, <1>4, <1>5 DEF ManagerMoves, Signalled, WorkerRecord
<1>6. ASSUME NEW at \in Times, Launch(g, at)
      PROVE  FALSE
  <2>1. todo' = <<>>
    BY <1>6 DEF Launch, Idle
  <2> QED
    BY <1>3, <2>1, EndsOne
<1>7. ASSUME WorkerMoves(g)
      PROVE  FALSE
  <2>1. WorkerStep(g)
    BY <1>7 DEF WorkerMoves, RunSteps, BecomeReady, TakeStart, TakeStop, TakeRecheckResult, TakeLateResult, StartRun, SkipRun,
         EnterStage, RequestRecheck, TimeOutRecheck, AdmitPost, WritePost, SettlePost, CloseContext,
         ReportSubmission, Reports, FailRun, FinishRun, TakeSignal, WorkerDies, WorkerBecomes, TakesMessage, Goes
  <2> QED
    BY <1>4, <2>1 DEF WorkerStep, IsAlive
<1> QED
  BY <1>5, <1>6, <1>7, WireMoves

(* Every step keeps that a stop is heard. *)
LEMMA StopStep ==
    JobTypes /\ TypeOK /\ RowsOK /\ AgesOK /\ OnePostEach /\ OwnedJobs /\ WireEach /\ StopHeard /\ [JobNext]_allVars => StopHeard'
<1> SUFFICES ASSUME JobTypes, TypeOK, RowsOK, AgesOK, OnePostEach, OwnedJobs, WireEach, StopHeard, [JobNext]_allVars,
                    NEW g \in Grants
             PROVE  StopOK(g)'
  BY DEF StopHeard
<1>1. StopOK(g) /\ WireOK(g) /\ job[g] \in JobRecord
  BY DEF StopHeard, WireEach, JobTypes, JobTypeOK
<1>2. \A state \in EndStates : todo' = <<EndRow(g, state)>> => worker'[g].stage \in {"NONE", "GONE"}
  BY EndsGone
<1>3. Doomed(g) => Doomed(g)'
  BY DoomedStays
<1>4. CASE \E at \in Times : Launch(g, at)
  BY <1>2, <1>4, DoomedLaunch DEF StopOK
<1>5. CASE WorkerMoves(g)
  <2>1. WorkerStep(g)
    BY <1>5 DEF WorkerMoves, RunSteps, BecomeReady, TakeStart, TakeStop, TakeRecheckResult, TakeLateResult, StartRun, SkipRun,
         EnterStage, RequestRecheck, TimeOutRecheck, AdmitPost, WritePost, SettlePost, CloseContext,
         ReportSubmission, Reports, FailRun, FinishRun, TakeSignal, WorkerDies, WorkerBecomes, TakesMessage, Goes
  <2>2. job' = job
    BY <2>1 DEF WorkerStep, serverVars
  <2> QED
    BY <1>1, <1>2, <1>3, <2>2 DEF StopOK, IsTracked
<1>6. CASE ~WorkerMoves(g) /\ ~\E at \in Times : Launch(g, at)
  <2>1. ManagerMoves(g) /\ Steers(g)
    BY <1>6, WireMoves, AllSteer
  <2>2. job'[g].phase = "FORKED" => job'[g].recheck = "NO"
    <3>1. job'[g].phase = "FORKED" => IsTracked(g)'
      BY DEF IsTracked
    <3> QED
      BY <1>1, <2>1, <3>1 DEF Steers, Minds, StopOK
  <2>3. ASSUME IsTracked(g)', job'[g].stopRequested, job'[g].recheck # "ALLOWED"
        PROVE  Doomed(g)'
    <3>1. IsTracked(g) /\ job[g].recheck # "ALLOWED"
      BY <2>1, <2>3 DEF Steers, Minds
    <3>2. CASE job[g].stopRequested
      BY <1>1, <1>3, <3>1, <3>2 DEF StopOK
    <3>3. CASE job'[g].phase = "FORKED"
      BY <2>3, <3>3 DEF Doomed, Blocked
    <3>4. CASE StopSent(g)
      BY <1>1, <2>1, <3>1, <3>4, SentHalts DEF ManagerMoves, Doomed
    <3> QED
      BY <2>1, <2>3, <3>2, <3>3, <3>4 DEF Steers, Minds
  <2> QED
    BY <1>2, <2>2, <2>3 DEF StopOK
<1> QED
  BY <1>4, <1>5, <1>6

(* Nothing is tracked at first. *)
LEMMA StopInit == JobInit => StopHeard
<1> SUFFICES ASSUME JobInit, NEW g \in Grants PROVE StopOK(g)
  BY DEF StopHeard
<1>1. job[g] = NoJob /\ worker[g] = NoWorker
  BY DEF JobInit
<1>2. ~IsTracked(g) /\ job[g].phase # "FORKED" /\ worker[g].stage = "NONE"
  BY <1>1 DEF IsTracked, NoJob, NoWorker
<1> QED
  BY <1>2 DEF StopOK

(* What the argument knows of every state. *)
StopInv == JobTypes /\ TypeOK /\ RowsOK /\ AgesOK /\ OnePostEach /\ OwnedJobs /\ WireEach /\ StopHeard

(* It holds throughout. *)
LEMMA StopInvHolds == JobSpec => []StopInv
<1>1. JobSpec => []AgesOK
  <2>1. Spec => []AgesOK
    BY TypeInit, TypeStep, RowsInit, RowsStep, AgesInit, AgesStep, PTL DEF Spec
  <2> QED
    BY <2>1, JobImplementsStore, PTL
<1>2. JobSpec => []WireEach
  BY JobRows, WireInit, WireStep, PTL DEF JobSpec
<1>3. JobSpec => []StopHeard
  BY <1>1, <1>2, JobRows, StopInit, StopStep, PTL DEF JobSpec
<1> QED
  BY <1>1, <1>2, <1>3, JobRows, PTL DEF StopInv

(* A write that is withdrawn is doomed, one that is doomed stays so, and of *)
(* a doomed one nothing is written.                                         *)
LEMMA WithdrawnIsDoomed ==
    ASSUME NEW g \in Grants
    PROVE  /\ StopInv /\ IsWithdrawn(g) => Doomed(g)
           /\ StopInv /\ Doomed(g) /\ [JobNext]_allVars => Doomed(g)'
           /\ StopInv /\ Doomed(g) => written[g] = 0
<1>1. ASSUME StopInv, IsWithdrawn(g)
      PROVE  Doomed(g)
  <2>1. CASE job[g].stopRequested
    BY <1>1, <2>1 DEF IsWithdrawn, StopInv, StopHeard, StopOK
  <2>2. CASE NeverMatches(g)
    BY <1>1, <2>2 DEF IsWithdrawn, Doomed, Blocked
  <2> QED
    BY <1>1, <2>1, <2>2 DEF IsWithdrawn, NeverMatches
<1>2. StopInv /\ Doomed(g) /\ [JobNext]_allVars => Doomed(g)'
  BY DoomedStays DEF StopInv
<1>3. StopInv /\ Doomed(g) => written[g] = 0
  BY DoomedUnwritten DEF StopInv
<1> QED
  BY <1>1, <1>2, <1>3

(* A stop, a revocation, a revision or a newer approval that comes before   *)
(* the recheck was answered with yes is in time: nothing is written for     *)
(* that grant from then on - also when the worker is not ready, the refusal *)
(* crosses other messages, or the server dies with the stop unsent.         *)
THEOREM NothingWrittenOnceWithdrawnHolds == JobSpec => NothingWrittenOnceWithdrawn
<1>1. ASSUME NEW g \in Grants
      PROVE  JobSpec => [](IsWithdrawn(g) => [](written[g] = 0))
  <2>1. StopInv /\ IsWithdrawn(g) => Doomed(g)
    BY WithdrawnIsDoomed
  <2>2. StopInv /\ Doomed(g) /\ [JobNext]_allVars => Doomed(g)'
    BY WithdrawnIsDoomed
  <2>3. StopInv /\ Doomed(g) => written[g] = 0
    BY WithdrawnIsDoomed
  <2> QED
    BY <2>1, <2>2, <2>3, StopInvHolds, PTL DEF JobSpec
<1> QED
  BY <1>1 DEF NothingWrittenOnceWithdrawn
=============================================================================
