-------------------------- MODULE WriteJob_proofs ---------------------------
(***************************************************************************)
(* Theorems about WriteJob for every set of scenarios, grants and clock    *)
(* readings and every bound: its types, that every step of the job is a    *)
(* transaction of the store or leaves the store alone, and that a grant is *)
(* written at most once.                                                   *)
(***************************************************************************)
EXTENDS WriteJob, WriteGrants_proofs, SequenceTheorems

(* What the manager and the worker make of their records is a record.      *)
LEMMA RecordTypes ==
    /\ NoJob \in JobRecord /\ Forked \in JobRecord
    /\ NoWorker \in WorkerRecord /\ Booting \in WorkerRecord /\ Gone \in WorkerRecord
    /\ \A j \in JobRecord :
          /\ AfterReady(j) \in JobRecord
          /\ \A ending \in {"NONE", "RAN", "NOT_RUN", "FAILED", "INTERRUPTED"} : Ended(j, ending) \in JobRecord
          /\ \A flag \in BOOLEAN :
                [j EXCEPT !.stopRequested = flag] \in JobRecord /\ [j EXCEPT !.rejected = flag] \in JobRecord
    /\ \A w \in WorkerRecord :
          /\ Signalled(w) \in WorkerRecord
          /\ Interrupted(w) \in WorkerRecord
          /\ Exiting(w) \in WorkerRecord
          /\ AfterRecheckTimeout(w) \in WorkerRecord
          /\ FactsOf(w) \in {"NOT_SENT", "SENT", "ANSWERED"}
          /\ \A flag \in BOOLEAN :
                /\ AfterResult(w, flag) \in WorkerRecord
                /\ [w EXCEPT !.stop = flag] \in WorkerRecord
                /\ [w EXCEPT !.distrusts = flag, !.failed = flag] \in WorkerRecord
<1>1. NoJob \in JobRecord /\ NoWorker \in WorkerRecord
  BY DEF NoJob, JobRecord, NoWorker, WorkerRecord
<1>2. Forked \in JobRecord /\ Booting \in WorkerRecord /\ Gone \in WorkerRecord
  BY <1>1 DEF Forked, JobRecord, Booting, Gone, WorkerRecord
<1>3. ASSUME NEW j \in JobRecord
      PROVE  AfterReady(j) \in JobRecord
  <2> DEFINE sent == ~j.stopRequested
  <2>1. sent \in BOOLEAN
    OBVIOUS
  <2> HIDE DEF sent
  <2>2. [j EXCEPT !.phase = "STARTED", !.startSent = sent] \in JobRecord
    BY <2>1 DEF JobRecord
  <2> QED
    BY <2>2 DEF AfterReady, sent
<1>4. ASSUME NEW j \in JobRecord, NEW ending \in {"NONE", "RAN", "NOT_RUN", "FAILED", "INTERRUPTED"}
      PROVE  Ended(j, ending) \in JobRecord
  <2>1. [j EXCEPT !.ending = ending, !.phase = "DONE"] \in JobRecord
    BY DEF JobRecord
  <2> QED
    BY <2>1 DEF Ended
<1>5. ASSUME NEW j \in JobRecord, NEW flag \in BOOLEAN
      PROVE  [j EXCEPT !.stopRequested = flag] \in JobRecord /\ [j EXCEPT !.rejected = flag] \in JobRecord
  BY DEF JobRecord
<1>6. ASSUME NEW w \in WorkerRecord
      PROVE  Exiting(w) \in WorkerRecord
  <2>1. w.signal \in {"NO", "SENT", "TAKEN"}
    BY DEF WorkerRecord
  <2>2. ASSUME NEW signal \in {"NO", "SENT", "TAKEN"}
        PROVE  [NoWorker EXCEPT !.stage = "EXITING", !.signal = signal] \in WorkerRecord
    BY <1>1 DEF WorkerRecord
  <2> QED
    BY <2>1, <2>2 DEF Exiting
<1>7. ASSUME NEW w \in WorkerRecord, NEW flag \in BOOLEAN
      PROVE  /\ [w EXCEPT !.stop = flag] \in WorkerRecord
             /\ [w EXCEPT !.distrusts = flag, !.failed = flag] \in WorkerRecord
  BY DEF WorkerRecord
<1>8. ASSUME NEW w \in WorkerRecord
      PROVE  Interrupted(w) \in WorkerRecord
  BY <1>2, <1>7 DEF Interrupted
<1>9. ASSUME NEW w \in WorkerRecord
      PROVE  /\ Signalled(w) \in WorkerRecord
             /\ AfterRecheckTimeout(w) \in WorkerRecord
             /\ \A allowed \in BOOLEAN : AfterResult(w, allowed) \in WorkerRecord
  BY DEF WorkerRecord, Signalled, AfterRecheckTimeout, AfterResult
<1>10. ASSUME NEW w \in WorkerRecord
       PROVE  FactsOf(w) \in {"NOT_SENT", "SENT", "ANSWERED"}
  BY DEF WorkerRecord, FactsOf
<1> QED
  BY <1>1, <1>2, <1>3, <1>4, <1>5, <1>6, <1>7, <1>8, <1>9, <1>10

(* Messages appended to a channel make a channel. *)
LEMMA ChannelTypes ==
    ASSUME JobTypeOK, NEW g \in Grants
    PROVE  /\ \A messages \in Seq(WorkerMessages) : Sent(g, messages) \in Seq(WorkerMessages)
           /\ \A messages \in Seq(ParentMessages) : Told(g, messages) \in [Grants -> Seq(ParentMessages)]
           /\ toWorker[g] # <<>> => Tail(toWorker[g]) \in Seq(WorkerMessages)
           /\ toParent[g] # <<>> => Tail(toParent[g]) \in Seq(ParentMessages) /\ Head(toParent[g]) \in ParentMessages
<1>1. toWorker[g] \in Seq(WorkerMessages) /\ toParent[g] \in Seq(ParentMessages)
  BY DEF JobTypeOK
<1>2. ASSUME NEW messages \in Seq(WorkerMessages)
      PROVE  Sent(g, messages) \in Seq(WorkerMessages)
  BY <1>1, ConcatProperties DEF Sent
<1>3. ASSUME NEW messages \in Seq(ParentMessages)
      PROVE  Told(g, messages) \in [Grants -> Seq(ParentMessages)]
  <2>1. toParent[g] \o messages \in Seq(ParentMessages)
    BY <1>1, ConcatProperties
  <2> QED
    BY <2>1 DEF Told, JobTypeOK
<1>4. toWorker[g] # <<>> => Tail(toWorker[g]) \in Seq(WorkerMessages)
  BY <1>1, HeadTailProperties
<1>5. toParent[g] # <<>> => Tail(toParent[g]) \in Seq(ParentMessages) /\ Head(toParent[g]) \in ParentMessages
  BY <1>1, HeadTailProperties
<1> QED
  BY <1>2, <1>3, <1>4, <1>5

(* A handler does its errands in their order. *)
LEMMA ErrandTypes ==
    ASSUME todo \in Errands, todo # <<>>
    PROVE  /\ Tail(todo) \in Errands
           /\ todo[1].op # "CLOSE_ORPHANS" => todo[1].grant \in Grants
           /\ todo[1].op = "END_ROW" => todo[1].state \in EndStates
<1>1. CASE todo = <<CloseOrphans>>
  BY <1>1 DEF Errands, CloseOrphans
<1>2. CASE \E g \in Grants : todo = <<CloseOrphans, CreateRow(g)>>
  BY <1>2 DEF Errands, CloseOrphans, CreateRow
<1>3. CASE \E g \in Grants : todo = <<CreateRow(g)>>
  BY <1>3 DEF Errands, CreateRow
<1>4. CASE \E g \in Grants : todo = <<CloseUnsent(g), EndRow(g, "FAILED")>>
  BY <1>4 DEF Errands, CloseUnsent, EndRow, EndStates
<1>5. CASE \E g \in Grants, state \in EndStates : todo = <<EndRow(g, state)>>
  BY <1>5 DEF Errands, EndRow
<1> QED
  BY <1>1, <1>2, <1>3, <1>4, <1>5 DEF Errands

-----------------------------------------------------------------------------
(* The store *)

(* Every step of the job commits one transaction of the store or none.     *)
LEMMA StoreStep == JobTypeOK /\ [JobNext]_allVars => [Next]_vars
<1> SUFFICES ASSUME JobTypeOK, [JobNext]_allVars PROVE [Next]_vars
  OBVIOUS
<1>1. CASE UNCHANGED allVars
  BY <1>1 DEF allVars
<1>2. CASE StoreHandlers
  BY <1>2 DEF StoreHandlers, ChangeScenario, InvalidateApproval, IssueAndStart, Next, ScenarioStep, GrantStep
<1>3. CASE Commits
  <2>1. todo # <<>> /\ todo[1].op # "CLOSE_ORPHANS" => todo[1].grant \in Grants
    BY ErrandTypes DEF JobTypeOK
  <2>2. CASE CommitEndRow
    BY <2>2 DEF CommitEndRow
  <2>3. ASSUME NEW at \in Times, CommitCloseOrphans(at)
        PROVE  [Next]_vars
    BY <2>3 DEF CommitCloseOrphans, ActiveJobs, Next, RecoveryStep
  <2>4. ASSUME NEW at \in Times, CommitCreateRow(at)
        PROVE  [Next]_vars
    BY <2>1, <2>4 DEF CommitCreateRow, Proceed, ReleaseUnusedGrant, Next, ResultStep
  <2>5. ASSUME NEW at \in Times, CommitCloseUnsent(at)
        PROVE  [Next]_vars
    BY <2>1, <2>5 DEF CommitCloseUnsent, Proceed, Next, ResultStep
  <2> QED
    BY <1>3, <2>2, <2>3, <2>4, <2>5 DEF Commits
<1>4. CASE StartOtherJob \/ Crash \/ Restart
  BY <1>4 DEF StartOtherJob, Crash, Restart, InterruptUnowned
<1>5. ASSUME NEW g \in Grants, StartSteps(g)
      PROVE  [Next]_vars
  BY <1>5 DEF StartSteps, ReconcileBeforeRow, InterruptUnowned, RejectStart, ReleaseUnusedGrant, Consume, FailPreparation,
              Launch, FailLaunch, Next, GrantStep, ResultStep
<1>6. ASSUME NEW g \in Grants, ExitSteps(g)
      PROVE  [Next]_vars
  <2>1. CASE SeeProcessExit(g) \/ EndDrain(g)
    BY <2>1 DEF SeeProcessExit, EndDrain
  <2>2. ASSUME NEW at \in Times, RecordExit(g, at)
        PROVE  [Next]_vars
    <3>1. ReportOf(document[g]) \in {"NOT_SENT", "SENT", "UNKNOWN"} /\ FallbackReport(g) \in {"NOT_SENT", "SENT", "UNKNOWN"}
      BY DEF ReportOf, FallbackReport
    <3> QED
      BY <2>2, <3>1 DEF RecordExit, SettleWrite, SettleOrLog, Next, ResultStep
  <2> QED
    BY <1>6, <2>1, <2>2 DEF ExitSteps
<1>7. ASSUME NEW g \in Grants, StopJob(g) \/ ReceiveSteps(g) \/ AnswerSteps(g) \/ Timeout(g)
      PROVE  [Next]_vars
  BY <1>7 DEF StopJob, ReceiveSteps, Receives, ReceiveDecided, ReceiveReady, ReceiveRunStarted, ReceiveRecheckRequest,
              ReceiveSubmission, ReceiveFinished, ReceiveFailed, AnswerSteps, AllowWrite, RefuseWrite, Timeout, EndAndKill
<1>8. ASSUME NEW g \in Grants, RunSteps(g) \/ TakeSignal(g) \/ WorkerDies(g)
      PROVE  [Next]_vars
  BY <1>8 DEF RunSteps, BecomeReady, TakeStart, TakeStop, TakeRecheckResult, TakeLateResult, StartRun, SkipRun, EnterStage,
              RequestRecheck, TimeOutRecheck, AdmitPost, WritePost, SettlePost, CloseContext, ReportSubmission, Reports, FailRun,
              FinishRun, TakeSignal, WorkerDies, WorkerBecomes, WorkerStep, TakesMessage, Goes
<1> QED
  BY <1>1, <1>2, <1>3, <1>4, <1>5, <1>6, <1>7, <1>8 DEF JobNext, GrantSteps

-----------------------------------------------------------------------------
(* Types *)

(* A job whose channel is closed has an ending: the state its row gets.    *)
EndedWhenClosed == \A g \in Grants : job[g].ipc = "CLOSED" => job[g].ending # "NONE"

JobTypes == JobTypeOK /\ EndedWhenClosed

(* A fresh server, with no job and no worker, has its types. *)
LEMMA JobTypesInit == JobInit => JobTypes
<1> SUFFICES ASSUME JobInit PROVE JobTypes
  OBVIOUS
<1>1. /\ [g \in Grants |-> NoJob] \in [Grants -> JobRecord]
      /\ [g \in Grants |-> NoWorker] \in [Grants -> WorkerRecord]
  BY RecordTypes
<1>2. <<>> \in Seq(ParentMessages) /\ <<>> \in Seq(WorkerMessages)
  BY EmptySeq
<1>3. JobTypeOK
  BY <1>1, <1>2 DEF JobTypeOK, JobInit, Errands, StartStates
<1>4. EndedWhenClosed
  BY DEF EndedWhenClosed, JobInit, NoJob
<1> QED
  BY <1>3, <1>4 DEF JobTypes

(* The handlers of the store's screens, and a stop. *)
LEMMA StopTypes ==
    ASSUME JobTypes, NEW gs \in SUBSET Grants, StopRequested(gs),
           UNCHANGED <<up, deaths, todo, start, workerVars>>
    PROVE  JobTypes'
<1>1. ASSUME NEW g \in Grants
      PROVE  /\ [job[g] EXCEPT !.stopRequested = TRUE] \in JobRecord
             /\ [job[g] EXCEPT !.stopRequested = TRUE].ipc = job[g].ipc
             /\ [job[g] EXCEPT !.stopRequested = TRUE].ending = job[g].ending
  <2>1. job[g] \in JobRecord
    BY DEF JobTypes, JobTypeOK
  <2>2. [job[g] EXCEPT !.stopRequested = TRUE] \in JobRecord
    BY <2>1, RecordTypes
  <2> QED
    BY <2>1, <2>2 DEF JobRecord
<1>2. job' \in [Grants -> JobRecord]
  BY <1>1 DEF StopRequested, JobTypes, JobTypeOK
<1>3. EndedWhenClosed'
  BY <1>1 DEF StopRequested, JobTypes, EndedWhenClosed
<1>4. <<"STOP">> \in Seq(WorkerMessages)
  BY SeqDef DEF WorkerMessages
<1>5. toWorker' \in [Grants -> Seq(WorkerMessages)]
  BY <1>4, ChannelTypes DEF StopRequested, JobTypes, JobTypeOK
<1>6. row' \in [Grants -> {"NONE"} \cup ActiveStates \cup EndStates]
  BY DEF StopRequested, JobTypes, JobTypeOK, RowTo, ActiveStates
<1> QED
  BY <1>2, <1>3, <1>5, <1>6 DEF JobTypes, JobTypeOK, workerVars

(* Ending a tracked job keeps its record. *)
LEMMA EndedTypes ==
    ASSUME JobTypes, NEW g \in Grants, NEW ending \in {"NONE", "RAN", "NOT_RUN", "FAILED", "INTERRUPTED"}
    PROVE  /\ Ended(job[g], ending) \in JobRecord
           /\ Ended(job[g], ending).ipc = job[g].ipc
           /\ job[g].ending # "NONE" => Ended(job[g], ending).ending # "NONE"
           /\ ending # "NONE" => Ended(job[g], ending).ending # "NONE"
<1>1. job[g] \in JobRecord
  BY DEF JobTypes, JobTypeOK
<1>2. Ended(job[g], ending) \in JobRecord
  BY <1>1, RecordTypes
<1>3. [job[g] EXCEPT !.ending = ending, !.phase = "DONE"].ipc = job[g].ipc
  BY <1>1 DEF JobRecord
<1>4. [job[g] EXCEPT !.ending = ending, !.phase = "DONE"].ending = ending
  BY <1>1 DEF JobRecord
<1> QED
  BY <1>2, <1>3, <1>4 DEF Ended

(* The handlers that start a job or commit an errand. *)
LEMMA PairOfErrands == ASSUME NEW a, NEW b PROVE <<a>> \o <<b>> = <<a, b>> /\ <<a>> \o <<>> = <<a>>
<1> DEFINE S == {a, b}
<1>1. <<a>> \in Seq(S) /\ <<b>> \in Seq(S) /\ <<a, b>> \in Seq(S)
  OBVIOUS
<1>2. Len(<<a>>) = 1 /\ Len(<<b>>) = 1 /\ Len(<<a, b>>) = 2
  OBVIOUS
<1>3. /\ <<a>> \o <<b>> \in Seq(S) /\ Len(<<a>> \o <<b>>) = 2
      /\ (<<a>> \o <<b>>)[1] = a /\ (<<a>> \o <<b>>)[2] = b
  BY <1>1, <1>2, ConcatProperties
<1>4. \A i \in 1..2 : (<<a>> \o <<b>>)[i] = <<a, b>>[i]
  BY <1>3
<1> HIDE DEF S
<1>5. <<a>> \o <<b>> = <<a, b>>
  BY <1>1, <1>2, <1>3, <1>4, SeqEqual
<1> QED
  BY <1>1, <1>5, ConcatEmptySeq

(* Interrupting unowned jobs writes proper rows. *)
LEMMA InterruptTypes ==
    ASSUME JobTypes, NEW stale \in SUBSET UnownedJobs, NEW rest, <<CloseOrphans>> \o rest \in Errands,
           InterruptUnowned(stale, rest), UNCHANGED <<start, deaths>>, up' \in BOOLEAN
    PROVE  JobTypes'
<1>1. row' \in [Grants -> {"NONE"} \cup ActiveStates \cup EndStates]
  BY DEF InterruptUnowned, JobTypes, JobTypeOK, EndStates
<1> QED
  BY <1>1 DEF InterruptUnowned, JobTypes, JobTypeOK, EndedWhenClosed, workerVars

(* So do the steps of a start call, from the lookup to the fork. *)
LEMMA StartTypes == ASSUME JobTypes, NEW g \in Grants, StartSteps(g) PROVE JobTypes'
<1>1. CASE ReconcileBeforeRow(g)
  <2>1. PICK stale \in SUBSET UnownedJobs : InterruptUnowned(stale, <<CreateRow(g)>>)
    BY <1>1 DEF ReconcileBeforeRow
  <2>2. <<CloseOrphans>> \o <<CreateRow(g)>> \in Errands
    BY PairOfErrands DEF Errands
  <2> QED
    BY <1>1, <2>1, <2>2, InterruptTypes DEF ReconcileBeforeRow, JobTypes, JobTypeOK
<1>2. CASE FailPreparation(g)
  <2>1. <<CloseUnsent(g), EndRow(g, "FAILED")>> \in Errands
    BY DEF Errands
  <2> QED
    BY <1>2, <2>1 DEF FailPreparation, GiveUpStart, JobTypes, JobTypeOK, EndedWhenClosed, workerVars, StartStates
<1>3. ASSUME NEW at \in Times, RejectStart(g, at)
      PROVE  JobTypes'
  BY <1>3 DEF RejectStart, JobTypes, JobTypeOK, EndedWhenClosed, workerVars, StartStates
<1>4. ASSUME NEW at \in Times, Launch(g, at)
      PROVE  JobTypes'
  BY <1>4, RecordTypes DEF Launch, JobTypes, JobTypeOK, EndedWhenClosed, StartStates, Forked, NoJob
<1>5. ASSUME NEW at \in Times, FailLaunch(g, at)
      PROVE  JobTypes'
  <2>1. <<CloseUnsent(g), EndRow(g, "FAILED")>> \in Errands
    BY DEF Errands
  <2> QED
    BY <1>5, <2>1 DEF FailLaunch, GiveUpStart, JobTypes, JobTypeOK, EndedWhenClosed, workerVars, StartStates
<1>6. ASSUME NEW seen \in Facts, NEW at \in Times, Consume(g, seen, at)
      PROVE  JobTypes'
  BY <1>6 DEF Consume, JobTypes, JobTypeOK, EndedWhenClosed, workerVars, StartStates
<1> QED
  BY <1>1, <1>2, <1>3, <1>4, <1>5, <1>6 DEF StartSteps

(* The errand a handler takes is its first one; the others stay. *)
LEMMA ProceedTypes ==
    ASSUME JobTypes, NEW op, Proceed(op)
    PROVE  /\ todo' \in Errands
           /\ op \in {"CREATE_ROW", "CLOSE_UNSENT", "END_ROW"} => todo[1].grant \in Grants
           /\ op = "END_ROW" => todo[1].state \in EndStates
<1>1. todo # <<>> /\ todo[1].op = op /\ todo' = Tail(todo)
  BY DEF Proceed
<1>2. todo \in Errands
  BY DEF JobTypes, JobTypeOK
<1>3. Tail(todo) \in Errands
  BY <1>1, <1>2, ErrandTypes
<1>4. todo[1].op # "CLOSE_ORPHANS" => todo[1].grant \in Grants
  BY <1>1, <1>2, ErrandTypes
<1>5. todo[1].op = "END_ROW" => todo[1].state \in EndStates
  BY <1>1, <1>2, ErrandTypes
<1>6. todo' \in Errands
  BY <1>1, <1>3, Zenon
<1> QED
  BY <1>1, <1>4, <1>5, <1>6

(* So do the transactions a handler has left to commit. *)
LEMMA CommitTypes == ASSUME JobTypes, Commits PROVE JobTypes'
<1>2. CASE CommitEndRow
  <2>1. todo' \in Errands /\ todo[1].grant \in Grants /\ todo[1].state \in EndStates
    BY <1>2, ProceedTypes DEF CommitEndRow
  <2>2. NoJob \in JobRecord /\ NoJob.ipc = "OPEN"
    BY RecordTypes DEF NoJob
  <2> QED
    BY <1>2, <2>1, <2>2 DEF CommitEndRow, RowTo, JobTypes, JobTypeOK, EndedWhenClosed, workerVars
<1>3. ASSUME NEW at \in Times, CommitCloseOrphans(at)
      PROVE  JobTypes'
  <2>1. todo' \in Errands
    BY <1>3, ProceedTypes DEF CommitCloseOrphans
  <2> QED
    BY <1>3, <2>1 DEF CommitCloseOrphans, JobTypes, JobTypeOK, EndedWhenClosed, workerVars
<1>4. ASSUME NEW at \in Times, CommitCreateRow(at)
      PROVE  JobTypes'
  <2>1. todo' \in Errands /\ todo[1].grant \in Grants
    BY <1>4, ProceedTypes DEF CommitCreateRow
  <2> QED
    BY <1>4, <2>1 DEF CommitCreateRow, JobTypes, JobTypeOK, EndedWhenClosed, workerVars, StartStates, ActiveStates
<1>5. ASSUME NEW at \in Times, CommitCloseUnsent(at)
      PROVE  JobTypes'
  <2>1. todo' \in Errands /\ todo[1].grant \in Grants
    BY <1>5, ProceedTypes DEF CommitCloseUnsent
  <2> QED
    BY <1>5, <2>1 DEF CommitCloseUnsent, JobTypes, JobTypeOK, EndedWhenClosed, workerVars
<1> QED
  BY <1>2, <1>3, <1>4, <1>5 DEF Commits

(* So does the receipt of any message of a worker. *)
LEMMA ReceiveTypes == ASSUME JobTypes, NEW g \in Grants, ReceiveSteps(g) PROVE JobTypes'
<1> DEFINE Endings == {"NONE", "RAN", "NOT_RUN", "FAILED", "INTERRUPTED"}
<1>1. \A messages : Receives(g, messages) =>
         /\ toParent[g] # <<>> /\ Head(toParent[g]) \in messages
         /\ toParent' \in [Grants -> Seq(ParentMessages)]
         /\ UNCHANGED <<up, deaths, todo, start, written, document>>
  BY ChannelTypes DEF Receives, JobTypes, JobTypeOK
<1>2. job[g] \in JobRecord /\ worker[g] \in WorkerRecord
  BY DEF JobTypes, JobTypeOK
<1>3. CASE ReceiveDecided(g)
  BY <1>1, <1>3 DEF ReceiveDecided, JobTypes, JobTypeOK, EndedWhenClosed
<1>4. CASE ReceiveReady(g)
  <2>1. /\ AfterReady(job[g]) \in JobRecord
        /\ AfterReady(job[g]).ipc = job[g].ipc /\ AfterReady(job[g]).ending = job[g].ending
    <3>1. AfterReady(job[g]) \in JobRecord
      BY <1>2, RecordTypes
    <3>2. AfterReady(job[g]).ipc = job[g].ipc /\ AfterReady(job[g]).ending = job[g].ending
      BY <1>2 DEF AfterReady, JobRecord
    <3> QED
      BY <3>1, <3>2
  <2>2. <<"STOP">> \in Seq(WorkerMessages) /\ <<"START">> \in Seq(WorkerMessages)
    BY DEF WorkerMessages
  <2>3. Sent(g, IF job[g].stopRequested THEN <<"STOP">> ELSE <<"START">>) \in Seq(WorkerMessages)
    BY <2>2, ChannelTypes DEF JobTypes
  <2> QED
    BY <1>1, <1>4, <2>1, <2>3 DEF ReceiveReady, JobTypes, JobTypeOK, EndedWhenClosed
<1>5. CASE ReceiveRunStarted(g)
  <2>1. [job[g] EXCEPT !.phase = "RUN"] \in JobRecord
    BY <1>2 DEF JobRecord
  <2>2. [job[g] EXCEPT !.phase = "RUN"].ipc = job[g].ipc /\ [job[g] EXCEPT !.phase = "RUN"].ending = job[g].ending
    BY <1>2 DEF JobRecord
  <2>3. row' \in [Grants -> {"NONE"} \cup ActiveStates \cup EndStates]
    BY <1>5 DEF ReceiveRunStarted, JobTypes, JobTypeOK, ActiveStates
  <2> QED
    BY <1>1, <1>5, <2>1, <2>2, <2>3 DEF ReceiveRunStarted, JobTypes, JobTypeOK, EndedWhenClosed
<1>6. CASE ReceiveRecheckRequest(g)
  <2>1. [job[g] EXCEPT !.recheck = "REQUESTED"] \in JobRecord
    BY <1>2 DEF JobRecord
  <2>2. /\ [job[g] EXCEPT !.recheck = "REQUESTED"].ipc = job[g].ipc
        /\ [job[g] EXCEPT !.recheck = "REQUESTED"].ending = job[g].ending
    BY <1>2 DEF JobRecord
  <2> QED
    BY <1>1, <1>6, <2>1, <2>2 DEF ReceiveRecheckRequest, JobTypes, JobTypeOK, EndedWhenClosed
<1>7. CASE ReceiveSubmission(g)
  <2> DEFINE noted == [job[g] EXCEPT !.submission = Head(toParent[g])]
  <2>1. Head(toParent[g]) \in {"NOT_SENT", "SENT", "UNKNOWN"}
    BY <1>1, <1>7 DEF ReceiveSubmission
  <2>2. noted \in JobRecord /\ noted.ipc = job[g].ipc /\ noted.ending = job[g].ending
    BY <1>2, <2>1 DEF JobRecord
  <2> HIDE DEF noted
  <2>3. Ended(noted, "FAILED") \in JobRecord /\ Ended(noted, "FAILED").ending # "NONE"
    <3>1. Ended(noted, "FAILED") \in JobRecord
      BY <2>2, RecordTypes
    <3>2. [noted EXCEPT !.ending = "FAILED", !.phase = "DONE"].ending = "FAILED"
      BY <2>2 DEF JobRecord
    <3> QED
      BY <3>1, <3>2 DEF Ended
  <2>4. Signalled(worker[g]) \in WorkerRecord
    BY <1>2, RecordTypes
  <2>5. job' \in [Grants -> JobRecord] /\ EndedWhenClosed'
    BY <1>7, <2>2, <2>3 DEF ReceiveSubmission, JobTypes, JobTypeOK, EndedWhenClosed, noted
  <2>6. worker' \in [Grants -> WorkerRecord]
    BY <1>7, <2>4 DEF ReceiveSubmission, JobTypes, JobTypeOK
  <2> QED
    BY <1>1, <1>7, <2>5, <2>6 DEF ReceiveSubmission, JobTypes, JobTypeOK
<1>8. CASE ReceiveFinished(g)
  <2>1. Head(toParent[g]) \in {"RAN", "NOT_RUN"}
    BY <1>1, <1>8 DEF ReceiveFinished
  <2>2. Ended(job[g], Head(toParent[g])) \in JobRecord /\ Ended(job[g], Head(toParent[g])).ending # "NONE"
    BY <2>1, EndedTypes
  <2> QED
    BY <1>1, <1>8, <2>2 DEF ReceiveFinished, JobTypes, JobTypeOK, EndedWhenClosed
<1>9. CASE ReceiveFailed(g)
  <2>1. Ended(job[g], "FAILED") \in JobRecord /\ Ended(job[g], "FAILED").ending # "NONE"
    BY EndedTypes
  <2>2. Signalled(worker[g]) \in WorkerRecord
    BY <1>2, RecordTypes
  <2>3. worker' \in [Grants -> WorkerRecord]
    BY <1>9, <2>2 DEF ReceiveFailed, JobTypes, JobTypeOK
  <2> QED
    BY <1>1, <1>9, <2>1, <2>3 DEF ReceiveFailed, JobTypes, JobTypeOK, EndedWhenClosed
<1> QED
  BY <1>3, <1>4, <1>5, <1>6, <1>7, <1>8, <1>9 DEF ReceiveSteps

(* So does the answer to a recheck. *)
LEMMA AnswerTypes == ASSUME JobTypes, NEW g \in Grants, AnswerSteps(g) PROVE JobTypes'
<1>1. job[g] \in JobRecord
  BY DEF JobTypes, JobTypeOK
<1>2. <<"ALLOWED">> \in Seq(WorkerMessages) /\ <<"REFUSED", "STOP">> \in Seq(WorkerMessages)
  BY DEF WorkerMessages
<1>3. CASE RefuseWrite(g)
  <2> DEFINE refused == [job[g] EXCEPT !.rejected = TRUE, !.stopRequested = TRUE]
  <2>1. refused \in JobRecord
    <3>1. [job[g] EXCEPT !.rejected = TRUE] \in JobRecord
      BY <1>1, RecordTypes
    <3>2. [[job[g] EXCEPT !.rejected = TRUE] EXCEPT !.stopRequested = TRUE] \in JobRecord
      BY <3>1, RecordTypes
    <3> QED
      BY <3>2
  <2>2. refused.ipc = job[g].ipc /\ refused.ending = job[g].ending
    BY <1>1 DEF JobRecord
  <2>3. job' = [job EXCEPT ![g] = refused]
    BY <1>3 DEF RefuseWrite
  <2> HIDE DEF refused
  <2>4. row' \in [Grants -> {"NONE"} \cup ActiveStates \cup EndStates]
    BY <1>3 DEF RefuseWrite, RowTo, ActiveStates, JobTypes, JobTypeOK
  <2>5. toWorker' \in [Grants -> Seq(WorkerMessages)]
    BY <1>2, <1>3, ChannelTypes DEF RefuseWrite, JobTypes, JobTypeOK
  <2>6. job' \in [Grants -> JobRecord] /\ EndedWhenClosed'
    BY <2>1, <2>2, <2>3 DEF JobTypes, JobTypeOK, EndedWhenClosed
  <2> QED
    BY <1>3, <2>4, <2>5, <2>6 DEF RefuseWrite, JobTypes, JobTypeOK, workerVars
<1>4. ASSUME NEW seen \in Facts, NEW now \in Times, AllowWrite(g, seen, now)
      PROVE  JobTypes'
  <2> DEFINE allowed == [job[g] EXCEPT !.recheck = "ALLOWED"]
  <2>1. allowed \in JobRecord /\ allowed.ipc = job[g].ipc /\ allowed.ending = job[g].ending
    BY <1>1 DEF JobRecord
  <2>2. job' = [job EXCEPT ![g] = allowed]
    BY <1>4 DEF AllowWrite
  <2> HIDE DEF allowed
  <2>3. toWorker' \in [Grants -> Seq(WorkerMessages)]
    BY <1>2, <1>4, ChannelTypes DEF AllowWrite, JobTypes, JobTypeOK
  <2> QED
    BY <1>4, <2>1, <2>2, <2>3 DEF AllowWrite, JobTypes, JobTypeOK, EndedWhenClosed, workerVars
<1> QED
  BY <1>3, <1>4 DEF AnswerSteps

(* So do the timers of the manager. *)
LEMMA TimeoutTypes == ASSUME JobTypes, NEW g \in Grants, Timeout(g) PROVE JobTypes'
<1>1. job[g] \in JobRecord /\ worker[g] \in WorkerRecord
  BY DEF JobTypes, JobTypeOK
<1>2. PICK ending \in {"NONE", "RAN", "NOT_RUN", "FAILED", "INTERRUPTED"} : EndAndKill(g, ending)
  BY <1>1 DEF Timeout, JobRecord
<1>3. Ended(job[g], ending) \in JobRecord /\ Ended(job[g], ending).ipc = job[g].ipc
  BY EndedTypes
<1>4. Signalled(worker[g]) \in WorkerRecord
  BY <1>1, RecordTypes
<1> QED
  BY <1>2, <1>3, <1>4 DEF EndAndKill, JobTypes, JobTypeOK, EndedWhenClosed

(* So does the exit of a worker, up to the row it writes. *)
LEMMA ExitTypes == ASSUME JobTypes, NEW g \in Grants, ExitSteps(g) PROVE JobTypes'
<1>1. job[g] \in JobRecord
  BY DEF JobTypes, JobTypeOK
<1>2. CASE SeeProcessExit(g)
  <2>1. [job[g] EXCEPT !.ipc = "DRAINING"] \in JobRecord /\ [job[g] EXCEPT !.ipc = "DRAINING"].ipc = "DRAINING"
    BY <1>1 DEF JobRecord
  <2> QED
    BY <1>2, <2>1 DEF SeeProcessExit, JobTypes, JobTypeOK, EndedWhenClosed, workerVars
<1>3. CASE EndDrain(g)
  <2> DEFINE ended == Ended(job[g], "INTERRUPTED")
  <2>1. ended \in JobRecord /\ ended.ending # "NONE"
    BY EndedTypes
  <2> HIDE DEF ended
  <2>2. [ended EXCEPT !.ipc = "CLOSED"] \in JobRecord /\ [ended EXCEPT !.ipc = "CLOSED"].ending # "NONE"
    BY <2>1 DEF JobRecord
  <2>3. job' = [job EXCEPT ![g] = [ended EXCEPT !.ipc = "CLOSED"]]
    BY <1>3 DEF EndDrain, ended
  <2>4. toParent' \in [Grants -> Seq(ParentMessages)]
    BY <1>3, EmptySeq DEF EndDrain, JobTypes, JobTypeOK
  <2> QED
    BY <1>3, <2>2, <2>3, <2>4 DEF EndDrain, JobTypes, JobTypeOK, EndedWhenClosed
<1>4. ASSUME NEW at \in Times, RecordExit(g, at)
      PROVE  JobTypes'
  <2>1. PICK fromDocument : todo' = <<EndRow(g, EndStateOf(job[g], fromDocument))>>
    BY <1>4 DEF RecordExit
  <2>2. EndStateOf(job[g], fromDocument) \in EndStates
    <3>1. job[g].ending \in {"RAN", "NOT_RUN", "FAILED", "INTERRUPTED"}
      BY <1>1, <1>4 DEF RecordExit, JobTypes, EndedWhenClosed, JobRecord
    <3> QED
      BY <3>1 DEF EndStateOf, EndStates
  <2>3. todo' \in Errands
    BY <2>1, <2>2 DEF Errands
  <2> QED
    BY <1>4, <2>3 DEF RecordExit, JobTypes, JobTypeOK, EndedWhenClosed, workerVars
<1> QED
  BY <1>2, <1>3, <1>4 DEF ExitSteps

(* A step of a worker replaces its record, takes at most its oldest message *)
(* and may tell the server something.                                       *)
LEMMA WorkerTypes ==
    ASSUME JobTypes, NEW g \in Grants, WorkerStep(g), NEW w \in WorkerRecord,
           NEW inbox \in Seq(WorkerMessages), Becomes(g, w, inbox),
           toParent' \in [Grants -> Seq(ParentMessages)], written' \in [Grants -> Nat],
           document' \in [Grants -> {"NONE", "NOT_SENT", "SENT", "ANSWERED"}]
    PROVE  JobTypes'
<1>1. toWorker' \in [Grants -> Seq(WorkerMessages)]
  BY EmptySeq DEF Becomes, JobTypes, JobTypeOK
<1>2. worker' \in [Grants -> WorkerRecord]
  BY DEF Becomes, JobTypes, JobTypeOK
<1> QED
  BY <1>1, <1>2 DEF WorkerStep, serverVars, JobTypes, JobTypeOK, EndedWhenClosed

(* A worker step that sends nothing keeps the types. *)
LEMMA QuietTypes ==
    ASSUME JobTypes, NEW g \in Grants, NEW w \in WorkerRecord, WorkerBecomes(g, w)
    PROVE  JobTypes'
  BY WorkerTypes DEF WorkerBecomes, JobTypes, JobTypeOK

(* So does one that takes a message. *)
LEMMA TakeTypes ==
    ASSUME JobTypes, NEW g \in Grants, NEW messages, NEW w \in WorkerRecord, TakesMessage(g, messages, w),
           toParent' \in [Grants -> Seq(ParentMessages)]
    PROVE  JobTypes'
<1>1. Tail(toWorker[g]) \in Seq(WorkerMessages)
  BY ChannelTypes DEF TakesMessage, JobTypes
<1> QED
  BY <1>1, WorkerTypes DEF TakesMessage, JobTypes, JobTypeOK

(* So does one that goes to another stage and sends messages. *)
LEMMA GoTypes ==
    ASSUME JobTypes, NEW g \in Grants, NEW from, NEW messages \in Seq(ParentMessages),
           NEW to \in {"WAITING", "PREFLIGHT", "STAGE", "RECHECK", "CLOSED", "EXITING"}, Goes(g, from, to, messages)
    PROVE  JobTypes'
<1> DEFINE w == IF to = "EXITING" THEN Exiting(worker[g]) ELSE [worker[g] EXCEPT !.stage = to]
<1>1. worker[g] \in WorkerRecord
  BY DEF JobTypes, JobTypeOK
<1>2. Exiting(worker[g]) \in WorkerRecord
  BY <1>1, RecordTypes
<1>3. [worker[g] EXCEPT !.stage = to] \in WorkerRecord
  BY <1>1 DEF WorkerRecord
<1>4. w \in WorkerRecord
  BY <1>2, <1>3
<1>5. Becomes(g, w, toWorker[g]) /\ WorkerStep(g) /\ toParent' = Told(g, messages) /\ UNCHANGED <<written, document>>
  BY DEF Goes
<1> HIDE DEF w
<1>6. Told(g, messages) \in [Grants -> Seq(ParentMessages)]
  BY ChannelTypes DEF JobTypes
<1> QED
  BY <1>4, <1>5, <1>6, WorkerTypes DEF JobTypes, JobTypeOK

(* All steps of a worker keep the types, its death included. *)
LEMMA RunTypes == ASSUME JobTypes, NEW g \in Grants, RunSteps(g) \/ TakeSignal(g) \/ WorkerDies(g) PROVE JobTypes'
<1>1. worker[g] \in WorkerRecord /\ toParent \in [Grants -> Seq(ParentMessages)]
  BY DEF JobTypes, JobTypeOK
<1>2. /\ <<>> \in Seq(ParentMessages) /\ <<"READY">> \in Seq(ParentMessages) /\ <<"RUN_STARTED">> \in Seq(ParentMessages)
      /\ <<"RECHECK">> \in Seq(ParentMessages) /\ <<"NOT_SENT", "NOT_RUN">> \in Seq(ParentMessages)
      /\ <<"VIOLATION">> \in Seq(ParentMessages) /\ <<"RAN">> \in Seq(ParentMessages)
  BY DEF ParentMessages
<1>3. ASSUME NEW messages \in Seq(ParentMessages)
      PROVE  Told(g, messages) \in [Grants -> Seq(ParentMessages)]
  BY ChannelTypes DEF JobTypes
<1>4. CASE BecomeReady(g) \/ StartRun(g) \/ SkipRun(g) \/ EnterStage(g) \/ RequestRecheck(g) \/ CloseContext(g)
  BY <1>2, <1>4, GoTypes DEF BecomeReady, StartRun, SkipRun, EnterStage, RequestRecheck, CloseContext
<1>5. CASE TakeStart(g)
  <2>1. [worker[g] EXCEPT !.stage = "RUNNING"] \in WorkerRecord
    BY <1>1 DEF WorkerRecord
  <2> QED
    BY <1>1, <1>5, <2>1, TakeTypes DEF TakeStart
<1>6. CASE TakeStop(g)
  <2>1. Interrupted(worker[g]) \in WorkerRecord
    BY <1>1, RecordTypes
  <2> QED
    BY <1>1, <1>6, <2>1, TakeTypes DEF TakeStop
<1>7. CASE TakeRecheckResult(g)
  <2> DEFINE allowed == Head(toWorker[g]) = "ALLOWED"
  <2>1. AfterResult(worker[g], allowed) \in WorkerRecord
    BY <1>1, RecordTypes
  <2>2. TakesMessage(g, {"ALLOWED", "REFUSED"}, AfterResult(worker[g], allowed)) /\ UNCHANGED toParent
    BY <1>7 DEF TakeRecheckResult
  <2> HIDE DEF allowed
  <2> QED
    BY <1>1, <2>1, <2>2, TakeTypes
<1>8. CASE TakeLateResult(g)
  <2>1. Interrupted([worker[g] EXCEPT !.distrusts = TRUE, !.failed = TRUE]) \in WorkerRecord
    BY <1>1, RecordTypes
  <2>2. toParent' \in [Grants -> Seq(ParentMessages)]
    BY <1>1, <1>2, <1>3, <1>8 DEF TakeLateResult
  <2> QED
    BY <1>8, <2>1, <2>2, TakeTypes DEF TakeLateResult
<1>9. CASE TimeOutRecheck(g)
  BY <1>1, <1>9, RecordTypes, QuietTypes DEF TimeOutRecheck
<1>10. CASE AdmitPost(g)
  <2>1. worker[g].postsLeft - 1 \in 0..1
    BY <1>1, <1>10 DEF AdmitPost, AdmittablePosts, WorkerRecord
  <2>2. Admitted(worker[g]) \in WorkerRecord
    BY <1>1, <2>1 DEF Admitted, WorkerRecord
  <2> QED
    BY <1>10, <2>2, QuietTypes DEF AdmitPost
<1>11. CASE WritePost(g)
  <2>1. [worker[g] EXCEPT !.post = "WRITTEN"] \in WorkerRecord
    BY <1>1 DEF WorkerRecord
  <2>2. written' \in [Grants -> Nat]
    BY <1>11 DEF WritePost, JobTypes, JobTypeOK
  <2> QED
    BY <1>11, <2>1, <2>2, WorkerTypes DEF WritePost, JobTypes, JobTypeOK
<1>12. CASE SettlePost(g)
  <2>1. [worker[g] EXCEPT !.post = "NOT_WRITTEN"] \in WorkerRecord /\ [worker[g] EXCEPT !.post = "ANSWERED"] \in WorkerRecord
    BY <1>1 DEF WorkerRecord
  <2> QED
    BY <1>12, <2>1, QuietTypes DEF SettlePost
<1>13. CASE ReportSubmission(g)
  <2>1. PICK facts \in {"NOT_SENT", "SENT", "ANSWERED"} : Reports(g, facts)
    BY <1>1, <1>13, RecordTypes DEF ReportSubmission
  <2>2. [worker[g] EXCEPT !.stage = "REPORTED", !.facts = facts] \in WorkerRecord
    BY <1>1 DEF WorkerRecord
  <2>3. <<ReportOf(facts)>> \in Seq(ParentMessages)
    BY DEF ReportOf, ParentMessages
  <2> QED
    BY <1>3, <2>1, <2>2, <2>3, WorkerTypes DEF Reports, JobTypes, JobTypeOK
<1>14. CASE FailRun(g)
  <2>1. FailedMessage(worker[g]) \in Seq(ParentMessages)
    <3>1. <<>> \in Seq(ParentMessages)
      BY EmptySeq
    <3>2. <<"FAILED">> \in Seq(ParentMessages)
      BY DEF ParentMessages
    <3> QED
      BY <3>1, <3>2 DEF FailedMessage
  <2>2. <<"NOT_SENT">> \in Seq(ParentMessages) /\ <<"UNKNOWN">> \in Seq(ParentMessages)
    BY DEF ParentMessages
  <2>3. /\ <<"NOT_SENT">> \o FailedMessage(worker[g]) \in Seq(ParentMessages)
        /\ <<"UNKNOWN">> \o FailedMessage(worker[g]) \in Seq(ParentMessages)
    BY <2>1, <2>2, ConcatProperties
  <2> QED
    BY <1>14, <2>1, <2>3, GoTypes DEF FailRun
<1>15. CASE FinishRun(g)
  <2>1. document' \in [Grants -> {"NONE", "NOT_SENT", "SENT", "ANSWERED"}]
    BY <1>1, <1>15 DEF FinishRun, JobTypes, JobTypeOK, WorkerRecord
  <2>2. Exiting(worker[g]) \in WorkerRecord
    BY <1>1, RecordTypes
  <2>3. toParent' \in [Grants -> Seq(ParentMessages)]
    BY <1>1, <1>2, <1>3, <1>15 DEF FinishRun
  <2> QED
    BY <1>15, <2>1, <2>2, <2>3, WorkerTypes DEF FinishRun, JobTypes, JobTypeOK
<1>16. CASE TakeSignal(g)
  <2>1. [worker[g] EXCEPT !.signal = "TAKEN"] \in WorkerRecord
    BY <1>1 DEF WorkerRecord
  <2> QED
    BY <1>16, <2>1, RecordTypes, QuietTypes DEF TakeSignal
<1>17. CASE WorkerDies(g)
  BY <1>17, RecordTypes, QuietTypes DEF WorkerDies
<1> QED
  BY <1>4, <1>5, <1>6, <1>7, <1>8, <1>9, <1>10, <1>11, <1>12, <1>13, <1>14, <1>15, <1>16, <1>17 DEF RunSteps

(* So does the death of the server, which closes every channel. *)
LEMMA CrashTypes == ASSUME JobTypes, Crash PROVE JobTypes'
<1>1. PICK lost \in BOOLEAN : toWorker' = [g \in Grants |->
          IF IsTracked(g) /\ IsAlive(g) THEN (IF lost THEN <<>> ELSE toWorker[g]) \o <<"DISCONNECT">> ELSE toWorker[g]]
  BY DEF Crash
<1>2. <<>> \in Seq(WorkerMessages) /\ <<"DISCONNECT">> \in Seq(WorkerMessages) /\ <<>> \in Seq(ParentMessages)
  BY DEF WorkerMessages
<1>3. ASSUME NEW g \in Grants
      PROVE  (IF lost THEN <<>> ELSE toWorker[g]) \o <<"DISCONNECT">> \in Seq(WorkerMessages)
  BY <1>2, ConcatProperties DEF JobTypes, JobTypeOK
<1>4. toWorker' \in [Grants -> Seq(WorkerMessages)]
  BY <1>1, <1>3 DEF JobTypes, JobTypeOK
<1>5. job' \in [Grants -> JobRecord] /\ EndedWhenClosed'
  BY RecordTypes DEF Crash, EndedWhenClosed, NoJob
<1>6. toParent' \in [Grants -> Seq(ParentMessages)] /\ todo' \in Errands /\ start' \in [Grants -> StartStates]
  BY <1>2 DEF Crash, Errands, StartStates
<1>7. up' = FALSE /\ deaths' = deaths + 1 /\ UNCHANGED <<row, worker, written, document>>
  BY DEF Crash
<1>8. up' \in BOOLEAN
  BY <1>7
<1>9. deaths' \in Nat
  BY <1>7 DEF JobTypes, JobTypeOK
<1> QED
  BY <1>4, <1>5, <1>6, <1>7, <1>8, <1>9 DEF JobTypes, JobTypeOK

(* Every step of the system keeps the types. *)
LEMMA JobTypesStep == JobTypes /\ [JobNext]_allVars => JobTypes'
<1> SUFFICES ASSUME JobTypes, [JobNext]_allVars PROVE JobTypes'
  OBVIOUS
<1>1. CASE UNCHANGED allVars
  BY <1>1 DEF allVars, jobVars, serverVars, workerVars, JobTypes, JobTypeOK, EndedWhenClosed
<1>2. CASE StoreHandlers
  <2>1. CASE ChangeScenario
    BY <2>1 DEF ChangeScenario, jobVars, serverVars, workerVars, JobTypes, JobTypeOK, EndedWhenClosed
  <2>2. ASSUME NEW s \in Scenarios, NEW at \in Times, InvalidateApproval(s, at)
        PROVE  JobTypes'
    BY <2>2, StopTypes DEF InvalidateApproval, UndecidedJobsOf, GrantsOf
  <2>3. ASSUME NEW g \in Grants, NEW s \in Scenarios, NEW seen \in Facts, NEW at \in Times, IssueAndStart(g, s, seen, at)
        PROVE  JobTypes'
    BY <2>3 DEF IssueAndStart, workerVars, StartStates, JobTypes, JobTypeOK, EndedWhenClosed
  <2> QED
    BY <1>2, <2>1, <2>2, <2>3 DEF StoreHandlers
<1>3. CASE Commits
  BY <1>3, CommitTypes
<1>4. CASE StartOtherJob \/ Restart
  <2>1. PICK stale \in SUBSET UnownedJobs : InterruptUnowned(stale, <<>>)
    BY <1>4 DEF StartOtherJob, Restart
  <2>2. <<CloseOrphans>> \o <<>> \in Errands
    BY PairOfErrands DEF Errands
  <2>3. UNCHANGED <<start, deaths>> /\ up' \in BOOLEAN
    BY <1>4 DEF StartOtherJob, Restart, JobTypes, JobTypeOK
  <2> QED
    BY <2>1, <2>2, <2>3, InterruptTypes
<1>5. CASE Crash
  BY <1>5, CrashTypes
<1>6. ASSUME NEW g \in Grants, GrantSteps(g)
      PROVE  JobTypes'
  <2>1. CASE StopJob(g)
    BY <2>1, StopTypes DEF StopJob
  <2> QED
    BY <1>6, <2>1, StartTypes, ReceiveTypes, AnswerTypes, TimeoutTypes, ExitTypes, RunTypes DEF GrantSteps
<1> QED
  BY <1>1, <1>2, <1>3, <1>4, <1>5, <1>6 DEF JobNext

(* The manager's records, the rows, the worker and the channels have the   *)
(* states the code gives them, and a closed job knows how its row ends.    *)
THEOREM JobTypeCorrect == JobSpec => []JobTypeOK
<1>1. JobTypes => JobTypeOK
  BY DEF JobTypes
<1> QED
  BY <1>1, JobTypesInit, JobTypesStep, PTL DEF JobSpec

(* The job manager and the worker use the store of grants only by its      *)
(* transactions: a behaviour of the job is one of WriteGrants.             *)
THEOREM JobImplementsStore == JobSpec => Spec
<1>1. JobInit => Init
  BY DEF JobInit
<1>2. JobTypes /\ [JobNext]_allVars => [Next]_vars
  BY StoreStep DEF JobTypes
<1> QED
  BY <1>1, <1>2, JobTypesInit, JobTypesStep, PTL DEF JobSpec, Spec

(* So also with the manager, the workers and their deaths on top of it      *)
(* there is never more than one unused or running grant.                    *)
THEOREM JobOneWriteAtATime == JobSpec => []OneWriteAtATime
  BY JobImplementsStore, OneWriteAtATimeHolds, PTL

-----------------------------------------------------------------------------
(* Written at most once *)

(* A recorded attempt is never taken back. *)
LEMMA ResultsStay ==
    ASSUME TypeOK, [Next]_vars, NEW g \in Grants, HasResult(g)
    PROVE  HasResult(g)'
<1>1. UNCHANGED result => HasResult(g)'
  BY DEF HasResult
<1>2. ASSUME NEW h \in Grants, NEW at \in Times, RecordWriteAttempt(h, at)
      PROVE  HasResult(g)'
  BY <1>2, TimeAssumption DEF RecordWriteAttempt, HasResult, TypeOK, ResultRow, Null
<1>3. ASSUME NEW h \in Grants, NEW at \in Times, NEW submission \in {"NOT_SENT", "SENT", "UNKNOWN"},
             NEW responded \in BOOLEAN, SettleWriteResult(h, submission, responded, at)
      PROVE  HasResult(g)'
  <2>1. PICK to : result' = [result EXCEPT ![h].state = to, ![h].settledAt = at]
    BY <1>3 DEF SettleWriteResult
  <2>2. result'[g].recordedAt = result[g].recordedAt
    BY <2>1 DEF TypeOK, ResultRow
  <2> QED
    BY <2>2 DEF HasResult
<1>4. ASSUME NEW to, NEW at
      PROVE  ClosedResult(g, to, at).recordedAt # Null
  BY DEF ClosedResult, RecordedAt, HasResult
<1>5. ASSUME NEW h \in Grants, NEW at \in Times, CloseWriteWithoutSending(h, at)
      PROVE  HasResult(g)'
  BY <1>1, <1>4, <1>5 DEF CloseWriteWithoutSending, HasResult, TypeOK
<1>6. ASSUME NEW active \in SUBSET Grants, NEW at \in Times, CloseOrphanedWriteResults(active, at)
      PROVE  HasResult(g)'
  BY <1>4, <1>6 DEF CloseOrphanedWriteResults, HasResult
<1>7. CASE ScenarioStep \/ GrantStep \/ UNCHANGED vars
  <2>1. ScenarioStep => UNCHANGED result
    BY DEF ScenarioStep, CreateScenario, ReviseScenario, ApproveScenario, RevokeScenarioApproval, grantVars
  <2>2. GrantStep => UNCHANGED result
    <3>1. ASSUME NEW h \in Grants, NEW at \in Times, NEW s \in Scenarios, NEW seen \in Facts,
                 IssueExecutionGrant(h, s, seen, at)
          PROVE  UNCHANGED result
      BY <3>1 DEF IssueExecutionGrant
    <3> QED
      BY <3>1 DEF GrantStep, ConsumeExecutionGrant, ConsumeExpiredGrant, SettleWriteReservation
  <2> QED
    BY <1>1, <1>7, <2>1, <2>2 DEF vars
<1> QED
  BY <1>2, <1>3, <1>5, <1>6, <1>7 DEF Next, ResultStep, RecoveryStep

Running(w) == w.stage \notin {"NONE", "EXITING", "GONE"}

(* A grant whose worker can still post, or is about to, has no submission   *)
(* on the wire; a worker is started for a grant without a recorded attempt. *)
OnePost(g) ==
    /\ written[g] \in 0..1
    /\ worker[g].post = "ADMITTED" => written[g] = 0 /\ worker[g].postsLeft = 0
    /\ Running(worker[g]) /\ worker[g].postsLeft > 0 => written[g] = 0
    /\ worker[g].stage = "NONE" => written[g] = 0
    /\ ~HasResult(g) => worker[g].stage = "NONE"

OnePostEach == \A g \in Grants : OnePost(g)

(* Nothing is written or admitted at first. *)
LEMMA OnePostInit == JobInit => OnePostEach
  BY DEF JobInit, OnePostEach, OnePost, Running, NoWorker

(* What happens to a worker between its start and its posts: it admits      *)
(* nothing, gets no submission back, and does not start again.              *)
Subsides(w, next) ==
    /\ next.post = "ADMITTED" => w.post = "ADMITTED" /\ next.postsLeft = w.postsLeft
    /\ Running(next) => Running(w) /\ next.postsLeft = w.postsLeft
    /\ next.stage = "NONE" <=> w.stage = "NONE"

(* The changes a step makes to a worker's record that admit nothing new. *)
LEMMA SubsidingSteps ==
    ASSUME NEW w \in WorkerRecord
    PROVE  /\ Subsides(w, w)
           /\ Subsides(w, Signalled(w))
           /\ w.stage # "NONE" => Subsides(w, Gone) /\ Subsides(w, Exiting(w)) /\ Subsides(w, Interrupted(w))
<1>1. Subsides(w, w)
  BY DEF Subsides
<1>2. Subsides(w, Signalled(w))
  BY <1>1 DEF Subsides, Signalled, Running, WorkerRecord
<1>3. NoWorker \in WorkerRecord /\ NoWorker.post = "NONE"
  BY RecordTypes DEF NoWorker
<1>4. Gone.stage = "GONE" /\ Gone.post = "NONE"
  BY <1>3 DEF Gone, WorkerRecord
<1>5. Exiting(w).stage = "EXITING" /\ Exiting(w).post = "NONE"
  BY <1>3 DEF Exiting, WorkerRecord
<1>6. Subsides(w, [w EXCEPT !.stop = TRUE])
  BY DEF Subsides, Running, WorkerRecord
<1> QED
  BY <1>1, <1>2, <1>4, <1>5, <1>6 DEF Subsides, Running, Interrupted

(* Subsiding workers and untouched wires keep the invariant. *)
LEMMA OnePostKept ==
    ASSUME JobTypes, TypeOK, OnePostEach, [Next]_vars, UNCHANGED written,
           \A g \in Grants : Subsides(worker[g], worker[g]')
    PROVE  OnePostEach'
<1> SUFFICES ASSUME NEW g \in Grants PROVE OnePost(g)'
  BY DEF OnePostEach
<1>1. OnePost(g) /\ Subsides(worker[g], worker[g]') /\ written'[g] = written[g]
  BY DEF OnePostEach
<1>2. HasResult(g) => HasResult(g)'
  BY ResultsStay
<1>3. ~HasResult(g)' => worker[g].stage' = "NONE"
  BY <1>1, <1>2 DEF OnePost, Subsides
<1>4. worker[g].stage' = "NONE" => written[g]' = 0
  BY <1>1 DEF OnePost, Subsides
<1>5. worker[g].post' = "ADMITTED" => written[g]' = 0 /\ worker[g].postsLeft' = 0
  BY <1>1 DEF OnePost, Subsides
<1>6. Running(worker[g])' /\ worker[g].postsLeft' > 0 => written[g]' = 0
  BY <1>1 DEF OnePost, Subsides, Running
<1> QED
  BY <1>1, <1>3, <1>4, <1>5, <1>6 DEF OnePost

(* The manager's steps leave every worker alone or only signal it; a worker *)
(* is started with the record of its attempt.                               *)
LEMMA OnePostLaunch ==
    ASSUME JobTypes, TypeOK, OnePostEach, [Next]_vars, NEW g \in Grants, NEW at \in Times, Launch(g, at)
    PROVE  OnePostEach'
<1> SUFFICES ASSUME NEW h \in Grants PROVE OnePost(h)'
  BY DEF OnePostEach
<1>1. OnePost(h) /\ written'[h] = written[h]
  BY DEF OnePostEach, Launch
<1>2. HasResult(h) => HasResult(h)'
  BY ResultsStay
<1>3. CASE h # g
  <2>1. worker'[h] = worker[h]
    BY <1>3 DEF Launch, JobTypes, JobTypeOK
  <2> QED
    BY <1>1, <1>2, <2>1 DEF OnePost, Running
<1>4. CASE h = g
  <2>1. worker'[g] = Booting /\ Booting.post = "NONE" /\ Booting.stage = "BOOTING"
    BY RecordTypes DEF Launch, JobTypes, JobTypeOK, Booting, NoWorker
  <2>2. written[g] = 0
    BY <1>1, <1>4 DEF Launch, RecordWriteAttempt, OnePost
  <2>3. HasResult(g)'
    BY TimeAssumption DEF Launch, RecordWriteAttempt, HasResult, TypeOK, ResultRow, Null
  <2> QED
    BY <1>1, <1>4, <2>1, <2>2, <2>3 DEF OnePost
<1> QED
  BY <1>3, <1>4

(* A worker admits one submission, and writes what it admitted once. *)
LEMMA OnePostWrite ==
    ASSUME JobTypes, TypeOK, OnePostEach, NEW g \in Grants, AdmitPost(g) \/ WritePost(g)
    PROVE  OnePostEach'
<1> SUFFICES ASSUME NEW h \in Grants PROVE OnePost(h)'
  BY DEF OnePostEach
<1>1. OnePost(h) /\ (HasResult(h)' <=> HasResult(h))
  BY DEF OnePostEach, AdmitPost, WritePost, WorkerBecomes, WorkerStep, HasResult, vars
<1>2. worker \in [Grants -> WorkerRecord] /\ written \in [Grants -> Nat]
  BY DEF JobTypes, JobTypeOK
<1>3. CASE h # g
  <2>1. worker'[h] = worker[h] /\ written'[h] = written[h]
    BY <1>2, <1>3 DEF AdmitPost, WritePost, WorkerBecomes, Becomes
  <2> QED
    BY <1>1, <2>1 DEF OnePost, Running
<1>4. CASE h = g /\ AdmitPost(g)
  <2>1. worker'[g] = Admitted(worker[g]) /\ written'[g] = written[g]
    BY <1>2, <1>4 DEF AdmitPost, WorkerBecomes, Becomes
  <2>2. worker[g].stage = "PRESSED" /\ worker[g].postsLeft = 1
    BY <1>2, <1>4 DEF AdmitPost, AdmittablePosts, WorkerRecord
  <2>3. written[g] = 0
    BY <1>1, <1>4, <2>2 DEF OnePost, Running
  <2>4. Admitted(worker[g]).stage = "PRESSED" /\ Admitted(worker[g]).postsLeft = 0
    BY <1>2, <2>2 DEF Admitted, WorkerRecord
  <2> QED
    BY <1>1, <1>4, <2>1, <2>2, <2>3, <2>4 DEF OnePost
<1>5. CASE h = g /\ WritePost(g)
  <2> DEFINE next == [worker[g] EXCEPT !.post = "WRITTEN"]
  <2>1. worker'[g] = next /\ written'[g] = written[g] + 1
    BY <1>2, <1>5 DEF WritePost, Becomes
  <2>2. written[g] = 0 /\ worker[g].postsLeft = 0 /\ worker[g].stage # "NONE"
    BY <1>1, <1>5 DEF WritePost, WorkerStep, IsAlive, OnePost
  <2>3. next.post = "WRITTEN" /\ next.stage = worker[g].stage /\ next.postsLeft = worker[g].postsLeft
    BY <1>2 DEF WorkerRecord
  <2> HIDE DEF next
  <2> QED
    BY <1>1, <1>5, <2>1, <2>2, <2>3 DEF OnePost
<1> QED
  BY <1>3, <1>4, <1>5

(* One worker changes at most, and it subsides. *)
LEMMA OneSubsides ==
    ASSUME JobTypes, TypeOK, OnePostEach, [Next]_vars, NEW g \in Grants, NEW w,
           worker' = worker \/ worker' = [worker EXCEPT ![g] = w], Subsides(worker[g], w), UNCHANGED written
    PROVE  OnePostEach'
<1>1. \A h \in Grants : worker[h] \in WorkerRecord
  BY DEF JobTypes, JobTypeOK
<1>2. \A h \in Grants : worker'[h] = worker[h] \/ (h = g /\ worker'[h] = w)
  BY DEF JobTypes, JobTypeOK
<1>3. \A h \in Grants : Subsides(worker[h], worker[h]')
  BY <1>1, <1>2, SubsidingSteps
<1> QED
  BY <1>3, OnePostKept

\* A step of the manager forks a worker once, or changes none in a way
\* that admits more.
LEMMA OnePostManager ==
    ASSUME JobTypes, TypeOK, OnePostEach, [Next]_vars, NEW g \in Grants,
           StopJob(g) \/ StartSteps(g) \/ ReceiveSteps(g) \/ AnswerSteps(g) \/ Timeout(g) \/ ExitSteps(g)
    PROVE  OnePostEach'
<1>1. worker[g] \in WorkerRecord
  BY DEF JobTypes, JobTypeOK
<1>2. Subsides(worker[g], Signalled(worker[g]))
  BY <1>1, SubsidingSteps
<1>3. ASSUME NEW at \in Times, Launch(g, at)
      PROVE  OnePostEach'
  BY <1>3, OnePostLaunch
<1>4. CASE StopJob(g) \/ AnswerSteps(g) \/ ExitSteps(g)
  <2>1. UNCHANGED <<worker, written>>
    BY <1>4 DEF StopJob, AnswerSteps, RefuseWrite, AllowWrite, ExitSteps, SeeProcessExit, EndDrain, RecordExit, workerVars
  <2> QED
    BY <1>2, <2>1, OneSubsides
<1>5. CASE ReceiveSteps(g) \/ Timeout(g)
  <2>1. worker' = worker \/ worker' = [worker EXCEPT ![g] = Signalled(worker[g])]
    BY <1>5 DEF ReceiveSteps, ReceiveDecided, ReceiveReady, ReceiveRunStarted, ReceiveRecheckRequest, ReceiveSubmission,
                ReceiveFinished, ReceiveFailed, Timeout, EndAndKill
  <2>2. UNCHANGED written
    BY <1>5 DEF ReceiveSteps, ReceiveDecided, ReceiveReady, ReceiveRunStarted, ReceiveRecheckRequest, ReceiveSubmission,
                ReceiveFinished, ReceiveFailed, Receives, Timeout, EndAndKill
  <2> QED
    BY <1>2, <2>1, <2>2, OneSubsides
<1>6. CASE StartSteps(g) /\ ~\E at \in Times : Launch(g, at)
  <2>1. UNCHANGED <<worker, written>>
    BY <1>6 DEF StartSteps, ReconcileBeforeRow, InterruptUnowned, FailPreparation, GiveUpStart, RejectStart, FailLaunch,
                Consume, workerVars
  <2> QED
    BY <1>2, <2>1, OneSubsides
<1> QED
  BY <1>3, <1>4, <1>5, <1>6

(* A worker spends its one admission, and writes only what it admitted. *)
LEMMA OnePostWorker ==
    ASSUME JobTypes, TypeOK, OnePostEach, [Next]_vars, NEW g \in Grants, RunSteps(g) \/ TakeSignal(g) \/ WorkerDies(g)
    PROVE  OnePostEach'
<1> DEFINE w == worker[g]
<1>1. w \in WorkerRecord
  BY DEF JobTypes, JobTypeOK
<1>2. CASE AdmitPost(g) \/ WritePost(g)
  BY <1>2, OnePostWrite
<1>3. ASSUME NEW next, worker' = [worker EXCEPT ![g] = next], Subsides(w, next), UNCHANGED written
      PROVE  OnePostEach'
  BY <1>3, OneSubsides
<1>4. ASSUME NEW to \in {"WAITING", "PREFLIGHT", "STAGE", "RECHECK", "PRESSED", "CLOSED", "REPORTED", "RUNNING"}, Running(w)
      PROVE  Subsides(w, [w EXCEPT !.stage = to])
  BY <1>1, <1>4 DEF Subsides, Running, WorkerRecord
<1>5. ASSUME NEW from \in SUBSET {"BOOTING", "WAITING", "RUNNING", "PREFLIGHT", "STAGE", "RECHECK", "PRESSED", "CLOSED", "REPORTED"},
             NEW to \in {"WAITING", "PREFLIGHT", "STAGE", "RECHECK", "CLOSED", "EXITING"}, NEW messages, Goes(g, from, to, messages)
      PROVE  OnePostEach'
  <2> DEFINE next == IF to = "EXITING" THEN Exiting(w) ELSE [w EXCEPT !.stage = to]
  <2>1. Running(w) /\ w.stage # "NONE"
    BY <1>5 DEF Goes, Running
  <2>2. Subsides(w, next)
    BY <1>1, <1>4, <2>1, SubsidingSteps
  <2>3. worker' = [worker EXCEPT ![g] = next] /\ UNCHANGED written
    BY <1>5 DEF Goes, Becomes
  <2> HIDE DEF next
  <2> QED
    BY <1>3, <2>2, <2>3
<1>6. CASE BecomeReady(g) \/ StartRun(g) \/ SkipRun(g) \/ EnterStage(g) \/ RequestRecheck(g) \/ CloseContext(g) \/ FailRun(g)
  BY <1>5, <1>6 DEF BecomeReady, StartRun, SkipRun, EnterStage, RequestRecheck, CloseContext, FailRun
<1>7. CASE TakeStart(g)
  <2>1. worker' = [worker EXCEPT ![g] = [w EXCEPT !.stage = "RUNNING"]] /\ UNCHANGED written /\ Running(w)
    BY <1>7 DEF TakeStart, TakesMessage, Becomes, Running
  <2> QED
    BY <1>3, <1>4, <2>1
<1>8. ASSUME TakeStop(g)
      PROVE  OnePostEach'
  <2>1. PICK next \in {w, Interrupted(w)} : worker' = [worker EXCEPT ![g] = next]
    BY <1>8 DEF TakeStop, TakesMessage, Becomes
  <2>2. w.stage # "NONE" /\ UNCHANGED written
    BY <1>8 DEF TakeStop, TakesMessage, WorkerStep, IsAlive
  <2> QED
    BY <1>1, <1>3, <2>1, <2>2, SubsidingSteps
<1>9. CASE TakeRecheckResult(g)
  <2>1. PICK to \in {"PRESSED", "CLOSED"} : worker' = [worker EXCEPT ![g] = [w EXCEPT !.stage = to]]
    BY <1>9 DEF TakeRecheckResult, TakesMessage, Becomes, AfterResult
  <2>2. Running(w) /\ UNCHANGED written
    BY <1>9 DEF TakeRecheckResult, TakesMessage, Running
  <2> QED
    BY <1>3, <1>4, <2>1, <2>2
<1>10. CASE TakeLateResult(g)
  <2> DEFINE astray == [w EXCEPT !.distrusts = TRUE, !.failed = TRUE]
  <2>1. worker' = [worker EXCEPT ![g] = Interrupted(astray)] /\ UNCHANGED written /\ w.stage # "NONE"
    BY <1>10 DEF TakeLateResult, TakesMessage, Becomes, WorkerStep, IsAlive
  <2>2. astray \in WorkerRecord
    BY <1>1, RecordTypes
  <2>3. astray.stage = w.stage /\ astray.post = w.post /\ astray.postsLeft = w.postsLeft
    BY <1>1 DEF WorkerRecord
  <2> HIDE DEF astray
  <2>4. Subsides(astray, Interrupted(astray))
    BY <2>1, <2>2, <2>3, SubsidingSteps
  <2>5. Subsides(w, Interrupted(astray))
    BY <2>3, <2>4 DEF Subsides, Running
  <2> QED
    BY <1>3, <2>1, <2>5
<1>11. CASE TimeOutRecheck(g)
  <2>1. worker' = [worker EXCEPT ![g] = [w EXCEPT !.stage = "CLOSED"]] /\ UNCHANGED written /\ Running(w)
    BY <1>11 DEF TimeOutRecheck, AfterRecheckTimeout, WorkerBecomes, Becomes, Running
  <2> QED
    BY <1>3, <1>4, <2>1
<1>12. CASE SettlePost(g)
  <2>1. PICK post \in {"NOT_WRITTEN", "ANSWERED"} : worker' = [worker EXCEPT ![g] = [w EXCEPT !.post = post]]
    BY <1>12 DEF SettlePost, WorkerBecomes, Becomes
  <2>2. Subsides(w, [w EXCEPT !.post = post])
    BY <1>1 DEF Subsides, Running, WorkerRecord
  <2>3. UNCHANGED written
    BY <1>12 DEF SettlePost, WorkerBecomes
  <2> QED
    BY <1>3, <2>1, <2>2, <2>3
<1>13. CASE ReportSubmission(g)
  <2>1. PICK facts : Reports(g, facts)
    BY <1>13 DEF ReportSubmission
  <2>2. worker' = [worker EXCEPT ![g] = [w EXCEPT !.stage = "REPORTED", !.facts = facts]] /\ UNCHANGED written
    BY <2>1 DEF Reports, Becomes
  <2>3. Running(w)
    BY <1>13 DEF ReportSubmission, Running
  <2>4. Subsides(w, [w EXCEPT !.stage = "REPORTED", !.facts = facts])
    BY <1>1, <2>3 DEF Subsides, Running, WorkerRecord
  <2> QED
    BY <1>3, <2>2, <2>4
<1>14. CASE FinishRun(g) \/ WorkerDies(g)
  <2>1. PICK next \in {Exiting(w), Gone} : worker' = [worker EXCEPT ![g] = next]
    BY <1>14 DEF FinishRun, WorkerDies, WorkerBecomes, Becomes
  <2>2. w.stage # "NONE" /\ UNCHANGED written
    BY <1>14 DEF FinishRun, WorkerDies, WorkerBecomes, WorkerStep, IsAlive
  <2> QED
    BY <1>1, <1>3, <2>1, <2>2, SubsidingSteps
<1>15. CASE TakeSignal(g)
  <2> DEFINE taken == [w EXCEPT !.signal = "TAKEN"]
  <2>1. worker' = [worker EXCEPT ![g] = Interrupted(taken)] /\ UNCHANGED written /\ w.stage # "NONE"
    BY <1>15 DEF TakeSignal, WorkerBecomes, Becomes, WorkerStep, IsAlive
  <2>2. taken \in WorkerRecord /\ taken.stage = w.stage /\ taken.post = w.post /\ taken.postsLeft = w.postsLeft
    BY <1>1 DEF WorkerRecord
  <2> HIDE DEF taken
  <2>3. Subsides(taken, Interrupted(taken))
    BY <2>1, <2>2, SubsidingSteps
  <2>4. Subsides(w, Interrupted(taken))
    BY <2>2, <2>3 DEF Subsides, Running
  <2> QED
    BY <1>3, <2>1, <2>4
<1> QED
  BY <1>2, <1>6, <1>7, <1>8, <1>9, <1>10, <1>11, <1>12, <1>13, <1>14, <1>15 DEF RunSteps

(* No step makes a second submission possible. *)
LEMMA OnePostStep == JobTypes /\ TypeOK /\ OnePostEach /\ [JobNext]_allVars => OnePostEach'
<1> SUFFICES ASSUME JobTypes, TypeOK, OnePostEach, [JobNext]_allVars PROVE OnePostEach'
  OBVIOUS
<1>1. [Next]_vars
  BY StoreStep DEF JobTypes
<1>2. ASSUME UNCHANGED <<worker, written>>
      PROVE  OnePostEach'
  BY <1>1, <1>2, SubsidingSteps, OnePostKept DEF JobTypes, JobTypeOK
<1>3. CASE UNCHANGED allVars \/ StoreHandlers \/ Commits \/ StartOtherJob \/ Crash \/ Restart
  <2>1. UNCHANGED allVars \/ StoreHandlers => UNCHANGED <<worker, written>>
    BY DEF allVars, StoreHandlers, ChangeScenario, InvalidateApproval, IssueAndStart, jobVars, workerVars
  <2>2. Commits \/ StartOtherJob \/ Crash \/ Restart => UNCHANGED <<worker, written>>
    BY DEF Commits, CommitEndRow, CommitCloseOrphans, CommitCreateRow, CommitCloseUnsent, StartOtherJob, Crash, Restart,
           InterruptUnowned, workerVars
  <2> QED
    BY <1>2, <1>3, <2>1, <2>2
<1> QED
  BY <1>1, <1>3, OnePostManager, OnePostWorker DEF JobNext, GrantSteps

(* However the page posts, the messages are late or the processes die: the *)
(* guard writes the submission of an approved grant at most once.           *)
THEOREM WrittenAtMostOnceHolds == JobSpec => []WrittenAtMostOnce
<1>1. OnePostEach => WrittenAtMostOnce
  BY DEF OnePostEach, OnePost, WrittenAtMostOnce
<1>2. JobSpec => []TypeOK
  BY JobImplementsStore, TypeCorrect, PTL
<1> QED
  BY <1>1, <1>2, JobTypesInit, JobTypesStep, OnePostInit, OnePostStep, PTL DEF JobSpec

-----------------------------------------------------------------------------
(* One job of its own *)

Prepares(g) == start[g] \in {"CONSUMING", "RECORDING"}
Owns(g) == IsTracked(g) \/ Prepares(g)
Ends(errands, g) == \/ \E state \in EndStates : errands = <<EndRow(g, state)>>
                    \/ errands = <<CloseUnsent(g), EndRow(g, "FAILED")>>
EndsRow(g) == Ends(todo, g)

(* Why one: the row of an owned job is active for as long as it is owned,   *)
(* and a row is made only when none is active.  The row ends when the       *)
(* preparation was given up or the worker has gone, never in between.       *)
OwnedJobs ==
    /\ OneOwnJob
    /\ \A g \in Grants :
          /\ Owns(g) => row[g] \in ActiveStates
          /\ IsTracked(g) => ~Prepares(g)
          /\ EndsRow(g) => ~Prepares(g)
          /\ job[g].ipc # "OPEN" => IsTracked(g)

(* A step after which nothing new is owned, no owned row has ended and no   *)
(* errand ends the row of a preparation.                                    *)
LEMMA OwnedKept ==
    ASSUME OwnedJobs,
           \A g \in Grants : /\ Owns(g)' => Owns(g) /\ row'[g] \in ActiveStates
                             /\ IsTracked(g)' => ~Prepares(g)'
                             /\ EndsRow(g)' => ~Prepares(g)'
                             /\ job'[g].ipc # "OPEN" => IsTracked(g)'
    PROVE  OwnedJobs'
  BY DEF OwnedJobs, OneOwnJob, Owns, Prepares

(* A step that starts nothing and ends no row: tracked jobs stay tracked.   *)
LEMMA OwnedQuiet ==
    ASSUME OwnedJobs, UNCHANGED <<start, todo>>,
           \A g \in Grants : /\ job'[g] = job[g] \/ (IsTracked(g) /\ IsTracked(g)')
                             /\ row[g] \in ActiveStates => row'[g] \in ActiveStates
    PROVE  OwnedJobs'
<1> SUFFICES ASSUME NEW g \in Grants
             PROVE  /\ Owns(g)' => Owns(g) /\ row'[g] \in ActiveStates
                    /\ IsTracked(g)' => ~Prepares(g)'
                    /\ EndsRow(g)' => ~Prepares(g)'
                    /\ job'[g].ipc # "OPEN" => IsTracked(g)'
  BY OwnedKept
<1>1. Prepares(g)' <=> Prepares(g)
  BY DEF Prepares
<1>2. EndsRow(g)' <=> EndsRow(g)
  BY DEF EndsRow
<1>3. IsTracked(g)' <=> IsTracked(g)
  BY DEF IsTracked
<1> QED
  BY <1>1, <1>2, <1>3 DEF OwnedJobs, Owns

(* There is no job at first. *)
LEMMA OwnedInit == JobInit => OwnedJobs
  BY DEF JobInit, OwnedJobs, OneOwnJob, Owns, Prepares, IsTracked, NoJob, EndsRow

(* Which row a list of errands ends. *)
LEMMA EndsOne ==
    /\ \A g, h : Ends(<<CloseUnsent(h), EndRow(h, "FAILED")>>, g) => g = h
    /\ \A g, h : \A state \in EndStates : Ends(<<EndRow(h, state)>>, g) => g = h
    /\ \A g, h : ~Ends(<<>>, g) /\ ~Ends(<<CloseOrphans>>, g) /\ ~Ends(<<CloseOrphans, CreateRow(h)>>, g)
                                /\ ~Ends(<<CreateRow(h)>>, g)
<1>1. ASSUME NEW g, NEW h
      PROVE  /\ \A s, t : EndRow(g, s) = EndRow(h, t) => g = h
             /\ \A t : EndRow(g, t) # CloseUnsent(h) /\ EndRow(g, t) # CloseOrphans /\ EndRow(g, t) # CreateRow(h)
             /\ CloseUnsent(g) # CloseOrphans
             /\ CloseUnsent(g) = CloseUnsent(h) => g = h
  BY DEF EndRow, CloseUnsent, CloseOrphans, CreateRow
<1>2. ASSUME NEW a, NEW b, NEW c, NEW d
      PROVE  /\ <<a>> = <<b>> => a = b
             /\ <<a, b>> = <<c, d>> => a = c /\ b = d
             /\ <<a>> # <<b, c>> /\ <<a>> # <<>> /\ <<a, b>> # <<>>
  OBVIOUS
<1> QED
  BY <1>1, <1>2 DEF Ends

(* Taking the first errand leaves the row that is to be ended. *)
LEMMA EndsTail ==
    ASSUME todo \in Errands, todo # <<>>, NEW g, Ends(Tail(todo), g)
    PROVE  Ends(todo, g)
<1>1. ASSUME NEW a, NEW b
      PROVE  Tail(<<a>>) = <<>> /\ Tail(<<a, b>>) = <<b>>
  OBVIOUS
<1>2. CASE \E h \in Grants : todo = <<CloseUnsent(h), EndRow(h, "FAILED")>>
  <2>1. PICK h \in Grants : todo = <<CloseUnsent(h), EndRow(h, "FAILED")>>
    BY <1>2
  <2>2. Tail(todo) = <<EndRow(h, "FAILED")>>
    BY <1>1, <2>1, Zenon
  <2>3. g = h
    BY <2>2, EndsOne DEF EndStates
  <2> QED
    BY <2>1, <2>3 DEF Ends
<1>3. CASE \E h \in Grants : todo = <<CloseOrphans, CreateRow(h)>>
  <2>1. PICK h \in Grants : todo = <<CloseOrphans, CreateRow(h)>>
    BY <1>3
  <2>2. Tail(todo) = <<CreateRow(h)>>
    BY <1>1, <2>1, Zenon
  <2> QED
    BY <2>2, EndsOne
<1>4. CASE \E a : todo = <<a>>
  <2>1. Tail(todo) = <<>>
    BY <1>1, <1>4, Zenon
  <2> QED
    BY <2>1, EndsOne
<1> QED
  BY <1>2, <1>3, <1>4 DEF Errands

(* Receiving a message leaves a job the row it has. *)
LEMMA OwnedReceive == ASSUME JobTypes, OwnedJobs, NEW g \in Grants, ReceiveSteps(g) PROVE OwnedJobs'
<1>1. job[g] \in JobRecord /\ job \in [Grants -> JobRecord] /\ row \in [Grants -> {"NONE"} \cup ActiveStates \cup EndStates]
  BY DEF JobTypes, JobTypeOK
<1>2. IsTracked(g) /\ UNCHANGED <<start, todo>>
  BY DEF ReceiveSteps, ReceiveDecided, ReceiveReady, ReceiveRunStarted, ReceiveRecheckRequest, ReceiveSubmission,
         ReceiveFinished, ReceiveFailed, Receives
<1>3. ASSUME NEW j \in JobRecord, j.phase # "NONE", NEW ending
      PROVE  Ended(j, ending).phase # "NONE"
  BY <1>3 DEF Ended, JobRecord
<1>4. job[g].phase # "NONE"
  BY <1>2 DEF IsTracked
<1>5. job' = job \/ \E j : job' = [job EXCEPT ![g] = j] /\ j.phase # "NONE"
  <2>1. CASE ReceiveDecided(g)
    BY <2>1 DEF ReceiveDecided
  <2>2. CASE ReceiveReady(g)
    <3>1. AfterReady(job[g]).phase = "STARTED"
      BY <1>1 DEF AfterReady, JobRecord
    <3> QED
      BY <2>2, <3>1 DEF ReceiveReady
  <2>3. CASE ReceiveRunStarted(g)
    <3>1. [job[g] EXCEPT !.phase = "RUN"].phase = "RUN"
      BY <1>1 DEF JobRecord
    <3>2. job' = [job EXCEPT ![g] = [job[g] EXCEPT !.phase = "RUN"]]
      BY <2>3 DEF ReceiveRunStarted
    <3> QED
      BY <3>1, <3>2
  <2>4. CASE ReceiveRecheckRequest(g)
    <3>1. [job[g] EXCEPT !.recheck = "REQUESTED"].phase # "NONE"
      BY <1>1, <1>4 DEF JobRecord
    <3>2. job' = [job EXCEPT ![g] = [job[g] EXCEPT !.recheck = "REQUESTED"]]
      BY <2>4 DEF ReceiveRecheckRequest
    <3> QED
      BY <3>1, <3>2
  <2>5. CASE ReceiveSubmission(g)
    <3> DEFINE noted == [job[g] EXCEPT !.submission = Head(toParent[g])]
    <3>1. Head(toParent[g]) \in {"NOT_SENT", "SENT", "UNKNOWN"}
      BY <2>5 DEF ReceiveSubmission, Receives
    <3>2. noted \in JobRecord /\ noted.phase # "NONE"
      BY <1>1, <1>4, <3>1 DEF JobRecord
    <3>3. job' = [job EXCEPT ![g] = noted] \/ job' = [job EXCEPT ![g] = Ended(noted, "FAILED")]
      BY <2>5 DEF ReceiveSubmission
    <3> HIDE DEF noted
    <3> QED
      BY <1>3, <3>2, <3>3
  <2>6. CASE ReceiveFinished(g) \/ ReceiveFailed(g)
    BY <1>1, <1>3, <1>4, <2>6 DEF ReceiveFinished, ReceiveFailed
  <2> QED
    BY <2>1, <2>2, <2>3, <2>4, <2>5, <2>6 DEF ReceiveSteps
<1>6. \A h \in Grants : job'[h] = job[h] \/ (IsTracked(h) /\ IsTracked(h)')
  BY <1>1, <1>2, <1>5 DEF IsTracked
<1>7. \A h \in Grants : row[h] \in ActiveStates => row'[h] \in ActiveStates
  <2>1. row' = row \/ row' = [row EXCEPT ![g] = IF @ = "STARTING" THEN "RUNNING" ELSE @]
    BY DEF ReceiveSteps, ReceiveDecided, ReceiveReady, ReceiveRunStarted, ReceiveRecheckRequest, ReceiveSubmission,
           ReceiveFinished, ReceiveFailed
  <2> QED
    BY <1>1, <2>1 DEF ActiveStates
<1> QED
  BY <1>2, <1>6, <1>7, OwnedQuiet

(* So do answers, timers and the end of a worker's channel. *)
LEMMA OwnedManager ==
    ASSUME JobTypes, OwnedJobs, NEW g \in Grants,
           AnswerSteps(g) \/ Timeout(g) \/ SeeProcessExit(g) \/ EndDrain(g)
    PROVE  OwnedJobs'
<1>1. job[g] \in JobRecord /\ job \in [Grants -> JobRecord] /\ row \in [Grants -> {"NONE"} \cup ActiveStates \cup EndStates]
  BY DEF JobTypes, JobTypeOK
<1>2. UNCHANGED <<start, todo>>
  BY DEF AnswerSteps, RefuseWrite, AllowWrite, Timeout, EndAndKill, SeeProcessExit, EndDrain
<1>3. job[g].phase # "NONE"
  BY DEF AnswerSteps, RefuseWrite, AllowWrite, IsRecheckPending, IsUndecided, Timeout, EndAndKill, SeeProcessExit,
         IsTracked, EndDrain, OwnedJobs
<1>4. ASSUME NEW ending
      PROVE  Ended(job[g], ending).phase # "NONE"
  BY <1>1, <1>3 DEF Ended, JobRecord
<1>5. \E j : job' = [job EXCEPT ![g] = j] /\ j.phase # "NONE"
  <2>1. CASE RefuseWrite(g)
    <3>1. [job[g] EXCEPT !.rejected = TRUE, !.stopRequested = TRUE].phase # "NONE"
      BY <1>1, <1>3 DEF JobRecord
    <3>2. job' = [job EXCEPT ![g] = [job[g] EXCEPT !.rejected = TRUE, !.stopRequested = TRUE]]
      BY <2>1 DEF RefuseWrite
    <3> QED
      BY <3>1, <3>2
  <2>2. ASSUME NEW seen \in Facts, NEW now \in Times, AllowWrite(g, seen, now)
        PROVE  \E j : job' = [job EXCEPT ![g] = j] /\ j.phase # "NONE"
    <3>1. [job[g] EXCEPT !.recheck = "ALLOWED"].phase # "NONE"
      BY <1>1, <1>3 DEF JobRecord
    <3>2. job' = [job EXCEPT ![g] = [job[g] EXCEPT !.recheck = "ALLOWED"]]
      BY <2>2 DEF AllowWrite
    <3> QED
      BY <3>1, <3>2
  <2>3. CASE Timeout(g)
    <3>1. PICK ending : job' = [job EXCEPT ![g] = Ended(job[g], ending)]
      BY <2>3 DEF Timeout, EndAndKill
    <3> QED
      BY <1>4, <3>1
  <2>4. CASE SeeProcessExit(g)
    <3>1. [job[g] EXCEPT !.ipc = "DRAINING"].phase # "NONE"
      BY <1>1, <1>3 DEF JobRecord
    <3>2. job' = [job EXCEPT ![g] = [job[g] EXCEPT !.ipc = "DRAINING"]]
      BY <2>4 DEF SeeProcessExit
    <3> QED
      BY <3>1, <3>2
  <2>5. CASE EndDrain(g)
    <3> DEFINE ended == Ended(job[g], "INTERRUPTED")
    <3>1. ended \in JobRecord /\ ended.phase # "NONE"
      BY <1>4, EndedTypes
    <3>2. job' = [job EXCEPT ![g] = [ended EXCEPT !.ipc = "CLOSED"]]
      BY <2>5 DEF EndDrain
    <3> HIDE DEF ended
    <3>3. [ended EXCEPT !.ipc = "CLOSED"].phase # "NONE"
      BY <3>1 DEF JobRecord
    <3> QED
      BY <3>2, <3>3
  <2> QED
    BY <2>1, <2>2, <2>3, <2>4, <2>5 DEF AnswerSteps
<1>6. \A h \in Grants : job'[h] = job[h] \/ (IsTracked(h) /\ IsTracked(h)')
  BY <1>1, <1>3, <1>5 DEF IsTracked
<1>7. \A h \in Grants : row[h] \in ActiveStates => row'[h] \in ActiveStates
  <2>1. row' = row \/ row' = [row EXCEPT ![g] = RowTo(g, "STOPPING")]
    BY DEF AnswerSteps, RefuseWrite, AllowWrite, Timeout, EndAndKill, SeeProcessExit, EndDrain
  <2> QED
    BY <1>1, <2>1 DEF ActiveStates, RowTo
<1> QED
  BY <1>2, <1>6, <1>7, OwnedQuiet

(* Stopping jobs of this manager neither starts nor ends one. *)
LEMMA OwnedStop ==
    ASSUME JobTypes, OwnedJobs, NEW gs \in SUBSET Grants, \A g \in gs : IsUndecided(g), StopRequested(gs),
           UNCHANGED <<start, todo>>
    PROVE  OwnedJobs'
<1>1. ASSUME NEW g \in Grants
      PROVE  job'[g] = job[g] \/ (IsTracked(g) /\ IsTracked(g)')
  <2>1. job[g] \in JobRecord
    BY DEF JobTypes, JobTypeOK
  <2>2. [job[g] EXCEPT !.stopRequested = TRUE].phase = job[g].phase
    BY <2>1 DEF JobRecord
  <2> QED
    BY <2>2 DEF StopRequested, IsUndecided, IsTracked
<1>2. \A g \in Grants : row[g] \in ActiveStates => row'[g] \in ActiveStates
  BY DEF StopRequested, RowTo, ActiveStates
<1> QED
  BY <1>1, <1>2, OwnedQuiet

(* Interrupting the rows of other managers leaves the own ones alone. *)
LEMMA OwnedInterrupt ==
    ASSUME JobTypes, OwnedJobs, NEW stale \in SUBSET UnownedJobs, NEW rest, InterruptUnowned(stale, rest),
           \A g \in Grants : ~Ends(<<CloseOrphans>> \o rest, g), UNCHANGED start
    PROVE  OwnedJobs'
<1> SUFFICES ASSUME NEW g \in Grants
             PROVE  /\ Owns(g)' => Owns(g) /\ row'[g] \in ActiveStates
                    /\ IsTracked(g)' => ~Prepares(g)'
                    /\ EndsRow(g)' => ~Prepares(g)'
                    /\ job'[g].ipc # "OPEN" => IsTracked(g)'
  BY OwnedKept
<1>1. (Prepares(g)' <=> Prepares(g)) /\ (IsTracked(g)' <=> IsTracked(g)) /\ job'[g] = job[g]
  BY DEF InterruptUnowned, Prepares, IsTracked
<1>2. Owns(g) => g \notin UnownedJobs
  BY DEF Owns, UnownedJobs, Prepares
<1>3. Owns(g) => row'[g] = row[g]
  BY <1>2 DEF InterruptUnowned
<1>4. ~EndsRow(g)'
  BY DEF InterruptUnowned, EndsRow
<1> QED
  BY <1>1, <1>3, <1>4 DEF OwnedJobs, Owns

(* A start that is given up is out of preparation before its row ends. *)
LEMMA OwnedGiveUp ==
    ASSUME JobTypes, OwnedJobs, NEW g \in Grants, GiveUpStart(g)
    PROVE  OwnedJobs'
<1> SUFFICES ASSUME NEW h \in Grants
             PROVE  /\ Owns(h)' => Owns(h) /\ row'[h] \in ActiveStates
                    /\ IsTracked(h)' => ~Prepares(h)'
                    /\ EndsRow(h)' => ~Prepares(h)'
                    /\ job'[h].ipc # "OPEN" => IsTracked(h)'
  BY OwnedKept
<1>1. start \in [Grants -> StartStates]
  BY DEF JobTypes, JobTypeOK
<1>2. /\ Prepares(h)' => Prepares(h) /\ h # g
      /\ IsTracked(h)' <=> IsTracked(h)
      /\ job'[h] = job[h] /\ row'[h] = row[h]
  BY <1>1 DEF GiveUpStart, Prepares, IsTracked
<1>3. EndsRow(h)' => h = g
  BY EndsOne DEF GiveUpStart, EndsRow
<1> QED
  BY <1>2, <1>3 DEF OwnedJobs, Owns

(* A start call prepares a job only under the row it has created. *)
LEMMA OwnedStart == ASSUME JobTypes, OwnedJobs, NEW g \in Grants, StartSteps(g) PROVE OwnedJobs'
<1>1. /\ start \in [Grants -> StartStates] /\ job \in [Grants -> JobRecord]
  BY DEF JobTypes, JobTypeOK
<1>2. CASE ReconcileBeforeRow(g)
  <2>1. PICK stale \in SUBSET UnownedJobs : InterruptUnowned(stale, <<CreateRow(g)>>)
    BY <1>2 DEF ReconcileBeforeRow
  <2>2. \A h \in Grants : ~Ends(<<CloseOrphans>> \o <<CreateRow(g)>>, h)
    BY EndsOne, PairOfErrands
  <2> QED
    BY <1>2, <2>1, <2>2, OwnedInterrupt DEF ReconcileBeforeRow
<1>3. ASSUME FailPreparation(g) \/ \E at \in Times : FailLaunch(g, at)
      PROVE  OwnedJobs'
  BY <1>3, OwnedGiveUp DEF FailPreparation, FailLaunch
<1>4. ASSUME NEW h \in Grants, UNCHANGED <<todo, row>>,
             \/ \E at \in Times : RejectStart(g, at) \/ Launch(g, at)
             \/ \E seen \in Facts, at \in Times : Consume(g, seen, at)
      PROVE  /\ Owns(h)' => Owns(h) /\ row'[h] \in ActiveStates
             /\ IsTracked(h)' => ~Prepares(h)'
             /\ EndsRow(h)' => ~Prepares(h)'
             /\ job'[h].ipc # "OPEN" => IsTracked(h)'
  <2>1. todo = <<>>
    BY <1>4 DEF RejectStart, Launch, Consume, Idle
  <2>2. ~EndsRow(h)'
    BY <1>4, <2>1, EndsOne DEF EndsRow
  <2>3. CASE h # g
    <3>1. (Prepares(h)' <=> Prepares(h)) /\ (IsTracked(h)' <=> IsTracked(h)) /\ job'[h] = job[h]
      BY <1>1, <1>4, <2>3 DEF RejectStart, Launch, Consume, Prepares, IsTracked
    <3> QED
      BY <1>4, <2>2, <3>1 DEF OwnedJobs, Owns
  <2>4. CASE h = g /\ \E at \in Times : RejectStart(g, at)
    <3>1. ~Prepares(g)' /\ (IsTracked(g)' <=> IsTracked(g)) /\ job'[g] = job[g]
      BY <1>1, <2>4 DEF RejectStart, Prepares, IsTracked
    <3> QED
      BY <1>4, <2>2, <2>4, <3>1 DEF OwnedJobs, Owns
  <2>5. CASE h = g /\ \E at \in Times : Launch(g, at)
    <3>1. Prepares(g) /\ ~Prepares(g)' /\ job'[g] = Forked
      BY <1>1, <2>5 DEF Launch, Prepares
    <3>2. Forked.ipc = "OPEN"
      BY RecordTypes DEF Forked, NoJob
    <3> QED
      BY <1>4, <2>2, <2>5, <3>1, <3>2 DEF OwnedJobs, Owns
  <2>6. CASE h = g /\ \E seen \in Facts, at \in Times : Consume(g, seen, at)
    <3>1. Prepares(g) /\ (IsTracked(g)' <=> IsTracked(g)) /\ job'[g] = job[g]
      BY <1>1, <2>6 DEF Consume, Prepares, IsTracked
    <3> QED
      BY <1>4, <2>2, <2>6, <3>1 DEF OwnedJobs, Owns
  <2> QED
    BY <1>4, <2>3, <2>4, <2>5, <2>6
<1>5. CASE \/ \E at \in Times : RejectStart(g, at) \/ Launch(g, at)
           \/ \E seen \in Facts, at \in Times : Consume(g, seen, at)
  <2>1. UNCHANGED <<todo, row>>
    BY <1>5 DEF RejectStart, Launch, Consume
  <2> QED
    BY <1>4, <1>5, <2>1, OwnedKept
<1> QED
  BY <1>2, <1>3, <1>5 DEF StartSteps

(* The row of an owned job is made when there is no other active row, and   *)
(* ended when the job is no longer owned.                                   *)
LEMMA OwnedCommit == ASSUME JobTypes, OwnedJobs, Commits PROVE OwnedJobs'
<1>1. /\ start \in [Grants -> StartStates] /\ job \in [Grants -> JobRecord] /\ todo \in Errands
      /\ row \in [Grants -> {"NONE"} \cup ActiveStates \cup EndStates]
  BY DEF JobTypes, JobTypeOK
<1>2. ASSUME NEW op, Proceed(op), NEW g \in Grants, EndsRow(g)'
      PROVE  EndsRow(g)
  BY <1>1, <1>2, EndsTail DEF Proceed, EndsRow
<1>3. ASSUME NEW at \in Times, CommitCloseOrphans(at) \/ CommitCloseUnsent(at)
      PROVE  OwnedJobs'
  <2> SUFFICES ASSUME NEW g \in Grants
               PROVE  /\ Owns(g)' => Owns(g) /\ row'[g] \in ActiveStates
                      /\ IsTracked(g)' => ~Prepares(g)'
                      /\ EndsRow(g)' => ~Prepares(g)'
                      /\ job'[g].ipc # "OPEN" => IsTracked(g)'
    BY OwnedKept
  <2>1. /\ (Prepares(g)' <=> Prepares(g)) /\ (IsTracked(g)' <=> IsTracked(g))
        /\ job'[g] = job[g] /\ row'[g] = row[g]
    BY <1>3 DEF CommitCloseOrphans, CommitCloseUnsent, Prepares, IsTracked
  <2>2. EndsRow(g)' => EndsRow(g)
    BY <1>2, <1>3 DEF CommitCloseOrphans, CommitCloseUnsent
  <2> QED
    BY <2>1, <2>2 DEF OwnedJobs, Owns
<1>4. ASSUME NEW at \in Times, CommitCreateRow(at)
      PROVE  OwnedJobs'
  <2> DEFINE g == todo[1].grant
  <2>1. g \in Grants /\ UNCHANGED job
    BY <1>4, ProceedTypes DEF CommitCreateRow
  <2>2. \A h \in Grants : ~EndsRow(h)'
    <3>1. todo # <<>> /\ todo[1].op = "CREATE_ROW" /\ todo' = Tail(todo)
      BY <1>4 DEF CommitCreateRow, Proceed
    <3>2. \A h \in Grants : ~EndsRow(h)
      BY <3>1 DEF EndsRow, Ends, EndRow, CloseUnsent
    <3> QED
      BY <1>2, <1>4, <3>2 DEF CommitCreateRow
  <2> HIDE DEF g
  <2>3. CASE ActiveJobs = {} /\ row' = [row EXCEPT ![g] = "STARTING"] /\ start' = [start EXCEPT ![g] = "CONSUMING"]
    <3>1. \A h \in Grants : ~Owns(h)
      BY <2>3 DEF ActiveJobs, OwnedJobs
    <3>2. \A h \in Grants : Owns(h)' => h = g
      BY <1>1, <2>1, <2>3, <3>1 DEF Owns, Prepares, IsTracked
    <3>3. \A h \in Grants : ~IsTracked(h)' /\ job'[h].ipc = "OPEN"
      BY <2>1, <3>1 DEF Owns, IsTracked, OwnedJobs
    <3>4. row'[g] \in ActiveStates
      BY <1>1, <2>1, <2>3 DEF ActiveStates
    <3>5. OneOwnJob'
      BY <3>2 DEF OneOwnJob, Owns, Prepares
    <3> QED
      BY <2>2, <3>2, <3>3, <3>4, <3>5 DEF OwnedJobs
  <2>4. CASE start' = [start EXCEPT ![g] = "NONE"] /\ UNCHANGED row
    <3>1. \A h \in Grants : (Prepares(h)' => Prepares(h)) /\ (IsTracked(h)' <=> IsTracked(h))
      BY <1>1, <2>1, <2>4 DEF Prepares, IsTracked
    <3> QED
      BY <2>1, <2>2, <2>4, <3>1, OwnedKept DEF OwnedJobs, Owns
  <2> QED
    BY <1>4, <2>3, <2>4 DEF CommitCreateRow, g
<1>5. CASE CommitEndRow
  <2>0. PICK g \in Grants : g = todo[1].grant
    BY <1>5, ProceedTypes DEF CommitEndRow
  <2>1. row' = [row EXCEPT ![g] = RowTo(g, todo[1].state)] /\ job' = [job EXCEPT ![g] = NoJob] /\ UNCHANGED start
    BY <1>5, <2>0 DEF CommitEndRow
  <2>2. EndsRow(g)
    <3>1. todo # <<>> /\ todo[1].op = "END_ROW"
      BY <1>5 DEF CommitEndRow, Proceed
    <3>2. PICK h \in Grants, state \in EndStates : todo = <<EndRow(h, state)>>
      BY <1>1, <3>1 DEF Errands, CloseOrphans, CreateRow, CloseUnsent
    <3>3. g = h
      BY <2>0, <3>2 DEF EndRow
    <3> QED
      BY <3>2, <3>3 DEF EndsRow, Ends
  <2>3. NoJob.phase = "NONE" /\ NoJob.ipc = "OPEN"
    BY DEF NoJob
  <2> SUFFICES ASSUME NEW h \in Grants
               PROVE  /\ Owns(h)' => Owns(h) /\ row'[h] \in ActiveStates
                      /\ IsTracked(h)' => ~Prepares(h)'
                      /\ EndsRow(h)' => ~Prepares(h)'
                      /\ job'[h].ipc # "OPEN" => IsTracked(h)'
    BY OwnedKept
  <2>4. EndsRow(h)' => EndsRow(h)
    BY <1>2, <1>5 DEF CommitEndRow
  <2>5. Prepares(h)' <=> Prepares(h)
    BY <2>1 DEF Prepares
  <2>6. CASE h = g
    <3>1. ~IsTracked(g)' /\ job'[g].ipc = "OPEN" /\ ~Prepares(g)
      BY <1>1, <2>1, <2>2, <2>3 DEF IsTracked, OwnedJobs
    <3> QED
      BY <2>4, <2>5, <2>6, <3>1 DEF Owns, OwnedJobs
  <2>7. CASE h # g
    <3>1. row'[h] = row[h] /\ job'[h] = job[h] /\ (IsTracked(h)' <=> IsTracked(h))
      BY <1>1, <2>1, <2>7 DEF IsTracked
    <3> QED
      BY <2>4, <2>5, <3>1 DEF Owns, OwnedJobs
  <2> QED
    BY <2>6, <2>7
<1> QED
  BY <1>3, <1>4, <1>5 DEF Commits

(* Every step leaves each job in hand its active row. *)
LEMMA OwnedStep == JobTypes /\ OwnedJobs /\ [JobNext]_allVars => OwnedJobs'
<1> SUFFICES ASSUME JobTypes, OwnedJobs, [JobNext]_allVars PROVE OwnedJobs'
  OBVIOUS
<1>1. ASSUME UNCHANGED serverVars
      PROVE  OwnedJobs'
  BY <1>1, OwnedQuiet DEF serverVars
<1>2. CASE UNCHANGED allVars
  BY <1>1, <1>2 DEF allVars, jobVars
<1>3. CASE StoreHandlers
  <2>1. CASE ChangeScenario
    BY <1>1, <2>1 DEF ChangeScenario, jobVars
  <2>2. ASSUME NEW s \in Scenarios, NEW at \in Times, InvalidateApproval(s, at)
        PROVE  OwnedJobs'
    BY <2>2, OwnedStop DEF InvalidateApproval, UndecidedJobsOf, GrantsOf
  <2>3. ASSUME NEW g \in Grants, NEW s \in Scenarios, NEW seen \in Facts, NEW at \in Times, IssueAndStart(g, s, seen, at)
        PROVE  OwnedJobs'
    <3>1. start \in [Grants -> StartStates]
      BY DEF JobTypes, JobTypeOK
    <3>2. \A h \in Grants : (Prepares(h)' => Prepares(h)) /\ (IsTracked(h)' <=> IsTracked(h)) /\ (EndsRow(h)' <=> EndsRow(h))
      BY <2>3, <3>1 DEF IssueAndStart, Prepares, IsTracked, EndsRow
    <3>3. UNCHANGED <<row, job>>
      BY <2>3 DEF IssueAndStart
    <3> QED
      BY <3>2, <3>3, OwnedKept DEF OwnedJobs, Owns
  <2> QED
    BY <1>3, <2>1, <2>2, <2>3 DEF StoreHandlers
<1>4. CASE Commits
  BY <1>4, OwnedCommit
<1>5. CASE StartOtherJob \/ Restart
  <2>1. PICK stale \in SUBSET UnownedJobs : InterruptUnowned(stale, <<>>)
    BY <1>5 DEF StartOtherJob, Restart
  <2>2. \A g \in Grants : ~Ends(<<CloseOrphans>> \o <<>>, g)
    BY EndsOne, PairOfErrands
  <2>3. UNCHANGED start
    BY <1>5 DEF StartOtherJob, Restart
  <2> QED
    BY <2>1, <2>2, <2>3, OwnedInterrupt
<1>6. CASE Crash
  <2>1. \A g \in Grants : ~Owns(g)' /\ ~IsTracked(g)' /\ job'[g].ipc = "OPEN"
    BY <1>6 DEF Crash, Owns, Prepares, IsTracked, NoJob
  <2>2. \A g \in Grants : ~EndsRow(g)'
    BY <1>6, EndsOne DEF Crash, EndsRow
  <2> QED
    BY <2>1, <2>2, OwnedKept
<1>7. ASSUME NEW g \in Grants, GrantSteps(g)
      PROVE  OwnedJobs'
  <2>1. CASE StopJob(g)
    BY <2>1, OwnedStop DEF StopJob
  <2>2. CASE RunSteps(g) \/ TakeSignal(g) \/ WorkerDies(g)
    <3>1. UNCHANGED serverVars
      BY <2>2 DEF RunSteps, BecomeReady, TakeStart, TakeStop, TakeRecheckResult, TakeLateResult, StartRun, SkipRun,
                  EnterStage, RequestRecheck, TimeOutRecheck, AdmitPost, WritePost, SettlePost, CloseContext,
                  ReportSubmission, Reports, FailRun, FinishRun, TakeSignal, WorkerDies, WorkerBecomes, WorkerStep,
                  TakesMessage, Goes
    <3> QED
      BY <1>1, <3>1
  <2>3. ASSUME NEW at \in Times, RecordExit(g, at)
        PROVE  OwnedJobs'
    <3>1. PICK state \in EndStates : todo' = <<EndRow(g, state)>>
      <4>1. PICK fromDocument : todo' = <<EndRow(g, EndStateOf(job[g], fromDocument))>>
        BY <2>3 DEF RecordExit
      <4>2. job[g].ending \in {"RAN", "NOT_RUN", "FAILED", "INTERRUPTED"}
        BY <2>3 DEF RecordExit, JobTypes, JobTypeOK, EndedWhenClosed, JobRecord
      <4> QED
        BY <4>1, <4>2 DEF EndStateOf, EndStates
    <3>2. IsTracked(g) /\ ~Prepares(g)
      BY <2>3 DEF RecordExit, OwnedJobs
    <3>3. UNCHANGED <<start, row, job>>
      BY <2>3 DEF RecordExit
    <3>4. \A h \in Grants : EndsRow(h)' => h = g
      BY <3>1, EndsOne DEF EndsRow
    <3>5. \A h \in Grants : (Prepares(h)' <=> Prepares(h)) /\ (IsTracked(h)' <=> IsTracked(h))
      BY <3>3 DEF Prepares, IsTracked
    <3> QED
      BY <3>2, <3>3, <3>4, <3>5, OwnedKept DEF OwnedJobs, Owns
  <2> QED
    BY <1>7, <2>1, <2>2, <2>3, OwnedStart, OwnedReceive, OwnedManager DEF GrantSteps, ExitSteps
<1> QED
  BY <1>2, <1>3, <1>4, <1>5, <1>6, <1>7 DEF JobNext

(* A manager never prepares or tracks two write jobs, although a start call *)
(* makes its row several awaits before its worker is there.                 *)
THEOREM OneOwnJobHolds == JobSpec => []OneOwnJob
<1>1. OwnedJobs => OneOwnJob
  BY DEF OwnedJobs
<1> QED
  BY <1>1, JobTypesInit, JobTypesStep, OwnedInit, OwnedStep, PTL DEF JobSpec
=============================================================================
