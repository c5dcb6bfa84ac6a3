----------------------------- MODULE StageChain -----------------------------
(***************************************************************************)
(* A full audit ("stage chain"): one worker process logs in once and works *)
(* through the stages one after the other, and every stage is a job with a *)
(* row of its own (src/control/job/audit-job-manager.ts,                   *)
(* stage-chain-policy.ts, job-store.ts, src/worker/audit-worker-session.ts)*)
(*                                                                         *)
(* As in WriteJob, an action of the server is a handler up to its next     *)
(* await, the transactions a handler commits after its first one wait in   *)
(* "todo", and the two processes talk over two FIFO channels.  Other       *)
(* servers on the same database may take the instance lock over.           *)
(***************************************************************************)
EXTENDS Integers, Sequences, FiniteSets

CONSTANTS
    ChainStages, \* the kinds of the stages, in order (chainStagesOfMode)
    Findings     \* bound: the sets of stop reasons the codes of a Run can give

StageSequences == {<<"AUDIT", "DISCOVERY", "READ_CHECK">>, <<"DISCOVERY", "READ_CHECK">>}

(* CHAIN_STOP_REASONS: the first that applies is the one that is told. *)
StopReasons == <<"USER_STOPPED", "SAFETY_VIOLATION", "SESSION_LOST", "SITE_UNAVAILABLE", "SERVICE_REQUEST_LIMIT_REACHED",
                 "STAGE_FAILED", "PROFILE_REVISION_CHANGED", "NEXT_STAGE_REJECTED">>
Reasons == {StopReasons[i] : i \in DOMAIN StopReasons}

ASSUME ChainAssumption == ChainStages \in StageSequences /\ Findings \subseteq SUBSET Reasons

Stages == DOMAIN ChainStages
LastStage == Len(ChainStages)

VARIABLES
    up,        \* the server process is alive
    closing,   \* shutdownAuditJobs was called
    lock,      \* the instance lock: HELD, TAKEN over, found LOST, workers STOPPED for it
    todo,      \* transactions the running handler still has to commit
    changed,   \* the profile has another revision than the chain
    row,       \* audit_jobs: the row of each stage
    other,     \* audit_jobs: a job of somebody else is active
    recorded,  \* how often the result of each stage was recorded (the discovery index and its like)
    job,       \* TrackedJob, the current stage of the worker
    advance,   \* where #advanceChain waits
    chain,     \* ChainRun, in memory
    toParent, toWorker,  \* IPC messages under way
    worker     \* the worker process

serverVars == <<closing, lock, todo, changed, row, other, recorded, job, advance, chain>>
chainVars == <<up, serverVars, toParent, toWorker, worker>>

ActiveStates == {"STARTING", "RUNNING", "STOPPING"}
ActiveStages == {k \in Stages : row[k] \in ActiveStates}
SlotIsFree == ActiveStages = {} /\ ~other

NoJob == [stage |-> 0, phase |-> "NONE", startSent |-> FALSE, stopRequested |-> FALSE, ending |-> "NONE", ran |-> FALSE,
          findings |-> {}, sessionLost |-> FALSE, result |-> "NONE", rowRecorded |-> FALSE, exitTimer |-> FALSE,
          killTimer |-> FALSE, ipc |-> "OPEN"]
JobOfStage(k, phase) == [NoJob EXCEPT !.stage = k, !.phase = phase]

(* Mutant: the phase of the stage before is kept. *)
PhaseKept(k) == [JobOfStage(k + 1, "RUN") EXCEPT !.startSent = TRUE]

(* The next stage of the same worker, which was started long ago *)
JobOfNextStage(k) == [JobOfStage(k + 1, "STARTED") EXCEPT !.startSent = TRUE]

NoChain == [state |-> "NONE", reason |-> "NONE", stages |-> [k \in Stages |-> "PENDING"], stopRequested |-> FALSE]
FirstStageRuns == [NoChain EXCEPT !.state = "RUNNING", !.stages[1] = "RUNNING"]

NoWorker == [at |-> "NONE", stage |-> 0, aborted |-> FALSE, lostSession |-> FALSE, signalled |-> FALSE]

Message(type) == [type |-> type, stage |-> worker.stage, ran |-> FALSE, findings |-> {}]

ChainInit ==
    /\ up = TRUE
    /\ closing = FALSE
    /\ lock = "HELD"
    /\ todo = <<>>
    /\ changed = FALSE
    /\ row = [k \in Stages |-> "NONE"]
    /\ other = FALSE
    /\ recorded = [k \in Stages |-> 0]
    /\ job = NoJob
    /\ advance = "NONE"
    /\ chain = NoChain
    /\ toParent = <<>>
    /\ toWorker = <<>>
    /\ worker = NoWorker

-----------------------------------------------------------------------------
(* The server: what several handlers do *)

Idle == up /\ todo = <<>>
IsTracked == job.stage # 0
IsUndecided == IsTracked /\ job.phase # "DONE"
IsAlive == worker.at \notin {"NONE", "GONE"}
ExitSeen == job.ipc # "OPEN"

(* #send: only to a worker that is connected and whose exit was not seen *)
Sent(messages) == IF IsAlive /\ worker.at # "EXITING" /\ ~ExitSeen THEN toWorker \o messages ELSE toWorker

(* recordStopping, recordEnded and their like touch active rows only. *)
RowTo(k, state) == [row EXCEPT ![k] = IF @ \in ActiveStates THEN state ELSE @]

(* #settle: the first ending stays; the timers but the one of #awaitExit are cleared. *)
Settled(j, ending) ==
    IF j.ending # "NONE" THEN j ELSE [j EXCEPT !.ending = ending, !.phase = "DONE", !.killTimer = FALSE]

Signalled(w) == IF w.at = "GONE" THEN w ELSE [w EXCEPT !.signalled = TRUE]

(* #requestStop; before READY the STOP waits for the READY. *)
RequestStop(force) ==
    /\ job' = [job EXCEPT !.stopRequested = TRUE, !.killTimer = @ \/ force]
    /\ chain' = [chain EXCEPT !.stopRequested = TRUE]
    /\ row' = RowTo(job.stage, "STOPPING")
    /\ toWorker' = IF job.phase = "FORKED" THEN toWorker ELSE Sent(<<IF force THEN "FORCE" ELSE "STOP">>)

(* #closeChain *)
Closed(c, reason, pending) ==
    IF c.state # "RUNNING" THEN c
    ELSE [c EXCEPT
            !.state = IF reason = "NONE" THEN "FINISHED" ELSE "STOPPED",
            !.reason = reason,
            !.stages = [k \in Stages |-> CASE @[k] = "RUNNING" -> IF reason = "NONE" THEN "DONE" ELSE "STOPPED"
                                           [] @[k] = "PENDING" -> pending
                                           [] OTHER -> @[k]]]

(* #stopChainAt *)
StopChainAt(j, reason) ==
    /\ chain' = Closed(chain, reason, "NOT_STARTED")
    /\ toWorker' = Sent(<<"CHAIN_END">>)
    /\ job' = [j EXCEPT !.exitTimer = TRUE]

(* chainAdvanceDecisionOf: the reasons that apply, and the one that is told *)
FoundReasons(j, valid, stopped, revised) ==
    j.findings
    \cup (IF stopped THEN {"USER_STOPPED"} ELSE {})
    \cup (IF j.sessionLost THEN {"SESSION_LOST"} ELSE {})
    \cup (IF j.ran /\ valid THEN {} ELSE {"STAGE_FAILED"})
    \cup (IF revised THEN {"PROFILE_REVISION_CHANGED"} ELSE {})

FirstReason(found) ==
    LET First(i) == StopReasons[i] \in found /\ \A before \in 1 .. i - 1 : StopReasons[before] \notin found
    IN  IF found = {} THEN "NONE" ELSE StopReasons[CHOOSE i \in DOMAIN StopReasons : First(i)]

UserStopped == job.stopRequested \/ chain.stopRequested

-----------------------------------------------------------------------------
(* The server: the screens and the other servers *)

StartStageChain ==
    /\ Idle
    /\ ~closing
    /\ lock = "HELD"
    /\ chain = NoChain
    /\ ~changed
    /\ SlotIsFree
    /\ row' = [row EXCEPT ![1] = "STARTING"]
    /\ todo' = <<"LAUNCH">>
    /\ UNCHANGED <<up, closing, lock, changed, other, recorded, job, advance, chain, toParent, toWorker, worker>>

Launch ==
    /\ up
    /\ todo = <<"LAUNCH">>
    /\ todo' = <<>>
    /\ chain' = FirstStageRuns
    /\ job' = JobOfStage(1, "FORKED")
    /\ worker' = [NoWorker EXCEPT !.at = "BOOTING"]
    /\ UNCHANGED <<up, closing, lock, changed, row, other, recorded, advance, toParent, toWorker>>

(* A process that could not be started ends the chain with the row.  So     *)
(* much for a fork without a process id: when the worker file is missing or *)
(* fork throws (#failLaunch), the row ends and nothing ends the chain.      *)
FailLaunch ==
    /\ up
    /\ todo = <<"LAUNCH">>
    /\ todo' = <<>>
    /\ chain' \in {FirstStageRuns, Closed(FirstStageRuns, "STAGE_FAILED", "NOT_STARTED")}
    /\ row' = RowTo(1, "FAILED")
    /\ UNCHANGED <<up, closing, lock, changed, other, recorded, job, advance, toParent, toWorker, worker>>

(* stopAuditJob of any stage of the chain *)
StopChain(force) ==
    /\ Idle
    /\ chain.state = "RUNNING"
    /\ ~chain.stopRequested
    /\ IF IsUndecided
       THEN RequestStop(force)
       ELSE /\ chain' = [chain EXCEPT !.stopRequested = TRUE]
            /\ row' = IF IsTracked /\ ~job.rowRecorded THEN RowTo(job.stage, "STOPPING") ELSE row
            /\ UNCHANGED <<job, toWorker>>
    /\ UNCHANGED <<up, closing, lock, todo, changed, other, recorded, advance, toParent, worker>>

(* A job of another kind: of this server, or of the server that took over *)
StartOtherJob ==
    /\ lock = "HELD" => Idle /\ ~closing
    /\ SlotIsFree
    /\ other' = TRUE
    /\ UNCHANGED <<up, closing, lock, todo, changed, row, recorded, job, advance, chain, toParent, toWorker, worker>>

OtherJobEnds ==
    /\ other
    /\ other' = FALSE
    /\ UNCHANGED <<up, closing, lock, todo, changed, row, recorded, job, advance, chain, toParent, toWorker, worker>>

ReviseProfile ==
    /\ ~changed
    /\ changed' = TRUE
    /\ UNCHANGED <<up, closing, lock, todo, row, other, recorded, job, advance, chain, toParent, toWorker, worker>>

(* Another server finds the lock stale and takes it. *)
TakeLockOver ==
    /\ lock = "HELD"
    /\ lock' = "TAKEN"
    /\ UNCHANGED <<up, closing, todo, changed, row, other, recorded, job, advance, chain, toParent, toWorker, worker>>

(* interruptActiveJobs of that server: rows whose worker is gone; a row     *)
(* without a worker yet is fresh.  Heartbeats that fail to be recorded are  *)
(* the subject of JobServers.                                               *)
OtherServerInterrupts ==
    /\ lock # "HELD"
    /\ ~IsAlive
    /\ todo # <<"LAUNCH">>
    /\ ActiveStages # {}
    /\ row' = [k \in Stages |-> IF k \in ActiveStages THEN "INTERRUPTED" ELSE row[k]]
    /\ UNCHANGED <<up, closing, lock, todo, changed, other, recorded, job, advance, chain, toParent, toWorker, worker>>

(* #renewInstanceLock *)
NoticeLockLost ==
    /\ Idle
    /\ lock = "TAKEN"
    /\ lock' = "LOST"
    /\ UNCHANGED <<up, closing, todo, changed, row, other, recorded, job, advance, chain, toParent, toWorker, worker>>

(* #stopWorkersAfterLockLost: jobs that have an ending are left alone. *)
StopWorkersAfterLockLost ==
    /\ Idle
    /\ lock = "LOST"
    /\ lock' = "STOPPED"
    /\ IF ~IsUndecided THEN UNCHANGED <<row, job, chain, toWorker>>
       ELSE /\ job' = [job EXCEPT !.stopRequested = TRUE, !.killTimer = TRUE]
            /\ chain' = [chain EXCEPT !.stopRequested = TRUE]
            /\ row' = RowTo(job.stage, "STOPPING")
            /\ toWorker' = IF job.phase = "FORKED" THEN toWorker ELSE Sent(<<"STOP">>)
    /\ UNCHANGED <<up, closing, todo, changed, other, recorded, advance, toParent, worker>>

Shutdown ==
    /\ Idle
    /\ ~closing
    /\ closing' = TRUE
    /\ IF IsUndecided THEN RequestStop(FALSE) ELSE UNCHANGED <<row, job, chain, toWorker>>
    /\ UNCHANGED <<up, lock, todo, changed, other, recorded, advance, toParent, worker>>

-----------------------------------------------------------------------------
(* The server: messages of the worker (#receive) *)

Receives(types) ==
    /\ Idle
    /\ IsTracked
    /\ toParent # <<>>
    /\ Head(toParent).type \in types
    /\ toParent' = Tail(toParent)
    /\ UNCHANGED <<up, closing, lock, todo, changed, other, recorded>>

ReceiveDecided ==
    /\ job.phase = "DONE"
    /\ Receives({"READY", "RUN_STARTED", "SESSION_LOST", "FINISHED", "FAILED"})
    /\ UNCHANGED <<row, job, advance, chain, toWorker, worker>>

ReceiveReady ==
    /\ job.phase = "FORKED"
    /\ Receives({"READY"})
    /\ job' = [job EXCEPT !.phase = "STARTED", !.startSent = ~job.stopRequested]
    /\ toWorker' = Sent(<<IF job.stopRequested THEN "STOP" ELSE "START">>)
    /\ UNCHANGED <<row, advance, chain, worker>>

ReceiveRunStarted ==
    /\ job.phase = "STARTED"
    /\ Receives({"RUN_STARTED"})
    /\ job' = [job EXCEPT !.phase = "RUN"]
    /\ row' = [row EXCEPT ![job.stage] = IF @ = "STARTING" THEN "RUNNING" ELSE @]
    /\ UNCHANGED <<advance, chain, toWorker, worker>>

ReceiveSessionLost ==
    /\ job.phase = "RUN"
    /\ Receives({"SESSION_LOST"})
    /\ job' = [job EXCEPT !.sessionLost = TRUE]
    /\ UNCHANGED <<row, advance, chain, toWorker, worker>>

IsLast(j) == j.stage = LastStage

(* Between two stages the worker is not waited for: it waits itself. *)
ReceiveFinished ==
    /\ job.phase \in {"STARTED", "RUN"}
    /\ Receives({"FINISHED"})
    /\ (job.phase = "RUN") = Head(toParent).ran
    /\ LET noted == [Settled(job, "FINISHED") EXCEPT !.ran = Head(toParent).ran, !.findings = Head(toParent).findings]
       IN  IF IsLast(job)
           THEN job' = [noted EXCEPT !.exitTimer = TRUE] /\ UNCHANGED advance
           ELSE job' = noted /\ advance' = "READING"
    /\ UNCHANGED <<row, chain, toWorker, worker>>

ReceiveFailed ==
    /\ IsUndecided
    /\ Receives({"FAILED"})
    /\ job' = [Settled(job, "FAILED") EXCEPT !.exitTimer = TRUE]
    /\ UNCHANGED <<row, advance, chain, toWorker, worker>>

(* Mutant: the row ends with the decision, not with the worker. *)
RowEndsAtOnce(ending) == row' = RowTo(job.stage, ending) /\ job' = Settled(job, ending)

EndJob(ending) == UNCHANGED row /\ job' = Settled(job, ending)

(* The timers that end a job and kill its worker: READY overdue, no         *)
(* heartbeat, a forced stop or a lost lock not obeyed, SERVER_SHUTDOWN      *)
GiveUpOnWorker ==
    /\ Idle
    /\ IsUndecided
    /\ \/ ~ExitSeen /\ job.phase = "FORKED" /\ EndJob("FAILED")
       \/ /\ closing \/ ~ExitSeen
          /\ closing \/ job.phase # "FORKED" \/ job.killTimer
          /\ EndJob("INTERRUPTED")
    /\ worker' = Signalled(worker)
    /\ UNCHANGED <<up, closing, lock, todo, changed, other, recorded, advance, chain, toParent, toWorker>>

(* The timer of #awaitExit, and the kill at the end of a shutdown *)
KillDecided ==
    /\ Idle
    /\ IsTracked /\ ~IsUndecided
    /\ job.exitTimer \/ closing
    /\ IsAlive /\ ~worker.signalled
    /\ worker' = Signalled(worker)
    /\ UNCHANGED <<up, serverVars, toParent, toWorker>>

-----------------------------------------------------------------------------
(* The server: from one stage to the next (#advanceChain) *)

(* Only a stage that ran and is no AUDIT has a result to read and record. *)
HasResult == job.ran /\ ChainStages[job.stage] # "AUDIT"
Verdicts == IF HasResult THEN {"VALID", "INVALID"} ELSE {"VALID"}
RecordResult(verdict) ==
    recorded' = IF HasResult /\ verdict = "VALID" THEN [recorded EXCEPT ![job.stage] = @ + 1] ELSE recorded

StillAwaited == IsTracked /\ ~ExitSeen

(* While it waited the worker ended: the exit records what is left. *)
AbandonAdvance ==
    /\ Idle
    /\ advance # "NONE"
    /\ ~StillAwaited
    /\ advance' = "NONE"
    /\ UNCHANGED <<up, closing, lock, todo, changed, row, other, recorded, job, chain, toParent, toWorker, worker>>

(* The database throws once the result is recorded. *)
FailAdvance(verdict) ==
    /\ Idle
    /\ StillAwaited
    /\ advance # "NONE"
    /\ advance' = "NONE"
    /\ IF advance = "READING"
       THEN verdict \in Verdicts /\ RecordResult(verdict)
       ELSE verdict = job.result /\ UNCHANGED recorded
    /\ StopChainAt([job EXCEPT !.result = verdict], "NEXT_STAGE_REJECTED")
    /\ UNCHANGED <<up, closing, lock, todo, changed, row, other, toParent, worker>>

(* #advanceToNextStage: the row of the stage ends first, the next is        *)
(* made in a transaction of its own without another handler in between.     *)
EndStageRow(j) ==
    /\ job' = [j EXCEPT !.rowRecorded = TRUE]
    /\ row' = RowTo(j.stage, IF j.result = "INVALID" THEN "FAILED" ELSE "FINISHED")
    /\ todo' = <<"CREATE_NEXT">>
    /\ UNCHANGED <<chain, toWorker>>

(* decide(), and what follows from it without another await *)
Decide(j) ==
    LET reason == FirstReason(FoundReasons(j, j.result = "VALID", UserStopped, changed))
        refused == IF reason = "NONE" /\ (closing \/ lock \in {"LOST", "STOPPED"}) THEN "NEXT_STAGE_REJECTED" ELSE reason
    IN  IF refused = "NONE" THEN EndStageRow(j)
        ELSE StopChainAt(j, refused) /\ UNCHANGED <<row, todo>>

(* The result was read.  Before READ_CHECK the definitions are looked up;   *)
(* without any the chain is at its end.                                     *)
AdvanceWithResult(verdict) ==
    /\ Idle
    /\ advance = "READING"
    /\ StillAwaited
    /\ verdict \in Verdicts
    /\ RecordResult(verdict)
    /\ LET j == [job EXCEPT !.result = verdict]
           goesOn == FoundReasons(j, verdict = "VALID", UserStopped, changed) = {}
           readCheckNext == job.stage + 1 = LastStage
       IN  \/ /\ goesOn /\ readCheckNext
              /\ advance' = "LOOKING"
              /\ job' = j
              /\ UNCHANGED <<row, todo, chain, toWorker>>
           \/ /\ goesOn /\ readCheckNext
              /\ advance' = "NONE"
              /\ chain' = Closed(chain, "NONE", "NOT_NEEDED")
              /\ toWorker' = Sent(<<"CHAIN_END">>)
              /\ job' = [j EXCEPT !.exitTimer = TRUE]
              /\ UNCHANGED <<row, todo>>
           \/ /\ ~(goesOn /\ readCheckNext)
              /\ advance' = "NONE"
              /\ Decide(j)
    /\ UNCHANGED <<up, closing, lock, changed, other, toParent, worker>>

(* Mutant: what happened during the look-up is not looked at. *)
GoOn(j) == EndStageRow(j)

DecideAgain(j) == Decide(j)

(* #readCheckLaunches came back: everything is judged again. *)
AdvanceWithDefinitions ==
    /\ Idle
    /\ advance = "LOOKING"
    /\ StillAwaited
    /\ advance' = "NONE"
    /\ DecideAgain(job)
    /\ UNCHANGED <<up, closing, lock, changed, other, recorded, toParent, worker>>

CommitCreateNext ==
    /\ up
    /\ todo = <<"CREATE_NEXT">>
    /\ todo' = <<>>
    /\ IF lock # "HELD" \/ changed \/ ~SlotIsFree
       THEN /\ lock' = IF lock = "TAKEN" THEN "LOST" ELSE lock
            /\ StopChainAt(job, IF lock = "HELD" /\ changed THEN "PROFILE_REVISION_CHANGED" ELSE "NEXT_STAGE_REJECTED")
            /\ UNCHANGED row
       ELSE /\ row' = [row EXCEPT ![job.stage + 1] = "STARTING"]
            /\ job' = JobOfNextStage(job.stage)
            /\ chain' = [chain EXCEPT !.stages[job.stage] = "DONE", !.stages[job.stage + 1] = "RUNNING"]
            /\ toWorker' = Sent(<<"NEXT_STAGE">>)
            /\ UNCHANGED lock
    /\ UNCHANGED <<up, closing, changed, other, recorded, advance, toParent, worker>>

-----------------------------------------------------------------------------
(* The server: the worker ended *)

SeeExit ==
    /\ Idle
    /\ IsTracked
    /\ worker.at = "GONE"
    /\ job.ipc = "OPEN"
    /\ job' = [job EXCEPT !.ipc = "DRAINING"]
    /\ UNCHANGED <<up, closing, lock, todo, changed, row, other, recorded, advance, chain, toParent, toWorker, worker>>

(* #drainIpc is over: by the disconnect behind the last message, or by its  *)
(* limit, after which messages are too late.                                *)
DrainEnds ==
    /\ Idle
    /\ job.ipc = "DRAINING"
    /\ job' = [Settled(job, "INTERRUPTED") EXCEPT !.ipc = "CLOSED"]
    /\ UNCHANGED <<up, closing, lock, todo, changed, row, other, recorded, advance, chain, toParent, toWorker, worker>>

(* #recordJobRow *)
EndedRow(j) ==
    IF j.rowRecorded THEN row
    ELSE RowTo(j.stage, IF j.ending = "FINISHED" /\ j.result = "INVALID" THEN "FAILED" ELSE j.ending)

(* Mutant: the last stage is taken as done once it has finished. *)
FinishedIsEnough(j) == IF j.stage # LastStage \/ j.ending # "FINISHED" THEN "STAGE_FAILED" ELSE FirstReason(j.findings)

(* #closeChainAtExit: a revision is of no interest behind the last stage. *)
ReasonAtExit(j) ==
    IF UserStopped THEN "USER_STOPPED"
    ELSE IF j.stage # LastStage \/ j.ending # "FINISHED" THEN "STAGE_FAILED"
    ELSE FirstReason(FoundReasons(j, j.result # "INVALID", FALSE, FALSE))

(* Mutant: only the last stage closes the chain. *)
ClosedByLastStage(j) == IF j.stage = LastStage THEN Closed(chain, ReasonAtExit(j), "NOT_STARTED") ELSE chain

ChainAfter(j) == Closed(chain, ReasonAtExit(j), "NOT_STARTED")

(* Mutant: the exit records every result it reads. *)
IsFinished(j) == j.ending = "FINISHED"

NeedsRecord(j) == j.result = "NONE" /\ j.ending = "FINISHED"

(* The result is read at the exit if no advance has recorded it; then the   *)
(* result is recorded, and the row (#exited).                               *)
Exited(verdict) ==
    /\ Idle
    /\ job.ipc = "CLOSED"
    /\ todo' = <<"END_ROW">>
    /\ IF NeedsRecord(job)
       THEN /\ verdict \in Verdicts
            /\ RecordResult(verdict)
            /\ job' = [job EXCEPT !.result = verdict]
       ELSE /\ verdict = "VALID"
            /\ UNCHANGED <<recorded, job>>
    /\ UNCHANGED <<up, closing, lock, changed, row, other, advance, chain, toParent, toWorker, worker>>

CommitEndRow ==
    /\ up
    /\ todo = <<"END_ROW">>
    /\ todo' = <<>>
    /\ row' = EndedRow(job)
    /\ chain' = ChainAfter(job)
    /\ job' = NoJob
    /\ toParent' = <<>>
    /\ UNCHANGED <<up, closing, lock, changed, other, recorded, advance, toWorker, worker>>

ServerDies ==
    /\ up
    /\ up' = FALSE
    /\ todo' = <<>>
    /\ job' = NoJob
    /\ advance' = "NONE"
    /\ chain' = NoChain
    /\ toParent' = <<>>
    /\ toWorker' = IF IsAlive THEN Append(toWorker, "DISCONNECT") ELSE toWorker
    /\ UNCHANGED <<closing, lock, changed, row, other, recorded, worker>>

-----------------------------------------------------------------------------
(* The worker (audit-worker-session.ts) *)

Works == UNCHANGED <<up, serverVars>>

(* transmit: with the server gone the message is lost. *)
Transmitted(message) == IF up THEN Append(toParent, message) ELSE toParent

WorkerBoots ==
    /\ worker.at = "BOOTING"
    /\ worker' = [worker EXCEPT !.at = "WAITING"]
    /\ toParent' = Transmitted(Message("READY"))
    /\ UNCHANGED toWorker
    /\ Works

(* onRunStarted, within the stage *)
StartRun ==
    /\ worker.at = "STAGE"
    /\ worker' = [worker EXCEPT !.at = "RUN"]
    /\ toParent' = Transmitted(Message("RUN_STARTED"))
    /\ UNCHANGED toWorker
    /\ Works

LoseSession ==
    /\ worker.at = "RUN"
    /\ ~worker.lostSession
    /\ worker' = [worker EXCEPT !.lostSession = TRUE]
    /\ toParent' = Transmitted(Message("SESSION_LOST"))
    /\ UNCHANGED toWorker
    /\ Works

(* FINISHED of a stage; only a worker that was not asked to stop goes on    *)
(* to wait for the next stage (runChain).                                   *)
AfterStage(w) == [w EXCEPT !.at = IF w.stage = LastStage \/ w.aborted THEN "EXITING" ELSE "AWAIT", !.lostSession = FALSE]

FinishStage(found) ==
    /\ worker.at \in {"STAGE", "RUN"}
    /\ worker.at = "STAGE" => found = {}
    /\ toParent' = Transmitted([Message("FINISHED") EXCEPT !.ran = worker.at = "RUN", !.findings = found])
    /\ worker' = AfterStage(worker)
    /\ UNCHANGED toWorker
    /\ Works

(* FAILED: START overdue, an error of the stage, a login state that was     *)
(* not carried over, an uncaught error                                      *)
FailWorker ==
    /\ worker.at \in {"WAITING", "STAGE", "RUN", "AWAIT"}
    /\ toParent' = Transmitted(Message("FAILED"))
    /\ worker' = [worker EXCEPT !.at = "EXITING"]
    /\ UNCHANGED toWorker
    /\ Works

(* interrupt: a second one does not wait for the end of the page. *)
Interrupted(w) ==
    IF w.at \in {"WAITING", "AWAIT"} \/ w.aborted THEN [w EXCEPT !.at = "EXITING"] ELSE [w EXCEPT !.aborted = TRUE]

Reads(messages) ==
    /\ worker.at \in {"WAITING", "STAGE", "RUN", "AWAIT"}
    /\ toWorker # <<>>
    /\ Head(toWorker) \in messages
    /\ toWorker' = Tail(toWorker)
    /\ UNCHANGED toParent
    /\ Works

ReadStart ==
    /\ worker.at = "WAITING"
    /\ Reads({"START"})
    /\ worker' = [worker EXCEPT !.at = "STAGE", !.stage = 1]

ReadStop ==
    /\ Reads({"STOP", "FORCE", "DISCONNECT"})
    /\ worker' = IF Head(toWorker) = "FORCE" THEN [worker EXCEPT !.at = "EXITING"] ELSE Interrupted(worker)

ReadNextStage ==
    /\ worker.at = "AWAIT"
    /\ Reads({"NEXT_STAGE"})
    /\ worker' = [worker EXCEPT !.at = "STAGE", !.stage = @ + 1]

ReadChainEnd ==
    /\ worker.at = "AWAIT"
    /\ Reads({"CHAIN_END"})
    /\ worker' = [worker EXCEPT !.at = "EXITING"]

(* WORKER_NEXT_STAGE_TIMEOUT_MS *)
AwaitTimesOut ==
    /\ worker.at = "AWAIT"
    /\ worker' = [worker EXCEPT !.at = "EXITING"]
    /\ UNCHANGED <<toParent, toWorker>>
    /\ Works

(* On POSIX the signal is one more interrupt; on Windows it ends the        *)
(* process, as it does before a handler is installed.                       *)
TakeSignal ==
    /\ IsAlive /\ worker.signalled
    /\ \/ worker' = [worker EXCEPT !.at = "GONE"]
       \/ /\ worker.at \notin {"BOOTING", "EXITING"}
          /\ worker' = [Interrupted(worker) EXCEPT !.signalled = FALSE]
    /\ UNCHANGED <<toParent, toWorker>>
    /\ Works

(* The process ends: as it was going to, or at any point. *)
WorkerEnds ==
    /\ IsAlive
    /\ worker' = [worker EXCEPT !.at = "GONE"]
    /\ toWorker' = <<>>
    /\ UNCHANGED toParent
    /\ Works

-----------------------------------------------------------------------------
Users ==
    \/ StartStageChain
    \/ \E force \in BOOLEAN : StopChain(force)
    \/ Shutdown
    \/ ReviseProfile

Outside ==
    \/ StartOtherJob
    \/ OtherJobEnds
    \/ TakeLockOver
    \/ OtherServerInterrupts
    \/ ServerDies

Timers ==
    \/ GiveUpOnWorker
    \/ KillDecided

Server ==
    \/ Launch \/ FailLaunch
    \/ NoticeLockLost \/ StopWorkersAfterLockLost
    \/ ReceiveDecided \/ ReceiveReady \/ ReceiveRunStarted \/ ReceiveSessionLost \/ ReceiveFinished \/ ReceiveFailed
    \/ AbandonAdvance \/ AdvanceWithDefinitions \/ CommitCreateNext
    \/ \E verdict \in {"VALID", "INVALID"} : AdvanceWithResult(verdict) \/ FailAdvance(verdict) \/ Exited(verdict)
    \/ SeeExit \/ DrainEnds \/ CommitEndRow

Worker ==
    \/ WorkerBoots
    \/ StartRun \/ LoseSession \/ FailWorker
    \/ \E found \in Findings : FinishStage(found)
    \/ ReadStart \/ ReadStop \/ ReadNextStage \/ ReadChainEnd \/ AwaitTimesOut
    \/ TakeSignal \/ WorkerEnds

ChainNext == Users \/ Outside \/ Timers \/ Server \/ Worker

ChainSpec == ChainInit /\ [][ChainNext]_chainVars

(* A server that lives runs its handlers, and every state of the worker has *)
(* a way out of it: a stage ends, waiting is limited, an exit is flushed    *)
(* within a limit.  Nothing is assumed of the kill timers.                  *)
FairChainSpec == ChainSpec /\ WF_chainVars(Server) /\ WF_chainVars(Worker)

-----------------------------------------------------------------------------
(* Properties *)

ChainTypeOK ==
    /\ up \in BOOLEAN /\ closing \in BOOLEAN /\ changed \in BOOLEAN /\ other \in BOOLEAN
    /\ lock \in {"HELD", "TAKEN", "LOST", "STOPPED"}
    /\ todo \in {<<>>, <<"LAUNCH">>, <<"CREATE_NEXT">>, <<"END_ROW">>}
    /\ row \in [Stages -> {"NONE", "FINISHED", "FAILED", "INTERRUPTED"} \cup ActiveStates]
    /\ recorded \in [Stages -> 0 .. 1]
    /\ job \in [stage : {0} \cup Stages, phase : {"NONE", "FORKED", "STARTED", "RUN", "DONE"}, startSent : BOOLEAN,
                stopRequested : BOOLEAN, ending : {"NONE", "FINISHED", "FAILED", "INTERRUPTED"}, ran : BOOLEAN,
                findings : SUBSET Reasons, sessionLost : BOOLEAN, result : {"NONE", "VALID", "INVALID"},
                rowRecorded : BOOLEAN, exitTimer : BOOLEAN, killTimer : BOOLEAN, ipc : {"OPEN", "DRAINING", "CLOSED"}]
    /\ advance \in {"NONE", "READING", "LOOKING"}
    /\ chain \in [state : {"NONE", "RUNNING", "FINISHED", "STOPPED"}, reason : {"NONE"} \cup Reasons,
                  stages : [Stages -> {"PENDING", "RUNNING", "DONE", "NOT_STARTED", "NOT_NEEDED", "STOPPED"}],
                  stopRequested : BOOLEAN]
    /\ worker \in [at : {"NONE", "BOOTING", "WAITING", "STAGE", "RUN", "AWAIT", "EXITING", "GONE"}, stage : {0} \cup Stages,
                   aborted : BOOLEAN, lostSession : BOOLEAN, signalled : BOOLEAN]
    /\ toParent \in Seq([type : {"READY", "RUN_STARTED", "SESSION_LOST", "FINISHED", "FAILED"}, stage : {0} \cup Stages,
                         ran : BOOLEAN, findings : SUBSET Reasons])
    /\ toWorker \in Seq({"START", "STOP", "FORCE", "NEXT_STAGE", "CHAIN_END", "DISCONNECT"})

(* Whatever the users, the timers and the other servers do: while a worker  *)
(* works, the row of the very stage it works on holds the only slot there   *)
(* is for audits.  The row of a stage ends when its worker waits or is gone.*)
SlotCoversWork ==
    /\ worker.at \in {"STAGE", "RUN"} => row[worker.stage] \in ActiveStates
    /\ worker.at \in {"BOOTING", "WAITING"} => row[1] \in ActiveStates
    /\ worker.at \in {"BOOTING", "WAITING", "STAGE", "RUN"} => Cardinality(ActiveStages) = 1 /\ ~other

(* Once a stop was accepted, for whichever stage, no further stage is       *)
(* begun, though it may come while #advanceChain waits for a file.          *)
NoStageAfterStop ==
    [][chain.stopRequested => \A k \in Stages : row[k] = "NONE" => row'[k] = "NONE"]_chainVars

(* The two sides stay in step: a message that is still to be acted on comes *)
(* in a phase that allows it and speaks of the stage the receiver is in, so *)
(* neither #violate of the manager nor the distrust of the worker strikes a *)
(* partner that keeps to the protocol.                                      *)
MessagesMatchStage ==
    /\ IsUndecided /\ toParent # <<>> =>
          LET message == Head(toParent)
          IN  CASE message.type = "READY" -> job.phase = "FORKED"
                [] message.type = "RUN_STARTED" -> job.phase = "STARTED" /\ message.stage = job.stage
                [] message.type = "SESSION_LOST" -> job.phase = "RUN" /\ message.stage = job.stage
                [] message.type = "FINISHED" -> job.phase = (IF message.ran THEN "RUN" ELSE "STARTED") /\ message.stage = job.stage
                [] OTHER -> TRUE
    /\ worker.at \in {"WAITING", "STAGE", "RUN", "AWAIT"} /\ toWorker # <<>> =>
          CASE Head(toWorker) = "START" -> worker.at = "WAITING"
            [] Head(toWorker) \in {"NEXT_STAGE", "CHAIN_END"} -> worker.at = "AWAIT"
            [] OTHER -> TRUE

(* A chain is shown as finished only if nobody stopped it and every stage   *)
(* that was needed is in the table as FINISHED with a usable result; a      *)
(* stage shown as done is FINISHED or only waits for the worker to exit;    *)
(* and no stage begins before the result it is planned from is recorded.    *)
ChainTellsTruth ==
    lock = "HELD" /\ todo = <<>> =>
        /\ chain.state = "FINISHED" =>
              /\ ~chain.stopRequested
              /\ \A k \in Stages : chain.stages[k] \in {"DONE", "NOT_NEEDED"}
        /\ \A k \in Stages :
              /\ chain.stages[k] = "DONE" =>
                    \/ row[k] = "FINISHED" /\ (ChainStages[k] # "AUDIT" => recorded[k] = 1)
                    \/ job.stage = k /\ job.ending = "FINISHED" /\ job.result = "VALID"
              /\ chain.stages[k] \in {"NOT_NEEDED", "NOT_STARTED"} => row[k] = "NONE"
              /\ k < LastStage /\ row[k + 1] # "NONE" /\ ChainStages[k] # "AUDIT" => recorded[k] = 1

(* A chain whose worker was launched comes to an end, whatever becomes of   *)
(* the worker, the results or the profile.                                  *)
ChainEnds == chain.state = "RUNNING" /\ IsTracked ~> chain.state # "RUNNING"

(* "RUNNING: a stage is being run" (core/stage-chain-states.ts)             *)
RunningMeansAStage == chain.state = "RUNNING" /\ todo = <<>> => ActiveStages # {}
=============================================================================
