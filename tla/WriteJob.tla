------------------------------ MODULE WriteJob ------------------------------
(***************************************************************************)
(* A write job from the screen to the wire: the job manager of the local   *)
(* UI server (src/control/job/audit-job-manager.ts, job-store.ts), the     *)
(* worker process it forks (src/worker/audit-worker-session.ts,            *)
(* write-ipc.ts, write-create-run.ts), the guard in front of the browser   *)
(* (src/safety/passive-request-guard.ts, write-submission-sender.ts), and  *)
(* the approval store of module WriteGrants under them.                    *)
(*                                                                         *)
(* The server is one JavaScript thread: a handler runs up to its next      *)
(* await, so an action is a handler from one await to the next.  A handler *)
(* that commits several transactions makes the first one in its action and *)
(* leaves the others in "todo"; nothing but the next of them, or the death *)
(* of the server, comes before they are done.  Server and worker talk over *)
(* two FIFO channels; the worker is a process of its own and may die at    *)
(* any point.  A job and its grant have one identity.                      *)
(***************************************************************************)
EXTENDS WriteGrants, Sequences

CONSTANTS
    MaxDeaths,       \* bound: how often the server process dies
    StoppableJobs,   \* bound: the jobs a user stops, each once
    ChangedScenarios \* bound: the scenarios a user revokes or revises

ASSUME DeathsAssumption == MaxDeaths \in Nat
ASSUME StopAssumption == StoppableJobs \subseteq Grants /\ ChangedScenarios \subseteq Scenarios

VARIABLES
    up,        \* the server process is alive
    deaths,    \* how often it has died
    todo,      \* transactions the running handler still has to commit
    row,       \* audit_jobs: state of the job row, NONE without one
    start,     \* where the start call of a grant waits
    job,       \* TrackedJob, the manager's memory of a forked worker
    toParent, toWorker,   \* IPC messages under way
    worker,    \* the worker process and the guard inside it
    written,   \* submissions whose bytes were written to the wire
    document   \* action-run.json in the output directory

serverVars == <<up, deaths, todo, row, start, job>>
workerVars == <<toParent, worker, written, document>>
jobVars == <<serverVars, workerVars, toWorker>>
allVars == <<vars, jobVars>>

ActiveStates == {"STARTING", "RUNNING", "STOPPING"}
EndStates == {"FINISHED", "FAILED", "INTERRUPTED"}
ActiveJobs == {g \in Grants : row[g] \in ActiveStates}

(* Where a start call waits: for what it looks up, or in #prepareWrite      *)
StartStates == {"NONE", "RESOLVING", "CONSUMING", "RECORDING"}

JobRecord == [phase : {"NONE", "FORKED", "STARTED", "RUN", "DONE"}, startSent : BOOLEAN, stopRequested : BOOLEAN,
              recheck : {"NO", "REQUESTED", "ALLOWED"}, rejected : BOOLEAN,
              submission : {"NONE", "NOT_SENT", "SENT", "UNKNOWN"},
              ending : {"NONE", "RAN", "NOT_RUN", "FAILED", "INTERRUPTED"}, ipc : {"OPEN", "DRAINING", "CLOSED"}]
WorkerRecord == [stage : {"NONE", "BOOTING", "WAITING", "RUNNING", "PREFLIGHT", "STAGE", "RECHECK", "PRESSED",
                          "CLOSED", "REPORTED", "EXITING", "GONE"},
                 stop : BOOLEAN, signal : {"NO", "SENT", "TAKEN"}, distrusts : BOOLEAN, failed : BOOLEAN,
                 post : {"NONE", "ADMITTED", "WRITTEN", "NOT_WRITTEN", "ANSWERED"}, postsLeft : 0..1,
                 facts : {"NONE", "NOT_SENT", "SENT", "ANSWERED"}]
ParentMessages == {"READY", "RUN_STARTED", "RECHECK", "NOT_SENT", "SENT", "UNKNOWN", "RAN", "NOT_RUN", "FAILED", "VIOLATION"}
WorkerMessages == {"START", "STOP", "ALLOWED", "REFUSED", "DISCONNECT"}

NoJob == [phase |-> "NONE", startSent |-> FALSE, stopRequested |-> FALSE, recheck |-> "NO", rejected |-> FALSE,
          submission |-> "NONE", ending |-> "NONE", ipc |-> "OPEN"]
Forked == [NoJob EXCEPT !.phase = "FORKED"]
NoWorker == [stage |-> "NONE", stop |-> FALSE, signal |-> "NO", distrusts |-> FALSE, failed |-> FALSE,
             post |-> "NONE", postsLeft |-> 1, facts |-> "NONE"]
Booting == [NoWorker EXCEPT !.stage = "BOOTING"]

(* The transactions a handler may still have to commit *)
CloseOrphans == [op |-> "CLOSE_ORPHANS"]
CreateRow(g) == [op |-> "CREATE_ROW", grant |-> g]
CloseUnsent(g) == [op |-> "CLOSE_UNSENT", grant |-> g]
EndRow(g, state) == [op |-> "END_ROW", grant |-> g, state |-> state]

Errands ==
    {<<>>, <<CloseOrphans>>}
    \cup {<<CloseOrphans, CreateRow(g)>> : g \in Grants} \cup {<<CreateRow(g)>> : g \in Grants}
    \cup {<<CloseUnsent(g), EndRow(g, "FAILED")>> : g \in Grants}
    \cup {<<EndRow(g, state)>> : g \in Grants, state \in EndStates}

JobInit ==
    /\ Init
    /\ up = TRUE
    /\ deaths = 0
    /\ todo = <<>>
    /\ row = [g \in Grants |-> "NONE"]
    /\ start = [g \in Grants |-> "NONE"]
    /\ job = [g \in Grants |-> NoJob]
    /\ toParent = [g \in Grants |-> <<>>]
    /\ toWorker = [g \in Grants |-> <<>>]
    /\ worker = [g \in Grants |-> NoWorker]
    /\ written = [g \in Grants |-> 0]
    /\ document = [g \in Grants |-> "NONE"]

-----------------------------------------------------------------------------
(* The server: what several handlers do *)

Idle == up /\ todo = <<>>
IsTracked(g) == job[g].phase # "NONE"
IsUndecided(g) == job[g].phase \notin {"NONE", "DONE"}
IsAlive(g) == worker[g].stage \notin {"NONE", "GONE"}

Proceed(op) == up /\ todo # <<>> /\ todo[1].op = op /\ todo' = Tail(todo)

(* #send: only to a worker that is connected and whose exit was not seen;   *)
(* one that is exiting reads no more.                                       *)
Sent(g, messages) == IF IsAlive(g) /\ worker[g].stage # "EXITING" /\ job[g].ipc = "OPEN" THEN toWorker[g] \o messages ELSE toWorker[g]

(* #settle: the first ending stays. *)
Ended(j, ending) == IF j.ending = "NONE" THEN [j EXCEPT !.ending = ending, !.phase = "DONE"] ELSE j

(* #kill: a termination signal, which the worker counts like a stop *)
Signalled(w) == IF w.stage = "GONE" \/ w.signal # "NO" THEN w ELSE [w EXCEPT !.signal = "SENT"]

(* recordStopping, recordEnded and their like touch active rows only. *)
RowTo(g, state) == IF row[g] \in ActiveStates THEN state ELSE row[g]

(* #requestStop; before READY the STOP waits for the READY *)
StopRequested(gs) ==
    /\ job' = [g \in Grants |-> IF g \in gs THEN [job[g] EXCEPT !.stopRequested = TRUE] ELSE job[g]]
    /\ row' = [g \in Grants |-> IF g \in gs THEN RowTo(g, "STOPPING") ELSE row[g]]
    /\ toWorker' = [g \in Grants |-> IF g \in gs /\ job[g].phase # "FORKED" THEN Sent(g, <<"STOP">>) ELSE toWorker[g]]

-----------------------------------------------------------------------------
(* The server: the screens *)

UndecidedJobsOf(s) == {g \in GrantsOf(s) : IsUndecided(g)}

ChangeScenario ==
    /\ Idle
    /\ \E s \in Scenarios, at \in Times :
          CreateScenario(s, at) \/ \E seen \in Facts : ApproveScenario(s, seen, at)
    /\ UNCHANGED jobVars

(* revokeScenarioFn and the update handlers stop the write jobs of the      *)
(* scenario once the change has committed.                                  *)
InvalidateApproval(s, at) ==
    /\ Idle
    /\ s \in ChangedScenarios
    /\ RevokeScenarioApproval(s, at) \/ ReviseScenario(s, at)
    /\ StopRequested(UndecidedJobsOf(s))
    /\ UNCHANGED <<up, deaths, todo, start, workerVars>>

StopJob(g) ==
    /\ Idle
    /\ g \in StoppableJobs
    /\ IsUndecided(g)
    /\ ~job[g].stopRequested
    /\ StopRequested({g})
    /\ UNCHANGED <<vars, up, deaths, todo, start, workerVars>>

(* startWrite: the grant is issued and the start call made at once. *)
IssueAndStart(g, s, seen, at) ==
    /\ Idle
    /\ IssueExecutionGrant(g, s, seen, at)
    /\ start' = [start EXCEPT ![g] = "RESOLVING"]
    /\ UNCHANGED <<up, deaths, todo, row, job, toWorker, workerVars>>

-----------------------------------------------------------------------------
(* The server: starting a job *)

(* #releaseUnusedGrant *)
ReleaseUnusedGrant(g, at) ==
    IF IsOpen(g) /\ row[g] = "NONE" THEN CloseWriteWithoutSending(g, at) ELSE UNCHANGED vars

(* Any of the checks before the row is made refuses the start. *)
RejectStart(g, at) ==
    /\ Idle
    /\ start[g] = "RESOLVING"
    /\ ReleaseUnusedGrant(g, at)
    /\ start' = [start EXCEPT ![g] = "NONE"]
    /\ UNCHANGED <<up, deaths, todo, row, job, toWorker, workerVars>>

(* Active rows this manager does not track and is not preparing itself; a   *)
(* preparation is assumed to be shorter than unownedWorkerStaleAfterMs.     *)
UnownedJobs == {g \in ActiveJobs : ~IsTracked(g) /\ start[g] = "NONE"}

(* #interruptUnownedJobs: whether a worker of another server is still       *)
(* running is told from its process id and the age of its last heartbeat,   *)
(* so both answers are possible for each of them.                           *)
InterruptUnowned(stale, rest) ==
    /\ row' = [g \in Grants |-> IF g \in stale THEN "INTERRUPTED" ELSE row[g]]
    /\ todo' = <<CloseOrphans>> \o rest
    /\ UNCHANGED <<vars, job, toWorker, workerVars>>

ReconcileBeforeRow(g) ==
    /\ Idle
    /\ start[g] = "RESOLVING"
    /\ \E stale \in SUBSET UnownedJobs : InterruptUnowned(stale, <<CreateRow(g)>>)
    /\ UNCHANGED <<up, deaths, start>>

(* A job of another kind is started. *)
StartOtherJob ==
    /\ Idle
    /\ \E stale \in SUBSET UnownedJobs : InterruptUnowned(stale, <<>>)
    /\ UNCHANGED <<up, deaths, start>>

CommitCloseOrphans(at) ==
    /\ Proceed("CLOSE_ORPHANS")
    /\ IF OrphanedGrants(ActiveJobs) = {} THEN UNCHANGED vars ELSE CloseOrphanedWriteResults(ActiveJobs, at)
    /\ UNCHANGED <<up, deaths, row, start, job, toWorker, workerVars>>

CommitCreateRow(at) ==
    /\ Proceed("CREATE_ROW")
    /\ LET g == todo[1].grant
       IN  \/ /\ ActiveJobs = {}
              /\ row' = [row EXCEPT ![g] = "STARTING"]
              /\ start' = [start EXCEPT ![g] = "CONSUMING"]
              /\ UNCHANGED vars
           \/ /\ ActiveJobs # {}
              /\ ReleaseUnusedGrant(g, at)
              /\ start' = [start EXCEPT ![g] = "NONE"]
              /\ UNCHANGED row
    /\ UNCHANGED <<up, deaths, job, toWorker, workerVars>>

(* #prepareWrite: consume, then generate the data and look up the read      *)
(* check, then record the attempt.                                          *)
Consume(g, seen, at) ==
    /\ Idle
    /\ start[g] = "CONSUMING"
    /\ ConsumeExecutionGrant(g, seen, at)
    /\ start' = [start EXCEPT ![g] = "RECORDING"]
    /\ UNCHANGED <<up, deaths, todo, row, job, toWorker, workerVars>>

(* Mutant: the row ends before the grant is closed. *)
GiveUpStartRowFirst(g) ==
    /\ todo' = <<EndRow(g, "FAILED"), CloseUnsent(g)>>
    /\ start' = [start EXCEPT ![g] = "NONE"]
    /\ UNCHANGED <<up, deaths, row, job, toWorker, workerVars>>

GiveUpStart(g) ==
    /\ todo' = <<CloseUnsent(g), EndRow(g, "FAILED")>>
    /\ start' = [start EXCEPT ![g] = "NONE"]
    /\ UNCHANGED <<up, deaths, row, job, toWorker, workerVars>>

(* Facts unavailable, a refused consumption, no data, an exception *)
FailPreparation(g) ==
    /\ Idle
    /\ start[g] \in {"CONSUMING", "RECORDING"}
    /\ \/ UNCHANGED vars
       \/ start[g] = "CONSUMING" /\ \E at \in Times : ConsumeExpiredGrant(g, at)
    /\ GiveUpStart(g)

Launch(g, at) ==
    /\ Idle
    /\ start[g] = "RECORDING"
    /\ RecordWriteAttempt(g, at)
    /\ start' = [start EXCEPT ![g] = "NONE"]
    /\ job' = [job EXCEPT ![g] = Forked]
    /\ worker' = [worker EXCEPT ![g] = Booting]
    /\ UNCHANGED <<up, deaths, todo, row, toParent, toWorker, written, document>>

FailLaunch(g, at) ==
    /\ Idle
    /\ start[g] = "RECORDING"
    /\ RecordWriteAttempt(g, at)
    /\ GiveUpStart(g)

CommitCloseUnsent(at) ==
    /\ Proceed("CLOSE_UNSENT")
    /\ IF IsClosable(todo[1].grant) THEN CloseWriteWithoutSending(todo[1].grant, at) ELSE UNCHANGED vars
    /\ UNCHANGED <<up, deaths, row, start, job, toWorker, workerVars>>

CommitEndRow ==
    /\ Proceed("END_ROW")
    /\ row' = [row EXCEPT ![todo[1].grant] = RowTo(todo[1].grant, todo[1].state)]
    /\ job' = [job EXCEPT ![todo[1].grant] = NoJob]
    /\ UNCHANGED <<vars, up, deaths, start, toWorker, workerVars>>

-----------------------------------------------------------------------------
(* The server: messages of the worker (#receive) *)

Receives(g, messages) ==
    /\ Idle
    /\ IsTracked(g)
    /\ toParent[g] # <<>>
    /\ Head(toParent[g]) \in messages
    /\ toParent' = [toParent EXCEPT ![g] = Tail(@)]
    /\ UNCHANGED <<vars, up, deaths, todo, start, written, document>>

ReceiveDecided(g) ==
    /\ job[g].phase = "DONE"
    /\ Receives(g, ParentMessages)
    /\ UNCHANGED <<row, job, toWorker, worker>>

AfterReady(j) == [j EXCEPT !.phase = "STARTED", !.startSent = ~j.stopRequested]

ReceiveReady(g) ==
    /\ job[g].phase = "FORKED"
    /\ Receives(g, {"READY"})
    /\ job' = [job EXCEPT ![g] = AfterReady(@)]
    /\ toWorker' = [toWorker EXCEPT ![g] = Sent(g, IF job[g].stopRequested THEN <<"STOP">> ELSE <<"START">>)]
    /\ UNCHANGED <<row, worker>>

ReceiveRunStarted(g) ==
    /\ job[g].phase = "STARTED"
    /\ Receives(g, {"RUN_STARTED"})
    /\ job' = [job EXCEPT ![g].phase = "RUN"]
    /\ row' = [row EXCEPT ![g] = IF @ = "STARTING" THEN "RUNNING" ELSE @]
    /\ UNCHANGED <<toWorker, worker>>

ReceiveRecheckRequest(g) ==
    /\ job[g].phase \in {"STARTED", "RUN"}
    /\ job[g].recheck = "NO"
    /\ Receives(g, {"RECHECK"})
    /\ job' = [job EXCEPT ![g].recheck = "REQUESTED"]
    /\ UNCHANGED <<row, toWorker, worker>>

(* A write that may have been sent although it was never allowed breaks     *)
(* the protocol; the report is kept all the same.                           *)
ReceiveSubmission(g) ==
    /\ job[g].phase \in {"STARTED", "RUN"}
    /\ Receives(g, {"NOT_SENT", "SENT", "UNKNOWN"})
    /\ LET report == Head(toParent[g])
           noted == [job[g] EXCEPT !.submission = report]
       IN  \/ /\ report = "NOT_SENT" \/ job[g].recheck = "ALLOWED"
              /\ job' = [job EXCEPT ![g] = noted]
              /\ UNCHANGED worker
           \/ /\ report # "NOT_SENT" /\ job[g].recheck # "ALLOWED"
              /\ job' = [job EXCEPT ![g] = Ended(noted, "FAILED")]
              /\ worker' = [worker EXCEPT ![g] = Signalled(@)]
    /\ UNCHANGED <<row, toWorker>>

ReceiveFinished(g) ==
    /\ job[g].phase \in {"STARTED", "RUN"}
    /\ Receives(g, {"RAN", "NOT_RUN"})
    /\ job' = [job EXCEPT ![g] = Ended(@, Head(toParent[g]))]
    /\ UNCHANGED <<row, toWorker, worker>>

ReceiveFailed(g) ==
    /\ IsUndecided(g)
    /\ Receives(g, {"FAILED", "VIOLATION"})
    /\ job' = [job EXCEPT ![g] = Ended(@, "FAILED")]
    /\ worker' = IF Head(toParent[g]) = "VIOLATION" THEN [worker EXCEPT ![g] = Signalled(@)] ELSE worker
    /\ UNCHANGED <<row, toWorker>>

(* #recheckWrite once its facts are there; nobody is answered any more when *)
(* the job was decided or refused or its process ended in the meantime.     *)
IsRecheckPending(g) == IsUndecided(g) /\ job[g].ipc = "OPEN" /\ job[g].recheck = "REQUESTED" /\ ~job[g].rejected

AllowWrite(g, seen, now) ==
    /\ Idle
    /\ IsRecheckPending(g)
    /\ IsGrantStillValid(g, seen, now)
    /\ job' = [job EXCEPT ![g].recheck = "ALLOWED"]
    /\ toWorker' = [toWorker EXCEPT ![g] = Sent(g, <<"ALLOWED">>)]
    /\ UNCHANGED <<vars, up, deaths, todo, row, start, workerVars>>

(* #rejectWrite; the facts may also be unavailable. *)
RefuseWrite(g) ==
    /\ Idle
    /\ IsRecheckPending(g)
    /\ job' = [job EXCEPT ![g].rejected = TRUE, ![g].stopRequested = TRUE]
    /\ row' = [row EXCEPT ![g] = RowTo(g, "STOPPING")]
    /\ toWorker' = [toWorker EXCEPT ![g] = Sent(g, <<"REFUSED", "STOP">>)]
    /\ UNCHANGED <<vars, up, deaths, todo, start, workerVars>>

-----------------------------------------------------------------------------
(* The server: timers, the end of the process, its own death *)

EndAndKill(g, ending) ==
    /\ Idle
    /\ IsTracked(g)
    /\ job[g].ipc = "OPEN"
    /\ IsAlive(g)
    /\ worker[g].signal = "NO"
    /\ job' = [job EXCEPT ![g] = Ended(@, ending)]
    /\ worker' = [worker EXCEPT ![g] = Signalled(@)]
    /\ UNCHANGED <<vars, up, deaths, todo, row, start, toParent, toWorker, written, document>>

(* readyTimer; #checkHeartbeats; the forced stop and the shutdown of the    *)
(* server; exitTimer                                                        *)
Timeout(g) ==
    \/ job[g].phase = "FORKED" /\ EndAndKill(g, "FAILED")
    \/ job[g].phase \in {"STARTED", "RUN"} /\ EndAndKill(g, "INTERRUPTED")
    \/ job[g].stopRequested /\ IsUndecided(g) /\ EndAndKill(g, "INTERRUPTED")
    \/ job[g].phase = "DONE" /\ EndAndKill(g, job[g].ending)

SeeProcessExit(g) ==
    /\ Idle
    /\ IsTracked(g)
    /\ worker[g].stage = "GONE"
    /\ job[g].ipc = "OPEN"
    /\ job' = [job EXCEPT ![g].ipc = "DRAINING"]
    /\ UNCHANGED <<vars, up, deaths, todo, row, start, toWorker, workerVars>>

(* #drainIpc: the last messages may come after the exit; the wait ends when *)
(* the channel closes behind them, or after ipcDrainWaitMs without them.    *)
EndDrain(g) ==
    /\ Idle
    /\ job[g].ipc = "DRAINING"
    /\ job' = [job EXCEPT ![g] = [Ended(@, "INTERRUPTED") EXCEPT !.ipc = "CLOSED"]]
    /\ toParent' = [toParent EXCEPT ![g] = <<>>]
    /\ UNCHANGED <<vars, up, deaths, todo, row, start, toWorker, worker, written, document>>

ReportOf(doc) == IF doc = "NOT_SENT" THEN "NOT_SENT" ELSE "SENT"

(* #readWriteResult: the document is used when it is readable and says what *)
(* the worker reported.                                                     *)
IsDocumentUsable(g, at) ==
    /\ job[g].ending = "RAN"
    /\ document[g] # "NONE"
    /\ job[g].submission \in {"NONE", ReportOf(document[g])}
    /\ IsSettleable(g) /\ at >= result[g].recordedAt

(* Mutant: without a report nothing is taken to have been sent. *)
SilentFallback(g) == IF job[g].submission \in {"NONE", "NOT_SENT"} THEN "NOT_SENT" ELSE "UNKNOWN"

FallbackReport(g) == IF job[g].submission = "NOT_SENT" THEN "NOT_SENT" ELSE "UNKNOWN"

(* A settlement that the store refuses or throws out is only logged. *)
SettleOrLog(g, submission, responseReceived, at) ==
    IF IsSettleable(g) /\ at >= result[g].recordedAt
    THEN SettleWriteResult(g, submission, responseReceived, at) ELSE UNCHANGED vars

(* Mutant: without a usable document nothing is settled. *)
SettleFromDocument(g, fromDocument, at) ==
    IF fromDocument THEN SettleOrLog(g, ReportOf(document[g]), document[g] = "ANSWERED", at) ELSE UNCHANGED vars

(* #settleWrite *)
SettleWrite(g, fromDocument, at) ==
    \/ /\ ~job[g].startSent
       /\ IF IsClosable(g) THEN CloseWriteWithoutSending(g, at) ELSE UNCHANGED vars
    \/ job[g].startSent /\ fromDocument /\ SettleOrLog(g, ReportOf(document[g]), document[g] = "ANSWERED", at)
    \/ job[g].startSent /\ ~fromDocument /\ SettleOrLog(g, FallbackReport(g), FALSE, at)

(* Mutant: the outcome of a run is stored as the state of the row. *)
EndStateAsOutcome(j, fromDocument) == IF j.rejected THEN "FAILED" ELSE j.ending

EndStateOf(j, fromDocument) ==
    CASE j.rejected \/ (j.ending = "RAN" /\ ~fromDocument) -> "FAILED"
      [] j.ending \in {"RAN", "NOT_RUN"}                   -> "FINISHED"
      [] OTHER                                             -> j.ending

(* #exited and #recordExitedJob: first the write, then the row *)
RecordExit(g, at) ==
    /\ Idle
    /\ job[g].ipc = "CLOSED"
    /\ \E fromDocument \in {FALSE, IsDocumentUsable(g, at)} :
          /\ SettleWrite(g, fromDocument, at)
          /\ todo' = <<EndRow(g, EndStateOf(job[g], fromDocument))>>
    /\ UNCHANGED <<up, deaths, row, start, job, toWorker, workerVars>>

(* Messages not yet written to the pipe die with the server; its worker     *)
(* gets the rest and then the disconnection.                                *)
Crash ==
    /\ up
    /\ deaths < MaxDeaths
    /\ deaths' = deaths + 1
    /\ up' = FALSE
    /\ todo' = <<>>
    /\ start' = [g \in Grants |-> "NONE"]
    /\ job' = [g \in Grants |-> NoJob]
    /\ toParent' = [g \in Grants |-> <<>>]
    /\ \E lost \in BOOLEAN : toWorker' = [g \in Grants |->
          IF IsTracked(g) /\ IsAlive(g) THEN (IF lost THEN <<>> ELSE toWorker[g]) \o <<"DISCONNECT">> ELSE toWorker[g]]
    /\ UNCHANGED <<vars, row, worker, written, document>>

(* recoverInterruptedJobs *)
Restart ==
    /\ ~up
    /\ up' = TRUE
    /\ \E stale \in SUBSET UnownedJobs : InterruptUnowned(stale, <<>>)
    /\ UNCHANGED <<deaths, start>>

-----------------------------------------------------------------------------
(* The worker: its session *)

(* What a worker tells a dead server is lost. *)
Told(g, messages) == IF IsTracked(g) THEN [toParent EXCEPT ![g] = @ \o messages] ELSE toParent

Gone == [NoWorker EXCEPT !.stage = "GONE"]
Exiting(w) == [NoWorker EXCEPT !.stage = "EXITING", !.signal = w.signal]

(* interrupt: before START and at the second request the process ends; the  *)
(* first one in between sets the stop signal of the run.  A worker that is  *)
(* exiting with its last messages flushed hears nothing.                    *)
Interrupted(w) ==
    CASE w.stage = "EXITING"                       -> w
      [] w.stage \in {"BOOTING", "WAITING"} \/ w.stop -> Gone
      [] OTHER                                     -> [w EXCEPT !.stop = TRUE]

WorkerStep(g) == IsAlive(g) /\ UNCHANGED <<vars, serverVars>>

(* A worker whose run is over has no state and no messages left to read. *)
Becomes(g, w, inbox) ==
    /\ worker' = [worker EXCEPT ![g] = w]
    /\ toWorker' = [toWorker EXCEPT ![g] = IF w.stage \in {"EXITING", "GONE"} THEN <<>> ELSE inbox]

(* A step that reads no message and tells nothing about the wire *)
WorkerBecomes(g, w) == WorkerStep(g) /\ Becomes(g, w, toWorker[g]) /\ UNCHANGED <<toParent, written, document>>

TakesMessage(g, messages, w) ==
    /\ WorkerStep(g)
    /\ toWorker[g] # <<>>
    /\ Head(toWorker[g]) \in messages
    /\ Becomes(g, w, Tail(toWorker[g]))
    /\ UNCHANGED <<written, document>>

Goes(g, from, to, messages) ==
    /\ WorkerStep(g)
    /\ worker[g].stage \in from
    /\ Becomes(g, IF to = "EXITING" THEN Exiting(worker[g]) ELSE [worker[g] EXCEPT !.stage = to], toWorker[g])
    /\ toParent' = Told(g, messages)
    /\ UNCHANGED <<written, document>>

BecomeReady(g) == Goes(g, {"BOOTING"}, "WAITING", <<"READY">>)

TakeSignal(g) ==
    /\ worker[g].signal = "SENT"
    /\ WorkerBecomes(g, Interrupted([worker[g] EXCEPT !.signal = "TAKEN"]))

(* After a message it did not expect the worker hears nothing but the       *)
(* disconnection of its parent.                                             *)
TakeStop(g) ==
    /\ TakesMessage(g, {"STOP", "DISCONNECT"},
          IF worker[g].distrusts /\ Head(toWorker[g]) = "STOP" THEN worker[g] ELSE Interrupted(worker[g]))
    /\ UNCHANGED toParent

TakeStart(g) ==
    /\ worker[g].stage = "WAITING"
    /\ TakesMessage(g, {"START"}, [worker[g] EXCEPT !.stage = "RUNNING"])
    /\ UNCHANGED toParent

(* The process exits, crashes, or is ended by force. *)
WorkerDies(g) == WorkerBecomes(g, Gone)

-----------------------------------------------------------------------------
(* The worker: the run of the write *)

StartRun(g) == Goes(g, {"RUNNING"}, "PREFLIGHT", <<"RUN_STARTED">>)

(* The output directory is in use by another run. *)
SkipRun(g) == Goes(g, {"RUNNING"}, "EXITING", <<"NOT_SENT", "NOT_RUN">>)

(* The stop signal was looked at before the page checks; it may be set by   *)
(* the time the guarded context opens.                                      *)
EnterStage(g) == Goes(g, {"PREFLIGHT"}, "STAGE", <<>>)

RequestRecheck(g) == ~worker[g].stop /\ Goes(g, {"STAGE"}, "RECHECK", <<"RECHECK">>)

(* Mutant: the stop signal is not looked at again after the answer. *)
AfterResultUnstopped(w, allowed) == [w EXCEPT !.stage = IF allowed THEN "PRESSED" ELSE "CLOSED"]

(* readyToPress: the stop signal is looked at once more after the answer.   *)
AfterResult(w, allowed) == [w EXCEPT !.stage = IF allowed /\ ~w.stop THEN "PRESSED" ELSE "CLOSED"]

TakeRecheckResult(g) ==
    /\ worker[g].stage = "RECHECK"
    /\ ~worker[g].distrusts
    /\ TakesMessage(g, {"ALLOWED", "REFUSED"}, AfterResult(worker[g], Head(toWorker[g]) = "ALLOWED"))
    /\ UNCHANGED toParent

(* No request waits for it any more: the parent is not trusted again. *)
TakeLateResult(g) ==
    /\ worker[g].stage # "RECHECK"
    /\ TakesMessage(g, {"ALLOWED", "REFUSED"}, Interrupted([worker[g] EXCEPT !.distrusts = TRUE, !.failed = TRUE]))
    /\ toParent' = IF worker[g].failed THEN toParent ELSE Told(g, <<"VIOLATION">>)

AfterRecheckTimeout(w) == [w EXCEPT !.stage = "CLOSED"]

TimeOutRecheck(g) == worker[g].stage = "RECHECK" /\ WorkerBecomes(g, AfterRecheckTimeout(worker[g]))

(* A check that stops the write, or the judgement of its result: the        *)
(* context closes, and from then on the guard lets nothing pass.            *)
CloseContext(g) == Goes(g, {"STAGE", "PRESSED"}, "CLOSED", <<>>)

(* Mutants: the phase is not looked at; the submission is not counted. *)
PostsLeftInAnyPhase(w) == w.postsLeft
AdmittedUncounted(w) == [w EXCEPT !.post = "ADMITTED"]

(* SubmissionPostAdmission: nothing before the submission phase is open *)
AdmittablePosts(w) == IF w.stage = "PRESSED" THEN w.postsLeft ELSE 0
Admitted(w) == [w EXCEPT !.post = "ADMITTED", !.postsLeft = @ - 1]

(* The page posts: by the button, or by its own scripts at any time. *)
AdmitPost(g) ==
    /\ worker[g].stage \in {"STAGE", "RECHECK", "PRESSED"}
    /\ AdmittablePosts(worker[g]) > 0
    /\ WorkerBecomes(g, Admitted(worker[g]))

(* sendWriteSubmissionOnce *)
WritePost(g) ==
    /\ WorkerStep(g)
    /\ worker[g].post = "ADMITTED"
    /\ Becomes(g, [worker[g] EXCEPT !.post = "WRITTEN"], toWorker[g])
    /\ written' = [written EXCEPT ![g] = @ + 1]
    /\ UNCHANGED <<toParent, document>>

SettlePost(g) ==
    \/ worker[g].post = "ADMITTED" /\ WorkerBecomes(g, [worker[g] EXCEPT !.post = "NOT_WRITTEN"])
    \/ worker[g].post = "WRITTEN" /\ WorkerBecomes(g, [worker[g] EXCEPT !.post = "ANSWERED"])

(* monitor.submissionReport, read once the context is closed *)
FactsOf(w) ==
    CASE w.post \in {"NONE", "NOT_WRITTEN"}  -> "NOT_SENT"
      [] w.post \in {"ADMITTED", "WRITTEN"}  -> "SENT"
      [] w.post = "ANSWERED"                 -> "ANSWERED"

Reports(g, facts) ==
    /\ WorkerStep(g)
    /\ Becomes(g, [worker[g] EXCEPT !.stage = "REPORTED", !.facts = facts], toWorker[g])
    /\ toParent' = Told(g, <<ReportOf(facts)>>)
    /\ UNCHANGED <<written, document>>

ReportSubmission(g) ==
    \/ worker[g].stage = "PREFLIGHT" /\ Reports(g, "NOT_SENT")
    \/ worker[g].stage = "CLOSED" /\ Reports(g, FactsOf(worker[g]))

FailedMessage(w) == IF w.failed THEN <<>> ELSE <<"FAILED">>

(* No START in time, a refused START, a failed login; or an exception       *)
(* outside the stage: what is not yet reported is reported as not sent      *)
(* before the stage was entered, as unknown after it.                       *)
FailRun(g) ==
    \/ Goes(g, {"WAITING", "RUNNING", "REPORTED"}, "EXITING", FailedMessage(worker[g]))
    \/ Goes(g, {"PREFLIGHT"}, "EXITING", <<"NOT_SENT">> \o FailedMessage(worker[g]))
    \/ Goes(g, {"CLOSED"}, "EXITING", <<"UNKNOWN">> \o FailedMessage(worker[g]))

(* action-run.json is the last file written; a worker that has reported a   *)
(* violation does not report its end as well.                               *)
FinishRun(g) ==
    /\ WorkerStep(g)
    /\ worker[g].stage = "REPORTED"
    /\ document' = [document EXCEPT ![g] = worker[g].facts]
    /\ Becomes(g, Exiting(worker[g]), toWorker[g])
    /\ toParent' = IF worker[g].failed THEN toParent ELSE Told(g, <<"RAN">>)
    /\ UNCHANGED written

-----------------------------------------------------------------------------

StoreHandlers ==
    \/ ChangeScenario
    \/ \E s \in Scenarios, at \in Times : InvalidateApproval(s, at)
    \/ \E g \in Grants, s \in Scenarios, seen \in Facts, at \in Times : IssueAndStart(g, s, seen, at)

Commits == CommitEndRow \/ \E at \in Times : CommitCloseOrphans(at) \/ CommitCreateRow(at) \/ CommitCloseUnsent(at)

StartSteps(g) ==
    \/ ReconcileBeforeRow(g)
    \/ FailPreparation(g)
    \/ \E at \in Times : RejectStart(g, at) \/ Launch(g, at) \/ FailLaunch(g, at)
    \/ \E seen \in Facts, at \in Times : Consume(g, seen, at)

ReceiveSteps(g) ==
    \/ ReceiveDecided(g)
    \/ ReceiveReady(g)
    \/ ReceiveRunStarted(g)
    \/ ReceiveRecheckRequest(g)
    \/ ReceiveSubmission(g)
    \/ ReceiveFinished(g)
    \/ ReceiveFailed(g)

AnswerSteps(g) == RefuseWrite(g) \/ \E seen \in Facts, now \in Times : AllowWrite(g, seen, now)

ExitSteps(g) ==
    \/ SeeProcessExit(g)
    \/ EndDrain(g)
    \/ \E at \in Times : RecordExit(g, at)

RunSteps(g) ==
    \/ BecomeReady(g)
    \/ TakeStart(g)
    \/ TakeStop(g)
    \/ TakeRecheckResult(g)
    \/ TakeLateResult(g)
    \/ StartRun(g)
    \/ SkipRun(g)
    \/ EnterStage(g)
    \/ RequestRecheck(g)
    \/ TimeOutRecheck(g)
    \/ AdmitPost(g)
    \/ WritePost(g)
    \/ SettlePost(g)
    \/ CloseContext(g)
    \/ ReportSubmission(g)
    \/ FailRun(g)
    \/ FinishRun(g)

GrantSteps(g) ==
    \/ StopJob(g)
    \/ StartSteps(g)
    \/ ReceiveSteps(g)
    \/ AnswerSteps(g)
    \/ Timeout(g)
    \/ ExitSteps(g)
    \/ RunSteps(g)
    \/ TakeSignal(g)
    \/ WorkerDies(g)

JobNext ==
    \/ StoreHandlers
    \/ Commits
    \/ StartOtherJob
    \/ Crash
    \/ Restart
    \/ \E g \in Grants : GrantSteps(g)

JobSpec == JobInit /\ [][JobNext]_allVars

(* The event loop serves every pending timer, message and continuation,     *)
(* whatever else it serves; a living worker either goes on or is found      *)
(* silent by a timer; a signalled worker ends.                              *)
JobFairness ==
    /\ WF_allVars(Commits)
    /\ \A g \in Grants :
          /\ SF_allVars(StartSteps(g))
          /\ SF_allVars(ReceiveSteps(g))
          /\ SF_allVars(ExitSteps(g))
          /\ SF_allVars(RunSteps(g) \/ Timeout(g))
          /\ WF_allVars(worker[g].signal # "NO" /\ WorkerDies(g))

FairJobSpec == JobSpec /\ JobFairness
-----------------------------------------------------------------------------
(* Properties *)

(* The manager's memory, the rows, the errands of the running handler, the  *)
(* worker and the channels have the states the code gives them.             *)
JobTypeOK ==
    /\ up \in BOOLEAN /\ deaths \in Nat
    /\ todo \in Errands
    /\ row \in [Grants -> {"NONE"} \cup ActiveStates \cup EndStates]
    /\ start \in [Grants -> StartStates]
    /\ job \in [Grants -> JobRecord]
    /\ worker \in [Grants -> WorkerRecord]
    /\ toParent \in [Grants -> Seq(ParentMessages)]
    /\ toWorker \in [Grants -> Seq(WorkerMessages)]
    /\ written \in [Grants -> Nat]
    /\ document \in [Grants -> {"NONE", "NOT_SENT", "SENT", "ANSWERED"}]

(* One approved grant, one submission on the wire, whatever the page        *)
(* posts, before or after the press.                                        *)
WrittenAtMostOnce == \A g \in Grants : written[g] <= 1

(* What the store finally says of a write is true of the wire: nothing is   *)
(* given back that was written or still can be, and nothing counts as done  *)
(* that was not written - across lost reports, exits before START, deaths   *)
(* of either process and the closing of orphans.                            *)
SettlementMatchesWire ==
    \A g \in Grants :
        /\ reservation[g].state = "RELEASED" => written[g] = 0
        /\ reservation[g].state = "COMMITTED" => written[g] = 1

(* As long as the server that started a job is there, bytes are on the wire *)
(* only if it allowed them, and never for a write it refused.               *)
WrittenOnlyIfAllowed ==
    \A g \in Grants : IsTracked(g) /\ written[g] > 0 => job[g].recheck = "ALLOWED" /\ ~job[g].rejected

(* A job row that has ended leaves no reservation behind. The write of a    *)
(* finished or failed one is settled in an earlier transaction, so even a   *)
(* death of the server between the two never shows an ended job with a held *)
(* slot; that of an interrupted one is decided when no handler is half-way. *)
DecidedBeforeRowEnds ==
    \A g \in Grants :
        /\ row[g] \in {"FINISHED", "FAILED"} => ~IsBusy(g)
        /\ row[g] = "INTERRUPTED" /\ Idle => ~IsInFlight(g)

(* A manager never has two write jobs of its own in preparation or tracked, *)
(* although the row is made first and the worker forked awaits later.       *)
OneOwnJob ==
    \A g, h \in Grants :
        /\ IsTracked(g) \/ start[g] \in {"CONSUMING", "RECORDING"}
        /\ IsTracked(h) \/ start[h] \in {"CONSUMING", "RECORDING"}
        => g = h

(* Every write in flight that the manager prepares or tracks is decided     *)
(* unless the server dies first: no lost message, silent worker or refused  *)
(* recheck holds the only slot for ever.                                    *)
WritesEnd ==
    \A g \in Grants :
        IsInFlight(g) /\ (IsTracked(g) \/ start[g] # "NONE") ~> ~IsInFlight(g) \/ ~up

(* A stop, a revocation, a revision or a newer approval that comes before   *)
(* the recheck was answered is in time: nothing is written any more, also   *)
(* when the answer is still given, waits in the channel, or the server dies *)
(* with the stop unsent.                                                    *)
IsWithdrawn(g) ==
    /\ IsTracked(g)
    /\ job[g].recheck # "ALLOWED"
    /\ \/ job[g].stopRequested
       \/ \A seen \in Facts, now \in Times : ~GrantMatchesApproval(g, grant[g].scenario, seen, now)

NothingWrittenOnceWithdrawn == \A g \in Grants : [](IsWithdrawn(g) => [](written[g] = 0))
=============================================================================
