----------------------------- MODULE JobServers -----------------------------
(***************************************************************************)
(* The servers of the local UI that share one control database, and what   *)
(* the database makes of them: the instance lock (control/job/             *)
(* instance-lock.ts, and how audit-job-manager.ts keeps, loses and heeds   *)
(* it), the rows of the jobs (job-store.ts), and the records of automated  *)
(* logins (auto-login-store.ts, auto-login-limits.ts) that keep an account *)
(* from being locked.  Every job here belongs to one profile and logs in   *)
(* by itself.                                                              *)
(*                                                                         *)
(* A handler of a server commits its transactions one after the other      *)
(* ("todo"): another server, a crash or a hold-up comes in between.  Time  *)
(* is the wall clock that the rows are stamped with; it may be set.        *)
(***************************************************************************)
EXTENDS Integers, Sequences, FiniteSets, Functions

CONSTANTS
    Servers,      \* the server processes
    Nobody,       \* the owner of no lock
    MaxJobs,      \* bound: jobs that are created
    MaxTime,      \* bound: the latest time
    MaxFaults,    \* bound: how often a server is held up or dies, and the clock is set
    Failures,     \* bound: the results of a failed login that are told apart
    MaxSends,     \* bound: how often a browser sends one login, when the connection breaks
    ScriptJobs,   \* the jobs whose login a script of the page sends (SCRIPT_REQUEST), not a form
    StaleAfter,   \* RUN_LOCK_STALE_AFTER_MS
    RenewEvery,   \* AUDIT_JOB_TIMING.instanceHeartbeatIntervalMs
    WorkerStale,  \* AUDIT_JOB_UNOWNED_WORKER_STALE_AFTER_MS, the limit of the watchdog too
    MinInterval,  \* AUTO_LOGIN_MIN_INTERVAL_MS
    Window,       \* AUTO_LOGIN_DAILY_WINDOW_MS
    MaxAttempts,  \* AUTO_LOGIN_DAILY_MAX_ATTEMPTS
    RetryAfter    \* bound: what a site that limits logins asks for

ASSUME ServersAssumption ==
    /\ Nobody \notin Servers
    /\ {MaxJobs, MaxTime, MaxFaults, StaleAfter, RenewEvery, WorkerStale, MinInterval, Window, MaxAttempts,
        RetryAfter} \subseteq Nat
    /\ RenewEvery <= StaleAfter
    /\ WorkerStale <= StaleAfter
    /\ MinInterval < Window
    /\ Failures \subseteq {"FAILED", "RATE_LIMITED"}
    /\ ScriptJobs \subseteq 1 .. MaxJobs
    /\ MaxSends \in 1 .. 2

Jobs == 1 .. MaxJobs
Times == 0 .. MaxTime

VARIABLES
    clock,    \* the wall clock
    faults,   \* how often a server was held up or died, and the clock was set
    inst,     \* control_instance: who holds the lock, and its heartbeat
    server,   \* each server process and the memory of its manager
    row,      \* audit_jobs
    job,      \* TrackedJob: what the server of a job remembers of it
    worker,   \* the worker process of each job, and what its login did to the site
    report,   \* the AUTH_STATE message under way from each worker
    attempt,  \* auto_login_attempts
    hold      \* auto_login_holds: an active hold of the profile

dbVars == <<inst, row, attempt, hold>>
timeVars == <<clock, faults>>
workerVars == <<worker, report>>
serversVars == <<timeVars, dbVars, server, job, workerVars>>

NoInstance == [owner |-> Nobody, beat |-> 0]
ServerOff == [at |-> "OFF", awake |-> TRUE, lost |-> FALSE, stopSoon |-> FALSE, todo |-> <<>>]
NoRow == [state |-> "NONE", pid |-> FALSE, seen |-> 0]
\* INTERRUPTED: as SERVER_RESTARTED.  The times of an ended row are not read again.
EndedRow(state) == [NoRow EXCEPT !.state = state]
NoJob == [owner |-> Nobody, phase |-> "NONE", startSent |-> FALSE, startFailed |-> FALSE, stopRequested |-> FALSE, killTimer |-> FALSE]
\* seen, pressed: what the worker knows (loginPostObserved, clicked); ok, posts: that the site let it in, and the logins the site
\* got, a second one only when no answer told that one was enough.
NoWorker == [at |-> "NONE", seen |-> FALSE, pressed |-> FALSE, posts |-> 0, ok |-> FALSE, stop |-> FALSE, signalled |-> FALSE]
NoReport == [result |-> "NONE", submitted |-> "NO", response |-> TRUE]

\* rows: the attempt is written once, and a second time when a login may have been sent twice.
NoAttempt == [start |-> 0, result |-> "NONE", submitted |-> "NONE", rows |-> 0, retry |-> 0]

Step(kind, j) == [kind |-> kind, job |-> j]

ServersInit ==
    /\ clock = 0
    /\ faults = 0
    /\ inst = NoInstance
    /\ server = [s \in Servers |-> ServerOff]
    /\ row = [j \in Jobs |-> NoRow]
    /\ job = [j \in Jobs |-> NoJob]
    /\ worker = [j \in Jobs |-> NoWorker]
    /\ report = [j \in Jobs |-> NoReport]
    /\ attempt = [j \in Jobs |-> NoAttempt]
    /\ hold = FALSE

-----------------------------------------------------------------------------
(* The instance lock. *)

IsRunning(o) == o # Nobody /\ server[o].at = "UP"

\* judgeRunLock
IsActive(lock) == IsRunning(lock.owner) /\ clock - lock.beat <= StaleAfter

\* holdsControlInstanceLock, asked inside a transaction
HoldsLock(s) == inst.owner = s

\* #markInstanceLockLost: the workers are stopped in the next turn of the event loop.
Lost(v) == IF v.lost THEN v ELSE [v EXCEPT !.lost = TRUE, !.stopSoon = TRUE]

CanAct(s) == server[s].at = "UP" /\ server[s].awake
Idle(s) == CanAct(s) /\ server[s].todo = <<>>

SetTodo(s, steps) == server' = [server EXCEPT ![s].todo = steps]

\* createAuditJobManager takes the lock; then recoverInterruptedJobs runs.
CreateManager(s) ==
    /\ server[s].at = "OFF"
    /\ ~IsActive(inst)
    /\ inst' = [owner |-> s, beat |-> clock]
    /\ server' = [server EXCEPT ![s].at = "UP", ![s].todo = <<Step("INTERRUPT", 0), Step("ORPHANS", 0)>>]
    /\ UNCHANGED <<timeVars, row, job, workerVars, attempt, hold>>

\* #renewInstanceLock
RenewInstanceLock(s) ==
    /\ Idle(s)
    /\ ~server[s].lost
    /\ IF HoldsLock(s)
       THEN inst.beat # clock /\ inst' = [inst EXCEPT !.beat = clock] /\ UNCHANGED server
       ELSE server' = [server EXCEPT ![s] = Lost(@)] /\ UNCHANGED inst
    /\ UNCHANGED <<timeVars, row, job, workerVars, attempt, hold>>

-----------------------------------------------------------------------------
(* The records of automated logins. *)

IsPending(j) == attempt[j].rows > 0 /\ attempt[j].result = "NONE"
Started == {j \in Jobs : attempt[j].rows > 0}

RowsOf(js) == SumFunctionOnSet([j \in Jobs |-> attempt[j].rows], js)

(* Mutant: starts that lie in the future after the clock was set back are not read. *)
CanStartPastOnly(now) ==
    /\ ~hold
    /\ \A j \in Started : attempt[j].start <= now => attempt[j].start + MinInterval <= now
    /\ \A j \in Started : attempt[j].retry <= now
    /\ RowsOf({j \in Started : attempt[j].start <= now /\ attempt[j].start + Window > now}) < MaxAttempts

\* decideAutoLoginStart
CanStart(now) ==
    /\ ~hold
    /\ \A j \in Started : attempt[j].start + MinInterval <= now
    /\ \A j \in Started : attempt[j].retry <= now
    /\ RowsOf({j \in Started : attempt[j].start + Window > now}) < MaxAttempts

\* holdsAfter
HoldsAfter(result, submitted) == result # "SUCCEEDED" /\ submitted # "NO"

(* Mutant: an attempt with an unknown result is counted once. *)
ClosedOnce(a, result, submitted, response, retry) ==
    [a EXCEPT !.result = result, !.submitted = submitted, !.retry = retry]

\* closeAttemptIn and insertResentAttemptIn: a login without a response gets a second row.
ClosedAttempt(a, result, submitted, response, retry) ==
    [a EXCEPT !.result = result, !.submitted = submitted, !.retry = retry, !.rows = IF response THEN @ ELSE @ + 1]

\* closeUnknownAttemptIn, for all the attempts of a set in one transaction
CloseUnknown(js) ==
    /\ attempt' = [j \in Jobs |-> IF j \in js THEN ClosedAttempt(attempt[j], "UNKNOWN", "UNKNOWN", FALSE, 0) ELSE attempt[j]]
    /\ hold' = (hold \/ (js # {} /\ HoldsAfter("UNKNOWN", "UNKNOWN")))

(* Mutant: a result is recorded over the one that closed the attempt.  *)
RecordAgain(j, result, submitted, response) ==
    /\ attempt' = [attempt EXCEPT ![j] = ClosedAttempt(@, result, submitted, response,
                                                       IF result = "RATE_LIMITED" THEN clock + RetryAfter ELSE 0)]
    /\ hold' = (hold \/ HoldsAfter(result, submitted))

\* recordAutoLoginResult: the first result stays.
RecordResult(j, result, submitted, response) ==
    IF IsPending(j)
    THEN /\ attempt' = [attempt EXCEPT ![j] = ClosedAttempt(@, result, submitted, response,
                                                            IF result = "RATE_LIMITED" THEN clock + RetryAfter ELSE 0)]
         /\ hold' = (hold \/ HoldsAfter(result, submitted))
    ELSE UNCHANGED <<attempt, hold>>

\* clearAutoLoginHold, and recordCredentialEvent with clearHold: a human says so.
ClearHold ==
    /\ hold
    /\ \E s \in Servers : CanAct(s)
    /\ hold' = FALSE
    /\ UNCHANGED <<timeVars, inst, row, attempt, server, job, workerVars>>

-----------------------------------------------------------------------------
(* Transactions of a handler. *)

Next1(s, kind) == CanAct(s) /\ server[s].todo # <<>> /\ Head(server[s].todo).kind = kind
Rest(s) == Tail(server[s].todo)
TodoJob(s) == Head(server[s].todo).job

\* #isUnownedWorkerRunning
IsUnownedWorkerRunning(j) ==
    /\ row[j].pid => worker[j].at # "GONE"
    /\ clock - row[j].seen <= WorkerStale

OwnJobs(s) == {j \in Jobs : job[j].owner = s}

\* interruptActiveJobs, in #interruptUnownedJobs
InterruptUnowned(s) ==
    /\ Next1(s, "INTERRUPT")
    /\ IF HoldsLock(s) /\ ~server[s].lost
       THEN /\ row' = [j \in Jobs |-> IF row[j].state = "ACTIVE" /\ j \notin OwnJobs(s) /\ ~IsUnownedWorkerRunning(j)
                                      THEN EndedRow("INTERRUPTED") ELSE row[j]]
            /\ SetTodo(s, Rest(s))
       ELSE /\ server' = [server EXCEPT ![s] = [Lost(@) EXCEPT !.todo = <<>>]]
            /\ UNCHANGED row
    /\ UNCHANGED <<timeVars, inst, job, workerVars, attempt, hold>>

(* Mutant: the attempts of dead servers are left open. *)
NoOrphans == {}

\* The pending attempts whose jobs are not active
Orphans == {j \in Jobs : IsPending(j) /\ row[j].state # "ACTIVE"}

\* closeOrphanedAutoLoginAttempts
CloseOrphans(s) ==
    /\ Next1(s, "ORPHANS")
    /\ CloseUnknown(Orphans)
    /\ SetTodo(s, Rest(s))
    /\ UNCHANGED <<timeVars, inst, row, job, workerVars>>

\* #start, from the end of its last await on
StartAuditJob(s) ==
    /\ Idle(s)
    /\ ~server[s].lost
    /\ \E j \in Jobs : row[j].state = "NONE"
    /\ SetTodo(s, <<Step("INTERRUPT", 0), Step("ORPHANS", 0), Step("CREATE", 0)>>)
    /\ UNCHANGED <<timeVars, dbVars, job, workerVars>>

\* createStartingJob with the guard of #start: a refusal ends the handler.
CreateStartingJob(s) ==
    /\ Next1(s, "CREATE")
    /\ IF ~HoldsLock(s)
       THEN server' = [server EXCEPT ![s] = [Lost(@) EXCEPT !.todo = <<>>]] /\ UNCHANGED <<row, attempt>>
       ELSE IF ~CanStart(clock) \/ \E j \in Jobs : row[j].state = "ACTIVE"
       THEN SetTodo(s, <<>>) /\ UNCHANGED <<row, attempt>>
       ELSE \E j \in Jobs :
              /\ row[j].state = "NONE"
              /\ \A i \in 1 .. j - 1 : row[i].state # "NONE"
              /\ row' = [row EXCEPT ![j] = [state |-> "ACTIVE", pid |-> FALSE, seen |-> clock]]
              /\ attempt' = [attempt EXCEPT ![j] = [NoAttempt EXCEPT !.start = clock, !.rows = 1]]
              /\ SetTodo(s, <<Step("LAUNCH", j)>>)
    /\ UNCHANGED <<timeVars, inst, job, workerVars, hold>>

\* #launchWorker
LaunchWorker(s) ==
    /\ Next1(s, "LAUNCH")
    /\ LET j == TodoJob(s) IN
       /\ worker' = [worker EXCEPT ![j].at = "WAITING"]
       /\ job' = [job EXCEPT ![j].owner = s, ![j].phase = "FORKED"]
       /\ SetTodo(s, <<Step("PID", j)>>)
    /\ UNCHANGED <<timeVars, dbVars, report>>

RecordWorkerPid(s) ==
    /\ Next1(s, "PID")
    /\ row' = [row EXCEPT ![TodoJob(s)].pid = row[TodoJob(s)].state = "ACTIVE"]
    /\ SetTodo(s, Rest(s))
    /\ UNCHANGED <<timeVars, inst, attempt, hold, job, workerVars>>

\* #failLaunch, and a fork that gave no process: #endUntracked
FailLaunch(s) ==
    /\ Next1(s, "LAUNCH")
    /\ SetTodo(s, <<Step("END_ROW", TodoJob(s)), Step("NOT_SENT", TodoJob(s))>>)
    /\ UNCHANGED <<timeVars, dbVars, job, workerVars>>

\* recordFinished, recordEnded and their like: an active row only
RecordEnded(s) ==
    /\ Next1(s, "END_ROW")
    /\ row' = [row EXCEPT ![TodoJob(s)] = IF @.state = "ACTIVE" THEN EndedRow("ENDED") ELSE @]
    /\ SetTodo(s, Rest(s))
    /\ UNCHANGED <<timeVars, inst, attempt, hold, job, workerVars>>

\* #closeAttemptNotSent
CloseAttemptNotSent(s) ==
    /\ Next1(s, "NOT_SENT")
    /\ RecordResult(TodoJob(s), "UNKNOWN", "NO", TRUE)
    /\ SetTodo(s, Rest(s))
    /\ UNCHANGED <<timeVars, inst, row, job, workerVars>>

\* closePendingAutoLoginAttempt
ClosePendingAttempt(s) ==
    /\ Next1(s, "PENDING")
    /\ CloseUnknown({TodoJob(s)} \cap {j \in Jobs : IsPending(j)})
    /\ SetTodo(s, Rest(s))
    /\ UNCHANGED <<timeVars, inst, row, job, workerVars>>

-----------------------------------------------------------------------------
(* The job of a server. *)

IsAlive(j) == worker[j].at \notin {"NONE", "GONE"}
Tracks(s, j) == job[j].owner = s /\ job[j].phase # "NONE"
IsUndecided(j) == job[j].phase \in {"FORKED", "STARTED"}

\* Only the owner is kept, for the properties.
Forgotten(j) == [NoJob EXCEPT !.owner = job[j].owner]

Signalled(j) == worker' = [worker EXCEPT ![j].signalled = IsAlive(j)]

\* READY: the answer is START, or STOP when that was asked for before.
ReceiveReady(s, j) ==
    /\ Idle(s)
    /\ Tracks(s, j) /\ job[j].phase = "FORKED"
    /\ worker[j].at = "WAITING"
    /\ job' = [job EXCEPT ![j].phase = "STARTED", ![j].startSent = ~job[j].stopRequested]
    /\ worker' = [worker EXCEPT ![j].at = IF job[j].stopRequested THEN "AFTER" ELSE "LOGIN"]
    /\ row' = [row EXCEPT ![j].seen = IF row[j].state = "ACTIVE" THEN clock ELSE @]
    /\ UNCHANGED <<timeVars, inst, attempt, hold, server, report>>

\* HEARTBEAT
ReceiveHeartbeat(s, j) ==
    /\ Idle(s)
    /\ Tracks(s, j) /\ job[j].phase = "STARTED"
    /\ IsAlive(j)
    /\ row[j].state = "ACTIVE" /\ row[j].seen # clock
    /\ row' = [row EXCEPT ![j].seen = clock]
    /\ UNCHANGED <<timeVars, inst, attempt, hold, server, job, workerVars>>

\* AUTH_STATE with the result of the automated login; a decided job receives nothing.
ReceiveAuthState(s, j) ==
    /\ Idle(s)
    /\ Tracks(s, j)
    /\ report[j] # NoReport
    /\ report' = [report EXCEPT ![j] = NoReport]
    /\ IF job[j].phase = "STARTED"
       THEN RecordResult(j, report[j].result, report[j].submitted, report[j].response)
       ELSE UNCHANGED <<attempt, hold>>
    /\ UNCHANGED <<timeVars, inst, row, server, job, worker>>

\* #requestStop; before READY the worker is not told yet.
RequestStop(j, killTimer) ==
    /\ job' = [job EXCEPT ![j].stopRequested = TRUE, ![j].killTimer = @ \/ killTimer]
    /\ worker' = [worker EXCEPT ![j].stop = @ \/ (job[j].phase = "STARTED" /\ IsAlive(j))]

(* Mutant: the workers are asked to stop, and no timer is set. *)
StopWithoutTimer(s) ==
    /\ Idle(s)
    /\ server[s].stopSoon
    /\ server' = [server EXCEPT ![s].stopSoon = FALSE]
    /\ IF \E j \in Jobs : Tracks(s, j) /\ IsUndecided(j)
       THEN \E j \in Jobs : Tracks(s, j) /\ IsUndecided(j) /\ RequestStop(j, FALSE)
       ELSE UNCHANGED <<job, worker>>
    /\ UNCHANGED <<timeVars, dbVars, report>>

\* #stopWorkersAfterLockLost: a server tracks one undecided job at most.
StopWorkersAfterLockLost(s) ==
    /\ Idle(s)
    /\ server[s].stopSoon
    /\ server' = [server EXCEPT ![s].stopSoon = FALSE]
    /\ IF \E j \in Jobs : Tracks(s, j) /\ IsUndecided(j)
       THEN \E j \in Jobs : Tracks(s, j) /\ IsUndecided(j) /\ RequestStop(j, TRUE)
       ELSE UNCHANGED <<job, worker>>
    /\ UNCHANGED <<timeVars, dbVars, report>>

\* The timer set when the lock was lost (lockLostKillAfterMs)
LockLostKill(s, j) ==
    /\ Idle(s)
    /\ Tracks(s, j) /\ job[j].killTimer /\ worker[j].at # "GONE"
    /\ job' = [job EXCEPT ![j].killTimer = FALSE, ![j].phase = "DONE"]
    /\ Signalled(j)
    /\ UNCHANGED <<timeVars, dbVars, server, report>>

\* #end and #kill: the timer of READY, the watchdog, a message against the
\* protocol, or the "error" event of the process, which alone says
\* WORKER_START_FAILED.  A result that decides the job (and #awaitExit, which
\* kills the worker after it) is not told apart: StageChain and WriteJob have it.
EndAndKill(s, j) ==
    /\ Idle(s)
    /\ Tracks(s, j) /\ IsUndecided(j)
    /\ \E failed \in BOOLEAN : job' = [job EXCEPT ![j].phase = "DONE", ![j].startFailed = failed]
    /\ Signalled(j)
    /\ UNCHANGED <<timeVars, dbVars, server, report>>

\* #recordJobRow: nothing was sent only when START was not, and the process failed to start.
ClosingOf(j) == IF job[j].startFailed /\ ~job[j].startSent THEN "NOT_SENT" ELSE "PENDING"

\* The "exit" event, #drainIpc and #exited: what the worker said last has been
\* received by then, or is lost.
WorkerExited(s, j) ==
    /\ Idle(s)
    /\ Tracks(s, j)
    /\ worker[j].at = "GONE"
    /\ job' = [job EXCEPT ![j] = Forgotten(j)]
    /\ report' = [report EXCEPT ![j] = NoReport]
    /\ SetTodo(s, <<Step("END_ROW", j), Step(ClosingOf(j), j)>>)
    /\ UNCHANGED <<timeVars, dbVars, worker>>

-----------------------------------------------------------------------------
(* The worker, up to the end of its login; and the site. *)

SetWorker(j, w) == worker' = [worker EXCEPT ![j] = w]
OthersStay == UNCHANGED <<timeVars, dbVars, server, job>>

(* The page sends a login: because it was pressed, or by itself.  The guard     *)
(* lets one through, and the worker sees it go.  When the connection breaks the *)
(* browser may send it again, below the guard.  One that does not get there is  *)
(* left out: whatever is said of it, the site minds it less.                    *)
AfterSubmit(w) == {[w EXCEPT !.seen = TRUE, !.posts = posts] : posts \in 1 .. MaxSends}

SubmitLogin(j) ==
    /\ worker[j].at \in {"LOGIN", "PRESSED"} /\ ~worker[j].seen
    /\ \E w \in AfterSubmit(worker[j]) : SetWorker(j, w)
    /\ OthersStay /\ UNCHANGED report

\* "clicked" is set before the click, so that a click that fails may have sent the login.
PressLogin(j) ==
    /\ worker[j].at = "LOGIN" /\ ~worker[j].stop
    /\ SetWorker(j, [worker[j] EXCEPT !.at = "PRESSED", !.pressed = TRUE])
    /\ OthersStay /\ UNCHANGED report

(* Mutant: a click that was not seen to send anything is taken as one that did not. *)
SubmissionSeen(j) == IF worker[j].seen THEN {"YES"} ELSE {"NO"}

\* submission, with the requests of a script that held the credentials and were blocked
Submission(j) ==
    IF worker[j].seen THEN {"YES"}
    ELSE IF j \in ScriptJobs THEN {"NO", "UNKNOWN"}
    ELSE IF worker[j].pressed THEN {"UNKNOWN"} ELSE {"NO"}

\* Until the browser is closed (finally) the page may still send.
AfterClosing(w) == IF w.seen THEN {w} ELSE {w} \cup AfterSubmit(w)

\* A document of the main frame, or the answer to the request of a script
Answered(w) == [w EXCEPT !.posts = IF @ = 2 THEN 1 ELSE @]

Leave(j, w, result, submitted, response) ==
    /\ SetWorker(j, [w EXCEPT !.at = "AFTER", !.seen = FALSE])
    /\ report' = [report EXCEPT ![j] = [result |-> result, submitted |-> submitted, response |-> response]]

(* The outcome is decided, the browser is closed, and failureReportOf reports   *)
(* the outcome; the response is asked for after the closing, and told apart     *)
(* only when the login is said to be sent.                                      *)
EndLogin(j, result, submitted) ==
    \E w \in AfterClosing(worker[j]) :
        \/ Leave(j, w, result, submitted, submitted # "YES")
        \/ w.seen /\ Leave(j, Answered(w), result, submitted, TRUE)

\* A page that meets the success condition, after a login that was seen and answered
LoginSucceeds(j) ==
    /\ worker[j].at = "PRESSED" /\ worker[j].seen
    /\ Leave(j, [Answered(worker[j]) EXCEPT !.ok = TRUE], "SUCCEEDED", "YES", TRUE)
    /\ OthersStay

\* Before the press most exits say NO, whatever the page sent in the meantime; the others, and all after it, ask submission.
LoginFails(j) ==
    /\ "FAILED" \in Failures
    /\ worker[j].at \in {"LOGIN", "PRESSED"}
    /\ \E submitted \in Submission(j) \cup (IF worker[j].at = "LOGIN" THEN {"NO"} ELSE {}) : EndLogin(j, "FAILED", submitted)
    /\ OthersStay

\* statusOutcome and tokenResponseOutcome: 429 for the login page itself, or for a login that was seen
LoginRateLimited(j) ==
    /\ "RATE_LIMITED" \in Failures
    /\ \/ worker[j].at = "LOGIN" /\ EndLogin(j, "RATE_LIMITED", "NO")
       \/ worker[j].at = "PRESSED" /\ worker[j].seen /\ Leave(j, Answered(worker[j]), "RATE_LIMITED", "YES", TRUE)
    /\ OthersStay

\* reportLoginBrowserLaunchRefused: no page was opened, and no AUTH_STATE is sent.
LaunchRefused(j) ==
    /\ worker[j].at = "LOGIN" /\ ~worker[j].seen
    /\ SetWorker(j, [worker[j] EXCEPT !.at = "AFTER"])
    /\ OthersStay /\ UNCHANGED report

\* disconnect: the work is interrupted as by a STOP; WAITING, the worker leaves.
WorkerDisconnected(j) ==
    /\ IsAlive(j) /\ ~worker[j].stop
    /\ server[job[j].owner].at = "GONE"
    /\ SetWorker(j, [worker[j] EXCEPT !.stop = TRUE, !.at = IF @ = "WAITING" THEN "AFTER" ELSE @])
    /\ OthersStay /\ UNCHANGED report

\* The process ends: by itself, by a crash or by a signal.
WorkerGoes(j) ==
    /\ IsAlive(j)
    /\ SetWorker(j, [worker[j] EXCEPT !.at = "GONE", !.seen = FALSE, !.stop = FALSE, !.signalled = FALSE])
    /\ OthersStay /\ UNCHANGED report

-----------------------------------------------------------------------------
(* The machine. *)

\* close: the jobs are over; the row of the lock goes if it is the server's own.
CloseManager(s) ==
    /\ Idle(s)
    /\ ~\E j \in Jobs : Tracks(s, j)
    /\ server' = [server EXCEPT ![s] = [ServerOff EXCEPT !.at = "GONE"]]
    /\ inst' = IF inst.owner = s THEN NoInstance ELSE inst
    /\ UNCHANGED <<timeVars, row, attempt, hold, job, workerVars>>

ServerCrashes(s) ==
    /\ server[s].at = "UP" /\ faults < MaxFaults
    /\ faults' = faults + 1
    /\ server' = [server EXCEPT ![s] = [ServerOff EXCEPT !.at = "GONE"]]
    /\ job' = [j \in Jobs |-> IF job[j].owner = s THEN Forgotten(j) ELSE job[j]]
    /\ report' = [j \in Jobs |-> IF job[j].owner = s THEN NoReport ELSE report[j]]
    /\ UNCHANGED <<clock, dbVars, worker>>

\* A suspended process, a blocked event loop; other servers come between the
\* transactions of a handler even without it.
HoldUp(s) ==
    /\ Idle(s) /\ faults < MaxFaults
    /\ server' = [server EXCEPT ![s].awake = FALSE]
    /\ faults' = faults + 1
    /\ UNCHANGED <<clock, dbVars, job, workerVars>>

WakeUp(s) ==
    /\ server[s].at = "UP" /\ ~server[s].awake
    /\ server' = [server EXCEPT ![s].awake = TRUE]
    /\ UNCHANGED <<timeVars, dbVars, job, workerVars>>

(* A server that is not held up renews its lock and ends a silent job before  *)
(* either gets stale: its timers are shorter.  A handler takes no time.       *)
InTime(s, now) ==
    /\ server[s].todo = <<>>
    /\ ~server[s].stopSoon
    /\ inst.owner = s => now - inst.beat <= RenewEvery
    /\ inst.owner # s => server[s].lost
    /\ \A j \in Jobs : Tracks(s, j) /\ IsUndecided(j) /\ row[j].state = "ACTIVE" => now - row[j].seen <= WorkerStale

Tick ==
    /\ clock < MaxTime
    /\ \A s \in Servers : CanAct(s) => InTime(s, clock + 1)
    /\ clock' = clock + 1
    /\ UNCHANGED <<faults, dbVars, server, job, workerVars>>

SetClock ==
    /\ faults < MaxFaults
    /\ \E now \in Times \ {clock} : clock' = now
    /\ faults' = faults + 1
    /\ UNCHANGED <<dbVars, server, job, workerVars>>

-----------------------------------------------------------------------------
Transaction(s) ==
    \/ InterruptUnowned(s) \/ CloseOrphans(s) \/ CreateStartingJob(s) \/ LaunchWorker(s) \/ RecordWorkerPid(s)
    \/ FailLaunch(s) \/ RecordEnded(s) \/ CloseAttemptNotSent(s) \/ ClosePendingAttempt(s)

JobStep(s, j) ==
    \/ ReceiveReady(s, j) \/ ReceiveHeartbeat(s, j) \/ ReceiveAuthState(s, j) \/ LockLostKill(s, j)
    \/ EndAndKill(s, j) \/ WorkerExited(s, j)

WorkerStep(j) ==
    \/ SubmitLogin(j) \/ PressLogin(j) \/ LoginSucceeds(j) \/ LoginFails(j) \/ LoginRateLimited(j) \/ LaunchRefused(j)
    \/ WorkerDisconnected(j) \/ WorkerGoes(j)

ServerStep(s) ==
    \/ CreateManager(s) \/ RenewInstanceLock(s) \/ StartAuditJob(s) \/ Transaction(s)
    \/ StopWorkersAfterLockLost(s) \/ CloseManager(s) \/ ServerCrashes(s) \/ HoldUp(s) \/ WakeUp(s)
    \/ \E j \in Jobs : JobStep(s, j)

ServersNext ==
    \/ \E s \in Servers : ServerStep(s)
    \/ \E j \in Jobs : WorkerStep(j)
    \/ ClearHold \/ Tick \/ SetClock

ServersSpec == ServersInit /\ [][ServersNext]_serversVars

-----------------------------------------------------------------------------
(* Properties. *)

ServersTypeOK ==
    /\ clock \in Times /\ faults \in 0 .. MaxFaults
    /\ inst \in [owner : Servers \cup {Nobody}, beat : Times]
    /\ \A s \in Servers :
         /\ server[s].at \in {"OFF", "UP", "GONE"}
         /\ server[s].awake \in BOOLEAN /\ server[s].lost \in BOOLEAN /\ server[s].stopSoon \in BOOLEAN
         /\ server[s].todo \in Seq([kind : {"INTERRUPT", "ORPHANS", "CREATE", "LAUNCH", "PID", "END_ROW", "NOT_SENT", "PENDING"},
                                    job : Jobs \cup {0}])
    /\ row \in [Jobs -> [state : {"NONE", "ACTIVE", "ENDED", "INTERRUPTED"}, pid : BOOLEAN, seen : Times]]
    /\ job \in [Jobs -> [owner : Servers \cup {Nobody}, phase : {"NONE", "FORKED", "STARTED", "DONE"}, startSent : BOOLEAN,
                         startFailed : BOOLEAN, stopRequested : BOOLEAN, killTimer : BOOLEAN]]
    /\ worker \in [Jobs -> [at : {"NONE", "WAITING", "LOGIN", "PRESSED", "AFTER", "GONE"}, seen : BOOLEAN, pressed : BOOLEAN,
                            posts : 0 .. 2, ok : BOOLEAN, stop : BOOLEAN, signalled : BOOLEAN]]
    /\ report \in [Jobs -> [result : {"NONE", "SUCCEEDED", "FAILED", "RATE_LIMITED"}, submitted : {"YES", "NO", "UNKNOWN"},
                            response : BOOLEAN]]
    /\ attempt \in [Jobs -> [start : Times, result : {"NONE", "SUCCEEDED", "FAILED", "RATE_LIMITED", "UNKNOWN"},
                             submitted : {"NONE", "YES", "NO", "UNKNOWN"}, rows : 0 .. 2, retry : 0 .. MaxTime + RetryAfter]]
    /\ hold \in BOOLEAN

\* An attempt that its worker said was sent, or that a server closed without knowing
MayBeSent(j) == attempt[j].submitted = "YES" \/ attempt[j].result = "UNKNOWN"

(* What a closed attempt says of the login stands, whoever closed it and whatever the worker does afterwards: "succeeded" is      *)
(* true; a server that says "not sent" by itself is right for ever, and a worker that says it of a form has not pressed it;       *)
(* and of the attempts that may be sent, every login the site got without answering is in the count (recordAutoLoginResult,       *)
(* closeUnknownAttemptIn, #recordJobRow, submission).                                                                             *)
ClosedAttemptsTellTruth ==
    \A j \in Jobs : attempt[j].result # "NONE" =>
        /\ attempt[j].result = "SUCCEEDED" => worker[j].ok
        /\ attempt[j].submitted = "NO" => IF attempt[j].result = "UNKNOWN" THEN worker[j].posts = 0
                                          ELSE j \in ScriptJobs \/ ~worker[j].pressed
        /\ MayBeSent(j) => worker[j].posts <= attempt[j].rows

(* A login that was recorded as not sent did not reach the site: "NO: it ended before it was sent (there is no risk of a lock)",  *)
(* says control/auth/automated-login-results.ts:107.  The code does not keep it: the exits before the press say NO without        *)
(* asking what the page sent by itself, and a page may send after the outcome was decided, while its browser is closed.           *)
NotSentIsTrue == \A j \in Jobs : attempt[j].submitted = "NO" => worker[j].posts = 0

(* Attempts start MinInterval apart, and never before a Retry-After of an earlier one, as their rows tell it: also when the clock  *)
(* was set between them, and when another server took over in between (decideAutoLoginStart, readAutoLoginLimitInputsWith).       *)
AttemptsAreSpaced ==
    \A i, j \in Started : i < j => /\ attempt[j].start >= attempt[i].start + MinInterval
                                  /\ attempt[j].start >= attempt[i].retry

\* The logins that the site got
ReachedBy(js) == SumFunctionOnSet([j \in Jobs |-> worker[j].posts], js)

(* When a login is started, every attempt whose job was interrupted for a dead or lost server has been closed, and so has held    *)
(* the profile, whatever became of the server that interrupted it; and the site got fewer than MaxAttempts logins of the closed   *)
(* attempts of the last window that may be sent: for those the limit counts what reached the site, not what was reported          *)
(* (#interruptUnownedJobs, insertResentAttemptIn, closeUnknownAttemptIn).                                                         *)
LoginsStartOnTheTruth ==
    [][\A j \in Jobs : attempt[j].rows = 0 /\ attempt'[j].rows = 1 =>
          /\ \A i \in Jobs : row[i].state = "INTERRUPTED" => ~IsPending(i)
          /\ ReachedBy({i \in Started : MayBeSent(i) /\ attempt[i].start + Window > clock}) < MaxAttempts]_serversVars

\* A lost server is about to stop its worker, the timer that kills it runs, or the signal is sent (#stopWorkersAfterLockLost).
StopsItsWorker(j) ==
    server[job[j].owner].lost => server[job[j].owner].stopSoon \/ job[j].killTimer \/ worker[j].signalled

(* Two workers run at the same time only when the server of one of them died or lost the instance lock, and if that server knows  *)
(* it stops its worker: a server in good order ends the row of its job after the worker is gone, and creates the next while it    *)
(* holds the lock.                                                                                                                *)
TwoWorkersOnlyAfterALoss ==
    \A i, j \in Jobs : i # j /\ IsAlive(i) /\ IsAlive(j) =>
        \E k \in {i, j} : \/ server[job[k].owner].at = "GONE"
                          \/ inst.owner # job[k].owner /\ StopsItsWorker(k)

=============================================================================
