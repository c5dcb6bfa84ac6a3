------------------------------- MODULE RunStart --------------------------------
(***************************************************************************)
(* How a Run starts, writes and ends in an output directory shared with    *)
(* other starts (cli/audit-run.ts, worker/worker-run-session.ts,           *)
(* orchestration/output-start-lock.ts and run-checkpoint-session.ts).      *)
(* Under the start lock a start looks for an active Run, chooses between a *)
(* new Run and the resumption of one, confirms that the start lock is      *)
(* still its own, takes the run.lock of the Run and releases the start     *)
(* lock.  A running session beats, saves and finishes, and each time reads *)
(* the run.lock before it writes.  A process dies anywhere.                *)
(***************************************************************************)
EXTENDS LockFiles, FiniteSets

CONSTANTS
    MaxSaves,    \* bound: states saved by one session
    MaxSleeps,   \* bound: sessions held up for minutes
    MaxDeaths    \* bound: processes killed in the middle of what they do

ASSUME RunAssumption == MaxSaves \in Nat /\ MaxSleeps \in Nat /\ MaxDeaths \in Nat

VARIABLES
    run,     \* where each start is, and its session
    saved,   \* the saved state of each Run
    deaths   \* the processes killed so far

vars == <<file, token, call, dead, reset, asleep, run, saved, deaths>>

\* A saved state is known by who wrote it and how many it had written before.
NoDirectory == [status |-> "NO_DIRECTORY", by |-> Nobody, count |-> 0]
NoState == [status |-> "NO_STATE", by |-> Nobody, count |-> 0]
LeftBehind == [status |-> "IN_PROGRESS", by |-> Old, count |-> 0]
States == [status : {"IN_PROGRESS", "STOPPED", "FINISHED"}, by : Owners, count : 0 .. MaxSaves + 1]
          \cup {NoDirectory, NoState}

Steps == {"NONE", "HOLD", "LIST", "FIND", "FIND_GRACE", "CHOOSE", "CONFIRM_START", "MAKE", "LOCK_NEW",
          "LOCK", "CHECK", "UNLOCK_REFUSED", "CLEANUP", "CLEANUP_REMOVE", "CONFIRM_RUN", "RELEASE", "RELEASE_REMOVE",
          "RUNNING", "UNLOCK", "REFUSED", "ENDED"}

Unseen == [d \in Runs |-> NoLock]
NoRun == [pc |-> "NONE", dir |-> Old, expected |-> NoState, seen |-> Unseen, unread |-> {},
          session |-> "NONE", beat |-> "IDLE", beats |-> 0, save |-> "IDLE", saves |-> 0, slept |-> FALSE]

RunRecords == [pc : Steps, dir : Runs, expected : States, seen : [Runs -> Content], unread : SUBSET Runs,
               session : {"NONE", "ACTIVE", "LOST", "ENDED"},
               beat : {"IDLE", "AGAIN", "WRITE"}, beats : 0 .. MaxBeats,
               save : {"IDLE", "AGAIN", "WRITE", "LAST_AGAIN", "LAST"}, saves : 0 .. MaxSaves,
               slept : BOOLEAN]

\* A process that died in a Run may have left its locks, in the middle of a takeover too.
Init ==
    /\ file \in [Locks -> {NoLock, Own(Old)}]
    /\ \A p \in Starts : file[p] = NoLock
    /\ token \in [Locks -> {NoToken, [owner |-> Old, attempt |-> 0]}]
    /\ \A p \in Starts : token[p] = NoToken
    /\ call = [p \in Starts |-> NoCall]
    /\ dead = {}
    /\ reset \in SUBSET Starts
    /\ asleep = {}
    /\ run = [p \in Starts |-> NoRun]
    /\ saved = [d \in Runs |-> IF d = Old THEN LeftBehind ELSE NoDirectory]
    /\ deaths = 0

-----------------------------------------------------------------------------
(* The start stage. *)

Awake(p) == p \notin dead \cup asleep
In(p, step) == Awake(p) /\ run[p].pc = step
To(p, step) == run' = [run EXCEPT ![p].pc = step]
dir(p) == run[p].dir
IsOwn(p, l) == file[l].owner = p

Waits(o) == call[o].pc = "GRACE" \/ run[o].pc = "FIND_GRACE"

\* The clock is set once, at a moment when no start acts: each stands or waits.
Settled(q) == q \in dead \/ run[q].pc \in {"NONE", "RUNNING", "REFUSED", "ENDED"} \/ Waits(q)
ClockAllows(p) ==
    /\ p \in reset => \A q \in Starts \ reset : Settled(q)
    /\ p \notin reset => \A q \in reset : run[q].pc = "NONE"

Launch(p) ==
    /\ In(p, "NONE") /\ ClockAllows(p)
    /\ To(p, "HOLD")
    /\ Begin(p, StartLock)
    /\ UNCHANGED <<file, token, dead, reset, asleep, saved, deaths>>

Returned(p, kinds) == call[p].pc = "RETURNED" /\ call[p].result \in kinds
Forget(p) == call' = [call EXCEPT ![p] = NoCall]

\* A start that does not get the start lock starts no Run.
Hold(p) ==
    /\ In(p, "HOLD")
    /\ \/ Returned(p, {"ACQUIRED"}) /\ To(p, "LIST")
       \/ Returned(p, {"HELD", "CONTENDED"}) /\ To(p, "REFUSED")
    /\ Forget(p)
    /\ UNCHANGED <<file, token, dead, reset, asleep, saved, deaths>>

\* findActiveRunInOutputDirectory: the Runs of the directory, then the lock of each.
List(p) ==
    /\ In(p, "LIST")
    /\ run' = [run EXCEPT ![p].pc = "FIND", ![p].unread = {d \in Runs : saved[d] # NoDirectory}]
    /\ UNCHANGED <<lockVars, saved, deaths>>

FindRead(p, d) ==
    /\ In(p, "FIND") /\ d \in run[p].unread
    /\ run' = [run EXCEPT ![p].seen[d] = file[d], ![p].unread = @ \ {d}]
    /\ UNCHANGED <<lockVars, saved, deaths>>

\* The locks of living owners that look stale are waited for together.
FindJudge(p) ==
    LET seen == run[p].seen
        graced == {d \in Runs : NeedsGrace(p, seen[d])}
    IN
    /\ In(p, "FIND") /\ run[p].unread = {}
    /\ \/ /\ \E d \in Runs : judgeRunLock(p, seen[d]) = "ACTIVE"
          /\ run' = [run EXCEPT ![p].pc = "RELEASE", ![p].seen = Unseen]
       \/ /\ \A d \in Runs : judgeRunLock(p, seen[d]) # "ACTIVE"
          /\ IF graced = {}
             THEN run' = [run EXCEPT ![p].pc = "CHOOSE", ![p].seen = Unseen]
             ELSE run' = [run EXCEPT ![p].pc = "FIND_GRACE", ![p].unread = graced]
    /\ UNCHANGED <<lockVars, saved, deaths>>

\* 75 seconds are long for everything but another wait: an owner that acts has
\* acted, and a beating session has rewritten its lock, unless it is held up.
Stands(o, l) == run[o].pc \in {"REFUSED", "ENDED"} \/ (run[o].pc = "RUNNING" /\ l = StartLock)
GraceOver(l, c) ==
    IsRunning(c.owner) => file[l] # c \/ Waits(c.owner) \/ Stands(c.owner, l) \/ c.owner \in asleep

FindAgain(p, d) ==
    /\ In(p, "FIND_GRACE") /\ d \in run[p].unread
    /\ GraceOver(d, run[p].seen[d])
    /\ \/ /\ file[d] \in {NoLock, run[p].seen[d]}
          /\ IF run[p].unread = {d}
             THEN run' = [run EXCEPT ![p].pc = "CHOOSE", ![p].unread = {}, ![p].seen = Unseen]
             ELSE run' = [run EXCEPT ![p].unread = @ \ {d}]
       \/ /\ file[d] \notin {NoLock, run[p].seen[d]}
          /\ run' = [run EXCEPT ![p].pc = "RELEASE", ![p].unread = {}, ![p].seen = Unseen]
    /\ UNCHANGED <<lockVars, saved, deaths>>

GraceEnds(p) ==
    /\ GraceOver(Lock(p), call[p].read)
    /\ EndGrace(p)
    /\ UNCHANGED <<run, saved, deaths>>

\* decideRunResumption: a Run in progress or stopped may have pages left to audit.
IsResumable(state) == state.status \in {"IN_PROGRESS", "STOPPED"}

\* chooseRunToResume: a Run is resumed from what was saved of it, or a new one made.
Choose(p) ==
    /\ In(p, "CHOOSE")
    /\ \/ run' = [run EXCEPT ![p].pc = "CONFIRM_START", ![p].dir = p]
       \/ \E d \in Runs :
            /\ IsResumable(saved[d])
            /\ run' = [run EXCEPT ![p].pc = "CONFIRM_START", ![p].dir = d, ![p].expected = saved[d]]
    /\ UNCHANGED <<lockVars, saved, deaths>>

ConfirmStart(p) ==
    /\ In(p, "CONFIRM_START")
    /\ \/ /\ ~IsOwn(p, StartLock)
          /\ To(p, "RELEASE") /\ UNCHANGED call
       \/ /\ IsOwn(p, StartLock) /\ dir(p) = p
          /\ To(p, "MAKE") /\ UNCHANGED call
       \/ /\ IsOwn(p, StartLock) /\ dir(p) # p
          /\ To(p, "LOCK") /\ Begin(p, dir(p))
    /\ UNCHANGED <<file, token, dead, reset, asleep, saved, deaths>>

\* The directory of a new Run is created by its start alone.
Make(p) ==
    /\ In(p, "MAKE")
    /\ saved' = [saved EXCEPT ![p] = NoState]
    /\ To(p, "LOCK_NEW")
    /\ UNCHANGED <<lockVars, deaths>>

LockNew(p) ==
    /\ In(p, "LOCK_NEW")
    /\ file[p] = NoLock
    /\ SetFile(p, Own(p))
    /\ run' = [run EXCEPT ![p].pc = "RELEASE", ![p].session = "ACTIVE"]
    /\ UNCHANGED <<token, call, dead, reset, asleep, saved, deaths>>

Locked(p) ==
    /\ In(p, "LOCK")
    /\ \/ Returned(p, {"ACQUIRED"}) /\ To(p, "CHECK")
       \/ Returned(p, {"HELD", "CONTENDED"}) /\ To(p, "RELEASE")
    /\ Forget(p)
    /\ UNCHANGED <<file, token, dead, reset, asleep, saved, deaths>>

(* Mutant: the state chosen from is not read again. *)
NoCheck(p) ==
    /\ In(p, "CHECK")
    /\ To(p, "CLEANUP")
    /\ UNCHANGED <<lockVars, saved, deaths>>

\* The state must still be the one the choice was made on.
Check(p) ==
    /\ In(p, "CHECK")
    /\ To(p, IF saved[dir(p)] = run[p].expected THEN "CLEANUP" ELSE "UNLOCK_REFUSED")
    /\ UNCHANGED <<lockVars, saved, deaths>>

UnlockRefused(p) ==
    /\ In(p, "UNLOCK_REFUSED")
    /\ SetFile(dir(p), NoLock)
    /\ To(p, "RELEASE")
    /\ UNCHANGED <<token, call, dead, reset, asleep, saved, deaths>>

\* cleanUpForResume removes the pages that were not completed, temporary files, and
\* the takeover token of a dead process, read before it is removed.
CleanUp(p) ==
    /\ In(p, "CLEANUP")
    /\ To(p, IF token[dir(p)] = NoToken \/ isLiveTakeoverToken(p, token[dir(p)])
             THEN "CONFIRM_RUN" ELSE "CLEANUP_REMOVE")
    /\ UNCHANGED <<lockVars, saved, deaths>>

CleanUpRemove(p) ==
    /\ In(p, "CLEANUP_REMOVE")
    /\ SetToken(dir(p), NoToken)
    /\ To(p, "CONFIRM_RUN")
    /\ UNCHANGED <<file, call, dead, reset, asleep, saved, deaths>>

ConfirmRun(p) ==
    /\ In(p, "CONFIRM_RUN")
    /\ run' = [run EXCEPT ![p].pc = "RELEASE", ![p].session = IF IsOwn(p, dir(p)) THEN "ACTIVE" ELSE @]
    /\ UNCHANGED <<lockVars, saved, deaths>>

AfterRelease(p) == To(p, IF run[p].session = "NONE" THEN "REFUSED" ELSE "RUNNING")

\* A start lock that reads as another's, or as none, is left alone, and not read again.
Release(p) ==
    /\ In(p, "RELEASE")
    /\ IF IsOwn(p, StartLock) THEN To(p, "RELEASE_REMOVE") ELSE AfterRelease(p)
    /\ UNCHANGED <<lockVars, saved, deaths>>

ReleaseRemove(p) ==
    /\ In(p, "RELEASE_REMOVE")
    /\ SetFile(StartLock, NoLock)
    /\ AfterRelease(p)
    /\ UNCHANGED <<token, call, dead, reset, asleep, saved, deaths>>

-----------------------------------------------------------------------------
(* The session: heartbeats beside saves, each after a read of the lock. *)

\* A lock that cannot be read is read once more; one that is not its own is lost.
ReadsOwn(p, field, next) == IsOwn(p, dir(p)) /\ run' = [run EXCEPT ![p][field] = next]
LosesLock(p, field) ==
    /\ ~IsOwn(p, dir(p))
    /\ run' = [run EXCEPT ![p][field] = "IDLE", ![p].session = IF @ = "ACTIVE" THEN "LOST" ELSE @]
ReadsOnce(p, field, next, again) ==
    \/ ReadsOwn(p, field, next)
    \/ file[dir(p)] = NoLock /\ run' = [run EXCEPT ![p][field] = again]
    \/ file[dir(p)] # NoLock /\ LosesLock(p, field)
ReadsAgain(p, field, next) == ReadsOwn(p, field, next) \/ LosesLock(p, field)

Beat(p) ==
    /\ Awake(p) /\ run[p].session = "ACTIVE" /\ run[p].beat = "IDLE" /\ run[p].beats < MaxBeats
    /\ ReadsOnce(p, "beat", "WRITE", "AGAIN")
    /\ UNCHANGED <<lockVars, saved, deaths>>

BeatAgain(p) ==
    /\ Awake(p) /\ run[p].beat = "AGAIN"
    /\ ReadsAgain(p, "beat", "WRITE")
    /\ UNCHANGED <<lockVars, saved, deaths>>

\* The write replaces whatever lock is there, and ends even if the session lost its lock.
BeatWrite(p) ==
    /\ Awake(p) /\ run[p].beat = "WRITE"
    /\ SetFile(dir(p), [owner |-> p, beat |-> run[p].beats + 1])
    /\ run' = [run EXCEPT ![p].beat = "IDLE", ![p].beats = @ + 1]
    /\ UNCHANGED <<token, call, dead, reset, asleep, saved, deaths>>

(* Mutant: the lock is not read before a save. *)
SaveUnread(p) ==
    /\ In(p, "RUNNING") /\ run[p].session = "ACTIVE" /\ run[p].save = "IDLE"
    /\ run' = [run EXCEPT ![p].save = IF run[p].saves < MaxSaves THEN "WRITE" ELSE "LAST"]
    /\ UNCHANGED <<lockVars, saved, deaths>>

Save(p) ==
    /\ In(p, "RUNNING") /\ run[p].session = "ACTIVE" /\ run[p].save = "IDLE"
    /\ \/ run[p].saves < MaxSaves /\ ReadsOnce(p, "save", "WRITE", "AGAIN")
       \/ ReadsOnce(p, "save", "LAST", "LAST_AGAIN")
    /\ UNCHANGED <<lockVars, saved, deaths>>

SaveAgain(p) ==
    /\ In(p, "RUNNING")
    /\ \/ run[p].save = "AGAIN" /\ ReadsAgain(p, "save", "WRITE")
       \/ run[p].save = "LAST_AGAIN" /\ ReadsAgain(p, "save", "LAST")
    /\ UNCHANGED <<lockVars, saved, deaths>>

SaveWrite(p) ==
    /\ In(p, "RUNNING") /\ run[p].save = "WRITE"
    /\ saved' = [saved EXCEPT ![dir(p)] = [status |-> "IN_PROGRESS", by |-> p, count |-> run[p].saves + 1]]
    /\ run' = [run EXCEPT ![p].save = "IDLE", ![p].saves = @ + 1]
    /\ UNCHANGED <<lockVars, deaths>>

\* finish: the last state, the end of the heartbeat, then the lock.
SaveLast(p) ==
    /\ In(p, "RUNNING") /\ run[p].save = "LAST"
    /\ \E status \in {"STOPPED", "FINISHED"} :
         saved' = [saved EXCEPT ![dir(p)] = [status |-> status, by |-> p, count |-> run[p].saves + 1]]
    /\ run' = [run EXCEPT ![p].pc = "UNLOCK", ![p].save = "IDLE", ![p].session = "ENDED"]
    /\ UNCHANGED <<lockVars, deaths>>

Unlock(p) ==
    /\ In(p, "UNLOCK") /\ run[p].beat = "IDLE"
    /\ SetFile(dir(p), NoLock)
    /\ To(p, "ENDED")
    /\ UNCHANGED <<token, call, dead, reset, asleep, saved, deaths>>

\* endWorkerRun: a worker saves no state; it ends its heartbeat and removes its lock.
EndWorkerRun(p) ==
    /\ In(p, "RUNNING") /\ run[p].session = "ACTIVE"
    /\ dir(p) = p /\ run[p].saves = 0 /\ run[p].save = "IDLE"
    /\ run' = [run EXCEPT ![p].pc = "UNLOCK", ![p].session = "ENDED"]
    /\ UNCHANGED <<lockVars, saved, deaths>>

\* A session that fails, or that lost its lock, ends and leaves the lock alone.
Abandon(p) ==
    /\ In(p, "RUNNING") /\ run[p].session \in {"ACTIVE", "LOST"}
    /\ run[p].save = "IDLE" /\ run[p].beat = "IDLE"
    /\ run' = [run EXCEPT ![p].pc = "ENDED", ![p].session = IF @ = "ACTIVE" THEN "ENDED" ELSE @]
    /\ UNCHANGED <<lockVars, saved, deaths>>

-----------------------------------------------------------------------------
\* A session is held up (a machine asleep, a terminal that takes no output) while
\* it writes nothing, and does not wake in the moments of a takeover.
Sleep(p) ==
    /\ In(p, "RUNNING") /\ run[p].session = "ACTIVE"
    /\ run[p].beat # "WRITE" /\ run[p].save \notin {"WRITE", "LAST"}
    /\ Cardinality({q \in Starts : run[q].slept}) < MaxSleeps
    /\ asleep' = asleep \cup {p}
    /\ run' = [run EXCEPT ![p].slept = TRUE]
    /\ UNCHANGED <<file, token, call, dead, reset, saved, deaths>>

Wake(p) ==
    /\ p \in asleep
    /\ \A q \in Starts : call[q].read.owner = p => call[q].pc = "GRACE"
    /\ asleep' = asleep \ {p}
    /\ UNCHANGED <<file, token, call, dead, reset, run, saved, deaths>>

Exit(p) ==
    /\ Awake(p) /\ run[p].pc \in {"REFUSED", "ENDED"}
    /\ dead' = dead \cup {p}
    /\ UNCHANGED <<file, token, call, reset, asleep, run, saved, deaths>>

Crash(p) ==
    /\ p \notin dead /\ run[p].pc \notin {"NONE", "REFUSED", "ENDED"}
    /\ deaths < MaxDeaths
    /\ deaths' = deaths + 1
    /\ dead' = dead \cup {p}
    /\ asleep' = asleep \ {p}
    /\ call' = [call EXCEPT ![p] = NoCall]
    /\ run' = [run EXCEPT ![p] = [NoRun EXCEPT !.pc = "ENDED", !.dir = dir(p)]]
    /\ UNCHANGED <<file, token, reset, saved>>

CallGoesOn(p) == CallStep(p) /\ UNCHANGED <<run, saved, deaths>>

StartStep(p) ==
    \/ Launch(p) \/ CallGoesOn(p) \/ GraceEnds(p) \/ Hold(p) \/ List(p) \/ FindJudge(p)
    \/ \E d \in Runs : FindRead(p, d) \/ FindAgain(p, d)
    \/ Choose(p) \/ ConfirmStart(p) \/ Make(p) \/ LockNew(p) \/ Locked(p) \/ Check(p)
    \/ UnlockRefused(p) \/ CleanUp(p) \/ CleanUpRemove(p) \/ ConfirmRun(p) \/ Release(p) \/ ReleaseRemove(p)

SessionStep(p) ==
    \/ Beat(p) \/ BeatAgain(p) \/ BeatWrite(p) \/ Save(p) \/ SaveAgain(p) \/ SaveWrite(p)
    \/ SaveLast(p) \/ Unlock(p) \/ EndWorkerRun(p) \/ Abandon(p)

Next == \E p \in Starts : StartStep(p) \/ SessionStep(p) \/ Sleep(p) \/ Wake(p) \/ Exit(p) \/ Crash(p)

Spec == Init /\ [][Next]_vars

-----------------------------------------------------------------------------
(* Properties. *)

\* Types of the variables, the files and calls included.
RunTypeOK ==
    /\ LockTypeOK
    /\ run \in [Starts -> RunRecords]
    /\ saved \in [Runs -> States]
    /\ deaths \in 0 .. MaxDeaths

Running(p) == p \notin dead /\ run[p].session = "ACTIVE"
Writing(p) == p \notin dead /\ (run[p].save \in {"WRITE", "LAST"} \/ run[p].pc \in {"CLEANUP", "CLEANUP_REMOVE"})

\* One output directory has at most one Run at a time (spec/cli.md), those apart
\* that were held up for so long that they passed for dead.
OneRunPerOutputDirectory ==
    \A p, q \in Starts :
        Running(p) /\ Running(q) /\ ~run[p].slept /\ ~run[q].slept => p = q

\* No two processes are about to write into the same Run, whatever became of their locks.
OneWriterPerRun == \A p, q \in Starts : Writing(p) /\ Writing(q) /\ dir(p) = dir(q) => p = q

\* A resumed Run goes on from what its choice read: nothing was saved in between,
\* unless its session was held up for so long that another start took the Run over.
ResumesWhatWasSaved ==
    \A p \in Starts :
        /\ p \notin dead /\ dir(p) # p
        /\ \/ run[p].pc \in {"CLEANUP", "CLEANUP_REMOVE", "CONFIRM_RUN"}
           \/ Running(p) /\ ~run[p].slept /\ run[p].saves = 0
        => saved[dir(p)] = run[p].expected

\* A heartbeat, a finish and a release replace or remove no lock but their own.
TouchesOwnLock(p) ==
    /\ BeatWrite(p) \/ Unlock(p) \/ UnlockRefused(p) => file[dir(p)].owner \in {p, Nobody}
    /\ ReleaseRemove(p) => file[StartLock].owner \in {p, Nobody}
TouchesOnlyOwnLock == [][\A p \in Starts : TouchesOwnLock(p)]_vars
=============================================================================
