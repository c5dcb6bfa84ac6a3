------------------------------- MODULE LockFiles -------------------------------
(***************************************************************************)
(* The lock files of an output directory (core/lock-file.ts and            *)
(* core/process-lock.ts): the start lock of the directory and the run.lock *)
(* of each of its Runs.  A lock file appears with its whole content or not *)
(* at all; a lock judged stale is taken over under a token, by moving it   *)
(* to a unique name, comparing what was moved with what was judged, and    *)
(* creating a new one.  Each step below is one operation of the file       *)
(* system, with the decision the caller draws from its result, so two      *)
(* processes interleave between any two operations.  The module describes  *)
(* the calls; RunStart makes them.                                         *)
(***************************************************************************)
EXTENDS Integers

CONSTANTS
    Starts,      \* the processes that start a Run
    Old,         \* a process that died in the middle of a Run; also the Run it left
    Nobody,      \* the owner of no lock
    StartLock,   \* the start lock of the output directory
    MaxBeats     \* bound: heartbeats of one session

ASSUME LockAssumption ==
    /\ Old \notin Starts /\ Nobody \notin Starts \cup {Old}
    /\ StartLock \notin Starts \cup {Old}
    /\ MaxBeats \in Nat

VARIABLES
    file,    \* the content of each lock file
    token,   \* the takeover token beside each lock file
    call,    \* the lock call each start has under way
    dead,    \* the processes that no longer run
    reset,   \* the starts made after the clock of the machine was set
    asleep   \* the processes held up for longer than a lock stays fresh

lockVars == <<file, token, call, dead, reset, asleep>>

Owners == Starts \cup {Old}
Runs == Starts \cup {Old}            \* a new Run is named after its start
Locks == Runs \cup {StartLock}

\* A lock names its owner and, by its heartbeat, which of its writings it is.
NoLock == [owner |-> Nobody, beat |-> 0]
Content == [owner : Owners, beat : 0 .. MaxBeats] \cup {NoLock}

\* A token names its owner and, by its time of creation, which takeover made it.
NoToken == [owner |-> Nobody, attempt |-> 0]
LOCK_TAKEOVER_MAX_ATTEMPTS == 3
TAKEOVER_TOKEN_MAX_ATTEMPTS == 2
Tokens == [owner : Owners, attempt : 0 .. LOCK_TAKEOVER_MAX_ATTEMPTS] \cup {NoToken}

NoCall == [pc |-> "NONE", lock |-> StartLock, read |-> NoLock, holder |-> NoToken,
           attempt |-> 0, tries |-> 0, result |-> "NONE"]

CallSteps == {"NONE", "SWEEP", "SWEEP_REMOVE", "CREATE", "READ", "GRACE", "TOKEN", "TOKEN_READ",
              "TOKEN_MOVE", "TOKEN_RESTORE", "MOVE", "RESTORE", "RECREATE", "DROP", "RETURNED"}

Calls == [pc : CallSteps, lock : Locks, read : Content, holder : Tokens,
          attempt : 0 .. LOCK_TAKEOVER_MAX_ATTEMPTS, tries : 0 .. TAKEOVER_TOKEN_MAX_ATTEMPTS - 1,
          result : {"NONE", "ACQUIRED", "HELD", "CONTENDED", "CHANGED", "LOST"}]

-----------------------------------------------------------------------------
(* Judging a lock and a token. *)

IsRunning(o) == o \in Starts \ dead

\* The boot times computed before and after the clock was set differ, so each
\* side finds the other's lock and token too far from its own boot time.
OtherClock(p, o) == (p \in reset) # (o \in reset)
LooksStale(p, o) == OtherClock(p, o) \/ o \in asleep

judgeRunLock(p, c) == IF IsRunning(c.owner) /\ ~LooksStale(p, c.owner) THEN "ACTIVE" ELSE "STALE"
isLiveTakeoverToken(p, t) == IsRunning(t.owner) /\ ~OtherClock(p, t.owner)

(* Mutant: a lock that looks stale is taken over at once. *)
NeverGrace(p, c) == FALSE

\* A lock that looks stale although its owner runs is waited for before it is taken.
NeedsGrace(p, c) == IsRunning(c.owner) /\ LooksStale(p, c.owner)

-----------------------------------------------------------------------------
(* The course of one call. *)

At(p, step) == p \notin dead \cup asleep /\ call[p].pc = step
Lock(p) == call[p].lock
Own(p) == [owner |-> p, beat |-> 0]

Go(p, step) == call' = [call EXCEPT ![p].pc = step]
Return(p, kind) == call' = [call EXCEPT ![p] = [NoCall EXCEPT !.pc = "RETURNED", !.lock = Lock(p), !.result = kind]]
Finish(p, outcome) == call' = [call EXCEPT ![p].pc = "DROP", ![p].result = outcome]

\* Only the start lock has the files beside it swept before it is created.
FirstStep(l) == IF l = StartLock THEN "SWEEP" ELSE "CREATE"
Begin(p, l) == call' = [call EXCEPT ![p] = [NoCall EXCEPT !.pc = FirstStep(l), !.lock = l]]

SetFile(l, c) == file' = [file EXCEPT ![l] = c]
SetToken(l, t) == token' = [token EXCEPT ![l] = t]

\* removeDeadLockSideFiles: reads the token; removes whatever is there if it was dead.
Sweep(p) ==
    /\ At(p, "SWEEP")
    /\ Go(p, IF token[Lock(p)] = NoToken \/ isLiveTakeoverToken(p, token[Lock(p)])
             THEN "CREATE" ELSE "SWEEP_REMOVE")
    /\ UNCHANGED <<file, token, dead, reset, asleep>>

SweepRemove(p) ==
    /\ At(p, "SWEEP_REMOVE")
    /\ SetToken(Lock(p), NoToken)
    /\ Go(p, "CREATE")
    /\ UNCHANGED <<file, dead, reset, asleep>>

(* Mutant: the lock is written to its name, over whatever is there. *)
CreateOver(p) ==
    /\ At(p, "CREATE")
    /\ SetFile(Lock(p), Own(p))
    /\ Return(p, "ACQUIRED")
    /\ UNCHANGED <<token, dead, reset, asleep>>

\* The link of a finished temporary file fails when the name is taken.
Create(p) ==
    /\ At(p, "CREATE")
    /\ \/ /\ file[Lock(p)] = NoLock
          /\ SetFile(Lock(p), Own(p))
          /\ Return(p, "ACQUIRED")
       \/ /\ file[Lock(p)] # NoLock
          /\ Go(p, "READ")
          /\ UNCHANGED file
    /\ UNCHANGED <<token, dead, reset, asleep>>

\* The lock that was in the way is read later; it may be gone or another by then.
\* Only the first judgement waits for a living owner whose lock looks stale.
Read(p) ==
    LET c == file[Lock(p)] IN
    /\ At(p, "READ")
    /\ \/ /\ call[p].attempt = LOCK_TAKEOVER_MAX_ATTEMPTS
          /\ Return(p, "CONTENDED")
       \/ /\ call[p].attempt < LOCK_TAKEOVER_MAX_ATTEMPTS
          /\ judgeRunLock(p, c) = "ACTIVE"
          /\ Return(p, "HELD")
       \/ /\ call[p].attempt < LOCK_TAKEOVER_MAX_ATTEMPTS
          /\ judgeRunLock(p, c) = "STALE"
          /\ call' = [call EXCEPT
               ![p].pc = IF NeedsGrace(p, c) /\ call[p].attempt = 0 THEN "GRACE" ELSE "TOKEN",
               ![p].read = c]
    /\ UNCHANGED <<file, token, dead, reset, asleep>>

EndGrace(p) ==
    /\ At(p, "GRACE")
    /\ IF file[Lock(p)] \in {NoLock, call[p].read} THEN Go(p, "TOKEN") ELSE Return(p, "HELD")
    /\ UNCHANGED <<file, token, dead, reset, asleep>>

-----------------------------------------------------------------------------
(* takeOverLockFile. *)

(* Mutant: dead tokens are removed without end. *)
TakeTokenAgain(p) ==
    /\ At(p, "TOKEN")
    /\ IF token[Lock(p)] = NoToken
       THEN SetToken(Lock(p), [owner |-> p, attempt |-> call[p].attempt]) /\ Go(p, "MOVE")
       ELSE /\ call' = [call EXCEPT ![p].pc = "TOKEN_READ", ![p].tries = @ + 1]
            /\ UNCHANGED token
    /\ UNCHANGED <<file, dead, reset, asleep>>

TakeToken(p) ==
    /\ At(p, "TOKEN")
    /\ \/ /\ token[Lock(p)] = NoToken
          /\ SetToken(Lock(p), [owner |-> p, attempt |-> call[p].attempt])
          /\ Go(p, "MOVE")
       \/ /\ token[Lock(p)] # NoToken
          /\ IF call[p].tries + 1 = TAKEOVER_TOKEN_MAX_ATTEMPTS
             THEN Return(p, "CONTENDED")
             ELSE call' = [call EXCEPT ![p].pc = "TOKEN_READ", ![p].tries = @ + 1]
          /\ UNCHANGED token
    /\ UNCHANGED <<file, dead, reset, asleep>>

ReadToken(p) ==
    LET t == token[Lock(p)] IN
    /\ At(p, "TOKEN_READ")
    /\ IF isLiveTakeoverToken(p, t)
       THEN Return(p, "CONTENDED")
       ELSE call' = [call EXCEPT ![p].pc = "TOKEN_MOVE", ![p].holder = t]
    /\ UNCHANGED <<file, token, dead, reset, asleep>>

\* A token that is not the one read is put back, and the takeover given up.
MoveToken(p) ==
    LET t == token[Lock(p)] IN
    /\ At(p, "TOKEN_MOVE")
    /\ SetToken(Lock(p), NoToken)
    /\ call' = [call EXCEPT
         ![p].pc = IF t \in {NoToken, call[p].holder} THEN "TOKEN" ELSE "TOKEN_RESTORE",
         ![p].holder = t]
    /\ UNCHANGED <<file, dead, reset, asleep>>

RestoreToken(p) ==
    /\ At(p, "TOKEN_RESTORE")
    /\ SetToken(Lock(p), IF token[Lock(p)] = NoToken THEN call[p].holder ELSE token[Lock(p)])
    /\ Return(p, "CONTENDED")
    /\ UNCHANGED <<file, dead, reset, asleep>>

(* Mutant: what was moved is not compared with what was judged. *)
MoveAnyLock(p) ==
    /\ At(p, "MOVE")
    /\ SetFile(Lock(p), NoLock)
    /\ IF file[Lock(p)] = NoLock THEN Finish(p, "CHANGED") ELSE Go(p, "RECREATE")
    /\ UNCHANGED <<token, dead, reset, asleep>>

\* The moved file has a name of its own, so what was moved is what is compared.
MoveLock(p) ==
    LET c == file[Lock(p)] IN
    /\ At(p, "MOVE")
    /\ SetFile(Lock(p), NoLock)
    /\ \/ c = NoLock /\ Finish(p, "CHANGED")
       \/ c # NoLock /\ call' = [call EXCEPT
            ![p].pc = IF c = call[p].read THEN "RECREATE" ELSE "RESTORE",
            ![p].read = c]
    /\ UNCHANGED <<token, dead, reset, asleep>>

\* Never over another lock: when the name was taken meanwhile, the moved lock is lost.
RestoreLock(p) ==
    /\ At(p, "RESTORE")
    /\ SetFile(Lock(p), IF file[Lock(p)] = NoLock THEN call[p].read ELSE file[Lock(p)])
    /\ Finish(p, "LOST")
    /\ UNCHANGED <<token, dead, reset, asleep>>

Recreate(p) ==
    /\ At(p, "RECREATE")
    /\ \/ /\ file[Lock(p)] = NoLock
          /\ SetFile(Lock(p), Own(p))
          /\ Finish(p, "ACQUIRED")
       \/ /\ file[Lock(p)] # NoLock
          /\ UNCHANGED file
          /\ Finish(p, "LOST")
    /\ UNCHANGED <<token, dead, reset, asleep>>

\* The token is removed whoever made it; a changed lock is then acquired anew.
DropToken(p) ==
    /\ At(p, "DROP")
    /\ SetToken(Lock(p), NoToken)
    /\ CASE call[p].result = "ACQUIRED" -> Return(p, "ACQUIRED")
         [] call[p].result = "LOST" -> Return(p, "CONTENDED")
         [] call[p].result = "CHANGED" ->
              call' = [call EXCEPT ![p] = [NoCall EXCEPT !.pc = FirstStep(Lock(p)), !.lock = Lock(p),
                                                         !.attempt = call[p].attempt + 1]]
    /\ UNCHANGED <<file, dead, reset, asleep>>

\* Every step of a call but the end of its grace.
CallStep(p) ==
    \/ Sweep(p) \/ SweepRemove(p) \/ Create(p) \/ Read(p)
    \/ TakeToken(p) \/ ReadToken(p) \/ MoveToken(p) \/ RestoreToken(p)
    \/ MoveLock(p) \/ RestoreLock(p) \/ Recreate(p) \/ DropToken(p)

LockTypeOK ==
    /\ file \in [Locks -> Content]
    /\ token \in [Locks -> Tokens]
    /\ call \in [Starts -> Calls]
    /\ dead \subseteq Starts
    /\ reset \subseteq Starts
    /\ asleep \subseteq Starts

=============================================================================
