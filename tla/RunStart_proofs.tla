--------------------------- MODULE RunStart_proofs ---------------------------
(***************************************************************************)
(* Proofs about RunStart, for any number of heartbeats, saves, sleeps and  *)
(* deaths.                                                                 *)
(*                                                                         *)
(* For any number of starts: what a start judges, moves, puts back and     *)
(* saves has its type, and a call always ends with an outcome its caller   *)
(* knows (RunTypeHolds). The types alone are not inductive: the counters   *)
(* stay below their limits only because a takeover, a heartbeat and a save *)
(* begin below them (CallsOK, SessionsOK), and a takeover that drops its   *)
(* token has an outcome, without which DropToken would say nothing of the  *)
(* call.                                                                   *)
(*                                                                         *)
(* For two starts: who writes has the Run to itself, one output directory  *)
(* has one Run, a resumption goes on from what was saved, and nobody       *)
(* touches the lock of the other (the last part of the module). The        *)
(* invariant, RunInv, says for every place of one start where its two      *)
(* locks can be: under their names, moved by the other start which is      *)
(* about to put them back, or taken over from a session that is held up.   *)
(***************************************************************************)
EXTENDS RunStart, TLAPS

-----------------------------------------------------------------------------
(* The inductive invariant of the types *)

TakeoverSteps == {"GRACE", "TOKEN", "TOKEN_READ", "TOKEN_MOVE", "TOKEN_RESTORE", "MOVE", "RESTORE", "RECREATE", "DROP"}

(* A takeover begins below the limit of attempts, and drops its token with  *)
(* an outcome.                                                              *)
CallsOK ==
    \A p \in Starts :
        /\ call[p].pc \in TakeoverSteps => call[p].attempt < LOCK_TAKEOVER_MAX_ATTEMPTS
        /\ call[p].pc = "DROP" => call[p].result \in {"ACQUIRED", "LOST", "CHANGED"}

(* A heartbeat and a save begin below their bounds.                         *)
SessionsOK ==
    \A p \in Starts :
        /\ run[p].beat # "IDLE" => run[p].beats < MaxBeats
        /\ run[p].save \in {"WRITE", "AGAIN"} => run[p].saves < MaxSaves

StartInv == RunTypeOK /\ CallsOK /\ SessionsOK

-----------------------------------------------------------------------------
(* Records *)

(* The kinds of the constants, and the records that stand for nothing       *)
LEMMA EmptyKinds ==
    /\ NoLock \in Content /\ NoToken \in Tokens /\ NoCall \in Calls /\ NoRun \in RunRecords
    /\ NoDirectory \in States /\ NoState \in States /\ LeftBehind \in States
    /\ \A o \in Owners : Own(o) \in Content
    /\ Starts \subseteq Runs /\ Runs \subseteq Locks /\ StartLock \in Locks /\ Old \in Runs /\ Runs = Owners
<1>1. Starts \subseteq Runs /\ Runs \subseteq Locks /\ StartLock \in Locks /\ Old \in Runs /\ Runs = Owners
    BY DEF Runs, Locks, Owners
<1>2. NoLock \in Content /\ NoToken \in Tokens /\ \A o \in Owners : Own(o) \in Content
    BY LockAssumption DEF Content, Tokens, Own
<1>3. NoDirectory \in States /\ NoState \in States /\ LeftBehind \in States
    BY <1>1, RunAssumption DEF States, LeftBehind
<1>4. NoCall \in Calls
    BY <1>1, <1>2 DEF NoCall, Calls, CallSteps, LOCK_TAKEOVER_MAX_ATTEMPTS, TAKEOVER_TOKEN_MAX_ATTEMPTS
<1>5. Unseen \in [Runs -> Content]
    BY <1>2 DEF Unseen
<1>6. NoRun \in RunRecords
    <2>1. MaxBeats \in Nat /\ MaxSaves \in Nat
        BY LockAssumption, RunAssumption
    <2> HIDE DEF Unseen
    <2> QED BY <1>1, <1>3, <1>5, <2>1 DEF NoRun, RunRecords, Steps
<1> QED BY <1>1, <1>2, <1>3, <1>4, <1>6

(* A call that begins, or begins anew after so many attempts                *)
LEMMA BegunCalls ==
    ASSUME NEW l \in Locks, NEW n \in 0 .. LOCK_TAKEOVER_MAX_ATTEMPTS
    PROVE  \A c : c = [NoCall EXCEPT !.pc = FirstStep(l), !.lock = l, !.attempt = n]
                    => c \in Calls /\ c.pc \notin TakeoverSteps
<1> PICK first : first = FirstStep(l)
    OBVIOUS
<1>1. first \in {"SWEEP", "CREATE"}
    BY DEF FirstStep
<1>2. NoCall \in Calls
    BY EmptyKinds
<1>3. [NoCall EXCEPT !.pc = first, !.lock = l, !.attempt = n] \in Calls
    BY <1>1, <1>2 DEF Calls, CallSteps
<1>4. [NoCall EXCEPT !.pc = first, !.lock = l, !.attempt = n].pc = first
    BY <1>2 DEF Calls
<1> QED BY <1>1, <1>3, <1>4 DEF TakeoverSteps

CallOK(c) ==
    /\ c.pc \in TakeoverSteps => c.attempt < LOCK_TAKEOVER_MAX_ATTEMPTS
    /\ c.pc = "DROP" => c.result \in {"ACQUIRED", "LOST", "CHANGED"}

(* One call is changed into one that is as it should be.                    *)
LEMMA CallChanges ==
    ASSUME LockTypeOK, CallsOK, NEW p \in Starts, NEW c \in Calls, CallOK(c), call' = [call EXCEPT ![p] = c]
    PROVE  call' \in [Starts -> Calls] /\ CallsOK'
BY DEF LockTypeOK, CallsOK, CallOK

(* The moves of a call: to a step, to its return, to the end of a takeover  *)
LEMMA CallMoves ==
    ASSUME LockTypeOK, CallsOK, NEW p \in Starts
    PROVE  /\ \A step \in CallSteps \ {"DROP"} :
                Go(p, step) /\ (step \in TakeoverSteps => call[p].pc \in TakeoverSteps)
                    => call' \in [Starts -> Calls] /\ CallsOK'
           /\ \A kind \in {"ACQUIRED", "HELD", "CONTENDED"} :
                Return(p, kind) => call' \in [Starts -> Calls] /\ CallsOK'
           /\ \A outcome \in {"ACQUIRED", "LOST", "CHANGED"} :
                Finish(p, outcome) /\ call[p].pc \in TakeoverSteps => call' \in [Starts -> Calls] /\ CallsOK'
<1>1. call \in [Starts -> Calls] /\ call[p] \in Calls
    BY DEF LockTypeOK
<1>2. ASSUME NEW step \in CallSteps \ {"DROP"}, Go(p, step), step \in TakeoverSteps => call[p].pc \in TakeoverSteps
      PROVE  call' \in [Starts -> Calls] /\ CallsOK'
    <2>1. [call[p] EXCEPT !.pc = step] \in Calls /\ CallOK([call[p] EXCEPT !.pc = step])
        BY <1>1, <1>2 DEF Calls, CallsOK, CallOK
    <2>2. call' = [call EXCEPT ![p] = [call[p] EXCEPT !.pc = step]]
        BY <1>1, <1>2 DEF Go
    <2> QED BY <2>1, <2>2, CallChanges
<1>3. ASSUME NEW kind \in {"ACQUIRED", "HELD", "CONTENDED"}, Return(p, kind)
      PROVE  call' \in [Starts -> Calls] /\ CallsOK'
    <2>1. PICK c : c = [NoCall EXCEPT !.pc = "RETURNED", !.lock = Lock(p), !.result = kind]
        OBVIOUS
    <2>2. PICK step : step = "RETURNED"
        OBVIOUS
    <2>3. c = [NoCall EXCEPT !.pc = step, !.lock = Lock(p), !.result = kind] /\ step \in CallSteps /\ step \notin TakeoverSteps
        BY <2>1, <2>2 DEF CallSteps, TakeoverSteps
    <2>4. NoCall \in Calls /\ Lock(p) \in Locks
        BY <1>1, EmptyKinds DEF Lock, Calls
    <2>5. c \in Calls /\ c.pc = step
        BY <2>3, <2>4 DEF Calls
    <2>6. CallOK(c)
        BY <2>3, <2>5 DEF CallOK, TakeoverSteps
    <2>7. call' = [call EXCEPT ![p] = c]
        BY <1>3, <2>1 DEF Return
    <2> QED BY <2>5, <2>6, <2>7, CallChanges
<1>4. ASSUME NEW outcome \in {"ACQUIRED", "LOST", "CHANGED"}, Finish(p, outcome), call[p].pc \in TakeoverSteps
      PROVE  call' \in [Starts -> Calls] /\ CallsOK'
    <2>1. PICK step : step = "DROP"
        OBVIOUS
    <2>2. [call[p] EXCEPT !.pc = step, !.result = outcome] \in Calls
        BY <1>1, <2>1 DEF Calls, CallSteps
    <2>3. CallOK([call[p] EXCEPT !.pc = step, !.result = outcome])
        BY <1>1, <1>4, <2>1 DEF Calls, CallsOK, CallOK
    <2>4. call' = [call EXCEPT ![p] = [call[p] EXCEPT !.pc = step, !.result = outcome]]
        BY <1>1, <1>4, <2>1 DEF Finish
    <2> QED BY <2>2, <2>3, <2>4, CallChanges
<1> QED BY <1>2, <1>3, <1>4

(* What is written into a lock file or a token, or begun, has its kind.     *)
LEMMA FileChanges ==
    ASSUME LockTypeOK, NEW l \in Locks
    PROVE  /\ \A c \in Content : SetFile(l, c) => file' \in [Locks -> Content]
           /\ \A t \in Tokens : SetToken(l, t) => token' \in [Locks -> Tokens]
BY DEF LockTypeOK, SetFile, SetToken

(* A step of a call, the end of its grace included                          *)
LEMMA CallStepKinds ==
    ASSUME LockTypeOK, CallsOK, NEW p \in Starts, CallStep(p) \/ EndGrace(p)
    PROVE  LockTypeOK' /\ CallsOK'
<1>1. call \in [Starts -> Calls] /\ call[p] \in Calls /\ Lock(p) \in Locks
      /\ file[Lock(p)] \in Content /\ token[Lock(p)] \in Tokens /\ call[p].read \in Content /\ call[p].holder \in Tokens
    BY DEF LockTypeOK, Lock, Calls
<1>2. NoLock \in Content /\ NoToken \in Tokens /\ Own(p) \in Content
    BY EmptyKinds DEF Owners
<1>3. /\ "CREATE" \in CallSteps \ {"DROP"} /\ "CREATE" \notin TakeoverSteps
      /\ "SWEEP_REMOVE" \in CallSteps \ {"DROP"} /\ "SWEEP_REMOVE" \notin TakeoverSteps
      /\ "READ" \in CallSteps \ {"DROP"} /\ "READ" \notin TakeoverSteps
      /\ TakeoverSteps \ {"DROP"} \subseteq CallSteps \ {"DROP"}
    BY DEF CallSteps, TakeoverSteps
<1>4. /\ "TOKEN" \in TakeoverSteps \ {"DROP"} /\ "MOVE" \in TakeoverSteps \ {"DROP"} /\ "GRACE" \in TakeoverSteps
      /\ "RECREATE" \in TakeoverSteps \ {"DROP"} /\ "RESTORE" \in TakeoverSteps \ {"DROP"} /\ "DROP" \in TakeoverSteps
      /\ "TOKEN_READ" \in TakeoverSteps /\ "TOKEN_MOVE" \in TakeoverSteps /\ "TOKEN_RESTORE" \in TakeoverSteps
    BY DEF TakeoverSteps
<1>5. CASE Sweep(p)
    BY <1>1, <1>3, <1>5, CallMoves DEF Sweep, LockTypeOK
<1>6. CASE SweepRemove(p)
    BY <1>1, <1>2, <1>3, <1>6, CallMoves, FileChanges DEF SweepRemove, LockTypeOK
<1>7. CASE Create(p)
    BY <1>1, <1>2, <1>3, <1>7, CallMoves, FileChanges DEF Create, LockTypeOK
<1>8. CASE Read(p)
    <2>1. CASE Return(p, "CONTENDED") \/ Return(p, "HELD")
        BY <1>8, <2>1, CallMoves DEF Read, LockTypeOK
    <2>2. CASE \E step \in {"GRACE", "TOKEN"} :
                   /\ call[p].attempt < LOCK_TAKEOVER_MAX_ATTEMPTS
                   /\ call' = [call EXCEPT ![p].pc = step, ![p].read = file[Lock(p)]]
        <3>1. PICK step \in {"GRACE", "TOKEN"} :
                   /\ call[p].attempt < LOCK_TAKEOVER_MAX_ATTEMPTS
                   /\ call' = [call EXCEPT ![p].pc = step, ![p].read = file[Lock(p)]]
            BY <2>2
        <3>2. PICK c : c = [call[p] EXCEPT !.pc = step, !.read = file[Lock(p)]]
            OBVIOUS
        <3>3. c \in Calls /\ CallOK(c)
            BY <1>1, <1>4, <3>1, <3>2 DEF Calls, CallSteps, CallOK, TakeoverSteps
        <3>4. call' = [call EXCEPT ![p] = c]
            BY <1>1, <3>1, <3>2
        <3> QED BY <1>8, <3>3, <3>4, CallChanges DEF Read, LockTypeOK
    <2> QED BY <1>8, <2>1, <2>2 DEF Read
<1>9. CASE EndGrace(p)
    BY <1>1, <1>3, <1>4, <1>9, CallMoves DEF EndGrace, At, LockTypeOK
<1>10. CASE TakeToken(p)
    <2>1. [owner |-> p, attempt |-> call[p].attempt] \in Tokens
        BY <1>1 DEF Calls, Tokens, Owners
    <2>2. CASE SetToken(Lock(p), [owner |-> p, attempt |-> call[p].attempt]) /\ Go(p, "MOVE")
        BY <1>1, <1>3, <1>4, <1>10, <2>1, <2>2, CallMoves, FileChanges DEF TakeToken, At, LockTypeOK
    <2>3. CASE Return(p, "CONTENDED") /\ UNCHANGED token
        BY <1>10, <2>3, CallMoves DEF TakeToken, LockTypeOK
    <2>4. CASE /\ call[p].tries + 1 # TAKEOVER_TOKEN_MAX_ATTEMPTS
               /\ call' = [call EXCEPT ![p].pc = "TOKEN_READ", ![p].tries = @ + 1]
               /\ UNCHANGED token
        <3>1. PICK step : step = "TOKEN_READ"
            OBVIOUS
        <3>2. PICK n : n = call[p].tries + 1
            OBVIOUS
        <3>3. n \in 0 .. TAKEOVER_TOKEN_MAX_ATTEMPTS - 1
            BY <1>1, <2>4, <3>2 DEF Calls, TAKEOVER_TOKEN_MAX_ATTEMPTS
        <3>4. PICK c : c = [call[p] EXCEPT !.pc = step, !.tries = n]
            OBVIOUS
        <3>5. c \in Calls /\ c.pc = step /\ c.attempt = call[p].attempt
            BY <1>1, <3>1, <3>3, <3>4 DEF Calls, CallSteps
        <3>6. CallOK(c)
            BY <1>4, <1>10, <3>1, <3>5 DEF CallOK, CallsOK, TakeToken, At
        <3>7. call' = [call EXCEPT ![p] = c]
            BY <1>1, <2>4, <3>1, <3>2, <3>4
        <3> QED BY <1>10, <2>4, <3>5, <3>6, <3>7, CallChanges DEF TakeToken, LockTypeOK
    <2> QED BY <1>10, <2>2, <2>3, <2>4 DEF TakeToken
<1>11. CASE ReadToken(p)
    <2>1. CASE Return(p, "CONTENDED")
        BY <1>11, <2>1, CallMoves DEF ReadToken, LockTypeOK
    <2>2. CASE call' = [call EXCEPT ![p].pc = "TOKEN_MOVE", ![p].holder = token[Lock(p)]]
        <3>1. PICK step : step = "TOKEN_MOVE"
            OBVIOUS
        <3>2. PICK c : c = [call[p] EXCEPT !.pc = step, !.holder = token[Lock(p)]]
            OBVIOUS
        <3>3. c \in Calls /\ c.pc = step /\ c.attempt = call[p].attempt
            BY <1>1, <3>1, <3>2 DEF Calls, CallSteps
        <3>4. CallOK(c)
            BY <1>4, <1>11, <3>1, <3>3 DEF CallOK, CallsOK, ReadToken, At
        <3>5. call' = [call EXCEPT ![p] = c]
            BY <1>1, <2>2, <3>1, <3>2
        <3> QED BY <1>11, <3>3, <3>4, <3>5, CallChanges DEF ReadToken, LockTypeOK
    <2> QED BY <1>11, <2>1, <2>2 DEF ReadToken
<1>12. CASE MoveToken(p)
    <2>1. PICK step \in {"TOKEN", "TOKEN_RESTORE"} :
              call' = [call EXCEPT ![p].pc = step, ![p].holder = token[Lock(p)]]
        BY <1>12 DEF MoveToken
    <2>2. PICK c : c = [call[p] EXCEPT !.pc = step, !.holder = token[Lock(p)]]
        OBVIOUS
    <2>3. c \in Calls /\ c.pc = step /\ c.attempt = call[p].attempt
        BY <1>1, <2>1, <2>2 DEF Calls, CallSteps
    <2>4. CallOK(c)
        BY <1>4, <1>12, <2>1, <2>3 DEF CallOK, CallsOK, MoveToken, At
    <2>5. call' = [call EXCEPT ![p] = c]
        BY <1>1, <2>1, <2>2
    <2>6. SetToken(Lock(p), NoToken)
        BY <1>12 DEF MoveToken
    <2> QED BY <1>1, <1>2, <1>12, <2>3, <2>4, <2>5, <2>6, CallChanges, FileChanges DEF MoveToken, LockTypeOK
<1>13. CASE RestoreToken(p)
    BY <1>1, <1>13, CallMoves, FileChanges DEF RestoreToken, LockTypeOK
<1>14. CASE MoveLock(p)
    <2>1. SetFile(Lock(p), NoLock) /\ call[p].pc \in TakeoverSteps
        BY <1>4, <1>14 DEF MoveLock, At
    <2>2. CASE Finish(p, "CHANGED")
        BY <1>1, <1>2, <1>14, <2>1, <2>2, CallMoves, FileChanges DEF MoveLock, LockTypeOK
    <2>3. CASE \E step \in {"RECREATE", "RESTORE"} :
                   call' = [call EXCEPT ![p].pc = step, ![p].read = file[Lock(p)]]
        <3>1. PICK step \in {"RECREATE", "RESTORE"} : call' = [call EXCEPT ![p].pc = step, ![p].read = file[Lock(p)]]
            BY <2>3
        <3>2. PICK c : c = [call[p] EXCEPT !.pc = step, !.read = file[Lock(p)]]
            OBVIOUS
        <3>3. c \in Calls /\ c.pc = step /\ c.attempt = call[p].attempt
            BY <1>1, <3>1, <3>2 DEF Calls, CallSteps
        <3>4. CallOK(c)
            BY <2>1, <3>1, <3>3 DEF CallOK, CallsOK
        <3>5. call' = [call EXCEPT ![p] = c]
            BY <1>1, <3>1, <3>2
        <3> QED BY <1>1, <1>2, <1>14, <2>1, <3>3, <3>4, <3>5, CallChanges, FileChanges DEF MoveLock, LockTypeOK
    <2> QED BY <1>14, <2>2, <2>3 DEF MoveLock
<1>15. CASE RestoreLock(p)
    BY <1>1, <1>4, <1>15, CallMoves, FileChanges DEF RestoreLock, At, LockTypeOK
<1>16. CASE Recreate(p)
    BY <1>1, <1>2, <1>4, <1>16, CallMoves, FileChanges DEF Recreate, At, LockTypeOK
<1>17. CASE DropToken(p)
    <2>1. call[p].pc = "DROP" /\ call[p].attempt < LOCK_TAKEOVER_MAX_ATTEMPTS
          /\ call[p].result \in {"ACQUIRED", "LOST", "CHANGED"} /\ SetToken(Lock(p), NoToken)
        BY <1>4, <1>17 DEF DropToken, At, CallsOK
    <2>2. CASE Return(p, "ACQUIRED") \/ Return(p, "CONTENDED")
        BY <1>1, <1>2, <1>17, <2>1, <2>2, CallMoves, FileChanges DEF DropToken, LockTypeOK
    <2>3. CASE call' = [call EXCEPT ![p] = [NoCall EXCEPT !.pc = FirstStep(Lock(p)), !.lock = Lock(p),
                                                          !.attempt = call[p].attempt + 1]]
        <3>1. PICK n : n = call[p].attempt + 1
            OBVIOUS
        <3>2. n \in 0 .. LOCK_TAKEOVER_MAX_ATTEMPTS
            BY <1>1, <2>1, <3>1 DEF Calls, LOCK_TAKEOVER_MAX_ATTEMPTS
        <3>3. PICK c : c = [NoCall EXCEPT !.pc = FirstStep(Lock(p)), !.lock = Lock(p), !.attempt = n]
            OBVIOUS
        <3>4. c \in Calls /\ CallOK(c)
            BY <1>1, <1>4, <3>2, <3>3, BegunCalls DEF CallOK
        <3>5. call' = [call EXCEPT ![p] = c]
            BY <2>3, <3>1, <3>3
        <3> QED BY <1>1, <1>2, <1>17, <2>1, <3>4, <3>5, CallChanges, FileChanges DEF DropToken, LockTypeOK
    <2> QED BY <1>17, <2>1, <2>2, <2>3 DEF DropToken
<1> QED BY <1>5, <1>6, <1>7, <1>8, <1>9, <1>10, <1>11, <1>12, <1>13, <1>14, <1>15, <1>16, <1>17 DEF CallStep
-----------------------------------------------------------------------------
(* The starts *)

SessionOK(r) ==
    /\ r.beat # "IDLE" => r.beats < MaxBeats
    /\ r.save \in {"WRITE", "AGAIN"} => r.saves < MaxSaves

(* One start goes on and is as it should be.                                *)
LEMMA RunChanges ==
    ASSUME run \in [Starts -> RunRecords], SessionsOK, NEW p \in Starts, NEW r \in RunRecords, SessionOK(r),
           run' = [run EXCEPT ![p] = r]
    PROVE  run' \in [Starts -> RunRecords] /\ SessionsOK'
BY DEF SessionsOK, SessionOK

(* A step of the start alone leaves its session as it is.                   *)
LEMMA ToSteps ==
    ASSUME run \in [Starts -> RunRecords], SessionsOK, NEW p \in Starts, NEW step \in Steps, To(p, step)
    PROVE  run' \in [Starts -> RunRecords] /\ SessionsOK'
<1>1. run[p] \in RunRecords
    OBVIOUS
<1>2. PICK r : r = [run[p] EXCEPT !.pc = step]
    OBVIOUS
<1>3. r \in RunRecords /\ SessionOK(r)
    BY <1>1, <1>2 DEF RunRecords, SessionsOK, SessionOK
<1>4. run' = [run EXCEPT ![p] = r]
    BY <1>1, <1>2 DEF To
<1> QED BY <1>3, <1>4, RunChanges

(* A call that begins, and one whose answer is taken                        *)
LEMMA CallBegins ==
    ASSUME LockTypeOK, CallsOK, NEW p \in Starts
    PROVE  /\ \A l \in Locks : Begin(p, l) => call' \in [Starts -> Calls] /\ CallsOK'
           /\ call' = [call EXCEPT ![p] = NoCall] => call' \in [Starts -> Calls] /\ CallsOK'
<1>1. NoCall \in Calls /\ NoCall.attempt = 0 /\ NoCall.pc = "NONE"
    BY EmptyKinds DEF NoCall
<1>2. ASSUME NEW l \in Locks, Begin(p, l) PROVE call' \in [Starts -> Calls] /\ CallsOK'
    <2>1. PICK n : n = 0
        OBVIOUS
    <2>2. n \in 0 .. LOCK_TAKEOVER_MAX_ATTEMPTS
        BY <2>1 DEF LOCK_TAKEOVER_MAX_ATTEMPTS
    <2>3. PICK c : c = [NoCall EXCEPT !.pc = FirstStep(l), !.lock = l, !.attempt = n]
        OBVIOUS
    <2>4. c = [NoCall EXCEPT !.pc = FirstStep(l), !.lock = l]
        BY <1>1, <2>1, <2>3 DEF Calls
    <2>5. c \in Calls /\ CallOK(c)
        BY <2>2, <2>3, BegunCalls DEF CallOK, TakeoverSteps
    <2>6. call' = [call EXCEPT ![p] = c]
        BY <1>2, <2>4 DEF Begin
    <2> QED BY <2>5, <2>6, CallChanges
<1>3. CallOK(NoCall)
    BY <1>1 DEF CallOK, TakeoverSteps
<1> QED BY <1>1, <1>2, <1>3, CallChanges

(* Its other moves: what it has read, what it has chosen, and whether its   *)
(* session goes on                                                          *)
LEMMA StartMoves ==
    ASSUME run \in [Starts -> RunRecords], SessionsOK, NEW p \in Starts
    PROVE  /\ \A step \in Steps, seen \in [Runs -> Content] :
                run' = [run EXCEPT ![p].pc = step, ![p].seen = seen] => run' \in [Starts -> RunRecords] /\ SessionsOK'
           /\ \A step \in Steps, unread \in SUBSET Runs :
                run' = [run EXCEPT ![p].pc = step, ![p].unread = unread] => run' \in [Starts -> RunRecords] /\ SessionsOK'
           /\ \A step \in Steps, seen \in [Runs -> Content], unread \in SUBSET Runs :
                run' = [run EXCEPT ![p].pc = step, ![p].unread = unread, ![p].seen = seen]
                    => run' \in [Starts -> RunRecords] /\ SessionsOK'
           /\ \A seen \in [Runs -> Content], unread \in SUBSET Runs :
                run' = [run EXCEPT ![p].seen = seen, ![p].unread = unread] => run' \in [Starts -> RunRecords] /\ SessionsOK'
           /\ \A unread \in SUBSET Runs :
                run' = [run EXCEPT ![p].unread = unread] => run' \in [Starts -> RunRecords] /\ SessionsOK'
           /\ \A step \in Steps, d \in Runs :
                run' = [run EXCEPT ![p].pc = step, ![p].dir = d] => run' \in [Starts -> RunRecords] /\ SessionsOK'
           /\ \A step \in Steps, d \in Runs, chosen \in States :
                run' = [run EXCEPT ![p].pc = step, ![p].dir = d, ![p].expected = chosen]
                    => run' \in [Starts -> RunRecords] /\ SessionsOK'
           /\ \A step \in Steps, session \in {"NONE", "ACTIVE", "LOST", "ENDED"} :
                run' = [run EXCEPT ![p].pc = step, ![p].session = session]
                    => run' \in [Starts -> RunRecords] /\ SessionsOK'
<1>1. run[p] \in RunRecords /\ SessionOK(run[p])
    BY DEF SessionsOK, SessionOK
<1>2. ASSUME NEW step \in Steps, NEW seen \in [Runs -> Content],
             run' = [run EXCEPT ![p].pc = step, ![p].seen = seen]
      PROVE  run' \in [Starts -> RunRecords] /\ SessionsOK'
    <2>1. run' = [run EXCEPT ![p] = [run[p] EXCEPT !.pc = step, !.seen = seen]]
        BY <1>2
    <2>2. [run[p] EXCEPT !.pc = step, !.seen = seen] \in RunRecords /\ SessionOK([run[p] EXCEPT !.pc = step, !.seen = seen])
        BY <1>1 DEF RunRecords, SessionOK
    <2> QED BY <2>1, <2>2, RunChanges
<1>3. ASSUME NEW step \in Steps, NEW unread \in SUBSET Runs,
             run' = [run EXCEPT ![p].pc = step, ![p].unread = unread]
      PROVE  run' \in [Starts -> RunRecords] /\ SessionsOK'
    <2>1. run' = [run EXCEPT ![p] = [run[p] EXCEPT !.pc = step, !.unread = unread]]
        BY <1>3
    <2>2. [run[p] EXCEPT !.pc = step, !.unread = unread] \in RunRecords /\ SessionOK([run[p] EXCEPT !.pc = step, !.unread = unread])
        BY <1>1 DEF RunRecords, SessionOK
    <2> QED BY <2>1, <2>2, RunChanges
<1>4. ASSUME NEW step \in Steps, NEW seen \in [Runs -> Content], NEW unread \in SUBSET Runs,
             run' = [run EXCEPT ![p].pc = step, ![p].unread = unread, ![p].seen = seen]
      PROVE  run' \in [Starts -> RunRecords] /\ SessionsOK'
    <2>1. run' = [run EXCEPT ![p] = [run[p] EXCEPT !.pc = step, !.unread = unread, !.seen = seen]]
        BY <1>4
    <2>2. [run[p] EXCEPT !.pc = step, !.unread = unread, !.seen = seen] \in RunRecords /\ SessionOK([run[p] EXCEPT !.pc = step, !.unread = unread, !.seen = seen])
        BY <1>1 DEF RunRecords, SessionOK
    <2> QED BY <2>1, <2>2, RunChanges
<1>5. ASSUME NEW seen \in [Runs -> Content], NEW unread \in SUBSET Runs,
             run' = [run EXCEPT ![p].seen = seen, ![p].unread = unread]
      PROVE  run' \in [Starts -> RunRecords] /\ SessionsOK'
    <2>1. run' = [run EXCEPT ![p] = [run[p] EXCEPT !.seen = seen, !.unread = unread]]
        BY <1>5
    <2>2. [run[p] EXCEPT !.seen = seen, !.unread = unread] \in RunRecords /\ SessionOK([run[p] EXCEPT !.seen = seen, !.unread = unread])
        BY <1>1 DEF RunRecords, SessionOK
    <2> QED BY <2>1, <2>2, RunChanges
<1>6. ASSUME NEW unread \in SUBSET Runs,
             run' = [run EXCEPT ![p].unread = unread]
      PROVE  run' \in [Starts -> RunRecords] /\ SessionsOK'
    <2>1. run' = [run EXCEPT ![p] = [run[p] EXCEPT !.unread = unread]]
        BY <1>6
    <2>2. [run[p] EXCEPT !.unread = unread] \in RunRecords /\ SessionOK([run[p] EXCEPT !.unread = unread])
        BY <1>1 DEF RunRecords, SessionOK
    <2> QED BY <2>1, <2>2, RunChanges
<1>7. ASSUME NEW step \in Steps, NEW d \in Runs,
             run' = [run EXCEPT ![p].pc = step, ![p].dir = d]
      PROVE  run' \in [Starts -> RunRecords] /\ SessionsOK'
    <2>1. run' = [run EXCEPT ![p] = [run[p] EXCEPT !.pc = step, !.dir = d]]
        BY <1>7
    <2>2. [run[p] EXCEPT !.pc = step, !.dir = d] \in RunRecords /\ SessionOK([run[p] EXCEPT !.pc = step, !.dir = d])
        BY <1>1 DEF RunRecords, SessionOK
    <2> QED BY <2>1, <2>2, RunChanges
<1>8. ASSUME NEW step \in Steps, NEW d \in Runs, NEW chosen \in States,
             run' = [run EXCEPT ![p].pc = step, ![p].dir = d, ![p].expected = chosen]
      PROVE  run' \in [Starts -> RunRecords] /\ SessionsOK'
    <2>1. run' = [run EXCEPT ![p] = [run[p] EXCEPT !.pc = step, !.dir = d, !.expected = chosen]]
        BY <1>8
    <2>2. [run[p] EXCEPT !.pc = step, !.dir = d, !.expected = chosen] \in RunRecords /\ SessionOK([run[p] EXCEPT !.pc = step, !.dir = d, !.expected = chosen])
        BY <1>1 DEF RunRecords, SessionOK
    <2> QED BY <2>1, <2>2, RunChanges
<1>9. ASSUME NEW step \in Steps, NEW session \in {"NONE", "ACTIVE", "LOST", "ENDED"},
             run' = [run EXCEPT ![p].pc = step, ![p].session = session]
      PROVE  run' \in [Starts -> RunRecords] /\ SessionsOK'
    <2>1. run' = [run EXCEPT ![p] = [run[p] EXCEPT !.pc = step, !.session = session]]
        BY <1>9
    <2>2. [run[p] EXCEPT !.pc = step, !.session = session] \in RunRecords /\ SessionOK([run[p] EXCEPT !.pc = step, !.session = session])
        BY <1>1 DEF RunRecords, SessionOK
    <2> QED BY <2>1, <2>2, RunChanges
<1> QED BY <1>2, <1>3, <1>4, <1>5, <1>6, <1>7, <1>8, <1>9

(* The steps from the launch to the release of the start lock               *)
LEMMA StartStepKinds ==
    ASSUME StartInv, NEW p \in Starts, StartStep(p)
    PROVE  StartInv'
<1>1. LockTypeOK /\ CallsOK /\ SessionsOK /\ run \in [Starts -> RunRecords] /\ saved \in [Runs -> States]
      /\ deaths \in 0 .. MaxDeaths
    BY DEF StartInv, RunTypeOK
<1>2. run[p] \in RunRecords /\ SessionOK(run[p]) /\ dir(p) \in Runs /\ dir(p) \in Locks /\ p \in Runs /\ p \in Locks
      /\ StartLock \in Locks /\ NoLock \in Content /\ NoToken \in Tokens /\ Own(p) \in Content /\ NoState \in States
    BY <1>1, EmptyKinds DEF RunRecords, dir, SessionsOK, SessionOK
<1>3. UNCHANGED lockVars => LockTypeOK' /\ CallsOK'
    BY <1>1 DEF lockVars, LockTypeOK, CallsOK
<1>4. UNCHANGED run => run' \in [Starts -> RunRecords] /\ SessionsOK'
    BY <1>1 DEF SessionsOK
<1>5. {"HOLD", "LIST", "REFUSED", "RELEASE", "MAKE", "LOCK", "CHECK", "CLEANUP", "UNLOCK_REFUSED", "CLEANUP_REMOVE",
       "CONFIRM_RUN", "RELEASE_REMOVE", "RUNNING", "FIND", "CHOOSE", "FIND_GRACE", "CONFIRM_START", "LOCK_NEW"} \subseteq Steps
    BY DEF Steps
<1>6. Unseen \in [Runs -> Content]
    BY <1>2 DEF Unseen
<1>7. CASE Launch(p)
    BY <1>1, <1>2, <1>5, <1>7, ToSteps, CallBegins DEF Launch, StartInv, RunTypeOK, LockTypeOK
<1>8. CASE CallGoesOn(p) \/ GraceEnds(p)
    BY <1>1, <1>4, <1>8, CallStepKinds DEF CallGoesOn, GraceEnds, StartInv, RunTypeOK
<1>9. CASE Hold(p)
    BY <1>1, <1>2, <1>5, <1>9, ToSteps, CallBegins DEF Hold, Forget, StartInv, RunTypeOK, LockTypeOK
<1>10. CASE List(p)
    <2>1. {d \in Runs : saved[d] # NoDirectory} \in SUBSET Runs
        OBVIOUS
    <2> QED BY <1>1, <1>3, <1>5, <1>10, <2>1, StartMoves DEF List, StartInv, RunTypeOK
<1>11. CASE \E d \in Runs : FindRead(p, d)
    <2>1. PICK d \in Runs : FindRead(p, d)
        BY <1>11
    <2>2. PICK seen : seen = [run[p].seen EXCEPT ![d] = file[d]]
        OBVIOUS
    <2>3. seen \in [Runs -> Content]
        BY <1>1, <1>2, <2>2, EmptyKinds DEF LockTypeOK, RunRecords
    <2>4. PICK unread \in SUBSET Runs : unread = run[p].unread \ {d}
        BY <1>2 DEF RunRecords
    <2>5. run' \in [Starts -> RunRecords] /\ SessionsOK'
        <3>1. run' = [run EXCEPT ![p].seen = seen, ![p].unread = unread]
            BY <1>1, <2>1, <2>2, <2>4 DEF FindRead
        <3> QED BY <1>1, <2>3, <3>1, StartMoves
    <2> QED BY <1>1, <1>3, <2>1, <2>5 DEF FindRead, StartInv, RunTypeOK
<1>12. CASE FindJudge(p)
    <2>1. {d \in Runs : NeedsGrace(p, run[p].seen[d])} \in SUBSET Runs
        OBVIOUS
    <2>2. PICK unread \in SUBSET Runs, step \in {"RELEASE", "CHOOSE", "FIND_GRACE"} :
              \/ run' = [run EXCEPT ![p].pc = step, ![p].seen = Unseen]
              \/ run' = [run EXCEPT ![p].pc = step, ![p].unread = unread]
        BY <1>12, <2>1 DEF FindJudge
    <2>3. step \in Steps
        BY <1>5
    <2>4. run' \in [Starts -> RunRecords] /\ SessionsOK'
        BY <1>1, <1>6, <2>2, <2>3, StartMoves
    <2> QED BY <1>1, <1>3, <1>12, <2>4 DEF FindJudge, StartInv, RunTypeOK
<1>13. CASE \E d \in Runs : FindAgain(p, d)
    <2>1. PICK d \in Runs : FindAgain(p, d)
        BY <1>13
    <2>2. run[p].unread \ {d} \in SUBSET Runs
        BY <1>2 DEF RunRecords
    <2>3. PICK unread \in SUBSET Runs, step \in {"RELEASE", "CHOOSE"} :
              \/ run' = [run EXCEPT ![p].pc = step, ![p].unread = unread, ![p].seen = Unseen]
              \/ run' = [run EXCEPT ![p].unread = unread]
        <3>1. CASE run' = [run EXCEPT ![p].unread = @ \ {d}]
            <4>1. run' = [run EXCEPT ![p].unread = run[p].unread \ {d}]
                BY <1>1, <3>1
            <4> QED BY <2>2, <4>1
        <3> QED BY <2>1, <3>1 DEF FindAgain
    <2>4. step \in Steps
        BY <1>5
    <2>5. run' \in [Starts -> RunRecords] /\ SessionsOK'
        <3>1. CASE run' = [run EXCEPT ![p].pc = step, ![p].unread = unread, ![p].seen = Unseen]
            BY <1>1, <1>6, <2>4, <3>1, StartMoves
        <3>2. CASE run' = [run EXCEPT ![p].unread = unread]
            BY <1>1, <3>2, StartMoves
        <3> QED BY <2>3, <3>1, <3>2
    <2> QED BY <1>1, <1>3, <2>1, <2>5 DEF FindAgain, StartInv, RunTypeOK
<1>14. CASE Choose(p)
    <2>1. run' = [run EXCEPT ![p].pc = "CONFIRM_START", ![p].dir = p]
          \/ \E d \in Runs : run' = [run EXCEPT ![p].pc = "CONFIRM_START", ![p].dir = d, ![p].expected = saved[d]]
        BY <1>14 DEF Choose
    <2>2. PICK step \in Steps : step = "CONFIRM_START"
        BY <1>5
    <2>3. run' \in [Starts -> RunRecords] /\ SessionsOK'
        <3>1. CASE run' = [run EXCEPT ![p].pc = step, ![p].dir = p]
            BY <1>1, <1>2, <3>1, StartMoves
        <3>2. CASE \E d \in Runs : run' = [run EXCEPT ![p].pc = step, ![p].dir = d, ![p].expected = saved[d]]
            <4>1. PICK d \in Runs, chosen \in States : run' = [run EXCEPT ![p].pc = step, ![p].dir = d, ![p].expected = chosen]
                BY <1>1, <3>2
            <4> QED BY <1>1, <4>1, StartMoves
        <3> QED BY <2>1, <2>2, <3>1, <3>2
    <2> QED BY <1>1, <1>3, <1>14, <2>3 DEF Choose, StartInv, RunTypeOK
<1>15. CASE ConfirmStart(p)
    BY <1>1, <1>2, <1>5, <1>15, ToSteps, CallBegins DEF ConfirmStart, StartInv, RunTypeOK, LockTypeOK, CallsOK
<1>16. CASE Make(p)
    BY <1>1, <1>2, <1>3, <1>5, <1>16, ToSteps DEF Make, StartInv, RunTypeOK
<1>17. CASE LockNew(p)
    BY <1>1, <1>2, <1>5, <1>17, StartMoves, FileChanges DEF LockNew, StartInv, RunTypeOK, LockTypeOK, CallsOK
<1>18. CASE Locked(p)
    BY <1>1, <1>2, <1>5, <1>18, ToSteps, CallBegins DEF Locked, Forget, StartInv, RunTypeOK, LockTypeOK
<1>19. CASE Check(p)
    BY <1>1, <1>3, <1>5, <1>19, ToSteps DEF Check, StartInv, RunTypeOK
<1>20. CASE UnlockRefused(p)
    BY <1>1, <1>2, <1>5, <1>20, ToSteps, FileChanges DEF UnlockRefused, StartInv, RunTypeOK, LockTypeOK, CallsOK
<1>21. CASE CleanUp(p)
    BY <1>1, <1>3, <1>5, <1>21, ToSteps DEF CleanUp, StartInv, RunTypeOK
<1>22. CASE CleanUpRemove(p)
    BY <1>1, <1>2, <1>5, <1>22, ToSteps, FileChanges DEF CleanUpRemove, StartInv, RunTypeOK, LockTypeOK, CallsOK
<1>23. CASE ConfirmRun(p)
    <2>1. PICK session \in {"NONE", "ACTIVE", "LOST", "ENDED"} :
              run' = [run EXCEPT ![p].pc = "RELEASE", ![p].session = session]
        <3>1. run[p].session \in {"NONE", "ACTIVE", "LOST", "ENDED"}
            BY <1>2 DEF RunRecords
        <3>2. run' = [run EXCEPT ![p].pc = "RELEASE", ![p].session = IF IsOwn(p, dir(p)) THEN "ACTIVE" ELSE run[p].session]
            BY <1>1, <1>23 DEF ConfirmRun
        <3> QED BY <3>1, <3>2
    <2>2. UNCHANGED lockVars /\ UNCHANGED saved /\ UNCHANGED deaths
        BY <1>23 DEF ConfirmRun
    <2>3. run' \in [Starts -> RunRecords] /\ SessionsOK'
        <3>1. "RELEASE" \in Steps
            BY DEF Steps
        <3> QED BY <1>1, <2>1, <3>1, StartMoves, ZenonT(30)
    <2> QED BY <1>1, <1>3, <2>2, <2>3 DEF StartInv, RunTypeOK
<1>24. CASE Release(p)
    <2>1. run' = [run EXCEPT ![p].pc = "RELEASE_REMOVE"] \/ run' = [run EXCEPT ![p].pc = "REFUSED"] \/ run' = [run EXCEPT ![p].pc = "RUNNING"]
        BY <1>24 DEF Release, AfterRelease, To
    <2>2. UNCHANGED <<lockVars, saved, deaths>>
        BY <1>24 DEF Release
    <2> QED BY <1>1, <1>3, <1>5, <2>1, <2>2, ToSteps DEF To, StartInv, RunTypeOK
<1>25. CASE ReleaseRemove(p)
    BY <1>1, <1>2, <1>5, <1>25, ToSteps, FileChanges DEF ReleaseRemove, AfterRelease, StartInv, RunTypeOK, LockTypeOK, CallsOK
<1> QED BY <1>7, <1>8, <1>9, <1>10, <1>11, <1>12, <1>13, <1>14, <1>15, <1>16, <1>17, <1>18, <1>19, <1>20, <1>21, <1>22,
           <1>23, <1>24, <1>25 DEF StartStep
-----------------------------------------------------------------------------
(* The sessions *)

(* A heartbeat begins, goes on or is given up.                              *)
LEMMA BeatMoves ==
    ASSUME run \in [Starts -> RunRecords], SessionsOK, NEW p \in Starts, NEW b \in {"AGAIN", "WRITE"}, run[p].beats < MaxBeats
    PROVE  ReadsOwn(p, "beat", b) \/ LosesLock(p, "beat") \/ run' = [run EXCEPT ![p]["beat"] = b]
              => run' \in [Starts -> RunRecords] /\ SessionsOK'
<1>1. run[p] \in RunRecords /\ SessionOK(run[p])
    BY DEF SessionsOK, SessionOK
<1>2. CASE run' = [run EXCEPT ![p]["beat"] = b]
    <2>1. run' = [run EXCEPT ![p] = [run[p] EXCEPT !.beat = b]]
        BY <1>1, <1>2 DEF RunRecords
    <2>2. [run[p] EXCEPT !.beat = b] \in RunRecords /\ SessionOK([run[p] EXCEPT !.beat = b])
        BY <1>1 DEF RunRecords, SessionOK
    <2> QED BY <2>1, <2>2, RunChanges
<1>3. CASE LosesLock(p, "beat")
    <2>1. PICK session : session = IF run[p].session = "ACTIVE" THEN "LOST" ELSE run[p].session
        OBVIOUS
    <2>2. PICK idle : idle = "IDLE"
        OBVIOUS
    <2>3. session \in {"NONE", "ACTIVE", "LOST", "ENDED"}
        BY <1>1, <2>1 DEF RunRecords
    <2>4. run' = [run EXCEPT ![p] = [run[p] EXCEPT !.beat = idle, !.session = session]]
        BY <1>1, <1>3, <2>1, <2>2 DEF LosesLock, RunRecords
    <2>5. [run[p] EXCEPT !.beat = idle, !.session = session] \in RunRecords
          /\ SessionOK([run[p] EXCEPT !.beat = idle, !.session = session])
        BY <1>1, <2>2, <2>3 DEF RunRecords, SessionOK
    <2> QED BY <2>4, <2>5, RunChanges
<1> QED BY <1>2, <1>3 DEF ReadsOwn

(* So does a save.                                                          *)
LEMMA SaveMoves ==
    ASSUME run \in [Starts -> RunRecords], SessionsOK, NEW p \in Starts, NEW s \in {"AGAIN", "WRITE", "LAST_AGAIN", "LAST"},
           s \in {"WRITE", "AGAIN"} => run[p].saves < MaxSaves
    PROVE  ReadsOwn(p, "save", s) \/ LosesLock(p, "save") \/ run' = [run EXCEPT ![p]["save"] = s]
              => run' \in [Starts -> RunRecords] /\ SessionsOK'
<1>1. run[p] \in RunRecords /\ SessionOK(run[p])
    BY DEF SessionsOK, SessionOK
<1>2. CASE run' = [run EXCEPT ![p]["save"] = s]
    <2>1. run' = [run EXCEPT ![p] = [run[p] EXCEPT !.save = s]]
        BY <1>1, <1>2 DEF RunRecords
    <2>2. [run[p] EXCEPT !.save = s] \in RunRecords /\ SessionOK([run[p] EXCEPT !.save = s])
        BY <1>1 DEF RunRecords, SessionOK
    <2> QED BY <2>1, <2>2, RunChanges
<1>3. CASE LosesLock(p, "save")
    <2>1. PICK session : session = IF run[p].session = "ACTIVE" THEN "LOST" ELSE run[p].session
        OBVIOUS
    <2>2. PICK idle : idle = "IDLE"
        OBVIOUS
    <2>3. session \in {"NONE", "ACTIVE", "LOST", "ENDED"}
        BY <1>1, <2>1 DEF RunRecords
    <2>4. run' = [run EXCEPT ![p] = [run[p] EXCEPT !.save = idle, !.session = session]]
        BY <1>1, <1>3, <2>1, <2>2 DEF LosesLock, RunRecords
    <2>5. [run[p] EXCEPT !.save = idle, !.session = session] \in RunRecords
          /\ SessionOK([run[p] EXCEPT !.save = idle, !.session = session])
        BY <1>1, <2>2, <2>3 DEF RunRecords, SessionOK
    <2> QED BY <2>4, <2>5, RunChanges
<1> QED BY <1>2, <1>3 DEF ReadsOwn

(* The steps of a running session                                           *)
LEMMA SessionStepKinds ==
    ASSUME StartInv, NEW p \in Starts, SessionStep(p)
    PROVE  StartInv'
<1>1. LockTypeOK /\ CallsOK /\ SessionsOK /\ run \in [Starts -> RunRecords] /\ saved \in [Runs -> States]
      /\ deaths \in 0 .. MaxDeaths
    BY DEF StartInv, RunTypeOK
<1>2. run[p] \in RunRecords /\ SessionOK(run[p]) /\ dir(p) \in Runs /\ dir(p) \in Locks /\ NoLock \in Content
    BY <1>1, EmptyKinds DEF RunRecords, dir, SessionsOK, SessionOK
<1>3. UNCHANGED lockVars => LockTypeOK' /\ CallsOK'
    BY <1>1 DEF lockVars, LockTypeOK, CallsOK
<1>4. run[p].beats \in 0 .. MaxBeats /\ run[p].saves \in 0 .. MaxSaves /\ MaxBeats \in Nat /\ MaxSaves \in Nat
    BY <1>2, LockAssumption, RunAssumption DEF RunRecords
<1>5. CASE Beat(p)
    <2>1. run' \in [Starts -> RunRecords] /\ SessionsOK'
        BY <1>1, <1>5, BeatMoves DEF Beat, ReadsOnce
    <2> QED BY <1>1, <1>3, <1>5, <2>1 DEF Beat, StartInv, RunTypeOK
<1>6. CASE BeatAgain(p)
    <2>1. run[p].beats < MaxBeats
        BY <1>2, <1>6 DEF BeatAgain, SessionOK
    <2>2. run' \in [Starts -> RunRecords] /\ SessionsOK'
        BY <1>1, <1>6, <2>1, BeatMoves DEF BeatAgain, ReadsAgain
    <2> QED BY <1>1, <1>3, <1>6, <2>2 DEF BeatAgain, StartInv, RunTypeOK
<1>7. CASE BeatWrite(p)
    <2>1. PICK n \in 0 .. MaxBeats : n = run[p].beats + 1
        BY <1>2, <1>4, <1>7 DEF BeatWrite, SessionOK
    <2>2. [owner |-> p, beat |-> n] \in Content
        BY DEF Content, Owners
    <2>3. file' \in [Locks -> Content]
        BY <1>1, <1>2, <1>7, <2>1, <2>2, FileChanges DEF BeatWrite
    <2>4. PICK idle : idle = "IDLE"
        OBVIOUS
    <2>5. run' = [run EXCEPT ![p] = [run[p] EXCEPT !.beat = idle, !.beats = n]]
        BY <1>1, <1>7, <2>1, <2>4 DEF BeatWrite
    <2>6. [run[p] EXCEPT !.beat = idle, !.beats = n] \in RunRecords /\ SessionOK([run[p] EXCEPT !.beat = idle, !.beats = n])
        BY <1>2, <2>4 DEF RunRecords, SessionOK
    <2>7. run' \in [Starts -> RunRecords] /\ SessionsOK'
        BY <1>1, <2>5, <2>6, RunChanges
    <2> QED BY <1>1, <1>7, <2>3, <2>7 DEF BeatWrite, StartInv, RunTypeOK, LockTypeOK, CallsOK
<1>8. CASE Save(p)
    <2>1. run' \in [Starts -> RunRecords] /\ SessionsOK'
        <3>1. CASE run[p].saves < MaxSaves /\ ReadsOnce(p, "save", "WRITE", "AGAIN")
            BY <1>1, <3>1, SaveMoves DEF ReadsOnce
        <3>2. CASE ReadsOnce(p, "save", "LAST", "LAST_AGAIN")
            <4>1. ~("LAST" \in {"WRITE", "AGAIN"}) /\ ~("LAST_AGAIN" \in {"WRITE", "AGAIN"})
                OBVIOUS
            <4> QED BY <1>1, <3>2, <4>1, SaveMoves DEF ReadsOnce
        <3> QED BY <1>8, <3>1, <3>2 DEF Save
    <2> QED BY <1>1, <1>3, <1>8, <2>1 DEF Save, StartInv, RunTypeOK
<1>9. CASE SaveAgain(p)
    <2>1. run' \in [Starts -> RunRecords] /\ SessionsOK'
        <3>1. CASE run[p].save = "AGAIN" /\ ReadsAgain(p, "save", "WRITE")
            BY <1>1, <1>2, <3>1, SaveMoves DEF ReadsAgain, SessionOK
        <3>2. CASE ReadsAgain(p, "save", "LAST")
            <4>1. ~("LAST" \in {"WRITE", "AGAIN"})
                OBVIOUS
            <4> QED BY <1>1, <3>2, <4>1, SaveMoves DEF ReadsAgain
        <3> QED BY <1>9, <3>1, <3>2 DEF SaveAgain
    <2> QED BY <1>1, <1>3, <1>9, <2>1 DEF SaveAgain, StartInv, RunTypeOK
<1>10. CASE SaveWrite(p)
    <2>1. PICK n \in 0 .. MaxSaves : n = run[p].saves + 1
        BY <1>2, <1>4, <1>10 DEF SaveWrite, SessionOK
    <2>2. [status |-> "IN_PROGRESS", by |-> p, count |-> n] \in States
        BY <1>4 DEF States, Owners
    <2>3. saved' \in [Runs -> States]
        BY <1>1, <1>2, <1>10, <2>1, <2>2 DEF SaveWrite
    <2>4. PICK idle : idle = "IDLE"
        OBVIOUS
    <2>5. run' = [run EXCEPT ![p] = [run[p] EXCEPT !.save = idle, !.saves = n]]
        BY <1>1, <1>10, <2>1, <2>4 DEF SaveWrite
    <2>6. [run[p] EXCEPT !.save = idle, !.saves = n] \in RunRecords /\ SessionOK([run[p] EXCEPT !.save = idle, !.saves = n])
        BY <1>2, <2>4 DEF RunRecords, SessionOK
    <2>7. run' \in [Starts -> RunRecords] /\ SessionsOK'
        BY <1>1, <2>5, <2>6, RunChanges
    <2> QED BY <1>1, <1>3, <1>10, <2>3, <2>7 DEF SaveWrite, StartInv, RunTypeOK
<1>11. CASE SaveLast(p)
    <2>1. PICK status \in {"STOPPED", "FINISHED"} :
              saved' = [saved EXCEPT ![dir(p)] = [status |-> status, by |-> p, count |-> run[p].saves + 1]]
        BY <1>11 DEF SaveLast
    <2>2. [status |-> status, by |-> p, count |-> run[p].saves + 1] \in States
        BY <1>4 DEF States, Owners
    <2>3. saved' \in [Runs -> States]
        BY <1>1, <2>1, <2>2
    <2>4. PICK step, idle, ended : step = "UNLOCK" /\ idle = "IDLE" /\ ended = "ENDED"
        OBVIOUS
    <2>5. PICK r : r = [run[p] EXCEPT !.pc = step, !.save = idle, !.session = ended]
        OBVIOUS
    <2>6. r \in RunRecords /\ SessionOK(r)
        BY <1>2, <2>4, <2>5 DEF RunRecords, SessionOK, Steps
    <2>7. run' = [run EXCEPT ![p] = r]
        BY <1>1, <1>11, <2>4, <2>5 DEF SaveLast
    <2>8. run' \in [Starts -> RunRecords] /\ SessionsOK'
        BY <1>1, <2>6, <2>7, RunChanges
    <2> QED BY <1>1, <1>3, <1>11, <2>3, <2>8 DEF SaveLast, StartInv, RunTypeOK
<1>12. CASE Unlock(p)
    <2>1. "ENDED" \in Steps
        BY DEF Steps
    <2> QED BY <1>1, <1>2, <1>12, <2>1, ToSteps, FileChanges DEF Unlock, StartInv, RunTypeOK, LockTypeOK, CallsOK
<1>13. CASE EndWorkerRun(p)
    <2>1. "UNLOCK" \in Steps
        BY DEF Steps
    <2>2. run' = [run EXCEPT ![p].pc = "UNLOCK", ![p].session = "ENDED"]
        BY <1>13 DEF EndWorkerRun
    <2>3. run' \in [Starts -> RunRecords] /\ SessionsOK'
        BY <1>1, <2>1, <2>2, StartMoves
    <2> QED BY <1>1, <1>3, <1>13, <2>3 DEF EndWorkerRun, StartInv, RunTypeOK
<1>14. CASE Abandon(p)
    <2>1. PICK step \in Steps : step = "ENDED"
        BY DEF Steps
    <2>2. PICK session \in {"NONE", "ACTIVE", "LOST", "ENDED"} :
              session = IF run[p].session = "ACTIVE" THEN "ENDED" ELSE run[p].session
        BY <1>2 DEF RunRecords
    <2>3. run' = [run EXCEPT ![p].pc = step, ![p].session = session]
        BY <1>1, <1>14, <2>1, <2>2 DEF Abandon
    <2>4. run' \in [Starts -> RunRecords] /\ SessionsOK'
        BY <1>1, <2>3, StartMoves
    <2> QED BY <1>1, <1>3, <1>14, <2>4 DEF Abandon, StartInv, RunTypeOK
<1> QED BY <1>5, <1>6, <1>7, <1>8, <1>9, <1>10, <1>11, <1>12, <1>13, <1>14 DEF SessionStep

(* Sleeping, waking, leaving and dying                                      *)
LEMMA FateKinds ==
    ASSUME StartInv, NEW p \in Starts, Sleep(p) \/ Wake(p) \/ Exit(p) \/ Crash(p)
    PROVE  StartInv'
<1>1. LockTypeOK /\ CallsOK /\ SessionsOK /\ run \in [Starts -> RunRecords] /\ saved \in [Runs -> States]
      /\ deaths \in 0 .. MaxDeaths
    BY DEF StartInv, RunTypeOK
<1>2. run[p] \in RunRecords /\ SessionOK(run[p]) /\ dir(p) \in Runs
    BY <1>1 DEF RunRecords, dir, SessionsOK, SessionOK
<1>3. CASE Sleep(p)
    <2>1. run' = [run EXCEPT ![p] = [run[p] EXCEPT !.slept = TRUE]]
        BY <1>1, <1>3 DEF Sleep
    <2>2. [run[p] EXCEPT !.slept = TRUE] \in RunRecords /\ SessionOK([run[p] EXCEPT !.slept = TRUE])
        BY <1>2 DEF RunRecords, SessionOK
    <2>3. run' \in [Starts -> RunRecords] /\ SessionsOK'
        BY <1>1, <2>1, <2>2, RunChanges
    <2> QED BY <1>1, <1>3, <2>3 DEF Sleep, StartInv, RunTypeOK, LockTypeOK, CallsOK
<1>4. CASE Wake(p)
    BY <1>1, <1>4 DEF Wake, StartInv, RunTypeOK, LockTypeOK, CallsOK, SessionsOK
<1>5. CASE Exit(p)
    BY <1>1, <1>5 DEF Exit, StartInv, RunTypeOK, LockTypeOK, CallsOK, SessionsOK
<1>6. CASE Crash(p)
    <2>1. PICK step : step = "ENDED"
        OBVIOUS
    <2>2. PICK r : r = [NoRun EXCEPT !.pc = step, !.dir = dir(p)]
        OBVIOUS
    <2>3. NoRun \in RunRecords /\ NoRun.beat = "IDLE" /\ NoRun.save = "IDLE"
        BY EmptyKinds DEF NoRun
    <2>4. r \in RunRecords /\ SessionOK(r)
        BY <1>2, <2>1, <2>2, <2>3 DEF RunRecords, Steps, SessionOK
    <2>5. run' \in [Starts -> RunRecords] /\ SessionsOK'
        BY <1>1, <1>6, <2>1, <2>2, <2>4, RunChanges DEF Crash
    <2>6. call' \in [Starts -> Calls] /\ CallsOK'
        BY <1>1, <1>6, CallBegins DEF Crash
    <2>7. deaths' \in 0 .. MaxDeaths
        BY <1>1, <1>6, RunAssumption DEF Crash
    <2> QED BY <1>1, <1>6, <2>5, <2>6, <2>7 DEF Crash, StartInv, RunTypeOK, LockTypeOK
<1> QED BY <1>3, <1>4, <1>5, <1>6

(* At the start everything has its kind.                                    *)
LEMMA InitKinds ==
    ASSUME Init
    PROVE  StartInv
<1>1. Own(Old) \in Content /\ NoLock \in Content /\ NoToken \in Tokens /\ [owner |-> Old, attempt |-> 0] \in Tokens
    BY EmptyKinds DEF Tokens, Owners, LOCK_TAKEOVER_MAX_ATTEMPTS
<1>2. LockTypeOK
    <2>1. file \in [Locks -> Content] /\ token \in [Locks -> Tokens]
        BY <1>1 DEF Init
    <2>2. call \in [Starts -> Calls]
        BY EmptyKinds DEF Init
    <2> QED BY <2>1, <2>2 DEF Init, LockTypeOK
<1>3. run \in [Starts -> RunRecords] /\ saved \in [Runs -> States] /\ deaths \in 0 .. MaxDeaths
    BY EmptyKinds, RunAssumption DEF Init
<1>4. CallsOK
    <2>1. \A x \in Starts : call[x] = NoCall
        BY DEF Init
    <2>2. NoCall.pc = "NONE"
        BY DEF NoCall
    <2> QED BY <2>1, <2>2 DEF CallsOK, TakeoverSteps
<1>5. SessionsOK
    <2>1. \A x \in Starts : run[x] = NoRun
        BY DEF Init
    <2>2. NoRun.beat = "IDLE" /\ NoRun.save = "IDLE"
        BY DEF NoRun
    <2> QED BY <2>1, <2>2 DEF SessionsOK
<1> QED BY <1>2, <1>3, <1>4, <1>5 DEF StartInv, RunTypeOK

-----------------------------------------------------------------------------
(* The types *)

(* The variables, the files and calls included, keep their types, whatever  *)
(* starts, takeovers, heartbeats and deaths interleave: no counter passes   *)
(* its limit (a call makes no fourth attempt), and no call ends without an  *)
(* outcome.                                                                 *)
THEOREM RunTypeHolds == Spec => []RunTypeOK
<1>1. Init => StartInv
    BY InitKinds
<1>2. StartInv /\ [Next]_vars => StartInv'
    <2> SUFFICES ASSUME StartInv, [Next]_vars PROVE StartInv'
        OBVIOUS
    <2>1. CASE Next
        BY <2>1, StartStepKinds, SessionStepKinds, FateKinds DEF Next
    <2>2. CASE UNCHANGED vars
        BY <2>2 DEF vars, StartInv, RunTypeOK, LockTypeOK, CallsOK, SessionsOK
    <2> QED BY <2>1, <2>2
<1>3. StartInv => RunTypeOK
    BY DEF StartInv
<1> QED BY <1>1, <1>2, <1>3, PTL DEF Spec

-----------------------------------------------------------------------------
(* Two starts: what excludes what                                           *)
(*                                                                          *)
(* The properties of the locks are proved for two starts.  With more, a     *)
(* takeover that moves the lock of one start opens a gap in which another   *)
(* creates its own.  With two, the start that moved a lock it had not       *)
(* judged ends its call without a lock, and so starts no Run itself.        *)

TwoStarts == \E p, q : p # q /\ Starts = {p, q}

ResumeSteps == {"CHECK", "UNLOCK_REFUSED", "CLEANUP", "CLEANUP_REMOVE", "CONFIRM_RUN"}
ChosenSteps == {"CHOOSE", "CONFIRM_START", "MAKE", "LOCK_NEW", "LOCK"} \cup ResumeSteps
StartSteps == {"LIST", "FIND", "FIND_GRACE", "RELEASE", "RELEASE_REMOVE"} \cup ChosenSteps
PastSteps == {"RUNNING", "UNLOCK", "REFUSED", "ENDED"}
TokenSteps == {"TOKEN", "TOKEN_READ", "TOKEN_MOVE", "TOKEN_RESTORE"}
JudgedSteps == TokenSteps \cup {"GRACE", "MOVE"}

(* Where a start is when it has a call, a session, a heartbeat or a save    *)
(* under way, is held up or is dead                                         *)
PlaceOK(p) ==
    /\ call[p].pc # "NONE" => run[p].pc \in {"HOLD", "LOCK"}
    /\ run[p].pc = "HOLD" => Lock(p) = StartLock
    /\ run[p].pc = "LOCK" => Lock(p) = dir(p)
    /\ run[p].pc \in {"MAKE", "LOCK_NEW"} => dir(p) = p
    /\ run[p].pc \in {"LOCK"} \cup ResumeSteps => dir(p) # p
    /\ run[p].session = "NONE" => run[p].saves = 0 /\ run[p].beat = "IDLE" /\ run[p].pc \notin {"RUNNING", "UNLOCK"}
    /\ run[p].session # "NONE" => run[p].pc \in {"RELEASE", "RELEASE_REMOVE", "RUNNING", "UNLOCK", "ENDED"}
    /\ run[p].session = "ACTIVE" => run[p].pc \notin {"UNLOCK", "ENDED"}
    /\ run[p].beat # "IDLE" => run[p].pc # "ENDED"
    /\ run[p].save # "IDLE" => run[p].pc = "RUNNING"
    /\ p \in asleep => /\ p \notin dead /\ run[p].slept /\ run[p].pc = "RUNNING" /\ run[p].session = "ACTIVE"
                       /\ run[p].beat # "WRITE" /\ run[p].save \notin {"WRITE", "LAST"}
    /\ p \in dead => run[p].pc \in {"REFUSED", "ENDED"}
PlacesOK == \A p \in Starts : PlaceOK(p)

(* No lock names a start that was not launched, nor does what was read.     *)
LaunchedOK ==
    \A p, q \in Starts : run[p].pc = "NONE" =>
        /\ \A l \in Locks : file[l].owner # p
        /\ call[q].read.owner # p
        /\ \A d \in Runs : run[q].seen[d].owner # p

(* A start waits for nobody but the other, and that one was launched.       *)
WaitsOK == \A p, q \in Starts : p # q /\ Waits(q) => run[p].pc # "NONE"

(* When the clock was set between two starts, the earlier has started.      *)
ClockOK ==
    \A p, q \in Starts : p \in reset /\ q \notin reset /\ run[p].pc # "NONE" => run[q].pc \in {"NONE"} \cup PastSteps

Acquired(p) == call[p].pc \in {"DROP", "RETURNED"} /\ call[p].result = "ACQUIRED"
HoldsStart(p) == p \notin dead /\ (run[p].pc \in StartSteps \/ (run[p].pc = "HOLD" /\ Acquired(p)))

(* From its acquisition to its release the start lock is in its place, or   *)
(* the other start has moved it and is about to put it back, or died then.  *)
Displaced(p) ==
    /\ file[StartLock] = NoLock
    /\ \E q \in Starts \ {p} : q \in dead \/ (run[q].pc = "HOLD" /\ call[q].pc = "RESTORE" /\ call[q].read = Own(p))
StartHeld == \A p \in Starts : HoldsStart(p) => file[StartLock] = Own(p) \/ Displaced(p)

(* A start lock is judged stale after its owner has started or died.        *)
StartJudged ==
    \A p, q \in Starts : p # q /\ run[q].pc = "HOLD" /\ call[q].pc \in JudgedSteps /\ call[q].read.owner = p
        => run[p].pc \in PastSteps

(* Only its own start saves into a new Run before it can be resumed.        *)
Unsaved(d) == saved[d] \in {NoDirectory, NoState}
SavedOK ==
    /\ \A p \in Starts :
         p \notin dead /\ (dir(p) # p \/ (run[p].saves = 0 /\ run[p].session \in {"NONE", "ACTIVE"})) => Unsaved(p)
    /\ \A p, q \in Starts : p # q /\ dir(q) = p => ~Unsaved(p)
    /\ \A p \in Starts : dir(p) # p \/ run[p].pc = "LOCK_NEW" \/ run[p].session # "NONE" => saved[dir(p)] # NoDirectory

(* A session about to write, one that may still come to write, a start that *)
(* has the run.lock of the Run it resumes, and a start whose call for it    *)
(* cannot move a lock any more                                              *)
Threat(p) == p \notin dead /\ (run[p].beat = "WRITE" \/ run[p].save \in {"WRITE", "LAST"} \/ run[p].pc = "UNLOCK")
Open(p) == p \notin dead /\ (run[p].session = "ACTIVE" \/ run[p].beat # "IDLE" \/ run[p].save # "IDLE" \/ run[p].pc = "UNLOCK")
Foremost(p) == Running(p) /\ ~run[p].slept
HoldsRun(p) == p \notin dead /\ (run[p].pc \in ResumeSteps \/ (run[p].pc = "LOCK" /\ Acquired(p)))
PastLock(p) ==
    \/ run[p].pc \in ResumeSteps \cup PastSteps \cup {"RELEASE", "RELEASE_REMOVE"}
    \/ run[p].pc = "LOCK" /\ call[p].pc \in {"RESTORE", "RECREATE", "DROP", "RETURNED"}

(* The run.lock is in its place for a session about to write, for a start   *)
(* that resumes the Run, and for a session never held up.                   *)
RunHeld == \A p \in Starts : Threat(p) \/ HoldsRun(p) \/ Foremost(p) => IsOwn(p, dir(p))

(* A session that may come to write has its lock, or the other took it.     *)
OpenHeld == \A q \in Starts : Open(q) => IsOwn(q, dir(q)) \/ \E p \in Starts \ {q} : dir(p) = dir(q) /\ PastLock(p)

(* A call that found the lock gone has no session beside it, and one that   *)
(* takes the lock of a session does so while that session is held up.       *)
ChangedAlone ==
    \A p, q \in Starts : /\ p # q /\ run[p].pc = "LOCK" /\ dir(q) = dir(p)
                         /\ call[p].attempt > 0 \/ (call[p].pc = "DROP" /\ call[p].result = "CHANGED")
                         => ~Open(q)
TakesFromSleeper ==
    \A p, q \in Starts : /\ p # q /\ run[p].pc = "LOCK" /\ dir(q) = dir(p) /\ Open(q)
                         /\ call[p].pc \in TokenSteps \cup {"MOVE"}
                         => q \in asleep /\ call[p].read.owner = q

(* A start that found no active Run has none beside it, those apart that    *)
(* were held up; until then it has seen, or has yet to read, its lock.      *)
NoOtherRun == \A p, q \in Starts : p # q /\ p \notin dead /\ run[p].pc \in ChosenSteps => ~Foremost(q)
FindsOther ==
    \A p, q \in Starts : p # q /\ Foremost(q) =>
        /\ run[p].pc = "FIND" => dir(q) \in run[p].unread \/ run[p].seen[dir(q)].owner = q
        /\ run[p].pc = "FIND_GRACE" => dir(q) \in run[p].unread /\ run[p].seen[dir(q)].owner = q

ClockInv == LaunchedOK /\ WaitsOK /\ ClockOK
StartLockInv == StartHeld /\ StartJudged
RunLockInv == RunHeld /\ OpenHeld /\ ChangedAlone /\ TakesFromSleeper
FindInv == NoOtherRun /\ FindsOther /\ OneRunPerOutputDirectory

RunInv == StartInv /\ PlacesOK /\ ClockInv /\ StartLockInv /\ SavedOK /\ RunLockInv /\ FindInv /\ ResumesWhatWasSaved

-----------------------------------------------------------------------------
(* What a step of a call changes                                            *)

(* A lock file gets a content; a call goes on to a step, ends, or has the   *)
(* outcome with which it drops its token.                                   *)
FileIs(l, c) == file'[l] = c /\ \A m \in Locks \ {l} : file'[m] = file[m]
Onward(p, step) ==
    /\ call'[p].pc = step /\ call'[p].lock = call[p].lock /\ call'[p].read = call[p].read
    /\ call'[p].attempt = call[p].attempt /\ call'[p].result = call[p].result
Ends(p, kind) ==
    /\ call'[p].pc = "RETURNED" /\ call'[p].lock = call[p].lock /\ call'[p].read = NoLock
    /\ call'[p].attempt = 0 /\ call'[p].result = kind
Drops(p, outcome) ==
    /\ call'[p].pc = "DROP" /\ call'[p].lock = call[p].lock /\ call'[p].read = call[p].read
    /\ call'[p].attempt = call[p].attempt /\ call'[p].result = outcome

Approaches(p) ==
    /\ file' = file /\ call[p].pc \in {"SWEEP", "SWEEP_REMOVE", "CREATE"}
    /\ \E step \in {"SWEEP_REMOVE", "CREATE", "READ"} : Onward(p, step)
Creates(p) == call[p].pc = "CREATE" /\ file[Lock(p)] = NoLock /\ FileIs(Lock(p), Own(p)) /\ Ends(p, "ACQUIRED")
GivesUp(p) ==
    /\ file' = file /\ call[p].pc \in {"READ"} \cup JudgedSteps
    /\ Ends(p, "HELD") \/ Ends(p, "CONTENDED")
Judges(p) ==
    /\ file' = file /\ call[p].pc = "READ" /\ judgeRunLock(p, file[Lock(p)]) = "STALE"
    /\ call'[p].pc \in {"GRACE", "TOKEN"} /\ call'[p].lock = call[p].lock /\ call'[p].read = file[Lock(p)]
    /\ call'[p].attempt = call[p].attempt /\ call'[p].result = call[p].result
    /\ call'[p].pc = "GRACE" <=> NeedsGrace(p, file[Lock(p)]) /\ call[p].attempt = 0
Waited(p) == file' = file /\ call[p].pc = "GRACE" /\ file[Lock(p)] \in {NoLock, call[p].read} /\ Onward(p, "TOKEN")
GetsToken(p) ==
    /\ file' = file /\ call[p].pc \in TokenSteps
    /\ \E step \in TokenSteps \cup {"MOVE"} : Onward(p, step)
MovesNone(p) == file' = file /\ call[p].pc = "MOVE" /\ file[Lock(p)] = NoLock /\ Drops(p, "CHANGED")
Moves(p) ==
    /\ call[p].pc = "MOVE" /\ file[Lock(p)] # NoLock /\ FileIs(Lock(p), NoLock)
    /\ call'[p].pc \in {"RECREATE", "RESTORE"} /\ call'[p].lock = call[p].lock /\ call'[p].read = file[Lock(p)]
    /\ call'[p].attempt = call[p].attempt /\ call'[p].result = call[p].result
    /\ call'[p].pc = "RECREATE" <=> file[Lock(p)] = call[p].read
PutsBack(p) == call[p].pc = "RESTORE" /\ file[Lock(p)] = NoLock /\ FileIs(Lock(p), call[p].read) /\ Drops(p, "LOST")
FindsTaken(p) == call[p].pc \in {"RESTORE", "RECREATE"} /\ file[Lock(p)] # NoLock /\ file' = file /\ Drops(p, "LOST")
Recreates(p) == call[p].pc = "RECREATE" /\ file[Lock(p)] = NoLock /\ FileIs(Lock(p), Own(p)) /\ Drops(p, "ACQUIRED")
EndsTakeover(p) ==
    /\ file' = file /\ call[p].pc = "DROP"
    /\ \/ call[p].result = "ACQUIRED" /\ Ends(p, "ACQUIRED")
       \/ call[p].result = "LOST" /\ Ends(p, "CONTENDED")
BeginsAnew(p) ==
    /\ file' = file /\ call[p].pc = "DROP" /\ call[p].result = "CHANGED"
    /\ call'[p].pc \in {"SWEEP", "CREATE"} /\ call'[p].lock = call[p].lock /\ call'[p].read = NoLock
    /\ call'[p].attempt = call[p].attempt + 1 /\ call'[p].result = "NONE"

CallShape(p) ==
    \/ Approaches(p) \/ Creates(p) \/ GivesUp(p) \/ Judges(p) \/ Waited(p) \/ GetsToken(p) \/ MovesNone(p)
    \/ Moves(p) \/ PutsBack(p) \/ FindsTaken(p) \/ Recreates(p) \/ EndsTakeover(p) \/ BeginsAnew(p)

(* The moves of a call, field by field                                      *)
LEMMA CallFields ==
    ASSUME LockTypeOK, NEW p \in Starts
    PROVE  /\ \A step : Go(p, step) => Onward(p, step) /\ \A x \in Starts \ {p} : call'[x] = call[x]
           /\ \A kind : Return(p, kind) => Ends(p, kind) /\ \A x \in Starts \ {p} : call'[x] = call[x]
           /\ \A outcome : Finish(p, outcome) => Drops(p, outcome) /\ \A x \in Starts \ {p} : call'[x] = call[x]
           /\ \A step, c : call' = [call EXCEPT ![p].pc = step, ![p].read = c]
                => /\ call'[p].pc = step /\ call'[p].lock = call[p].lock /\ call'[p].read = c
                   /\ call'[p].attempt = call[p].attempt /\ call'[p].result = call[p].result
                   /\ \A x \in Starts \ {p} : call'[x] = call[x]
           /\ \A step, t : call' = [call EXCEPT ![p].pc = step, ![p].holder = t]
                => Onward(p, step) /\ \A x \in Starts \ {p} : call'[x] = call[x]
           /\ \A step, n : call' = [call EXCEPT ![p].pc = step, ![p].tries = n]
                => Onward(p, step) /\ \A x \in Starts \ {p} : call'[x] = call[x]
           /\ \A l \in Locks : \A c : SetFile(l, c) => FileIs(l, c)
<1>1. call \in [Starts -> Calls] /\ call[p] \in Calls /\ file \in [Locks -> Content]
    BY DEF LockTypeOK
<1>2. ASSUME NEW step, Go(p, step) PROVE Onward(p, step) /\ \A x \in Starts \ {p} : call'[x] = call[x]
    BY <1>1, <1>2 DEF Go, Onward, Calls
<1>3. ASSUME NEW kind, Return(p, kind) PROVE Ends(p, kind) /\ \A x \in Starts \ {p} : call'[x] = call[x]
    <2>1. PICK step : step = "RETURNED"
        OBVIOUS
    <2>2. call' = [call EXCEPT ![p] = [NoCall EXCEPT !.pc = step, !.lock = Lock(p), !.result = kind]]
        BY <1>3, <2>1 DEF Return
    <2>3. NoCall \in Calls /\ NoCall.read = NoLock /\ NoCall.attempt = 0
        BY EmptyKinds DEF NoCall
    <2> QED BY <1>1, <2>1, <2>2, <2>3 DEF Ends, Calls, Lock
<1>4. ASSUME NEW outcome, Finish(p, outcome) PROVE Drops(p, outcome) /\ \A x \in Starts \ {p} : call'[x] = call[x]
    BY <1>1, <1>4 DEF Finish, Drops, Calls
<1>5. ASSUME NEW step, NEW c, call' = [call EXCEPT ![p].pc = step, ![p].read = c]
      PROVE  /\ call'[p].pc = step /\ call'[p].lock = call[p].lock /\ call'[p].read = c
             /\ call'[p].attempt = call[p].attempt /\ call'[p].result = call[p].result
             /\ \A x \in Starts \ {p} : call'[x] = call[x]
    BY <1>1, <1>5 DEF Calls
<1>6. ASSUME NEW step, NEW t, call' = [call EXCEPT ![p].pc = step, ![p].holder = t]
      PROVE  Onward(p, step) /\ \A x \in Starts \ {p} : call'[x] = call[x]
    BY <1>1, <1>6 DEF Onward, Calls
<1>7. ASSUME NEW step, NEW n, call' = [call EXCEPT ![p].pc = step, ![p].tries = n]
      PROVE  Onward(p, step) /\ \A x \in Starts \ {p} : call'[x] = call[x]
    BY <1>1, <1>7 DEF Onward, Calls
<1>8. ASSUME NEW l \in Locks, NEW c, SetFile(l, c) PROVE FileIs(l, c)
    BY <1>1, <1>8 DEF SetFile, FileIs
<1> QED BY <1>2, <1>3, <1>4, <1>5, <1>6, <1>7, <1>8

(* Every step of a call has one of these shapes, and leaves the calls of    *)
(* the others, the dead and the held up as they are.                        *)
LEMMA CallShapes ==
    ASSUME LockTypeOK, CallsOK, NEW p \in Starts, CallStep(p) \/ EndGrace(p)
    PROVE  /\ CallShape(p) /\ \A x \in Starts \ {p} : call'[x] = call[x]
           /\ UNCHANGED <<dead, reset, asleep>> /\ p \notin dead \cup asleep
<1>1. call \in [Starts -> Calls] /\ call[p] \in Calls /\ Lock(p) \in Locks /\ file \in [Locks -> Content]
      /\ Lock(p) = call[p].lock
    BY DEF LockTypeOK, Lock, Calls
<1>2. UNCHANGED <<dead, reset, asleep>> /\ p \notin dead \cup asleep
    BY DEF CallStep, Sweep, SweepRemove, Create, Read, TakeToken, ReadToken, MoveToken, RestoreToken, MoveLock,
           RestoreLock, Recreate, DropToken, EndGrace, At
<1>3. ASSUME Sweep(p) \/ SweepRemove(p)
      PROVE  Approaches(p) /\ \A x \in Starts \ {p} : call'[x] = call[x]
    <2>1. PICK step \in {"SWEEP_REMOVE", "CREATE", "READ"} : Go(p, step)
        BY <1>3 DEF Sweep, SweepRemove
    <2> QED BY <1>3, <2>1, CallFields DEF Sweep, SweepRemove, At, Approaches
<1>4. ASSUME Create(p)
      PROVE  CallShape(p) /\ \A x \in Starts \ {p} : call'[x] = call[x]
    <2>1. CASE Go(p, "READ") /\ UNCHANGED file
        BY <1>4, <2>1, CallFields DEF Create, At, Approaches, CallShape
    <2>2. CASE file[Lock(p)] = NoLock /\ SetFile(Lock(p), Own(p)) /\ Return(p, "ACQUIRED")
        BY <1>1, <1>4, <2>2, CallFields DEF Create, At, Creates, CallShape
    <2> QED BY <1>4, <2>1, <2>2 DEF Create
<1>5. ASSUME Read(p)
      PROVE  CallShape(p) /\ \A x \in Starts \ {p} : call'[x] = call[x]
    <2>1. CASE Return(p, "CONTENDED") \/ Return(p, "HELD")
        BY <1>5, <2>1, CallFields DEF Read, At, GivesUp, CallShape
    <2>2. CASE /\ judgeRunLock(p, file[Lock(p)]) = "STALE"
               /\ call' = [call EXCEPT
                    ![p].pc = IF NeedsGrace(p, file[Lock(p)]) /\ call[p].attempt = 0 THEN "GRACE" ELSE "TOKEN",
                    ![p].read = file[Lock(p)]]
        <3>1. PICK step : step = IF NeedsGrace(p, file[Lock(p)]) /\ call[p].attempt = 0 THEN "GRACE" ELSE "TOKEN"
            OBVIOUS
        <3>2. call' = [call EXCEPT ![p].pc = step, ![p].read = file[Lock(p)]]
            BY <2>2, <3>1
        <3>3. /\ call'[p].pc = step /\ call'[p].lock = call[p].lock /\ call'[p].read = file[Lock(p)]
              /\ call'[p].attempt = call[p].attempt /\ call'[p].result = call[p].result
              /\ \A x \in Starts \ {p} : call'[x] = call[x]
            BY <3>2, CallFields
        <3>4. call[p].pc = "READ" /\ file' = file
            BY <1>5 DEF Read, At
        <3> QED BY <2>2, <3>1, <3>3, <3>4 DEF Judges, CallShape
    <2> QED BY <1>5, <2>1, <2>2 DEF Read
<1>6. ASSUME EndGrace(p)
      PROVE  CallShape(p) /\ \A x \in Starts \ {p} : call'[x] = call[x]
    <2>1. CASE Return(p, "HELD")
        BY <1>6, <2>1, CallFields DEF EndGrace, At, GivesUp, JudgedSteps, CallShape
    <2>2. CASE file[Lock(p)] \in {NoLock, call[p].read} /\ Go(p, "TOKEN")
        BY <1>6, <2>2, CallFields DEF EndGrace, At, Waited, CallShape
    <2> QED BY <1>6, <2>1, <2>2 DEF EndGrace
<1>7. ASSUME TakeToken(p) \/ ReadToken(p) \/ MoveToken(p) \/ RestoreToken(p)
      PROVE  CallShape(p) /\ \A x \in Starts \ {p} : call'[x] = call[x]
    <2>1. file' = file /\ call[p].pc \in TokenSteps
        BY <1>7 DEF TakeToken, ReadToken, MoveToken, RestoreToken, At, TokenSteps
    <2>2. CASE Return(p, "CONTENDED")
        BY <2>1, <2>2, CallFields DEF GivesUp, JudgedSteps, CallShape
    <2>3. CASE \E step \in TokenSteps \cup {"MOVE"} :
                  \/ Go(p, step)
                  \/ \E t : call' = [call EXCEPT ![p].pc = step, ![p].holder = t]
                  \/ \E n : call' = [call EXCEPT ![p].pc = step, ![p].tries = n]
        BY <2>1, <2>3, CallFields DEF GetsToken, CallShape
    <2>4. CASE TakeToken(p) /\ ~Return(p, "CONTENDED")
        <3>1. CASE Go(p, "MOVE")
            BY <2>3, <3>1
        <3>2. CASE call' = [call EXCEPT ![p].pc = "TOKEN_READ", ![p].tries = @ + 1]
            <4>1. call' = [call EXCEPT ![p].pc = "TOKEN_READ", ![p].tries = call[p].tries + 1]
                BY <1>1, <3>2
            <4> QED BY <2>3, <4>1 DEF TokenSteps
        <3> QED BY <2>4, <3>1, <3>2 DEF TakeToken
    <2>5. CASE ReadToken(p) /\ ~Return(p, "CONTENDED")
        <3>1. call' = [call EXCEPT ![p].pc = "TOKEN_MOVE", ![p].holder = token[Lock(p)]]
            BY <2>5 DEF ReadToken
        <3> QED BY <2>3, <3>1 DEF TokenSteps
    <2>6. CASE MoveToken(p)
        <3>1. PICK step \in TokenSteps : call' = [call EXCEPT ![p].pc = step, ![p].holder = token[Lock(p)]]
            BY <2>6 DEF MoveToken, TokenSteps
        <3> QED BY <2>3, <3>1
    <2> QED BY <1>7, <2>2, <2>4, <2>5, <2>6 DEF RestoreToken
<1>8. ASSUME MoveLock(p)
      PROVE  CallShape(p) /\ \A x \in Starts \ {p} : call'[x] = call[x]
    <2>1. call[p].pc = "MOVE" /\ FileIs(Lock(p), NoLock)
        BY <1>1, <1>8, CallFields DEF MoveLock, At
    <2>2. CASE file[Lock(p)] = NoLock /\ Finish(p, "CHANGED")
        <3>1. file' = file
            BY <1>1, <1>8, <2>2 DEF MoveLock, SetFile
        <3> QED BY <2>1, <2>2, <3>1, CallFields DEF MovesNone, CallShape
    <2>3. CASE file[Lock(p)] # NoLock /\ call' = [call EXCEPT
                 ![p].pc = IF file[Lock(p)] = call[p].read THEN "RECREATE" ELSE "RESTORE", ![p].read = file[Lock(p)]]
        <3>1. PICK step : step = IF file[Lock(p)] = call[p].read THEN "RECREATE" ELSE "RESTORE"
            OBVIOUS
        <3>2. call' = [call EXCEPT ![p].pc = step, ![p].read = file[Lock(p)]]
            BY <2>3, <3>1
        <3>3. /\ call'[p].pc = step /\ call'[p].lock = call[p].lock /\ call'[p].read = file[Lock(p)]
              /\ call'[p].attempt = call[p].attempt /\ call'[p].result = call[p].result
              /\ \A x \in Starts \ {p} : call'[x] = call[x]
            BY <3>2, CallFields
        <3> QED BY <2>1, <2>3, <3>1, <3>3 DEF Moves, CallShape
    <2> QED BY <1>8, <2>2, <2>3 DEF MoveLock
<1>9. ASSUME RestoreLock(p)
      PROVE  CallShape(p) /\ \A x \in Starts \ {p} : call'[x] = call[x]
    <2>1. call[p].pc = "RESTORE" /\ Drops(p, "LOST") /\ \A x \in Starts \ {p} : call'[x] = call[x]
        BY <1>9, CallFields DEF RestoreLock, At
    <2>2. CASE file[Lock(p)] = NoLock
        BY <1>1, <1>9, <2>1, <2>2, CallFields DEF RestoreLock, PutsBack, CallShape
    <2>3. CASE file[Lock(p)] # NoLock
        <3>1. file' = file
            BY <1>1, <1>9, <2>3 DEF RestoreLock, SetFile
        <3> QED BY <2>1, <2>3, <3>1 DEF FindsTaken, CallShape
    <2> QED BY <2>2, <2>3
<1>10. ASSUME Recreate(p)
       PROVE  CallShape(p) /\ \A x \in Starts \ {p} : call'[x] = call[x]
    BY <1>1, <1>10, CallFields DEF Recreate, At, Recreates, FindsTaken, CallShape
<1>11. ASSUME DropToken(p)
       PROVE  CallShape(p) /\ \A x \in Starts \ {p} : call'[x] = call[x]
    <2>1. call[p].pc = "DROP" /\ file' = file /\ call[p].result \in {"ACQUIRED", "LOST", "CHANGED"}
        BY <1>11 DEF DropToken, At, CallsOK
    <2>2. CASE call[p].result = "ACQUIRED" /\ Return(p, "ACQUIRED")
        BY <2>1, <2>2, CallFields DEF EndsTakeover, CallShape
    <2>3. CASE call[p].result = "LOST" /\ Return(p, "CONTENDED")
        BY <2>1, <2>3, CallFields DEF EndsTakeover, CallShape
    <2>4. CASE call[p].result = "CHANGED" /\ call' = [call EXCEPT ![p] =
                  [NoCall EXCEPT !.pc = FirstStep(Lock(p)), !.lock = Lock(p), !.attempt = call[p].attempt + 1]]
        <3>1. PICK n : n = call[p].attempt + 1
            OBVIOUS
        <3>2. PICK first : first = FirstStep(Lock(p))
            OBVIOUS
        <3>3. PICK c : c = [NoCall EXCEPT !.pc = first, !.lock = Lock(p), !.attempt = n]
            OBVIOUS
        <3>4. call' = [call EXCEPT ![p] = c]
            BY <2>4, <3>1, <3>2, <3>3
        <3>5. NoCall \in Calls /\ NoCall.read = NoLock /\ NoCall.result = "NONE"
            BY EmptyKinds DEF NoCall
        <3>6. c.pc = first /\ c.lock = Lock(p) /\ c.attempt = n /\ c.read = NoLock /\ c.result = "NONE"
            BY <3>3, <3>5 DEF Calls
        <3>7. first \in {"SWEEP", "CREATE"}
            BY <3>2 DEF FirstStep
        <3> QED BY <1>1, <2>1, <2>4, <3>1, <3>4, <3>6, <3>7 DEF BeginsAnew, CallShape
    <2> QED BY <1>11, <2>1, <2>2, <2>3, <2>4 DEF DropToken
<1> QED BY <1>2, <1>3, <1>4, <1>5, <1>6, <1>7, <1>8, <1>9, <1>10, <1>11 DEF CallStep, CallShape

-----------------------------------------------------------------------------
(* A step of a call                                                         *)

(* A lock that a start takes for stale: its owner is dead, has started and  *)
(* is held up, or has started before the clock was set.                     *)
LEMMA StaleOwners ==
    ASSUME PlacesOK, LaunchedOK, ClockOK, NEW p \in Starts, NEW q \in Starts, p # q,
           run[p].pc \in {"HOLD", "LOCK"}, NEW l \in Locks, file[l].owner = q, judgeRunLock(p, file[l]) = "STALE"
    PROVE  /\ run[q].pc \in PastSteps
           /\ q \in dead \/ NeedsGrace(p, file[l])
<1>1. run[q].pc # "NONE"
    BY DEF LaunchedOK
<1>2. q \in dead \/ LooksStale(p, q)
    BY DEF judgeRunLock, IsRunning
<1>3. CASE q \in dead
    BY <1>3 DEF PlacesOK, PlaceOK, PastSteps
<1>4. CASE q \notin dead /\ q \in asleep
    BY <1>4 DEF PlacesOK, PlaceOK, PastSteps, NeedsGrace, IsRunning, LooksStale
<1>5. CASE q \notin dead /\ OtherClock(p, q)
    <2>1. q \in reset /\ p \notin reset => run[p].pc \in {"NONE"} \cup PastSteps
        BY <1>1 DEF ClockOK
    <2>2. p \in reset /\ q \notin reset => run[q].pc \in {"NONE"} \cup PastSteps
        BY DEF ClockOK
    <2>3. run[p].pc \notin {"NONE"} \cup PastSteps
        BY DEF PastSteps
    <2> QED BY <1>1, <1>5, <2>1, <2>2, <2>3 DEF OtherClock, NeedsGrace, IsRunning, LooksStale
<1> QED BY <1>2, <1>3, <1>4, <1>5 DEF LooksStale

(* At most one start has the start lock, and no other one acquires it.      *)
LEMMA OneHolder ==
    ASSUME RunInv, NEW p \in Starts, NEW q \in Starts, Starts = {p, q}, p # q, HoldsStart(p)
    PROVE  ~HoldsStart(q)
<1>1. Own(p) # Own(q) /\ Own(p) # NoLock /\ Own(q) # NoLock
    BY LockAssumption DEF Own, NoLock
<1>2. file[StartLock] = Own(p) \/ Displaced(p)
    BY DEF RunInv, StartLockInv, StartHeld
<1>3. HoldsStart(q) => file[StartLock] = Own(q) \/ Displaced(q)
    BY DEF RunInv, StartLockInv, StartHeld
<1>4. Displaced(p) => q \in dead \/ (run[q].pc = "HOLD" /\ call[q].pc = "RESTORE")
    BY DEF Displaced
<1>5. Displaced(q) => p \in dead \/ (run[p].pc = "HOLD" /\ call[p].pc = "RESTORE")
    BY DEF Displaced
<1> QED BY <1>1, <1>2, <1>3, <1>4, <1>5 DEF HoldsStart, StartSteps, ChosenSteps, ResumeSteps, Acquired, Displaced

(* What happens to neither the start lock nor a call for it leaves it where *)
(* it is.                                                                   *)
LEMMA StartLockFrame ==
    ASSUME StartLockInv, file'[StartLock] = file[StartLock], dead \subseteq dead',
           \A x \in Starts :
              /\ run'[x].pc = "HOLD" <=> run[x].pc = "HOLD"
              /\ run[x].pc = "HOLD" => call'[x] = call[x]
              /\ run'[x].pc \in StartSteps => run[x].pc \in StartSteps
              /\ run[x].pc \in PastSteps => run'[x].pc \in PastSteps
    PROVE  StartLockInv'
<1>1. ASSUME NEW x \in Starts, HoldsStart(x)' PROVE file'[StartLock] = Own(x) \/ Displaced(x)'
    <2>1. HoldsStart(x)
        BY <1>1 DEF HoldsStart, Acquired
    <2>2. CASE file[StartLock] = Own(x)
        BY <2>2
    <2>3. CASE Displaced(x)
        <3>1. PICK y \in Starts \ {x} : y \in dead \/ (run[y].pc = "HOLD" /\ call[y].pc = "RESTORE" /\ call[y].read = Own(x))
            BY <2>3 DEF Displaced
        <3>2. y \in dead' \/ (run'[y].pc = "HOLD" /\ call'[y].pc = "RESTORE" /\ call'[y].read = Own(x))
            BY <3>1
        <3> QED BY <2>3, <3>2 DEF Displaced, Own
    <2> QED BY <2>1, <2>2, <2>3 DEF StartLockInv, StartHeld
<1>2. StartJudged'
    <2>1. ASSUME NEW x \in Starts, NEW y \in Starts, x # y, run'[y].pc = "HOLD", call'[y].pc \in JudgedSteps, call'[y].read.owner = x
          PROVE  run'[x].pc \in PastSteps
        <3>1. run[y].pc = "HOLD" /\ call[y].pc \in JudgedSteps /\ call[y].read.owner = x
            BY <2>1
        <3> QED BY <2>1, <3>1 DEF StartLockInv, StartJudged
    <2> QED BY <2>1 DEF StartJudged
<1> QED BY <1>1, <1>2 DEF StartLockInv, StartHeld, Own

(* A call keeps the start lock where it is for the start that has it.       *)
LEMMA CallKeepsStartLock ==
    ASSUME RunInv, NEW p \in Starts, NEW q \in Starts, Starts = {p, q}, p # q, CallStep(p) \/ EndGrace(p), UNCHANGED run
    PROVE  StartLockInv'
<1>1. CallShape(p) /\ (\A x \in Starts \ {p} : call'[x] = call[x]) /\ UNCHANGED <<dead, reset, asleep>> /\ p \notin dead
    BY CallShapes DEF RunInv, StartInv, RunTypeOK
<1>2. Lock(p) \in Locks /\ Lock(p) = call[p].lock /\ StartLock \in Locks /\ run' = run /\ run[p].dir \in Runs
    BY EmptyKinds DEF RunInv, StartInv, RunTypeOK, LockTypeOK, Calls, RunRecords, Lock
<1>3. call[p].pc # "NONE"
    BY <1>1 DEF CallShape, Approaches, Creates, GivesUp, Judges, Waited, GetsToken, MovesNone, Moves, PutsBack, FindsTaken,
                Recreates, EndsTakeover, BeginsAnew, JudgedSteps, TokenSteps
<1>4. PlacesOK /\ StartHeld /\ StartJudged
    BY DEF RunInv, StartLockInv
<1>5. run[p].pc \in {"HOLD", "LOCK"} /\ (run[p].pc = "HOLD" => Lock(p) = StartLock) /\ (run[p].pc = "LOCK" => Lock(p) = dir(p))
    BY <1>3, <1>4 DEF PlacesOK, PlaceOK
<1>6. \A x \in Starts : Own(x) # NoLock /\ Own(x).owner = x /\ x # Nobody
    BY LockAssumption DEF Own, NoLock
<1>7. CASE run[p].pc = "LOCK"
    <2>1. Lock(p) # StartLock
        BY <1>2, <1>5, <1>7, LockAssumption DEF dir, Runs
    <2>2. file'[StartLock] = file[StartLock]
        BY <1>1, <1>2, <2>1 DEF CallShape, Approaches, Creates, GivesUp, Judges, Waited, GetsToken, MovesNone, Moves, PutsBack,
                FindsTaken, Recreates, EndsTakeover, BeginsAnew, FileIs
    <2> QED BY <1>1, <1>2, <1>7, <2>2, StartLockFrame DEF RunInv
<1>8. CASE run[p].pc = "HOLD"
    <2>1. Lock(p) = StartLock /\ p \notin dead
        BY <1>1, <1>5, <1>8
    <2>2. \A x \in Starts \ {p} : HoldsStart(x)' <=> HoldsStart(x)
        BY <1>1, <1>2 DEF HoldsStart, Acquired
    <2>3. HoldsStart(p) <=> Acquired(p)
        BY <1>8, <2>1 DEF HoldsStart, StartSteps, ChosenSteps, ResumeSteps
    <2>4. HoldsStart(p)' <=> Acquired(p)'
        BY <1>1, <1>2, <1>8, <2>1 DEF HoldsStart, StartSteps, ChosenSteps, ResumeSteps
    <2>5. p # q /\ HoldsStart(q) => file[StartLock] = Own(q) \/ (file[StartLock] = NoLock /\ call[p].pc = "RESTORE" /\ call[p].read = Own(q))
        BY <1>4, <2>1 DEF StartHeld, Displaced
    <2>6. HoldsStart(p) => file[StartLock] = Own(p) \/ Displaced(p)
        BY <1>4 DEF StartHeld
    <2>7. p # q => (Displaced(q)' <=> file'[StartLock] = NoLock /\ call'[p].pc = "RESTORE" /\ call'[p].read = Own(q))
        BY <1>1, <1>2, <1>8, <2>1 DEF Displaced, Own
    <2>8. p # q /\ file' = file => (Displaced(p)' <=> Displaced(p))
        BY <1>1, <1>2 DEF Displaced, Own
    <2>9. StartJudged'
        <3>1. ASSUME p # q, call'[p].pc \in JudgedSteps, call'[p].read.owner = q
              PROVE  run[q].pc \in PastSteps
            <4>1. CASE Judges(p)
                BY <1>2, <1>4, <1>8, <2>1, <3>1, <4>1, StaleOwners DEF Judges, RunInv, ClockInv
            <4>2. CASE Waited(p) \/ GetsToken(p)
                BY <1>4, <1>8, <3>1, <4>2 DEF Waited, GetsToken, Onward, StartJudged, JudgedSteps
            <4>3. CASE ~(Judges(p) \/ Waited(p) \/ GetsToken(p))
                BY <1>1, <3>1, <4>3 DEF CallShape, Approaches, Creates, GivesUp, MovesNone, Moves, PutsBack,
                    FindsTaken, Recreates, EndsTakeover, BeginsAnew, Onward, Ends, Drops, JudgedSteps, TokenSteps
            <4> QED BY <4>1, <4>2, <4>3
        <3> QED BY <1>1, <1>2, <1>4, <3>1 DEF StartJudged
    <2>10. CASE Approaches(p) \/ GivesUp(p) \/ Judges(p) \/ Waited(p) \/ GetsToken(p) \/ MovesNone(p) \/ BeginsAnew(p)
        <3>1. file' = file /\ call[p].pc # "RESTORE" /\ ~Acquired(p)'
            BY <2>10 DEF Approaches, GivesUp, Judges, Waited, GetsToken, MovesNone, BeginsAnew, Onward, Ends, Drops,
                Acquired, JudgedSteps, TokenSteps
        <3> QED BY <2>2, <2>4, <2>5, <2>9, <3>1 DEF StartHeld, StartLockInv, Own
    <2>11. CASE FindsTaken(p) \/ EndsTakeover(p)
        <3>1. file' = file /\ (file[StartLock] = NoLock => call[p].pc # "RESTORE") /\ (Acquired(p)' => Acquired(p))
            BY <2>1, <2>11 DEF FindsTaken, EndsTakeover, Ends, Drops, Acquired
        <3>2. p # q /\ HoldsStart(q)' => file'[StartLock] = Own(q)'
            BY <2>2, <2>5, <3>1 DEF Own
        <3>3. HoldsStart(p)' => file'[StartLock] = Own(p)' \/ Displaced(p)'
            BY <2>3, <2>4, <2>6, <2>8, <3>1 DEF Own, Displaced
        <3> QED BY <2>9, <3>2, <3>3 DEF StartHeld, StartLockInv
    <2>12. CASE Creates(p) \/ Recreates(p)
        <3>1. file[StartLock] = NoLock /\ call[p].pc # "RESTORE" /\ file'[StartLock] = Own(p)
            BY <2>1, <2>12 DEF Creates, Recreates, FileIs
        <3>2. p # q => ~HoldsStart(q)'
            BY <1>6, <2>2, <2>5, <3>1
        <3> QED BY <2>9, <3>1, <3>2 DEF StartHeld, StartLockInv, Own
    <2>13. CASE Moves(p)
        <3>1. ~HoldsStart(p)'
            BY <2>4, <2>13 DEF Moves, Acquired
        <3>2. p # q /\ HoldsStart(q) => Displaced(q)'
            <4>1. SUFFICES ASSUME p # q, HoldsStart(q) PROVE Displaced(q)'
                OBVIOUS
            <4>2. file[StartLock] = Own(q) /\ file'[StartLock] = NoLock /\ call'[p].read = Own(q)
                BY <2>1, <2>5, <2>13, <4>1 DEF Moves, FileIs
            <4>3. call'[p].pc = "RESTORE"
                <5>1. SUFFICES ASSUME call[p].read = Own(q) PROVE FALSE
                    BY <2>1, <2>13, <4>2 DEF Moves
                <5>2. run[q].pc \in PastSteps
                    BY <1>4, <1>6, <1>8, <2>13, <4>1, <5>1 DEF StartJudged, Moves, JudgedSteps
                <5> QED BY <4>1, <5>2 DEF HoldsStart, PastSteps, StartSteps, ChosenSteps, ResumeSteps
            <4> QED BY <2>7, <4>1, <4>2, <4>3
        <3> QED BY <2>2, <2>9, <3>1, <3>2 DEF StartHeld, StartLockInv
    <2>14. CASE PutsBack(p)
        <3>1. ~HoldsStart(p)'
            BY <2>4, <2>14 DEF PutsBack, Drops, Acquired
        <3>2. p # q /\ HoldsStart(q) => file'[StartLock] = Own(q)
            BY <1>6, <2>1, <2>5, <2>14 DEF PutsBack, FileIs
        <3> QED BY <2>2, <2>9, <3>1, <3>2 DEF StartHeld, StartLockInv, Own
    <2> QED BY <1>1, <2>10, <2>11, <2>12, <2>13, <2>14 DEF CallShape
<1> QED BY <1>5, <1>7, <1>8

(* A session or a start keeps its run.lock while its lock stays its own,    *)
(* nobody opens a session and no other call for the lock goes on; a session *)
(* comes to write only when its lock is its own.                            *)
LEMMA RunLockFrame ==
    ASSUME RunLockInv,
           \A x \in Starts :
              /\ dir(x)' = dir(x)
              /\ (Threat(x)' => Threat(x) \/ IsOwn(x, dir(x))') /\ (HoldsRun(x)' => HoldsRun(x)) /\ (Foremost(x)' => Foremost(x))
              /\ (Open(x)' => Open(x)) /\ (PastLock(x) => PastLock(x)')
              /\ IsOwn(x, dir(x)) /\ (Threat(x)' \/ HoldsRun(x)' \/ Foremost(x)' \/ Open(x)') => IsOwn(x, dir(x))'
              /\ run'[x].pc = "LOCK" => run[x].pc = "LOCK" /\ call'[x] = call[x]
              /\ x \in asleep /\ Open(x)' => x \in asleep'
    PROVE  RunLockInv'
<1>1. RunHeld'
    BY DEF RunLockInv, RunHeld
<1>2. OpenHeld'
    <2>1. ASSUME NEW x \in Starts, Open(x)', ~IsOwn(x, dir(x))' PROVE \E y \in Starts \ {x} : dir(y)' = dir(x)' /\ PastLock(y)'
        <3>1. PICK y \in Starts \ {x} : dir(y) = dir(x) /\ PastLock(y)
            BY <2>1 DEF RunLockInv, OpenHeld
        <3> QED BY <3>1
    <2> QED BY <2>1 DEF OpenHeld
<1>3. ChangedAlone'
    <2>1. ASSUME NEW x \in Starts, NEW y \in Starts, x # y, run'[x].pc = "LOCK", dir(y)' = dir(x)',
                 call'[x].attempt > 0 \/ (call'[x].pc = "DROP" /\ call'[x].result = "CHANGED")
          PROVE  ~Open(y)'
        <3>1. run[x].pc = "LOCK" /\ dir(y) = dir(x) /\ call'[x] = call[x]
            BY <2>1
        <3> QED BY <2>1, <3>1 DEF RunLockInv, ChangedAlone
    <2> QED BY <2>1 DEF ChangedAlone
<1>4. TakesFromSleeper'
    <2>1. ASSUME NEW x \in Starts, NEW y \in Starts, x # y, run'[x].pc = "LOCK", dir(y)' = dir(x)', Open(y)',
                 call'[x].pc \in TokenSteps \cup {"MOVE"}
          PROVE  y \in asleep' /\ call'[x].read.owner = y
        <3>1. run[x].pc = "LOCK" /\ dir(y) = dir(x) /\ call'[x] = call[x] /\ Open(y)
            BY <2>1
        <3> QED BY <2>1, <3>1 DEF RunLockInv, TakesFromSleeper
    <2> QED BY <2>1 DEF TakesFromSleeper
<1> QED BY <1>1, <1>2, <1>3, <1>4 DEF RunLockInv

(* A start that calls for a run.lock is alone in the start stage and has no *)
(* session; a session beside it still has its lock, until the call moves it.*)
LEMMA CallerAlone ==
    ASSUME RunInv, NEW p \in Starts, NEW q \in Starts, Starts = {p, q}, p # q, p \notin dead, run[p].pc = "LOCK"
    PROVE  /\ ~Open(p) /\ ~Threat(p) /\ ~Foremost(p) /\ ~Foremost(q) /\ ~HoldsRun(q) /\ run[q].pc # "LOCK"
           /\ (HoldsRun(p) <=> Acquired(p))
           /\ Threat(q) => Open(q)
           /\ Open(q) /\ dir(q) = dir(p) /\ ~PastLock(p) => IsOwn(q, dir(p))
<1>1. PlaceOK(p) /\ PlaceOK(q)
    BY DEF RunInv, PlacesOK
<1>2. ~Open(p) /\ ~Threat(p) /\ ~Foremost(p)
    BY <1>1 DEF PlaceOK, Open, Threat, Foremost, Running
<1>3. HoldsStart(p)
    BY DEF HoldsStart, StartSteps, ChosenSteps
<1>4. ~HoldsStart(q)
    BY <1>3, OneHolder
<1>5. ~HoldsRun(q) /\ run[q].pc # "LOCK"
    BY <1>1, <1>4 DEF HoldsRun, HoldsStart, PlaceOK, StartSteps, ChosenSteps, ResumeSteps
<1>6. ~Foremost(q)
    BY DEF RunInv, FindInv, NoOtherRun, ChosenSteps
<1>7. HoldsRun(p) <=> Acquired(p)
    BY DEF HoldsRun, ResumeSteps
<1>8. Threat(q) => Open(q)
    BY DEF Threat, Open
<1>9. Open(q) /\ dir(q) = dir(p) /\ ~PastLock(p) => IsOwn(q, dir(p))
    BY DEF RunInv, RunLockInv, OpenHeld, IsOwn
<1> QED BY <1>2, <1>5, <1>6, <1>7, <1>8, <1>9

(* A call for a run.lock takes it from no session but one held up.          *)
LEMMA CallKeepsRunLock ==
    ASSUME RunInv, NEW p \in Starts, NEW q \in Starts, Starts = {p, q}, p # q, UNCHANGED run,
           CallStep(p) \/ (EndGrace(p) /\ GraceOver(Lock(p), call[p].read))
    PROVE  RunLockInv'
<1>1. CallShape(p) /\ (\A x \in Starts \ {p} : call'[x] = call[x]) /\ UNCHANGED <<dead, reset, asleep>> /\ p \notin dead
    BY CallShapes DEF RunInv, StartInv, RunTypeOK
<1>2. Lock(p) \in Locks /\ Lock(p) = call[p].lock /\ run' = run /\ run[p].dir \in Runs /\ run[q].dir \in Runs
      /\ Runs \subseteq Locks /\ StartLock \notin Runs /\ call[p].attempt \in Nat
    BY EmptyKinds, LockAssumption DEF RunInv, StartInv, RunTypeOK, LockTypeOK, Calls, RunRecords, Lock, Runs
<1>3. call[p].pc # "NONE"
    BY <1>1 DEF CallShape, Approaches, Creates, GivesUp, Judges, Waited, GetsToken, MovesNone, Moves, PutsBack, FindsTaken,
                Recreates, EndsTakeover, BeginsAnew, JudgedSteps, TokenSteps
<1>4. PlaceOK(p) /\ PlaceOK(q) /\ RunHeld /\ OpenHeld /\ ChangedAlone /\ TakesFromSleeper
    BY DEF RunInv, RunLockInv, PlacesOK
<1>5. run[p].pc \in {"HOLD", "LOCK"} /\ (run[p].pc = "HOLD" => Lock(p) = StartLock) /\ (run[p].pc = "LOCK" => Lock(p) = dir(p))
    BY <1>3, <1>4 DEF PlaceOK
<1>6. \A x \in Starts : x # Nobody /\ Own(x).owner = x
    BY LockAssumption DEF Own
<1>7. CASE run[p].pc = "HOLD"
    <2>1. \A l \in Runs : file'[l] = file[l]
        BY <1>1, <1>2, <1>5, <1>7 DEF CallShape, Approaches, Creates, GivesUp, Judges, Waited, GetsToken, MovesNone, Moves,
                PutsBack, FindsTaken, Recreates, EndsTakeover, BeginsAnew, FileIs
    <2>2. \A x \in Starts :
              /\ dir(x)' = dir(x)
              /\ (Threat(x)' => Threat(x)) /\ (Foremost(x)' => Foremost(x)) /\ (Open(x)' => Open(x))
              /\ IsOwn(x, dir(x)) => IsOwn(x, dir(x))'
              /\ run'[x].pc = "LOCK" => call'[x] = call[x]
        BY <1>1, <1>2, <1>7, <2>1 DEF dir, Threat, Foremost, Running, Open, IsOwn
    <2>3. \A x \in Starts : (HoldsRun(x)' => HoldsRun(x)) /\ (PastLock(x) => PastLock(x)')
        BY <1>1, <1>2, <2>2 DEF HoldsRun, PastLock, Acquired
    <2> QED BY <1>1, <1>2, <2>2, <2>3, RunLockFrame DEF RunInv
<1>8. CASE run[p].pc = "LOCK"
    <2>1. /\ ~Open(p) /\ ~Threat(p) /\ ~Foremost(p) /\ ~Foremost(q) /\ ~HoldsRun(q) /\ run[q].pc # "LOCK"
          /\ (HoldsRun(p) <=> Acquired(p)) /\ (Threat(q) => Open(q))
          /\ (Open(q) /\ dir(q) = dir(p) /\ ~PastLock(p) => IsOwn(q, dir(p)))
        BY <1>1, <1>8, CallerAlone
    <2>2. \A x \in Starts : (Threat(x)' <=> Threat(x)) /\ (Foremost(x)' <=> Foremost(x)) /\ (Open(x)' <=> Open(x)) /\ dir(x)' = dir(x)
        BY <1>1, <1>2 DEF dir, Threat, Foremost, Running, Open
    <2>3. (HoldsRun(q)' <=> HoldsRun(q)) /\ (HoldsRun(p)' <=> Acquired(p)')
        BY <1>1, <1>2, <1>8 DEF HoldsRun, Acquired, ResumeSteps
    <2>4. PastLock(p)' <=> call'[p].pc \in {"RESTORE", "RECREATE", "DROP", "RETURNED"}
        BY <1>1, <1>2, <1>8 DEF PastLock, ResumeSteps, PastSteps
    <2>5. PastLock(p) <=> call[p].pc \in {"RESTORE", "RECREATE", "DROP", "RETURNED"}
        BY <1>8 DEF PastLock, ResumeSteps, PastSteps
    <2>6. Lock(p) = dir(p)
        BY <1>5, <1>8
    <2>7. Threat(q) => IsOwn(q, dir(q))
        BY <1>4 DEF RunHeld
    <2>8. Open(q) => IsOwn(q, dir(q)) \/ (dir(p) = dir(q) /\ PastLock(p))
        BY <1>4 DEF OpenHeld
    <2>9. SUFFICES
              /\ Threat(q) => IsOwn(q, dir(q))'
              /\ Acquired(p)' => IsOwn(p, dir(p))'
              /\ Open(q) => IsOwn(q, dir(q))' \/ (dir(p) = dir(q) /\ PastLock(p)')
              /\ dir(q) = dir(p) /\ (call'[p].attempt > 0 \/ (call'[p].pc = "DROP" /\ call'[p].result = "CHANGED")) => ~Open(q)
              /\ dir(q) = dir(p) /\ Open(q) /\ call'[p].pc \in TokenSteps \cup {"MOVE"} => q \in asleep /\ call'[p].read.owner = q
        <3>1. RunHeld'
            BY <2>1, <2>2, <2>3, <2>9 DEF RunHeld
        <3>2. OpenHeld'
            BY <1>8, <2>1, <2>2, <2>9 DEF OpenHeld
        <3>3. ChangedAlone'
            BY <1>2, <2>1, <2>2, <2>9 DEF ChangedAlone
        <3>4. TakesFromSleeper'
            BY <1>1, <1>2, <2>1, <2>2, <2>9 DEF TakesFromSleeper
        <3> QED BY <3>1, <3>2, <3>3, <3>4 DEF RunLockInv
    <2>10. dir(q) = dir(p) /\ Open(q) /\ call[p].pc \in TokenSteps \cup {"MOVE"} => q \in asleep /\ call[p].read.owner = q
        BY <1>8 , <1>4 DEF TakesFromSleeper
    <2>11. dir(q) = dir(p) /\ (call[p].attempt > 0 \/ (call[p].pc = "DROP" /\ call[p].result = "CHANGED")) => ~Open(q)
        BY <1>8, <1>4 DEF ChangedAlone
    <2>12. Acquired(p) => IsOwn(p, dir(p))
        BY <2>1, <1>4 DEF RunHeld
    <2>13. file' = file => (IsOwn(q, dir(q))' <=> IsOwn(q, dir(q))) /\ (IsOwn(p, dir(p))' <=> IsOwn(p, dir(p)))
        BY <2>2 DEF IsOwn
    <2>14. \A c : FileIs(Lock(p), c) /\ dir(q) # dir(p) => (IsOwn(q, dir(q))' <=> IsOwn(q, dir(q)))
        BY <1>2, <2>2, <2>6 DEF IsOwn, FileIs, dir
    <2>15. file[Lock(p)] = NoLock => ~IsOwn(q, dir(p))
        BY <1>6, <2>6 DEF IsOwn, NoLock
    <2>16. CASE Approaches(p)
        <3>1. file' = file /\ ~PastLock(p) /\ ~Acquired(p)' /\ call'[p].attempt = call[p].attempt
              /\ call'[p].pc \notin TokenSteps \cup {"MOVE", "DROP"}
            BY <2>5, <2>16 DEF Approaches, Onward, Acquired, TokenSteps
        <3> QED BY <2>7, <2>8, <2>11, <2>13, <3>1
    <2>17. CASE GivesUp(p) \/ EndsTakeover(p)
        <3>1. file' = file /\ PastLock(p)' /\ (Acquired(p)' => Acquired(p)) /\ call'[p].attempt = 0
              /\ call'[p].pc = "RETURNED"
            BY <2>4, <2>17 DEF GivesUp, EndsTakeover, Ends, Acquired
        <3> QED BY <2>7, <2>8, <2>12, <2>13, <3>1 DEF TokenSteps
    <2>18. CASE Creates(p)
        <3>1. file[Lock(p)] = NoLock /\ FileIs(Lock(p), Own(p)) /\ ~PastLock(p) /\ call'[p].pc = "RETURNED" /\ call'[p].attempt = 0
              /\ PastLock(p)'
            BY <2>4, <2>5, <2>18 DEF Creates, Ends
        <3>2. Open(q) => dir(q) # dir(p)
            BY <2>1, <2>15, <3>1
        <3>3. IsOwn(p, dir(p))'
            BY <1>2, <1>6, <2>2, <2>6, <3>1 DEF IsOwn, FileIs, dir
        <3> QED BY <2>1, <2>7, <2>8, <2>14, <3>1, <3>2, <3>3 DEF TokenSteps
    <2>19. CASE Judges(p)
        <3>1. file' = file /\ ~PastLock(p) /\ ~Acquired(p)' /\ call'[p].attempt = call[p].attempt
              /\ call'[p].pc \in {"GRACE", "TOKEN"} /\ call'[p].read = file[dir(p)]
            BY <2>5, <2>6, <2>19 DEF Judges, Acquired
        <3>2. ASSUME dir(q) = dir(p), Open(q) PROVE call'[p].pc = "GRACE"
            <4>1. file[Lock(p)].owner = q
                BY <2>1, <2>6, <3>1, <3>2 DEF IsOwn
            <4>2. NeedsGrace(p, file[Lock(p)])
                BY <1>2, <1>8, <2>19, <3>2, <4>1, StaleOwners DEF Judges, RunInv, ClockInv, Open
            <4>3. call[p].attempt = 0
                BY <1>2, <2>11, <3>2
            <4> QED BY <2>19, <4>2, <4>3 DEF Judges
        <3> QED BY <2>7, <2>8, <2>11, <2>13, <3>1, <3>2 DEF TokenSteps
    <2>20. CASE Waited(p)
        <3>1. file' = file /\ ~PastLock(p) /\ ~Acquired(p)' /\ call'[p].attempt = call[p].attempt
              /\ call'[p].pc = "TOKEN" /\ call'[p].read = call[p].read
            BY <2>5, <2>20 DEF Waited, Onward, Acquired
        <3>2. ASSUME dir(q) = dir(p), Open(q) PROVE q \in asleep /\ call[p].read.owner = q
            <4>1. file[Lock(p)].owner = q
                BY <2>1, <2>6, <3>1, <3>2 DEF IsOwn
            <4>2. file[Lock(p)] = call[p].read
                BY <1>6, <2>20, <4>1 DEF Waited, NoLock
            <4>3. GraceOver(Lock(p), call[p].read)
                BY <2>20 DEF CallStep, Sweep, SweepRemove, Create, Read, TakeToken, ReadToken, MoveToken, RestoreToken, MoveLock,
                    RestoreLock, Recreate, DropToken, At, Waited
            <4>4. ~Waits(q) /\ ~Stands(q, Lock(p))
                BY <1>2, <1>4, <2>6, <3>2 DEF PlaceOK, Open, Waits, Stands, dir
            <4> QED BY <3>2, <4>1, <4>2, <4>3, <4>4 DEF GraceOver, IsRunning, Open
        <3> QED BY <2>7, <2>8, <2>11, <2>13, <3>1, <3>2
    <2>21. CASE GetsToken(p)
        <3>1. file' = file /\ ~PastLock(p) /\ ~Acquired(p)' /\ call'[p].attempt = call[p].attempt /\ call'[p].read = call[p].read
              /\ call[p].pc \in TokenSteps /\ call'[p].pc # "DROP"
            BY <2>5, <2>21 DEF GetsToken, Onward, Acquired, TokenSteps
        <3> QED BY <2>7, <2>8, <2>10, <2>11, <2>13, <3>1
    <2>22. CASE MovesNone(p)
        <3>1. file' = file /\ ~PastLock(p) /\ PastLock(p)' /\ ~Acquired(p)' /\ call'[p].pc = "DROP" /\ file[Lock(p)] = NoLock
            BY <2>4, <2>5, <2>22 DEF MovesNone, Drops, Acquired
        <3>2. Open(q) => dir(q) # dir(p)
            BY <2>1, <2>15, <3>1
        <3> QED BY <2>7, <2>8, <2>13, <3>1, <3>2 DEF TokenSteps
    <2>23. CASE Moves(p)
        <3>1. FileIs(Lock(p), NoLock) /\ PastLock(p)' /\ ~Acquired(p)' /\ call'[p].pc \in {"RECREATE", "RESTORE"}
              /\ call'[p].attempt = call[p].attempt /\ call[p].pc = "MOVE"
            BY <2>4, <2>23 DEF Moves, Acquired
        <3>2. Threat(q) => dir(q) # dir(p)
            BY <1>4, <2>1, <2>10, <3>1 DEF PlaceOK, Threat
        <3> QED BY <2>7, <2>8, <2>11, <2>14, <3>1, <3>2 DEF TokenSteps
    <2>24. CASE PutsBack(p)
        <3>1. file[Lock(p)] = NoLock /\ FileIs(Lock(p), call[p].read) /\ PastLock(p)' /\ ~Acquired(p)' /\ call'[p].pc = "DROP"
              /\ call'[p].attempt = call[p].attempt /\ call'[p].result = "LOST"
            BY <2>4, <2>24 DEF PutsBack, Drops, Acquired
        <3>2. Threat(q) => dir(q) # dir(p)
            BY <2>7, <2>15, <3>1
        <3> QED BY <2>7, <2>8, <2>11, <2>14, <3>1, <3>2 DEF TokenSteps
    <2>25. CASE FindsTaken(p)
        <3>1. file' = file /\ PastLock(p)' /\ ~Acquired(p)' /\ call'[p].pc = "DROP"
              /\ call'[p].attempt = call[p].attempt /\ call'[p].result = "LOST"
            BY <2>4, <2>25 DEF FindsTaken, Drops, Acquired
        <3> QED BY <2>7, <2>8, <2>11, <2>13, <3>1 DEF TokenSteps
    <2>26. CASE Recreates(p)
        <3>1. file[Lock(p)] = NoLock /\ FileIs(Lock(p), Own(p)) /\ PastLock(p)' /\ call'[p].pc = "DROP"
              /\ call'[p].attempt = call[p].attempt /\ call'[p].result = "ACQUIRED"
            BY <2>4, <2>26 DEF Recreates, Drops
        <3>2. Threat(q) => dir(q) # dir(p)
            BY <2>7, <2>15, <3>1
        <3>3. IsOwn(p, dir(p))'
            BY <1>2, <1>6, <2>2, <2>6, <3>1 DEF IsOwn, FileIs, dir
        <3> QED BY <2>7, <2>8, <2>11, <2>14, <3>1, <3>2, <3>3 DEF TokenSteps
    <2>27. CASE BeginsAnew(p)
        <3>1. file' = file /\ ~Acquired(p)' /\ call'[p].pc \in {"SWEEP", "CREATE"}
              /\ call[p].pc = "DROP" /\ call[p].result = "CHANGED"
            BY <2>27 DEF BeginsAnew, Acquired
        <3> QED BY <2>7, <2>8, <2>11, <2>13, <3>1 DEF TokenSteps
    <2> QED BY <1>1, <2>16, <2>17, <2>18, <2>19, <2>20, <2>21, <2>22, <2>23, <2>24, <2>25, <2>26, <2>27 DEF CallShape
<1> QED BY <1>5, <1>7, <1>8

(* A step of a call keeps the whole invariant.                              *)
LEMMA CallKeeps ==
    ASSUME RunInv, NEW p \in Starts, NEW q \in Starts, Starts = {p, q}, p # q, CallGoesOn(p) \/ GraceEnds(p)
    PROVE  RunInv'
<1>1. CallStep(p) \/ (EndGrace(p) /\ GraceOver(Lock(p), call[p].read))
    BY DEF CallGoesOn, GraceEnds
<1>2. UNCHANGED <<run, saved, deaths>>
    BY DEF CallGoesOn, GraceEnds
<1>3. CallShape(p) /\ (\A x \in Starts \ {p} : call'[x] = call[x]) /\ UNCHANGED <<dead, reset, asleep>> /\ p \notin dead \cup asleep
    BY <1>1, CallShapes DEF RunInv, StartInv, RunTypeOK
<1>4. StartInv'
    BY StartStepKinds DEF RunInv, StartStep
<1>5. StartLockInv' /\ RunLockInv'
    BY <1>1, <1>2, CallKeepsStartLock, CallKeepsRunLock
<1>6. Lock(p) \in Locks /\ Lock(p) = call[p].lock /\ p # Nobody
    BY LockAssumption DEF RunInv, StartInv, RunTypeOK, LockTypeOK, Calls, Lock
<1>7. call[p].pc # "NONE" /\ call'[p].lock = call[p].lock
    BY <1>3 DEF CallShape, Approaches, Creates, GivesUp, Judges, Waited, GetsToken, MovesNone, Moves, PutsBack, FindsTaken,
                Recreates, EndsTakeover, BeginsAnew, JudgedSteps, TokenSteps, Onward, Ends, Drops
<1>8. PlacesOK /\ LaunchedOK /\ WaitsOK /\ ClockOK
    BY DEF RunInv, ClockInv
<1>9. PlacesOK'
    <2>1. \A x \in Starts : PlaceOK(x)'
        BY <1>2, <1>3, <1>6, <1>7, <1>8 DEF PlacesOK, PlaceOK, dir, Lock
    <2> QED BY <2>1 DEF PlacesOK
<1>10. run[p].pc # "NONE"
    BY <1>7, <1>8 DEF PlacesOK, PlaceOK
<1>11. /\ \A x \in Starts, l \in Locks : file'[l].owner = x => x = p \/ (\E m \in Locks : file[m].owner = x) \/ call[p].read.owner = x
       /\ \A x \in Starts : call'[p].read.owner = x => (\E m \in Locks : file[m].owner = x) \/ call[p].read.owner = x
    <2>1. NoLock.owner = Nobody /\ Own(p).owner = p /\ \A x \in Starts : x # Nobody
        BY LockAssumption DEF NoLock, Own
    <2>2. CASE Approaches(p) \/ GetsToken(p) \/ Waited(p)
        BY <2>2 DEF Approaches, GetsToken, Waited, Onward
    <2>3. CASE Creates(p) \/ Recreates(p) \/ PutsBack(p)
        BY <1>6, <2>1, <2>3 DEF Creates, Recreates, PutsBack, FileIs, Ends, Drops
    <2>4. CASE GivesUp(p) \/ EndsTakeover(p) \/ BeginsAnew(p)
        BY <2>1, <2>4 DEF GivesUp, EndsTakeover, BeginsAnew, Ends
    <2>5. CASE MovesNone(p) \/ FindsTaken(p)
        BY <2>5 DEF MovesNone, FindsTaken, Drops
    <2>6. CASE Moves(p)
        BY <1>6, <2>1, <2>6 DEF Moves, FileIs
    <2>7. CASE Judges(p)
        BY <1>6, <2>7 DEF Judges
    <2> QED BY <1>3, <2>2, <2>3, <2>4, <2>5, <2>6, <2>7 DEF CallShape
<1>12. ClockInv'
    <2>1. LaunchedOK'
        <3>1. ASSUME NEW x \in Starts, run[x].pc = "NONE"
              PROVE  (\A l \in Locks : file'[l].owner # x) /\ call'[p].read.owner # x /\ call'[q].read.owner # x
                     /\ \A y \in Starts, d \in Runs : run[y].seen[d].owner # x
            BY <1>3, <1>8, <1>10, <1>11, <3>1 DEF LaunchedOK
        <3> QED BY <1>2, <3>1 DEF LaunchedOK
    <2>2. WaitsOK'
        <3>1. ASSUME call'[p].pc = "GRACE" PROVE run[q].pc # "NONE"
            <4>1. Judges(p) /\ NeedsGrace(p, file[Lock(p)])
                BY <1>3, <3>1 DEF CallShape, Approaches, Creates, GivesUp, Judges, Waited, GetsToken, MovesNone, Moves, PutsBack,
                    FindsTaken, Recreates, EndsTakeover, BeginsAnew, TokenSteps, Onward, Ends, Drops
            <4>2. file[Lock(p)].owner \in Starts /\ file[Lock(p)].owner # p
                BY <1>3, <4>1 DEF NeedsGrace, IsRunning, LooksStale, OtherClock
            <4> QED BY <1>6, <1>8, <4>2 DEF LaunchedOK
        <3>2. run'[p].pc = "FIND_GRACE" => run[q].pc # "NONE"
            BY <1>2, <1>8 DEF WaitsOK, Waits
        <3>3. Waits(q)' => Waits(q)
            BY <1>2, <1>3 DEF Waits
        <3> QED BY <1>2, <1>8, <3>1, <3>2, <3>3 DEF WaitsOK, Waits
    <2>3. ClockOK'
        BY <1>2, <1>3, <1>8 DEF ClockOK
    <2> QED BY <2>1, <2>2, <2>3 DEF ClockInv
<1>13. SavedOK' /\ FindInv' /\ ResumesWhatWasSaved'
    BY <1>2, <1>3 DEF RunInv, SavedOK, Unsaved, dir, FindInv, NoOtherRun, FindsOther, OneRunPerOutputDirectory, Foremost, Running,
           ResumesWhatWasSaved
<1> QED BY <1>4, <1>5, <1>9, <1>12, <1>13 DEF RunInv

-----------------------------------------------------------------------------
(* What the steps of a start and of a session leave as it is                *)

KeepsChoice(p) == run'[p].dir = run[p].dir /\ run'[p].expected = run[p].expected
KeepsFinds(p) == run'[p].seen = run[p].seen /\ run'[p].unread = run[p].unread
KeepsSession(p) ==
    /\ run'[p].session = run[p].session /\ run'[p].beat = run[p].beat /\ run'[p].save = run[p].save
    /\ run'[p].saves = run[p].saves /\ run'[p].slept = run[p].slept
KeepsOthers(p) == \A x \in Starts \ {p} : run'[x] = run[x]

(* A start that goes on to a step alone                                     *)
LEMMA ToFields ==
    ASSUME run \in [Starts -> RunRecords], NEW p \in Starts, NEW step, To(p, step)
    PROVE  run'[p].pc = step /\ KeepsChoice(p) /\ KeepsFinds(p) /\ KeepsSession(p) /\ KeepsOthers(p)
BY DEF To, RunRecords, KeepsChoice, KeepsFinds, KeepsSession, KeepsOthers

(* No lock comes to name a start not launched, and nobody comes to wait.    *)
LEMMA ClockFrame ==
    ASSUME ClockInv, reset' = reset,
           \A x \in Starts :
              /\ run'[x].pc = "NONE" <=> run[x].pc = "NONE"
              /\ Waits(x)' => Waits(x)
              /\ run[x].pc \in PastSteps => run'[x].pc \in PastSteps,
           \A x \in Starts : run[x].pc = "NONE" =>
              /\ \A l \in Locks : file'[l].owner # x
              /\ \A y \in Starts : call'[y].read.owner # x
              /\ \A y \in Starts, d \in Runs : run'[y].seen[d].owner # x
    PROVE  ClockInv'
<1>1. LaunchedOK'
    BY DEF LaunchedOK
<1>2. WaitsOK'
    BY DEF ClockInv, WaitsOK
<1>3. ClockOK'
    BY DEF ClockInv, ClockOK
<1> QED BY <1>1, <1>2, <1>3 DEF ClockInv

(* Nothing is saved, and no session that has saved goes back.               *)
LEMMA SavedFrame ==
    ASSUME SavedOK, saved' = saved, dead \subseteq dead',
           \A x \in Starts :
              /\ dir(x)' = dir(x)
              /\ x \notin dead' /\ run'[x].saves = 0 /\ run'[x].session \in {"NONE", "ACTIVE"}
                    => run[x].saves = 0 /\ run[x].session \in {"NONE", "ACTIVE"}
              /\ run'[x].pc = "LOCK_NEW" \/ run'[x].session # "NONE"
                    => run[x].pc = "LOCK_NEW" \/ run[x].session # "NONE" \/ dir(x) # x
    PROVE  SavedOK'
<1>1. \A d : Unsaved(d)' <=> Unsaved(d)
    BY DEF Unsaved
<1> QED BY <1>1 DEF SavedOK

(* No session begins, and no start comes nearer to one.                     *)
LEMMA FindFrame ==
    ASSUME FindInv, dead \subseteq dead',
           \A x \in Starts :
              /\ Foremost(x)' => Foremost(x) /\ dir(x)' = dir(x)
              /\ run'[x].pc \in ChosenSteps => run[x].pc \in ChosenSteps
              /\ run'[x].pc \in {"FIND", "FIND_GRACE"} => run'[x].pc = run[x].pc /\ KeepsFinds(x)
    PROVE  FindInv'
<1>1. NoOtherRun'
    BY DEF FindInv, NoOtherRun
<1>2. FindsOther'
    <2>1. ASSUME NEW x \in Starts, NEW y \in Starts, x # y, Foremost(y)', run'[x].pc \in {"FIND", "FIND_GRACE"}
          PROVE  /\ run'[x].pc = "FIND" => dir(y)' \in run'[x].unread \/ run'[x].seen[dir(y)'].owner = y
                 /\ run'[x].pc = "FIND_GRACE" => dir(y)' \in run'[x].unread /\ run'[x].seen[dir(y)'].owner = y
        <3>1. Foremost(y) /\ dir(y)' = dir(y) /\ run'[x].pc = run[x].pc /\ KeepsFinds(x)
            BY <2>1
        <3> QED BY <2>1, <3>1 DEF FindInv, FindsOther, KeepsFinds
    <2> QED BY <2>1 DEF FindsOther
<1>3. OneRunPerOutputDirectory'
    BY DEF FindInv, OneRunPerOutputDirectory, Foremost
<1> QED BY <1>1, <1>2, <1>3 DEF FindInv

(* Who goes on from a saved state that nothing may have replaced            *)
Relies(p) ==
    /\ p \notin dead /\ dir(p) # p
    /\ run[p].pc \in {"CLEANUP", "CLEANUP_REMOVE", "CONFIRM_RUN"} \/ (Foremost(p) /\ run[p].saves = 0)

(* Nothing is saved, and nobody comes to rely on what was.                  *)
LEMMA ResumesFrame ==
    ASSUME ResumesWhatWasSaved,
           \A x \in Starts : Relies(x)' => Relies(x) /\ KeepsChoice(x) /\ saved'[dir(x)] = saved[dir(x)]
    PROVE  ResumesWhatWasSaved'
<1>1. ASSUME NEW x \in Starts, Relies(x)' PROVE saved'[dir(x)'] = run'[x].expected
    <2>1. Relies(x) /\ KeepsChoice(x) /\ saved'[dir(x)] = saved[dir(x)]
        BY <1>1
    <2>2. saved[dir(x)] = run[x].expected
        BY <2>1 DEF ResumesWhatWasSaved, Relies, Foremost
    <2> QED BY <2>1, <2>2 DEF KeepsChoice, dir
<1> QED BY <1>1 DEF ResumesWhatWasSaved, Relies, Foremost

-----------------------------------------------------------------------------
(* The steps of a start                                                     *)

(* Where the actor is, and what its start may not do twice                  *)
LEMMA Actors ==
    ASSUME RunInv, NEW p \in Starts
    PROVE  /\ run \in [Starts -> RunRecords] /\ run[p] \in RunRecords /\ run[p].dir \in Runs /\ dir(p) = run[p].dir
           /\ dir(p) \in Locks /\ dir(p) # StartLock /\ p \in Runs /\ p \in Locks /\ p # StartLock /\ p # Nobody
           /\ file \in [Locks -> Content] /\ saved \in [Runs -> States] /\ call \in [Starts -> Calls]
           /\ PlaceOK(p) /\ Own(p).owner = p /\ NoLock.owner = Nobody
BY EmptyKinds, LockAssumption DEF RunInv, StartInv, RunTypeOK, LockTypeOK, RunRecords, PlacesOK, Runs, Locks, dir, Own, NoLock

(* The state is checked, the Run cleaned up, the start lock read again.     *)
LEMMA ChecksKeep ==
    ASSUME RunInv, NEW p \in Starts, NEW q \in Starts, Starts = {p, q}, p # q,
           Check(p) \/ CleanUp(p) \/ CleanUpRemove(p) \/ Release(p)
    PROVE  RunInv'
<1>1. StartInv'
    BY StartStepKinds DEF RunInv, StartStep
<1>2. /\ UNCHANGED <<file, call, dead, reset, asleep, saved>> /\ p \notin dead \cup asleep
      /\ KeepsChoice(p) /\ KeepsFinds(p) /\ KeepsSession(p) /\ KeepsOthers(p)
      /\ \/ run[p].pc = "CHECK" /\ run'[p].pc = "CLEANUP" /\ saved[dir(p)] = run[p].expected
         \/ run[p].pc = "CHECK" /\ run'[p].pc = "UNLOCK_REFUSED"
         \/ run[p].pc \in {"CLEANUP", "CLEANUP_REMOVE"} /\ run'[p].pc \in {"CLEANUP_REMOVE", "CONFIRM_RUN"}
         \/ run[p].pc = "RELEASE" /\ run'[p].pc = "RELEASE_REMOVE"
         \/ run[p].pc = "RELEASE" /\ run'[p].pc = IF run[p].session = "NONE" THEN "REFUSED" ELSE "RUNNING"
    BY Actors, ToFields DEF Check, CleanUp, CleanUpRemove, Release, AfterRelease, In, Awake, lockVars
<1>3. run'[q] = run[q] /\ dir(p)' = dir(p) /\ dir(q)' = dir(q)
    BY <1>2 DEF KeepsOthers, KeepsChoice, dir
<1>4. PlacesOK'
    <2>1. PlaceOK(q)' /\ PlaceOK(p)'
        BY <1>2, <1>3, Actors DEF PlaceOK, KeepsSession, Lock, dir, ResumeSteps
    <2> QED BY <2>1 DEF PlacesOK
<1>5. ClockInv'
    BY <1>2, <1>3, ClockFrame DEF RunInv, ClockInv, LaunchedOK, Waits, PastSteps, KeepsFinds
<1>6. StartLockInv'
    BY <1>2, <1>3, StartLockFrame DEF RunInv, StartSteps, ChosenSteps, ResumeSteps, PastSteps
<1>7. SavedOK'
    BY <1>2, <1>3, SavedFrame DEF RunInv, KeepsSession
<1>8. RunLockInv'
    <2>1. (HoldsRun(p)' => HoldsRun(p)) /\ (PastLock(p) => PastLock(p)')
        BY <1>2 DEF HoldsRun, PastLock, ResumeSteps, PastSteps
    <2>2. (HoldsRun(q)' => HoldsRun(q)) /\ (PastLock(q) => PastLock(q)')
        BY <1>2, <1>3 DEF HoldsRun, PastLock, Acquired
    <2>3. \A x \in Starts : /\ (Threat(x)' => Threat(x)) /\ (Foremost(x)' => Foremost(x)) /\ (Open(x)' => Open(x))
                            /\ (IsOwn(x, dir(x)) => IsOwn(x, dir(x))')
        BY <1>2, <1>3 DEF Threat, Foremost, Running, Open, IsOwn, KeepsSession
    <2> QED BY <1>2, <1>3, <2>1, <2>2, <2>3, RunLockFrame DEF RunInv
<1>9. FindInv'
    BY <1>2, <1>3, FindFrame DEF RunInv, Foremost, Running, KeepsSession, KeepsFinds, ChosenSteps, ResumeSteps
<1>10. ResumesWhatWasSaved'
    <2>1. CASE run[p].pc # "CHECK"
        <3>1. \A x \in Starts : Relies(x)' => Relies(x) /\ KeepsChoice(x)
            BY <1>2, <1>3, <2>1 DEF Relies, Foremost, Running, KeepsSession, KeepsChoice
        <3> QED BY <1>2, <3>1, ResumesFrame DEF RunInv
    <2>2. CASE run[p].pc = "CHECK"
        <3>1. Relies(q)' => Relies(q)
            BY <1>2, <1>3 DEF Relies, Foremost, Running
        <3>2. Relies(q) => saved[dir(q)] = run[q].expected
            BY DEF RunInv, ResumesWhatWasSaved, Relies, Foremost
        <3>3. Relies(p)' => saved[dir(p)] = run[p].expected
            BY <1>2, <1>3, <2>2, Actors DEF Relies, Foremost, Running, KeepsSession, PlaceOK
        <3>4. \A x \in Starts : Relies(x)' => saved'[dir(x)'] = run'[x].expected
            BY <1>2, <1>3, <3>1, <3>2, <3>3 DEF KeepsChoice
        <3> QED BY <3>4 DEF ResumesWhatWasSaved, Relies, Foremost
    <2> QED BY <2>1, <2>2
<1> QED BY <1>1, <1>4, <1>5, <1>6, <1>7, <1>8, <1>9, <1>10 DEF RunInv

(* A call that begins, and one that is forgotten                            *)
LEMMA BeginFields ==
    ASSUME call \in [Starts -> Calls], NEW p \in Starts
    PROVE  /\ \A l \in Locks : Begin(p, l) =>
                /\ call'[p].pc = FirstStep(l) /\ call'[p].lock = l /\ call'[p].read = NoLock
                /\ call'[p].attempt = 0 /\ call'[p].result = "NONE"
                /\ \A x \in Starts \ {p} : call'[x] = call[x]
           /\ Forget(p) =>
                /\ call'[p].pc = "NONE" /\ call'[p].read = NoLock
                /\ \A x \in Starts \ {p} : call'[x] = call[x]
<1>1. ASSUME NEW l \in Locks, Begin(p, l)
      PROVE  /\ call'[p].pc = FirstStep(l) /\ call'[p].lock = l /\ call'[p].read = NoLock
             /\ call'[p].attempt = 0 /\ call'[p].result = "NONE"
             /\ \A x \in Starts \ {p} : call'[x] = call[x]
    <2>1. PICK first : first = FirstStep(l)
        OBVIOUS
    <2>2. PICK c : c = [NoCall EXCEPT !.pc = first, !.lock = l]
        OBVIOUS
    <2>3. NoCall \in Calls /\ NoCall.read = NoLock /\ NoCall.attempt = 0 /\ NoCall.result = "NONE"
        BY EmptyKinds DEF NoCall
    <2>4. c.pc = first /\ c.lock = l /\ c.read = NoLock /\ c.attempt = 0 /\ c.result = "NONE"
        BY <2>2, <2>3 DEF Calls
    <2>5. call' = [call EXCEPT ![p] = c]
        BY <1>1, <2>1, <2>2 DEF Begin
    <2> QED BY <2>1, <2>4, <2>5
<1>2. Forget(p) => /\ call'[p].pc = "NONE" /\ call'[p].read = NoLock
                   /\ \A x \in Starts \ {p} : call'[x] = call[x]
    BY DEF Forget, NoCall
<1> QED BY <1>1, <1>2

(* A launch, and the end of the call for the start lock                     *)
LEMMA LaunchKeeps ==
    ASSUME RunInv, NEW p \in Starts, NEW q \in Starts, Starts = {p, q}, p # q, Launch(p) \/ Hold(p)
    PROVE  RunInv'
<1>1. StartInv'
    BY StartStepKinds DEF RunInv, StartStep
<1>2. /\ UNCHANGED <<file, dead, reset, asleep, saved>> /\ p \notin dead \cup asleep
      /\ KeepsChoice(p) /\ KeepsFinds(p) /\ KeepsSession(p) /\ KeepsOthers(p)
      /\ \/ /\ run[p].pc = "NONE" /\ run'[p].pc = "HOLD" /\ ClockAllows(p)
            /\ call'[p].pc = "SWEEP" /\ call'[p].lock = StartLock
         \/ run[p].pc = "HOLD" /\ call[p].pc = "RETURNED" /\ run'[p].pc = "LIST" /\ Acquired(p) /\ call'[p].pc = "NONE"
         \/ run[p].pc = "HOLD" /\ call[p].pc = "RETURNED" /\ run'[p].pc = "REFUSED" /\ call'[p].pc = "NONE"
      /\ call'[p].read = NoLock /\ call'[q] = call[q]
    <2>1. CASE Launch(p)
        BY <2>1, Actors, ToFields, BeginFields, EmptyKinds DEF Launch, In, Awake, FirstStep
    <2>2. CASE Hold(p)
        BY <2>2, Actors, ToFields, BeginFields DEF Hold, In, Awake, Returned, Acquired
    <2> QED BY <2>1, <2>2
<1>3. run'[q] = run[q] /\ dir(p)' = dir(p) /\ dir(q)' = dir(q) /\ PlaceOK(p) /\ PlaceOK(q)
    BY <1>2, Actors DEF KeepsOthers, KeepsChoice, dir
<1>4. PlacesOK'
    <2>1. PlaceOK(q)' /\ PlaceOK(p)'
        BY <1>2, <1>3 DEF PlaceOK, KeepsSession, Lock, dir, ResumeSteps
    <2> QED BY <2>1 DEF PlacesOK
<1>5. ClockInv'
    <2>1. LaunchedOK'
        <3>1. ASSUME NEW x \in Starts, run'[x].pc = "NONE"
              PROVE  /\ \A l \in Locks : file'[l].owner # x
                     /\ \A y \in Starts : call'[y].read.owner # x
                     /\ \A y \in Starts, d \in Runs : run'[y].seen[d].owner # x
            <4>1. run[x].pc = "NONE"
                BY <1>2, <1>3, <3>1
            <4> QED BY <1>2, <1>3, <4>1, Actors DEF RunInv, ClockInv, LaunchedOK, KeepsFinds
        <3> QED BY <3>1 DEF LaunchedOK
    <2>2. WaitsOK'
        BY <1>2, <1>3 DEF RunInv, ClockInv, WaitsOK, Waits
    <2>3. ClockOK'
        <3>1. CASE run[p].pc = "HOLD"
            BY <1>2, <1>3, <3>1 DEF RunInv, ClockInv, ClockOK, PastSteps
        <3>2. CASE run[p].pc = "NONE"
            <4>1. ~Waits(q)
                BY <3>2 DEF RunInv, ClockInv, WaitsOK
            <4>2. p \in reset /\ q \notin reset => run[q].pc \in {"NONE"} \cup PastSteps
                BY <1>2, <1>3, <3>2, <4>1 DEF ClockAllows, Settled, PlaceOK, PastSteps
            <4>3. p \notin reset /\ q \in reset => run[q].pc = "NONE"
                BY <1>2, <3>2 DEF ClockAllows
            <4> QED BY <1>2, <1>3, <4>2, <4>3 DEF ClockOK
        <3> QED BY <1>2, <3>1, <3>2
    <2> QED BY <2>1, <2>2, <2>3 DEF ClockInv
<1>6. StartLockInv'
    <2>1. p \notin dead /\ call[p].pc # "RESTORE"
        BY <1>2, <1>3 DEF PlaceOK
    <2>2. HoldsStart(q) => file[StartLock] = Own(q)
        BY <2>1 DEF RunInv, StartLockInv, StartHeld, Displaced
    <2>3. HoldsStart(q)' => HoldsStart(q)
        BY <1>2, <1>3 DEF HoldsStart, Acquired
    <2>4. HoldsStart(p)' => HoldsStart(p)
        BY <1>2 DEF HoldsStart, Acquired, StartSteps, ChosenSteps, ResumeSteps
    <2>5. Displaced(p) => Displaced(p)'
        BY <1>2, <1>3 DEF Displaced, Own
    <2>6. StartHeld'
        BY <1>2, <2>2, <2>3, <2>4, <2>5 DEF RunInv, StartLockInv, StartHeld, Own
    <2>7. run[q].pc = "HOLD" /\ call[q].pc \in JudgedSteps => call[q].read.owner # p
        BY <1>2 DEF RunInv, StartLockInv, StartJudged, ClockInv, LaunchedOK, PastSteps
    <2>8. call'[p].pc \notin JudgedSteps
        BY <1>2 DEF JudgedSteps, TokenSteps
    <2>9. StartJudged'
        BY <1>2, <1>3, <2>7, <2>8 DEF StartJudged
    <2> QED BY <2>6, <2>9 DEF StartLockInv
<1>7. SavedOK'
    BY <1>2, <1>3, SavedFrame DEF RunInv, KeepsSession
<1>8. RunLockInv'
    <2>1. (HoldsRun(p)' => HoldsRun(p)) /\ (PastLock(p) => PastLock(p)')
        BY <1>2 DEF HoldsRun, PastLock, ResumeSteps, PastSteps
    <2>2. (HoldsRun(q)' => HoldsRun(q)) /\ (PastLock(q) => PastLock(q)')
        BY <1>2, <1>3 DEF HoldsRun, PastLock, Acquired
    <2>3. \A x \in Starts : /\ (Threat(x)' => Threat(x)) /\ (Foremost(x)' => Foremost(x)) /\ (Open(x)' => Open(x))
                            /\ (IsOwn(x, dir(x)) => IsOwn(x, dir(x))')
        BY <1>2, <1>3 DEF Threat, Foremost, Running, Open, IsOwn, KeepsSession
    <2> QED BY <1>2, <1>3, <2>1, <2>2, <2>3, RunLockFrame DEF RunInv
<1>9. FindInv'
    BY <1>2, <1>3, FindFrame DEF RunInv, Foremost, Running, KeepsSession, KeepsFinds, ChosenSteps, ResumeSteps
<1>10. ResumesWhatWasSaved'
    <2>1. \A x \in Starts : Relies(x)' => Relies(x) /\ KeepsChoice(x)
        BY <1>2, <1>3 DEF Relies, Foremost, Running, KeepsSession, KeepsChoice
    <2> QED BY <1>2, <2>1, ResumesFrame DEF RunInv
<1> QED BY <1>1, <1>4, <1>5, <1>6, <1>7, <1>8, <1>9, <1>10 DEF RunInv

(* The search for an active Run, field by field                             *)
LEMMA FindFields ==
    ASSUME RunInv, NEW p \in Starts
    PROVE  /\ List(p) =>
                /\ run[p].pc = "LIST" /\ run'[p].pc = "FIND" /\ run'[p].seen = run[p].seen
                /\ run'[p].unread = {d \in Runs : saved[d] # NoDirectory}
           /\ \A d \in Runs : FindRead(p, d) =>
                /\ run[p].pc = "FIND" /\ run'[p].pc = "FIND" /\ run'[p].unread = run[p].unread \ {d}
                /\ run'[p].seen[d] = file[d] /\ \A e \in Runs \ {d} : run'[p].seen[e] = run[p].seen[e]
           /\ FindJudge(p) =>
                /\ run[p].pc = "FIND" /\ run[p].unread = {}
                /\ \/ run'[p].pc = "RELEASE" /\ run'[p].seen = Unseen
                   \/ /\ run'[p].pc = "CHOOSE" /\ run'[p].seen = Unseen
                      /\ \A d \in Runs : judgeRunLock(p, run[p].seen[d]) # "ACTIVE" /\ ~NeedsGrace(p, run[p].seen[d])
                   \/ /\ run'[p].pc = "FIND_GRACE" /\ run'[p].seen = run[p].seen
                      /\ run'[p].unread = {d \in Runs : NeedsGrace(p, run[p].seen[d])} /\ run'[p].unread # {}
                      /\ \A d \in Runs : judgeRunLock(p, run[p].seen[d]) # "ACTIVE"
           /\ \A d \in Runs : FindAgain(p, d) =>
                /\ run[p].pc = "FIND_GRACE" /\ d \in run[p].unread /\ GraceOver(d, run[p].seen[d])
                /\ \/ /\ file[d] \in {NoLock, run[p].seen[d]} /\ run[p].unread = {d}
                      /\ run'[p].pc = "CHOOSE" /\ run'[p].seen = Unseen
                   \/ /\ file[d] \in {NoLock, run[p].seen[d]} /\ run'[p].unread = run[p].unread \ {d}
                      /\ run'[p].pc = "FIND_GRACE" /\ run'[p].seen = run[p].seen
                   \/ /\ file[d] \notin {NoLock, run[p].seen[d]}
                      /\ run'[p].pc = "RELEASE" /\ run'[p].seen = Unseen
           /\ List(p) \/ FindJudge(p) \/ (\E d \in Runs : FindRead(p, d) \/ FindAgain(p, d)) =>
                /\ UNCHANGED <<file, call, dead, reset, asleep, saved>> /\ p \notin dead \cup asleep
                /\ KeepsChoice(p) /\ KeepsSession(p) /\ KeepsOthers(p)
<1>1. run \in [Starts -> RunRecords] /\ run[p] \in RunRecords /\ run[p].seen \in [Runs -> Content]
    BY Actors DEF RunRecords
<1>2. List(p) => /\ run[p].pc = "LIST" /\ run'[p].pc = "FIND" /\ run'[p].seen = run[p].seen
                 /\ run'[p].unread = {d \in Runs : saved[d] # NoDirectory}
                 /\ KeepsChoice(p) /\ KeepsSession(p) /\ KeepsOthers(p)
    BY <1>1 DEF List, In, RunRecords, KeepsChoice, KeepsSession, KeepsOthers
<1>3. ASSUME NEW d \in Runs, FindRead(p, d)
      PROVE  /\ run[p].pc = "FIND" /\ run'[p].pc = "FIND" /\ run'[p].unread = run[p].unread \ {d}
             /\ run'[p].seen[d] = file[d] /\ \A e \in Runs \ {d} : run'[p].seen[e] = run[p].seen[e]
             /\ KeepsChoice(p) /\ KeepsSession(p) /\ KeepsOthers(p)
    <2>1. PICK unread : unread = run[p].unread \ {d}
        OBVIOUS
    <2>2. PICK seen : seen = [run[p].seen EXCEPT ![d] = file[d]]
        OBVIOUS
    <2>3. run' = [run EXCEPT ![p].seen = seen, ![p].unread = unread]
        BY <1>1, <1>3, <2>1, <2>2 DEF FindRead
    <2>4. run'[p].pc = run[p].pc /\ run'[p].unread = unread /\ run'[p].seen = seen
          /\ KeepsChoice(p) /\ KeepsSession(p) /\ KeepsOthers(p)
        BY <1>1, <2>3 DEF RunRecords, KeepsChoice, KeepsSession, KeepsOthers
    <2> QED BY <1>1, <1>3, <2>1, <2>2, <2>4 DEF FindRead, In
<1>4. FindJudge(p) =>
          /\ run[p].pc = "FIND" /\ run[p].unread = {}
          /\ \/ run'[p].pc = "RELEASE" /\ run'[p].seen = Unseen
             \/ /\ run'[p].pc = "CHOOSE" /\ run'[p].seen = Unseen
                /\ \A d \in Runs : judgeRunLock(p, run[p].seen[d]) # "ACTIVE" /\ ~NeedsGrace(p, run[p].seen[d])
             \/ /\ run'[p].pc = "FIND_GRACE" /\ run'[p].seen = run[p].seen
                /\ run'[p].unread = {d \in Runs : NeedsGrace(p, run[p].seen[d])} /\ run'[p].unread # {}
                /\ \A d \in Runs : judgeRunLock(p, run[p].seen[d]) # "ACTIVE"
          /\ KeepsChoice(p) /\ KeepsSession(p) /\ KeepsOthers(p)
    <2>1. SUFFICES ASSUME FindJudge(p) PROVE
          /\ run[p].pc = "FIND" /\ run[p].unread = {}
          /\ \/ run'[p].pc = "RELEASE" /\ run'[p].seen = Unseen
             \/ /\ run'[p].pc = "CHOOSE" /\ run'[p].seen = Unseen
                /\ \A d \in Runs : judgeRunLock(p, run[p].seen[d]) # "ACTIVE" /\ ~NeedsGrace(p, run[p].seen[d])
             \/ /\ run'[p].pc = "FIND_GRACE" /\ run'[p].seen = run[p].seen
                /\ run'[p].unread = {d \in Runs : NeedsGrace(p, run[p].seen[d])} /\ run'[p].unread # {}
                /\ \A d \in Runs : judgeRunLock(p, run[p].seen[d]) # "ACTIVE"
          /\ KeepsChoice(p) /\ KeepsSession(p) /\ KeepsOthers(p)
        OBVIOUS
    <2>2. run[p].pc = "FIND" /\ run[p].unread = {}
        BY <2>1 DEF FindJudge, In
    <2>3. PICK graced : graced = {d \in Runs : NeedsGrace(p, run[p].seen[d])}
        OBVIOUS
    <2>4. CASE \E step \in {"RELEASE", "CHOOSE"} : run' = [run EXCEPT ![p].pc = step, ![p].seen = Unseen]
               /\ (step = "CHOOSE" => graced = {} /\ \A d \in Runs : judgeRunLock(p, run[p].seen[d]) # "ACTIVE")
        <3>1. PICK step \in {"RELEASE", "CHOOSE"} : run' = [run EXCEPT ![p].pc = step, ![p].seen = Unseen]
               /\ (step = "CHOOSE" => graced = {} /\ \A d \in Runs : judgeRunLock(p, run[p].seen[d]) # "ACTIVE")
            BY <2>4
        <3>2. run'[p].pc = step /\ run'[p].seen = Unseen /\ KeepsChoice(p) /\ KeepsSession(p) /\ KeepsOthers(p)
            BY <1>1, <3>1 DEF RunRecords, KeepsChoice, KeepsSession, KeepsOthers
        <3> QED BY <2>2, <2>3, <3>1, <3>2
    <2>5. CASE run' = [run EXCEPT ![p].pc = "FIND_GRACE", ![p].unread = graced] /\ graced # {}
               /\ \A d \in Runs : judgeRunLock(p, run[p].seen[d]) # "ACTIVE"
        <3>1. run'[p].pc = "FIND_GRACE" /\ run'[p].unread = graced /\ run'[p].seen = run[p].seen
              /\ KeepsChoice(p) /\ KeepsSession(p) /\ KeepsOthers(p)
            BY <1>1, <2>5 DEF RunRecords, KeepsChoice, KeepsSession, KeepsOthers
        <3> QED BY <2>2, <2>3, <2>5, <3>1
    <2> QED BY <2>1, <2>3, <2>4, <2>5 DEF FindJudge
<1>5. ASSUME NEW d \in Runs, FindAgain(p, d)
      PROVE  /\ run[p].pc = "FIND_GRACE" /\ d \in run[p].unread /\ GraceOver(d, run[p].seen[d])
             /\ \/ /\ file[d] \in {NoLock, run[p].seen[d]} /\ run[p].unread = {d}
                   /\ run'[p].pc = "CHOOSE" /\ run'[p].seen = Unseen
                \/ /\ file[d] \in {NoLock, run[p].seen[d]} /\ run'[p].unread = run[p].unread \ {d}
                   /\ run'[p].pc = "FIND_GRACE" /\ run'[p].seen = run[p].seen
                \/ /\ file[d] \notin {NoLock, run[p].seen[d]}
                   /\ run'[p].pc = "RELEASE" /\ run'[p].seen = Unseen
             /\ KeepsChoice(p) /\ KeepsSession(p) /\ KeepsOthers(p)
    <2>1. run[p].pc = "FIND_GRACE" /\ d \in run[p].unread /\ GraceOver(d, run[p].seen[d])
        BY <1>5 DEF FindAgain, In
    <2>2. CASE \E step \in {"RELEASE", "CHOOSE"} :
                  /\ run' = [run EXCEPT ![p].pc = step, ![p].unread = {}, ![p].seen = Unseen]
                  /\ step = "CHOOSE" => file[d] \in {NoLock, run[p].seen[d]} /\ run[p].unread = {d}
                  /\ step = "RELEASE" => file[d] \notin {NoLock, run[p].seen[d]}
        <3>1. PICK step \in {"RELEASE", "CHOOSE"} :
                  /\ run' = [run EXCEPT ![p].pc = step, ![p].unread = {}, ![p].seen = Unseen]
                  /\ step = "CHOOSE" => file[d] \in {NoLock, run[p].seen[d]} /\ run[p].unread = {d}
                  /\ step = "RELEASE" => file[d] \notin {NoLock, run[p].seen[d]}
            BY <2>2
        <3>2. run'[p].pc = step /\ run'[p].seen = Unseen /\ KeepsChoice(p) /\ KeepsSession(p) /\ KeepsOthers(p)
            BY <1>1, <3>1 DEF RunRecords, KeepsChoice, KeepsSession, KeepsOthers
        <3> QED BY <2>1, <3>1, <3>2
    <2>3. CASE run' = [run EXCEPT ![p].unread = @ \ {d}] /\ file[d] \in {NoLock, run[p].seen[d]}
        <3>1. PICK unread : unread = run[p].unread \ {d}
            OBVIOUS
        <3>2. run' = [run EXCEPT ![p].unread = unread]
            BY <1>1, <2>3, <3>1
        <3>3. run'[p].pc = run[p].pc /\ run'[p].unread = unread /\ run'[p].seen = run[p].seen
              /\ KeepsChoice(p) /\ KeepsSession(p) /\ KeepsOthers(p)
            BY <1>1, <3>2 DEF RunRecords, KeepsChoice, KeepsSession, KeepsOthers
        <3> QED BY <2>1, <2>3, <3>1, <3>3
    <2> QED BY <1>5, <2>2, <2>3 DEF FindAgain
<1>6. List(p) \/ FindJudge(p) \/ (\E d \in Runs : FindRead(p, d) \/ FindAgain(p, d)) =>
          UNCHANGED <<file, call, dead, reset, asleep, saved>> /\ p \notin dead \cup asleep
    BY DEF List, FindJudge, FindRead, FindAgain, In, Awake, lockVars
<1> QED BY <1>2, <1>3, <1>4, <1>5, <1>6

(* The search for an active Run keeps the whole invariant: it ends with a   *)
(* choice only when no session beside it can go on unnoticed.               *)
LEMMA FindKeeps ==
    ASSUME RunInv, NEW p \in Starts, NEW q \in Starts, Starts = {p, q}, p # q,
           List(p) \/ FindJudge(p) \/ \E d \in Runs : FindRead(p, d) \/ FindAgain(p, d)
    PROVE  RunInv'
<1>1. StartInv'
    BY StartStepKinds DEF RunInv, StartStep
<1>2. /\ UNCHANGED <<file, call, dead, reset, asleep, saved>> /\ p \notin dead \cup asleep
      /\ KeepsChoice(p) /\ KeepsSession(p) /\ KeepsOthers(p)
    BY FindFields
<1>3. /\ run[p].pc \in {"LIST", "FIND", "FIND_GRACE"}
      /\ run'[p].pc \in {"FIND", "FIND_GRACE", "CHOOSE", "RELEASE"}
      /\ run'[q] = run[q] /\ dir(p)' = dir(p) /\ dir(q)' = dir(q) /\ PlaceOK(p) /\ PlaceOK(q)
    BY <1>2, FindFields, Actors DEF KeepsOthers, KeepsChoice, dir
<1>4. PlacesOK'
    <2>1. PlaceOK(q)' /\ PlaceOK(p)'
        BY <1>2, <1>3 DEF PlaceOK, KeepsSession, Lock, dir, ResumeSteps
    <2> QED BY <2>1 DEF PlacesOK
<1>5. ClockInv'
    <2>1. \A d \in Runs : run'[p].seen[d].owner \in {Nobody, run[p].seen[d].owner, file[d].owner}
        <3>1. \A d \in Runs : Unseen[d].owner = Nobody
            BY DEF Unseen, NoLock
        <3>2. CASE List(p) \/ FindJudge(p) \/ \E d \in Runs : FindAgain(p, d)
            BY <3>1, <3>2, FindFields
        <3>3. CASE \E d \in Runs : FindRead(p, d)
            BY <3>3, FindFields
        <3> QED BY <3>2, <3>3
    <2>2. LaunchedOK'
        <3>1. ASSUME NEW x \in Starts, run'[x].pc = "NONE"
              PROVE  /\ \A l \in Locks : file'[l].owner # x
                     /\ \A y \in Starts : call'[y].read.owner # x
                     /\ \A y \in Starts : \A d \in Runs : run'[y].seen[d].owner # x
            <4>1. run[x].pc = "NONE" /\ x # Nobody
                BY <1>3, <3>1, Actors
            <4> QED BY <1>2, <1>3, <2>1, <4>1, EmptyKinds DEF RunInv, ClockInv, LaunchedOK
        <3> QED BY <3>1 DEF LaunchedOK
    <2>3. ASSUME run'[p].pc = "FIND_GRACE" PROVE run[q].pc # "NONE"
        <3>1. CASE run[p].pc = "FIND_GRACE"
            BY <3>1 DEF RunInv, ClockInv, WaitsOK, Waits
        <3>2. CASE run[p].pc # "FIND_GRACE"
            <4>1. PICK d \in Runs : NeedsGrace(p, run[p].seen[d])
                BY <2>3, <3>2, FindFields
            <4>2. run[p].seen[d].owner \in Starts /\ run[p].seen[d].owner # p
                BY <1>2, <4>1 DEF NeedsGrace, IsRunning, LooksStale, OtherClock
            <4> QED BY <4>2 DEF RunInv, ClockInv, LaunchedOK
        <3> QED BY <3>1, <3>2
    <2>4. WaitsOK'
        BY <1>2, <1>3, <2>3 DEF RunInv, ClockInv, WaitsOK, Waits
    <2>5. ClockOK'
        BY <1>2, <1>3 DEF RunInv, ClockInv, ClockOK, PastSteps
    <2> QED BY <2>2, <2>4, <2>5 DEF ClockInv
<1>6. StartLockInv'
    BY <1>2, <1>3, StartLockFrame DEF RunInv, StartSteps, ChosenSteps, PastSteps
<1>7. SavedOK'
    BY <1>2, <1>3, SavedFrame DEF RunInv, KeepsSession
<1>8. \A x \in Starts : (Threat(x)' => Threat(x)) /\ (Foremost(x)' <=> Foremost(x)) /\ (Open(x)' => Open(x))
    BY <1>2, <1>3 DEF Threat, Foremost, Running, Open, KeepsSession
<1>9. RunLockInv'
    <2>1. (HoldsRun(p)' => HoldsRun(p)) /\ (PastLock(p) => PastLock(p)')
        BY <1>3 DEF HoldsRun, PastLock, ResumeSteps, PastSteps
    <2>2. (HoldsRun(q)' => HoldsRun(q)) /\ (PastLock(q) => PastLock(q)')
        BY <1>2, <1>3 DEF HoldsRun, PastLock, Acquired
    <2>3. \A x \in Starts : IsOwn(x, dir(x)) => IsOwn(x, dir(x))'
        BY <1>2, <1>3 DEF IsOwn
    <2> QED BY <1>2, <1>3, <1>8, <2>1, <2>2, <2>3, RunLockFrame DEF RunInv
<1>10. FindInv'
    <2>1. Foremost(q) => dir(q) \in Runs /\ q \notin dead \cup asleep /\ file[dir(q)].owner = q /\ q # Nobody
          /\ saved[dir(q)] # NoDirectory /\ ~Waits(q) /\ ~Stands(q, dir(q))
        BY <1>3, Actors DEF RunInv, RunLockInv, RunHeld, IsOwn, SavedOK, Foremost, Running, PlaceOK, Waits, Stands
    <2>2. Foremost(q) =>
            /\ run[p].pc = "FIND" => dir(q) \in run[p].unread \/ run[p].seen[dir(q)].owner = q
            /\ run[p].pc = "FIND_GRACE" => dir(q) \in run[p].unread /\ run[p].seen[dir(q)].owner = q
        BY DEF RunInv, FindInv, FindsOther
    <2>3. Foremost(q) =>
            /\ run'[p].pc = "FIND" => dir(q) \in run'[p].unread \/ run'[p].seen[dir(q)].owner = q
            /\ run'[p].pc = "FIND_GRACE" => dir(q) \in run'[p].unread /\ run'[p].seen[dir(q)].owner = q
            /\ run'[p].pc # "CHOOSE"
        <3>1. SUFFICES ASSUME Foremost(q)
              PROVE  /\ run'[p].pc = "FIND" => dir(q) \in run'[p].unread \/ run'[p].seen[dir(q)].owner = q
                     /\ run'[p].pc = "FIND_GRACE" => dir(q) \in run'[p].unread /\ run'[p].seen[dir(q)].owner = q
                     /\ run'[p].pc # "CHOOSE"
            OBVIOUS
        <3>2. CASE List(p)
            BY <2>1, <3>1, <3>2, FindFields
        <3>3. ASSUME NEW d \in Runs, FindRead(p, d)
              PROVE  /\ run'[p].pc = "FIND"
                     /\ dir(q) \in run'[p].unread \/ run'[p].seen[dir(q)].owner = q
            <4>1. CASE d = dir(q)
                BY <2>1, <3>1, <3>3, <4>1, FindFields
            <4>2. CASE d # dir(q)
                BY <2>1, <2>2, <3>1, <3>3, <4>2, FindFields
            <4> QED BY <4>1, <4>2
        <3>4. CASE FindJudge(p)
            <4>1. run[p].pc = "FIND" /\ run[p].seen[dir(q)].owner = q
                BY <2>2, <3>1, <3>4, FindFields
            <4>2. judgeRunLock(p, run[p].seen[dir(q)]) # "ACTIVE" => NeedsGrace(p, run[p].seen[dir(q)])
                BY <2>1, <3>1, <4>1 DEF judgeRunLock, NeedsGrace, IsRunning
            <4> QED BY <2>1, <3>1, <3>4, <4>1, <4>2, FindFields
        <3>5. ASSUME NEW d \in Runs, FindAgain(p, d)
              PROVE  /\ run'[p].pc \in {"RELEASE", "FIND_GRACE"}
                     /\ run'[p].pc = "FIND_GRACE" => dir(q) \in run'[p].unread /\ run'[p].seen[dir(q)].owner = q
            <4>1. run[p].pc = "FIND_GRACE" /\ d \in run[p].unread /\ GraceOver(d, run[p].seen[d])
                BY <3>5, FindFields
            <4>2. dir(q) \in run[p].unread /\ run[p].seen[dir(q)].owner = q
                BY <2>2, <3>1, <4>1
            <4>3. d = dir(q) => file[d] \notin {NoLock, run[p].seen[d]}
                BY <2>1, <3>1, <4>1, <4>2, Actors DEF GraceOver, IsRunning
            <4> QED BY <3>5, <4>2, <4>3, FindFields
        <3> QED BY <3>2, <3>3, <3>4, <3>5
    <2>4. NoOtherRun'
        BY <1>2, <1>3, <1>8, <2>3 DEF RunInv, FindInv, NoOtherRun, ChosenSteps, ResumeSteps
    <2>5. FindsOther'
        <3>1. ASSUME Foremost(p)
              PROVE  /\ run[q].pc = "FIND" => dir(p) \in run[q].unread \/ run[q].seen[dir(p)].owner = p
                     /\ run[q].pc = "FIND_GRACE" => dir(p) \in run[q].unread /\ run[q].seen[dir(p)].owner = p
            BY <3>1 DEF RunInv, FindInv, FindsOther
        <3> QED BY <1>3, <1>8, <2>3, <3>1 DEF FindsOther
    <2>6. OneRunPerOutputDirectory'
        BY <1>8 DEF RunInv, FindInv, OneRunPerOutputDirectory, Foremost
    <2> QED BY <2>4, <2>5, <2>6 DEF FindInv
<1>11. ResumesWhatWasSaved'
    <2>1. \A x \in Starts : Relies(x)' => Relies(x) /\ KeepsChoice(x)
        BY <1>2, <1>3, <1>8 DEF Relies, Foremost, KeepsSession, KeepsChoice
    <2> QED BY <1>2, <2>1, ResumesFrame DEF RunInv
<1> QED BY <1>1, <1>4, <1>5, <1>6, <1>7, <1>9, <1>10, <1>11 DEF RunInv

(* A start that chooses a Run, or begins the call for its run.lock, has no  *)
(* session and takes no lock yet.                                           *)
LEMMA ChoosingFrame ==
    ASSUME RunLockInv, NEW p \in Starts, NEW q \in Starts, Starts = {p, q}, p # q,
           UNCHANGED <<file, dead, asleep>>, run'[q] = run[q], call'[q] = call[q], ~PastLock(p),
           ~Threat(p)' /\ ~Open(p)' /\ ~Foremost(p)' /\ ~HoldsRun(p)',
           run'[p].pc = "LOCK" => call'[p].pc = "CREATE" /\ call'[p].attempt = 0
    PROVE  RunLockInv'
<1>1. /\ dir(q)' = dir(q) /\ (Threat(q)' <=> Threat(q)) /\ (Open(q)' <=> Open(q)) /\ (Foremost(q)' <=> Foremost(q))
      /\ (HoldsRun(q)' <=> HoldsRun(q)) /\ (IsOwn(q, dir(q))' <=> IsOwn(q, dir(q)))
    BY DEF dir, Threat, Open, Foremost, Running, HoldsRun, Acquired, IsOwn
<1>2. RunHeld'
    BY <1>1 DEF RunLockInv, RunHeld
<1>3. OpenHeld'
    BY <1>1 DEF RunLockInv, OpenHeld
<1>4. ChangedAlone'
    BY <1>1 DEF ChangedAlone
<1>5. TakesFromSleeper'
    BY <1>1 DEF TakesFromSleeper, TokenSteps
<1> QED BY <1>2, <1>3, <1>4, <1>5 DEF RunLockInv

(* The choice of a Run, and the confirmation of the start lock              *)
LEMMA ChooseKeeps ==
    ASSUME RunInv, NEW p \in Starts, NEW q \in Starts, Starts = {p, q}, p # q, Choose(p) \/ ConfirmStart(p)
    PROVE  RunInv'
<1>1. StartInv'
    BY StartStepKinds DEF RunInv, StartStep
<1>2. ASSUME Choose(p)
      PROVE  /\ run[p].pc = "CHOOSE" /\ run'[p].pc = "CONFIRM_START"
             /\ run'[p].dir = p \/ IsResumable(saved[run'[p].dir])
             /\ KeepsFinds(p) /\ KeepsSession(p) /\ KeepsOthers(p) /\ call' = call
    <2>1. CASE run' = [run EXCEPT ![p].pc = "CONFIRM_START", ![p].dir = p]
        BY <1>2, <2>1, Actors DEF Choose, In, lockVars, RunRecords, KeepsFinds, KeepsSession, KeepsOthers
    <2>2. ASSUME NEW d \in Runs, IsResumable(saved[d]),
                 run' = [run EXCEPT ![p].pc = "CONFIRM_START", ![p].dir = d, ![p].expected = saved[d]]
          PROVE  /\ run'[p].pc = "CONFIRM_START" /\ run'[p].dir = d
                 /\ KeepsFinds(p) /\ KeepsSession(p) /\ KeepsOthers(p)
        <3>1. PICK expected : expected = saved[d]
            OBVIOUS
        <3>2. run' = [run EXCEPT ![p].pc = "CONFIRM_START", ![p].dir = d, ![p].expected = expected]
            BY <2>2, <3>1
        <3> QED BY <3>2, Actors DEF RunRecords, KeepsFinds, KeepsSession, KeepsOthers
    <2>3. run[p].pc = "CHOOSE" /\ call' = call
        BY <1>2, Zenon DEF Choose, In, lockVars
    <2>4. CASE \E d \in Runs :
                /\ IsResumable(saved[d])
                /\ run' = [run EXCEPT ![p].pc = "CONFIRM_START", ![p].dir = d, ![p].expected = saved[d]]
        <3>1. PICK d \in Runs :
                /\ IsResumable(saved[d])
                /\ run' = [run EXCEPT ![p].pc = "CONFIRM_START", ![p].dir = d, ![p].expected = saved[d]]
            BY <2>4, Zenon
        <3>2. /\ run'[p].pc = "CONFIRM_START" /\ run'[p].dir = d
              /\ KeepsFinds(p) /\ KeepsSession(p) /\ KeepsOthers(p)
            BY <2>2, <3>1, Zenon
        <3> QED BY <2>3, <3>1, <3>2, Zenon
    <2> QED BY <1>2, <2>1, <2>3, <2>4, Zenon DEF Choose
<1>3. ASSUME ConfirmStart(p)
      PROVE  /\ run[p].pc = "CONFIRM_START" /\ run'[p].dir = run[p].dir
             /\ \/ run'[p].pc = "RELEASE" /\ call' = call
                \/ run'[p].pc = "MAKE" /\ dir(p) = p /\ call' = call
                \/ /\ run'[p].pc = "LOCK" /\ dir(p) # p
                   /\ call'[p].pc = "CREATE" /\ call'[p].attempt = 0 /\ call'[p].lock = dir(p)
             /\ call'[p].read \in {NoLock, call[p].read} /\ call'[q] = call[q]
             /\ KeepsFinds(p) /\ KeepsSession(p) /\ KeepsOthers(p)
    <2>1. run[p].pc = "CONFIRM_START" /\ \A step : To(p, step) => /\ run'[p].pc = step /\ run'[p].dir = run[p].dir
             /\ KeepsFinds(p) /\ KeepsSession(p) /\ KeepsOthers(p)
        BY <1>3, Actors, ToFields DEF ConfirmStart, In, KeepsChoice
    <2>2. Begin(p, dir(p)) => /\ call'[p].pc = "CREATE" /\ call'[p].attempt = 0 /\ call'[p].lock = dir(p)
                              /\ call'[p].read = NoLock /\ call'[q] = call[q]
        BY BeginFields, Actors DEF FirstStep
    <2> QED BY <1>3, <2>1, <2>2 DEF ConfirmStart
<1>4. UNCHANGED <<file, dead, reset, asleep, saved>> /\ p \notin dead \cup asleep
    BY Zenon DEF Choose, ConfirmStart, In, Awake, lockVars
<1>5. /\ run[p].pc \in {"CHOOSE", "CONFIRM_START"} /\ run'[p].pc \in {"CONFIRM_START", "RELEASE", "MAKE", "LOCK"}
      /\ KeepsFinds(p) /\ KeepsSession(p) /\ run'[q] = run[q] /\ dir(q)' = dir(q)
      /\ call'[p].read \in {NoLock, call[p].read} /\ call'[q] = call[q]
    BY <1>2, <1>3 DEF KeepsOthers, dir
<1>6. run'[p].dir = run[p].dir \/ run'[p].dir = p \/ IsResumable(saved[run'[p].dir])
    BY <1>2, <1>3
<1>7. PlaceOK(p) /\ PlaceOK(q) /\ run[p].session = "NONE" /\ run'[p].session = "NONE" /\ run[p].beat = "IDLE" /\ run[p].save = "IDLE"
    BY <1>5, Actors DEF PlaceOK, KeepsSession
<1>8. PlacesOK'
    <2>1. call[p].pc = "NONE"
        BY <1>5, <1>7 DEF PlaceOK
    <2>2. PlaceOK(p)'
        <3>1. CASE Choose(p)
            BY <1>2, <1>4, <1>7, <2>1, <3>1 DEF PlaceOK, KeepsSession, ResumeSteps
        <3>2. CASE ConfirmStart(p)
            BY <1>3, <1>4, <1>7, <2>1, <3>2 DEF PlaceOK, KeepsSession, Lock, dir, ResumeSteps
        <3> QED BY <3>1, <3>2
    <2>3. PlaceOK(q)'
        BY <1>4, <1>5, <1>7 DEF PlaceOK, Lock, dir
    <2> QED BY <2>2, <2>3 DEF PlacesOK
<1>9. ClockInv'
    <2>1. Waits(p)' => Waits(p)
        BY <1>2, <1>3, <1>5, <1>7 DEF Waits, PlaceOK
    <2>2. \A x \in Starts : run[x].pc = "NONE" =>
              /\ \A l \in Locks : file'[l].owner # x
              /\ \A y \in Starts : call'[y].read.owner # x
              /\ \A y \in Starts, d \in Runs : run'[y].seen[d].owner # x
        BY <1>4, <1>5, Actors DEF RunInv, ClockInv, LaunchedOK, KeepsFinds
    <2> QED BY <1>4, <1>5, <2>1, <2>2, ClockFrame DEF RunInv, Waits, PastSteps
<1>10. StartLockInv'
    BY <1>4, <1>5, StartLockFrame DEF RunInv, StartSteps, ChosenSteps, ResumeSteps, PastSteps
<1>11. SavedOK'
    <2>1. \A d : Unsaved(d)' <=> Unsaved(d)
        BY <1>4 DEF Unsaved
    <2>2. \A d : IsResumable(saved[d]) => ~Unsaved(d) /\ saved[d] # NoDirectory
        BY DEF IsResumable, Unsaved, NoDirectory, NoState
    <2>3. Unsaved(p)
        BY <1>4, <1>7, Actors DEF RunInv, SavedOK, PlaceOK
    <2>4. dir(p)' = dir(p) \/ dir(p)' = p \/ (~Unsaved(dir(p)') /\ saved[dir(p)'] # NoDirectory)
        BY <1>6, <2>2 DEF dir
    <2> QED BY <1>4, <1>5, <1>7, <2>1, <2>3, <2>4 DEF RunInv, SavedOK
<1>12. \A x \in Starts : Foremost(x)' => Foremost(x) /\ x = q
    BY <1>4, <1>5, <1>7 DEF Foremost, Running
<1>13. RunLockInv'
    <2>1. ~PastLock(p)
        BY <1>5 DEF PastLock, ResumeSteps, PastSteps
    <2>2. ~Threat(p)' /\ ~Open(p)' /\ ~HoldsRun(p)'
        BY <1>2, <1>3, <1>5, <1>7 DEF Threat, Open, HoldsRun, Acquired, KeepsSession, ResumeSteps
    <2>3. run'[p].pc = "LOCK" => call'[p].pc = "CREATE" /\ call'[p].attempt = 0
        BY <1>2, <1>3
    <2> QED BY <1>4, <1>5, <1>12, <2>1, <2>2, <2>3, ChoosingFrame DEF RunInv
<1>14. FindInv'
    <2>1. \A x \in Starts :
              /\ Foremost(x)' => Foremost(x) /\ dir(x)' = dir(x)
              /\ run'[x].pc \in ChosenSteps => run[x].pc \in ChosenSteps
              /\ run'[x].pc \in {"FIND", "FIND_GRACE"} => run'[x].pc = run[x].pc /\ KeepsFinds(x)
        BY <1>5, <1>12 DEF ChosenSteps, KeepsFinds
    <2> QED BY <1>4, <2>1, FindFrame DEF RunInv
<1>15. ResumesWhatWasSaved'
    <2>1. \A x \in Starts : Relies(x)' => Relies(x) /\ KeepsChoice(x)
        BY <1>4, <1>5, <1>12 DEF Relies, KeepsChoice
    <2> QED BY <1>4, <2>1, ResumesFrame DEF RunInv
<1> QED BY <1>1, <1>8, <1>9, <1>10, <1>11, <1>13, <1>14, <1>15 DEF RunInv

(* A start that makes a directory has it to itself: nobody can choose a Run *)
(* before its start has saved into it.                                      *)
LEMMA MakeKeeps ==
    ASSUME RunInv, NEW p \in Starts, NEW q \in Starts, Starts = {p, q}, p # q, Make(p)
    PROVE  RunInv'
<1>1. StartInv'
    BY StartStepKinds DEF RunInv, StartStep
<1>2. /\ UNCHANGED <<file, call, dead, reset, asleep>> /\ p \notin dead \cup asleep
      /\ KeepsChoice(p) /\ KeepsFinds(p) /\ KeepsSession(p) /\ KeepsOthers(p)
      /\ run[p].pc = "MAKE" /\ run'[p].pc = "LOCK_NEW"
      /\ saved'[p] = NoState /\ \A d \in Runs \ {p} : saved'[d] = saved[d]
    BY Actors, ToFields DEF Make, In, Awake, lockVars
<1>3. run'[q] = run[q] /\ dir(p)' = dir(p) /\ dir(q)' = dir(q) /\ PlaceOK(p) /\ PlaceOK(q) /\ dir(p) = p /\ dir(q) \in Runs
    BY <1>2, Actors DEF KeepsOthers, KeepsChoice, dir, PlaceOK
<1>4. PlacesOK'
    <2>1. PlaceOK(q)' /\ PlaceOK(p)'
        BY <1>2, <1>3 DEF PlaceOK, KeepsSession, Lock, dir, ResumeSteps
    <2> QED BY <2>1 DEF PlacesOK
<1>5. ClockInv'
    BY <1>2, <1>3, ClockFrame DEF RunInv, ClockInv, LaunchedOK, Waits, PastSteps, KeepsFinds
<1>6. StartLockInv'
    BY <1>2, <1>3, StartLockFrame DEF RunInv, StartSteps, ChosenSteps, ResumeSteps, PastSteps
<1>7. dir(q) # p
    BY <1>2, <1>3 DEF RunInv, SavedOK, PlaceOK
<1>8. SavedOK'
    <2>1. Unsaved(p)' /\ (Unsaved(q)' <=> Unsaved(q)) /\ NoState # NoDirectory
        BY <1>2, Actors DEF Unsaved, NoState, NoDirectory
    <2>2. dir(q) # p /\ saved'[dir(q)] = saved[dir(q)] /\ saved'[dir(p)] = NoState
        BY <1>2, <1>3, <1>7
    <2> QED BY <1>2, <1>3, <2>1, <2>2 DEF RunInv, SavedOK, KeepsSession
<1>9. RunLockInv'
    <2>1. (HoldsRun(p)' => HoldsRun(p)) /\ (PastLock(p) => PastLock(p)')
        BY <1>2 DEF HoldsRun, PastLock, ResumeSteps, PastSteps
    <2>2. (HoldsRun(q)' => HoldsRun(q)) /\ (PastLock(q) => PastLock(q)')
        BY <1>2, <1>3 DEF HoldsRun, PastLock, Acquired
    <2>3. \A x \in Starts : /\ (Threat(x)' => Threat(x)) /\ (Foremost(x)' => Foremost(x)) /\ (Open(x)' => Open(x))
                            /\ (IsOwn(x, dir(x)) => IsOwn(x, dir(x))')
        BY <1>2, <1>3 DEF Threat, Foremost, Running, Open, IsOwn, KeepsSession
    <2> QED BY <1>2, <1>3, <2>1, <2>2, <2>3, RunLockFrame DEF RunInv
<1>10. FindInv'
    BY <1>2, <1>3, FindFrame DEF RunInv, Foremost, Running, KeepsSession, KeepsFinds, ChosenSteps, ResumeSteps
<1>11. ResumesWhatWasSaved'
    <2>1. \A x \in Starts : Relies(x)' => Relies(x) /\ KeepsChoice(x) /\ saved'[dir(x)] = saved[dir(x)]
        BY <1>2, <1>3, <1>7 DEF Relies, Foremost, Running, KeepsSession, KeepsChoice
    <2> QED BY <2>1, ResumesFrame DEF RunInv
<1> QED BY <1>1, <1>4, <1>5, <1>6, <1>8, <1>9, <1>10, <1>11 DEF RunInv

(* The end of a call for a run.lock, and the removal of a run.lock when the *)
(* state is not the one the choice was made on                              *)
LEMMA LockedKeeps ==
    ASSUME RunInv, NEW p \in Starts, NEW q \in Starts, Starts = {p, q}, p # q, Locked(p) \/ UnlockRefused(p)
    PROVE  RunInv'
<1>1. StartInv'
    BY StartStepKinds DEF RunInv, StartStep
<1>2. /\ UNCHANGED <<dead, reset, asleep, saved>> /\ p \notin dead \cup asleep
      /\ KeepsChoice(p) /\ KeepsFinds(p) /\ KeepsSession(p) /\ KeepsOthers(p)
      /\ \/ /\ run[p].pc = "LOCK" /\ call[p].pc = "RETURNED" /\ file' = file
            /\ call'[p].pc = "NONE" /\ call'[p].read = NoLock /\ call'[q] = call[q]
            /\ (run'[p].pc = "CHECK" /\ Acquired(p)) \/ run'[p].pc = "RELEASE"
         \/ /\ run[p].pc = "UNLOCK_REFUSED" /\ run'[p].pc = "RELEASE" /\ call' = call
            /\ file'[dir(p)] = NoLock /\ \A l \in Locks \ {dir(p)} : file'[l] = file[l]
    <2>1. CASE Locked(p)
        BY <2>1, Actors, ToFields, BeginFields DEF Locked, In, Awake, Returned, Acquired
    <2>2. CASE UnlockRefused(p)
        BY <2>2, Actors, ToFields DEF UnlockRefused, In, Awake, SetFile
    <2> QED BY <2>1, <2>2
<1>3. run'[q] = run[q] /\ dir(p)' = dir(p) /\ dir(q)' = dir(q) /\ PlaceOK(p) /\ PlaceOK(q) /\ call'[q] = call[q]
    BY <1>2, Actors DEF KeepsOthers, KeepsChoice, dir
<1>4. PlacesOK'
    <2>1. PlaceOK(q)' /\ PlaceOK(p)'
        BY <1>2, <1>3 DEF PlaceOK, KeepsSession, Lock, dir, ResumeSteps
    <2> QED BY <2>1 DEF PlacesOK
<1>5. ClockInv'
    <2>1. \A x \in Starts : Waits(x)' => Waits(x)
        BY <1>2, <1>3 DEF Waits, PlaceOK
    <2>2. \A x \in Starts : run[x].pc = "NONE" =>
              /\ \A l \in Locks : file'[l].owner # x
              /\ \A y \in Starts : call'[y].read.owner # x
              /\ \A y \in Starts, d \in Runs : run'[y].seen[d].owner # x
        BY <1>2, <1>3, Actors DEF RunInv, ClockInv, LaunchedOK, KeepsFinds
    <2> QED BY <1>2, <1>3, <2>1, <2>2, ClockFrame DEF RunInv, PastSteps
<1>6. StartLockInv'
    <2>1. file'[StartLock] = file[StartLock]
        BY <1>2, Actors, EmptyKinds
    <2> QED BY <1>2, <1>3, <2>1, StartLockFrame DEF RunInv, StartSteps, ChosenSteps, ResumeSteps, PastSteps
<1>7. SavedOK'
    BY <1>2, <1>3, SavedFrame DEF RunInv, KeepsSession
<1>8. RunLockInv'
    <2>1. (HoldsRun(p)' => HoldsRun(p)) /\ (PastLock(p) => PastLock(p)')
        BY <1>2 DEF HoldsRun, PastLock, ResumeSteps, PastSteps
    <2>2. (HoldsRun(q)' => HoldsRun(q)) /\ (PastLock(q) => PastLock(q)')
        BY <1>2, <1>3 DEF HoldsRun, PastLock, Acquired
    <2>3. \A x \in Starts : (Threat(x)' => Threat(x)) /\ (Foremost(x)' => Foremost(x)) /\ (Open(x)' => Open(x))
        BY <1>2, <1>3 DEF Threat, Foremost, Running, Open, KeepsSession
    <2>4. run[p].pc = "UNLOCK_REFUSED" => /\ ~Threat(p)' /\ ~HoldsRun(p)' /\ ~Foremost(p)' /\ ~Open(p)'
                                          /\ IsOwn(p, dir(p))
        BY <1>2, <1>3 DEF PlaceOK, Threat, HoldsRun, Foremost, Running, Open, KeepsSession, ResumeSteps, RunInv, RunLockInv, RunHeld
    <2>5. \A x \in Starts : IsOwn(x, dir(x)) /\ (Threat(x)' \/ HoldsRun(x)' \/ Foremost(x)' \/ Open(x)') => IsOwn(x, dir(x))'
        BY <1>2, <1>3, <2>4, Actors DEF IsOwn
    <2>6. \A x \in Starts : /\ run'[x].pc = "LOCK" => run[x].pc = "LOCK" /\ call'[x] = call[x]
                            /\ x \in asleep /\ Open(x)' => x \in asleep'
        BY <1>2, <1>3
    <2> QED BY <1>3, <2>1, <2>2, <2>3, <2>5, <2>6, RunLockFrame DEF RunInv
<1>9. FindInv'
    BY <1>2, <1>3, FindFrame DEF RunInv, Foremost, Running, KeepsSession, KeepsFinds, ChosenSteps, ResumeSteps
<1>10. ResumesWhatWasSaved'
    <2>1. \A x \in Starts : Relies(x)' => Relies(x) /\ KeepsChoice(x)
        BY <1>2, <1>3 DEF Relies, Foremost, Running, KeepsSession, KeepsChoice
    <2> QED BY <1>2, <2>1, ResumesFrame DEF RunInv
<1> QED BY <1>1, <1>4, <1>5, <1>6, <1>7, <1>8, <1>9, <1>10 DEF RunInv

(* A session begins in a Run that no other start has, while no other start  *)
(* looks for an active Run.                                                 *)
LEMMA SessionBegins ==
    ASSUME RunInv, NEW p \in Starts, NEW q \in Starts, Starts = {p, q}, p # q, LockNew(p) \/ ConfirmRun(p)
    PROVE  RunInv'
<1>1. StartInv'
    BY StartStepKinds DEF RunInv, StartStep
<1>2. PlaceOK(p) /\ PlaceOK(q) /\ run[p].pc \in {"LOCK_NEW", "CONFIRM_RUN"} /\ p \notin dead \cup asleep
      /\ UNCHANGED <<call, dead, reset, asleep, saved>>
    BY Actors DEF LockNew, ConfirmRun, In, Awake, lockVars
<1>3. run[p].session = "NONE" /\ run[p].beat = "IDLE" /\ run[p].save = "IDLE" /\ run[p].saves = 0 /\ call[p].pc = "NONE"
    BY <1>2 DEF PlaceOK
<1>4. HoldsRun(p) \/ run[p].pc = "LOCK_NEW"
    BY <1>2 DEF HoldsRun, ResumeSteps
<1>5. /\ KeepsChoice(p) /\ KeepsFinds(p) /\ KeepsOthers(p)
      /\ run'[p].pc = "RELEASE" /\ run'[p].session = "ACTIVE" /\ run'[p].beat = run[p].beat /\ run'[p].save = run[p].save
      /\ run'[p].saves = run[p].saves /\ run'[p].slept = run[p].slept
      /\ file'[dir(p)].owner = p /\ \A l \in Locks \ {dir(p)} : file'[l] = file[l]
      /\ run[p].pc = "CONFIRM_RUN" => file' = file
    <2>1. CASE LockNew(p)
        <3>1. dir(p) = p /\ run[p].pc = "LOCK_NEW"
            BY <1>2, <2>1 DEF LockNew, In, PlaceOK
        <3> QED BY <2>1, <3>1, Actors DEF LockNew, SetFile, RunRecords, KeepsChoice, KeepsFinds, KeepsOthers
    <2>2. CASE ConfirmRun(p)
        <3>1. IsOwn(p, dir(p))
            BY <1>2, <2>2 DEF ConfirmRun, In, HoldsRun, ResumeSteps, RunInv, RunLockInv, RunHeld
        <3>2. PICK session : session = IF IsOwn(p, dir(p)) THEN "ACTIVE" ELSE run[p].session
            OBVIOUS
        <3>3. run' = [run EXCEPT ![p].pc = "RELEASE", ![p].session = session] /\ file' = file
            BY <2>2, <3>2, Actors DEF ConfirmRun, lockVars
        <3> QED BY <3>1, <3>2, <3>3, Actors DEF RunRecords, KeepsChoice, KeepsFinds, KeepsOthers, IsOwn
    <2> QED BY <2>1, <2>2
<1>6. run'[q] = run[q] /\ dir(p)' = dir(p) /\ dir(q)' = dir(q)
    BY <1>5 DEF KeepsOthers, KeepsChoice, dir
<1>7. run[p].pc = "LOCK_NEW" => dir(p) = p /\ dir(q) # p
    BY <1>2, <1>3 DEF PlaceOK, RunInv, SavedOK
<1>8. ~HoldsStart(q)
    <2>1. HoldsStart(p)
        BY <1>2 DEF HoldsStart, StartSteps, ChosenSteps, ResumeSteps
    <2> QED BY <2>1, OneHolder
<1>9. ~Foremost(q) /\ ~Foremost(q)'
    BY <1>2, <1>6 DEF RunInv, FindInv, NoOtherRun, ChosenSteps, ResumeSteps, Foremost, Running
<1>10. PlacesOK'
    <2>1. PlaceOK(p)'
        BY <1>2, <1>3, <1>5 DEF PlaceOK, ResumeSteps
    <2>2. PlaceOK(q)'
        BY <1>2, <1>6 DEF PlaceOK, Lock, dir
    <2> QED BY <2>1, <2>2 DEF PlacesOK
<1>11. ClockInv'
    <2>1. \A x \in Starts : Waits(x)' => Waits(x)
        BY <1>2, <1>5, <1>6 DEF Waits
    <2>2. \A x \in Starts : run[x].pc = "NONE" =>
              /\ \A l \in Locks : file'[l].owner # x
              /\ \A y \in Starts : call'[y].read.owner # x
              /\ \A y \in Starts, d \in Runs : run'[y].seen[d].owner # x
        BY <1>2, <1>5, <1>6 DEF RunInv, ClockInv, LaunchedOK, KeepsFinds
    <2> QED BY <1>2, <1>5, <1>6, <2>1, <2>2, ClockFrame DEF RunInv, PastSteps
<1>12. StartLockInv'
    <2>1. file'[StartLock] = file[StartLock]
        BY <1>5, Actors, EmptyKinds
    <2> QED BY <1>2, <1>5, <1>6, <2>1, StartLockFrame DEF RunInv, StartSteps, ChosenSteps, ResumeSteps, PastSteps
<1>13. SavedOK'
    BY <1>2, <1>3, <1>5, <1>6, SavedFrame DEF RunInv, PlaceOK, ResumeSteps
<1>14. RunLockInv'
    <2>1. IsOwn(p, dir(p))' /\ ~HoldsRun(p)'
        BY <1>5, <1>6 DEF IsOwn, HoldsRun, ResumeSteps
    <2>2. (Threat(q)' <=> Threat(q)) /\ (Open(q)' <=> Open(q)) /\ (HoldsRun(q)' <=> HoldsRun(q)) /\ ~HoldsRun(q)
        BY <1>2, <1>6, <1>8 DEF Threat, Open, HoldsRun, Acquired, HoldsStart, StartSteps, ChosenSteps
    <2>3. IsOwn(q, dir(q)) => IsOwn(q, dir(q))'
        BY <1>2, <1>5, <1>6, <1>7, Actors DEF IsOwn
    <2>4. q \in dead \/ run[q].pc # "LOCK"
        BY <1>8 DEF HoldsStart, StartSteps, ChosenSteps
    <2>5. run[q].pc # "LOCK"
        BY <1>2, <2>4 DEF PlaceOK
    <2>6. RunHeld'
        BY <1>9, <2>1, <2>2, <2>3 DEF RunInv, RunLockInv, RunHeld
    <2>7. OpenHeld'
        <3>1. Open(q) => IsOwn(q, dir(q)) \/ (dir(p) = dir(q) /\ PastLock(p))
            BY DEF RunInv, RunLockInv, OpenHeld
        <3>2. PastLock(p)'
            BY <1>5 DEF PastLock
        <3> QED BY <1>6, <2>1, <2>2, <2>3, <3>1, <3>2 DEF OpenHeld
    <2>8. ChangedAlone' /\ TakesFromSleeper'
        BY <1>5, <1>6, <2>5 DEF ChangedAlone, TakesFromSleeper
    <2> QED BY <2>6, <2>7, <2>8 DEF RunLockInv
<1>15. FindInv'
    <2>1. q \in dead \/ run[q].pc \notin {"FIND", "FIND_GRACE"} \cup ChosenSteps
        BY <1>8 DEF HoldsStart, StartSteps
    <2>2. run[q].pc \notin {"FIND", "FIND_GRACE"}
        BY <1>2, <2>1 DEF PlaceOK
    <2> QED BY <1>2, <1>5, <1>6, <1>9, <2>1, <2>2
        DEF FindInv, NoOtherRun, FindsOther, OneRunPerOutputDirectory, Foremost, ChosenSteps, ResumeSteps
<1>16. ResumesWhatWasSaved'
    <2>1. \A x \in Starts : Relies(x)' => Relies(x) /\ KeepsChoice(x)
        BY <1>2, <1>5, <1>6, <1>7, <1>9 DEF Relies, KeepsChoice
    <2> QED BY <1>2, <2>1, ResumesFrame DEF RunInv
<1> QED BY <1>1, <1>10, <1>11, <1>12, <1>13, <1>14, <1>15, <1>16 DEF RunInv

(* The start lock is released by the start that has it alone.               *)
LEMMA ReleaseKeeps ==
    ASSUME RunInv, NEW p \in Starts, NEW q \in Starts, Starts = {p, q}, p # q, ReleaseRemove(p)
    PROVE  RunInv'
<1>1. StartInv'
    BY StartStepKinds DEF RunInv, StartStep
<1>2. /\ UNCHANGED <<call, dead, reset, asleep, saved>> /\ p \notin dead \cup asleep
      /\ KeepsChoice(p) /\ KeepsFinds(p) /\ KeepsSession(p) /\ KeepsOthers(p)
      /\ run[p].pc = "RELEASE_REMOVE" /\ run'[p].pc = IF run[p].session = "NONE" THEN "REFUSED" ELSE "RUNNING"
      /\ file'[StartLock] = NoLock /\ \A l \in Locks \ {StartLock} : file'[l] = file[l]
    BY Actors, ToFields, EmptyKinds DEF ReleaseRemove, AfterRelease, In, Awake, SetFile
<1>3. run'[q] = run[q] /\ dir(p)' = dir(p) /\ dir(q)' = dir(q)
    BY <1>2 DEF KeepsOthers, KeepsChoice, dir
<1>4. PlacesOK'
    <2>1. PlaceOK(q)' /\ PlaceOK(p)'
        BY <1>2, <1>3, Actors DEF PlaceOK, KeepsSession, Lock, dir, ResumeSteps
    <2> QED BY <2>1 DEF PlacesOK
<1>5. ClockInv'
    <2>1. \A x \in Starts : Waits(x)' => Waits(x)
        BY <1>2, <1>3 DEF Waits
    <2>2. \A x \in Starts : run[x].pc = "NONE" =>
              /\ \A l \in Locks : file'[l].owner # x
              /\ \A y \in Starts : call'[y].read.owner # x
              /\ \A y \in Starts, d \in Runs : run'[y].seen[d].owner # x
        BY <1>2, <1>3, Actors DEF RunInv, ClockInv, LaunchedOK, KeepsFinds
    <2> QED BY <1>2, <1>3, <2>1, <2>2, ClockFrame DEF RunInv, PastSteps
<1>6. StartLockInv'
    <2>1. HoldsStart(p)
        BY <1>2 DEF HoldsStart, StartSteps
    <2>2. ~HoldsStart(q)
        BY <2>1, OneHolder
    <2>3. ~HoldsStart(q)' /\ ~HoldsStart(p)'
        BY <1>2, <1>3, <2>2 DEF HoldsStart, Acquired, StartSteps, ChosenSteps, ResumeSteps
    <2>4. StartHeld'
        BY <2>3 DEF StartHeld
    <2>5. StartJudged'
        BY <1>2, <1>3 DEF RunInv, StartLockInv, StartJudged, PastSteps
    <2> QED BY <2>4, <2>5 DEF StartLockInv
<1>7. SavedOK'
    BY <1>2, <1>3, SavedFrame DEF RunInv, KeepsSession
<1>8. RunLockInv'
    <2>1. (HoldsRun(p)' => HoldsRun(p)) /\ (PastLock(p) => PastLock(p)')
        BY <1>2 DEF HoldsRun, PastLock, ResumeSteps, PastSteps
    <2>2. (HoldsRun(q)' => HoldsRun(q)) /\ (PastLock(q) => PastLock(q)')
        BY <1>2, <1>3 DEF HoldsRun, PastLock, Acquired
    <2>3. \A x \in Starts : /\ (Threat(x)' => Threat(x)) /\ (Foremost(x)' => Foremost(x)) /\ (Open(x)' => Open(x))
                            /\ (IsOwn(x, dir(x)) => IsOwn(x, dir(x))')
        BY <1>2, <1>3, Actors DEF Threat, Foremost, Running, Open, IsOwn, KeepsSession
    <2> QED BY <1>2, <1>3, <2>1, <2>2, <2>3, RunLockFrame DEF RunInv
<1>9. FindInv'
    BY <1>2, <1>3, FindFrame DEF RunInv, Foremost, Running, KeepsSession, KeepsFinds, ChosenSteps, ResumeSteps
<1>10. ResumesWhatWasSaved'
    <2>1. \A x \in Starts : Relies(x)' => Relies(x) /\ KeepsChoice(x)
        BY <1>2, <1>3 DEF Relies, Foremost, Running, KeepsSession, KeepsChoice
    <2> QED BY <1>2, <2>1, ResumesFrame DEF RunInv
<1> QED BY <1>1, <1>4, <1>5, <1>6, <1>7, <1>8, <1>9, <1>10 DEF RunInv

-----------------------------------------------------------------------------
(* The steps of a session                                                   *)

(* What every step of a session does: it leaves the start stage, the calls  *)
(* and the other sessions alone, comes to write only under its own lock,    *)
(* and removes that lock alone, when it will not write again.               *)
SessionShape(p) ==
    /\ UNCHANGED <<call, dead, reset, asleep>> /\ p \notin dead \cup asleep
    /\ KeepsChoice(p) /\ KeepsFinds(p) /\ KeepsOthers(p) /\ run'[p].slept = run[p].slept
    /\ run[p].session # "NONE" /\ run'[p].session \in {run[p].session, "LOST", "ENDED"}
    /\ \/ run'[p].pc = run[p].pc
       \/ run[p].pc = "RUNNING" /\ run'[p].pc = "UNLOCK" /\ run'[p].session = "ENDED"
       \/ run[p].pc \in {"RUNNING", "UNLOCK"} /\ run'[p].pc = "ENDED" /\ run'[p].session # "ACTIVE"
    /\ run'[p].beat # "IDLE" => run'[p].pc # "ENDED"
    /\ run'[p].save # "IDLE" => run'[p].pc = "RUNNING"
    /\ Open(p)' => Open(p)
    /\ Threat(p)' => Threat(p) \/ IsOwn(p, dir(p))
    /\ file'[StartLock] = file[StartLock]
    /\ \/ \A l \in Locks : file'[l].owner = file[l].owner
       \/ IsOwn(p, dir(p)) /\ ~Open(p)' /\ ~Threat(p)' /\ file'[dir(p)] = NoLock /\ \A l \in Locks \ {dir(p)} : file'[l] = file[l]

(* A heartbeat or a save goes on to a step, and the session may be lost.    *)
ReadsTo(p, step, session, field) ==
    /\ KeepsChoice(p) /\ KeepsFinds(p) /\ KeepsOthers(p) /\ run'[p].slept = run[p].slept
    /\ run'[p].session = session /\ run'[p].pc = run[p].pc /\ run'[p].saves = run[p].saves
    /\ field = "beat" => run'[p].beat = step /\ run'[p].save = run[p].save
    /\ field = "save" => run'[p].save = step /\ run'[p].beat = run[p].beat

(* A heartbeat or a save that reads the lock                                *)
LEMMA ReadShape ==
    ASSUME RunInv, NEW p \in Starts, Beat(p) \/ BeatAgain(p) \/ Save(p) \/ SaveAgain(p)
    PROVE  SessionShape(p) /\ run'[p].saves = run[p].saves /\ saved' = saved
<1>1. /\ UNCHANGED <<file, call, dead, reset, asleep, saved>> /\ p \notin dead \cup asleep
      /\ PlaceOK(p) /\ run[p] \in RunRecords /\ run \in [Starts -> RunRecords]
    BY Actors DEF Beat, BeatAgain, Save, SaveAgain, In, Awake, lockVars
<1>2. run[p].session # "NONE" /\ Open(p)
    BY <1>1 DEF Beat, BeatAgain, Save, SaveAgain, In, PlaceOK, Open
<1>3. ASSUME NEW next, NEW again, ReadsOnce(p, "beat", next, again) \/ ReadsAgain(p, "beat", next)
      PROVE  \E step \in {next, again, "IDLE"}, session \in {run[p].session, "LOST"} :
                ReadsTo(p, step, session, "beat") /\ (step \notin {again, "IDLE"} => IsOwn(p, dir(p)))
    <2>1. ASSUME NEW step, run' = [run EXCEPT ![p]["beat"] = step]
          PROVE  ReadsTo(p, step, run[p].session, "beat")
        BY <1>1, <2>1 DEF ReadsTo, RunRecords, KeepsChoice, KeepsFinds, KeepsOthers
    <2>2. ASSUME LosesLock(p, "beat")
          PROVE  \E session \in {run[p].session, "LOST"} : ReadsTo(p, "IDLE", session, "beat")
        <3>1. PICK idle : idle = "IDLE"
            OBVIOUS
        <3>2. PICK session : session = IF run[p].session = "ACTIVE" THEN "LOST" ELSE run[p].session
            OBVIOUS
        <3>3. run' = [run EXCEPT ![p]["beat"] = idle, ![p].session = session]
            BY <2>2, <3>1, <3>2, Zenon DEF LosesLock
        <3>4. run' = [run EXCEPT ![p] = [run[p] EXCEPT !.beat = idle, !.session = session]]
            <4>1. PICK r : r = [run[p] EXCEPT !["beat"] = idle]
                OBVIOUS
            <4>2. r = [run[p] EXCEPT !.beat = idle]
                BY <1>1, <4>1 DEF RunRecords
            <4>3. PICK mid : mid = [run EXCEPT ![p] = r]
                OBVIOUS
            <4>4. mid[p] = r
                BY <1>1, <4>3
            <4>5. PICK s : s = [r EXCEPT !.session = session]
                OBVIOUS
            <4>6. run' = [mid EXCEPT ![p] = s]
                BY <3>3, <4>1, <4>3, <4>4, <4>5, Zenon
            <4>7. run' = [run EXCEPT ![p] = s]
                BY <1>1, <4>3, <4>6
            <4> QED BY <4>2, <4>5, <4>7, Zenon
        <3>5. ReadsTo(p, idle, session, "beat")
            BY <1>1, <3>4 DEF ReadsTo, RunRecords, KeepsChoice, KeepsFinds, KeepsOthers
        <3> QED BY <3>1, <3>2, <3>5
    <2> QED BY <1>3, <2>1, <2>2 DEF ReadsOnce, ReadsAgain, ReadsOwn
<1>4. ASSUME NEW next, NEW again, ReadsOnce(p, "save", next, again) \/ ReadsAgain(p, "save", next)
      PROVE  \E step \in {next, again, "IDLE"}, session \in {run[p].session, "LOST"} :
                ReadsTo(p, step, session, "save") /\ (step \notin {again, "IDLE"} => IsOwn(p, dir(p)))
    <2>1. ASSUME NEW step, run' = [run EXCEPT ![p]["save"] = step]
          PROVE  ReadsTo(p, step, run[p].session, "save")
        BY <1>1, <2>1 DEF ReadsTo, RunRecords, KeepsChoice, KeepsFinds, KeepsOthers
    <2>2. ASSUME LosesLock(p, "save")
          PROVE  \E session \in {run[p].session, "LOST"} : ReadsTo(p, "IDLE", session, "save")
        <3>1. PICK idle : idle = "IDLE"
            OBVIOUS
        <3>2. PICK session : session = IF run[p].session = "ACTIVE" THEN "LOST" ELSE run[p].session
            OBVIOUS
        <3>3. run' = [run EXCEPT ![p]["save"] = idle, ![p].session = session]
            BY <2>2, <3>1, <3>2, Zenon DEF LosesLock
        <3>4. run' = [run EXCEPT ![p] = [run[p] EXCEPT !.save = idle, !.session = session]]
            <4>1. PICK r : r = [run[p] EXCEPT !["save"] = idle]
                OBVIOUS
            <4>2. r = [run[p] EXCEPT !.save = idle]
                BY <1>1, <4>1 DEF RunRecords
            <4>3. PICK mid : mid = [run EXCEPT ![p] = r]
                OBVIOUS
            <4>4. mid[p] = r
                BY <1>1, <4>3
            <4>5. PICK s : s = [r EXCEPT !.session = session]
                OBVIOUS
            <4>6. run' = [mid EXCEPT ![p] = s]
                BY <3>3, <4>1, <4>3, <4>4, <4>5, Zenon
            <4>7. run' = [run EXCEPT ![p] = s]
                BY <1>1, <4>3, <4>6
            <4> QED BY <4>2, <4>5, <4>7, Zenon
        <3>5. ReadsTo(p, idle, session, "save")
            BY <1>1, <3>4 DEF ReadsTo, RunRecords, KeepsChoice, KeepsFinds, KeepsOthers
        <3> QED BY <3>1, <3>2, <3>5
    <2> QED BY <1>4, <2>1, <2>2 DEF ReadsOnce, ReadsAgain, ReadsOwn
<1>5. CASE Beat(p) \/ BeatAgain(p)
    <2>1. ReadsOnce(p, "beat", "WRITE", "AGAIN") \/ ReadsAgain(p, "beat", "WRITE")
        BY <1>5, Zenon DEF Beat, BeatAgain
    <2>2. PICK step \in {"WRITE", "AGAIN", "IDLE"}, session \in {run[p].session, "LOST"} :
              ReadsTo(p, step, session, "beat") /\ (step \notin {"AGAIN", "IDLE"} => IsOwn(p, dir(p)))
        BY <1>3, <2>1, Zenon
    <2>3. run[p].pc # "ENDED"
        BY <1>1, <1>5 DEF Beat, BeatAgain, PlaceOK
    <2> QED BY <1>1, <1>2, <2>2, <2>3 DEF SessionShape, ReadsTo, PlaceOK, Threat
<1>6. ASSUME NEW next \in {"WRITE", "LAST"}, NEW again \in {"AGAIN", "LAST_AGAIN"}, run[p].pc = "RUNNING",
             ReadsOnce(p, "save", next, again) \/ ReadsAgain(p, "save", next)
      PROVE  SessionShape(p) /\ run'[p].saves = run[p].saves
    <2>1. PICK step \in {next, again, "IDLE"}, session \in {run[p].session, "LOST"} :
              ReadsTo(p, step, session, "save") /\ (step \notin {again, "IDLE"} => IsOwn(p, dir(p)))
        BY <1>4, <1>6, Zenon
    <2> QED BY <1>1, <1>2, <1>6, <2>1 DEF SessionShape, ReadsTo, PlaceOK, Threat
<1>7. CASE Save(p) \/ SaveAgain(p)
    <2>1. run[p].pc = "RUNNING" /\ \/ ReadsOnce(p, "save", "WRITE", "AGAIN") \/ ReadsOnce(p, "save", "LAST", "LAST_AGAIN")
                                   \/ ReadsAgain(p, "save", "WRITE") \/ ReadsAgain(p, "save", "LAST")
        BY <1>7, Zenon DEF Save, SaveAgain, In
    <2> QED BY <1>1, <1>6, <2>1
<1> QED BY <1>1, <1>5, <1>7

(* A heartbeat or a save that writes, and the end of a session              *)
LEMMA WriteShape ==
    ASSUME RunInv, NEW p \in Starts, NEW q \in Starts, Starts = {p, q}, p # q
    PROVE  /\ BeatWrite(p) \/ Unlock(p) => Threat(p) /\ saved' = saved
           /\ EndWorkerRun(p) \/ Abandon(p) => saved' = saved
           /\ BeatWrite(p) \/ Unlock(p) \/ EndWorkerRun(p) \/ Abandon(p) => SessionShape(p) /\ run'[p].saves = run[p].saves
           /\ SaveWrite(p) => SessionShape(p) /\ Threat(p) /\ run'[p].pc = "RUNNING" /\ run'[p].saves = run[p].saves + 1
           /\ SaveLast(p) => SessionShape(p) /\ Threat(p) /\ run'[p].session = "ENDED"
           /\ SaveWrite(p) \/ SaveLast(p) => saved'[dir(p)] \notin {NoDirectory, NoState} /\ \A d \in Runs \ {dir(p)} : saved'[d] = saved[d]
<1>1. /\ PlaceOK(p) /\ run[p] \in RunRecords /\ run \in [Starts -> RunRecords] /\ run[p].saves \in Nat
      /\ dir(p) \in Runs /\ dir(p) \in Locks /\ dir(p) # StartLock /\ StartLock \in Locks /\ file \in [Locks -> Content] /\ saved \in [Runs -> States]
    BY Actors, EmptyKinds, RunAssumption DEF RunRecords
<1>2. Threat(p) => IsOwn(p, dir(p))
    BY DEF RunInv, RunLockInv, RunHeld
<1>3. ASSUME BeatWrite(p)
      PROVE  SessionShape(p) /\ run'[p].saves = run[p].saves /\ Threat(p) /\ saved' = saved
    <2>1. Threat(p) /\ p \notin dead \cup asleep /\ UNCHANGED <<call, dead, reset, asleep, saved>> /\ run[p].beat = "WRITE"
        BY <1>3 DEF BeatWrite, Awake, Threat
    <2>2. PICK idle, n : idle = "IDLE" /\ n = run[p].beats + 1
        OBVIOUS
    <2>3. run' = [run EXCEPT ![p].beat = idle, ![p].beats = n]
        BY <1>1, <1>3, <2>2 DEF BeatWrite
    <2>4. /\ KeepsChoice(p) /\ KeepsFinds(p) /\ KeepsOthers(p) /\ run'[p].slept = run[p].slept
          /\ run'[p].session = run[p].session /\ run'[p].pc = run[p].pc /\ run'[p].saves = run[p].saves
          /\ run'[p].beat = idle /\ run'[p].save = run[p].save
        BY <1>1, <2>3 DEF RunRecords, KeepsChoice, KeepsFinds, KeepsOthers
    <2>5. file'[StartLock] = file[StartLock] /\ \A l \in Locks : file'[l].owner = file[l].owner
        <3>1. PICK c : c = [owner |-> p, beat |-> n]
            OBVIOUS
        <3>2. file' = [file EXCEPT ![dir(p)] = c] /\ c.owner = p
            BY <1>3, <2>2, <3>1 DEF BeatWrite, SetFile
        <3> QED BY <1>1, <1>2, <2>1, <3>2 DEF IsOwn
    <2> QED BY <1>1, <2>1, <2>2, <2>4, <2>5 DEF SessionShape, PlaceOK, Open, Threat
<1>4. ASSUME Unlock(p)
      PROVE  SessionShape(p) /\ run'[p].saves = run[p].saves /\ Threat(p) /\ saved' = saved
    <2>1. /\ Threat(p) /\ p \notin dead \cup asleep /\ UNCHANGED <<call, dead, reset, asleep, saved>>
          /\ run[p].beat = "IDLE" /\ run[p].pc = "UNLOCK"
        BY <1>4 DEF Unlock, In, Awake, Threat
    <2>2. run'[p].pc = "ENDED" /\ KeepsChoice(p) /\ KeepsFinds(p) /\ KeepsSession(p) /\ KeepsOthers(p)
        BY <1>1, <1>4, ToFields DEF Unlock
    <2>3. file'[dir(p)] = NoLock /\ \A l \in Locks \ {dir(p)} : file'[l] = file[l]
        BY <1>1, <1>4 DEF Unlock, SetFile
    <2> QED BY <1>1, <1>2, <2>1, <2>2, <2>3 DEF SessionShape, KeepsSession, PlaceOK, Open, Threat
<1>5. ASSUME EndWorkerRun(p) PROVE SessionShape(p) /\ run'[p].saves = run[p].saves /\ saved' = saved
    <2>1. /\ p \notin dead \cup asleep /\ UNCHANGED <<file, call, dead, reset, asleep, saved>> /\ run[p].pc = "RUNNING"
          /\ run[p].session = "ACTIVE" /\ dir(p) = p /\ run[p].saves = 0 /\ run[p].save = "IDLE"
        BY <1>5 DEF EndWorkerRun, In, Awake, lockVars
    <2>2. /\ KeepsChoice(p) /\ KeepsFinds(p) /\ KeepsOthers(p) /\ run'[p].slept = run[p].slept
          /\ run'[p].session = "ENDED" /\ run'[p].pc = "UNLOCK" /\ run'[p].saves = run[p].saves
          /\ run'[p].beat = run[p].beat /\ run'[p].save = run[p].save
        BY <1>1, <1>5 DEF EndWorkerRun, RunRecords, KeepsChoice, KeepsFinds, KeepsOthers
    <2>3. IsOwn(p, dir(p))
        <3>1. dir(q) # p
            BY <2>1 DEF RunInv, SavedOK
        <3> QED BY <2>1, <3>1 DEF RunInv, RunLockInv, OpenHeld, Open
    <2> QED BY <2>1, <2>2, <2>3 DEF SessionShape, Open
<1>6. ASSUME Abandon(p) PROVE SessionShape(p) /\ run'[p].saves = run[p].saves /\ saved' = saved
    <2>1. /\ p \notin dead \cup asleep /\ UNCHANGED <<file, call, dead, reset, asleep, saved>> /\ run[p].pc = "RUNNING"
          /\ run[p].session \in {"ACTIVE", "LOST"} /\ run[p].save = "IDLE" /\ run[p].beat = "IDLE"
        BY <1>6 DEF Abandon, In, Awake, lockVars
    <2>2. PICK session : session = IF run[p].session = "ACTIVE" THEN "ENDED" ELSE run[p].session
        OBVIOUS
    <2>3. run' = [run EXCEPT ![p].pc = "ENDED", ![p].session = session]
        BY <1>1, <1>6, <2>2 DEF Abandon
    <2>4. /\ KeepsChoice(p) /\ KeepsFinds(p) /\ KeepsOthers(p) /\ run'[p].slept = run[p].slept
          /\ run'[p].session = session /\ run'[p].pc = "ENDED" /\ run'[p].saves = run[p].saves
          /\ run'[p].beat = run[p].beat /\ run'[p].save = run[p].save
        BY <1>1, <2>3 DEF RunRecords, KeepsChoice, KeepsFinds, KeepsOthers
    <2> QED BY <2>1, <2>2, <2>4 DEF SessionShape, Open, Threat
<1>7. ASSUME NEW state, saved' = [saved EXCEPT ![dir(p)] = state], state.status \in {"IN_PROGRESS", "STOPPED", "FINISHED"}
      PROVE  saved'[dir(p)] \notin {NoDirectory, NoState} /\ \A d \in Runs \ {dir(p)} : saved'[d] = saved[d]
    <2>1. saved'[dir(p)] = state /\ \A d \in Runs \ {dir(p)} : saved'[d] = saved[d]
        BY <1>1, <1>7
    <2>2. state \notin {NoDirectory, NoState}
        BY <1>7 DEF NoDirectory, NoState
    <2> QED BY <2>1, <2>2
<1>8. ASSUME SaveWrite(p)
      PROVE  /\ SessionShape(p) /\ Threat(p) /\ run'[p].pc = "RUNNING" /\ run'[p].saves = run[p].saves + 1
             /\ saved'[dir(p)] \notin {NoDirectory, NoState} /\ \A d \in Runs \ {dir(p)} : saved'[d] = saved[d]
    <2>1. p \notin dead \cup asleep /\ UNCHANGED <<file, call, dead, reset, asleep>> /\ run[p].pc = "RUNNING" /\ run[p].save = "WRITE"
        BY <1>8 DEF SaveWrite, In, Awake, lockVars
    <2>2. PICK idle, n : idle = "IDLE" /\ n = run[p].saves + 1
        OBVIOUS
    <2>3. run' = [run EXCEPT ![p].save = idle, ![p].saves = n]
        BY <1>1, <1>8, <2>2 DEF SaveWrite
    <2>4. /\ KeepsChoice(p) /\ KeepsFinds(p) /\ KeepsOthers(p) /\ run'[p].slept = run[p].slept
          /\ run'[p].session = run[p].session /\ run'[p].pc = run[p].pc /\ run'[p].saves = n
          /\ run'[p].beat = run[p].beat /\ run'[p].save = idle
        BY <1>1, <2>3 DEF RunRecords, KeepsChoice, KeepsFinds, KeepsOthers
    <2>5. PICK state : state = [status |-> "IN_PROGRESS", by |-> p, count |-> n]
        OBVIOUS
    <2>6. saved' = [saved EXCEPT ![dir(p)] = state] /\ state.status = "IN_PROGRESS"
        BY <1>8, <2>2, <2>5 DEF SaveWrite
    <2>7. Threat(p) /\ Open(p) /\ run[p].session # "NONE"
        BY <1>1, <2>1 DEF Threat, Open, PlaceOK
    <2> QED BY <1>1, <1>7, <2>1, <2>2, <2>4, <2>6, <2>7 DEF SessionShape, PlaceOK
<1>9. ASSUME SaveLast(p)
      PROVE  /\ SessionShape(p) /\ Threat(p) /\ run'[p].session = "ENDED"
             /\ saved'[dir(p)] \notin {NoDirectory, NoState} /\ \A d \in Runs \ {dir(p)} : saved'[d] = saved[d]
    <2>1. p \notin dead \cup asleep /\ UNCHANGED <<file, call, dead, reset, asleep>> /\ run[p].pc = "RUNNING" /\ run[p].save = "LAST"
        BY <1>9 DEF SaveLast, In, Awake, lockVars
    <2>2. PICK idle, ended : idle = "IDLE" /\ ended = "ENDED"
        OBVIOUS
    <2>3. run' = [run EXCEPT ![p].pc = "UNLOCK", ![p].save = idle, ![p].session = ended]
        BY <1>1, <1>9, <2>2 DEF SaveLast
    <2>4. /\ KeepsChoice(p) /\ KeepsFinds(p) /\ KeepsOthers(p) /\ run'[p].slept = run[p].slept
          /\ run'[p].session = ended /\ run'[p].pc = "UNLOCK"
          /\ run'[p].beat = run[p].beat /\ run'[p].save = idle
        BY <1>1, <2>3 DEF RunRecords, KeepsChoice, KeepsFinds, KeepsOthers
    <2>5. PICK status \in {"STOPPED", "FINISHED"} :
              saved' = [saved EXCEPT ![dir(p)] = [status |-> status, by |-> p, count |-> run[p].saves + 1]]
        BY <1>9 DEF SaveLast
    <2>6. PICK state : state = [status |-> status, by |-> p, count |-> run[p].saves + 1]
        OBVIOUS
    <2>7. saved' = [saved EXCEPT ![dir(p)] = state] /\ state.status = status
        BY <2>5, <2>6
    <2>8. Threat(p) /\ Open(p) /\ run[p].session # "NONE"
        BY <1>1, <2>1 DEF Threat, Open, PlaceOK
    <2> QED BY <1>1, <1>7, <2>1, <2>2, <2>4, <2>7, <2>8 DEF SessionShape, PlaceOK
<1> QED BY <1>3, <1>4, <1>5, <1>6, <1>8, <1>9

(* A step of this shape keeps all but what was saved.                       *)
LEMMA SessionFrame ==
    ASSUME RunInv, NEW p \in Starts, NEW q \in Starts, Starts = {p, q}, p # q, SessionShape(p)
    PROVE  PlacesOK' /\ ClockInv' /\ StartLockInv' /\ RunLockInv' /\ FindInv'
<1>1. /\ run'[q] = run[q] /\ dir(p)' = dir(p) /\ dir(q)' = dir(q) /\ PlaceOK(p) /\ PlaceOK(q)
      /\ UNCHANGED <<call, dead, reset, asleep>> /\ p \notin dead \cup asleep
      /\ run[p].pc \in {"RELEASE", "RELEASE_REMOVE"} \cup PastSteps
      /\ run'[p].pc = run[p].pc \/ (run[p].pc \in PastSteps /\ run'[p].pc \in PastSteps)
    BY Actors DEF SessionShape, KeepsOthers, KeepsChoice, dir, PlaceOK, PastSteps
<1>2. PlacesOK'
    <2>1. PlaceOK(q)' /\ PlaceOK(p)'
        BY <1>1 DEF SessionShape, PlaceOK, Lock, dir, ResumeSteps
    <2> QED BY <2>1 DEF PlacesOK
<1>3. \A l \in Locks : file'[l].owner \in {file[l].owner, Nobody}
    BY Actors DEF SessionShape
<1>4. ClockInv'
    <2>1. \A x \in Starts : Waits(x)' => Waits(x)
        BY <1>1 DEF Waits, PastSteps
    <2>2. \A x \in Starts : run[x].pc = "NONE" =>
              /\ \A l \in Locks : file'[l].owner # x
              /\ \A y \in Starts : call'[y].read.owner # x
              /\ \A y \in Starts, d \in Runs : run'[y].seen[d].owner # x
        BY <1>1, <1>3, Actors DEF RunInv, ClockInv, LaunchedOK, SessionShape, KeepsFinds
    <2> QED BY <1>1, <2>1, <2>2, ClockFrame DEF RunInv, PastSteps
<1>5. StartLockInv'
    BY <1>1, StartLockFrame DEF RunInv, SessionShape, StartSteps, ChosenSteps, ResumeSteps, PastSteps
<1>6. RunLockInv'
    <2>1. (HoldsRun(p)' => HoldsRun(p)) /\ (PastLock(p) => PastLock(p)')
        BY <1>1 DEF HoldsRun, PastLock, ResumeSteps, PastSteps
    <2>2. (HoldsRun(q)' => HoldsRun(q)) /\ (PastLock(q) => PastLock(q)')
        BY <1>1 DEF HoldsRun, PastLock, Acquired
    <2>3. \A x \in Starts : (Foremost(x)' => Foremost(x)) /\ (Open(x)' => Open(x))
        BY <1>1 DEF SessionShape, Foremost, Running, Open
    <2>4. (Threat(q)' => Threat(q)) /\ (Threat(p) => IsOwn(p, dir(p)))
        BY <1>1 DEF Threat, RunInv, RunLockInv, RunHeld
    <2>5. ~HoldsRun(p)' /\ (Foremost(p)' => Open(p)')
        BY <1>1 DEF HoldsRun, Foremost, Running, Open, ResumeSteps, PastSteps
    <2>6. IsOwn(p, dir(p)) /\ (Threat(p)' \/ Open(p)') => IsOwn(p, dir(p))'
        BY <1>1, Actors DEF SessionShape, IsOwn
    <2>7. IsOwn(q, dir(q)) => IsOwn(q, dir(q))'
        BY <1>1, Actors DEF SessionShape, IsOwn
    <2>8. Threat(p)' => IsOwn(p, dir(p))'
        BY <2>4, <2>6 DEF SessionShape
    <2>9. \A x \in Starts :
              /\ Threat(x)' => Threat(x) \/ IsOwn(x, dir(x))'
              /\ IsOwn(x, dir(x)) /\ (Threat(x)' \/ HoldsRun(x)' \/ Foremost(x)' \/ Open(x)') => IsOwn(x, dir(x))'
        BY <2>4, <2>5, <2>6, <2>7, <2>8
    <2> QED BY <1>1, <2>1, <2>2, <2>3, <2>9, RunLockFrame DEF RunInv, PastSteps
<1>7. FindInv'
    BY <1>1, FindFrame DEF RunInv, SessionShape, Foremost, Running, ChosenSteps, ResumeSteps, PastSteps, KeepsFinds
<1> QED BY <1>2, <1>4, <1>5, <1>6, <1>7

(* A step of a session keeps the whole invariant.                           *)
LEMMA SessionKeeps ==
    ASSUME RunInv, NEW p \in Starts, NEW q \in Starts, Starts = {p, q}, p # q, SessionStep(p)
    PROVE  RunInv'
<1>1. StartInv'
    BY SessionStepKinds DEF RunInv
<1>2. SessionShape(p)
    BY ReadShape, WriteShape DEF SessionStep
<1>3. PlacesOK' /\ ClockInv' /\ StartLockInv' /\ RunLockInv' /\ FindInv'
    BY <1>2, SessionFrame
<1>4. /\ run'[q] = run[q] /\ dir(p)' = dir(p) /\ dir(q)' = dir(q) /\ PlaceOK(p)
      /\ UNCHANGED dead /\ p \notin dead /\ run[p].session # "NONE" /\ run'[p].session # "NONE"
      /\ dir(p) \in Runs /\ dir(q) \in Runs /\ p \in Runs /\ q \in Runs
      /\ run[p].saves \in Nat
    BY <1>2, Actors, RunAssumption DEF SessionShape, KeepsOthers, KeepsChoice, dir, RunRecords
<1>5. CASE saved' = saved /\ run'[p].saves = run[p].saves
    <2>1. SavedOK'
        BY <1>2, <1>4, <1>5, SavedFrame DEF RunInv, SessionShape
    <2>2. \A x \in Starts : Relies(x)' => Relies(x) /\ KeepsChoice(x)
        BY <1>2, <1>4, <1>5 DEF SessionShape, Relies, Foremost, Running, KeepsChoice, PlaceOK
    <2>3. ResumesWhatWasSaved'
        BY <1>5, <2>2, ResumesFrame DEF RunInv
    <2> QED BY <1>1, <1>3, <2>1, <2>3 DEF RunInv
<1>6. CASE SaveWrite(p) \/ SaveLast(p)
    <2>1. /\ saved'[dir(p)] \notin {NoDirectory, NoState} /\ \A d \in Runs \ {dir(p)} : saved'[d] = saved[d]
          /\ Threat(p)
          /\ run'[p].session = "ENDED" \/ (run'[p].pc = "RUNNING" /\ run'[p].saves # 0)
        BY <1>4, <1>6, WriteShape
    <2>2. IsOwn(p, dir(p))
        BY <2>1 DEF RunInv, RunLockInv, RunHeld
    <2>3. SavedOK'
        <3>1. \A d \in Runs \ {dir(p)} : Unsaved(d)' <=> Unsaved(d)
            BY <2>1 DEF Unsaved
        <3>2. p # dir(p) => Unsaved(p)
            BY <1>4 DEF RunInv, SavedOK
        <3>3. dir(p) = q => ~(q \notin dead /\ (dir(q) # q \/ (run[q].saves = 0 /\ run[q].session \in {"NONE", "ACTIVE"})))
            BY DEF RunInv, SavedOK
        <3>4. dir(q) = p => ~Unsaved(p)
            BY DEF RunInv, SavedOK
        <3>5. ~Unsaved(dir(p))' /\ saved'[dir(p)] # NoDirectory
            BY <1>4, <2>1 DEF Unsaved
        <3>6. \A x \in Starts : x \notin dead' /\ (dir(x)' # x \/ (run'[x].saves = 0 /\ run'[x].session \in {"NONE", "ACTIVE"}))
                                  => Unsaved(x)'
            <4>1. CASE dir(p) = p
                BY <1>4, <2>1, <3>1, <4>1 DEF RunInv, SavedOK
            <4>2. CASE dir(p) = q
                BY <1>4, <3>1, <3>2, <3>3, <4>2
            <4>3. CASE dir(p) # p /\ dir(p) # q
                BY <1>4, <3>1, <3>2, <4>3 DEF RunInv, SavedOK
            <4> QED BY <4>1, <4>2, <4>3
        <3>7. \A x, y \in Starts : x # y /\ dir(y)' = x => ~Unsaved(x)'
            BY <1>4, <3>1, <3>4, <3>5
        <3>8. saved'[dir(q)] # NoDirectory \/ ~(dir(q) # q \/ run[q].pc = "LOCK_NEW" \/ run[q].session # "NONE")
            BY <1>4, <2>1 DEF RunInv, SavedOK
        <3>9. \A x \in Starts : dir(x)' # x \/ run'[x].pc = "LOCK_NEW" \/ run'[x].session # "NONE" => saved'[dir(x)'] # NoDirectory
            BY <1>4, <3>5, <3>8
        <3> QED BY <3>6, <3>7, <3>9 DEF SavedOK
    <2>4. ~Relies(p)'
        BY <1>2, <1>4, <2>1 DEF SessionShape, Relies, Foremost, Running, PlaceOK
    <2>5. Relies(q) => dir(q) # dir(p)
        <3>1. Relies(q) => IsOwn(q, dir(q))
            BY DEF RunInv, RunLockInv, RunHeld, Relies, HoldsRun, ResumeSteps
        <3> QED BY <2>2, <3>1 DEF IsOwn
    <2>6. ResumesWhatWasSaved'
        <3>1. \A x \in Starts : Relies(x)' => Relies(x) /\ KeepsChoice(x) /\ saved'[dir(x)] = saved[dir(x)]
            BY <1>4, <2>1, <2>4, <2>5 DEF Relies, Foremost, Running, KeepsChoice
        <3> QED BY <3>1, ResumesFrame DEF RunInv
    <2> QED BY <1>1, <1>3, <2>3, <2>6 DEF RunInv
<1> QED BY <1>5, <1>6, ReadShape, WriteShape DEF SessionStep

-----------------------------------------------------------------------------
(* What becomes of a process                                                *)

(* A session is held up; it may come to write again later.                  *)
LEMMA SleepKeeps ==
    ASSUME RunInv, NEW p \in Starts, NEW q \in Starts, Starts = {p, q}, p # q, Sleep(p)
    PROVE  RunInv'
<1>1. StartInv'
    BY FateKinds DEF RunInv
<1>2. /\ UNCHANGED <<file, call, dead, reset, saved>> /\ p \notin dead \cup asleep /\ asleep' = asleep \cup {p}
      /\ run[p].pc = "RUNNING" /\ run[p].session = "ACTIVE" /\ run[p].beat # "WRITE" /\ run[p].save \notin {"WRITE", "LAST"}
      /\ KeepsChoice(p) /\ KeepsFinds(p) /\ KeepsOthers(p) /\ run'[p].pc = run[p].pc /\ run'[p].slept
      /\ run'[p].session = run[p].session /\ run'[p].beat = run[p].beat /\ run'[p].save = run[p].save
      /\ run'[p].saves = run[p].saves
    BY Actors DEF Sleep, In, Awake, RunRecords, KeepsChoice, KeepsFinds, KeepsOthers
<1>3. run'[q] = run[q] /\ dir(p)' = dir(p) /\ dir(q)' = dir(q) /\ PlaceOK(p) /\ PlaceOK(q)
    BY <1>2, Actors DEF KeepsOthers, KeepsChoice, dir
<1>4. PlacesOK'
    <2>1. PlaceOK(q)' /\ PlaceOK(p)'
        BY <1>2, <1>3 DEF PlaceOK, Lock, dir, ResumeSteps
    <2> QED BY <2>1 DEF PlacesOK
<1>5. ClockInv'
    BY <1>2, <1>3, ClockFrame DEF RunInv, ClockInv, LaunchedOK, Waits, PastSteps, KeepsFinds
<1>6. StartLockInv'
    BY <1>2, <1>3, StartLockFrame DEF RunInv
<1>7. SavedOK'
    BY <1>2, <1>3, SavedFrame DEF RunInv
<1>8. RunLockInv'
    <2>1. \A x \in Starts : (HoldsRun(x)' => HoldsRun(x)) /\ (PastLock(x) => PastLock(x)')
        BY <1>2, <1>3 DEF HoldsRun, PastLock, Acquired
    <2>2. \A x \in Starts : /\ (Threat(x)' => Threat(x)) /\ (Foremost(x)' => Foremost(x)) /\ (Open(x)' => Open(x))
                            /\ (IsOwn(x, dir(x)) => IsOwn(x, dir(x))')
        BY <1>2, <1>3 DEF Threat, Foremost, Running, Open, IsOwn
    <2> QED BY <1>2, <1>3, <2>1, <2>2, RunLockFrame DEF RunInv
<1>9. FindInv'
    BY <1>2, <1>3, FindFrame DEF RunInv, Foremost, Running, KeepsFinds
<1>10. ResumesWhatWasSaved'
    <2>1. \A x \in Starts : Relies(x)' => Relies(x) /\ KeepsChoice(x)
        BY <1>2, <1>3 DEF Relies, Foremost, Running, KeepsChoice
    <2> QED BY <1>2, <2>1, ResumesFrame DEF RunInv
<1> QED BY <1>1, <1>4, <1>5, <1>6, <1>7, <1>8, <1>9, <1>10 DEF RunInv

(* A session wakes while nobody is about to take its lock.                  *)
LEMMA WakeKeeps ==
    ASSUME RunInv, NEW p \in Starts, NEW q \in Starts, Starts = {p, q}, p # q, Wake(p)
    PROVE  RunInv'
<1>1. StartInv'
    BY FateKinds DEF RunInv
<1>2. UNCHANGED <<file, call, dead, reset, run, saved>> /\ asleep' = asleep \ {p}
      /\ \A x \in Starts : call[x].read.owner = p => call[x].pc = "GRACE"
    BY DEF Wake
<1>3. PlacesOK'
    <2>1. \A x \in Starts : PlaceOK(x)'
        BY <1>2, Actors DEF PlaceOK, Lock, dir
    <2> QED BY <2>1 DEF PlacesOK
<1>4. ClockInv' /\ StartLockInv' /\ SavedOK' /\ FindInv' /\ ResumesWhatWasSaved'
    BY <1>2 DEF RunInv, ClockInv, LaunchedOK, WaitsOK, Waits, ClockOK, StartLockInv, StartHeld, HoldsStart, Acquired, Displaced,
           Own, StartJudged, SavedOK, Unsaved, dir, FindInv, NoOtherRun, FindsOther, OneRunPerOutputDirectory, Foremost, Running,
           ResumesWhatWasSaved
<1>5. \A x \in Starts : Open(x)' <=> Open(x)
    BY <1>2 DEF Open
<1>6. RunHeld' /\ OpenHeld' /\ ChangedAlone'
    BY <1>2 DEF RunInv, RunLockInv, RunHeld, OpenHeld, ChangedAlone, Threat, HoldsRun, Acquired, Foremost, Running, IsOwn, dir,
           Open, PastLock
<1>7. TakesFromSleeper'
    <2>1. ASSUME NEW x \in Starts, NEW y \in Starts, x # y, run'[x].pc = "LOCK", dir(y)' = dir(x)', Open(y)',
                 call'[x].pc \in TokenSteps \cup {"MOVE"}
          PROVE  y \in asleep' /\ call'[x].read.owner = y
        <3>1. run[x].pc = "LOCK" /\ dir(y) = dir(x) /\ call'[x] = call[x] /\ Open(y)
            BY <1>2, <1>5, <2>1 DEF dir
        <3>2. y \in asleep /\ call[x].read.owner = y
            BY <2>1, <3>1 DEF RunInv, RunLockInv, TakesFromSleeper
        <3>3. y # p
            BY <1>2, <2>1, <3>1, <3>2 DEF TokenSteps
        <3> QED BY <1>2, <3>1, <3>2, <3>3
    <2> QED BY <2>1 DEF TakesFromSleeper
<1> QED BY <1>1, <1>3, <1>4, <1>6, <1>7 DEF RunInv, RunLockInv

(* A process that ends, or that is killed wherever it is, leaves the locks  *)
(* as they are.                                                             *)
LEMMA DeathKeeps ==
    ASSUME RunInv, NEW p \in Starts, NEW q \in Starts, Starts = {p, q}, p # q, Exit(p) \/ Crash(p)
    PROVE  RunInv'
<1>1. StartInv'
    BY FateKinds DEF RunInv
<1>2. /\ UNCHANGED <<file, reset, saved>> /\ p \notin dead /\ dead' = dead \cup {p} /\ asleep' = asleep \ {p}
      /\ run[p].pc # "NONE" /\ run'[p].pc \in {"REFUSED", "ENDED"} /\ run'[p].dir = run[p].dir
      /\ run'[p].session = "NONE" => run'[p].saves = 0 /\ run'[p].beat = "IDLE"
      /\ run'[p].session # "ACTIVE" /\ run'[p].save = "IDLE" /\ run'[p].beat = "IDLE"
      /\ run'[p].session # "NONE" => run[p].session # "NONE" /\ run'[p].pc = "ENDED"
      /\ \A d \in Runs : run'[p].seen[d].owner \in {Nobody, run[p].seen[d].owner}
      /\ call'[p].pc = "NONE" /\ call'[p].read.owner \in {Nobody, call[p].read.owner}
      /\ run'[q] = run[q] /\ call'[q] = call[q]
    <2>1. CASE Exit(p)
        <3>1. /\ UNCHANGED <<file, call, reset, asleep, run, saved>> /\ p \notin dead \cup asleep /\ dead' = dead \cup {p}
              /\ run[p].pc \in {"REFUSED", "ENDED"}
            BY <2>1 DEF Exit, Awake
        <3>2. asleep' = asleep \ {p}
            BY <3>1
        <3> QED BY <3>1, <3>2, Actors DEF PlaceOK
    <2>2. CASE Crash(p)
        <3>1. /\ UNCHANGED <<file, reset, saved>> /\ p \notin dead /\ dead' = dead \cup {p} /\ asleep' = asleep \ {p}
              /\ run[p].pc # "NONE" /\ call' = [call EXCEPT ![p] = NoCall]
            BY <2>2 DEF Crash
        <3>2. PICK ended, d : ended = "ENDED" /\ d = dir(p)
            OBVIOUS
        <3>3. PICK r : r = [NoRun EXCEPT !.pc = ended, !.dir = d]
            OBVIOUS
        <3>4. run' = [run EXCEPT ![p] = r]
            BY <2>2, <3>2, <3>3 DEF Crash
        <3>5. NoRun \in RunRecords /\ NoCall \in Calls /\ NoCall.pc = "NONE" /\ NoCall.read = NoLock
            BY EmptyKinds DEF NoCall
        <3>6. NoRun.session = "NONE" /\ NoRun.saves = 0 /\ NoRun.beat = "IDLE" /\ NoRun.save = "IDLE" /\ NoRun.seen = Unseen
            BY DEF NoRun
        <3>7. /\ r.pc = ended /\ r.dir = d /\ r.session = "NONE" /\ r.saves = 0 /\ r.beat = "IDLE" /\ r.save = "IDLE"
              /\ r.seen = Unseen
            BY <3>3, <3>5, <3>6 DEF RunRecords
        <3>8. \A e \in Runs : Unseen[e].owner = Nobody
            BY DEF Unseen, NoLock
        <3> QED BY <3>1, <3>2, <3>4, <3>5, <3>7, <3>8, Actors
    <2> QED BY <2>1, <2>2
<1>3. dir(p)' = dir(p) /\ dir(q)' = dir(q) /\ PlaceOK(p) /\ PlaceOK(q) /\ (q \in dead' <=> q \in dead) /\ p \in dead'
    BY <1>2, Actors DEF dir
<1>4. PlacesOK'
    <2>1. PlaceOK(p)'
        BY <1>2, <1>3 DEF PlaceOK, ResumeSteps
    <2>2. PlaceOK(q)'
        BY <1>2, <1>3 DEF PlaceOK, Lock, dir
    <2> QED BY <2>1, <2>2 DEF PlacesOK
<1>5. ClockInv'
    <2>1. \A x \in Starts : Waits(x)' => Waits(x)
        BY <1>2 DEF Waits
    <2>2. \A x \in Starts : run[x].pc = "NONE" =>
              /\ \A l \in Locks : file'[l].owner # x
              /\ \A y \in Starts : call'[y].read.owner # x
              /\ \A y \in Starts, d \in Runs : run'[y].seen[d].owner # x
        BY <1>2, Actors DEF RunInv, ClockInv, LaunchedOK
    <2> QED BY <1>2, <2>1, <2>2, ClockFrame DEF RunInv, PastSteps
<1>6. StartLockInv'
    <2>1. ~HoldsStart(p)' /\ (HoldsStart(q)' => HoldsStart(q))
        BY <1>2, <1>3 DEF HoldsStart, Acquired
    <2>2. Displaced(q) => Displaced(q)'
        BY <1>2, <1>3 DEF Displaced
    <2>3. StartHeld'
        BY <1>2, <2>1, <2>2 DEF RunInv, StartLockInv, StartHeld, Own
    <2>4. StartJudged'
        BY <1>2 DEF StartJudged, PastSteps
    <2> QED BY <2>3, <2>4 DEF StartLockInv
<1>7. SavedOK'
    BY <1>2, <1>3, SavedFrame DEF RunInv
<1>8. RunLockInv'
    <2>1. ~Threat(p)' /\ ~Open(p)' /\ ~Foremost(p)' /\ ~HoldsRun(p)' /\ PastLock(p)'
        BY <1>2, <1>3 DEF Threat, Open, Foremost, Running, HoldsRun, PastLock, PastSteps
    <2>2. /\ (HoldsRun(q)' => HoldsRun(q)) /\ (PastLock(q) => PastLock(q)')
          /\ (Threat(q)' => Threat(q)) /\ (Foremost(q)' => Foremost(q)) /\ (Open(q)' => Open(q))
        BY <1>2, <1>3 DEF HoldsRun, PastLock, Acquired, Threat, Foremost, Running, Open
    <2>3. \A x \in Starts : IsOwn(x, dir(x)) => IsOwn(x, dir(x))'
        BY <1>2, <1>3 DEF IsOwn
    <2> QED BY <1>2, <1>3, <2>1, <2>2, <2>3, RunLockFrame DEF RunInv
<1>9. FindInv'
    BY <1>2, <1>3, FindFrame DEF RunInv, Foremost, Running, KeepsFinds, ChosenSteps, ResumeSteps
<1>10. ResumesWhatWasSaved'
    <2>1. \A x \in Starts : Relies(x)' => Relies(x) /\ KeepsChoice(x)
        BY <1>2, <1>3 DEF Relies, Foremost, Running, KeepsChoice
    <2> QED BY <1>2, <2>1, ResumesFrame DEF RunInv
<1> QED BY <1>1, <1>4, <1>5, <1>6, <1>7, <1>8, <1>9, <1>10 DEF RunInv

-----------------------------------------------------------------------------
(* The four properties                                                      *)

(* At the start no process was launched, no session is there, and the only  *)
(* saved state is that of the Run left behind.                              *)
LEMMA RunInit ==
    ASSUME Init
    PROVE  RunInv
<1>1. StartInv
    BY InitKinds
<1>2. \A x \in Starts : /\ run[x] = NoRun /\ call[x] = NoCall /\ x \notin dead /\ x \notin asleep
    BY DEF Init
<1>3. /\ NoRun.pc = "NONE" /\ NoRun.dir = Old /\ NoRun.session = "NONE" /\ NoRun.saves = 0 /\ NoRun.beat = "IDLE"
      /\ NoRun.save = "IDLE" /\ NoRun.seen = Unseen
    BY DEF NoRun
<1>4. NoCall.pc = "NONE" /\ NoCall.read = NoLock /\ NoCall.attempt = 0
    BY DEF NoCall
<1>5. \A x \in Starts : dir(x) = Old /\ x # Old
    BY <1>2, <1>3, LockAssumption DEF dir
<1>6. PlacesOK
    BY <1>2, <1>3, <1>4 DEF PlacesOK, PlaceOK, ResumeSteps
<1>7. ClockInv
    <2>1. \A x \in Starts : x # Nobody /\ x # Old
        BY LockAssumption
    <2>2. \A x \in Starts, l \in Locks : file[l].owner # x
        BY <2>1 DEF Init, NoLock, Own
    <2>3. LaunchedOK
        BY <1>2, <1>3, <1>4, <2>1, <2>2 DEF LaunchedOK, Unseen, NoLock
    <2> QED BY <1>2, <1>3, <1>4, <2>3 DEF ClockInv, WaitsOK, Waits, ClockOK
<1>8. StartLockInv
    BY <1>2, <1>3, <1>4 DEF StartLockInv, StartHeld, HoldsStart, StartJudged, StartSteps, ChosenSteps, ResumeSteps
<1>9. SavedOK
    <2>1. \A x \in Starts : x \in Runs /\ saved[x] = NoDirectory
        BY LockAssumption DEF Init, Runs
    <2>2. saved[Old] = LeftBehind
        BY DEF Init, Runs
    <2>3. LeftBehind # NoDirectory
        BY DEF LeftBehind, NoDirectory
    <2> QED BY <1>2, <1>3, <1>5, <2>1, <2>2, <2>3 DEF SavedOK, Unsaved
<1>10. RunLockInv
    BY <1>2, <1>3, <1>4 DEF RunLockInv, RunHeld, OpenHeld, ChangedAlone, TakesFromSleeper, Threat, Open, HoldsRun, Foremost,
                            Running, ResumeSteps
<1>11. FindInv
    BY <1>2, <1>3 DEF FindInv, NoOtherRun, FindsOther, OneRunPerOutputDirectory, Foremost, Running
<1>12. ResumesWhatWasSaved
    BY <1>2, <1>3 DEF ResumesWhatWasSaved, Running
<1> QED BY <1>1, <1>6, <1>7, <1>8, <1>9, <1>10, <1>11, <1>12 DEF RunInv

(* Every step keeps the invariant, whichever of the two starts takes it.    *)
LEMMA RunSteps ==
    ASSUME TwoStarts, RunInv, Next
    PROVE  RunInv'
<1>1. PICK p \in Starts : StartStep(p) \/ SessionStep(p) \/ Sleep(p) \/ Wake(p) \/ Exit(p) \/ Crash(p)
    BY DEF Next
<1>2. PICK q \in Starts : p # q /\ Starts = {p, q}
    BY DEF TwoStarts
<1>3. CASE StartStep(p)
    BY <1>2, <1>3, CallKeeps, ChecksKeep, LaunchKeeps, FindKeeps, ChooseKeeps, MakeKeeps, LockedKeeps, SessionBegins, ReleaseKeeps
       DEF StartStep
<1>4. CASE SessionStep(p)
    BY <1>2, <1>4, SessionKeeps
<1>5. CASE Sleep(p)
    BY <1>2, <1>5, SleepKeeps
<1>6. CASE Wake(p)
    BY <1>2, <1>6, WakeKeeps
<1>7. CASE Exit(p) \/ Crash(p)
    BY <1>2, <1>7, DeathKeeps
<1> QED BY <1>1, <1>3, <1>4, <1>5, <1>6, <1>7

(* A step that changes nothing keeps it too.                                *)
LEMMA RunStutters ==
    ASSUME RunInv, UNCHANGED vars
    PROVE  RunInv'
<1>1. /\ file' = file /\ token' = token /\ call' = call /\ dead' = dead /\ reset' = reset /\ asleep' = asleep
      /\ run' = run /\ saved' = saved /\ deaths' = deaths
    BY DEF vars
<1>2. StartInv'
    BY <1>1 DEF RunInv, StartInv, RunTypeOK, LockTypeOK, CallsOK, SessionsOK
<1>3. PlacesOK'
    BY <1>1 DEF RunInv, PlacesOK, PlaceOK, dir, Lock
<1>4. ClockInv'
    BY <1>1 DEF RunInv, ClockInv, LaunchedOK, WaitsOK, Waits, ClockOK
<1>5. StartLockInv'
    BY <1>1 DEF RunInv, StartLockInv, StartHeld, HoldsStart, Displaced, Acquired, StartJudged
<1>6. SavedOK'
    BY <1>1 DEF RunInv, SavedOK, Unsaved, dir
<1>7. RunLockInv'
    BY <1>1 DEF RunInv, RunLockInv, RunHeld, OpenHeld, ChangedAlone, TakesFromSleeper, Threat, Open, HoldsRun, Acquired,
                Foremost, Running, PastLock, IsOwn, dir
<1>8. FindInv'
    BY <1>1 DEF RunInv, FindInv, NoOtherRun, FindsOther, OneRunPerOutputDirectory, Foremost, Running, dir
<1>9. ResumesWhatWasSaved'
    BY <1>1 DEF RunInv, ResumesWhatWasSaved, Running, dir
<1> QED BY <1>2, <1>3, <1>4, <1>5, <1>6, <1>7, <1>8, <1>9 DEF RunInv

(* Two starts keep the invariant for ever.                                  *)
LEMMA RunInvHolds ==
    ASSUME TwoStarts
    PROVE  Spec => []RunInv
<1>1. Init => RunInv
    BY RunInit
<1>2. RunInv /\ [Next]_vars => RunInv'
    BY RunSteps, RunStutters
<1> QED BY <1>1, <1>2, PTL DEF Spec

(* No two of two starts are about to write into the same Run, whatever      *)
(* became of their locks: who writes, or cleans up, has the run.lock.       *)
THEOREM OneWriterHolds ==
    ASSUME TwoStarts
    PROVE  Spec => []OneWriterPerRun
<1>1. RunInv => OneWriterPerRun
    <2> SUFFICES ASSUME RunInv, NEW p \in Starts, NEW q \in Starts, Writing(p), Writing(q), dir(p) = dir(q)
                 PROVE  p = q
        BY DEF OneWriterPerRun
    <2>1. \A x \in Starts : Writing(x) => IsOwn(x, dir(x))
        BY DEF RunInv, RunLockInv, RunHeld, Writing, Threat, HoldsRun, ResumeSteps
    <2> QED BY <2>1 DEF IsOwn
<1> QED BY <1>1, RunInvHolds, PTL

(* Of two starts in one output directory at most one has a Run that goes    *)
(* on, those apart that were held up for so long that they passed for dead. *)
THEOREM OneRunHolds ==
    ASSUME TwoStarts
    PROVE  Spec => []OneRunPerOutputDirectory
<1>1. RunInv => OneRunPerOutputDirectory
    BY DEF RunInv, FindInv
<1> QED BY <1>1, RunInvHolds, PTL

(* A resumed Run goes on from the state that its choice read, although the  *)
(* run.lock was taken minutes later: nothing was saved in between.          *)
THEOREM ResumesHolds ==
    ASSUME TwoStarts
    PROVE  Spec => []ResumesWhatWasSaved
<1>1. RunInv => ResumesWhatWasSaved
    BY DEF RunInv
<1> QED BY <1>1, RunInvHolds, PTL

(* A heartbeat, a finish, the refusal of a resumption and the release of    *)
(* the start lock replace or remove no lock of the other start, however     *)
(* long ago they read that it was their own.                                *)
THEOREM TouchesOwnHolds ==
    ASSUME TwoStarts
    PROVE  Spec => TouchesOnlyOwnLock
<1>1. RunInv /\ [Next]_vars => [\A p \in Starts : TouchesOwnLock(p)]_vars
    <2> SUFFICES ASSUME RunInv, NEW p \in Starts PROVE TouchesOwnLock(p)
        OBVIOUS
    <2>1. PICK q \in Starts : p # q /\ Starts = {p, q}
        BY DEF TwoStarts
    <2>2. BeatWrite(p) \/ Unlock(p) => IsOwn(p, dir(p))
        <3>1. Threat(p) => IsOwn(p, dir(p))
            BY DEF RunInv, RunLockInv, RunHeld
        <3> QED BY <2>1, <3>1, WriteShape
    <2>3. UnlockRefused(p) => IsOwn(p, dir(p))
        <3>1. UnlockRefused(p) => HoldsRun(p)
            BY DEF UnlockRefused, In, Awake, HoldsRun, ResumeSteps
        <3> QED BY <3>1 DEF RunInv, RunLockInv, RunHeld
    <2>4. ReleaseRemove(p) => file[StartLock] = Own(p) \/ file[StartLock] = NoLock
        <3>1. ReleaseRemove(p) => HoldsStart(p)
            BY DEF ReleaseRemove, In, Awake, HoldsStart, StartSteps
        <3> QED BY <3>1 DEF RunInv, StartLockInv, StartHeld, Displaced
    <2> QED BY <2>2, <2>3, <2>4 DEF TouchesOwnLock, IsOwn, Own, NoLock
<1> QED BY <1>1, RunInvHolds, PTL DEF Spec, TouchesOnlyOwnLock
=============================================================================
