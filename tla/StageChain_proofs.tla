------------------------- MODULE StageChain_proofs -------------------------
(***************************************************************************)
(* Proofs about StageChain: for a chain of either kind, whatever the Runs  *)
(* of its stages find, the two processes stay in step, the row of the      *)
(* stage the worker works on holds the slot for audits, no stage begins    *)
(* once a stop was accepted, and what the chain shows is what happened.    *)
(*                                                                         *)
(* None of this is inductive by itself.  ChainInv adds what a stage goes   *)
(* through in the server (LifeOK), which messages of the worker can follow *)
(* one another (LinkOK), where the worker is when an order for it is under *)
(* way (OrdersOK), whose the slot is (SlotOK), and how rows, results and   *)
(* the stages that are shown belong together (TruthOK).                    *)
(***************************************************************************)
EXTENDS StageChain, TLAPS, FiniteSetTheorems, SequenceTheorems

JobRecord == [stage : {0} \cup Stages, phase : {"NONE", "FORKED", "STARTED", "RUN", "DONE"}, startSent : BOOLEAN,
              stopRequested : BOOLEAN, ending : {"NONE", "FINISHED", "FAILED", "INTERRUPTED"}, ran : BOOLEAN,
              findings : SUBSET Reasons, sessionLost : BOOLEAN, result : {"NONE", "VALID", "INVALID"},
              rowRecorded : BOOLEAN, exitTimer : BOOLEAN, killTimer : BOOLEAN, ipc : {"OPEN", "DRAINING", "CLOSED"}]

ChainRecord == [state : {"NONE", "RUNNING", "FINISHED", "STOPPED"}, reason : {"NONE"} \cup Reasons,
                stages : [Stages -> {"PENDING", "RUNNING", "DONE", "NOT_STARTED", "NOT_NEEDED", "STOPPED"}],
                stopRequested : BOOLEAN]

WorkerRecord == [at : {"NONE", "BOOTING", "WAITING", "STAGE", "RUN", "AWAIT", "EXITING", "GONE"}, stage : {0} \cup Stages,
                 aborted : BOOLEAN, lostSession : BOOLEAN, signalled : BOOLEAN]

MessageRecord == [type : {"READY", "RUN_STARTED", "SESSION_LOST", "FINISHED", "FAILED"}, stage : {0} \cup Stages,
                  ran : BOOLEAN, findings : SUBSET Reasons]

WorkerMessages == {"START", "STOP", "FORCE", "NEXT_STAGE", "CHAIN_END", "DISCONNECT"}
RowStates == {"NONE", "FINISHED", "FAILED", "INTERRUPTED"} \cup ActiveStates

-----------------------------------------------------------------------------
(* The inductive invariant *)

(* The type invariant of StageChain, in named parts *)
Types ==
    /\ up \in BOOLEAN /\ closing \in BOOLEAN /\ changed \in BOOLEAN /\ other \in BOOLEAN
    /\ lock \in {"HELD", "TAKEN", "LOST", "STOPPED"}
    /\ todo \in {<<>>, <<"LAUNCH">>, <<"CREATE_NEXT">>, <<"END_ROW">>}
    /\ row \in [Stages -> RowStates]
    /\ recorded \in [Stages -> 0 .. 1]
    /\ job \in JobRecord
    /\ advance \in {"NONE", "READING", "LOOKING"}
    /\ chain \in ChainRecord
    /\ worker \in WorkerRecord
    /\ toParent \in Seq(MessageRecord)
    /\ toWorker \in Seq(WorkerMessages)

(* What the server remembers: with the server everything is gone; before    *)
(* the launch there is nothing; and while a worker lives, its job is there. *)
ServerLife ==
    /\ IsTracked \/ job = NoJob
    /\ ~up => job = NoJob /\ advance = "NONE" /\ chain = NoChain /\ toParent = <<>> /\ todo = <<>>
    /\ chain.state = "NONE" => chain = NoChain /\ job = NoJob /\ advance = "NONE"
    /\ up /\ chain.state = "NONE" =>
          /\ worker = NoWorker /\ toWorker = <<>> /\ toParent = <<>>
          /\ todo \in {<<>>, <<"LAUNCH">>}
          /\ \A k \in Stages : recorded[k] = 0
          /\ \A k \in Stages : row[k] # "NONE" => k = 1 /\ todo = <<"LAUNCH">>
    /\ todo = <<"LAUNCH">> => chain.state = "NONE"
    /\ todo \in {<<"CREATE_NEXT">>, <<"END_ROW">>} => IsTracked
    /\ up /\ IsAlive => StillAwaited

(* What a stage goes through in the server: a tracked job goes from FORKED  *)
(* to DONE and is let go of only behind the exit, and what waits, an        *)
(* advance or a transaction, belongs to a stage that has finished.          *)
StageLife ==
    /\ worker.at # "NONE"
    /\ job.ipc # "OPEN" => worker.at = "GONE"
    /\ job.ipc = "CLOSED" => job.phase = "DONE"
    /\ job.phase # "NONE"
    /\ job.phase = "DONE" <=> job.ending # "NONE"
    /\ job.phase = "FORKED" => job.stage = 1 /\ toWorker = <<>> /\ worker.at \in {"BOOTING", "WAITING", "EXITING", "GONE"}
    /\ job.ending # "FINISHED" => job.result = "NONE" /\ ~job.ran
    /\ job.ending = "NONE" => chain.state = "RUNNING" /\ ~job.rowRecorded /\ advance = "NONE"
    /\ job.rowRecorded => todo = <<"CREATE_NEXT">> \/ chain.state # "RUNNING"
    /\ StillAwaited /\ advance # "NONE" =>
          /\ job.ending = "FINISHED" /\ job.stage # LastStage /\ ~job.rowRecorded
          /\ chain.state = "RUNNING"
          /\ advance = "READING" => job.result = "NONE"
    /\ todo = <<"CREATE_NEXT">> =>
          /\ job.ending = "FINISHED" /\ job.stage # LastStage /\ job.rowRecorded /\ job.ipc = "OPEN"
          /\ job.ran /\ job.result = "VALID"
          /\ chain.state = "RUNNING" /\ ~chain.stopRequested /\ advance = "NONE"
    /\ todo = <<"END_ROW">> => job.ipc = "CLOSED" /\ (job.ending = "FINISHED" => job.result # "NONE")

LifeOK == ServerLife /\ (IsTracked => StageLife)

(* The phase the server is in once it has received a message *)
PhaseAfter(message) ==
    IF message.type = "READY" THEN "STARTED"
    ELSE IF message.type \in {"RUN_STARTED", "SESSION_LOST"} THEN "RUN"
    ELSE "DONE"

Fits(message, phase, stage) ==
    /\ message.type = "READY" => phase = "FORKED"
    /\ message.type = "RUN_STARTED" => phase = "STARTED" /\ message.stage = stage
    /\ message.type = "SESSION_LOST" => phase = "RUN" /\ message.stage = stage
    /\ message.type = "FINISHED" => phase = (IF message.ran THEN "RUN" ELSE "STARTED") /\ message.stage = stage

PhaseBefore(i) == IF i = 1 THEN job.phase ELSE PhaseAfter(toParent[i - 1])
PhaseAtLast == IF toParent = <<>> THEN job.phase ELSE PhaseAfter(toParent[Len(toParent)])

Linked == IsTracked /\ job.ending \in {"NONE", "FINISHED"}

(* Every message under way fits the phase the server will be in when it     *)
(* comes, and the last one leaves it where the worker is.                   *)
LinkOK ==
    /\ \A i \in DOMAIN toParent :
          /\ Linked => Fits(toParent[i], PhaseBefore(i), job.stage)
          /\ toParent[i].type = "FAILED" => worker.at \in {"EXITING", "GONE"} /\ i = Len(toParent)
    /\ Linked =>
          /\ worker.at = "BOOTING" => PhaseAtLast = "FORKED"
          /\ worker.at = "WAITING" => PhaseAtLast = "STARTED"
          /\ worker.at = "STAGE" => PhaseAtLast = "STARTED"
          /\ worker.at = "RUN" => PhaseAtLast = "RUN"
          /\ worker.at = "AWAIT" => PhaseAtLast = (IF worker.stage = job.stage THEN "DONE" ELSE "STARTED")

Orders == {"START", "NEXT_STAGE", "CHAIN_END"}
SlotHeldBy(k) == ~other /\ \A i \in Stages : row[i] \in ActiveStates <=> i = k

(* At most one order is under way, to a worker that waits for this one (or  *)
(* is about to end), and what it was given for still stands.                *)
OrdersOK ==
    /\ \A i, j \in DOMAIN toWorker : toWorker[i] \in Orders /\ toWorker[j] \in Orders => i = j
    /\ \A i \in DOMAIN toWorker :
          /\ toWorker[i] = "START" => worker.at \in {"WAITING", "EXITING", "GONE"}
          /\ toWorker[i] \in {"NEXT_STAGE", "CHAIN_END"} => worker.at \in {"AWAIT", "EXITING", "GONE"}
          /\ toWorker[i] = "NEXT_STAGE" /\ worker.at = "AWAIT" =>
                /\ worker.stage + 1 \in Stages
                /\ SlotHeldBy(worker.stage + 1)
                /\ up => /\ job.stage = worker.stage + 1 /\ job.ending # "FINISHED"
                         /\ job.ending = "NONE" => job.phase = "STARTED" /\ toParent = <<>>
          /\ toWorker[i] = "CHAIN_END" /\ worker.at = "AWAIT" /\ up =>
                job.stage = worker.stage /\ job.phase = "DONE" /\ advance = "NONE" /\ todo # <<"CREATE_NEXT">>

(* Whose the slot is: that of the stage the worker works on or is on its    *)
(* way to, and in the server that of the job, until its row was ended.      *)
SlotOK ==
    /\ worker.at \in {"BOOTING", "WAITING"} => SlotHeldBy(1) /\ (up => job.stage = 1)
    /\ worker.at \in {"STAGE", "RUN"} => worker.stage \in Stages /\ SlotHeldBy(worker.stage) /\ (up => job.stage = worker.stage)
    /\ worker.at = "AWAIT" =>
          /\ worker.stage \in Stages
          /\ up => \/ job.stage = worker.stage
                   \/ job.stage = worker.stage + 1 /\ \E i \in DOMAIN toWorker : toWorker[i] = "NEXT_STAGE"
    /\ todo = <<"LAUNCH">> => SlotHeldBy(1)
    /\ IsTracked /\ ~job.rowRecorded /\ (IsAlive \/ lock = "HELD") => SlotHeldBy(job.stage)

(* How the rows, the recorded results and the stages that are shown belong  *)
(* together                                                                 *)
TruthOK ==
    /\ \A k \in Stages : k < LastStage /\ row[k + 1] # "NONE" /\ ChainStages[k] # "AUDIT" => recorded[k] = 1
    /\ IsTracked =>
          /\ \A k \in Stages : k > job.stage => row[k] = "NONE" /\ recorded[k] = 0
          /\ job.result = "NONE" => recorded[job.stage] = 0
          /\ job.ran /\ job.result = "VALID" /\ ChainStages[job.stage] # "AUDIT" => recorded[job.stage] = 1
    /\ chain.state = "RUNNING" /\ IsTracked =>
          \A k \in Stages : chain.stages[k] = (IF k < job.stage THEN "DONE" ELSE IF k = job.stage THEN "RUNNING" ELSE "PENDING")
    /\ chain.state = "RUNNING" /\ ~IsTracked =>
          \A k \in Stages : chain.stages[k] # "DONE" /\ (k > 1 => row[k] = "NONE")
    /\ chain.state = "FINISHED" => ~chain.stopRequested /\ \A k \in Stages : chain.stages[k] \in {"DONE", "NOT_NEEDED"}
    /\ \A k \in Stages : chain.stages[k] \in {"NOT_NEEDED", "NOT_STARTED"} => row[k] = "NONE" /\ chain.state # "RUNNING"
    /\ lock = "HELD" =>
          /\ todo = <<"CREATE_NEXT">> => row[job.stage] = "FINISHED"
          /\ \A k \in Stages : chain.stages[k] = "DONE" =>
                \/ row[k] = "FINISHED" /\ (ChainStages[k] # "AUDIT" => recorded[k] = 1)
                \/ job.stage = k /\ job.ending = "FINISHED" /\ job.result = "VALID" /\ job.ran /\ ~job.rowRecorded

ChainInv == Types /\ LifeOK /\ LinkOK /\ OrdersOK /\ SlotOK /\ TruthOK

-----------------------------------------------------------------------------
(* The constants, and the records the server and the worker keep *)

(* A chain has two or three stages, and they are numbered from 1. *)
LEMMA ChainStagesAre ==
    /\ LastStage \in 2 .. 3
    /\ Stages = 1 .. LastStage
    /\ 1 \in Stages /\ LastStage \in Stages
    /\ \A k \in Stages : k \in Nat /\ (k # LastStage => k + 1 \in Stages)
    /\ Findings \subseteq SUBSET Reasons
<1>1. ChainStages = <<"AUDIT", "DISCOVERY", "READ_CHECK">> \/ ChainStages = <<"DISCOVERY", "READ_CHECK">>
    BY ChainAssumption DEF StageSequences
<1>2. LastStage \in 2 .. 3 /\ Stages = 1 .. LastStage
    <2>1. CASE ChainStages = <<"AUDIT", "DISCOVERY", "READ_CHECK">>
        BY <2>1 DEF LastStage, Stages
    <2>2. CASE ChainStages = <<"DISCOVERY", "READ_CHECK">>
        BY <2>2 DEF LastStage, Stages
    <2> QED BY <1>1, <2>1, <2>2
<1> QED BY <1>2, ChainAssumption

(* The reasons that are told are among the known ones, and there is a       *)
(* reason to tell exactly if something was found (FirstReason).             *)
LEMMA FirstReasonIsFound ==
    ASSUME NEW found \in SUBSET Reasons
    PROVE  /\ FirstReason(found) \in {"NONE"} \cup Reasons
           /\ FirstReason(found) = "NONE" <=> found = {}
<1> DEFINE First(i) == StopReasons[i] \in found /\ \A before \in 1 .. i - 1 : StopReasons[before] \notin found
<1>1. DOMAIN StopReasons = 1 .. 8 /\ "NONE" \notin Reasons
    BY DEF StopReasons, Reasons
<1>2. CASE found = {}
    BY <1>2 DEF FirstReason
<1>3. CASE found # {}
    <2>1. PICK n \in 1 .. 8 : StopReasons[n] \in found
        BY <1>1, <1>3 DEF Reasons
    <2>2. \E i \in 1 .. 8 : First(i)
        <3> DEFINE None(m) == \A before \in 1 .. m : StopReasons[before] \notin found
        <3>1. None(0) /\ ~None(8)
            BY <2>1
        <3>2. ASSUME NEW m \in 1 .. 8, None(m - 1), ~None(m)
              PROVE  First(m)
            <4>1. StopReasons[m] \in found
                <5> SUFFICES ASSUME StopReasons[m] \notin found PROVE None(m)
                    BY <3>2
                <5> TAKE before \in 1 .. m
                <5>1. before = m \/ before \in 1 .. m - 1
                    OBVIOUS
                <5> QED BY <5>1, <3>2
            <4> QED BY <4>1, <3>2
        <3>3. \A m \in 1 .. 8 : None(m - 1) /\ ~None(m) => First(m)
            BY <3>2
        <3> HIDE DEF None, First
        <3>4. \/ None(0) /\ ~None(1)
              \/ None(1) /\ ~None(2)
              \/ None(2) /\ ~None(3)
              \/ None(3) /\ ~None(4)
              \/ None(4) /\ ~None(5)
              \/ None(5) /\ ~None(6)
              \/ None(6) /\ ~None(7)
              \/ None(7) /\ ~None(8)
            BY <3>1
        <3>5. PICK m \in 1 .. 8 : None(m - 1) /\ ~None(m)
            BY <3>4, 1 - 1 = 0, 2 - 1 = 1, 3 - 1 = 2, 4 - 1 = 3, 5 - 1 = 4, 6 - 1 = 5, 7 - 1 = 6, 8 - 1 = 7
        <3> QED BY <3>3, <3>5
    <2>3. FirstReason(found) = StopReasons[CHOOSE i \in DOMAIN StopReasons : First(i)]
        BY <1>3 DEF FirstReason
    <2>4. (CHOOSE i \in DOMAIN StopReasons : First(i)) \in 1 .. 8
        BY <1>1, <2>2
    <2>5. FirstReason(found) \in Reasons
        BY <1>1, <2>3, <2>4 DEF Reasons
    <2> QED BY <1>1, <1>3, <2>5
<1> QED BY <1>2, <1>3

(* The records the model starts from are of their types. *)
LEMMA StartRecords ==
    /\ NoJob \in JobRecord /\ NoJob.stage = 0
    /\ NoChain \in ChainRecord /\ NoChain.state = "NONE" /\ NoChain.stopRequested = FALSE
    /\ \A k \in Stages : NoChain.stages[k] = "PENDING"
    /\ NoWorker \in WorkerRecord /\ NoWorker.at = "NONE" /\ NoWorker.stage = 0
<1> PICK no \in BOOLEAN : no = FALSE
    OBVIOUS
<1>1. NoJob = [stage |-> 0, phase |-> "NONE", startSent |-> no, stopRequested |-> no, ending |-> "NONE", ran |-> no,
               findings |-> {}, sessionLost |-> no, result |-> "NONE", rowRecorded |-> no, exitTimer |-> no,
               killTimer |-> no, ipc |-> "OPEN"]
    BY DEF NoJob
<1>2. NoJob \in JobRecord
    BY <1>1 DEF JobRecord
<1>3. NoJob.stage = 0
    BY DEF NoJob
<1>4. NoChain = [state |-> "NONE", reason |-> "NONE", stages |-> [k \in Stages |-> "PENDING"], stopRequested |-> no]
    BY DEF NoChain
<1>5. NoChain \in ChainRecord
    BY <1>4 DEF ChainRecord
<1>6. NoChain.state = "NONE" /\ NoChain.stages = [k \in Stages |-> "PENDING"]
    BY DEF NoChain
<1>7. NoChain.stopRequested = FALSE
    BY Zenon DEF NoChain
<1>8. NoWorker = [at |-> "NONE", stage |-> 0, aborted |-> no, lostSession |-> no, signalled |-> no]
    BY DEF NoWorker
<1>9. NoWorker \in WorkerRecord
    BY <1>8 DEF WorkerRecord
<1>10. NoWorker.at = "NONE" /\ NoWorker.stage = 0
    BY DEF NoWorker
<1> QED BY <1>2, <1>3, <1>5, <1>6, <1>7, <1>9, <1>10

(* The job of the first stage, just launched, and that of the next stage of *)
(* a worker that was launched long ago                                      *)
LEMMA NewJobs ==
    ASSUME NEW k \in Stages
    PROVE  /\ LET j == JobOfStage(k, "FORKED")
              IN  /\ j \in JobRecord /\ j.stage = k /\ j.phase = "FORKED" /\ j.ending = "NONE" /\ ~j.ran
                  /\ j.result = "NONE" /\ ~j.rowRecorded /\ j.ipc = "OPEN"
           /\ k # LastStage =>
                 LET j == JobOfNextStage(k)
                 IN  /\ j \in JobRecord /\ j.stage = k + 1 /\ j.phase = "STARTED" /\ j.ending = "NONE" /\ ~j.ran
                     /\ j.result = "NONE" /\ ~j.rowRecorded /\ j.ipc = "OPEN"
<1> PICK no \in BOOLEAN : no = FALSE
    OBVIOUS
<1> PICK yes \in BOOLEAN : yes = TRUE
    OBVIOUS
<1> DEFINE Made(s, p, sent) == [stage |-> s, phase |-> p, startSent |-> sent, stopRequested |-> no, ending |-> "NONE",
               ran |-> no, findings |-> {}, sessionLost |-> no, result |-> "NONE", rowRecorded |-> no, exitTimer |-> no,
               killTimer |-> no, ipc |-> "OPEN"]
<1>0. NoJob = Made(0, "NONE", no)
    BY DEF NoJob
<1>1. JobOfStage(k, "FORKED") = Made(k, "FORKED", no)
    <2>1. JobOfStage(k, "FORKED") = [Made(0, "NONE", no) EXCEPT !.stage = k, !.phase = "FORKED"]
        BY <1>0, Zenon DEF JobOfStage
    <2> QED BY <2>1
<1>2. JobOfNextStage(k) = Made(k + 1, "STARTED", yes)
    <2>1. JobOfStage(k + 1, "STARTED") = [Made(0, "NONE", no) EXCEPT !.stage = k + 1, !.phase = "STARTED"]
        BY <1>0, Zenon DEF JobOfStage
    <2>2. JobOfStage(k + 1, "STARTED") = Made(k + 1, "STARTED", no)
        BY <2>1
    <2>3. JobOfNextStage(k) = [Made(k + 1, "STARTED", no) EXCEPT !.startSent = yes]
        BY <2>2, Zenon DEF JobOfNextStage
    <2> QED BY <2>3
<1>3. ASSUME NEW s \in Stages, NEW p \in {"FORKED", "STARTED"}, NEW sent \in BOOLEAN
      PROVE  /\ Made(s, p, sent) \in JobRecord /\ Made(s, p, sent).stage = s /\ Made(s, p, sent).phase = p
             /\ Made(s, p, sent).ending = "NONE" /\ ~Made(s, p, sent).ran /\ Made(s, p, sent).result = "NONE"
             /\ ~Made(s, p, sent).rowRecorded /\ Made(s, p, sent).ipc = "OPEN"
    <2>1. Made(s, p, sent) \in JobRecord
        BY DEF JobRecord
    <2>2. Made(s, p, sent).stage = s /\ Made(s, p, sent).phase = p
        OBVIOUS
    <2>3. Made(s, p, sent).ending = "NONE" /\ Made(s, p, sent).result = "NONE" /\ Made(s, p, sent).ipc = "OPEN"
        OBVIOUS
    <2>4. Made(s, p, sent).ran = no /\ Made(s, p, sent).rowRecorded = no
        OBVIOUS
    <2> QED BY <2>1, <2>2, <2>3, <2>4
<1> HIDE DEF Made
<1>4. k # LastStage => k + 1 \in Stages
    BY ChainStagesAre
<1>5. LET j == JobOfStage(k, "FORKED")
      IN  /\ j \in JobRecord /\ j.stage = k /\ j.phase = "FORKED" /\ j.ending = "NONE" /\ ~j.ran
          /\ j.result = "NONE" /\ ~j.rowRecorded /\ j.ipc = "OPEN"
    <2> DEFINE m == Made(k, "FORKED", no)
    <2>1. /\ m \in JobRecord /\ m.stage = k /\ m.phase = "FORKED" /\ m.ending = "NONE" /\ ~m.ran
          /\ m.result = "NONE" /\ ~m.rowRecorded /\ m.ipc = "OPEN"
        BY <1>3
    <2> QED BY <1>1, <2>1, Zenon
<1>6. ASSUME k # LastStage
      PROVE  LET j == JobOfNextStage(k)
             IN  /\ j \in JobRecord /\ j.stage = k + 1 /\ j.phase = "STARTED" /\ j.ending = "NONE" /\ ~j.ran
                 /\ j.result = "NONE" /\ ~j.rowRecorded /\ j.ipc = "OPEN"
    <2> DEFINE m == Made(k + 1, "STARTED", yes)
    <2>1. /\ m \in JobRecord /\ m.stage = k + 1 /\ m.phase = "STARTED" /\ m.ending = "NONE" /\ ~m.ran
          /\ m.result = "NONE" /\ ~m.rowRecorded /\ m.ipc = "OPEN"
        BY <1>3, <1>4, <1>6
    <2> QED BY <1>2, <2>1, Zenon
<1> QED BY <1>5, <1>6

(* recordStopping, recordEnded and their like leave other rows and rows     *)
(* that are not active alone (RowTo).                                       *)
LEMMA RowToTouchesOne ==
    ASSUME NEW k, NEW state \in RowStates \ {"NONE"}, row \in [Stages -> RowStates]
    PROVE  /\ RowTo(k, state) \in [Stages -> RowStates]
           /\ \A i \in Stages : RowTo(k, state)[i] = (IF i = k /\ row[i] \in ActiveStates THEN state ELSE row[i])
           /\ \A i \in Stages : RowTo(k, state)[i] = "NONE" <=> row[i] = "NONE"
BY DEF RowTo, RowStates, ActiveStates

(* #settle: a job that has no ending gets this one; nothing else that       *)
(* matters is touched.                                                      *)
LEMMA SettledFields ==
    ASSUME NEW j \in JobRecord, NEW ending \in {"FINISHED", "FAILED", "INTERRUPTED"}
    PROVE  LET d == Settled(j, ending)
           IN  /\ d \in JobRecord /\ d.stage = j.stage /\ d.ran = j.ran /\ d.result = j.result
               /\ d.rowRecorded = j.rowRecorded /\ d.ipc = j.ipc
               /\ d.ending = (IF j.ending = "NONE" THEN ending ELSE j.ending)
               /\ d.phase = (IF j.ending = "NONE" THEN "DONE" ELSE j.phase)
<1>1. CASE j.ending # "NONE"
    BY <1>1 DEF Settled
<1>2. CASE j.ending = "NONE"
    <2> PICK no \in BOOLEAN : no = FALSE
        OBVIOUS
    <2>1. Settled(j, ending) = [j EXCEPT !.ending = ending, !.phase = "DONE", !.killTimer = no]
        BY <1>2 DEF Settled
    <2> QED BY <1>2, <2>1 DEF JobRecord
<1> QED BY <1>1, <1>2

(* #closeChain: a chain that runs is finished or stopped; the stage that    *)
(* runs is done or stopped with it, and those ahead will not be.            *)
LEMMA ClosedFields ==
    ASSUME NEW c \in ChainRecord, NEW reason \in {"NONE"} \cup Reasons, NEW pending \in {"NOT_STARTED", "NOT_NEEDED"}
    PROVE  LET d == Closed(c, reason, pending)
           IN  /\ d \in ChainRecord /\ d.state # "RUNNING" /\ d.stopRequested = c.stopRequested
               /\ c.state # "RUNNING" => d = c
               /\ c.state = "RUNNING" =>
                     /\ d.state = IF reason = "NONE" THEN "FINISHED" ELSE "STOPPED"
                     /\ \A k \in Stages : d.stages[k] = (IF c.stages[k] = "RUNNING" THEN IF reason = "NONE" THEN "DONE" ELSE "STOPPED"
                                                         ELSE IF c.stages[k] = "PENDING" THEN pending
                                                         ELSE c.stages[k])
<1>1. CASE c.state # "RUNNING"
    BY <1>1 DEF Closed
<1>2. CASE c.state = "RUNNING"
    <2> DEFINE s == IF reason = "NONE" THEN "FINISHED" ELSE "STOPPED"
               t == IF reason = "NONE" THEN "DONE" ELSE "STOPPED"
               shown == [k \in Stages |-> IF c.stages[k] = "RUNNING" THEN t
                                          ELSE IF c.stages[k] = "PENDING" THEN pending ELSE c.stages[k]]
               d == Closed(c, reason, pending)
    <2>1. DOMAIN c.stages = Stages
        BY DEF ChainRecord
    <2>2. d = [c EXCEPT !.state = s, !.reason = reason, !.stages = [k \in Stages |-> CASE c.stages[k] = "RUNNING" -> t
                                           [] c.stages[k] = "PENDING" -> pending
                                           [] OTHER -> c.stages[k]]]
        BY <1>2 DEF Closed
    <2>3. [k \in Stages |-> CASE c.stages[k] = "RUNNING" -> t [] c.stages[k] = "PENDING" -> pending [] OTHER -> c.stages[k]] = shown
        OBVIOUS
    <2>4. d = [c EXCEPT !.state = s, !.reason = reason, !.stages = shown]
        BY <2>2, <2>3
    <2>5. shown \in [Stages -> {"PENDING", "RUNNING", "DONE", "NOT_STARTED", "NOT_NEEDED", "STOPPED"}]
        BY DEF ChainRecord
    <2>6. d \in ChainRecord
        <3> HIDE DEF shown, d
        <3>1. s \in {"FINISHED", "STOPPED"}
            OBVIOUS
        <3> HIDE DEF s
        <3> QED BY <2>4, <2>5, <3>1 DEF ChainRecord
    <2>7. d.state = s /\ d.stages = shown /\ d.stopRequested = c.stopRequested
        <3> HIDE DEF shown, d, s
        <3> QED BY <2>4 DEF ChainRecord
    <2> QED BY <1>2, <2>6, <2>7, Zenon
<1> QED BY <1>1, <1>2

(* #send puts one message at the end, or none (Sent). *)
LEMMA SentAppends ==
    ASSUME toWorker \in Seq(WorkerMessages), NEW m \in WorkerMessages
    PROVE  /\ Sent(<<m>>) \in Seq(WorkerMessages)
           /\ \/ IsAlive /\ worker.at # "EXITING" /\ ~ExitSeen /\ Sent(<<m>>) = Append(toWorker, m)
              \/ ~(IsAlive /\ worker.at # "EXITING" /\ ~ExitSeen) /\ Sent(<<m>>) = toWorker
<1>1. toWorker \o <<m>> = Append(toWorker, m)
    OBVIOUS
<1>2. Append(toWorker, m) \in Seq(WorkerMessages)
    OBVIOUS
<1> QED BY <1>1, <1>2 DEF Sent

-----------------------------------------------------------------------------
(* Types *)

(* The types here are those of the type invariant of StageChain. *)
LEMMA TypesAreChainTypeOK == Types => ChainTypeOK
BY DEF Types, ChainTypeOK, RowStates, JobRecord, ChainRecord, WorkerRecord, MessageRecord, WorkerMessages

(* The types hold in the initial state.                                     *)
LEMMA TypesAtStart == ChainInit => Types
<1> SUFFICES ASSUME ChainInit PROVE Types
    OBVIOUS
<1>1. job \in JobRecord /\ chain \in ChainRecord /\ worker \in WorkerRecord
    BY StartRecords DEF ChainInit
<1>2. row \in [Stages -> RowStates] /\ recorded \in [Stages -> 0 .. 1]
    BY DEF ChainInit, RowStates
<1>3. toParent \in Seq(MessageRecord) /\ toWorker \in Seq(WorkerMessages)
    BY DEF ChainInit
<1> QED BY <1>1, <1>2, <1>3 DEF ChainInit, Types

(* What the messages of the worker and the steps of the worker are made of  *)
LEMMA WorkerMessagesAreMessages ==
    ASSUME Types, NEW type \in {"READY", "RUN_STARTED", "SESSION_LOST", "FAILED"}
    PROVE  /\ Message(type) \in MessageRecord /\ Message(type).type = type /\ Message(type).stage = worker.stage
           /\ \A ran \in BOOLEAN, found \in SUBSET Reasons :
                 LET m == [Message("FINISHED") EXCEPT !.ran = ran, !.findings = found]
                 IN  m \in MessageRecord /\ m.type = "FINISHED" /\ m.stage = worker.stage /\ m.ran = ran
           /\ \A m \in MessageRecord : Transmitted(m) \in Seq(MessageRecord)
<1> PICK no \in BOOLEAN : no = FALSE
    OBVIOUS
<1>1. worker.stage \in {0} \cup Stages
    BY DEF Types, WorkerRecord
<1>2. \A t \in {"READY", "RUN_STARTED", "SESSION_LOST", "FAILED", "FINISHED"} :
         Message(t) = [type |-> t, stage |-> worker.stage, ran |-> no, findings |-> {}]
    BY DEF Message
<1>3. \A t \in {"READY", "RUN_STARTED", "SESSION_LOST", "FAILED", "FINISHED"} :
         Message(t) \in MessageRecord /\ Message(t).type = t /\ Message(t).stage = worker.stage
    BY <1>1, <1>2 DEF MessageRecord
<1>4. ASSUME NEW ran \in BOOLEAN, NEW found \in SUBSET Reasons
      PROVE  LET m == [Message("FINISHED") EXCEPT !.ran = ran, !.findings = found]
             IN  m \in MessageRecord /\ m.type = "FINISHED" /\ m.stage = worker.stage /\ m.ran = ran
    BY <1>3 DEF MessageRecord
<1>5. \A m \in MessageRecord : Transmitted(m) \in Seq(MessageRecord)
    BY DEF Transmitted, Types
<1> QED BY <1>3, <1>4, <1>5

(* What a received message is: the head of the queue, and the rest stays. *)
LEMMA ReceivesHead ==
    ASSUME Types, NEW types, Receives(types)
    PROVE  /\ toParent # <<>> /\ Head(toParent) \in MessageRecord /\ Head(toParent) = toParent[1]
           /\ Head(toParent).type \in types
           /\ toParent' = Tail(toParent) /\ toParent' \in Seq(MessageRecord)
           /\ Len(toParent') = Len(toParent) - 1 /\ Len(toParent) \in Nat \ {0}
           /\ \A i \in DOMAIN toParent' : i + 1 \in DOMAIN toParent /\ toParent'[i] = toParent[i + 1]
           /\ UNCHANGED <<up, closing, lock, todo, changed, other, recorded>>
           /\ up /\ todo = <<>> /\ IsTracked
<1>1. toParent \in Seq(MessageRecord) /\ toParent # <<>>
    BY DEF Types, Receives
<1>2. toParent' = Tail(toParent) /\ Head(toParent).type \in types
    BY DEF Receives
<1>3. /\ Head(toParent) \in MessageRecord /\ Head(toParent) = toParent[1]
      /\ Tail(toParent) \in Seq(MessageRecord) /\ Len(Tail(toParent)) = Len(toParent) - 1 /\ Len(toParent) \in Nat \ {0}
    BY <1>1
<1>4. \A i \in DOMAIN Tail(toParent) : i + 1 \in DOMAIN toParent /\ Tail(toParent)[i] = toParent[i + 1]
    BY <1>1
<1> QED BY <1>1, <1>2, <1>3, <1>4 DEF Receives, Idle

(* RequestStop and what StopWorkersAfterLockLost does alike *)
LEMMA StopTypes ==
    ASSUME Types, NEW kill \in BOOLEAN, NEW m \in WorkerMessages
    PROVE  /\ [job EXCEPT !.stopRequested = TRUE, !.killTimer = kill] \in JobRecord
           /\ [chain EXCEPT !.stopRequested = TRUE] \in ChainRecord
           /\ RowTo(job.stage, "STOPPING") \in [Stages -> RowStates]
           /\ (IF job.phase = "FORKED" THEN toWorker ELSE Sent(<<m>>)) \in Seq(WorkerMessages)
<1> PICK yes \in BOOLEAN : yes = TRUE
    OBVIOUS
<1>1. /\ [job EXCEPT !.stopRequested = TRUE, !.killTimer = kill] = [job EXCEPT !.stopRequested = yes, !.killTimer = kill]
      /\ [chain EXCEPT !.stopRequested = TRUE] = [chain EXCEPT !.stopRequested = yes]
    BY Zenon
<1>2. [job EXCEPT !.stopRequested = yes, !.killTimer = kill] \in JobRecord
    BY DEF Types, JobRecord
<1>3. [chain EXCEPT !.stopRequested = yes] \in ChainRecord
    BY DEF Types, ChainRecord
<1>4. RowTo(job.stage, "STOPPING") \in [Stages -> RowStates]
    BY RowToTouchesOne DEF Types, RowStates, ActiveStates
<1>5. toWorker \in Seq(WorkerMessages) /\ Sent(<<m>>) \in Seq(WorkerMessages)
    BY SentAppends DEF Types
<1> QED BY <1>1, <1>2, <1>3, <1>4, <1>5

(* #stopChainAt writes a job, a chain and messages of their types.          *)
LEMMA StopChainAtTypes ==
    ASSUME Types, NEW j \in JobRecord, NEW reason \in Reasons, StopChainAt(j, reason)
    PROVE  job' \in JobRecord /\ chain' \in ChainRecord /\ toWorker' \in Seq(WorkerMessages)
<1> PICK yes \in BOOLEAN : yes = TRUE
    OBVIOUS
<1>1. job' = [j EXCEPT !.exitTimer = yes]
    BY Zenon DEF StopChainAt
<1>2. job' \in JobRecord
    BY <1>1 DEF JobRecord
<1>3. chain' \in ChainRecord
    BY ClosedFields DEF StopChainAt, Types
<1>4. toWorker' \in Seq(WorkerMessages)
    BY SentAppends DEF StopChainAt, Types, WorkerMessages
<1> QED BY <1>2, <1>3, <1>4

(* What is recorded stays within 0 .. 1 when the result was not known yet.  *)
LEMMA RecordTypes ==
    ASSUME Types, TruthOK, IsTracked, job.result = "NONE", NEW verdict \in {"VALID", "INVALID"}, RecordResult(verdict)
    PROVE  /\ recorded' \in [Stages -> 0 .. 1]
           /\ \A k \in Stages : recorded'[k] = (IF k = job.stage /\ HasResult /\ verdict = "VALID" THEN 1 ELSE recorded[k])
<1>1. job.stage \in Stages /\ recorded[job.stage] = 0
    BY DEF Types, JobRecord, TruthOK, IsTracked
<1>2. CASE HasResult /\ verdict = "VALID"
    <2>1. recorded' = [recorded EXCEPT ![job.stage] = recorded[job.stage] + 1]
        BY <1>2 DEF RecordResult
    <2> QED BY <1>1, <1>2, <2>1 DEF Types
<1>3. CASE ~(HasResult /\ verdict = "VALID")
    BY <1>3 DEF RecordResult, Types
<1> QED BY <1>2, <1>3

(* The calls of users and the steps of other processes keep the types.      *)
LEMMA UsersKeepTypes == ASSUME Types, LifeOK, Users \/ Outside PROVE Types'
<1>1. CASE StartStageChain
    <2>1. row' \in [Stages -> RowStates]
        BY <1>1 DEF StartStageChain, Types, RowStates, ActiveStates
    <2> QED BY <1>1, <2>1 DEF StartStageChain, Types
<1>2. ASSUME NEW force \in BOOLEAN, StopChain(force) PROVE Types'
    <2>1. UNCHANGED <<up, closing, lock, todo, changed, other, recorded, advance, toParent, worker>>
        BY <1>2 DEF StopChain
    <2>2. CASE IsUndecided
        <3>1. RequestStop(force)
            BY <1>2, <2>2 DEF StopChain
        <3> DEFINE m == IF force THEN "FORCE" ELSE "STOP"
        <3>2. m \in WorkerMessages /\ (job.killTimer \/ force) \in BOOLEAN
            BY DEF WorkerMessages, Types, JobRecord
        <3> HIDE DEF m
        <3>3. PICK kill \in BOOLEAN : kill = (job.killTimer \/ force)
            BY <3>2
        <3>4. job' = [job EXCEPT !.stopRequested = TRUE, !.killTimer = kill]
            BY <3>1, <3>3, Zenon DEF RequestStop
        <3>5. /\ chain' = [chain EXCEPT !.stopRequested = TRUE]
              /\ row' = RowTo(job.stage, "STOPPING")
              /\ toWorker' = IF job.phase = "FORKED" THEN toWorker ELSE Sent(<<m>>)
            BY <3>1, Zenon DEF RequestStop, m
        <3> QED BY <2>1, <3>2, <3>4, <3>5, StopTypes DEF Types
    <2>3. CASE ~IsUndecided
        <3>1. chain' = [chain EXCEPT !.stopRequested = TRUE] /\ UNCHANGED <<job, toWorker>>
            BY <1>2, <2>3 DEF StopChain
        <3>2. row' = RowTo(job.stage, "STOPPING") \/ row' = row
            BY <1>2, <2>3 DEF StopChain
        <3>3. chain' \in ChainRecord /\ row' \in [Stages -> RowStates]
            BY <3>1, <3>2, StopTypes DEF WorkerMessages, Types
        <3> QED BY <2>1, <3>1, <3>3 DEF Types
    <2> QED BY <2>2, <2>3
<1>3. CASE Shutdown
    <2>1. UNCHANGED <<up, lock, todo, changed, other, recorded, advance, toParent, worker>> /\ closing' \in BOOLEAN
        BY <1>3 DEF Shutdown
    <2>2. CASE IsUndecided
        <3>1. RequestStop(FALSE)
            BY <1>3, <2>2 DEF Shutdown
        <3>2. "STOP" \in WorkerMessages /\ (job.killTimer \/ FALSE) \in BOOLEAN
            BY DEF WorkerMessages, Types, JobRecord
        <3>3. PICK kill \in BOOLEAN : kill = (job.killTimer \/ FALSE)
            BY <3>2
        <3>4. job' = [job EXCEPT !.stopRequested = TRUE, !.killTimer = kill]
            BY <3>1, <3>3, Zenon DEF RequestStop
        <3>5. /\ chain' = [chain EXCEPT !.stopRequested = TRUE]
              /\ row' = RowTo(job.stage, "STOPPING")
              /\ toWorker' = IF job.phase = "FORKED" THEN toWorker ELSE Sent(<<"STOP">>)
            BY <3>1, Zenon DEF RequestStop
        <3> QED BY <2>1, <3>2, <3>4, <3>5, StopTypes DEF Types
    <2>3. CASE ~IsUndecided
        BY <1>3, <2>1, <2>3 DEF Shutdown, Types
    <2> QED BY <2>2, <2>3
<1>4. CASE ReviseProfile
    BY <1>4 DEF ReviseProfile, Types
<1>5. CASE StartOtherJob
    BY <1>5 DEF StartOtherJob, Types
<1>6. CASE OtherJobEnds
    BY <1>6 DEF OtherJobEnds, Types
<1>7. CASE TakeLockOver
    BY <1>7 DEF TakeLockOver, Types
<1>8. CASE OtherServerInterrupts
    <2>1. row' \in [Stages -> RowStates]
        BY <1>8 DEF OtherServerInterrupts, Types, RowStates, ActiveStates
    <2> QED BY <1>8, <2>1 DEF OtherServerInterrupts, Types
<1>9. CASE ServerDies
    <2>1. toWorker' \in Seq(WorkerMessages)
        BY <1>9 DEF ServerDies, Types, WorkerMessages
    <2>2. toParent' \in Seq(MessageRecord)
        BY <1>9 DEF ServerDies
    <2>3. job' \in JobRecord /\ chain' \in ChainRecord
        BY <1>9, StartRecords DEF ServerDies
    <2> QED BY <1>9, <2>1, <2>2, <2>3 DEF ServerDies, Types
<1> QED BY <1>1, <1>2, <1>3, <1>4, <1>5, <1>6, <1>7, <1>8, <1>9 DEF Users, Outside

(* The steps of the worker keep the types: it moves its own record and reports. *)
LEMMA WorkerKeepsTypes == ASSUME Types, LifeOK, SlotOK, OrdersOK, Worker PROVE Types'
<1>1. /\ UNCHANGED <<up, closing, lock, todo, changed, row, other, recorded, job, advance, chain>>
      /\ toParent' \in Seq(MessageRecord) /\ toWorker' \in Seq(WorkerMessages)
    <2>1. CASE WorkerBoots \/ StartRun \/ LoseSession \/ FailWorker
        <3>1. PICK type \in {"READY", "RUN_STARTED", "SESSION_LOST", "FAILED"} : toParent' = Transmitted(Message(type))
            BY <2>1 DEF WorkerBoots, StartRun, LoseSession, FailWorker
        <3>2. toParent' \in Seq(MessageRecord)
            BY <3>1, WorkerMessagesAreMessages
        <3>3. Works /\ UNCHANGED toWorker
            BY <2>1 DEF WorkerBoots, StartRun, LoseSession, FailWorker
        <3> QED BY <3>2, <3>3 DEF Works, serverVars, Types
    <2>2. ASSUME NEW found \in Findings, FinishStage(found)
          PROVE  /\ UNCHANGED <<up, closing, lock, todo, changed, row, other, recorded, job, advance, chain>>
                 /\ toParent' \in Seq(MessageRecord) /\ toWorker' \in Seq(WorkerMessages)
        <3>1. found \in SUBSET Reasons
            BY ChainStagesAre
        <3>2. PICK ran \in BOOLEAN : ran = (worker.at = "RUN")
            OBVIOUS
        <3>3. toParent' = Transmitted([Message("FINISHED") EXCEPT !.ran = ran, !.findings = found])
            BY <2>2, <3>2, Zenon DEF FinishStage
        <3>4. toParent' \in Seq(MessageRecord)
            BY <3>1, <3>3, WorkerMessagesAreMessages
        <3> QED BY <2>2, <3>4 DEF FinishStage, Works, serverVars, Types
    <2>3. CASE ReadStart \/ ReadStop \/ ReadNextStage \/ ReadChainEnd
        <3>1. toWorker # <<>> /\ toWorker' = Tail(toWorker) /\ UNCHANGED toParent /\ Works
            BY <2>3 DEF ReadStart, ReadStop, ReadNextStage, ReadChainEnd, Reads
        <3>2. toWorker \in Seq(WorkerMessages)
            BY DEF Types
        <3> QED BY <3>1, <3>2 DEF Works, serverVars, Types
    <2>4. CASE AwaitTimesOut \/ TakeSignal \/ WorkerEnds
        <3>1. Works /\ UNCHANGED toParent /\ (toWorker' = toWorker \/ toWorker' = <<>>)
            <4>1. CASE AwaitTimesOut
                BY <4>1 DEF AwaitTimesOut
            <4>2. CASE TakeSignal
                BY <4>2, Zenon DEF TakeSignal
            <4>3. CASE WorkerEnds
                BY <4>3 DEF WorkerEnds
            <4> QED BY <2>4, <4>1, <4>2, <4>3
        <3>2. toWorker' \in Seq(WorkerMessages)
            <4>1. <<>> \in Seq(WorkerMessages) /\ toWorker \in Seq(WorkerMessages)
                BY DEF Types
            <4> QED BY <3>1, <4>1
        <3> QED BY <3>1, <3>2 DEF Works, serverVars, Types
    <2> QED BY <2>1, <2>2, <2>3, <2>4 DEF Worker
<1>2. worker' \in WorkerRecord
    <2> PICK no \in BOOLEAN : no = FALSE
        OBVIOUS
    <2> PICK yes \in BOOLEAN : yes = TRUE
        OBVIOUS
    <2>0. worker \in WorkerRecord
        BY DEF Types
    <2>1. CASE WorkerBoots \/ StartRun \/ FailWorker \/ ReadChainEnd \/ AwaitTimesOut \/ WorkerEnds
        BY <2>0, <2>1 DEF WorkerBoots, StartRun, FailWorker, ReadChainEnd, AwaitTimesOut, WorkerEnds, WorkerRecord
    <2>2. CASE LoseSession
        <3>1. worker' = [worker EXCEPT !.lostSession = yes]
            BY <2>2, Zenon DEF LoseSession
        <3> QED BY <2>0, <3>1 DEF WorkerRecord
    <2>3. ASSUME NEW found \in Findings, FinishStage(found) PROVE worker' \in WorkerRecord
        <3>1. worker' = [worker EXCEPT !.at = IF worker.stage = LastStage \/ worker.aborted THEN "EXITING" ELSE "AWAIT", !.lostSession = no]
            BY <2>3, Zenon DEF FinishStage, AfterStage
        <3> QED BY <2>0, <3>1 DEF WorkerRecord
    <2>4. CASE ReadStart
        BY <2>0, <2>4, ChainStagesAre DEF ReadStart, WorkerRecord
    <2>5. Interrupted(worker) \in WorkerRecord
        <3>1. \/ Interrupted(worker) = [worker EXCEPT !.at = "EXITING"]
              \/ Interrupted(worker) = [worker EXCEPT !.aborted = yes]
            BY Zenon DEF Interrupted
        <3> QED BY <2>0, <3>1 DEF WorkerRecord
    <2>6. CASE ReadStop
        BY <2>0, <2>5, <2>6 DEF ReadStop, WorkerRecord
    <2>7. CASE ReadNextStage
        <3>1. worker.at = "AWAIT" /\ toWorker # <<>> /\ Head(toWorker) = "NEXT_STAGE" /\ toWorker \in Seq(WorkerMessages)
            BY <2>7 DEF ReadNextStage, Reads, Types
        <3>2. 1 \in DOMAIN toWorker /\ toWorker[1] = "NEXT_STAGE"
            BY <3>1
        <3>3. worker.stage + 1 \in Stages
            BY <3>1, <3>2 DEF OrdersOK
        <3>4. worker' = [worker EXCEPT !.at = "STAGE", !.stage = worker.stage + 1]
            BY <2>7, Zenon DEF ReadNextStage
        <3> QED BY <2>0, <3>3, <3>4 DEF WorkerRecord
    <2>8. CASE TakeSignal
        <3>1. \/ worker' = [worker EXCEPT !.at = "GONE"]
              \/ worker' = [Interrupted(worker) EXCEPT !.signalled = no]
            BY <2>8, Zenon DEF TakeSignal
        <3> QED BY <2>0, <2>5, <3>1 DEF WorkerRecord
    <2> QED BY <2>1, <2>2, <2>3, <2>4, <2>6, <2>7, <2>8 DEF Worker
<1> QED BY <1>1, <1>2 DEF Types

(* Decide: either the chain is stopped at the job, or its row ends and a    *)
(* next stage will be made, for there was no reason against it.             *)
LEMMA DecideCases ==
    ASSUME Types, NEW j \in JobRecord, Decide(j)
    PROVE  \/ \E reason \in Reasons : StopChainAt(j, reason) /\ UNCHANGED <<row, todo>>
           \/ EndStageRow(j) /\ j.ran /\ j.result = "VALID" /\ ~chain.stopRequested
<1> DEFINE found == FoundReasons(j, j.result = "VALID", UserStopped, changed)
           reason == FirstReason(found)
           refused == IF reason = "NONE" /\ (closing \/ lock \in {"LOST", "STOPPED"}) THEN "NEXT_STAGE_REJECTED" ELSE reason
<1>1. found \in SUBSET Reasons
    <2>1. {"USER_STOPPED", "SESSION_LOST", "STAGE_FAILED", "PROFILE_REVISION_CHANGED", "NEXT_STAGE_REJECTED"} \subseteq Reasons
        BY DEF Reasons, StopReasons
    <2>2. j.findings \in SUBSET Reasons
        BY DEF JobRecord
    <2> QED BY <2>1, <2>2 DEF FoundReasons
<1>2. reason \in {"NONE"} \cup Reasons /\ (reason = "NONE" => found = {})
    BY <1>1, FirstReasonIsFound
<1>3. "NEXT_STAGE_REJECTED" \in Reasons /\ "NONE" \notin Reasons
    BY DEF Reasons, StopReasons
<1>4. IF refused = "NONE" THEN EndStageRow(j) ELSE StopChainAt(j, refused) /\ UNCHANGED <<row, todo>>
    BY Zenon DEF Decide
<1>5. CASE refused = "NONE"
    <2>1. found = {}
        BY <1>2, <1>5
    <2>2. j.ran /\ j.result = "VALID" /\ ~UserStopped
        BY <2>1 DEF FoundReasons
    <2> QED BY <1>4, <1>5, <2>2 DEF UserStopped
<1>6. CASE refused # "NONE"
    <2>1. refused \in Reasons
        BY <1>2, <1>3, <1>6
    <2> QED BY <1>4, <1>6, <2>1
<1> QED BY <1>5, <1>6

(* Ending the row of a stage writes a job and rows of their types.          *)
LEMMA EndStageRowTypes ==
    ASSUME Types, NEW j \in JobRecord, EndStageRow(j)
    PROVE  /\ job' \in JobRecord /\ row' \in [Stages -> RowStates] /\ UNCHANGED <<chain, toWorker>>
           /\ todo' = <<"CREATE_NEXT">>
<1> PICK yes \in BOOLEAN : yes = TRUE
    OBVIOUS
<1>1. job' = [j EXCEPT !.rowRecorded = yes]
    BY Zenon DEF EndStageRow
<1>2. job' \in JobRecord
    BY <1>1 DEF JobRecord
<1>3. row' = RowTo(j.stage, "FAILED") \/ row' = RowTo(j.stage, "FINISHED")
    BY DEF EndStageRow
<1>4. row' \in [Stages -> RowStates]
    BY <1>3, RowToTouchesOne DEF Types, RowStates, ActiveStates
<1> QED BY <1>2, <1>4 DEF EndStageRow

(* #decide, whichever way it goes, writes records of their types.           *)
LEMMA DecideTypes ==
    ASSUME Types, NEW j \in JobRecord, Decide(j)
    PROVE  /\ job' \in JobRecord /\ row' \in [Stages -> RowStates] /\ chain' \in ChainRecord
           /\ toWorker' \in Seq(WorkerMessages) /\ todo' \in {todo, <<"CREATE_NEXT">>}
<1>1. CASE \E reason \in Reasons : StopChainAt(j, reason) /\ UNCHANGED <<row, todo>>
    BY <1>1, StopChainAtTypes DEF Types
<1>2. CASE EndStageRow(j)
    BY <1>2, EndStageRowTypes DEF Types
<1> QED BY <1>1, <1>2, DecideCases

(* The timers keep the types: they signal the worker and nothing else.      *)
LEMMA TimersKeepTypes == ASSUME Types, Timers PROVE Types'
<1>1. Signalled(worker) \in WorkerRecord
    <2> PICK yes \in BOOLEAN : yes = TRUE
        OBVIOUS
    <2>1. Signalled(worker) = worker \/ Signalled(worker) = [worker EXCEPT !.signalled = yes]
        BY Zenon DEF Signalled
    <2> QED BY <2>1 DEF Types, WorkerRecord
<1>2. CASE GiveUpOnWorker
    <2>1. PICK ending \in {"FAILED", "INTERRUPTED"} : UNCHANGED row /\ job' = Settled(job, ending)
        BY <1>2 DEF GiveUpOnWorker, EndJob
    <2>2. job' \in JobRecord
        BY <2>1, SettledFields DEF Types
    <2> QED BY <1>1, <1>2, <2>1, <2>2 DEF GiveUpOnWorker, Types
<1>3. CASE KillDecided
    BY <1>1, <1>3 DEF KillDecided, Types, serverVars
<1> QED BY <1>2, <1>3 DEF Timers

(* The handlers of messages keep the types: the channel loses its head.     *)
LEMMA ReceivesKeepTypes ==
    ASSUME Types,
           ReceiveDecided \/ ReceiveReady \/ ReceiveRunStarted \/ ReceiveSessionLost \/ ReceiveFinished \/ ReceiveFailed
    PROVE  Types'
<1> PICK yes \in BOOLEAN : yes = TRUE
    OBVIOUS
<1>1. /\ toParent' \in Seq(MessageRecord) /\ Head(toParent) \in MessageRecord
      /\ UNCHANGED <<up, closing, lock, todo, changed, other, recorded>>
    <2>1. PICK types : Receives(types)
        BY DEF ReceiveDecided, ReceiveReady, ReceiveRunStarted, ReceiveSessionLost, ReceiveFinished, ReceiveFailed
    <2> QED BY <2>1, ReceivesHead
<1>2. CASE ReceiveDecided
    BY <1>1, <1>2 DEF ReceiveDecided, Types
<1>3. CASE ReceiveReady
    <2>1. PICK sent \in BOOLEAN : sent = ~job.stopRequested
        OBVIOUS
    <2>2. job' = [job EXCEPT !.phase = "STARTED", !.startSent = sent]
        BY <1>3, <2>1, Zenon DEF ReceiveReady
    <2>3. job' \in JobRecord
        BY <2>2 DEF Types, JobRecord
    <2>4. toWorker' = Sent(<<"STOP">>) \/ toWorker' = Sent(<<"START">>)
        BY <1>3 DEF ReceiveReady
    <2>5. toWorker' \in Seq(WorkerMessages)
        BY <2>4, SentAppends DEF WorkerMessages, Types
    <2> QED BY <1>1, <1>3, <2>3, <2>5 DEF ReceiveReady, Types
<1>4. CASE ReceiveRunStarted
    <2>1. job' \in JobRecord
        BY <1>4 DEF ReceiveRunStarted, Types, JobRecord
    <2>2. row' \in [Stages -> RowStates]
        BY <1>4 DEF ReceiveRunStarted, Types, RowStates, ActiveStates
    <2> QED BY <1>1, <1>4, <2>1, <2>2 DEF ReceiveRunStarted, Types
<1>5. CASE ReceiveSessionLost
    <2>1. job' = [job EXCEPT !.sessionLost = yes]
        BY <1>5, Zenon DEF ReceiveSessionLost
    <2>2. job' \in JobRecord
        BY <2>1 DEF Types, JobRecord
    <2> QED BY <1>1, <1>5, <2>2 DEF ReceiveSessionLost, Types
<1>6. CASE ReceiveFinished
    <2> DEFINE noted == [Settled(job, "FINISHED") EXCEPT !.ran = Head(toParent).ran, !.findings = Head(toParent).findings]
    <2>1. noted \in JobRecord
        <3>1. Settled(job, "FINISHED") \in JobRecord
            BY SettledFields DEF Types
        <3> QED BY <1>1, <3>1 DEF JobRecord, MessageRecord
    <2>2. job' = [noted EXCEPT !.exitTimer = yes] \/ job' = noted
        BY <1>6, Zenon DEF ReceiveFinished
    <2> HIDE DEF noted
    <2>3. job' \in JobRecord
        BY <2>1, <2>2 DEF JobRecord
    <2>4. advance' \in {"NONE", "READING", "LOOKING"} /\ UNCHANGED <<row, chain, toWorker, worker>>
        BY <1>6 DEF ReceiveFinished, Types
    <2> QED BY <1>1, <2>3, <2>4 DEF Types
<1>7. CASE ReceiveFailed
    <2>1. job' = [Settled(job, "FAILED") EXCEPT !.exitTimer = yes]
        BY <1>7, Zenon DEF ReceiveFailed
    <2>2. job' \in JobRecord
        <3>1. Settled(job, "FAILED") \in JobRecord
            BY SettledFields DEF Types
        <3> QED BY <2>1, <3>1 DEF JobRecord
    <2> QED BY <1>1, <1>7, <2>2 DEF ReceiveFailed, Types
<1> QED BY <1>2, <1>3, <1>4, <1>5, <1>6, <1>7

(* The first stage is shown as running, the others as pending. *)
LEMMA FirstStageRunsFields ==
    /\ FirstStageRuns \in ChainRecord /\ FirstStageRuns.state = "RUNNING" /\ ~FirstStageRuns.stopRequested
    /\ \A k \in Stages : FirstStageRuns.stages[k] = (IF k = 1 THEN "RUNNING" ELSE "PENDING")
<1> DEFINE shown == [NoChain.stages EXCEPT ![1] = "RUNNING"]
<1>1. FirstStageRuns = [NoChain EXCEPT !.state = "RUNNING", !.stages = shown]
    BY StartRecords DEF FirstStageRuns, ChainRecord
<1>2. NoChain.stages \in [Stages -> {"PENDING", "RUNNING", "DONE", "NOT_STARTED", "NOT_NEEDED", "STOPPED"}]
    BY StartRecords DEF ChainRecord
<1>3. /\ shown \in [Stages -> {"PENDING", "RUNNING", "DONE", "NOT_STARTED", "NOT_NEEDED", "STOPPED"}]
      /\ \A k \in Stages : shown[k] = (IF k = 1 THEN "RUNNING" ELSE "PENDING")
    BY <1>2, StartRecords
<1> HIDE DEF shown
<1>4. FirstStageRuns \in ChainRecord /\ FirstStageRuns.state = "RUNNING" /\ FirstStageRuns.stages = shown
    BY <1>1, <1>3, StartRecords DEF ChainRecord
<1>5. FirstStageRuns.stopRequested = NoChain.stopRequested
    BY <1>1, StartRecords DEF ChainRecord
<1> QED BY <1>3, <1>4, <1>5, StartRecords

(* The stage behind is shown as done, the next one as running. *)
LEMMA NextStageShown ==
    ASSUME NEW c \in ChainRecord, NEW k \in Stages, k # LastStage
    PROVE  LET d == [c EXCEPT !.stages[k] = "DONE", !.stages[k + 1] = "RUNNING"]
           IN  /\ d \in ChainRecord /\ d.state = c.state /\ d.stopRequested = c.stopRequested
               /\ \A i \in Stages : d.stages[i] = (IF i = k THEN "DONE" ELSE IF i = k + 1 THEN "RUNNING" ELSE c.stages[i])
<1> DEFINE d == [c EXCEPT !.stages[k] = "DONE", !.stages[k + 1] = "RUNNING"]
           shown == [[c.stages EXCEPT ![k] = "DONE"] EXCEPT ![k + 1] = "RUNNING"]
<1>1. d = [c EXCEPT !.stages = shown]
    BY DEF ChainRecord
<1>2. c.stages \in [Stages -> {"PENDING", "RUNNING", "DONE", "NOT_STARTED", "NOT_NEEDED", "STOPPED"}]
    BY DEF ChainRecord
<1>3. k + 1 \in Stages /\ k + 1 # k
    BY ChainStagesAre
<1>4. /\ shown \in [Stages -> {"PENDING", "RUNNING", "DONE", "NOT_STARTED", "NOT_NEEDED", "STOPPED"}]
      /\ \A i \in Stages : shown[i] = (IF i = k THEN "DONE" ELSE IF i = k + 1 THEN "RUNNING" ELSE c.stages[i])
    BY <1>2, <1>3
<1> HIDE DEF shown
<1>5. d \in ChainRecord /\ d.state = c.state /\ d.stopRequested = c.stopRequested /\ d.stages = shown
    BY <1>1, <1>4 DEF ChainRecord
<1> QED BY <1>4, <1>5, Zenon

(* The steps of #advanceChain and the exit of the worker keep the types.    *)
LEMMA AdvancesKeepTypes ==
    ASSUME Types, LifeOK, TruthOK,
           \/ AbandonAdvance \/ AdvanceWithDefinitions
           \/ \E verdict \in {"VALID", "INVALID"} : AdvanceWithResult(verdict) \/ FailAdvance(verdict) \/ Exited(verdict)
    PROVE  Types'
<1>0. /\ "NEXT_STAGE_REJECTED" \in Reasons
      /\ Verdicts \subseteq {"VALID", "INVALID"}
    BY DEF Reasons, StopReasons, Verdicts
<1>1. ASSUME NEW verdict \in {"VALID", "INVALID"}
      PROVE  [job EXCEPT !.result = verdict] \in JobRecord
    BY DEF Types, JobRecord
<1>2. CASE AbandonAdvance
    BY <1>2 DEF AbandonAdvance, Types
<1>3. CASE AdvanceWithDefinitions
    <2>1. Decide(job) /\ advance' = "NONE"
        BY <1>3 DEF AdvanceWithDefinitions, DecideAgain
    <2> QED BY <1>3, <2>1, DecideTypes DEF AdvanceWithDefinitions, Types
<1>4. ASSUME NEW verdict \in {"VALID", "INVALID"}, FailAdvance(verdict) PROVE Types'
    <2>1. recorded' \in [Stages -> 0 .. 1]
        <3>1. CASE advance = "READING"
            <4>1. IsTracked /\ job.result = "NONE" /\ RecordResult(verdict)
                BY <1>4, <3>1 DEF FailAdvance, LifeOK, ServerLife, StageLife, StillAwaited
            <4> QED BY <4>1, RecordTypes
        <3>2. CASE advance # "READING"
            BY <1>4, <3>2 DEF FailAdvance, Types
        <3> QED BY <3>1, <3>2
    <2>2. StopChainAt([job EXCEPT !.result = verdict], "NEXT_STAGE_REJECTED")
        BY <1>4 DEF FailAdvance
    <2>3. job' \in JobRecord /\ chain' \in ChainRecord /\ toWorker' \in Seq(WorkerMessages)
        BY <1>0, <1>1, <2>2, StopChainAtTypes
    <2> QED BY <1>4, <2>1, <2>3 DEF FailAdvance, Types
<1>5. ASSUME NEW verdict \in {"VALID", "INVALID"}, AdvanceWithResult(verdict) PROVE Types'
    <2> DEFINE j == [job EXCEPT !.result = verdict]
    <2>1. recorded' \in [Stages -> 0 .. 1]
        <3>1. IsTracked /\ job.result = "NONE" /\ RecordResult(verdict)
            BY <1>5 DEF AdvanceWithResult, LifeOK, ServerLife, StageLife, StillAwaited
        <3> QED BY <3>1, RecordTypes
    <2>2. j \in JobRecord
        BY <1>1
    <2>3. \/ advance' = "LOOKING" /\ job' = j /\ UNCHANGED <<row, todo, chain, toWorker>>
          \/ /\ advance' = "NONE"
             /\ chain' = Closed(chain, "NONE", "NOT_NEEDED")
             /\ toWorker' = Sent(<<"CHAIN_END">>)
             /\ job' = [j EXCEPT !.exitTimer = TRUE]
             /\ UNCHANGED <<row, todo>>
          \/ advance' = "NONE" /\ Decide(j)
        BY <1>5, Zenon DEF AdvanceWithResult
    <2> HIDE DEF j
    <2>4. UNCHANGED <<up, closing, lock, changed, other, toParent, worker>>
        BY <1>5 DEF AdvanceWithResult
    <2>5. CASE advance' = "LOOKING" /\ job' = j /\ UNCHANGED <<row, todo, chain, toWorker>>
        BY <2>1, <2>2, <2>4, <2>5 DEF Types
    <2>6. CASE /\ advance' = "NONE"
               /\ chain' = Closed(chain, "NONE", "NOT_NEEDED")
               /\ toWorker' = Sent(<<"CHAIN_END">>)
               /\ job' = [j EXCEPT !.exitTimer = TRUE]
               /\ UNCHANGED <<row, todo>>
        <3> PICK yes \in BOOLEAN : yes = TRUE
            OBVIOUS
        <3>1. job' = [j EXCEPT !.exitTimer = yes]
            BY <2>6, Zenon
        <3>2. job' \in JobRecord
            BY <2>2, <3>1 DEF JobRecord
        <3>3. chain' \in ChainRecord /\ toWorker' \in Seq(WorkerMessages)
            BY <2>6, ClosedFields, SentAppends DEF Types, WorkerMessages
        <3> QED BY <2>1, <2>4, <2>6, <3>2, <3>3 DEF Types
    <2>7. CASE advance' = "NONE" /\ Decide(j)
        BY <2>1, <2>2, <2>4, <2>7, DecideTypes DEF Types
    <2> QED BY <2>3, <2>5, <2>6, <2>7
<1>6. ASSUME NEW verdict \in {"VALID", "INVALID"}, Exited(verdict) PROVE Types'
    <2>1. CASE NeedsRecord(job)
        <3>1. job.result = "NONE" /\ RecordResult(verdict) /\ job' = [job EXCEPT !.result = verdict]
            BY <1>6, <2>1 DEF Exited, NeedsRecord
        <3>2. IsTracked
            <4>1. NoJob.ipc = "OPEN"
                BY DEF NoJob
            <4> QED BY <1>6, <4>1 DEF Exited, LifeOK, ServerLife, StageLife
        <3>3. recorded' \in [Stages -> 0 .. 1]
            BY <3>1, <3>2, RecordTypes
        <3> QED BY <1>1, <1>6, <3>1, <3>3 DEF Exited, Types
    <2>2. CASE ~NeedsRecord(job)
        BY <1>6, <2>2 DEF Exited, Types
    <2> QED BY <2>1, <2>2
<1> QED BY <1>2, <1>3, <1>4, <1>5, <1>6

(* The launch, its failure, the loss of the lock and the commits keep the types. *)
LEMMA OtherServerStepsKeepTypes ==
    ASSUME Types, LifeOK,
           \/ Launch \/ FailLaunch \/ NoticeLockLost \/ StopWorkersAfterLockLost
           \/ CommitCreateNext \/ SeeExit \/ DrainEnds \/ CommitEndRow
    PROVE  Types'
<1>0. /\ {"NEXT_STAGE_REJECTED", "STAGE_FAILED", "PROFILE_REVISION_CHANGED", "USER_STOPPED"} \subseteq Reasons
      /\ {"STOP", "NEXT_STAGE"} \subseteq WorkerMessages
    BY DEF Reasons, StopReasons, WorkerMessages
<1>1. CASE Launch
    <2>1. job' \in JobRecord
        BY <1>1, NewJobs, ChainStagesAre DEF Launch
    <2>2. worker' \in WorkerRecord
        BY <1>1, StartRecords DEF Launch, WorkerRecord
    <2>3. chain' \in ChainRecord
        BY <1>1, FirstStageRunsFields DEF Launch
    <2> QED BY <1>1, <2>1, <2>2, <2>3 DEF Launch, Types
<1>2. CASE FailLaunch
    <2>1. chain' \in ChainRecord
        BY <1>0, <1>2, FirstStageRunsFields, ClosedFields DEF FailLaunch
    <2>2. row' \in [Stages -> RowStates]
        BY <1>2, RowToTouchesOne DEF FailLaunch, Types, RowStates, ActiveStates
    <2> QED BY <1>2, <2>1, <2>2 DEF FailLaunch, Types
<1>3. CASE NoticeLockLost
    BY <1>3 DEF NoticeLockLost, Types
<1>4. CASE StopWorkersAfterLockLost
    <2>1. UNCHANGED <<up, closing, todo, changed, other, recorded, advance, toParent, worker>> /\ lock' = "STOPPED"
        BY <1>4 DEF StopWorkersAfterLockLost
    <2>2. CASE ~IsUndecided
        BY <1>4, <2>1, <2>2 DEF StopWorkersAfterLockLost, Types
    <2>3. CASE IsUndecided
        <3> PICK kill \in BOOLEAN : kill = TRUE
            OBVIOUS
        <3>1. /\ job' = [job EXCEPT !.stopRequested = TRUE, !.killTimer = kill]
              /\ chain' = [chain EXCEPT !.stopRequested = TRUE]
              /\ row' = RowTo(job.stage, "STOPPING")
              /\ toWorker' = IF job.phase = "FORKED" THEN toWorker ELSE Sent(<<"STOP">>)
            BY <1>4, <2>3, Zenon DEF StopWorkersAfterLockLost
        <3> QED BY <1>0, <2>1, <3>1, StopTypes DEF Types
    <2> QED BY <2>2, <2>3
<1>5. CASE CommitCreateNext
    <2>1. todo' = <<>> /\ UNCHANGED <<up, closing, changed, other, recorded, advance, toParent, worker>>
        BY <1>5 DEF CommitCreateNext
    <2>2. job.stage \in Stages /\ job.stage # LastStage
        BY <1>5 DEF CommitCreateNext, LifeOK, ServerLife, StageLife, IsTracked, Types, JobRecord
    <2>3. CASE lock # "HELD" \/ changed \/ ~SlotIsFree
        <3>1. /\ lock' = IF lock = "TAKEN" THEN "LOST" ELSE lock
              /\ StopChainAt(job, IF lock = "HELD" /\ changed THEN "PROFILE_REVISION_CHANGED" ELSE "NEXT_STAGE_REJECTED")
              /\ UNCHANGED row
            BY <1>5, <2>3, Zenon DEF CommitCreateNext
        <3>2. job' \in JobRecord /\ chain' \in ChainRecord /\ toWorker' \in Seq(WorkerMessages)
            BY <1>0, <3>1, StopChainAtTypes DEF Types
        <3> QED BY <2>1, <3>1, <3>2 DEF Types
    <2>4. CASE ~(lock # "HELD" \/ changed \/ ~SlotIsFree)
        <3>1. /\ row' = [row EXCEPT ![job.stage + 1] = "STARTING"]
              /\ job' = JobOfNextStage(job.stage)
              /\ chain' = [chain EXCEPT !.stages[job.stage] = "DONE", !.stages[job.stage + 1] = "RUNNING"]
              /\ toWorker' = Sent(<<"NEXT_STAGE">>)
              /\ UNCHANGED lock
            BY <1>5, <2>4, Zenon DEF CommitCreateNext
        <3>2. job' \in JobRecord
            BY <2>2, <3>1, NewJobs
        <3>3. chain' \in ChainRecord
            BY <2>2, <3>1, NextStageShown DEF Types
        <3>4. toWorker' \in Seq(WorkerMessages)
            BY <1>0, <3>1, SentAppends DEF Types
        <3>5. row' \in [Stages -> RowStates]
            BY <2>2, <3>1, ChainStagesAre DEF Types, RowStates, ActiveStates
        <3> QED BY <2>1, <3>1, <3>2, <3>3, <3>4, <3>5 DEF Types
    <2> QED BY <2>3, <2>4
<1>6. CASE SeeExit
    <2>1. job' \in JobRecord
        BY <1>6 DEF SeeExit, Types, JobRecord
    <2> QED BY <1>6, <2>1 DEF SeeExit, Types
<1>7. CASE DrainEnds
    <2>1. Settled(job, "INTERRUPTED") \in JobRecord
        BY SettledFields DEF Types
    <2>2. job' = [Settled(job, "INTERRUPTED") EXCEPT !.ipc = "CLOSED"]
        BY <1>7 DEF DrainEnds
    <2>3. job' \in JobRecord
        BY <2>1, <2>2 DEF JobRecord
    <2> QED BY <1>7, <2>3 DEF DrainEnds, Types
<1>8. CASE CommitEndRow
    <2>1. row' \in [Stages -> RowStates]
        <3>1. IsTracked /\ job.ipc = "CLOSED"
            BY <1>8 DEF CommitEndRow, LifeOK, ServerLife, StageLife
        <3>2. job.ending \in {"FINISHED", "FAILED", "INTERRUPTED"}
            BY <3>1 DEF LifeOK, ServerLife, StageLife, Types, JobRecord
        <3>3. \/ row' = row \/ row' = RowTo(job.stage, "FAILED") \/ row' = RowTo(job.stage, job.ending)
            BY <1>8 DEF CommitEndRow, EndedRow
        <3> QED BY <3>2, <3>3, RowToTouchesOne DEF Types, RowStates
    <2>2. ReasonAtExit(job) \in {"NONE"} \cup Reasons
        <3>1. FoundReasons(job, job.result # "INVALID", FALSE, FALSE) \in SUBSET Reasons
            <4>1. {"USER_STOPPED", "SESSION_LOST", "STAGE_FAILED", "PROFILE_REVISION_CHANGED"} \subseteq Reasons
                BY DEF Reasons, StopReasons
            <4>2. job.findings \in SUBSET Reasons
                BY DEF Types, JobRecord
            <4> QED BY <4>1, <4>2 DEF FoundReasons
        <3> QED BY <1>0, <3>1, FirstReasonIsFound DEF ReasonAtExit
    <2>3. chain' \in ChainRecord
        BY <1>8, <2>2, ClosedFields DEF CommitEndRow, ChainAfter, Types
    <2>4. toParent' \in Seq(MessageRecord)
        BY <1>8 DEF CommitEndRow
    <2> QED BY <1>8, <2>1, <2>3, <2>4, StartRecords DEF CommitEndRow, Types
<1> QED BY <1>1, <1>2, <1>3, <1>4, <1>5, <1>6, <1>7, <1>8

(* Every step keeps the types. *)
LEMMA TypesAreKept == ASSUME ChainInv, [ChainNext]_chainVars PROVE Types'
<1>1. CASE ChainNext
    BY <1>1, UsersKeepTypes, WorkerKeepsTypes, TimersKeepTypes, ReceivesKeepTypes, AdvancesKeepTypes, OtherServerStepsKeepTypes
       DEF ChainNext, Server, ChainInv
<1>2. CASE UNCHANGED chainVars
    BY <1>2 DEF chainVars, serverVars, Types, ChainInv
<1> QED BY <1>1, <1>2

-----------------------------------------------------------------------------
(* Steps that leave the stage where it is *)

(* What two jobs have in common that differ in their timers and in whether  *)
(* a stop was requested                                                     *)
SameStage(j, d) ==
    /\ d.stage = j.stage /\ d.phase = j.phase /\ d.ending = j.ending /\ d.ran = j.ran /\ d.result = j.result
    /\ d.rowRecorded = j.rowRecorded /\ d.ipc = j.ipc

(* A row that is not active stays as it is, an active one stays a row; and  *)
(* the slot is kept, unless the worker is gone and the lock is lost.        *)
RowsStay ==
    /\ \A k \in Stages : row[k] \notin ActiveStates => row'[k] = row[k]
    /\ \A k \in Stages : row'[k] = "NONE" <=> row[k] = "NONE"
    /\ \/ \A k \in Stages : SlotHeldBy(k) => SlotHeldBy(k)'
       \/ ~IsAlive /\ lock # "HELD" /\ todo # <<"LAUNCH">>

(* A step that changes timers, requests, the lock or what others do, and    *)
(* neither the stage of the server nor that of the worker                   *)
QuietStep ==
    /\ UNCHANGED <<up, todo, recorded, toParent>>
    /\ advance' = advance \/ advance' = "NONE"
    /\ job' = job \/ (IsTracked /\ SameStage(job, job'))
    /\ worker' = worker \/ (worker.at # "NONE" /\ worker'.at = worker.at /\ worker'.stage = worker.stage)
    /\ chain'.state = chain.state /\ chain'.stages = chain.stages
    /\ chain' = chain \/ (chain.state = "RUNNING" /\ todo # <<"CREATE_NEXT">>)
    /\ \/ toWorker' = toWorker
       \/ /\ IsTracked /\ job.phase # "FORKED"
          /\ \E m \in WorkerMessages \ Orders : toWorker' = Append(toWorker, m)
    /\ lock' = "HELD" => lock = "HELD"
    /\ RowsStay

(* An appended message that is no order changes nothing about the orders.   *)
LEMMA OrdersStay ==
    ASSUME Types,
           \/ toWorker' = toWorker
           \/ \E m \in WorkerMessages \ Orders : toWorker' = Append(toWorker, m)
    PROVE  /\ \A i \in DOMAIN toWorker : i \in DOMAIN toWorker' /\ toWorker'[i] = toWorker[i]
           /\ \A i \in DOMAIN toWorker' : toWorker'[i] \in Orders => i \in DOMAIN toWorker /\ toWorker[i] = toWorker'[i]
<1>0. toWorker \in Seq(WorkerMessages)
    BY DEF Types
<1>1. CASE toWorker' = toWorker
    BY <1>1
<1>2. ASSUME NEW m \in WorkerMessages \ Orders, toWorker' = Append(toWorker, m)
      PROVE  /\ \A i \in DOMAIN toWorker : i \in DOMAIN toWorker' /\ toWorker'[i] = toWorker[i]
             /\ \A i \in DOMAIN toWorker' : toWorker'[i] \in Orders => i \in DOMAIN toWorker /\ toWorker[i] = toWorker'[i]
    BY <1>0, <1>2
<1> QED BY <1>1, <1>2

(* A quiet step keeps what is known of the life of the stage.               *)
LEMMA QuietStepsKeepLife == ASSUME Types, Types', LifeOK, QuietStep PROVE LifeOK'
<1>1. SameStage(job, job') /\ (IsTracked' <=> IsTracked) /\ (StillAwaited' <=> StillAwaited) /\ (IsAlive' <=> IsAlive)
    BY DEF QuietStep, SameStage, IsTracked, StillAwaited, ExitSeen, IsAlive
<1>2. worker'.at = worker.at
    BY DEF QuietStep
<1>3. ServerLife'
    <2>1. job = NoJob => job' = NoJob
        BY StartRecords DEF QuietStep, IsTracked
    <2>2. chain = NoChain => chain' = NoChain
        BY StartRecords DEF QuietStep
    <2>3. up' = up /\ todo' = todo /\ recorded' = recorded /\ toParent' = toParent /\ chain'.state = chain.state
        BY DEF QuietStep
    <2>4. advance = "NONE" => advance' = "NONE"
        BY DEF QuietStep
    <2>5. ~IsTracked => toWorker' = toWorker
        BY DEF QuietStep
    <2>6. worker = NoWorker => worker' = NoWorker
        BY StartRecords DEF QuietStep
    <2>7. \A k \in Stages : row'[k] # "NONE" => row[k] # "NONE"
        BY DEF QuietStep, RowsStay
    <2>8. chain.state = "NONE" => ~IsTracked
        BY StartRecords DEF LifeOK, ServerLife, IsTracked
    <2> QED BY <1>1, <1>2, <2>1, <2>2, <2>3, <2>4, <2>5, <2>6, <2>7, <2>8 DEF LifeOK, ServerLife
<1>4. ASSUME IsTracked' PROVE StageLife'
    <2>1. StageLife
        BY <1>1, <1>4 DEF LifeOK
    <2>2. UNCHANGED todo /\ chain'.state = chain.state /\ (advance' = advance \/ advance' = "NONE")
        BY DEF QuietStep
    <2>3. todo = <<"CREATE_NEXT">> => chain' = chain
        BY DEF QuietStep
    <2>4. job.phase = "FORKED" => toWorker' = toWorker
        BY DEF QuietStep
    <2> QED BY <1>1, <1>2, <2>1, <2>2, <2>3, <2>4 DEF StageLife, SameStage
<1> QED BY <1>3, <1>4 DEF LifeOK

(* A quiet step keeps what the messages under way say of the worker.        *)
LEMMA QuietStepsKeepLink == ASSUME Types, Types', LinkOK, QuietStep PROVE LinkOK'
<1>1. /\ toParent' = toParent /\ job'.phase = job.phase /\ job'.stage = job.stage /\ (Linked' <=> Linked)
      /\ worker'.at = worker.at /\ worker'.stage = worker.stage
    BY DEF QuietStep, SameStage, IsTracked, Linked
<1>2. \A i \in DOMAIN toParent : PhaseBefore(i)' = PhaseBefore(i)
    BY <1>1 DEF PhaseBefore
<1>3. PhaseAtLast' = PhaseAtLast
    BY <1>1 DEF PhaseAtLast
<1> QED BY <1>1, <1>2, <1>3 DEF LinkOK

(* A quiet step sends no order and frees no slot that is needed.            *)
LEMMA QuietStepsKeepOrdersAndSlot ==
    ASSUME Types, Types', LifeOK, OrdersOK, SlotOK, QuietStep
    PROVE  OrdersOK' /\ SlotOK'
<1>1. /\ SameStage(job, job') /\ (IsTracked' <=> IsTracked) /\ (IsAlive' <=> IsAlive)
      /\ worker'.at = worker.at /\ worker'.stage = worker.stage
    BY DEF QuietStep, SameStage, IsTracked, IsAlive
<1>2. /\ UNCHANGED <<up, todo, toParent>>
      /\ advance = "NONE" => advance' = "NONE"
      /\ lock' = "HELD" => lock = "HELD"
    BY DEF QuietStep
<1>3. /\ \A i \in DOMAIN toWorker : i \in DOMAIN toWorker' /\ toWorker'[i] = toWorker[i]
      /\ \A i \in DOMAIN toWorker' : toWorker'[i] \in Orders => i \in DOMAIN toWorker /\ toWorker[i] = toWorker'[i]
    BY OrdersStay DEF QuietStep
<1>4. ASSUME NEW k \in Stages, SlotHeldBy(k), IsAlive \/ lock = "HELD" \/ todo = <<"LAUNCH">>
      PROVE  SlotHeldBy(k)'
    BY <1>4 DEF QuietStep, RowsStay
<1>5. OrdersOK'
    <2>1. ASSUME NEW i \in DOMAIN toWorker', NEW j \in DOMAIN toWorker', toWorker'[i] \in Orders, toWorker'[j] \in Orders
          PROVE  i = j
        BY <1>3, <2>1 DEF OrdersOK
    <2>2. ASSUME NEW i \in DOMAIN toWorker', toWorker'[i] = "START"
          PROVE  worker'.at \in {"WAITING", "EXITING", "GONE"}
        BY <1>1, <1>3, <2>2 DEF OrdersOK, Orders
    <2>3. ASSUME NEW i \in DOMAIN toWorker', toWorker'[i] \in {"NEXT_STAGE", "CHAIN_END"}
          PROVE  worker'.at \in {"AWAIT", "EXITING", "GONE"}
        BY <1>1, <1>3, <2>3 DEF OrdersOK, Orders
    <2>4. ASSUME NEW i \in DOMAIN toWorker', toWorker'[i] = "NEXT_STAGE", worker'.at = "AWAIT"
          PROVE  /\ worker'.stage + 1 \in Stages
                 /\ SlotHeldBy(worker.stage + 1)'
                 /\ up' => /\ job'.stage = worker'.stage + 1 /\ job'.ending # "FINISHED"
                           /\ job'.ending = "NONE" => job'.phase = "STARTED" /\ toParent' = <<>>
        <3>1. i \in DOMAIN toWorker /\ toWorker[i] = "NEXT_STAGE" /\ worker.at = "AWAIT"
            BY <1>1, <1>3, <2>4 DEF Orders
        <3>2. /\ worker.stage + 1 \in Stages /\ SlotHeldBy(worker.stage + 1)
              /\ up => /\ job.stage = worker.stage + 1 /\ job.ending # "FINISHED"
                       /\ job.ending = "NONE" => job.phase = "STARTED" /\ toParent = <<>>
            BY <3>1 DEF OrdersOK
        <3>3. IsAlive
            BY <3>1 DEF IsAlive
        <3>4. SlotHeldBy(worker.stage + 1)'
            BY <1>1, <1>4, <3>2, <3>3 DEF SlotHeldBy
        <3> QED BY <1>1, <1>2, <3>2, <3>4 DEF SameStage
    <2>5. ASSUME NEW i \in DOMAIN toWorker', toWorker'[i] = "CHAIN_END", worker'.at = "AWAIT", up'
          PROVE  job'.stage = worker'.stage /\ job'.phase = "DONE" /\ advance' = "NONE" /\ todo' # <<"CREATE_NEXT">>
        <3>1. i \in DOMAIN toWorker /\ toWorker[i] = "CHAIN_END" /\ worker.at = "AWAIT" /\ up
            BY <1>1, <1>2, <1>3, <2>5 DEF Orders
        <3>2. job.stage = worker.stage /\ job.phase = "DONE" /\ advance = "NONE" /\ todo # <<"CREATE_NEXT">>
            BY <3>1 DEF OrdersOK
        <3> QED BY <1>1, <1>2, <3>2 DEF SameStage
    <2> QED BY <2>1, <2>2, <2>3, <2>4, <2>5 DEF OrdersOK, SlotHeldBy
<1>6. SlotOK'
    <2>1. 1 \in Stages
        BY ChainStagesAre
    <2>2. worker'.at \in {"BOOTING", "WAITING"} => SlotHeldBy(1)' /\ (up' => job'.stage = 1)
        BY <1>1, <1>2, <1>4, <2>1 DEF SlotOK, IsAlive, SameStage
    <2>3. worker'.at \in {"STAGE", "RUN"} => worker'.stage \in Stages /\ SlotHeldBy(worker.stage)' /\ (up' => job'.stage = worker'.stage)
        BY <1>1, <1>2, <1>4 DEF SlotOK, IsAlive, SameStage
    <2>4. worker'.at = "AWAIT" =>
            /\ worker'.stage \in Stages
            /\ up' => \/ job'.stage = worker'.stage
                      \/ job'.stage = worker'.stage + 1 /\ \E i \in DOMAIN toWorker' : toWorker'[i] = "NEXT_STAGE"
        BY <1>1, <1>2, <1>3 DEF SlotOK, SameStage
    <2>5. todo' = <<"LAUNCH">> => SlotHeldBy(1)'
        BY <1>2, <1>4, <2>1 DEF SlotOK
    <2>6. IsTracked' /\ ~job'.rowRecorded /\ (IsAlive' \/ lock' = "HELD") => SlotHeldBy(job.stage)'
        BY <1>1, <1>2, <1>4 DEF SlotOK, SameStage, IsTracked, Types, JobRecord
    <2> QED BY <2>2, <2>3, <2>4, <2>5, <2>6 DEF SlotOK, SlotHeldBy
<1> QED BY <1>5, <1>6

(* A quiet step keeps the row, the result and the chain telling the same.   *)
LEMMA QuietStepsKeepTruth == ASSUME Types, Types', LifeOK, TruthOK, QuietStep PROVE TruthOK'
<1>1. SameStage(job, job') /\ (IsTracked' <=> IsTracked)
    BY DEF QuietStep, SameStage, IsTracked
<1>2. UNCHANGED <<todo, recorded>> /\ chain'.state = chain.state /\ chain'.stages = chain.stages /\ (lock' = "HELD" => lock = "HELD")
    BY DEF QuietStep
<1>3. /\ \A k \in Stages : row[k] \notin ActiveStates => row'[k] = row[k]
      /\ \A k \in Stages : row'[k] = "NONE" <=> row[k] = "NONE"
    BY DEF QuietStep, RowsStay
<1>4. chain.state = "FINISHED" => chain' = chain
    BY DEF QuietStep
<1>5. IsTracked => job.stage \in Stages
    BY DEF IsTracked, Types, JobRecord
<1>6. \A k \in Stages : k < LastStage /\ row'[k + 1] # "NONE" /\ ChainStages[k] # "AUDIT" => recorded'[k] = 1
    BY <1>2, <1>3, ChainStagesAre DEF TruthOK
<1>7. IsTracked' =>
          /\ \A k \in Stages : k > job'.stage => row'[k] = "NONE" /\ recorded'[k] = 0
          /\ job'.result = "NONE" => recorded'[job'.stage] = 0
          /\ job'.ran /\ job'.result = "VALID" /\ ChainStages[job'.stage] # "AUDIT" => recorded'[job'.stage] = 1
    BY <1>1, <1>2, <1>3 DEF TruthOK, SameStage
<1>8. /\ chain'.state = "RUNNING" /\ IsTracked' =>
          \A k \in Stages : chain'.stages[k] = (IF k < job'.stage THEN "DONE" ELSE IF k = job'.stage THEN "RUNNING" ELSE "PENDING")
      /\ chain'.state = "RUNNING" /\ ~IsTracked' =>
          \A k \in Stages : chain'.stages[k] # "DONE" /\ (k > 1 => row'[k] = "NONE")
      /\ chain'.state = "FINISHED" => ~chain'.stopRequested /\ \A k \in Stages : chain'.stages[k] \in {"DONE", "NOT_NEEDED"}
      /\ \A k \in Stages : chain'.stages[k] \in {"NOT_NEEDED", "NOT_STARTED"} => row'[k] = "NONE" /\ chain'.state # "RUNNING"
    BY <1>1, <1>2, <1>3, <1>4 DEF TruthOK, SameStage
<1>9. lock' = "HELD" =>
          /\ todo' = <<"CREATE_NEXT">> => row'[job'.stage] = "FINISHED"
          /\ \A k \in Stages : chain'.stages[k] = "DONE" =>
                \/ row'[k] = "FINISHED" /\ (ChainStages[k] # "AUDIT" => recorded'[k] = 1)
                \/ job'.stage = k /\ job'.ending = "FINISHED" /\ job'.result = "VALID" /\ job'.ran /\ ~job'.rowRecorded
    BY <1>1, <1>2, <1>3, <1>5 DEF TruthOK, SameStage, ActiveStates, LifeOK, ServerLife
<1> QED BY <1>6, <1>7, <1>8, <1>9 DEF TruthOK

(* A quiet step keeps the invariant. *)
LEMMA QuietStepsKeepInv == ASSUME ChainInv, Types', QuietStep PROVE ChainInv'
BY QuietStepsKeepLife, QuietStepsKeepLink, QuietStepsKeepOrdersAndSlot, QuietStepsKeepTruth DEF ChainInv

(* An ending of rows that leaves active what was active keeps the slot.     *)
LEMMA ActiveRowsKeepSlots ==
    ASSUME Types, UNCHANGED other,
           \A k \in Stages : row[k] \notin ActiveStates => row'[k] = row[k],
           \A k \in Stages : row[k] \in ActiveStates => row'[k] \in ActiveStates
    PROVE  RowsStay
<1>1. \A k \in Stages : row'[k] \in ActiveStates <=> row[k] \in ActiveStates
    OBVIOUS
<1>2. \A k \in Stages : SlotHeldBy(k) => SlotHeldBy(k)'
    BY <1>1 DEF SlotHeldBy
<1>3. \A k \in Stages : row'[k] = "NONE" <=> row[k] = "NONE"
    BY DEF ActiveStates
<1> QED BY <1>2, <1>3 DEF RowsStay

(* Rows that nobody writes stay.                                            *)
LEMMA UnchangedRowsStay == ASSUME Types, UNCHANGED <<row, other>> PROVE RowsStay
BY ActiveRowsKeepSlots

(* A row set to STOPPING is active before and after.                        *)
LEMMA StoppingRowsStay == ASSUME Types, UNCHANGED other, row' = RowTo(job.stage, "STOPPING") PROVE RowsStay
<1>1. \A i \in Stages : row'[i] = (IF i = job.stage /\ row[i] \in ActiveStates THEN "STOPPING" ELSE row[i])
    BY RowToTouchesOne DEF Types, RowStates, ActiveStates
<1> QED BY <1>1, ActiveRowsKeepSlots DEF ActiveStates

(* What asking a job that is not decided to stop leaves as it is *)
LEMMA StopsAreQuiet ==
    ASSUME ChainInv, Types', IsUndecided,
           UNCHANGED <<up, todo, other, recorded, advance, toParent, worker>>,
           lock' = "HELD" => lock = "HELD",
           NEW kill \in BOOLEAN, NEW m \in WorkerMessages \ Orders,
           job' = [job EXCEPT !.stopRequested = TRUE, !.killTimer = kill],
           chain' = [chain EXCEPT !.stopRequested = TRUE],
           row' = RowTo(job.stage, "STOPPING"),
           toWorker' = IF job.phase = "FORKED" THEN toWorker ELSE Sent(<<m>>)
    PROVE  QuietStep
<1> PICK yes \in BOOLEAN : yes = TRUE
    OBVIOUS
<1>1. /\ job' = [job EXCEPT !.stopRequested = yes, !.killTimer = kill]
      /\ chain' = [chain EXCEPT !.stopRequested = yes]
    BY Zenon
<1>2. SameStage(job, job')
    BY <1>1 DEF SameStage, ChainInv, Types, JobRecord
<1>3. chain'.state = chain.state /\ chain'.stages = chain.stages
    BY <1>1 DEF ChainInv, Types, ChainRecord
<1>4. IsTracked /\ job.ending = "NONE" /\ chain.state = "RUNNING"
    BY DEF IsUndecided, ChainInv, LifeOK, StageLife
<1>5. todo # <<"CREATE_NEXT">>
    BY <1>4 DEF ChainInv, LifeOK, StageLife
<1>6. \/ toWorker' = toWorker
      \/ job.phase # "FORKED" /\ toWorker' = Append(toWorker, m)
    BY SentAppends DEF ChainInv, Types
<1>7. RowsStay
    BY StoppingRowsStay DEF ChainInv
<1> QED BY <1>2, <1>3, <1>4, <1>5, <1>6, <1>7 DEF QuietStep

(* The actions that are quiet steps: stops, outside events, signals, a decision dropped. *)
LEMMA QuietActions ==
    ASSUME ChainInv, Types',
           \/ \E force \in BOOLEAN : StopChain(force)
           \/ Shutdown \/ ReviseProfile \/ StartOtherJob \/ OtherJobEnds \/ TakeLockOver \/ OtherServerInterrupts
           \/ NoticeLockLost \/ StopWorkersAfterLockLost \/ KillDecided \/ AbandonAdvance
    PROVE  QuietStep
<1>0. Types /\ {"STOP", "FORCE"} \subseteq WorkerMessages \ Orders
    BY DEF ChainInv, WorkerMessages, Orders
<1>1. ASSUME NEW force \in BOOLEAN, StopChain(force) PROVE QuietStep
    <2>1. UNCHANGED <<up, closing, lock, todo, changed, other, recorded, advance, toParent, worker>> /\ todo = <<>> /\ chain.state = "RUNNING"
        BY <1>1 DEF StopChain, Idle
    <2>2. CASE IsUndecided
        <3>1. RequestStop(force)
            BY <1>1, <2>2 DEF StopChain
        <3> DEFINE m == IF force THEN "FORCE" ELSE "STOP"
        <3>2. m \in WorkerMessages \ Orders /\ (job.killTimer \/ force) \in BOOLEAN
            BY <1>0 DEF Types, JobRecord
        <3> HIDE DEF m
        <3>3. PICK kill \in BOOLEAN : kill = (job.killTimer \/ force)
            BY <3>2
        <3>4. job' = [job EXCEPT !.stopRequested = TRUE, !.killTimer = kill]
            BY <3>1, <3>3, Zenon DEF RequestStop
        <3>5. /\ chain' = [chain EXCEPT !.stopRequested = TRUE]
              /\ row' = RowTo(job.stage, "STOPPING")
              /\ toWorker' = IF job.phase = "FORKED" THEN toWorker ELSE Sent(<<m>>)
            BY <3>1, Zenon DEF RequestStop, m
        <3> QED BY <2>1, <2>2, <3>2, <3>4, <3>5, StopsAreQuiet
    <2>3. CASE ~IsUndecided
        <3> PICK yes \in BOOLEAN : yes = TRUE
            OBVIOUS
        <3>1. chain' = [chain EXCEPT !.stopRequested = yes] /\ UNCHANGED <<job, toWorker>>
            BY <1>1, <2>3, Zenon DEF StopChain
        <3>2. row' = RowTo(job.stage, "STOPPING") \/ row' = row
            BY <1>1, <2>3 DEF StopChain
        <3>3. chain'.state = chain.state /\ chain'.stages = chain.stages
            BY <1>0, <3>1 DEF Types, ChainRecord
        <3>4. RowsStay
            BY <1>0, <2>1, <3>2, StoppingRowsStay, UnchangedRowsStay
        <3> QED BY <2>1, <3>1, <3>3, <3>4 DEF QuietStep
    <2> QED BY <2>2, <2>3
<1>2. CASE Shutdown
    <2>1. UNCHANGED <<up, lock, todo, changed, other, recorded, advance, toParent, worker>> /\ todo = <<>>
        BY <1>2 DEF Shutdown, Idle
    <2>2. CASE IsUndecided
        <3>1. RequestStop(FALSE)
            BY <1>2, <2>2 DEF Shutdown
        <3>2. (job.killTimer \/ FALSE) \in BOOLEAN
            BY <1>0 DEF Types, JobRecord
        <3>3. PICK kill \in BOOLEAN : kill = (job.killTimer \/ FALSE)
            BY <3>2
        <3>4. job' = [job EXCEPT !.stopRequested = TRUE, !.killTimer = kill]
            BY <3>1, <3>3, Zenon DEF RequestStop
        <3>5. /\ chain' = [chain EXCEPT !.stopRequested = TRUE]
              /\ row' = RowTo(job.stage, "STOPPING")
              /\ toWorker' = IF job.phase = "FORKED" THEN toWorker ELSE Sent(<<"STOP">>)
            BY <3>1, Zenon DEF RequestStop
        <3> QED BY <1>0, <2>1, <2>2, <3>4, <3>5, StopsAreQuiet
    <2>3. CASE ~IsUndecided
        <3>1. UNCHANGED <<row, job, chain, toWorker>>
            BY <1>2, <2>3 DEF Shutdown
        <3>9. RowsStay
            BY <1>0, <2>1, <3>1, UnchangedRowsStay
        <3> QED BY <1>0, <2>1, <3>1, <3>9 DEF QuietStep
    <2> QED BY <2>2, <2>3
<1>3. CASE StopWorkersAfterLockLost
    <2>1. UNCHANGED <<up, closing, todo, changed, other, recorded, advance, toParent, worker>> /\ lock' = "STOPPED"
        BY <1>3 DEF StopWorkersAfterLockLost
    <2>2. CASE IsUndecided
        <3> PICK kill \in BOOLEAN : kill = TRUE
            OBVIOUS
        <3>1. /\ job' = [job EXCEPT !.stopRequested = TRUE, !.killTimer = kill]
              /\ chain' = [chain EXCEPT !.stopRequested = TRUE]
              /\ row' = RowTo(job.stage, "STOPPING")
              /\ toWorker' = IF job.phase = "FORKED" THEN toWorker ELSE Sent(<<"STOP">>)
            BY <1>3, <2>2, Zenon DEF StopWorkersAfterLockLost
        <3> QED BY <1>0, <2>1, <2>2, <3>1, StopsAreQuiet
    <2>3. CASE ~IsUndecided
        <3>1. UNCHANGED <<row, job, chain, toWorker>>
            BY <1>3, <2>3 DEF StopWorkersAfterLockLost
        <3>9. RowsStay
            BY <1>0, <2>1, <3>1, UnchangedRowsStay
        <3> QED BY <1>0, <2>1, <3>1, <3>9 DEF QuietStep
    <2> QED BY <2>2, <2>3
<1>4. CASE ReviseProfile \/ TakeLockOver \/ NoticeLockLost
    <2>1. UNCHANGED <<up, todo, row, other, recorded, job, advance, chain, toParent, toWorker, worker>> /\ (lock' = "HELD" => lock = "HELD")
        BY <1>4 DEF ReviseProfile, TakeLockOver, NoticeLockLost
    <2>9. RowsStay
        BY <1>0, <2>1, UnchangedRowsStay
    <2> QED BY <1>0, <2>1, <2>9 DEF QuietStep
<1>5. CASE StartOtherJob
    <2>1. UNCHANGED <<up, lock, todo, row, recorded, job, advance, chain, toParent, toWorker, worker>> /\ ActiveStages = {}
        BY <1>5 DEF StartOtherJob, SlotIsFree
    <2>2. \A k \in Stages : ~SlotHeldBy(k)
        BY <2>1 DEF SlotHeldBy, ActiveStages
    <2>3. RowsStay
        BY <2>1, <2>2 DEF RowsStay
    <2> QED BY <2>1, <2>3 DEF QuietStep
<1>6. CASE OtherJobEnds
    <2>1. UNCHANGED <<up, lock, todo, row, recorded, job, advance, chain, toParent, toWorker, worker>> /\ other' = FALSE
        BY <1>6 DEF OtherJobEnds
    <2>2. \A k \in Stages : SlotHeldBy(k) => SlotHeldBy(k)'
        BY <2>1 DEF SlotHeldBy
    <2>3. RowsStay
        BY <2>1, <2>2 DEF RowsStay
    <2> QED BY <2>1, <2>3 DEF QuietStep
<1>7. CASE OtherServerInterrupts
    <2>1. /\ UNCHANGED <<up, lock, todo, recorded, job, advance, chain, toParent, toWorker, worker>>
          /\ lock # "HELD" /\ ~IsAlive /\ todo # <<"LAUNCH">>
          /\ row' = [k \in Stages |-> IF k \in ActiveStages THEN "INTERRUPTED" ELSE row[k]]
        BY <1>7 DEF OtherServerInterrupts
    <2>2. \A k \in Stages : row'[k] = IF row[k] \in ActiveStates THEN "INTERRUPTED" ELSE row[k]
        BY <2>1 DEF ActiveStages
    <2>3. RowsStay
        BY <2>1, <2>2 DEF RowsStay, ActiveStates
    <2> QED BY <2>1, <2>3 DEF QuietStep
<1>8. CASE KillDecided
    <2>1. UNCHANGED <<up, lock, todo, row, other, recorded, job, advance, chain, toParent, toWorker>> /\ IsAlive
        BY <1>8 DEF KillDecided, serverVars
    <2> PICK yes \in BOOLEAN : yes = TRUE
        OBVIOUS
    <2>2. worker' = worker \/ worker' = [worker EXCEPT !.signalled = yes]
        BY <1>8, Zenon DEF KillDecided, Signalled
    <2>3. worker.at # "NONE" /\ worker'.at = worker.at /\ worker'.stage = worker.stage
        BY <1>0, <2>1, <2>2 DEF Types, WorkerRecord, IsAlive
    <2>9. RowsStay
        BY <1>0, <2>1, <2>3, UnchangedRowsStay
    <2> QED BY <1>0, <2>1, <2>3, <2>9 DEF QuietStep
<1>9. CASE AbandonAdvance
    <2>1. UNCHANGED <<up, lock, todo, row, other, recorded, job, chain, toParent, toWorker, worker>> /\ advance' = "NONE"
        BY <1>9 DEF AbandonAdvance
    <2>9. RowsStay
        BY <1>0, <2>1, UnchangedRowsStay
    <2> QED BY <1>0, <2>1, <2>9 DEF QuietStep
<1> QED BY <1>1, <1>2, <1>3, <1>4, <1>5, <1>6, <1>7, <1>8, <1>9

-----------------------------------------------------------------------------
(* Steps of the worker *)

(* A message the worker sends comes after those under way, and fits the     *)
(* phase the server will be in by then.                                     *)
LEMMA SendKeepsLink ==
    ASSUME Types, LinkOK, UNCHANGED job, NEW m \in MessageRecord, toParent' = Append(toParent, m),
           Linked => Fits(m, PhaseAtLast, job.stage)
    PROVE  /\ \A i \in DOMAIN toParent' : Linked' => Fits(toParent'[i], PhaseBefore(i)', job'.stage)
           /\ PhaseAtLast' = PhaseAfter(m)
           /\ \A i \in DOMAIN toParent' : \/ i \in DOMAIN toParent /\ toParent'[i] = toParent[i]
                                          \/ toParent'[i] = m /\ i = Len(toParent')
<1>0. PICK n \in Nat : n = Len(toParent)
    BY DEF Types
<1>1. n \in Nat /\ n = Len(toParent) /\ toParent \in Seq(MessageRecord)
    BY <1>0 DEF Types
<1>2. /\ toParent' # <<>> /\ Len(toParent') = n + 1 /\ DOMAIN toParent' = 1 .. n + 1 /\ DOMAIN toParent = 1 .. n
      /\ \A i \in 1 .. n : toParent'[i] = toParent[i]
      /\ toParent'[n + 1] = m
    BY <1>1
<1>3. \A i \in 1 .. n : PhaseBefore(i)' = PhaseBefore(i)
    <2> TAKE i \in 1 .. n
    <2>1. CASE i = 1
        BY <2>1 DEF PhaseBefore
    <2>2. CASE i # 1
        <3>1. i - 1 \in 1 .. n
            BY <1>1, <2>2
        <3> QED BY <1>2, <2>2, <3>1 DEF PhaseBefore
    <2> QED BY <2>1, <2>2
<1>4. PhaseBefore(n + 1)' = PhaseAtLast
    <2>1. CASE toParent = <<>>
        <3>1. n + 1 = 1
            BY <1>1, <2>1
        <3> QED BY <2>1, <3>1 DEF PhaseBefore, PhaseAtLast
    <2>2. CASE toParent # <<>>
        <3>1. n \in 1 .. n /\ n + 1 # 1 /\ (n + 1) - 1 = n
            BY <1>1, <2>2
        <3> QED BY <1>2, <2>2, <3>1 DEF PhaseBefore, PhaseAtLast
    <2> QED BY <2>1, <2>2
<1>5. Linked' <=> Linked
    BY DEF Linked, IsTracked
<1>6. ASSUME NEW i \in DOMAIN toParent', Linked' PROVE Fits(toParent'[i], PhaseBefore(i)', job'.stage)
    <2>1. CASE i = n + 1
        BY <1>2, <1>4, <1>5, <1>6, <2>1
    <2>2. CASE i # n + 1
        <3>1. i \in 1 .. n
            BY <1>1, <1>2, <2>2
        <3> QED BY <1>2, <1>3, <1>5, <1>6, <3>1 DEF LinkOK
    <2> QED BY <2>1, <2>2
<1>7. PhaseAtLast' = PhaseAfter(m)
    BY <1>2 DEF PhaseAtLast
<1>8. ASSUME NEW i \in DOMAIN toParent'
      PROVE  (i \in DOMAIN toParent /\ toParent'[i] = toParent[i]) \/ (toParent'[i] = m /\ i = Len(toParent'))
    BY <1>1, <1>2
<1> QED BY <1>6, <1>7, <1>8

(* The rows, the results and what is shown are the server's. *)
LEMMA WorkerKeepsTruth == ASSUME TruthOK, UNCHANGED <<up, serverVars>> PROVE TruthOK'
BY DEF TruthOK, serverVars, IsTracked

(* The orders that remain when the first message was read *)
LEMMA ReadTail ==
    ASSUME Types, toWorker # <<>>, toWorker' = Tail(toWorker)
    PROVE  /\ 1 \in DOMAIN toWorker /\ Head(toWorker) = toWorker[1]
           /\ \A i \in DOMAIN toWorker' : i + 1 \in DOMAIN toWorker /\ i + 1 # 1 /\ toWorker'[i] = toWorker[i + 1]
           /\ \A i \in DOMAIN toWorker : i # 1 => i - 1 \in DOMAIN toWorker' /\ toWorker'[i - 1] = toWorker[i]
           /\ DOMAIN toWorker' \subseteq Nat
<1>1. toWorker \in Seq(WorkerMessages)
    BY DEF Types
<1> QED BY <1>1

(* The worker goes: it reports why, or not; what was under way to it is     *)
(* read, or lost.                                                           *)
LEMMA WorkerLeaves ==
    ASSUME ChainInv, Types', UNCHANGED <<up, serverVars>>, IsAlive, worker'.at \in {"EXITING", "GONE"},
           \/ toWorker' = toWorker
           \/ toWorker # <<>> /\ toWorker' = Tail(toWorker)
           \/ toWorker' = <<>>,
           \/ toParent' = toParent
           \/ /\ up /\ worker.at # "EXITING" /\ worker'.at = "EXITING"
              /\ \E m \in MessageRecord : m.type = "FAILED" /\ toParent' = Append(toParent, m)
    PROVE  ChainInv'
<1>1. UNCHANGED <<up, closing, lock, todo, changed, row, other, recorded, job, advance, chain>>
    BY DEF serverVars
<1>2. Types /\ LifeOK /\ LinkOK /\ OrdersOK /\ SlotOK /\ TruthOK
    BY DEF ChainInv
<1>3. worker.at # "NONE" /\ worker # NoWorker /\ (up => chain.state # "NONE" /\ IsTracked /\ StageLife)
    BY <1>2, StartRecords DEF IsAlive, LifeOK, ServerLife, StillAwaited
<1>4. LifeOK'
    <2>1. ServerLife'
        <3>1. ~up => toParent' = toParent
            OBVIOUS
        <3>2. up => StillAwaited
            BY <1>2 DEF LifeOK, ServerLife
        <3> QED BY <1>1, <1>2, <1>3, <3>1, <3>2 DEF LifeOK, ServerLife, IsTracked, StillAwaited, ExitSeen
    <2>2. ASSUME IsTracked PROVE StageLife'
        <3>1. StageLife /\ up /\ job.ipc = "OPEN"
            BY <1>2, <2>2, StartRecords DEF LifeOK, ServerLife, IsTracked, StillAwaited, ExitSeen
        <3>2. toWorker = <<>> => toWorker' = <<>>
            OBVIOUS
        <3> QED BY <1>1, <3>1, <3>2 DEF StageLife, StillAwaited, ExitSeen, IsTracked
    <2> QED BY <1>1, <2>1, <2>2 DEF LifeOK, IsTracked
<1>5. LinkOK'
    <2>1. CASE toParent' = toParent
        <3>1. \A i \in DOMAIN toParent : PhaseBefore(i)' = PhaseBefore(i)
            BY <1>1, <2>1 DEF PhaseBefore
        <3> QED BY <1>1, <1>2, <2>1, <3>1 DEF LinkOK, Linked, IsTracked
    <2>2. ASSUME NEW m \in MessageRecord, m.type = "FAILED", toParent' = Append(toParent, m),
                 worker.at # "EXITING", worker'.at = "EXITING"
          PROVE  LinkOK'
        <3>1. Fits(m, PhaseAtLast, job.stage)
            BY <2>2 DEF Fits
        <3>2. /\ \A i \in DOMAIN toParent' : Linked' => Fits(toParent'[i], PhaseBefore(i)', job'.stage)
              /\ \A i \in DOMAIN toParent' : \/ i \in DOMAIN toParent /\ toParent'[i] = toParent[i]
                                             \/ toParent'[i] = m /\ i = Len(toParent')
            BY <1>1, <1>2, <2>2, <3>1, SendKeepsLink
        <3>3. \A i \in DOMAIN toParent : toParent[i].type # "FAILED"
            BY <1>2, <2>2 DEF LinkOK, IsAlive
        <3>4. \A i \in DOMAIN toParent' : toParent'[i].type = "FAILED" => i = Len(toParent')
            BY <3>2, <3>3
        <3> QED BY <2>2, <3>2, <3>4 DEF LinkOK
    <2> QED BY <2>1, <2>2
<1>6. OrdersOK'
    <2>1. ASSUME NEW i \in DOMAIN toWorker', NEW j \in DOMAIN toWorker', toWorker'[i] \in Orders, toWorker'[j] \in Orders
          PROVE  i = j
        <3>1. CASE toWorker' = toWorker
            BY <1>2, <2>1, <3>1 DEF OrdersOK
        <3>2. CASE toWorker # <<>> /\ toWorker' = Tail(toWorker)
            <4>1. /\ i + 1 \in DOMAIN toWorker /\ toWorker'[i] = toWorker[i + 1]
                  /\ j + 1 \in DOMAIN toWorker /\ toWorker'[j] = toWorker[j + 1]
                  /\ i \in Nat /\ j \in Nat
                BY <1>2, <2>1, <3>2, ReadTail
            <4>2. i + 1 = j + 1
                BY <1>2, <2>1, <4>1 DEF OrdersOK
            <4> QED BY <4>1, <4>2
        <3>3. CASE toWorker' = <<>>
            BY <2>1, <3>3
        <3> QED BY <3>1, <3>2, <3>3
    <2> QED BY <2>1 DEF OrdersOK
<1>7. SlotOK'
    <2>1. IsTracked /\ ~job.rowRecorded => SlotHeldBy(job.stage)
        BY <1>2 DEF SlotOK
    <2>2. todo = <<"LAUNCH">> => SlotHeldBy(1)
        BY <1>2 DEF SlotOK
    <2> QED BY <1>1, <2>1, <2>2 DEF SlotOK, SlotHeldBy, IsTracked
<1>8. TruthOK'
    BY <1>2, WorkerKeepsTruth
<1> QED BY <1>4, <1>5, <1>6, <1>7, <1>8 DEF ChainInv

(* What a step from one place of the worker to another reports *)
ReportsOf(from, to, m) ==
    \/ from = "BOOTING" /\ to = "WAITING" /\ m.type = "READY"
    \/ from = "STAGE" /\ to = "RUN" /\ m.type = "RUN_STARTED"
    \/ from = "RUN" /\ to = "RUN" /\ m.type = "SESSION_LOST"
    \/ from \in {"STAGE", "RUN"} /\ to \in {"AWAIT", "EXITING"} /\ m.type = "FINISHED" /\ m.ran = (from = "RUN")

(* A worker that moves on and reports it, as ReportsOf allows, keeps the invariant. *)
LEMMA WorkerReports ==
    ASSUME ChainInv, Types', UNCHANGED <<up, serverVars, toWorker>>, worker'.stage = worker.stage,
           NEW m \in MessageRecord, m.stage = worker.stage, ReportsOf(worker.at, worker'.at, m),
           toParent' = IF up THEN Append(toParent, m) ELSE toParent
    PROVE  ChainInv'
<1>1. UNCHANGED <<up, closing, lock, todo, changed, row, other, recorded, job, advance, chain, toWorker>>
    BY DEF serverVars
<1>2. Types /\ LifeOK /\ LinkOK /\ OrdersOK /\ SlotOK /\ TruthOK
    BY DEF ChainInv
<1>3. /\ worker.at \in {"BOOTING", "STAGE", "RUN"} /\ IsAlive
      /\ worker'.at \in {"WAITING", "RUN", "AWAIT", "EXITING"} /\ IsAlive'
    BY DEF ReportsOf, IsAlive
<1>4. worker # NoWorker /\ (up => StillAwaited /\ IsTracked /\ chain.state # "NONE" /\ StageLife)
    BY <1>2, <1>3, StartRecords DEF LifeOK, ServerLife, StillAwaited
<1>5. ~up => ~IsTracked
    BY <1>2, StartRecords DEF LifeOK, ServerLife, IsTracked
<1>6. m.type # "FAILED"
    BY DEF ReportsOf
<1>7. up => job.stage = worker.stage \/ worker.at = "BOOTING"
    BY <1>2, <1>3 DEF SlotOK
<1>8. LifeOK'
    <2>1. ServerLife'
        BY <1>1, <1>2, <1>3, <1>4 DEF LifeOK, ServerLife, IsTracked, StillAwaited, ExitSeen
    <2>2. ASSUME IsTracked PROVE StageLife'
        <3>1. up /\ StageLife /\ StillAwaited
            BY <1>4, <1>5, <2>2
        <3>2. worker.at # "BOOTING" => job.phase # "FORKED"
            BY <1>3, <3>1 DEF StageLife
        <3>3. worker.at = "BOOTING" => worker'.at = "WAITING"
            BY DEF ReportsOf
        <3> QED BY <1>1, <1>3, <3>1, <3>2, <3>3 DEF StageLife, StillAwaited, ExitSeen, IsTracked
    <2> QED BY <1>1, <2>1, <2>2 DEF LifeOK, IsTracked
<1>9. LinkOK'
    <2>1. CASE up
        <3>1. toParent' = Append(toParent, m)
            BY <2>1
        <3>2. Linked => Fits(m, PhaseAtLast, job.stage)
            <4>1. CASE worker.at = "BOOTING"
                BY <1>2, <4>1 DEF LinkOK, ReportsOf, Fits
            <4>2. CASE worker.at = "STAGE"
                BY <1>2, <1>7, <2>1, <4>2 DEF LinkOK, ReportsOf, Fits
            <4>3. CASE worker.at = "RUN"
                BY <1>2, <1>7, <2>1, <4>3 DEF LinkOK, ReportsOf, Fits
            <4> QED BY <1>3, <4>1, <4>2, <4>3
        <3>3. /\ \A i \in DOMAIN toParent' : Linked' => Fits(toParent'[i], PhaseBefore(i)', job'.stage)
              /\ PhaseAtLast' = PhaseAfter(m)
              /\ \A i \in DOMAIN toParent' : \/ i \in DOMAIN toParent /\ toParent'[i] = toParent[i]
                                             \/ toParent'[i] = m /\ i = Len(toParent')
            BY <1>1, <1>2, <3>1, <3>2, SendKeepsLink
        <3>4. \A i \in DOMAIN toParent' : toParent'[i].type # "FAILED"
            BY <1>2, <1>3, <1>6, <3>3 DEF LinkOK
        <3>5. /\ worker'.at = "WAITING" => PhaseAtLast' = "STARTED"
              /\ worker'.at = "RUN" => PhaseAtLast' = "RUN"
              /\ worker'.at = "AWAIT" => PhaseAtLast' = "DONE" /\ worker.stage = job.stage
            BY <1>7, <2>1, <3>3 DEF ReportsOf, PhaseAfter
        <3> QED BY <1>1, <1>3, <3>3, <3>4, <3>5 DEF LinkOK
    <2>2. CASE ~up
        <3>1. toParent' = toParent /\ toParent = <<>> /\ ~Linked'
            BY <1>1, <1>2, <1>5, <2>2 DEF LifeOK, ServerLife, Linked, IsTracked
        <3> QED BY <3>1 DEF LinkOK
    <2> QED BY <2>1, <2>2
<1>10. OrdersOK'
    <2>1. \A i \in DOMAIN toWorker : toWorker[i] \notin Orders
        BY <1>2, <1>3 DEF OrdersOK, Orders
    <2> QED BY <1>1, <2>1 DEF OrdersOK, Orders
<1>11. SlotOK'
    <2>1. \A k \in Stages : SlotHeldBy(k)' <=> SlotHeldBy(k)
        BY <1>1 DEF SlotHeldBy
    <2>2. worker'.at = "WAITING" => SlotHeldBy(1) /\ (up => job.stage = 1)
        BY <1>2 DEF SlotOK, ReportsOf
    <2>3. worker'.at # "WAITING" => worker.stage \in Stages /\ SlotHeldBy(worker.stage) /\ (up => job.stage = worker.stage)
        BY <1>2 DEF SlotOK, ReportsOf
    <2>4. todo = <<"LAUNCH">> => SlotHeldBy(1)
        BY <1>2 DEF SlotOK
    <2>5. IsTracked /\ ~job.rowRecorded => SlotHeldBy(job.stage)
        BY <1>2, <1>3 DEF SlotOK
    <2> QED BY <1>1, <1>3, <2>2, <2>3, <2>4, <2>5 DEF SlotOK, SlotHeldBy, IsTracked
<1>12. TruthOK'
    BY <1>1, <1>2 DEF TruthOK, IsTracked
<1> QED BY <1>8, <1>9, <1>10, <1>11, <1>12 DEF ChainInv

(* The worker reads what is first under way and goes on: with the stage it  *)
(* was started for, with the next stage, or with the stage it works on.     *)
LEMMA WorkerReads ==
    ASSUME ChainInv, Types', UNCHANGED <<up, serverVars, toParent>>,
           toWorker # <<>>, toWorker' = Tail(toWorker),
           \/ worker.at \in {"STAGE", "RUN"} /\ worker'.at = worker.at /\ worker'.stage = worker.stage
           \/ worker.at = "WAITING" /\ worker'.at = "STAGE" /\ worker'.stage = 1 /\ Head(toWorker) = "START"
           \/ worker.at = "AWAIT" /\ worker'.at = "STAGE" /\ worker'.stage = worker.stage + 1 /\ Head(toWorker) = "NEXT_STAGE"
    PROVE  ChainInv'
<1>1. UNCHANGED <<up, closing, lock, todo, changed, row, other, recorded, job, advance, chain, toParent>>
    BY DEF serverVars
<1>2. Types /\ LifeOK /\ LinkOK /\ OrdersOK /\ SlotOK /\ TruthOK
    BY DEF ChainInv
<1>3. /\ worker.at \in {"WAITING", "AWAIT", "STAGE", "RUN"} /\ IsAlive
      /\ worker'.at \in {"STAGE", "RUN"} /\ IsAlive'
    BY DEF IsAlive
<1>4. worker # NoWorker /\ (up => StillAwaited /\ IsTracked /\ chain.state # "NONE" /\ StageLife)
    BY <1>2, <1>3, StartRecords DEF LifeOK, ServerLife, StillAwaited
<1>5. ~up => ~IsTracked
    BY <1>2, StartRecords DEF LifeOK, ServerLife, IsTracked
<1>6. /\ 1 \in DOMAIN toWorker /\ Head(toWorker) = toWorker[1]
      /\ \A i \in DOMAIN toWorker' : i + 1 \in DOMAIN toWorker /\ i + 1 # 1 /\ toWorker'[i] = toWorker[i + 1]
    BY <1>2, ReadTail
<1>7. worker.at = "AWAIT" =>
        /\ worker.stage + 1 \in Stages /\ SlotHeldBy(worker.stage + 1)
        /\ up => /\ job.stage = worker.stage + 1 /\ job.ending # "FINISHED"
                 /\ job.ending = "NONE" => job.phase = "STARTED" /\ toParent = <<>>
    BY <1>2, <1>6 DEF OrdersOK
<1>8. \A i \in DOMAIN toWorker' : toWorker'[i] \notin Orders
    <2>1. CASE worker.at \in {"STAGE", "RUN"}
        BY <1>2, <1>6, <2>1 DEF OrdersOK, Orders
    <2>2. CASE toWorker[1] \in Orders
        BY <1>2, <1>6, <2>2 DEF OrdersOK
    <2> QED BY <1>6, <2>1, <2>2 DEF Orders
<1>9. LifeOK'
    <2>1. ServerLife'
        BY <1>1, <1>2, <1>3, <1>4 DEF LifeOK, ServerLife, IsTracked, StillAwaited, ExitSeen
    <2>2. ASSUME IsTracked PROVE StageLife'
        <3>1. up /\ StageLife /\ StillAwaited
            BY <1>4, <1>5, <2>2
        <3>2. job.phase # "FORKED"
            BY <3>1 DEF StageLife
        <3> QED BY <1>1, <1>3, <3>1, <3>2 DEF StageLife, StillAwaited, ExitSeen, IsTracked
    <2> QED BY <1>1, <2>1, <2>2 DEF LifeOK, IsTracked
<1>10. LinkOK'
    <2>1. \A i \in DOMAIN toParent : PhaseBefore(i)' = PhaseBefore(i)
        BY <1>1 DEF PhaseBefore
    <2>2. PhaseAtLast' = PhaseAtLast /\ (Linked' <=> Linked)
        BY <1>1 DEF PhaseAtLast, Linked, IsTracked
    <2>3. \A i \in DOMAIN toParent : toParent[i].type # "FAILED"
        BY <1>2, <1>3 DEF LinkOK
    <2>4. Linked => (worker'.at = "STAGE" => PhaseAtLast = "STARTED") /\ (worker'.at = "RUN" => PhaseAtLast = "RUN")
        <3>1. CASE worker.at = "AWAIT"
            BY <1>5, <1>7, <3>1 DEF Linked, PhaseAtLast
        <3>2. CASE worker.at # "AWAIT"
            BY <1>2, <3>2 DEF LinkOK
        <3> QED BY <3>1, <3>2
    <2> QED BY <1>1, <1>2, <1>3, <2>1, <2>2, <2>3, <2>4 DEF LinkOK
<1>11. OrdersOK'
    BY <1>8 DEF OrdersOK, Orders
<1>12. SlotOK'
    <2>1. worker'.stage \in Stages /\ SlotHeldBy(worker'.stage) /\ (up => job.stage = worker'.stage)
        <3>1. CASE worker.at \in {"STAGE", "RUN"}
            BY <1>2, <3>1 DEF SlotOK
        <3>2. CASE worker.at = "WAITING"
            BY <1>2, <3>2, ChainStagesAre DEF SlotOK
        <3>3. CASE worker.at = "AWAIT"
            BY <1>7, <3>3
        <3> QED BY <1>3, <3>1, <3>2, <3>3
    <2>2. todo = <<"LAUNCH">> => SlotHeldBy(1)
        BY <1>2 DEF SlotOK
    <2>3. IsTracked /\ ~job.rowRecorded => SlotHeldBy(job.stage)
        BY <1>2, <1>3 DEF SlotOK
    <2> QED BY <1>1, <1>3, <2>1, <2>2, <2>3 DEF SlotOK, SlotHeldBy, IsTracked
<1>13. TruthOK'
    BY <1>1, <1>2 DEF TruthOK, IsTracked
<1> QED BY <1>9, <1>10, <1>11, <1>12, <1>13 DEF ChainInv

(* Every step of the worker keeps the invariant.                            *)
LEMMA WorkerKeepsInv == ASSUME ChainInv, Types', Worker PROVE ChainInv'
<1>0. Types /\ worker \in WorkerRecord
    BY DEF ChainInv, Types
<1> PICK yes \in BOOLEAN : yes = TRUE
    OBVIOUS
<1> PICK no \in BOOLEAN : no = FALSE
    OBVIOUS
<1>1. /\ \A type \in {"READY", "RUN_STARTED", "SESSION_LOST", "FAILED"} :
             Message(type) \in MessageRecord /\ Message(type).type = type /\ Message(type).stage = worker.stage
      /\ \A ran \in BOOLEAN, found \in SUBSET Reasons :
             LET m == [Message("FINISHED") EXCEPT !.ran = ran, !.findings = found]
             IN  m \in MessageRecord /\ m.type = "FINISHED" /\ m.stage = worker.stage /\ m.ran = ran
    BY <1>0, WorkerMessagesAreMessages
<1>2. CASE WorkerBoots
    <2>1. UNCHANGED <<up, serverVars, toWorker>> /\ toParent' = IF up THEN Append(toParent, Message("READY")) ELSE toParent
        BY <1>2 DEF WorkerBoots, Works, Transmitted
    <2>2. worker.at = "BOOTING" /\ worker'.at = "WAITING" /\ worker'.stage = worker.stage
        BY <1>0, <1>2 DEF WorkerBoots, WorkerRecord
    <2>3. ReportsOf(worker.at, worker'.at, Message("READY"))
        BY <1>1, <2>2 DEF ReportsOf
    <2> QED BY <1>1, <2>1, <2>2, <2>3, WorkerReports
<1>3. CASE StartRun
    <2>1. UNCHANGED <<up, serverVars, toWorker>> /\ toParent' = IF up THEN Append(toParent, Message("RUN_STARTED")) ELSE toParent
        BY <1>3 DEF StartRun, Works, Transmitted
    <2>2. worker.at = "STAGE" /\ worker'.at = "RUN" /\ worker'.stage = worker.stage
        BY <1>0, <1>3 DEF StartRun, WorkerRecord
    <2>3. ReportsOf(worker.at, worker'.at, Message("RUN_STARTED"))
        BY <1>1, <2>2 DEF ReportsOf
    <2> QED BY <1>1, <2>1, <2>2, <2>3, WorkerReports
<1>4. CASE LoseSession
    <2>1. UNCHANGED <<up, serverVars, toWorker>> /\ toParent' = IF up THEN Append(toParent, Message("SESSION_LOST")) ELSE toParent
        BY <1>4 DEF LoseSession, Works, Transmitted
    <2>2. worker' = [worker EXCEPT !.lostSession = yes] /\ worker.at = "RUN"
        BY <1>4, Zenon DEF LoseSession
    <2>3. worker'.at = "RUN" /\ worker'.stage = worker.stage
        BY <1>0, <2>2 DEF WorkerRecord
    <2>4. ReportsOf(worker.at, worker'.at, Message("SESSION_LOST"))
        BY <1>1, <2>2, <2>3 DEF ReportsOf
    <2> QED BY <1>1, <2>1, <2>3, <2>4, WorkerReports
<1>5. ASSUME NEW found \in Findings, FinishStage(found) PROVE ChainInv'
    <2>1. found \in SUBSET Reasons
        BY ChainStagesAre
    <2>2. PICK ran \in BOOLEAN : ran = (worker.at = "RUN")
        OBVIOUS
    <2> DEFINE m == [Message("FINISHED") EXCEPT !.ran = ran, !.findings = found]
    <2>3. m \in MessageRecord /\ m.type = "FINISHED" /\ m.stage = worker.stage /\ m.ran = ran
        <3>1. Message("FINISHED") = [type |-> "FINISHED", stage |-> worker.stage, ran |-> no, findings |-> {}]
            BY DEF Message
        <3>2. /\ Message("FINISHED") \in MessageRecord /\ Message("FINISHED").type = "FINISHED"
              /\ Message("FINISHED").stage = worker.stage
            BY <1>0, <3>1 DEF MessageRecord, WorkerRecord
        <3> QED BY <2>1, <3>2 DEF MessageRecord
    <2>4. toParent' = Transmitted(m)
        BY <1>5, <2>2, Zenon DEF FinishStage
    <2> HIDE DEF m
    <2>5. worker.at \in {"STAGE", "RUN"} /\ UNCHANGED <<up, serverVars, toWorker>>
        BY <1>5 DEF FinishStage, Works
    <2>6. PICK at \in {"AWAIT", "EXITING"} : at = IF worker.stage = LastStage \/ worker.aborted THEN "EXITING" ELSE "AWAIT"
        OBVIOUS
    <2>7. worker' = [worker EXCEPT !.at = at, !.lostSession = no]
        BY <1>5, <2>6, Zenon DEF FinishStage, AfterStage
    <2>8. worker'.at = at /\ worker'.stage = worker.stage
        BY <1>0, <2>7 DEF WorkerRecord
    <2>9. ReportsOf(worker.at, worker'.at, m)
        BY <2>2, <2>3, <2>5, <2>8 DEF ReportsOf
    <2>10. toParent' = IF up THEN Append(toParent, m) ELSE toParent
        BY <2>4 DEF Transmitted
    <2> QED BY <2>3, <2>5, <2>8, <2>9, <2>10, WorkerReports
<1>6. CASE FailWorker
    <2>1. UNCHANGED <<up, serverVars, toWorker>> /\ toParent' = IF up THEN Append(toParent, Message("FAILED")) ELSE toParent
        BY <1>6 DEF FailWorker, Works, Transmitted
    <2>2. IsAlive /\ worker.at # "EXITING" /\ worker'.at = "EXITING"
        BY <1>0, <1>6 DEF FailWorker, WorkerRecord, IsAlive
    <2>3. \/ toParent' = toParent
          \/ /\ up /\ worker.at # "EXITING" /\ worker'.at = "EXITING"
             /\ \E m \in MessageRecord : m.type = "FAILED" /\ toParent' = Append(toParent, m)
        BY <1>1, <2>1, <2>2
    <2> QED BY <2>1, <2>2, <2>3, WorkerLeaves
<1>7. CASE ReadStart
    <2>1. /\ worker.at = "WAITING" /\ worker' = [worker EXCEPT !.at = "STAGE", !.stage = 1]
          /\ toWorker # <<>> /\ Head(toWorker) = "START" /\ toWorker' = Tail(toWorker)
          /\ UNCHANGED <<up, serverVars, toParent>>
        BY <1>7 DEF ReadStart, Reads, Works
    <2>2. worker'.at = "STAGE" /\ worker'.stage = 1
        BY <1>0, <2>1 DEF WorkerRecord
    <2> QED BY <2>1, <2>2, WorkerReads
<1>8. CASE ReadNextStage
    <2>1. /\ worker.at = "AWAIT" /\ worker' = [worker EXCEPT !.at = "STAGE", !.stage = worker.stage + 1]
          /\ toWorker # <<>> /\ Head(toWorker) = "NEXT_STAGE" /\ toWorker' = Tail(toWorker)
          /\ UNCHANGED <<up, serverVars, toParent>>
        BY <1>8 DEF ReadNextStage, Reads, Works
    <2>2. worker'.at = "STAGE" /\ worker'.stage = worker.stage + 1
        BY <1>0, <2>1 DEF WorkerRecord
    <2> QED BY <2>1, <2>2, WorkerReads
<1>9. CASE ReadStop
    <2>1. /\ worker.at \in {"WAITING", "STAGE", "RUN", "AWAIT"}
          /\ toWorker # <<>> /\ toWorker' = Tail(toWorker)
          /\ UNCHANGED <<up, serverVars, toParent>>
        BY <1>9 DEF ReadStop, Reads, Works
    <2>2. \/ worker' = [worker EXCEPT !.at = "EXITING"]
          \/ worker.at \in {"STAGE", "RUN"} /\ worker' = [worker EXCEPT !.aborted = yes]
        <3>1. worker' = [worker EXCEPT !.at = "EXITING"] \/ worker' = Interrupted(worker)
            BY <1>9, Zenon DEF ReadStop
        <3>2. worker.at \in {"WAITING", "AWAIT"} => Interrupted(worker) = [worker EXCEPT !.at = "EXITING"]
            BY Zenon DEF Interrupted
        <3>3. \/ Interrupted(worker) = [worker EXCEPT !.at = "EXITING"]
              \/ Interrupted(worker) = [worker EXCEPT !.aborted = yes]
            BY Zenon DEF Interrupted
        <3>4. worker.at \in {"WAITING", "AWAIT"} \/ worker.at \in {"STAGE", "RUN"}
            BY <2>1
        <3> QED BY <3>1, <3>2, <3>3, <3>4, Zenon
    <2>3. CASE worker' = [worker EXCEPT !.at = "EXITING"]
        <3>1. IsAlive /\ worker'.at = "EXITING"
            BY <1>0, <2>1, <2>3 DEF WorkerRecord, IsAlive
        <3> QED BY <2>1, <3>1, WorkerLeaves
    <2>4. CASE worker.at \in {"STAGE", "RUN"} /\ worker' = [worker EXCEPT !.aborted = yes]
        <3>1. worker'.at = worker.at /\ worker'.stage = worker.stage
            BY <1>0, <2>4 DEF WorkerRecord
        <3> QED BY <2>1, <2>4, <3>1, WorkerReads
    <2> QED BY <2>2, <2>3, <2>4
<1>10. CASE ReadChainEnd
    <2>1. /\ IsAlive /\ toWorker # <<>> /\ toWorker' = Tail(toWorker) /\ UNCHANGED <<up, serverVars, toParent>>
          /\ worker' = [worker EXCEPT !.at = "EXITING"]
        BY <1>10 DEF ReadChainEnd, Reads, Works, IsAlive
    <2>2. worker'.at = "EXITING"
        BY <1>0, <2>1 DEF WorkerRecord
    <2> QED BY <2>1, <2>2, WorkerLeaves
<1>11. CASE AwaitTimesOut
    <2>1. IsAlive /\ UNCHANGED <<up, serverVars, toParent, toWorker>> /\ worker' = [worker EXCEPT !.at = "EXITING"]
        BY <1>11 DEF AwaitTimesOut, Works, IsAlive
    <2>2. worker'.at = "EXITING"
        BY <1>0, <2>1 DEF WorkerRecord
    <2> QED BY <2>1, <2>2, WorkerLeaves
<1>12. CASE WorkerEnds
    <2>1. IsAlive /\ UNCHANGED <<up, serverVars, toParent>> /\ toWorker' = <<>> /\ worker' = [worker EXCEPT !.at = "GONE"]
        BY <1>12 DEF WorkerEnds, Works
    <2>2. worker'.at = "GONE"
        BY <1>0, <2>1 DEF WorkerRecord
    <2> QED BY <2>1, <2>2, WorkerLeaves
<1>13. CASE TakeSignal
    <2>1. IsAlive /\ UNCHANGED <<up, serverVars, toParent, toWorker>>
        BY <1>13, Zenon DEF TakeSignal, Works
    <2>2. PICK w \in WorkerRecord :
             /\ w.stage = worker.stage /\ w.at \in {worker.at, "EXITING"}
             /\ worker' = [worker EXCEPT !.at = "GONE"] \/ worker' = [w EXCEPT !.signalled = no]
        <3>1. \/ worker' = [worker EXCEPT !.at = "GONE"]
              \/ worker' = [Interrupted(worker) EXCEPT !.signalled = no]
            BY <1>13, Zenon DEF TakeSignal
        <3>2. \/ Interrupted(worker) = [worker EXCEPT !.at = "EXITING"]
              \/ Interrupted(worker) = [worker EXCEPT !.aborted = yes]
            BY Zenon DEF Interrupted
        <3>3. /\ Interrupted(worker) \in WorkerRecord /\ Interrupted(worker).stage = worker.stage
              /\ Interrupted(worker).at \in {worker.at, "EXITING"}
            BY <1>0, <3>2 DEF WorkerRecord
        <3> QED BY <3>1, <3>3
    <2>3. /\ worker'.at \in {"GONE", "EXITING", worker.at}
          /\ worker'.at = worker.at => worker'.stage = worker.stage
        BY <1>0, <2>2 DEF WorkerRecord
    <2>4. CASE worker'.at \in {"GONE", "EXITING"}
        BY <2>1, <2>4, WorkerLeaves
    <2>5. CASE worker'.at = worker.at
        <3>1. UNCHANGED <<up, lock, todo, row, other, recorded, job, advance, chain, toParent, toWorker>>
            BY <2>1 DEF serverVars
        <3>2. worker.at # "NONE" /\ worker'.stage = worker.stage
            BY <2>1, <2>3, <2>5 DEF IsAlive
        <3>3. RowsStay
            BY <1>0, <3>1, UnchangedRowsStay
        <3>4. QuietStep
            BY <2>5, <3>1, <3>2, <3>3 DEF QuietStep
        <3> QED BY <3>4, QuietStepsKeepInv
    <2> QED BY <2>3, <2>4, <2>5
<1> QED BY <1>2, <1>3, <1>4, <1>5, <1>6, <1>7, <1>8, <1>9, <1>10, <1>11, <1>12, <1>13 DEF Worker

-----------------------------------------------------------------------------
(* The server: its start, its end, and the launch *)

(* Before the launch there is nothing but, at most, the row it is for. *)
LEMMA NothingYet ==
    ASSUME ChainInv, up, chain.state = "NONE"
    PROVE  /\ chain = NoChain /\ job = NoJob /\ advance = "NONE" /\ worker = NoWorker /\ worker.at = "NONE" /\ ~IsTracked
           /\ toWorker = <<>> /\ toParent = <<>>
           /\ \A k \in Stages : recorded[k] = 0 /\ chain.stages[k] = "PENDING"
           /\ \A k \in Stages : k > 1 => row[k] = "NONE"
BY StartRecords DEF ChainInv, LifeOK, ServerLife, IsTracked

(* The start of a chain, which creates the row of its first stage, keeps the invariant. *)
LEMMA StartStageChainKeepsInv == ASSUME ChainInv, Types', StartStageChain PROVE ChainInv'
<1>1. /\ up /\ todo = <<>> /\ chain = NoChain /\ todo' = <<"LAUNCH">>
      /\ row' = [row EXCEPT ![1] = "STARTING"] /\ SlotIsFree
      /\ UNCHANGED <<up, closing, lock, changed, other, recorded, job, advance, chain, toParent, toWorker, worker>>
    BY DEF StartStageChain, Idle
<1>2. chain.state = "NONE" /\ NoChain.state = "NONE"
    BY <1>1, StartRecords
<1>3. /\ job = NoJob /\ advance = "NONE" /\ worker = NoWorker /\ worker.at = "NONE" /\ ~IsTracked
      /\ toWorker = <<>> /\ toParent = <<>>
      /\ \A k \in Stages : recorded[k] = 0 /\ chain.stages[k] = "PENDING"
      /\ \A k \in Stages : k > 1 => row[k] = "NONE"
    BY <1>1, <1>2, NothingYet
<1>4. row'[1] = "STARTING" /\ \A k \in Stages : k # 1 => row'[k] = row[k]
    BY <1>1, ChainStagesAre DEF ChainInv, Types
<1>5. \A k \in Stages : k # 1 => k > 1
    BY ChainStagesAre
<1>6. LifeOK'
    BY <1>1, <1>2, <1>3, <1>4, <1>5 DEF LifeOK, ServerLife, IsTracked, IsAlive
<1>7. LinkOK' /\ OrdersOK'
    BY <1>1, <1>3 DEF LinkOK, OrdersOK, Linked, IsTracked
<1>8. SlotOK'
    <2>1. ~other /\ \A k \in Stages : row[k] \notin ActiveStates
        BY <1>1 DEF SlotIsFree, ActiveStages
    <2>2. SlotHeldBy(1)'
        BY <1>1, <1>4, <2>1 DEF SlotHeldBy, ActiveStates
    <2> QED BY <1>1, <1>3, <2>2 DEF SlotOK, IsTracked
<1>9. TruthOK'
    <2>1. \A k \in Stages : k < LastStage => row'[k + 1] = "NONE"
        <3> TAKE k \in Stages
        <3>1. k < LastStage => k + 1 \in Stages /\ k + 1 > 1
            BY ChainStagesAre
        <3> QED BY <1>3, <1>4, <3>1
    <2> QED BY <1>1, <1>2, <1>3, <2>1 DEF TruthOK, IsTracked
<1> QED BY <1>6, <1>7, <1>8, <1>9 DEF ChainInv

(* The launch of the worker keeps the invariant.                            *)
LEMMA LaunchKeepsInv == ASSUME ChainInv, Types', Launch PROVE ChainInv'
<1>1. /\ up /\ todo = <<"LAUNCH">> /\ todo' = <<>> /\ chain' = FirstStageRuns /\ job' = JobOfStage(1, "FORKED")
      /\ worker' = [NoWorker EXCEPT !.at = "BOOTING"]
      /\ UNCHANGED <<up, closing, lock, changed, row, other, recorded, advance, toParent, toWorker>>
    BY DEF Launch
<1>2. chain.state = "NONE" /\ SlotHeldBy(1)
    BY <1>1 DEF ChainInv, LifeOK, ServerLife, SlotOK
<1>3. /\ advance = "NONE" /\ toWorker = <<>> /\ toParent = <<>>
      /\ \A k \in Stages : recorded[k] = 0
      /\ \A k \in Stages : k > 1 => row[k] = "NONE"
    BY <1>1, <1>2, NothingYet
<1>4. /\ job'.stage = 1 /\ job'.phase = "FORKED" /\ job'.ending = "NONE" /\ ~job'.ran
      /\ job'.result = "NONE" /\ ~job'.rowRecorded /\ job'.ipc = "OPEN"
    BY <1>1, NewJobs, ChainStagesAre
<1>5. worker'.at = "BOOTING" /\ worker'.stage = 0
    BY <1>1, StartRecords DEF WorkerRecord
<1>6. /\ chain'.state = "RUNNING" /\ ~chain'.stopRequested
      /\ \A k \in Stages : chain'.stages[k] = (IF k = 1 THEN "RUNNING" ELSE "PENDING")
    BY <1>1, FirstStageRunsFields
<1>7. IsTracked'
    BY <1>4 DEF IsTracked
<1>8. LifeOK'
    <2>1. ServerLife'
        BY <1>1, <1>4, <1>6, <1>7 DEF ServerLife, StillAwaited, ExitSeen
    <2>2. StageLife'
        BY <1>1, <1>3, <1>4, <1>5, <1>6 DEF StageLife, StillAwaited
    <2> QED BY <2>1, <2>2 DEF LifeOK
<1>9. LinkOK'
    BY <1>1, <1>3, <1>4, <1>5 DEF LinkOK, PhaseAtLast
<1>10. OrdersOK'
    BY <1>1, <1>3 DEF OrdersOK
<1>11. SlotOK'
    <2>1. SlotHeldBy(1)'
        BY <1>1, <1>2 DEF SlotHeldBy
    <2> QED BY <1>1, <1>4, <1>5, <2>1 DEF SlotOK, SlotHeldBy
<1>12. TruthOK'
    <2>1. \A k \in Stages : k < LastStage => row'[k + 1] = "NONE"
        <3> TAKE k \in Stages
        <3>1. k < LastStage => k + 1 \in Stages /\ k + 1 > 1
            BY ChainStagesAre
        <3> QED BY <1>1, <1>3, <3>1
    <2>2. \A k \in Stages : ~(k < 1)
        BY ChainStagesAre
    <2> QED BY <1>1, <1>3, <1>4, <1>6, <1>7, <2>1, <2>2, ChainStagesAre DEF TruthOK
<1> QED BY <1>8, <1>9, <1>10, <1>11, <1>12 DEF ChainInv

(* A launch that fails keeps the invariant: the row ends, nothing is tracked. *)
LEMMA FailLaunchKeepsInv == ASSUME ChainInv, Types', FailLaunch PROVE ChainInv'
<1>1. /\ up /\ todo = <<"LAUNCH">> /\ todo' = <<>> /\ row' = RowTo(1, "FAILED")
      /\ chain' \in {FirstStageRuns, Closed(FirstStageRuns, "STAGE_FAILED", "NOT_STARTED")}
      /\ UNCHANGED <<up, closing, lock, changed, other, recorded, job, advance, toParent, toWorker, worker>>
    BY DEF FailLaunch
<1>2. chain.state = "NONE"
    BY <1>1 DEF ChainInv, LifeOK, ServerLife
<1>3. /\ job = NoJob /\ advance = "NONE" /\ worker.at = "NONE" /\ ~IsTracked
      /\ toWorker = <<>> /\ toParent = <<>>
      /\ \A k \in Stages : recorded[k] = 0
      /\ \A k \in Stages : k > 1 => row[k] = "NONE"
    BY <1>1, <1>2, NothingYet
<1>4. \A k \in Stages : k > 1 => row'[k] = "NONE"
    BY <1>1, <1>3, RowToTouchesOne DEF ChainInv, Types, RowStates, ActiveStates
<1>5. \/ chain'.state = "RUNNING" /\ \A k \in Stages : chain'.stages[k] = (IF k = 1 THEN "RUNNING" ELSE "PENDING")
      \/ chain'.state = "STOPPED" /\ \A k \in Stages : chain'.stages[k] = (IF k = 1 THEN "STOPPED" ELSE "NOT_STARTED")
    <2>1. CASE chain' = FirstStageRuns
        BY <2>1, FirstStageRunsFields
    <2>2. CASE chain' = Closed(FirstStageRuns, "STAGE_FAILED", "NOT_STARTED")
        <3>1. "STAGE_FAILED" \in Reasons
            BY DEF Reasons, StopReasons
        <3> QED BY <2>2, <3>1, FirstStageRunsFields, ClosedFields
    <2> QED BY <1>1, <2>1, <2>2
<1>6. LifeOK'
    BY <1>1, <1>3, <1>5 DEF LifeOK, ServerLife, IsTracked, IsAlive
<1>7. LinkOK' /\ OrdersOK' /\ SlotOK'
    BY <1>1, <1>3 DEF LinkOK, OrdersOK, SlotOK, Linked, IsTracked
<1>8. TruthOK'
    <2>1. \A k \in Stages : k < LastStage => row'[k + 1] = "NONE"
        <3> TAKE k \in Stages
        <3>1. k < LastStage => k + 1 \in Stages /\ k + 1 > 1
            BY ChainStagesAre
        <3> QED BY <1>4, <3>1
    <2>2. \A k \in Stages : k # 1 => k > 1
        BY ChainStagesAre
    <2> QED BY <1>1, <1>3, <1>4, <1>5, <2>1, <2>2 DEF TruthOK, IsTracked
<1> QED BY <1>6, <1>7, <1>8 DEF ChainInv

(* With the server what it remembers is gone: the rows stay, and the worker *)
(* goes on until it sees that the connection ended.                         *)
LEMMA ServerDiesKeepsInv == ASSUME ChainInv, Types', ServerDies PROVE ChainInv'
<1>1. /\ ~up' /\ todo' = <<>> /\ job' = NoJob /\ advance' = "NONE" /\ chain' = NoChain /\ toParent' = <<>>
      /\ toWorker' = toWorker \/ toWorker' = Append(toWorker, "DISCONNECT")
      /\ UNCHANGED <<closing, lock, changed, row, other, recorded, worker>>
    BY DEF ServerDies
<1>2. Types /\ OrdersOK /\ SlotOK /\ TruthOK
    BY DEF ChainInv
<1>3. ~IsTracked' /\ chain'.state = "NONE" /\ \A k \in Stages : chain'.stages[k] = "PENDING"
    BY <1>1, StartRecords DEF IsTracked
<1>4. LifeOK' /\ LinkOK'
    BY <1>1, <1>3 DEF LifeOK, ServerLife, LinkOK, Linked
<1>5. OrdersOK'
    <2>1. "DISCONNECT" \in WorkerMessages \ Orders
        BY DEF WorkerMessages, Orders
    <2>2. \A i \in DOMAIN toWorker' : toWorker'[i] \in Orders => i \in DOMAIN toWorker /\ toWorker[i] = toWorker'[i]
        BY <1>1, <1>2, <2>1, OrdersStay
    <2> QED BY <1>1, <1>2, <2>2 DEF OrdersOK, Orders, SlotHeldBy
<1>6. SlotOK'
    BY <1>1, <1>2, <1>3 DEF SlotOK, SlotHeldBy
<1>7. TruthOK'
    BY <1>1, <1>2, <1>3 DEF TruthOK
<1> QED BY <1>4, <1>5, <1>6, <1>7 DEF ChainInv

-----------------------------------------------------------------------------
(* The server: messages of the worker *)

(* A received message takes the server into the phase the next message was  *)
(* to find.                                                                 *)
LEMMA ReceiveShiftsLink ==
    ASSUME Types, LinkOK, NEW types, Receives(types), job'.stage = job.stage, UNCHANGED worker,
           Linked' => Linked /\ job'.phase = PhaseAfter(Head(toParent))
    PROVE  LinkOK'
<1>0. PICK n \in Nat \ {0} : n = Len(toParent)
    BY ReceivesHead
<1>1. /\ toParent # <<>> /\ Head(toParent) = toParent[1] /\ Len(toParent') = n - 1
      /\ toParent \in Seq(MessageRecord) /\ toParent' \in Seq(MessageRecord)
      /\ \A i \in DOMAIN toParent' : i + 1 \in DOMAIN toParent /\ toParent'[i] = toParent[i + 1]
    BY <1>0, ReceivesHead DEF Types
<1>2. DOMAIN toParent = 1 .. n /\ DOMAIN toParent' = 1 .. n - 1
    BY <1>0, <1>1
<1>3. ASSUME NEW i \in 1 .. n - 1, Linked' PROVE PhaseBefore(i)' = PhaseBefore(i + 1)
    <2>1. i + 1 # 1 /\ (i + 1) - 1 = i
        OBVIOUS
    <2>2. CASE i = 1
        BY <1>1, <1>3, <2>1, <2>2 DEF PhaseBefore
    <2>3. CASE i # 1
        <3>1. i - 1 \in 1 .. n - 1 /\ (i - 1) + 1 = i
            BY <2>3
        <3>2. toParent'[i - 1] = toParent[i]
            BY <1>1, <1>2, <3>1
        <3> QED BY <2>1, <2>3, <3>2 DEF PhaseBefore
    <2> QED BY <2>2, <2>3
<1>4. ASSUME Linked' PROVE PhaseAtLast' = PhaseAtLast
    <2>1. CASE n = 1
        <3>1. toParent' = <<>>
            BY <1>1, <2>1
        <3> QED BY <1>0, <1>1, <1>4, <2>1, <3>1 DEF PhaseAtLast
    <2>2. CASE n # 1
        <3>1. toParent' # <<>> /\ n - 1 \in 1 .. n - 1 /\ (n - 1) + 1 = n
            BY <1>1, <2>2
        <3>2. toParent'[Len(toParent')] = toParent[Len(toParent)]
            BY <1>0, <1>1, <1>2, <3>1
        <3> QED BY <1>1, <3>1, <3>2 DEF PhaseAtLast
    <2> QED BY <2>1, <2>2
<1>5. ASSUME NEW i \in DOMAIN toParent', Linked' PROVE Fits(toParent'[i], PhaseBefore(i)', job'.stage)
    <2>1. i \in 1 .. n - 1 /\ i + 1 \in DOMAIN toParent /\ toParent'[i] = toParent[i + 1] /\ Linked
        BY <1>1, <1>2, <1>5
    <2>2. Fits(toParent[i + 1], PhaseBefore(i + 1), job.stage)
        BY <2>1 DEF LinkOK
    <2>3. PhaseBefore(i)' = PhaseBefore(i + 1)
        BY <1>3, <1>5, <2>1
    <2> QED BY <2>1, <2>2, <2>3
<1>6. ASSUME NEW i \in DOMAIN toParent', toParent'[i].type = "FAILED"
      PROVE  worker'.at \in {"EXITING", "GONE"} /\ i = Len(toParent')
    <2>1. i \in 1 .. n - 1 /\ i + 1 \in DOMAIN toParent /\ toParent[i + 1].type = "FAILED"
        BY <1>1, <1>2, <1>6
    <2>2. worker.at \in {"EXITING", "GONE"} /\ i + 1 = n
        BY <1>0, <2>1 DEF LinkOK
    <2> QED BY <1>1, <2>1, <2>2
<1>7. ASSUME Linked'
      PROVE  /\ worker'.at = "BOOTING" => PhaseAtLast' = "FORKED"
             /\ worker'.at = "WAITING" => PhaseAtLast' = "STARTED"
             /\ worker'.at = "STAGE" => PhaseAtLast' = "STARTED"
             /\ worker'.at = "RUN" => PhaseAtLast' = "RUN"
             /\ worker'.at = "AWAIT" => PhaseAtLast' = (IF worker'.stage = job'.stage THEN "DONE" ELSE "STARTED")
    BY <1>4, <1>7 DEF LinkOK
<1> QED BY <1>5, <1>6, <1>7 DEF LinkOK

(* A message to a job that is decided is put aside. *)
LEMMA ReceiveDecidedKeepsInv == ASSUME ChainInv, Types', ReceiveDecided PROVE ChainInv'
<1>1. PICK types : Receives(types) /\ job.phase = "DONE" /\ UNCHANGED <<row, job, advance, chain, toWorker, worker>>
    BY DEF ReceiveDecided
<1>2. Types /\ LifeOK /\ LinkOK /\ OrdersOK /\ SlotOK /\ TruthOK
    BY DEF ChainInv
<1>3. /\ UNCHANGED <<up, closing, lock, todo, changed, other, recorded>> /\ up /\ todo = <<>> /\ IsTracked
      /\ toParent # <<>> /\ Head(toParent) = toParent[1] /\ Head(toParent) \in MessageRecord /\ 1 \in DOMAIN toParent
    BY <1>1, <1>2, ReceivesHead DEF Types
<1>4. LifeOK'
    <2>1. chain.state # "NONE"
        BY <1>2, <1>3, StartRecords DEF LifeOK, ServerLife, IsTracked
    <2> QED BY <1>1, <1>2, <1>3, <2>1 DEF LifeOK, ServerLife, StageLife, IsTracked, IsAlive, StillAwaited, ExitSeen
<1>5. LinkOK'
    <2>1. Linked' <=> Linked
        BY <1>1 DEF Linked, IsTracked
    <2>2. ASSUME Linked PROVE job.phase = PhaseAfter(Head(toParent))
        <3>1. Fits(toParent[1], "DONE", job.stage)
            BY <1>1, <1>2, <1>3, <2>2 DEF LinkOK, PhaseBefore
        <3>2. toParent[1].type \in {"FINISHED", "FAILED"}
            BY <1>3, <3>1 DEF Fits, MessageRecord
        <3> QED BY <1>1, <1>3, <3>2 DEF PhaseAfter
    <2> QED BY <1>1, <1>2, <2>1, <2>2, ReceiveShiftsLink
<1>6. OrdersOK'
    <2>1. job.ending # "NONE"
        BY <1>1, <1>2, <1>3 DEF LifeOK, StageLife
    <2> QED BY <1>1, <1>2, <1>3, <2>1 DEF OrdersOK, SlotHeldBy
<1>7. SlotOK' /\ TruthOK'
    BY <1>1, <1>2, <1>3 DEF SlotOK, TruthOK, SlotHeldBy, IsTracked, IsAlive
<1> QED BY <1>4, <1>5, <1>6, <1>7 DEF ChainInv

(* What a message does to a job that is not decided *)
ReceiveStep ==
    /\ IsUndecided
    /\ UNCHANGED <<chain, worker>>
    /\ job'.stage = job.stage /\ job'.result = job.result /\ job'.rowRecorded = job.rowRecorded /\ job'.ipc = job.ipc
    /\ job'.phase \in {"STARTED", "RUN", "DONE"}
    /\ job'.phase = "DONE" <=> job'.ending # "NONE"
    /\ job'.ending # "FINISHED" => ~job'.ran
    /\ job'.ending \in {"NONE", "FINISHED"} => job'.phase = PhaseAfter(Head(toParent))
    /\ \/ advance' = advance
       \/ advance' = "READING" /\ job'.ending = "FINISHED" /\ job.stage # LastStage
    /\ \A k \in Stages : row[k] \notin ActiveStates => row'[k] = row[k]
    /\ \A k \in Stages : row[k] \in ActiveStates => row'[k] \in ActiveStates
    /\ \/ toWorker' = toWorker
       \/ /\ job.phase = "FORKED" /\ IsAlive /\ worker.at # "EXITING"
          /\ toWorker' \in {<<"START">>, <<"STOP">>}

(* A message received while the stage is undecided keeps the invariant.     *)
LEMMA ReceiveStepsKeepInv == ASSUME ChainInv, Types', NEW types, Receives(types), ReceiveStep PROVE ChainInv'
<1>1. Types /\ LifeOK /\ LinkOK /\ OrdersOK /\ SlotOK /\ TruthOK
    BY DEF ChainInv
<1>2. /\ UNCHANGED <<up, closing, lock, todo, changed, other, recorded>> /\ up /\ todo = <<>> /\ IsTracked
      /\ toParent # <<>> /\ Head(toParent) = toParent[1] /\ Head(toParent) \in MessageRecord /\ 1 \in DOMAIN toParent
    BY <1>1, ReceivesHead DEF Types
<1>3. /\ job.ending = "NONE" /\ job.phase # "DONE" /\ Linked /\ job.result = "NONE" /\ ~job.rowRecorded /\ advance = "NONE"
      /\ chain.state = "RUNNING" /\ StageLife
    BY <1>1, <1>2 DEF LifeOK, StageLife, ReceiveStep, IsUndecided, Linked
<1>4. UNCHANGED <<chain, worker>> /\ job'.stage = job.stage /\ IsTracked' /\ (IsAlive' <=> IsAlive)
    BY <1>2 DEF ReceiveStep, IsTracked, IsAlive
<1>5. LifeOK'
    <2>1. ServerLife'
        BY <1>1, <1>2, <1>3, <1>4 DEF ReceiveStep, LifeOK, ServerLife, StillAwaited, ExitSeen
    <2>2. StageLife'
        BY <1>2, <1>3, <1>4 DEF ReceiveStep, StageLife, StillAwaited, ExitSeen
    <2> QED BY <2>1, <2>2 DEF LifeOK
<1>6. LinkOK'
    BY <1>1, <1>3, <1>4, ReceiveShiftsLink DEF ReceiveStep, Linked
<1>7. ASSUME worker.at = "AWAIT" PROVE \A i \in DOMAIN toWorker : toWorker[i] \notin Orders
    BY <1>1, <1>2, <1>3, <1>7 DEF OrdersOK, Orders
<1>8. OrdersOK'
    <2>1. CASE toWorker' = toWorker
        BY <1>1, <1>4, <1>7, <2>1 DEF OrdersOK, Orders
    <2>2. CASE /\ job.phase = "FORKED" /\ IsAlive /\ worker.at # "EXITING"
               /\ toWorker' \in {<<"START">>, <<"STOP">>}
        <3>1. worker.at # "BOOTING"
            <4>1. Len(toParent) \in DOMAIN toParent /\ toParent[Len(toParent)] \in MessageRecord
                BY <1>1, <1>2 DEF Types
            <4>2. PhaseAtLast # "FORKED"
                BY <1>2, <4>1 DEF PhaseAtLast, PhaseAfter
            <4> QED BY <1>1, <1>3, <4>2 DEF LinkOK
        <3>2. worker.at = "WAITING"
            BY <1>3, <2>2, <3>1 DEF StageLife, IsAlive
        <3>3. DOMAIN toWorker' = {1} /\ toWorker'[1] \notin {"NEXT_STAGE", "CHAIN_END"}
            BY <2>2
        <3> QED BY <1>4, <3>2, <3>3 DEF OrdersOK
    <2> QED BY <2>1, <2>2 DEF ReceiveStep
<1>9. \A k \in Stages : /\ SlotHeldBy(k) => SlotHeldBy(k)'
                        /\ row'[k] = "NONE" <=> row[k] = "NONE"
    <2>1. \A k \in Stages : row'[k] \in ActiveStates <=> row[k] \in ActiveStates
        BY DEF ReceiveStep
    <2> QED BY <1>2, <2>1 DEF SlotHeldBy, ReceiveStep, ActiveStates
<1>10. SlotOK'
    <2>1. worker.at \in {"BOOTING", "WAITING"} => SlotHeldBy(1)' /\ job'.stage = 1
        BY <1>1, <1>2, <1>4, <1>9, ChainStagesAre DEF SlotOK
    <2>2. worker.at \in {"STAGE", "RUN"} => worker.stage \in Stages /\ SlotHeldBy(worker.stage)' /\ job'.stage = worker.stage
        BY <1>1, <1>2, <1>4, <1>9 DEF SlotOK
    <2>3. worker.at = "AWAIT" => worker.stage \in Stages /\ job'.stage = worker.stage
        BY <1>1, <1>2, <1>4, <1>7 DEF SlotOK, Orders
    <2>4. IsAlive \/ lock = "HELD" => SlotHeldBy(job.stage)'
        <3>1. PICK k \in Stages : k = job.stage
            BY <1>1, <1>2 DEF IsTracked, Types, JobRecord
        <3>2. IsAlive \/ lock = "HELD" => SlotHeldBy(k)
            BY <1>1, <1>2, <1>3, <3>1 DEF SlotOK
        <3>3. SlotHeldBy(k) => SlotHeldBy(k)'
            BY <1>9
        <3> QED BY <1>4, <3>1, <3>2, <3>3 DEF SlotHeldBy
    <2> QED BY <1>2, <1>4, <2>1, <2>2, <2>3, <2>4 DEF SlotOK, SlotHeldBy
<1>11. TruthOK'
    <2>1. /\ job.stage \in Stages
          /\ \A k \in Stages : k < LastStage => k + 1 \in Stages
        BY <1>1, <1>2, ChainStagesAre DEF IsTracked, Types, JobRecord
    <2>2. \A k \in Stages : row[k] = "FINISHED" => row'[k] = "FINISHED"
        BY DEF ReceiveStep, ActiveStates
    <2>3. /\ \A k \in Stages : k < LastStage /\ row'[k + 1] # "NONE" /\ ChainStages[k] # "AUDIT" => recorded'[k] = 1
          /\ \A k \in Stages : k > job'.stage => row'[k] = "NONE" /\ recorded'[k] = 0
          /\ recorded'[job'.stage] = 0 /\ job'.result = "NONE"
          /\ \A k \in Stages : chain'.stages[k] \in {"NOT_NEEDED", "NOT_STARTED"} => row'[k] = "NONE" /\ chain'.state # "RUNNING"
        BY <1>1, <1>2, <1>3, <1>4, <1>9, <2>1 DEF TruthOK, ReceiveStep
    <2>4. \A k \in Stages : chain'.stages[k] = (IF k < job'.stage THEN "DONE" ELSE IF k = job'.stage THEN "RUNNING" ELSE "PENDING")
        BY <1>1, <1>2, <1>3, <1>4 DEF TruthOK
    <2>5. lock' = "HELD" => \A k \in Stages : chain'.stages[k] = "DONE" =>
                row'[k] = "FINISHED" /\ (ChainStages[k] # "AUDIT" => recorded'[k] = 1)
        BY <1>1, <1>2, <1>3, <1>4, <2>2 DEF TruthOK
    <2> QED BY <1>2, <1>3, <1>4, <2>3, <2>4, <2>5 DEF TruthOK
<1> QED BY <1>5, <1>6, <1>8, <1>10, <1>11 DEF ChainInv

(* Every handler of a message keeps the invariant, decided or not.          *)
LEMMA ReceivesKeepInv ==
    ASSUME ChainInv, Types',
           ReceiveDecided \/ ReceiveReady \/ ReceiveRunStarted \/ ReceiveSessionLost \/ ReceiveFinished \/ ReceiveFailed
    PROVE  ChainInv'
<1>0. Types /\ job \in JobRecord
    BY DEF ChainInv, Types
<1> PICK yes \in BOOLEAN : yes = TRUE
    OBVIOUS
<1>1. ASSUME IsUndecided
      PROVE  /\ IsTracked /\ StageLife /\ job.ending = "NONE" /\ ~job.ran /\ advance = "NONE" /\ job.stage \in Stages
             /\ job.phase = "FORKED" => toWorker = <<>>
    BY <1>0, <1>1 DEF ChainInv, LifeOK, StageLife, IsUndecided, IsTracked, JobRecord
<1>2. CASE ReceiveDecided
    BY <1>2, ReceiveDecidedKeepsInv
<1>3. CASE ReceiveReady
    <2>1. Receives({"READY"}) /\ job.phase = "FORKED" /\ UNCHANGED <<row, advance, chain, worker>>
        BY <1>3 DEF ReceiveReady
    <2>2. IsUndecided /\ Head(toParent).type = "READY"
        BY <1>0, <2>1, ReceivesHead DEF IsUndecided
    <2>3. PICK sent \in BOOLEAN : sent = ~job.stopRequested
        OBVIOUS
    <2>4. job' = [job EXCEPT !.phase = "STARTED", !.startSent = sent]
        BY <1>3, <2>3, Zenon DEF ReceiveReady
    <2>5. SameStage([job EXCEPT !.phase = "STARTED"], job')
        BY <1>0, <2>4 DEF JobRecord, SameStage
    <2>6. /\ job'.stage = job.stage /\ job'.result = job.result /\ job'.rowRecorded = job.rowRecorded /\ job'.ipc = job.ipc
          /\ job'.phase = "STARTED" /\ job'.ending = job.ending /\ job'.ran = job.ran
        BY <1>0, <2>4 DEF JobRecord
    <2>7. PICK m \in {"START", "STOP"} : toWorker' = Sent(<<m>>)
        BY <1>3 DEF ReceiveReady
    <2>8. \/ toWorker' = toWorker
          \/ IsAlive /\ worker.at # "EXITING" /\ toWorker' \in {<<"START">>, <<"STOP">>}
        <3>1. toWorker = <<>>
            BY <1>1, <2>1, <2>2
        <3>2. <<>> \o <<m>> = <<m>>
            OBVIOUS
        <3> QED BY <2>7, <3>1, <3>2 DEF Sent
    <2>9. ReceiveStep
        BY <1>1, <2>1, <2>2, <2>6, <2>8 DEF ReceiveStep, PhaseAfter
    <2> QED BY <2>1, <2>9, ReceiveStepsKeepInv
<1>4. CASE ReceiveRunStarted
    <2>1. /\ Receives({"RUN_STARTED"}) /\ job.phase = "STARTED" /\ UNCHANGED <<advance, chain, toWorker, worker>>
          /\ job' = [job EXCEPT !.phase = "RUN"]
          /\ row' = [row EXCEPT ![job.stage] = IF row[job.stage] = "STARTING" THEN "RUNNING" ELSE row[job.stage]]
        BY <1>4 DEF ReceiveRunStarted
    <2>2. IsUndecided /\ Head(toParent).type = "RUN_STARTED"
        BY <1>0, <2>1, ReceivesHead DEF IsUndecided
    <2>3. /\ job'.stage = job.stage /\ job'.result = job.result /\ job'.rowRecorded = job.rowRecorded /\ job'.ipc = job.ipc
          /\ job'.phase = "RUN" /\ job'.ending = job.ending /\ job'.ran = job.ran
        BY <1>0, <2>1 DEF JobRecord
    <2>4. /\ \A k \in Stages : row[k] \notin ActiveStates => row'[k] = row[k]
          /\ \A k \in Stages : row[k] \in ActiveStates => row'[k] \in ActiveStates
        BY <1>0, <2>1 DEF Types, ActiveStates
    <2>5. ReceiveStep
        BY <1>1, <2>1, <2>2, <2>3, <2>4 DEF ReceiveStep, PhaseAfter
    <2> QED BY <2>1, <2>5, ReceiveStepsKeepInv
<1>5. CASE ReceiveSessionLost
    <2>1. Receives({"SESSION_LOST"}) /\ job.phase = "RUN" /\ UNCHANGED <<row, advance, chain, toWorker, worker>>
        BY <1>5 DEF ReceiveSessionLost
    <2>2. IsUndecided /\ Head(toParent).type = "SESSION_LOST"
        BY <1>0, <2>1, ReceivesHead DEF IsUndecided
    <2>3. job' = [job EXCEPT !.sessionLost = yes]
        BY <1>5, Zenon DEF ReceiveSessionLost
    <2>4. /\ job'.stage = job.stage /\ job'.result = job.result /\ job'.rowRecorded = job.rowRecorded /\ job'.ipc = job.ipc
          /\ job'.phase = "RUN" /\ job'.ending = job.ending /\ job'.ran = job.ran
        BY <1>0, <2>1, <2>3 DEF JobRecord
    <2>5. ReceiveStep
        BY <1>1, <2>1, <2>2, <2>4 DEF ReceiveStep, PhaseAfter
    <2> QED BY <2>1, <2>5, ReceiveStepsKeepInv
<1>6. CASE ReceiveFinished
    <2>1. Receives({"FINISHED"}) /\ job.phase \in {"STARTED", "RUN"} /\ UNCHANGED <<row, chain, toWorker, worker>>
        BY <1>6 DEF ReceiveFinished
    <2>2. IsUndecided /\ Head(toParent).type = "FINISHED" /\ Head(toParent) \in MessageRecord
        BY <1>0, <2>1, ReceivesHead DEF IsUndecided
    <2> DEFINE settled == Settled(job, "FINISHED")
               noted == [settled EXCEPT !.ran = Head(toParent).ran, !.findings = Head(toParent).findings]
    <2>3. /\ settled \in JobRecord /\ settled.stage = job.stage /\ settled.result = job.result /\ settled.rowRecorded = job.rowRecorded
          /\ settled.ipc = job.ipc /\ settled.ending = "FINISHED" /\ settled.phase = "DONE"
        BY <1>0, <1>1, <2>2, SettledFields
    <2> HIDE DEF settled
    <2>4. /\ noted \in JobRecord /\ noted.stage = job.stage /\ noted.result = job.result /\ noted.rowRecorded = job.rowRecorded
          /\ noted.ipc = job.ipc /\ noted.ending = "FINISHED" /\ noted.phase = "DONE"
        BY <2>2, <2>3 DEF JobRecord, MessageRecord
    <2>5. /\ job' = [noted EXCEPT !.exitTimer = yes] \/ job' = noted
          /\ advance' = advance \/ (advance' = "READING" /\ job.stage # LastStage)
        <3>1. noted.stage = LastStage <=> job.stage = LastStage
            BY <2>4
        <3>2. IF job.stage = LastStage
              THEN job' = [noted EXCEPT !.exitTimer = TRUE] /\ UNCHANGED advance
              ELSE job' = noted /\ advance' = "READING"
            BY <1>6, Zenon DEF ReceiveFinished, settled, IsLast
        <3> QED BY <3>2, Zenon
    <2> HIDE DEF noted
    <2>6. /\ job'.stage = job.stage /\ job'.result = job.result /\ job'.rowRecorded = job.rowRecorded /\ job'.ipc = job.ipc
          /\ job'.ending = "FINISHED" /\ job'.phase = "DONE"
        BY <2>4, <2>5 DEF JobRecord
    <2>7. ReceiveStep
        BY <1>1, <2>1, <2>2, <2>5, <2>6 DEF ReceiveStep, PhaseAfter
    <2> QED BY <2>1, <2>7, ReceiveStepsKeepInv
<1>7. CASE ReceiveFailed
    <2>1. Receives({"FAILED"}) /\ IsUndecided /\ UNCHANGED <<row, advance, chain, toWorker, worker>>
        BY <1>7 DEF ReceiveFailed
    <2> DEFINE settled == Settled(job, "FAILED")
    <2>2. /\ settled \in JobRecord /\ settled.stage = job.stage /\ settled.result = job.result /\ settled.rowRecorded = job.rowRecorded
          /\ settled.ipc = job.ipc /\ settled.ending = "FAILED" /\ settled.phase = "DONE" /\ settled.ran = job.ran
        BY <1>0, <1>1, <2>1, SettledFields
    <2>3. job' = [settled EXCEPT !.exitTimer = yes]
        BY <1>7, Zenon DEF ReceiveFailed
    <2> HIDE DEF settled
    <2>4. /\ job'.stage = job.stage /\ job'.result = job.result /\ job'.rowRecorded = job.rowRecorded /\ job'.ipc = job.ipc
          /\ job'.ending = "FAILED" /\ job'.phase = "DONE" /\ job'.ran = job.ran
        BY <2>2, <2>3 DEF JobRecord
    <2>5. ReceiveStep
        BY <1>1, <2>1, <2>4 DEF ReceiveStep
    <2> QED BY <2>1, <2>5, ReceiveStepsKeepInv
<1> QED BY <1>2, <1>3, <1>4, <1>5, <1>6, <1>7

(* A job is given up on before its worker reported: it is decided, without  *)
(* a result, and the row stays with it until the exit.                      *)
LEMMA GiveUpKeepsInv == ASSUME ChainInv, Types', GiveUpOnWorker PROVE ChainInv'
<1>1. Types /\ LifeOK /\ LinkOK /\ OrdersOK /\ SlotOK /\ TruthOK
    BY DEF ChainInv
<1>2. PICK ending \in {"FAILED", "INTERRUPTED"} : UNCHANGED row /\ job' = Settled(job, ending)
    BY DEF GiveUpOnWorker, EndJob
<1>3. up /\ todo = <<>> /\ IsUndecided /\ UNCHANGED <<up, closing, lock, todo, changed, other, recorded, advance, chain, toParent, toWorker>>
    BY DEF GiveUpOnWorker, Idle
<1>4. /\ IsTracked /\ StageLife /\ job.ending = "NONE" /\ job.phase # "DONE" /\ ~job.ran /\ advance = "NONE" /\ job.result = "NONE"
      /\ job.stage \in Stages /\ ~job.rowRecorded /\ chain.state = "RUNNING"
    BY <1>1, <1>3 DEF LifeOK, StageLife, IsUndecided, IsTracked, Types, JobRecord
<1>5. /\ job'.stage = job.stage /\ job'.ran = job.ran /\ job'.result = job.result /\ job'.rowRecorded = job.rowRecorded
      /\ job'.ipc = job.ipc /\ job'.ending = ending /\ job'.phase = "DONE" /\ IsTracked'
    BY <1>1, <1>2, <1>4, SettledFields DEF Types, IsTracked
<1>6. worker'.at = worker.at /\ worker'.stage = worker.stage /\ (IsAlive' <=> IsAlive)
    <2> PICK yes \in BOOLEAN : yes = TRUE
        OBVIOUS
    <2>1. worker' = worker \/ worker' = [worker EXCEPT !.signalled = yes]
        BY Zenon DEF GiveUpOnWorker, Signalled
    <2> QED BY <1>1, <2>1 DEF Types, WorkerRecord, IsAlive
<1>7. LifeOK'
    <2>1. ServerLife'
        BY <1>1, <1>3, <1>4, <1>5, <1>6 DEF LifeOK, ServerLife, StillAwaited, ExitSeen
    <2>2. StageLife'
        BY <1>2, <1>3, <1>4, <1>5, <1>6 DEF StageLife, StillAwaited, ExitSeen
    <2> QED BY <2>1, <2>2 DEF LifeOK
<1>8. LinkOK'
    BY <1>1, <1>2, <1>3, <1>5, <1>6 DEF LinkOK, Linked
<1>9. OrdersOK'
    BY <1>1, <1>2, <1>3, <1>4, <1>5, <1>6 DEF OrdersOK, SlotHeldBy
<1>10. SlotOK'
    BY <1>1, <1>2, <1>3, <1>4, <1>5, <1>6 DEF SlotOK, SlotHeldBy
<1>11. TruthOK'
    BY <1>1, <1>2, <1>3, <1>4, <1>5 DEF TruthOK
<1> QED BY <1>7, <1>8, <1>9, <1>10, <1>11 DEF ChainInv

-----------------------------------------------------------------------------
(* The server: from one stage to the next, and the exit *)

(* While the end of a stage is looked after in the server, the worker that  *)
(* goes on waits for an order, and none is under way.                       *)
LEMMA WorkerAwaits ==
    ASSUME ChainInv, up, IsTracked, (StillAwaited /\ advance # "NONE") \/ todo = <<"CREATE_NEXT">>,
           IsAlive, worker.at # "EXITING"
    PROVE  /\ worker.at = "AWAIT" /\ worker.stage = job.stage
           /\ \A i \in DOMAIN toWorker : toWorker[i] \notin Orders
<1>1. Types /\ StageLife /\ LinkOK /\ OrdersOK /\ SlotOK
    BY DEF ChainInv, LifeOK
<1>2. job.ending = "FINISHED" /\ Linked /\ job.phase = "DONE" /\ job.stage \in Stages
    BY <1>1 DEF StageLife, Linked, IsTracked, Types, JobRecord
<1>3. toParent = <<>>
    <2> SUFFICES ASSUME toParent # <<>> PROVE FALSE
        OBVIOUS
    <2>1. 1 \in DOMAIN toParent /\ toParent[1] \in MessageRecord
        BY <1>1 DEF Types
    <2>2. Fits(toParent[1], job.phase, job.stage)
        BY <1>1, <1>2, <2>1 DEF LinkOK, PhaseBefore
    <2>3. toParent[1].type = "FAILED"
        BY <1>2, <2>1, <2>2 DEF Fits, MessageRecord
    <2> QED BY <1>1, <2>1, <2>3 DEF LinkOK, IsAlive
<1>4. PhaseAtLast = "DONE"
    BY <1>2, <1>3 DEF PhaseAtLast
<1>5. worker.at = "AWAIT" /\ worker.stage = job.stage
    BY <1>1, <1>2, <1>4 DEF LinkOK, IsAlive, Types, WorkerRecord
<1>6. ASSUME NEW i \in DOMAIN toWorker PROVE toWorker[i] \notin Orders
    BY <1>1, <1>2, <1>5 DEF OrdersOK, Orders
<1> QED BY <1>5, <1>6

(* The job after its result was told: nothing else of it has changed, and   *)
(* what it says is what is recorded.                                        *)
ResultTold ==
    /\ job'.stage = job.stage /\ job'.phase = job.phase /\ job'.ending = job.ending /\ job'.ran = job.ran /\ job'.ipc = job.ipc
    /\ \A k \in Stages : k # job.stage => recorded'[k] = recorded[k]
    /\ recorded[job.stage] = 1 => recorded'[job.stage] = 1
    /\ job'.result = "NONE" => recorded'[job.stage] = 0
    /\ job.ran /\ job'.result = "VALID" /\ ChainStages[job.stage] # "AUDIT" => recorded'[job.stage] = 1

(* RecordResult with the job that takes its verdict over *)
LEMMA RecordedIsTold ==
    ASSUME Types, TruthOK, IsTracked, NEW verdict \in {"VALID", "INVALID"},
           \/ job.result = "NONE" /\ RecordResult(verdict) /\ job'.result = verdict
           \/ UNCHANGED recorded /\ job'.result = job.result,
           job'.stage = job.stage, job'.phase = job.phase, job'.ending = job.ending, job'.ran = job.ran, job'.ipc = job.ipc
    PROVE  ResultTold
<1>1. job.stage \in Stages
    BY DEF Types, JobRecord, IsTracked
<1>2. CASE job.result = "NONE" /\ RecordResult(verdict) /\ job'.result = verdict
    <2>1. \A k \in Stages : recorded'[k] = (IF k = job.stage /\ HasResult /\ verdict = "VALID" THEN 1 ELSE recorded[k])
        BY <1>2, RecordTypes
    <2>2. recorded[job.stage] = 0
        BY <1>2 DEF TruthOK
    <2> QED BY <1>1, <1>2, <2>1, <2>2 DEF ResultTold, HasResult
<1>3. CASE UNCHANGED recorded /\ job'.result = job.result
    BY <1>1, <1>3 DEF ResultTold, TruthOK
<1> QED BY <1>2, <1>3

(* Rows, results and what is shown, for a stage whose result was told       *)
LEMMA ToldResults ==
    ASSUME Types, TruthOK, IsTracked, ResultTold,
           \A k \in Stages : row'[k] = "NONE" <=> row[k] = "NONE"
    PROVE  /\ \A k \in Stages : k < LastStage /\ row'[k + 1] # "NONE" /\ ChainStages[k] # "AUDIT" => recorded'[k] = 1
           /\ \A k \in Stages : k > job'.stage => row'[k] = "NONE" /\ recorded'[k] = 0
           /\ job'.result = "NONE" => recorded'[job'.stage] = 0
           /\ job'.ran /\ job'.result = "VALID" /\ ChainStages[job'.stage] # "AUDIT" => recorded'[job'.stage] = 1
           /\ \A k \in Stages : recorded[k] = 1 => recorded'[k] = 1
<1>1. job.stage \in Stages /\ \A k \in Stages : k < LastStage => k + 1 \in Stages
    BY ChainStagesAre DEF Types, JobRecord, IsTracked
<1>2. \A k \in Stages : recorded[k] = 1 => recorded'[k] = 1
    BY DEF ResultTold
<1>3. \A k \in Stages : k < LastStage /\ row'[k + 1] # "NONE" /\ ChainStages[k] # "AUDIT" => recorded'[k] = 1
    BY <1>1, <1>2 DEF TruthOK
<1>4. \A k \in Stages : k > job'.stage => row'[k] = "NONE" /\ recorded'[k] = 0
    <2> TAKE k \in Stages
    <2>1. k > job.stage => k # job.stage
        BY <1>1, ChainStagesAre
    <2> QED BY <1>1, <2>1 DEF TruthOK, ResultTold
<1> QED BY <1>1, <1>2, <1>3, <1>4 DEF ResultTold

(* The chain is closed while its worker waits for an order: StopChainAt, or *)
(* the end of a chain that has nothing left to check.                       *)
ChainStops ==
    /\ up /\ IsTracked
    /\ (StillAwaited /\ advance # "NONE") \/ todo = <<"CREATE_NEXT">>
    /\ UNCHANGED <<up, row, other, toParent, worker>>
    /\ lock' = "HELD" => lock = "HELD"
    /\ ResultTold /\ job'.rowRecorded = job.rowRecorded
    /\ toWorker' = Sent(<<"CHAIN_END">>)
    /\ advance' = "NONE" /\ todo' = <<>>
    /\ \/ \E reason \in Reasons : chain' = Closed(chain, reason, "NOT_STARTED")
       \/ /\ chain' = Closed(chain, "NONE", "NOT_NEEDED")
          /\ ~chain.stopRequested /\ job.ran /\ job'.result = "VALID" /\ ~job.rowRecorded

(* Ending the chain, with its last word to the worker, keeps the invariant. *)
LEMMA ChainStopsKeepsInv == ASSUME ChainInv, Types', ChainStops PROVE ChainInv'
<1>1. Types /\ LifeOK /\ LinkOK /\ OrdersOK /\ SlotOK /\ TruthOK /\ StageLife /\ job.stage \in Stages
    BY DEF ChainInv, LifeOK, ChainStops, Types, JobRecord, IsTracked
<1>2. /\ up /\ IsTracked /\ UNCHANGED <<up, row, other, toParent, worker>> /\ (lock' = "HELD" => lock = "HELD")
      /\ advance' = "NONE" /\ todo' = <<>> /\ ResultTold /\ job'.rowRecorded = job.rowRecorded
      /\ job'.stage = job.stage /\ job'.phase = job.phase /\ job'.ending = job.ending /\ job'.ran = job.ran /\ job'.ipc = job.ipc
      /\ IsTracked' /\ (IsAlive' <=> IsAlive)
    BY DEF ChainStops, ResultTold, IsTracked, IsAlive
<1>3. job.ending = "FINISHED" /\ chain.state = "RUNNING" /\ job.phase = "DONE"
    BY <1>1 DEF ChainStops, StageLife
<1>4. PICK reason \in {"NONE"} \cup Reasons, pending \in {"NOT_STARTED", "NOT_NEEDED"} :
         /\ chain' = Closed(chain, reason, pending)
         /\ reason = "NONE" => /\ pending = "NOT_NEEDED" /\ ~chain.stopRequested /\ job.ran /\ job'.result = "VALID"
                               /\ ~job.rowRecorded
    <2>1. "NONE" \notin Reasons
        BY DEF Reasons, StopReasons
    <2> QED BY <2>1 DEF ChainStops
<1>5. /\ chain'.state = (IF reason = "NONE" THEN "FINISHED" ELSE "STOPPED") /\ chain'.stopRequested = chain.stopRequested
      /\ \A k \in Stages : chain'.stages[k] = (IF chain.stages[k] = "RUNNING" THEN IF reason = "NONE" THEN "DONE" ELSE "STOPPED"
                                               ELSE IF chain.stages[k] = "PENDING" THEN pending
                                               ELSE chain.stages[k])
    <2>1. chain \in ChainRecord
        BY <1>1 DEF Types
    <2> QED BY <1>3, <1>4, <2>1, ClosedFields
<1>6. \A k \in Stages : chain.stages[k] = (IF k < job.stage THEN "DONE" ELSE IF k = job.stage THEN "RUNNING" ELSE "PENDING")
    BY <1>1, <1>2, <1>3 DEF TruthOK
<1>7. LifeOK'
    <2>1. ServerLife'
        BY <1>1, <1>2, <1>5 DEF LifeOK, ServerLife, StillAwaited, ExitSeen
    <2>2. StageLife'
        BY <1>1, <1>2, <1>3, <1>5 DEF StageLife, StillAwaited, ExitSeen
    <2> QED BY <2>1, <2>2 DEF LifeOK
<1>8. LinkOK'
    BY <1>1, <1>2 DEF LinkOK, Linked, Fits, PhaseBefore, PhaseAtLast
<1>9. OrdersOK' /\ (\A i \in DOMAIN toWorker : toWorker[i] = "NEXT_STAGE" => \E k \in DOMAIN toWorker' : toWorker'[k] = "NEXT_STAGE")
    <2>1. CASE toWorker' = toWorker
        <3>1. OrdersOK'
            BY <1>1, <1>2, <1>3, <2>1 DEF OrdersOK, SlotHeldBy
        <3> QED BY <2>1, <3>1
    <2>2. CASE IsAlive /\ worker.at # "EXITING" /\ toWorker' = Append(toWorker, "CHAIN_END")
        <3>1. /\ worker.at = "AWAIT" /\ worker.stage = job.stage
              /\ \A i \in DOMAIN toWorker : toWorker[i] \notin Orders
            BY <1>2, <2>2, WorkerAwaits DEF ChainStops
        <3>2. toWorker \in Seq(WorkerMessages)
            BY <1>1 DEF Types
        <3>3. PICK n \in Nat : n = Len(toWorker)
            BY <3>2
        <3>4. /\ DOMAIN toWorker' = 1 .. n + 1 /\ DOMAIN toWorker = 1 .. n /\ toWorker'[n + 1] = "CHAIN_END"
              /\ \A i \in 1 .. n : toWorker'[i] = toWorker[i]
            BY <2>2, <3>2, <3>3
        <3>5. \A i \in DOMAIN toWorker' : toWorker'[i] \in Orders => i = n + 1
            BY <3>1, <3>4
        <3>6. OrdersOK'
            BY <1>2, <1>3, <3>1, <3>4, <3>5 DEF OrdersOK, Orders
        <3> QED BY <3>1, <3>6 DEF Orders
    <2>3. toWorker \in Seq(WorkerMessages) /\ "CHAIN_END" \in WorkerMessages /\ toWorker' = Sent(<<"CHAIN_END">>)
        BY <1>1 DEF Types, WorkerMessages, ChainStops
    <2> QED BY <2>1, <2>2, <2>3, SentAppends
<1>10. SlotOK'
    BY <1>1, <1>2, <1>9 DEF SlotOK, SlotHeldBy
<1>11. TruthOK'
    <2>1. /\ \A k \in Stages : k < LastStage /\ row'[k + 1] # "NONE" /\ ChainStages[k] # "AUDIT" => recorded'[k] = 1
          /\ \A k \in Stages : k > job'.stage => row'[k] = "NONE" /\ recorded'[k] = 0
          /\ job'.result = "NONE" => recorded'[job'.stage] = 0
          /\ job'.ran /\ job'.result = "VALID" /\ ChainStages[job'.stage] # "AUDIT" => recorded'[job'.stage] = 1
          /\ \A k \in Stages : recorded[k] = 1 => recorded'[k] = 1
        BY <1>1, <1>2, ToldResults
    <2>2. \A k \in Stages : k < job.stage \/ k = job.stage \/ k > job.stage
        BY <1>1, ChainStagesAre
    <2>3. reason = "NONE" => ~chain'.stopRequested /\ \A k \in Stages : chain'.stages[k] \in {"DONE", "NOT_NEEDED"}
        BY <1>4, <1>5, <1>6
    <2>4. \A k \in Stages : chain'.stages[k] \in {"NOT_NEEDED", "NOT_STARTED"} => row'[k] = "NONE"
        BY <1>1, <1>2, <1>5, <1>6, <2>1, <2>2
    <2>5. ASSUME lock' = "HELD", NEW k \in Stages, chain'.stages[k] = "DONE"
          PROVE  \/ row'[k] = "FINISHED" /\ (ChainStages[k] # "AUDIT" => recorded'[k] = 1)
                 \/ /\ job'.stage = k /\ job'.ending = "FINISHED" /\ job'.result = "VALID" /\ job'.ran
                    /\ ~job'.rowRecorded
        <3>1. CASE k = job.stage
            <4>1. reason = "NONE"
                BY <1>5, <1>6, <2>5, <3>1, ChainStagesAre
            <4> QED BY <1>2, <1>3, <1>4, <3>1, <4>1
        <3>2. CASE k # job.stage
            <4>1. chain.stages[k] = "DONE"
                BY <1>5, <1>6, <2>5, <3>2
            <4> QED BY <1>1, <1>2, <2>1, <2>5, <3>2, <4>1 DEF TruthOK
        <3> QED BY <3>1, <3>2
    <2> QED BY <1>2, <1>5, <2>1, <2>3, <2>4, <2>5 DEF TruthOK
<1> QED BY <1>7, <1>8, <1>9, <1>10, <1>11 DEF ChainInv

(* The stage was judged good: its row ends, and the next is to be made.     *)
StageRowEnds ==
    /\ up /\ StillAwaited /\ advance # "NONE" /\ todo = <<>>
    /\ UNCHANGED <<up, lock, other, toParent, worker, chain, toWorker>>
    /\ ResultTold /\ job'.rowRecorded /\ job'.result = "VALID" /\ job.ran
    /\ ~chain.stopRequested
    /\ advance' = "NONE" /\ todo' = <<"CREATE_NEXT">>
    /\ \A k \in Stages : row'[k] = (IF k = job.stage /\ row[k] \in ActiveStates THEN "FINISHED" ELSE row[k])

(* The transaction that ends a good stage before the next row keeps the invariant. *)
LEMMA StageRowEndsKeepsInv == ASSUME ChainInv, Types', StageRowEnds PROVE ChainInv'
<1>1. Types /\ LifeOK /\ LinkOK /\ OrdersOK /\ SlotOK /\ TruthOK /\ StageLife /\ job.stage \in Stages /\ IsTracked
    BY DEF ChainInv, LifeOK, StageRowEnds, StillAwaited, Types, JobRecord, IsTracked
<1>2. /\ UNCHANGED <<up, lock, other, toParent, worker, chain, toWorker>>
      /\ advance' = "NONE" /\ todo' = <<"CREATE_NEXT">> /\ ResultTold /\ job'.rowRecorded /\ job'.result = "VALID" /\ job'.ran
      /\ job'.stage = job.stage /\ job'.phase = job.phase /\ job'.ending = job.ending /\ job'.ran = job.ran /\ job'.ipc = job.ipc
      /\ IsTracked' /\ (IsAlive' <=> IsAlive) /\ up /\ todo = <<>> /\ job.ipc = "OPEN" /\ ~chain.stopRequested
    BY DEF StageRowEnds, ResultTold, IsTracked, IsAlive, StillAwaited, ExitSeen
<1>3. job.ending = "FINISHED" /\ chain.state = "RUNNING" /\ job.phase = "DONE" /\ job.stage # LastStage /\ ~job.rowRecorded
    BY <1>1 DEF StageRowEnds, StageLife
<1>4. /\ \A k \in Stages : row'[k] = "NONE" <=> row[k] = "NONE"
      /\ \A k \in Stages : row[k] = "FINISHED" => row'[k] = "FINISHED"
    BY DEF StageRowEnds, ActiveStates
<1>5. worker.at \in {"AWAIT", "EXITING", "GONE"} /\ (worker.at = "AWAIT" => \A i \in DOMAIN toWorker : toWorker[i] \notin Orders)
    BY <1>1, <1>2, WorkerAwaits DEF StageRowEnds, StageLife, IsAlive
<1>6. LifeOK'
    <2>1. ServerLife'
        BY <1>1, <1>2, <1>3 DEF LifeOK, ServerLife, StillAwaited, ExitSeen
    <2>2. StageLife'
        BY <1>1, <1>2, <1>3 DEF StageLife, StillAwaited, ExitSeen
    <2> QED BY <2>1, <2>2 DEF LifeOK
<1>7. LinkOK'
    BY <1>1, <1>2 DEF LinkOK, Linked, Fits, PhaseBefore, PhaseAtLast
<1>8. OrdersOK'
    BY <1>1, <1>2, <1>5 DEF OrdersOK, Orders
<1>9. SlotOK'
    BY <1>1, <1>2, <1>5 DEF SlotOK
<1>10. TruthOK'
    <2>1. /\ \A k \in Stages : k < LastStage /\ row'[k + 1] # "NONE" /\ ChainStages[k] # "AUDIT" => recorded'[k] = 1
          /\ \A k \in Stages : k > job'.stage => row'[k] = "NONE" /\ recorded'[k] = 0
          /\ job'.result = "NONE" => recorded'[job'.stage] = 0
          /\ job'.ran /\ job'.result = "VALID" /\ ChainStages[job'.stage] # "AUDIT" => recorded'[job'.stage] = 1
          /\ \A k \in Stages : recorded[k] = 1 => recorded'[k] = 1
        BY <1>1, <1>2, <1>4, ToldResults
    <2>2. \A k \in Stages : chain'.stages[k] = (IF k < job'.stage THEN "DONE" ELSE IF k = job'.stage THEN "RUNNING" ELSE "PENDING")
        BY <1>1, <1>2, <1>3 DEF TruthOK
    <2>3. lock' = "HELD" => row'[job'.stage] = "FINISHED"
        <3>1. lock = "HELD" => row[job.stage] \in ActiveStates
            BY <1>1, <1>3 DEF SlotOK, SlotHeldBy
        <3> QED BY <1>1, <1>2, <3>1 DEF StageRowEnds
    <2>4. ASSUME lock' = "HELD", NEW k \in Stages, chain'.stages[k] = "DONE"
          PROVE  row'[k] = "FINISHED" /\ (ChainStages[k] # "AUDIT" => recorded'[k] = 1)
        <3>1. k # job.stage
            BY <1>1, <1>2, <2>2, <2>4, ChainStagesAre
        <3> QED BY <1>1, <1>2, <1>4, <2>1, <2>4, <3>1 DEF TruthOK
    <2> QED BY <1>1, <1>2, <1>3, <1>4, <2>1, <2>2, <2>3, <2>4 DEF TruthOK
<1> QED BY <1>6, <1>7, <1>8, <1>9, <1>10 DEF ChainInv

(* The result is told, and nothing else happens but that what waits goes on *)
(* (the look-up before the last stage, the exit).                           *)
ResultOnly ==
    /\ up /\ IsTracked /\ todo = <<>> /\ job.ending # "NONE"
    /\ UNCHANGED <<up, lock, other, row, toParent, worker, chain, toWorker>>
    /\ ResultTold /\ job'.rowRecorded = job.rowRecorded
    /\ job.ending # "FINISHED" => job'.result = "NONE"
    /\ job.result # "NONE" => job'.result = job.result
    /\ \/ StillAwaited /\ advance # "NONE" /\ advance' = "LOOKING" /\ todo' = <<>>
       \/ /\ job.ipc = "CLOSED" /\ advance' = advance /\ todo' = <<"END_ROW">>
          /\ job.ending = "FINISHED" => job'.result # "NONE"

(* A step that records the result and decides nothing yet keeps the invariant. *)
LEMMA ResultOnlyKeepsInv == ASSUME ChainInv, Types', ResultOnly PROVE ChainInv'
<1>1. Types /\ LifeOK /\ LinkOK /\ OrdersOK /\ SlotOK /\ TruthOK /\ StageLife /\ job.stage \in Stages /\ IsTracked
    BY DEF ChainInv, LifeOK, ResultOnly, Types, JobRecord, IsTracked
<1>2. /\ UNCHANGED <<up, lock, other, row, toParent, worker, chain, toWorker>>
      /\ ResultTold /\ job'.rowRecorded = job.rowRecorded
      /\ job'.stage = job.stage /\ job'.phase = job.phase /\ job'.ending = job.ending /\ job'.ran = job.ran /\ job'.ipc = job.ipc
      /\ IsTracked' /\ (IsAlive' <=> IsAlive) /\ up /\ todo = <<>> /\ job.ending # "NONE"
      /\ todo' \in {<<>>, <<"END_ROW">>}
    BY DEF ResultOnly, ResultTold, IsTracked, IsAlive
<1> todo' # <<"LAUNCH">> /\ todo' # <<"CREATE_NEXT">>
    <2>1. <<"END_ROW">> # <<"LAUNCH">> /\ <<"END_ROW">> # <<"CREATE_NEXT">> /\ <<>> # <<"LAUNCH">> /\ <<>> # <<"CREATE_NEXT">>
        <3>1. <<"END_ROW">>[1] # <<"LAUNCH">>[1] /\ <<"END_ROW">>[1] # <<"CREATE_NEXT">>[1]
            OBVIOUS
        <3> QED BY <3>1
    <2> QED BY <1>2, <2>1
<1>3. LifeOK'
    <2>1. ServerLife'
        <3>1. chain.state # "NONE"
            BY <1>1, StartRecords DEF LifeOK, ServerLife, IsTracked
        <3> QED BY <1>1, <1>2, <3>1 DEF LifeOK, ServerLife, StillAwaited, ExitSeen
    <2>2. StageLife'
        BY <1>1, <1>2 DEF ResultOnly, StageLife, StillAwaited, ExitSeen
    <2> QED BY <2>1, <2>2 DEF LifeOK
<1>4. LinkOK'
    BY <1>1, <1>2 DEF LinkOK, Linked, Fits, PhaseBefore, PhaseAtLast
<1>5. OrdersOK'
    <2>1. ASSUME worker.at = "AWAIT", NEW i \in DOMAIN toWorker, toWorker[i] = "CHAIN_END" PROVE advance' = "NONE"
        <3>1. advance = "NONE"
            BY <1>1, <1>2, <2>1 DEF OrdersOK
        <3> QED BY <3>1 DEF ResultOnly
    <2> QED BY <1>1, <1>2, <2>1 DEF OrdersOK, SlotHeldBy
<1>6. SlotOK'
    BY <1>1, <1>2 DEF SlotOK, SlotHeldBy
<1>7. TruthOK'
    <2>1. /\ \A k \in Stages : k < LastStage /\ row'[k + 1] # "NONE" /\ ChainStages[k] # "AUDIT" => recorded'[k] = 1
          /\ \A k \in Stages : k > job'.stage => row'[k] = "NONE" /\ recorded'[k] = 0
          /\ job'.result = "NONE" => recorded'[job'.stage] = 0
          /\ job'.ran /\ job'.result = "VALID" /\ ChainStages[job'.stage] # "AUDIT" => recorded'[job'.stage] = 1
          /\ \A k \in Stages : recorded[k] = 1 => recorded'[k] = 1
        BY <1>1, <1>2, ToldResults
    <2>2. ASSUME lock' = "HELD", NEW k \in Stages, chain'.stages[k] = "DONE"
          PROVE  \/ row'[k] = "FINISHED" /\ (ChainStages[k] # "AUDIT" => recorded'[k] = 1)
                 \/ /\ job'.stage = k /\ job'.ending = "FINISHED" /\ job'.result = "VALID" /\ job'.ran
                    /\ ~job'.rowRecorded
        <3>1. \/ row[k] = "FINISHED" /\ (ChainStages[k] # "AUDIT" => recorded[k] = 1)
              \/ job.stage = k /\ job.ending = "FINISHED" /\ job.result = "VALID" /\ job.ran /\ ~job.rowRecorded
            BY <1>1, <1>2, <2>2 DEF TruthOK
        <3> QED BY <1>2, <2>1, <3>1 DEF ResultOnly
    <2> QED BY <1>1, <1>2, <2>1, <2>2 DEF TruthOK
<1> QED BY <1>3, <1>4, <1>5, <1>6, <1>7 DEF ChainInv

(* A job with its result, and that job once its exit is awaited or its row  *)
(* is recorded                                                              *)
LEMMA JobWithResult ==
    ASSUME NEW j \in JobRecord, NEW verdict \in {"NONE", "VALID", "INVALID"}, NEW yes \in BOOLEAN
    PROVE  /\ LET d == [j EXCEPT !.result = verdict]
              IN  /\ d \in JobRecord /\ d.stage = j.stage /\ d.phase = j.phase /\ d.ending = j.ending /\ d.ran = j.ran /\ d.ipc = j.ipc
                  /\ d.rowRecorded = j.rowRecorded /\ d.result = verdict
           /\ LET d == [j EXCEPT !.exitTimer = yes]
              IN  /\ d \in JobRecord /\ d.stage = j.stage /\ d.phase = j.phase /\ d.ending = j.ending /\ d.ran = j.ran /\ d.ipc = j.ipc
                  /\ d.rowRecorded = j.rowRecorded /\ d.result = j.result
           /\ LET d == [j EXCEPT !.rowRecorded = yes]
              IN  /\ d \in JobRecord /\ d.stage = j.stage /\ d.phase = j.phase /\ d.ending = j.ending /\ d.ran = j.ran /\ d.ipc = j.ipc
                  /\ d.rowRecorded = yes /\ d.result = j.result
BY DEF JobRecord

(* The job j is the tracked one, with the result that was told. *)
TellsOf(j, verdict) ==
    /\ \/ job.result = "NONE" /\ RecordResult(verdict) /\ j.result = verdict
       \/ UNCHANGED recorded /\ j.result = job.result
    /\ j.stage = job.stage /\ j.phase = job.phase /\ j.ending = job.ending /\ j.ran = job.ran /\ j.ipc = job.ipc
    /\ j.rowRecorded = job.rowRecorded

(* #stopChainAt of a job whose end is looked after *)
LEMMA StoppingStopsChain ==
    ASSUME ChainInv, up, IsTracked, (StillAwaited /\ advance # "NONE") \/ todo = <<"CREATE_NEXT">>,
           UNCHANGED <<up, row, other, toParent, worker>>, lock' = "HELD" => lock = "HELD",
           advance' = "NONE", todo' = <<>>,
           NEW j \in JobRecord, NEW verdict \in {"VALID", "INVALID"}, TellsOf(j, verdict),
           NEW reason \in Reasons, StopChainAt(j, reason)
    PROVE  ChainStops
<1> PICK yes \in BOOLEAN : yes = TRUE
    OBVIOUS
<1>1. job' = [j EXCEPT !.exitTimer = yes]
    BY Zenon DEF StopChainAt
<1>2. /\ job'.stage = j.stage /\ job'.phase = j.phase /\ job'.ending = j.ending /\ job'.ran = j.ran /\ job'.ipc = j.ipc
      /\ job'.rowRecorded = j.rowRecorded /\ job'.result = j.result
    BY <1>1, JobWithResult
<1>3. ResultTold /\ job'.rowRecorded = job.rowRecorded
    <2>1. Types /\ TruthOK
        BY DEF ChainInv
    <2>2. \/ job.result = "NONE" /\ RecordResult(verdict) /\ job'.result = verdict
          \/ UNCHANGED recorded /\ job'.result = job.result
        BY <1>2 DEF TellsOf
    <2>3. /\ job'.stage = job.stage /\ job'.phase = job.phase /\ job'.ending = job.ending /\ job'.ran = job.ran
          /\ job'.ipc = job.ipc /\ job'.rowRecorded = job.rowRecorded
        BY <1>2 DEF TellsOf
    <2> QED BY <2>1, <2>2, <2>3, RecordedIsTold
<1>4. chain' = Closed(chain, reason, "NOT_STARTED") /\ toWorker' = Sent(<<"CHAIN_END">>)
    BY DEF StopChainAt
<1> QED BY <1>3, <1>4 DEF ChainStops

(* Decide, of a job whose end is looked after *)
LEMMA DecidingKeepsInv ==
    ASSUME ChainInv, Types', up, todo = <<>>, StillAwaited, advance # "NONE",
           UNCHANGED <<up, lock, other, toParent, worker>>, advance' = "NONE",
           NEW j \in JobRecord, NEW verdict \in {"VALID", "INVALID"}, TellsOf(j, verdict), Decide(j)
    PROVE  ChainInv'
<1>1. IsTracked /\ Types /\ TruthOK
    BY DEF StillAwaited, ChainInv
<1>2. ASSUME NEW reason \in Reasons, StopChainAt(j, reason), UNCHANGED <<row, todo>> PROVE ChainInv'
    <2>1. ChainStops
        BY <1>1, <1>2, StoppingStopsChain
    <2> QED BY <2>1, ChainStopsKeepsInv
<1>3. ASSUME EndStageRow(j), j.ran, j.result = "VALID", ~chain.stopRequested PROVE ChainInv'
    <2> PICK yes \in BOOLEAN : yes = TRUE
        OBVIOUS
    <2>1. job' = [j EXCEPT !.rowRecorded = yes]
        BY <1>3, Zenon DEF EndStageRow
    <2>2. /\ job'.stage = j.stage /\ job'.phase = j.phase /\ job'.ending = j.ending /\ job'.ran = j.ran /\ job'.ipc = j.ipc
          /\ job'.rowRecorded = yes /\ job'.result = j.result
        BY <2>1, JobWithResult
    <2>3. \/ job.result = "NONE" /\ RecordResult(verdict) /\ job'.result = verdict
          \/ UNCHANGED recorded /\ job'.result = job.result
        BY <2>2 DEF TellsOf
    <2>4. /\ job'.stage = job.stage /\ job'.phase = job.phase /\ job'.ending = job.ending /\ job'.ran = job.ran /\ job'.ipc = job.ipc
        BY <2>2 DEF TellsOf
    <2>5. ResultTold
        BY <1>1, <2>3, <2>4, RecordedIsTold
    <2>6. row' = RowTo(job.stage, "FINISHED") /\ todo' = <<"CREATE_NEXT">> /\ UNCHANGED <<chain, toWorker>>
        BY <1>3, <2>2, <2>4 DEF EndStageRow
    <2>7. \A k \in Stages : row'[k] = (IF k = job.stage /\ row[k] \in ActiveStates THEN "FINISHED" ELSE row[k])
        <3>1. "FINISHED" \in RowStates \ {"NONE"} /\ row \in [Stages -> RowStates]
            BY <1>1 DEF RowStates, Types
        <3> QED BY <2>6, <3>1, RowToTouchesOne
    <2>8. StageRowEnds
        BY <1>3, <2>2, <2>4, <2>5, <2>6, <2>7 DEF StageRowEnds
    <2> QED BY <2>8, StageRowEndsKeepsInv
<1> QED BY <1>1, <1>2, <1>3, DecideCases

(* An advance that goes on: the result was read, or the definitions were,   *)
(* or the database threw.                                                   *)
LEMMA AdvancesKeepInv ==
    ASSUME ChainInv, Types',
           \/ AdvanceWithDefinitions
           \/ \E verdict \in {"VALID", "INVALID"} : AdvanceWithResult(verdict) \/ FailAdvance(verdict)
    PROVE  ChainInv'
<1>0. /\ Types /\ job \in JobRecord /\ TruthOK /\ LifeOK
      /\ "NEXT_STAGE_REJECTED" \in Reasons
    BY DEF ChainInv, Types, Reasons, StopReasons
<1>1. CASE AdvanceWithDefinitions
    <2>1. /\ up /\ todo = <<>> /\ StillAwaited /\ advance # "NONE" /\ advance' = "NONE" /\ Decide(job)
          /\ UNCHANGED <<up, lock, other, recorded, toParent, worker>>
        BY <1>1 DEF AdvanceWithDefinitions, DecideAgain, Idle
    <2>2. TellsOf(job, "VALID")
        BY <2>1 DEF TellsOf
    <2> QED BY <1>0, <2>1, <2>2, DecidingKeepsInv
<1>2. ASSUME NEW verdict \in {"VALID", "INVALID"}, FailAdvance(verdict) PROVE ChainInv'
    <2> DEFINE j == [job EXCEPT !.result = verdict]
    <2>1. /\ up /\ todo = <<>> /\ StillAwaited /\ advance # "NONE" /\ advance' = "NONE" /\ todo' = <<>> /\ IsTracked
          /\ StopChainAt(j, "NEXT_STAGE_REJECTED") /\ UNCHANGED <<up, lock, row, other, toParent, worker>>
        BY <1>2 DEF FailAdvance, Idle, StillAwaited
    <2>2. /\ j \in JobRecord /\ j.stage = job.stage /\ j.phase = job.phase /\ j.ending = job.ending /\ j.ran = job.ran
          /\ j.ipc = job.ipc /\ j.rowRecorded = job.rowRecorded /\ j.result = verdict
        BY <1>0 DEF JobRecord
    <2> HIDE DEF j
    <2>3. \/ job.result = "NONE" /\ RecordResult(verdict)
          \/ UNCHANGED recorded /\ verdict = job.result
        <3>1. CASE advance = "READING"
            <4>1. job.result = "NONE"
                BY <1>0, <2>1, <3>1 DEF LifeOK, StageLife
            <4> QED BY <1>2, <3>1, <4>1 DEF FailAdvance
        <3>2. CASE advance # "READING"
            BY <1>2, <3>2 DEF FailAdvance
        <3> QED BY <3>1, <3>2
    <2>4. TellsOf(j, verdict)
        BY <2>2, <2>3 DEF TellsOf
    <2>5. ChainStops
        BY <1>0, <2>1, <2>2, <2>4, StoppingStopsChain
    <2> QED BY <2>5, ChainStopsKeepsInv
<1>3. ASSUME NEW verdict \in {"VALID", "INVALID"}, AdvanceWithResult(verdict) PROVE ChainInv'
    <2> PICK yes \in BOOLEAN : yes = TRUE
        OBVIOUS
    <2> DEFINE j == [job EXCEPT !.result = verdict]
               goesOn == FoundReasons(j, verdict = "VALID", UserStopped, changed) = {}
    <2>1. /\ up /\ todo = <<>> /\ StillAwaited /\ advance = "READING" /\ IsTracked
          /\ RecordResult(verdict) /\ UNCHANGED <<up, lock, other, toParent, worker>>
        BY <1>3 DEF AdvanceWithResult, Idle, StillAwaited
    <2>2. /\ j \in JobRecord /\ j.stage = job.stage /\ j.phase = job.phase /\ j.ending = job.ending /\ j.ran = job.ran
          /\ j.ipc = job.ipc /\ j.rowRecorded = job.rowRecorded /\ j.result = verdict
        BY <1>0 DEF JobRecord
    <2>3. /\ job.result = "NONE" /\ job.ending = "FINISHED" /\ ~job.rowRecorded
        BY <1>0, <2>1 DEF LifeOK, StageLife
    <2>4. \/ advance' = "LOOKING" /\ job' = j /\ UNCHANGED <<row, todo, chain, toWorker>>
          \/ /\ goesOn
             /\ advance' = "NONE"
             /\ chain' = Closed(chain, "NONE", "NOT_NEEDED")
             /\ toWorker' = Sent(<<"CHAIN_END">>)
             /\ job' = [j EXCEPT !.exitTimer = TRUE]
             /\ UNCHANGED <<row, todo>>
          \/ advance' = "NONE" /\ Decide(j)
        BY <1>3, Zenon DEF AdvanceWithResult
    <2>5. goesOn => j.ran /\ verdict = "VALID" /\ ~chain.stopRequested
        BY DEF FoundReasons, UserStopped
    <2> HIDE DEF j, goesOn
    <2>6. TellsOf(j, verdict)
        BY <2>1, <2>2, <2>3 DEF TellsOf
    <2>7. CASE advance' = "LOOKING" /\ job' = j /\ UNCHANGED <<row, todo, chain, toWorker>>
        <3>1. ResultTold
            BY <1>0, <2>1, <2>2, <2>3, <2>7, RecordedIsTold
        <3>2. ResultOnly
            BY <2>1, <2>2, <2>3, <2>7, <3>1 DEF ResultOnly
        <3> QED BY <3>2, ResultOnlyKeepsInv
    <2>8. CASE /\ goesOn
               /\ advance' = "NONE"
               /\ chain' = Closed(chain, "NONE", "NOT_NEEDED")
               /\ toWorker' = Sent(<<"CHAIN_END">>)
               /\ job' = [j EXCEPT !.exitTimer = TRUE]
               /\ UNCHANGED <<row, todo>>
        <3>1. job' = [j EXCEPT !.exitTimer = yes]
            BY <2>8, Zenon
        <3>2. /\ job'.stage = job.stage /\ job'.phase = job.phase /\ job'.ending = job.ending /\ job'.ran = job.ran
              /\ job'.ipc = job.ipc /\ job'.rowRecorded = job.rowRecorded /\ job'.result = verdict
            BY <2>2, <3>1, JobWithResult
        <3>3. ResultTold
            BY <1>0, <2>1, <2>3, <3>2, RecordedIsTold
        <3>4. ChainStops
            BY <2>1, <2>2, <2>3, <2>5, <2>8, <3>2, <3>3 DEF ChainStops
        <3> QED BY <3>4, ChainStopsKeepsInv
    <2>9. CASE advance' = "NONE" /\ Decide(j)
        BY <2>1, <2>2, <2>6, <2>9, DecidingKeepsInv
    <2> QED BY <2>4, <2>7, <2>8, <2>9
<1> QED BY <1>1, <1>2, <1>3

(* The exit reads what no advance has recorded. *)
LEMMA ExitedKeepsInv == ASSUME ChainInv, Types', NEW verdict \in {"VALID", "INVALID"}, Exited(verdict) PROVE ChainInv'
<1>1. /\ up /\ todo = <<>> /\ job.ipc = "CLOSED" /\ todo' = <<"END_ROW">>
      /\ UNCHANGED <<up, lock, row, other, advance, chain, toParent, toWorker, worker>>
    BY DEF Exited, Idle
<1>2. Types /\ TruthOK /\ LifeOK /\ job \in JobRecord
    BY DEF ChainInv, Types
<1>3. IsTracked /\ StageLife /\ job.ending # "NONE"
    <2>1. NoJob.ipc = "OPEN"
        BY DEF NoJob
    <2> QED BY <1>1, <1>2, <2>1 DEF LifeOK, ServerLife, StageLife
<1>4. CASE NeedsRecord(job)
    <2>1. RecordResult(verdict) /\ job' = [job EXCEPT !.result = verdict] /\ job.result = "NONE" /\ job.ending = "FINISHED"
        BY <1>4 DEF Exited, NeedsRecord
    <2>2. /\ job'.stage = job.stage /\ job'.phase = job.phase /\ job'.ending = job.ending /\ job'.ran = job.ran
          /\ job'.ipc = job.ipc /\ job'.rowRecorded = job.rowRecorded /\ job'.result = verdict
        BY <1>2, <2>1, JobWithResult
    <2>3. ResultTold
        BY <1>2, <1>3, <2>1, <2>2, RecordedIsTold
    <2>4. ResultOnly
        BY <1>1, <1>3, <2>1, <2>2, <2>3 DEF ResultOnly
    <2> QED BY <2>4, ResultOnlyKeepsInv
<1>5. CASE ~NeedsRecord(job)
    <2>1. UNCHANGED <<recorded, job>> /\ (job.ending = "FINISHED" => job.result # "NONE")
        BY <1>5 DEF Exited, NeedsRecord
    <2>2. ResultTold
        BY <1>2, <1>3, <2>1, RecordedIsTold
    <2>3. ResultOnly
        BY <1>1, <1>3, <2>1, <2>2 DEF ResultOnly, StageLife
    <2> QED BY <2>3, ResultOnlyKeepsInv
<1> QED BY <1>4, <1>5

(* What is still under way from the worker when its stage is decided as     *)
(* finished: at most that it failed since.                                  *)
LEMMA OnlyFailureFollows ==
    ASSUME Types, LinkOK, Linked, job.phase = "DONE"
    PROVE  \A i \in DOMAIN toParent : i = 1 /\ toParent[i].type = "FAILED" /\ i = Len(toParent)
<1> SUFFICES ASSUME toParent # <<>>
             PROVE  \A i \in DOMAIN toParent : i = 1 /\ toParent[i].type = "FAILED" /\ i = Len(toParent)
    OBVIOUS
<1>1. /\ 1 \in DOMAIN toParent /\ toParent[1] \in MessageRecord
      /\ \A i \in DOMAIN toParent : i \in 1 .. Len(toParent)
    BY DEF Types
<1>2. Fits(toParent[1], "DONE", job.stage)
    BY <1>1 DEF LinkOK, PhaseBefore
<1>3. toParent[1].type = "FAILED"
    BY <1>1, <1>2 DEF Fits, MessageRecord
<1>4. Len(toParent) = 1
    BY <1>1, <1>3 DEF LinkOK
<1> QED BY <1>1, <1>3, <1>4

(* CommitCreateNext: the chain goes on with the next stage. *)
NextStageBegins(k) ==
    /\ k = job.stage /\ up /\ todo = <<"CREATE_NEXT">> /\ todo' = <<>>
    /\ lock = "HELD" /\ SlotIsFree
    /\ row' = [row EXCEPT ![k + 1] = "STARTING"]
    /\ job' = JobOfNextStage(k)
    /\ chain' = [chain EXCEPT !.stages[k] = "DONE", !.stages[k + 1] = "RUNNING"]
    /\ toWorker' = Sent(<<"NEXT_STAGE">>)
    /\ UNCHANGED <<up, lock, other, recorded, advance, toParent, worker>>

(* The start of the next stage, row and order together, keeps the invariant. *)
LEMMA NextStageKeepsInv == ASSUME ChainInv, Types', NEW k \in Stages, NextStageBegins(k) PROVE ChainInv'
<1>1. Types /\ LifeOK /\ LinkOK /\ OrdersOK /\ SlotOK /\ TruthOK
    BY DEF ChainInv
<1>2. /\ k = job.stage /\ up /\ todo = <<"CREATE_NEXT">> /\ todo' = <<>> /\ lock = "HELD" /\ SlotIsFree
      /\ UNCHANGED <<up, lock, other, recorded, advance, toParent, worker>> /\ IsTracked /\ StageLife
    BY <1>1 DEF NextStageBegins, LifeOK, ServerLife
<1>3. /\ job.ending = "FINISHED" /\ job.phase = "DONE" /\ job.ipc = "OPEN" /\ job.ran /\ job.result = "VALID" /\ Linked
      /\ chain.state = "RUNNING" /\ ~chain.stopRequested /\ advance = "NONE" /\ k # LastStage /\ k + 1 \in Stages
    BY <1>2, ChainStagesAre DEF StageLife, Linked
<1>4. /\ job'.stage = k + 1 /\ job'.phase = "STARTED" /\ job'.ending = "NONE" /\ ~job'.ran
      /\ job'.result = "NONE" /\ ~job'.rowRecorded /\ job'.ipc = "OPEN" /\ IsTracked'
    <2>1. job' = JobOfNextStage(k)
        BY DEF NextStageBegins
    <2> QED BY <1>3, <2>1, NewJobs, ChainStagesAre DEF IsTracked
<1>5. /\ chain'.state = "RUNNING" /\ ~chain'.stopRequested
      /\ \A i \in Stages : chain'.stages[i] = (IF i = k THEN "DONE" ELSE IF i = k + 1 THEN "RUNNING" ELSE chain.stages[i])
    <2>1. chain' = [chain EXCEPT !.stages[k] = "DONE", !.stages[k + 1] = "RUNNING"] /\ chain \in ChainRecord
        BY <1>1 DEF NextStageBegins, Types
    <2>2. PICK c \in ChainRecord : c = chain
        BY <2>1
    <2>3. LET d == [c EXCEPT !.stages[k] = "DONE", !.stages[k + 1] = "RUNNING"]
          IN  /\ d \in ChainRecord /\ d.state = c.state /\ d.stopRequested = c.stopRequested
              /\ \A i \in Stages : d.stages[i] = (IF i = k THEN "DONE" ELSE IF i = k + 1 THEN "RUNNING" ELSE c.stages[i])
        BY <1>3, NextStageShown, Zenon
    <2>4. /\ chain'.state = c.state /\ chain'.stopRequested = c.stopRequested
          /\ \A i \in Stages : chain'.stages[i] = (IF i = k THEN "DONE" ELSE IF i = k + 1 THEN "RUNNING" ELSE c.stages[i])
        BY <2>1, <2>2, <2>3, Zenon
    <2> QED BY <1>3, <2>2, <2>4
<1>6. row'[k + 1] = "STARTING" /\ \A i \in Stages : i # k + 1 => row'[i] = row[i]
    BY <1>1, <1>3 DEF NextStageBegins, Types
<1>7. /\ k \in Nat /\ \A i \in Stages : i \in Nat
      /\ \A i \in Stages : i < LastStage => i + 1 \in Stages
      /\ \A i \in Stages : i > k + 1 => i > k
    BY ChainStagesAre
<1>8. IsAlive /\ worker.at # "EXITING" =>
        /\ worker.at = "AWAIT" /\ worker.stage = k /\ \A i \in DOMAIN toWorker : toWorker[i] \notin Orders
    BY <1>2, WorkerAwaits
<1>9. worker.at \in {"AWAIT", "EXITING", "GONE"}
    BY <1>2, <1>8 DEF StageLife, IsAlive
<1>10. \A i \in DOMAIN toParent : i = 1 /\ toParent[i].type = "FAILED" /\ i = Len(toParent)
    BY <1>1, <1>3, OnlyFailureFollows
<1>11. worker.at = "AWAIT" => worker.stage = k /\ toParent = <<>>
    <2> SUFFICES ASSUME worker.at = "AWAIT" PROVE worker.stage = k /\ toParent = <<>>
        OBVIOUS
    <2>1. \A i \in DOMAIN toParent : FALSE
        BY <1>1, <1>10 DEF LinkOK
    <2>2. toParent = <<>>
        <3>1. toParent \in Seq(MessageRecord)
            BY <1>1 DEF Types
        <3>2. toParent # <<>> => 1 \in DOMAIN toParent
            BY <3>1
        <3> QED BY <2>1, <3>2
    <2> QED BY <1>8, <2>2 DEF IsAlive
<1>12. SlotHeldBy(k + 1)'
    <2>1. ~other /\ \A i \in Stages : row[i] \notin ActiveStates
        BY <1>2 DEF SlotIsFree, ActiveStages
    <2>2. \A i \in Stages : row'[i] \in ActiveStates <=> i = k + 1
        BY <1>6, <2>1 DEF ActiveStates
    <2> QED BY <1>2, <2>1, <2>2 DEF SlotHeldBy
<1>13. LifeOK'
    <2>1. ServerLife'
        BY <1>2, <1>4, <1>5 DEF ServerLife, StillAwaited, ExitSeen
    <2>2. StageLife'
        BY <1>2, <1>3, <1>4, <1>5, <1>9 DEF StageLife
    <2> QED BY <2>1, <2>2 DEF LifeOK
<1>14. LinkOK'
    <2>1. ASSUME NEW i \in DOMAIN toParent'
          PROVE  /\ Fits(toParent'[i], PhaseBefore(i)', job'.stage)
                 /\ toParent'[i].type = "FAILED" => worker'.at \in {"EXITING", "GONE"} /\ i = Len(toParent')
        <3>1. i \in DOMAIN toParent /\ toParent'[i] = toParent[i] /\ toParent[i].type = "FAILED"
            BY <1>2, <1>10
        <3>2. worker.at \in {"EXITING", "GONE"} /\ i = Len(toParent)
            BY <1>1, <3>1 DEF LinkOK
        <3> QED BY <1>2, <3>1, <3>2 DEF Fits
    <2>2. worker'.at = "AWAIT" => PhaseAtLast' = "STARTED" /\ worker'.stage # job'.stage
        BY <1>2, <1>4, <1>7, <1>11 DEF PhaseAtLast
    <2> QED BY <1>2, <1>9, <2>1, <2>2 DEF LinkOK
<1>15. OrdersOK' /\ (worker.at = "AWAIT" => \E i \in DOMAIN toWorker' : toWorker'[i] = "NEXT_STAGE")
    <2>1. toWorker \in Seq(WorkerMessages) /\ "NEXT_STAGE" \in WorkerMessages /\ toWorker' = Sent(<<"NEXT_STAGE">>)
        BY <1>1 DEF Types, WorkerMessages, NextStageBegins
    <2>2. CASE IsAlive /\ worker.at # "EXITING" /\ toWorker' = Append(toWorker, "NEXT_STAGE")
        <3>1. PICK n \in Nat : n = Len(toWorker)
            BY <2>1
        <3>2. /\ DOMAIN toWorker' = 1 .. n + 1 /\ DOMAIN toWorker = 1 .. n /\ toWorker'[n + 1] = "NEXT_STAGE"
              /\ \A i \in 1 .. n : toWorker'[i] = toWorker[i]
            BY <2>1, <2>2, <3>1
        <3>3. n + 1 \in DOMAIN toWorker' /\ \A i \in DOMAIN toWorker' : toWorker'[i] \in Orders => i = n + 1
            BY <1>8, <2>2, <3>2
        <3>4. OrdersOK'
            <4>1. worker'.stage + 1 = k + 1 /\ worker'.at = "AWAIT" /\ toParent' = <<>>
                BY <1>2, <1>8, <1>11, <2>2
            <4>2. \A i \in DOMAIN toWorker' : toWorker'[i] \in Orders => toWorker'[i] = "NEXT_STAGE"
                BY <3>2, <3>3
            <4> QED BY <1>3, <1>4, <1>12, <3>3, <4>1, <4>2 DEF OrdersOK, Orders, SlotHeldBy
        <3> QED BY <3>2, <3>3, <3>4
    <2>3. CASE ~(IsAlive /\ worker.at # "EXITING") /\ toWorker' = toWorker
        <3>1. worker.at \in {"EXITING", "GONE"}
            BY <1>9, <2>3 DEF IsAlive
        <3> QED BY <1>1, <1>2, <2>3, <3>1 DEF OrdersOK
    <2>4. ~ExitSeen
        BY <1>3 DEF ExitSeen
    <2> QED BY <2>1, <2>2, <2>3, <2>4, SentAppends
<1>16. SlotOK'
    <2>1. worker'.at = "AWAIT" => worker'.stage \in Stages /\ job'.stage = worker'.stage + 1
        BY <1>2, <1>4, <1>11
    <2> QED BY <1>2, <1>4, <1>9, <1>12, <1>15, <2>1 DEF SlotOK, SlotHeldBy
<1>17. TruthOK'
    <2>1. ASSUME NEW i \in Stages, i < LastStage, row'[i + 1] # "NONE", ChainStages[i] # "AUDIT" PROVE recorded'[i] = 1
        <3>1. CASE i = k
            BY <1>1, <1>2, <1>3, <2>1, <3>1 DEF TruthOK
        <3>2. CASE i # k
            <4>1. i + 1 \in Stages /\ i + 1 # k + 1
                BY <1>7, <2>1, <3>2
            <4>2. row[i + 1] # "NONE"
                BY <1>6, <2>1, <4>1
            <4> QED BY <1>1, <1>2, <2>1, <4>2 DEF TruthOK
        <3> QED BY <3>1, <3>2
    <2>2. \A i \in Stages : i > k + 1 => row'[i] = "NONE" /\ recorded'[i] = 0
        <3> TAKE i \in Stages
        <3>1. i > k + 1 => i > k /\ i # k + 1
            BY <1>7
        <3> QED BY <1>1, <1>2, <1>6, <3>1 DEF TruthOK
    <2>3. recorded'[k + 1] = 0
        <3>1. k + 1 > k
            BY <1>7
        <3> QED BY <1>1, <1>2, <1>3, <3>1 DEF TruthOK
    <2>4. \A i \in Stages : chain.stages[i] = (IF i < k THEN "DONE" ELSE IF i = k THEN "RUNNING" ELSE "PENDING")
        BY <1>1, <1>2, <1>3 DEF TruthOK
    <2>5. \A i \in Stages : chain'.stages[i] = (IF i < k + 1 THEN "DONE" ELSE IF i = k + 1 THEN "RUNNING" ELSE "PENDING")
        <3> TAKE i \in Stages
        <3>1. (i < k + 1 <=> i < k \/ i = k) /\ k # k + 1 /\ ~(k + 1 < k)
            BY <1>7
        <3> QED BY <1>5, <2>4, <3>1
    <2>6. ASSUME NEW i \in Stages, chain'.stages[i] = "DONE"
          PROVE  row'[i] = "FINISHED" /\ (ChainStages[i] # "AUDIT" => recorded'[i] = 1)
        <3>1. (i = k \/ i < k) /\ i # k + 1
            BY <1>7, <2>5, <2>6
        <3>2. CASE i = k
            BY <1>1, <1>2, <1>3, <1>6, <3>1, <3>2 DEF TruthOK
        <3>3. CASE i < k
            <4>1. i # k /\ chain.stages[i] = "DONE"
                BY <1>7, <2>4, <3>3
            <4> QED BY <1>1, <1>2, <1>6, <3>1, <4>1 DEF TruthOK
        <3> QED BY <3>1, <3>2, <3>3
    <2> QED BY <1>2, <1>4, <1>5, <2>1, <2>2, <2>3, <2>5, <2>6 DEF TruthOK
<1> QED BY <1>13, <1>14, <1>15, <1>16, <1>17 DEF ChainInv

(* createNext starts the next stage, or stops the chain where it may not.   *)
LEMMA CommitCreateNextKeepsInv == ASSUME ChainInv, Types', CommitCreateNext PROVE ChainInv'
<1>1. /\ up /\ todo = <<"CREATE_NEXT">> /\ todo' = <<>>
      /\ UNCHANGED <<up, closing, changed, other, recorded, advance, toParent, worker>>
    BY DEF CommitCreateNext
<1>2. Types /\ IsTracked /\ StageLife /\ advance = "NONE" /\ job \in JobRecord
    BY <1>1 DEF ChainInv, LifeOK, ServerLife, StageLife, Types
<1>3. CASE lock # "HELD" \/ changed \/ ~SlotIsFree
    <2>1. /\ lock' = IF lock = "TAKEN" THEN "LOST" ELSE lock
          /\ StopChainAt(job, IF lock = "HELD" /\ changed THEN "PROFILE_REVISION_CHANGED" ELSE "NEXT_STAGE_REJECTED")
          /\ UNCHANGED row
        BY <1>1, <1>3, Zenon DEF CommitCreateNext
    <2>2. PICK reason \in Reasons : StopChainAt(job, reason)
        <3>1. {"PROFILE_REVISION_CHANGED", "NEXT_STAGE_REJECTED"} \subseteq Reasons
            BY DEF Reasons, StopReasons
        <3> QED BY <2>1, <3>1
    <2>3. TellsOf(job, "VALID")
        BY <1>1 DEF TellsOf
    <2>4. ChainStops
        BY <1>1, <1>2, <2>1, <2>2, <2>3, StoppingStopsChain
    <2> QED BY <2>4, ChainStopsKeepsInv
<1>4. CASE ~(lock # "HELD" \/ changed \/ ~SlotIsFree)
    <2>1. PICK k \in Stages : k = job.stage
        BY <1>2 DEF IsTracked, JobRecord
    <2>2. /\ row' = [row EXCEPT ![job.stage + 1] = "STARTING"]
          /\ job' = JobOfNextStage(job.stage)
          /\ chain' = [chain EXCEPT !.stages[job.stage] = "DONE", !.stages[job.stage + 1] = "RUNNING"]
          /\ toWorker' = Sent(<<"NEXT_STAGE">>)
          /\ UNCHANGED lock
        BY <1>1, <1>4, Zenon DEF CommitCreateNext
    <2>3. NextStageBegins(k)
        BY <1>1, <1>4, <2>1, <2>2 DEF NextStageBegins
    <2> QED BY <2>3, NextStageKeepsInv
<1> QED BY <1>3, <1>4

(* The exit of the worker is seen. *)
LEMMA SeeExitKeepsInv == ASSUME ChainInv, Types', SeeExit PROVE ChainInv'
<1>1. /\ up /\ todo = <<>> /\ IsTracked /\ worker.at = "GONE" /\ job.ipc = "OPEN"
      /\ UNCHANGED <<up, closing, lock, todo, changed, row, other, recorded, advance, chain, toParent, toWorker, worker>>
    BY DEF SeeExit, Idle
<1>2. Types /\ LifeOK /\ LinkOK /\ OrdersOK /\ SlotOK /\ TruthOK /\ StageLife
    BY <1>1 DEF ChainInv, LifeOK
<1>3. /\ job'.stage = job.stage /\ job'.phase = job.phase /\ job'.ending = job.ending /\ job'.ran = job.ran
      /\ job'.rowRecorded = job.rowRecorded /\ job'.result = job.result /\ job'.ipc = "DRAINING" /\ IsTracked'
    BY <1>1, <1>2 DEF SeeExit, Types, JobRecord, IsTracked
<1>4. LifeOK'
    <2>1. chain.state # "NONE"
        BY <1>1, <1>2, StartRecords DEF LifeOK, ServerLife, IsTracked
    <2>2. ServerLife'
        BY <1>1, <1>2, <1>3, <2>1 DEF LifeOK, ServerLife, IsAlive
    <2>3. StageLife'
        BY <1>1, <1>2, <1>3 DEF StageLife, StillAwaited, ExitSeen
    <2> QED BY <2>2, <2>3 DEF LifeOK
<1>5. LinkOK'
    BY <1>1, <1>2, <1>3 DEF LinkOK, Linked, Fits, PhaseBefore, PhaseAtLast
<1>6. OrdersOK' /\ SlotOK'
    BY <1>1, <1>2, <1>3 DEF OrdersOK, SlotOK, SlotHeldBy, IsAlive
<1>7. TruthOK'
    BY <1>1, <1>2, <1>3 DEF TruthOK
<1> QED BY <1>4, <1>5, <1>6, <1>7 DEF ChainInv

(* No message comes any more: a job without an ending is interrupted. *)
LEMMA DrainEndsKeepsInv == ASSUME ChainInv, Types', DrainEnds PROVE ChainInv'
<1>1. /\ up /\ todo = <<>> /\ job.ipc = "DRAINING" /\ job' = [Settled(job, "INTERRUPTED") EXCEPT !.ipc = "CLOSED"]
      /\ UNCHANGED <<up, closing, lock, todo, changed, row, other, recorded, advance, chain, toParent, toWorker, worker>>
    BY DEF DrainEnds, Idle
<1>2. Types /\ LifeOK /\ LinkOK /\ OrdersOK /\ SlotOK /\ TruthOK
    BY DEF ChainInv
<1>3. IsTracked /\ StageLife /\ worker.at = "GONE"
    <2>1. NoJob.ipc = "OPEN"
        BY DEF NoJob
    <2> QED BY <1>1, <1>2, <2>1 DEF LifeOK, ServerLife, StageLife
<1> DEFINE settled == Settled(job, "INTERRUPTED")
<1>4. /\ settled \in JobRecord /\ settled.stage = job.stage /\ settled.ran = job.ran /\ settled.result = job.result
      /\ settled.rowRecorded = job.rowRecorded
      /\ settled.ending = (IF job.ending = "NONE" THEN "INTERRUPTED" ELSE job.ending)
      /\ settled.phase = (IF job.ending = "NONE" THEN "DONE" ELSE job.phase)
    BY <1>2, SettledFields DEF Types
<1>5. job' = [settled EXCEPT !.ipc = "CLOSED"]
    BY <1>1
<1> HIDE DEF settled
<1>6. /\ job'.stage = job.stage /\ job'.ran = job.ran /\ job'.result = job.result /\ job'.rowRecorded = job.rowRecorded
      /\ job'.ending = (IF job.ending = "NONE" THEN "INTERRUPTED" ELSE job.ending)
      /\ job'.phase = (IF job.ending = "NONE" THEN "DONE" ELSE job.phase)
      /\ job'.ipc = "CLOSED" /\ IsTracked'
    BY <1>3, <1>4, <1>5 DEF JobRecord, IsTracked
<1>7. LifeOK'
    <2>1. chain.state # "NONE"
        BY <1>2, <1>3, StartRecords DEF LifeOK, ServerLife, IsTracked
    <2>2. ServerLife'
        BY <1>1, <1>2, <1>3, <1>6, <2>1 DEF LifeOK, ServerLife, IsAlive
    <2>3. StageLife'
        BY <1>1, <1>3, <1>6 DEF StageLife, StillAwaited, ExitSeen
    <2> QED BY <2>2, <2>3 DEF LifeOK
<1>8. LinkOK'
    <2>1. Linked' => Linked /\ job'.phase = job.phase /\ job'.stage = job.stage
        BY <1>3, <1>6 DEF Linked
    <2> QED BY <1>1, <1>2, <1>3, <2>1 DEF LinkOK, Fits, PhaseBefore, PhaseAtLast
<1>9. OrdersOK' /\ SlotOK'
    BY <1>1, <1>2, <1>3, <1>6 DEF OrdersOK, SlotOK, SlotHeldBy, IsAlive
<1>10. TruthOK'
    BY <1>1, <1>2, <1>3, <1>6 DEF TruthOK
<1> QED BY <1>7, <1>8, <1>9, <1>10 DEF ChainInv

(* ReasonAtExit: nothing is told only behind the last stage, when nobody    *)
(* stopped the chain and that stage ran and left a usable result.           *)
LEMMA NothingToldAtExit ==
    ASSUME Types, todo = <<"END_ROW">>, StageLife
    PROVE  /\ ReasonAtExit(job) \in {"NONE"} \cup Reasons
           /\ ReasonAtExit(job) = "NONE" =>
                 /\ ~chain.stopRequested /\ job.stage = LastStage /\ job.ending = "FINISHED" /\ job.ran /\ job.result = "VALID"
<1> DEFINE found == FoundReasons(job, job.result # "INVALID", FALSE, FALSE)
<1>1. {"USER_STOPPED", "SESSION_LOST", "STAGE_FAILED", "PROFILE_REVISION_CHANGED"} \subseteq Reasons /\ "NONE" \notin Reasons
    BY DEF Reasons, StopReasons
<1>2. found \in SUBSET Reasons
    <2>1. job.findings \in SUBSET Reasons
        BY DEF Types, JobRecord
    <2> QED BY <1>1, <2>1 DEF FoundReasons
<1>3. found = {} => job.ran /\ job.result # "INVALID"
    BY DEF FoundReasons
<1>4. job.ending = "FINISHED" => job.result # "NONE"
    BY DEF StageLife
<1>5. job.result \in {"NONE", "VALID", "INVALID"}
    BY DEF Types, JobRecord
<1>6. ReasonAtExit(job) = IF UserStopped THEN "USER_STOPPED"
                          ELSE IF job.stage # LastStage \/ job.ending # "FINISHED" THEN "STAGE_FAILED"
                          ELSE FirstReason(found)
    BY DEF ReasonAtExit
<1> HIDE DEF found
<1>7. FirstReason(found) \in {"NONE"} \cup Reasons /\ (FirstReason(found) = "NONE" <=> found = {})
    BY <1>2, FirstReasonIsFound
<1> QED BY <1>1, <1>3, <1>4, <1>5, <1>6, <1>7 DEF UserStopped

(* Behind the exit the row ends, the chain is closed and the job let go of. *)
LEMMA CommitEndRowKeepsInv == ASSUME ChainInv, Types', CommitEndRow PROVE ChainInv'
<1>1. /\ up /\ todo = <<"END_ROW">> /\ todo' = <<>> /\ row' = EndedRow(job) /\ chain' = ChainAfter(job) /\ job' = NoJob
      /\ toParent' = <<>> /\ UNCHANGED <<up, closing, lock, changed, other, recorded, advance, toWorker, worker>>
    BY DEF CommitEndRow
<1>2. Types /\ LifeOK /\ LinkOK /\ OrdersOK /\ SlotOK /\ TruthOK
    BY DEF ChainInv
<1>3. IsTracked /\ StageLife /\ worker.at = "GONE" /\ job.ipc = "CLOSED" /\ job.ending # "NONE" /\ job.stage \in Stages
    BY <1>1, <1>2 DEF LifeOK, ServerLife, StageLife, IsTracked, Types, JobRecord
<1>4. PICK reason \in {"NONE"} \cup Reasons :
         /\ chain' = Closed(chain, reason, "NOT_STARTED")
         /\ reason = "NONE" => /\ ~chain.stopRequested /\ job.stage = LastStage /\ job.ending = "FINISHED" /\ job.ran
                               /\ job.result = "VALID"
    BY <1>1, <1>2, <1>3, NothingToldAtExit DEF ChainAfter
<1>5. chain \in ChainRecord /\ chain.state # "NONE"
    BY <1>2, <1>3, StartRecords DEF Types, LifeOK, ServerLife, IsTracked
<1>6. /\ chain'.state # "RUNNING" /\ chain'.state # "NONE" /\ chain'.stopRequested = chain.stopRequested
      /\ chain.state # "RUNNING" => chain' = chain
      /\ chain.state = "RUNNING" =>
            /\ chain'.state = (IF reason = "NONE" THEN "FINISHED" ELSE "STOPPED")
            /\ \A k \in Stages : chain'.stages[k] = (IF chain.stages[k] = "RUNNING" THEN IF reason = "NONE" THEN "DONE" ELSE "STOPPED"
                                                     ELSE IF chain.stages[k] = "PENDING" THEN "NOT_STARTED"
                                                     ELSE chain.stages[k])
    BY <1>4, <1>5, ClosedFields
<1>7. ~IsTracked'
    BY <1>1, StartRecords DEF IsTracked
<1>8. /\ \A k \in Stages : row'[k] = "NONE" <=> row[k] = "NONE"
      /\ \A k \in Stages : row[k] = "FINISHED" => row'[k] = "FINISHED"
      /\ job.ending = "FINISHED" /\ job.result = "VALID" /\ ~job.rowRecorded /\ row[job.stage] \in ActiveStates =>
            row'[job.stage] = "FINISHED"
    <2>1. PICK state \in RowStates \ {"NONE"} :
             /\ row' = row \/ row' = RowTo(job.stage, state)
             /\ job.ending = "FINISHED" /\ job.result = "VALID" /\ ~job.rowRecorded =>
                   state = "FINISHED" /\ row' = RowTo(job.stage, state)
        <3>1. job.ending \in RowStates \ {"NONE"} /\ "FAILED" \in RowStates \ {"NONE"}
            BY <1>2, <1>3 DEF Types, JobRecord, RowStates
        <3>2. PICK state \in RowStates \ {"NONE"} :
                 state = IF job.ending = "FINISHED" /\ job.result = "INVALID" THEN "FAILED" ELSE job.ending
            BY <3>1
        <3>3. row' = IF job.rowRecorded THEN row ELSE RowTo(job.stage, state)
            BY <1>1, <3>2 DEF EndedRow
        <3> QED BY <3>2, <3>3
    <2>2. row \in [Stages -> RowStates] /\ "FINISHED" \notin ActiveStates
        BY <1>2 DEF Types, ActiveStates
    <2>3. /\ \A i \in Stages : RowTo(job.stage, state)[i] = (IF i = job.stage /\ row[i] \in ActiveStates THEN state ELSE row[i])
          /\ \A i \in Stages : RowTo(job.stage, state)[i] = "NONE" <=> row[i] = "NONE"
        BY <2>2, RowToTouchesOne
    <2> QED BY <1>3, <2>1, <2>2, <2>3
<1>9. LifeOK'
    BY <1>1, <1>3, <1>6, <1>7 DEF LifeOK, ServerLife, IsAlive
<1>10. LinkOK'
    BY <1>1, <1>7 DEF LinkOK, Linked
<1>11. OrdersOK' /\ SlotOK'
    BY <1>1, <1>2, <1>3, <1>7 DEF OrdersOK, SlotOK
<1>12. TruthOK'
    <2>1. chain.state = "RUNNING" =>
             \A k \in Stages : chain.stages[k] = (IF k < job.stage THEN "DONE" ELSE IF k = job.stage THEN "RUNNING" ELSE "PENDING")
        BY <1>2, <1>3 DEF TruthOK
    <2>2. \A k \in Stages : k < job.stage \/ k = job.stage \/ k > job.stage
        BY <1>3, ChainStagesAre
    <2>3. \A k \in Stages : ~(k > LastStage)
        BY ChainStagesAre
    <2>4. chain'.state = "FINISHED" => ~chain'.stopRequested /\ \A k \in Stages : chain'.stages[k] \in {"DONE", "NOT_NEEDED"}
        <3>1. CASE chain.state = "RUNNING"
            BY <1>4, <1>6, <2>1, <2>2, <2>3, <3>1
        <3>2. CASE chain.state # "RUNNING"
            BY <1>2, <1>6, <3>2 DEF TruthOK
        <3> QED BY <3>1, <3>2
    <2>5. \A k \in Stages : chain'.stages[k] \in {"NOT_NEEDED", "NOT_STARTED"} => row'[k] = "NONE"
        <3>1. CASE chain.state = "RUNNING"
            BY <1>2, <1>3, <1>6, <1>8, <2>1, <2>2, <3>1 DEF TruthOK
        <3>2. CASE chain.state # "RUNNING"
            BY <1>2, <1>6, <1>8, <3>2 DEF TruthOK
        <3> QED BY <3>1, <3>2
    <2>6. \A k \in Stages : k < LastStage /\ row'[k + 1] # "NONE" /\ ChainStages[k] # "AUDIT" => recorded'[k] = 1
        <3> TAKE k \in Stages
        <3>1. k < LastStage => k + 1 \in Stages
            BY ChainStagesAre
        <3> QED BY <1>1, <1>2, <1>8, <3>1 DEF TruthOK
    <2>7. ASSUME lock' = "HELD", NEW k \in Stages, chain'.stages[k] = "DONE"
          PROVE  row'[k] = "FINISHED" /\ (ChainStages[k] # "AUDIT" => recorded'[k] = 1)
        <3>1. \/ row[k] = "FINISHED" /\ (ChainStages[k] # "AUDIT" => recorded[k] = 1)
              \/ job.stage = k /\ job.ending = "FINISHED" /\ job.result = "VALID" /\ job.ran /\ ~job.rowRecorded
            <4>1. CASE chain.stages[k] = "DONE"
                BY <1>1, <1>2, <2>7, <4>1 DEF TruthOK
            <4>2. CASE chain.stages[k] # "DONE"
                <5>1. chain.state = "RUNNING"
                    BY <1>6, <2>7, <4>2
                <5>2. k = job.stage /\ reason = "NONE"
                    <6>1. chain.stages[k] = "RUNNING" /\ reason = "NONE"
                        BY <1>6, <2>7, <4>2, <5>1
                    <6>2. chain.stages[k] = (IF k < job.stage THEN "DONE" ELSE IF k = job.stage THEN "RUNNING" ELSE "PENDING")
                        BY <2>1, <5>1
                    <6> QED BY <6>1, <6>2
                <5>3. ~job.rowRecorded
                    BY <1>1, <1>3, <5>1 DEF StageLife
                <5> QED BY <1>4, <5>2, <5>3
            <4> QED BY <4>1, <4>2
        <3>2. CASE row[k] = "FINISHED" /\ (ChainStages[k] # "AUDIT" => recorded[k] = 1)
            BY <1>1, <1>8, <3>2
        <3>3. CASE job.stage = k /\ job.ending = "FINISHED" /\ job.result = "VALID" /\ job.ran /\ ~job.rowRecorded
            <4>1. row[job.stage] \in ActiveStates
                BY <1>1, <1>2, <1>3, <2>7, <3>3 DEF SlotOK, SlotHeldBy
            <4>2. ChainStages[k] # "AUDIT" => recorded[k] = 1
                BY <1>2, <1>3, <3>3 DEF TruthOK
            <4> QED BY <1>1, <1>8, <3>3, <4>1, <4>2
        <3> QED BY <3>1, <3>2, <3>3
    <2> QED BY <1>1, <1>6, <1>7, <2>4, <2>5, <2>6, <2>7 DEF TruthOK
<1> QED BY <1>9, <1>10, <1>11, <1>12 DEF ChainInv

-----------------------------------------------------------------------------
(* The inductive invariant holds *)

(* In the initial state there is neither job nor chain nor message. *)
LEMMA ChainInvAtStart == ChainInit => ChainInv
<1> SUFFICES ASSUME ChainInit PROVE ChainInv
    OBVIOUS
<1>1. /\ up /\ todo = <<>> /\ job = NoJob /\ advance = "NONE" /\ chain = NoChain /\ worker = NoWorker
      /\ toParent = <<>> /\ toWorker = <<>>
      /\ \A k \in Stages : row[k] = "NONE" /\ recorded[k] = 0
    BY DEF ChainInit
<1>2. ~IsTracked /\ chain.state = "NONE" /\ worker.at = "NONE" /\ ~IsAlive /\ \A k \in Stages : chain.stages[k] = "PENDING"
    BY <1>1, StartRecords DEF IsTracked, IsAlive
<1>3. \A k \in Stages : k < LastStage => k + 1 \in Stages
    BY ChainStagesAre
<1>4. Types
    BY TypesAtStart
<1>5. LifeOK
    BY <1>1, <1>2 DEF LifeOK, ServerLife
<1>6. LinkOK /\ OrdersOK
    BY <1>1, <1>2 DEF LinkOK, Linked, OrdersOK
<1>7. SlotOK
    BY <1>1, <1>2 DEF SlotOK
<1>8. TruthOK
    BY <1>1, <1>2, <1>3 DEF TruthOK
<1> QED BY <1>4, <1>5, <1>6, <1>7, <1>8 DEF ChainInv

(* Every step of the users, the other servers, the timers, the server and   *)
(* the worker keeps the invariant.                                          *)
LEMMA ChainInvIsKept == ChainInv /\ [ChainNext]_chainVars => ChainInv'
<1> SUFFICES ASSUME ChainInv, [ChainNext]_chainVars PROVE ChainInv'
    OBVIOUS
<1>1. Types'
    BY TypesAreKept
<1>2. CASE Users
    BY <1>1, <1>2, StartStageChainKeepsInv, QuietActions, QuietStepsKeepInv DEF Users
<1>3. CASE Outside
    BY <1>1, <1>3, ServerDiesKeepsInv, QuietActions, QuietStepsKeepInv DEF Outside
<1>4. CASE Timers
    BY <1>1, <1>4, GiveUpKeepsInv, QuietActions, QuietStepsKeepInv DEF Timers
<1>5. CASE Worker
    BY <1>1, <1>5, WorkerKeepsInv
<1>6. CASE Server
    <2>1. CASE Launch \/ FailLaunch
        BY <1>1, <2>1, LaunchKeepsInv, FailLaunchKeepsInv
    <2>2. CASE NoticeLockLost \/ StopWorkersAfterLockLost \/ AbandonAdvance
        BY <1>1, <2>2, QuietActions, QuietStepsKeepInv
    <2>3. CASE ReceiveDecided \/ ReceiveReady \/ ReceiveRunStarted \/ ReceiveSessionLost \/ ReceiveFinished \/ ReceiveFailed
        BY <1>1, <2>3, ReceivesKeepInv
    <2>4. CASE \/ AdvanceWithDefinitions
               \/ \E verdict \in {"VALID", "INVALID"} : AdvanceWithResult(verdict) \/ FailAdvance(verdict)
        BY <1>1, <2>4, AdvancesKeepInv
    <2>5. CASE \E verdict \in {"VALID", "INVALID"} : Exited(verdict)
        BY <1>1, <2>5, ExitedKeepsInv
    <2>6. CASE CommitCreateNext \/ SeeExit \/ DrainEnds \/ CommitEndRow
        BY <1>1, <2>6, CommitCreateNextKeepsInv, SeeExitKeepsInv, DrainEndsKeepsInv, CommitEndRowKeepsInv
    <2> QED BY <1>6, <2>1, <2>2, <2>3, <2>4, <2>5, <2>6 DEF Server
<1>7. CASE UNCHANGED chainVars
    <2>1. UNCHANGED <<up, lock, todo, row, other, recorded, job, advance, chain, toParent, toWorker, worker>>
        BY <1>7 DEF chainVars, serverVars
    <2>2. RowsStay
        BY <2>1, UnchangedRowsStay DEF ChainInv
    <2>3. QuietStep
        BY <2>1, <2>2 DEF QuietStep
    <2> QED BY <1>1, <2>3, QuietStepsKeepInv
<1> QED BY <1>2, <1>3, <1>4, <1>5, <1>6, <1>7 DEF ChainNext

(* The invariant holds in every state the server and the worker get to.     *)
THEOREM ChainInvHolds == ChainSpec => []ChainInv
<1>1. ChainInit => ChainInv
    BY ChainInvAtStart
<1>2. ChainInv /\ [ChainNext]_chainVars => ChainInv'
    BY ChainInvIsKept
<1> QED BY <1>1, <1>2, PTL DEF ChainSpec

-----------------------------------------------------------------------------
(* What the chain promises *)

(* The variables keep their types: no stage outside the chain, no message   *)
(* the protocol does not know, and no result recorded twice.                *)
THEOREM ChainTypeHolds == ChainSpec => []ChainTypeOK
<1>1. ChainInv => ChainTypeOK
    BY TypesAreChainTypeOK DEF ChainInv
<1> QED BY <1>1, ChainInvHolds, PTL

(* While a worker works, the row of the very stage it works on holds the    *)
(* only slot there is, whatever the other servers and the timers do.        *)
THEOREM SlotCoversWorkHolds == ChainSpec => []SlotCoversWork
<1>1. ASSUME NEW k \in Stages, SlotHeldBy(k) PROVE row[k] \in ActiveStates /\ Cardinality(ActiveStages) = 1 /\ ~other
    <2>1. ActiveStages = {k}
        BY <1>1 DEF SlotHeldBy, ActiveStages
    <2> QED BY <1>1, <2>1, FS_Singleton DEF SlotHeldBy
<1>2. ChainInv => SlotCoversWork
    <2> SUFFICES ASSUME ChainInv PROVE SlotCoversWork
        OBVIOUS
    <2>1. SlotOK
        BY DEF ChainInv
    <2>2. CASE worker.at \in {"BOOTING", "WAITING"}
        <3>1. SlotHeldBy(1) /\ 1 \in Stages
            BY <2>1, <2>2, ChainStagesAre DEF SlotOK
        <3> QED BY <1>1, <2>2, <3>1 DEF SlotCoversWork
    <2>3. CASE worker.at \in {"STAGE", "RUN"}
        <3>1. PICK k \in Stages : k = worker.stage /\ SlotHeldBy(k)
            BY <2>1, <2>3 DEF SlotOK
        <3> QED BY <1>1, <2>3, <3>1 DEF SlotCoversWork
    <2> QED BY <2>2, <2>3 DEF SlotCoversWork
<1> QED BY <1>2, ChainInvHolds, PTL

(* A message the server still acts on comes in a phase that allows it and   *)
(* speaks of the stage the server is in; an order finds the worker waiting  *)
(* for it: neither side ever has to distrust a partner that is honest.      *)
THEOREM MessagesMatchStageHolds == ChainSpec => []MessagesMatchStage
<1>1. ASSUME ChainInv, IsUndecided, toParent # <<>>
      PROVE  LET message == Head(toParent)
             IN  CASE message.type = "READY" -> job.phase = "FORKED"
                   [] message.type = "RUN_STARTED" -> job.phase = "STARTED" /\ message.stage = job.stage
                   [] message.type = "SESSION_LOST" -> job.phase = "RUN" /\ message.stage = job.stage
                   [] message.type = "FINISHED" -> job.phase = (IF message.ran THEN "RUN" ELSE "STARTED") /\ message.stage = job.stage
                   [] OTHER -> TRUE
    <2>1. Head(toParent) = toParent[1] /\ 1 \in DOMAIN toParent
        BY <1>1 DEF ChainInv, Types
    <2>2. Linked
        BY <1>1 DEF ChainInv, LifeOK, StageLife, IsUndecided, Linked
    <2>3. Fits(Head(toParent), job.phase, job.stage)
        BY <1>1, <2>1, <2>2 DEF ChainInv, LinkOK, PhaseBefore
    <2> QED BY <2>3 DEF Fits
<1>2. ASSUME ChainInv, worker.at \in {"WAITING", "STAGE", "RUN", "AWAIT"}, toWorker # <<>>
      PROVE  CASE Head(toWorker) = "START" -> worker.at = "WAITING"
               [] Head(toWorker) \in {"NEXT_STAGE", "CHAIN_END"} -> worker.at = "AWAIT"
               [] OTHER -> TRUE
    <2>1. Head(toWorker) = toWorker[1] /\ 1 \in DOMAIN toWorker
        BY <1>2 DEF ChainInv, Types
    <2>2. /\ Head(toWorker) = "START" => worker.at = "WAITING"
          /\ Head(toWorker) \in {"NEXT_STAGE", "CHAIN_END"} => worker.at = "AWAIT"
        BY <1>2, <2>1 DEF ChainInv, OrdersOK
    <2> QED BY <2>2
<1>3. ChainInv => MessagesMatchStage
    BY <1>1, <1>2 DEF MessagesMatchStage
<1> QED BY <1>3, ChainInvHolds, PTL

(* What the chain shows is what happened: finished only without a stop and  *)
(* with every needed stage done, a stage done only with its row FINISHED    *)
(* and its result recorded, and no stage begun without the result before.   *)
THEOREM ChainTellsTruthHolds == ChainSpec => []ChainTellsTruth
<1>1. ChainInv => ChainTellsTruth
    BY DEF ChainInv, TruthOK, ChainTellsTruth
<1> QED BY <1>1, ChainInvHolds, PTL

(* Once a stop was accepted no further stage begins, though it may come     *)
(* while #advanceChain waits for a file, or between its two transactions.   *)
THEOREM NoStageAfterStopHolds == ChainSpec => NoStageAfterStop
<1> DEFINE Begins == \E k \in Stages : row[k] = "NONE" /\ row'[k] # "NONE"
<1>1. ASSUME ChainInv, Types', [ChainNext]_chainVars, chain.stopRequested PROVE ~Begins
    <2>1. Types /\ LifeOK /\ TruthOK /\ row \in [Stages -> RowStates] /\ job \in JobRecord
        BY <1>1 DEF ChainInv, Types
    <2>2. \A k \in Stages : row' = row => ~(row[k] = "NONE" /\ row'[k] # "NONE")
        OBVIOUS
    <2>3. QuietStep => ~Begins
        BY DEF QuietStep, RowsStay
    <2>4. ASSUME NEW k, NEW state \in RowStates \ {"NONE"}, row' = RowTo(k, state) PROVE ~Begins
        BY <2>1, <2>4, RowToTouchesOne
    <2>5. \A state \in ActiveStates \cup {"FINISHED", "FAILED", "INTERRUPTED"} : state \in RowStates \ {"NONE"}
        BY DEF RowStates, ActiveStates
    <2>6. CASE Users
        <3>1. ~StartStageChain
            BY <1>1, StartRecords DEF StartStageChain
        <3> QED BY <1>1, <2>3, <2>6, <3>1, QuietActions DEF Users
    <2>7. CASE Outside
        <3>1. ServerDies => row' = row
            BY DEF ServerDies
        <3> QED BY <1>1, <2>2, <2>3, <2>7, <3>1, QuietActions DEF Outside
    <2>8. CASE Timers
        <3>1. GiveUpOnWorker => row' = row
            BY DEF GiveUpOnWorker, EndJob
        <3> QED BY <1>1, <2>2, <2>3, <2>8, <3>1, QuietActions DEF Timers
    <2>9. CASE Worker
        <3>1. Works
            BY <2>9, Zenon DEF Worker, WorkerBoots, StartRun, LoseSession, FailWorker, FinishStage, ReadStart, ReadStop,
                               ReadNextStage, ReadChainEnd, AwaitTimesOut, TakeSignal, WorkerEnds, Reads
        <3>2. row' = row
            BY <3>1 DEF Works, serverVars
        <3> QED BY <2>2, <3>2
    <2>10. CASE UNCHANGED chainVars
        <3>1. row' = row
            BY <2>10 DEF chainVars, serverVars
        <3> QED BY <2>2, <3>1
    <2>11. CASE Server
        <3>1. CASE Launch \/ AbandonAdvance \/ SeeExit \/ DrainEnds \/ \E verdict \in {"VALID", "INVALID"} : Exited(verdict)
            <4>1. row' = row
                BY <3>1 DEF Launch, AbandonAdvance, SeeExit, DrainEnds, Exited
            <4> QED BY <2>2, <4>1
        <3>2. CASE FailLaunch
            <4>1. row' = RowTo(1, "FAILED")
                BY <3>2 DEF FailLaunch
            <4> QED BY <2>4, <2>5, <4>1
        <3>3. CASE NoticeLockLost \/ StopWorkersAfterLockLost
            BY <1>1, <2>3, <3>3, QuietActions
        <3>4. CASE ReceiveDecided \/ ReceiveReady \/ ReceiveSessionLost \/ ReceiveFinished \/ ReceiveFailed
            <4>1. row' = row
                BY <3>4 DEF ReceiveDecided, ReceiveReady, ReceiveSessionLost, ReceiveFinished, ReceiveFailed
            <4> QED BY <2>2, <4>1
        <3>5. CASE ReceiveRunStarted
            <4>1. row' = [row EXCEPT ![job.stage] = IF row[job.stage] = "STARTING" THEN "RUNNING" ELSE row[job.stage]]
                BY <3>5 DEF ReceiveRunStarted
            <4> QED BY <2>1, <4>1
        <3>6. ASSUME NEW j \in JobRecord, Decide(j) PROVE ~Begins
            <4>1. row' = row \/ EndStageRow(j)
                BY <2>1, <3>6, DecideCases
            <4>2. EndStageRow(j) => row' = RowTo(j.stage, "FAILED") \/ row' = RowTo(j.stage, "FINISHED")
                BY DEF EndStageRow
            <4> QED BY <2>2, <2>4, <2>5, <4>1, <4>2
        <3>7. CASE AdvanceWithDefinitions
            BY <2>1, <3>6, <3>7 DEF AdvanceWithDefinitions, DecideAgain
        <3>8. ASSUME NEW verdict \in {"VALID", "INVALID"}, AdvanceWithResult(verdict) PROVE ~Begins
            <4>1. row' = row \/ Decide([job EXCEPT !.result = verdict])
                BY <3>8, Zenon DEF AdvanceWithResult
            <4>2. [job EXCEPT !.result = verdict] \in JobRecord
                BY <2>1 DEF JobRecord
            <4> QED BY <2>2, <3>6, <4>1, <4>2
        <3>9. ASSUME NEW verdict \in {"VALID", "INVALID"}, FailAdvance(verdict) PROVE ~Begins
            <4>1. row' = row
                BY <3>9 DEF FailAdvance
            <4> QED BY <2>2, <4>1
        <3>10. CASE CommitCreateNext
            <4>1. todo = <<"CREATE_NEXT">>
                BY <3>10 DEF CommitCreateNext
            <4>2. ~chain.stopRequested
                BY <2>1, <4>1 DEF LifeOK, ServerLife, StageLife
            <4> QED BY <1>1, <4>2
        <3>11. CASE CommitEndRow
            <4>1. todo = <<"END_ROW">> /\ row' = EndedRow(job)
                BY <3>11 DEF CommitEndRow
            <4>2. job.ending \in {"FINISHED", "FAILED", "INTERRUPTED"}
                BY <2>1, <4>1 DEF LifeOK, ServerLife, StageLife, JobRecord
            <4>3. row' = row \/ row' = RowTo(job.stage, "FAILED") \/ row' = RowTo(job.stage, job.ending)
                BY <4>1 DEF EndedRow
            <4> QED BY <2>2, <2>4, <2>5, <4>2, <4>3
        <3> QED BY <2>11, <3>1, <3>2, <3>3, <3>4, <3>5, <3>7, <3>8, <3>9, <3>10, <3>11 DEF Server
    <2> QED BY <1>1, <2>6, <2>7, <2>8, <2>9, <2>10, <2>11 DEF ChainNext
<1>2. ChainInv /\ ChainInv' /\ [ChainNext]_chainVars
        => [chain.stopRequested => \A k \in Stages : row[k] = "NONE" => row'[k] = "NONE"]_chainVars
    <2> SUFFICES ASSUME ChainInv, ChainInv', [ChainNext]_chainVars, chain.stopRequested,
                        NEW k \in Stages, row[k] = "NONE", row'[k] # "NONE"
                 PROVE  FALSE
        OBVIOUS
    <2>1. Types'
        BY DEF ChainInv
    <2>2. Begins
        OBVIOUS
    <2> HIDE DEF Begins
    <2> QED BY <1>1, <2>1, <2>2
<1> QED BY <1>2, ChainInvHolds, PTL DEF ChainSpec, NoStageAfterStop
=============================================================================
