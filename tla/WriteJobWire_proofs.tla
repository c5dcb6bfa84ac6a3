------------------------ MODULE WriteJobWire_proofs -------------------------
(***************************************************************************)
(* What the server knows of the wire, for every set of scenarios, grants   *)
(* and clock readings and every bound of WriteJob: a submission is written *)
(* only by a worker whose server allowed it, and the settlement the store  *)
(* keeps is true of the bytes that were written.                           *)
(***************************************************************************)
EXTENDS WriteJob_proofs

(* The message waits in the channel. *)
Holds(channel, message) == \E i \in 1..Len(channel) : channel[i] = message

(* What taking from a channel and adding to it does to its messages.        *)
LEMMA HoldsTail ==
    ASSUME NEW S, NEW q \in Seq(S), q # <<>>, NEW m
    PROVE  /\ Holds(Tail(q), m) => Holds(q, m)
           /\ Head(q) = m => Holds(q, m)
<1>1. /\ Len(q) \in Nat /\ Len(q) > 0 /\ Head(q) = q[1]
      /\ Len(Tail(q)) = Len(q) - 1
      /\ \A i \in 1..Len(Tail(q)) : Tail(q)[i] = q[i + 1] /\ i + 1 \in 1..Len(q)
  OBVIOUS
<1> QED
  BY <1>1 DEF Holds

(* What a concatenation holds one of its two parts holds.                    *)
LEMMA HoldsConcat ==
    ASSUME NEW S, NEW q \in Seq(S), NEW r \in Seq(S), NEW m, Holds(q \o r, m)
    PROVE  Holds(q, m) \/ Holds(r, m)
<1>1. PICK i \in 1..Len(q \o r) : (q \o r)[i] = m
  BY DEF Holds
<1>2. Len(q) \in Nat /\ Len(r) \in Nat /\ Len(q \o r) = Len(q) + Len(r)
  OBVIOUS
<1>3. CASE i <= Len(q)
  <2>1. i \in 1..Len(q) /\ (q \o r)[i] = q[i]
    BY <1>2, <1>3
  <2> QED
    BY <1>1, <2>1 DEF Holds
<1>4. CASE i > Len(q)
  <2>1. i - Len(q) \in 1..Len(r) /\ (q \o r)[i] = r[i - Len(q)]
    BY <1>2, <1>4
  <2> QED
    BY <1>1, <2>1 DEF Holds
<1> QED
  BY <1>2, <1>3, <1>4

(* What sequences of no, one and two messages hold.                          *)
LEMMA HoldsFew ==
    /\ \A m : ~Holds(<<>>, m)
    /\ \A a, m : Holds(<<a>>, m) => a = m
    /\ \A a, b, m : Holds(<<a, b>>, m) => a = m \/ b = m
<1>1. \A m : ~Holds(<<>>, m)
  BY DEF Holds
<1>2. \A a, m : Holds(<<a>>, m) => a = m
  BY DEF Holds
<1>3. ASSUME NEW a, NEW b, NEW m, Holds(<<a, b>>, m)
      PROVE  a = m \/ b = m
  <2>1. Len(<<a, b>>) = 2 /\ <<a, b>>[1] = a /\ <<a, b>>[2] = b
    OBVIOUS
  <2>2. \A i \in 1..2 : i = 1 \/ i = 2
    OBVIOUS
  <2> QED
    BY <1>3, <2>1, <2>2 DEF Holds
<1> QED
  BY <1>1, <1>2, <1>3
-----------------------------------------------------------------------------
(* What is true of a grant between the server, its worker and the wire *)

(* The guard's account of the posts is true of the wire, and the facts of a *)
(* report are those the guard can no longer change.                         *)
PostsOK(g) ==
    LET w == worker[g]
    IN  /\ w.stage = "NONE" => written[g] = 0 /\ toWorker[g] = <<>>
        /\ Running(w) =>
             /\ w.post \in {"NONE", "ADMITTED", "NOT_WRITTEN"} => written[g] = 0
             /\ w.post \in {"WRITTEN", "ANSWERED"} => written[g] = 1
             /\ w.post # "NONE" => w.postsLeft = 0
             /\ w.stage \in {"BOOTING", "WAITING", "RUNNING", "PREFLIGHT"} => w.post = "NONE"
        /\ ~Running(w) => w.post = "NONE"
        /\ w.stage = "REPORTED" =>
             /\ w.facts # "NONE"
             /\ w.facts = "NOT_SENT" => w.post \in {"NONE", "NOT_WRITTEN"}
             /\ w.facts = "ANSWERED" => w.post = "ANSWERED"

(* Nothing was written and the worker can write nothing any more.           *)
Harmless(g) ==
    /\ written[g] = 0
    /\ \/ worker[g].stage \in {"EXITING", "GONE"}
       \/ worker[g].stage = "REPORTED" /\ worker[g].post \in {"NONE", "NOT_WRITTEN"}

SaysNotSent(g) == Holds(toParent[g], "NOT_SENT") \/ job[g].submission = "NOT_SENT"

(* A report of "not sent", under way or received, is true for good, and so  *)
(* is the document of the run.                                              *)
ReportsOK(g) ==
    /\ SaysNotSent(g) => Harmless(g)
    /\ document[g] = "NOT_SENT" => written[g] = 0
    /\ document[g] = "ANSWERED" => written[g] = 1
    /\ document[g] # "NONE" => worker[g].stage \in {"EXITING", "GONE"}

MayWrite(g) ==
    \/ Running(worker[g]) /\ worker[g].post # "NONE"
    \/ written[g] > 0
    \/ worker[g].stage = "PRESSED"
    \/ Holds(toWorker[g], "ALLOWED")

(* A worker before its run, or after its end *)
IsEarly(w) == w.stage \in {"BOOTING", "WAITING", "EXITING", "GONE"}

(* A worker that was not told to start has done nothing, and one that was   *)
(* not allowed to write has not written.                                    *)
OrdersOK(g) ==
    /\ IsTracked(g) /\ ~job[g].startSent =>
          /\ IsEarly(worker[g])
          /\ written[g] = 0
          /\ ~Holds(toWorker[g], "START")
    /\ IsTracked(g) /\ MayWrite(g) => job[g].recheck = "ALLOWED"
    /\ job[g].rejected => job[g].recheck = "REQUESTED"
    /\ job[g].phase = "FORKED" => ~job[g].startSent

(* The running handler has a row to make for g, or a start to give up.      *)
Starting(g) ==
    \/ todo = <<CloseOrphans, CreateRow(g)>>
    \/ todo = <<CreateRow(g)>>
    \/ todo = <<CloseUnsent(g), EndRow(g, "FAILED")>>

(* The manager tracks a job that has a worker, closes its channel when the  *)
(* worker is gone, and starts or gives up a start where there is none yet.  *)
StagesOK(g) ==
    /\ IsTracked(g) => worker[g].stage # "NONE"
    /\ job[g].ipc # "OPEN" => worker[g].stage = "GONE"
    /\ start[g] # "NONE" => worker[g].stage = "NONE"
    /\ Starting(g) => worker[g].stage = "NONE"

WireOK(g) == PostsOK(g) /\ ReportsOK(g) /\ OrdersOK(g) /\ StagesOK(g)

WireEach == \A g \in Grants : WireOK(g)

(* The errands of different handlers, and of different grants, differ.      *)
LEMMA ErrandForms ==
    ASSUME NEW g, NEW h
    PROVE  /\ \A state : <<EndRow(g, state)>> # <<CreateRow(h)>>
           /\ \A state : <<EndRow(g, state)>> # <<CloseOrphans, CreateRow(h)>>
           /\ \A state : <<EndRow(g, state)>> # <<CloseUnsent(h), EndRow(h, "FAILED")>>
           /\ <<CloseOrphans, CreateRow(g)>> = <<CloseOrphans, CreateRow(h)>> => g = h
           /\ <<CloseUnsent(g), EndRow(g, "FAILED")>> = <<CloseUnsent(h), EndRow(h, "FAILED")>> => g = h
           /\ <<CloseUnsent(g), EndRow(g, "FAILED")>> # <<CloseOrphans, CreateRow(h)>>
           /\ <<CloseUnsent(g), EndRow(g, "FAILED")>> # <<CreateRow(h)>>
           /\ <<CloseOrphans, CreateRow(g)>> # <<CreateRow(h)>>
           /\ <<CloseOrphans>> # <<CreateRow(h)>>
<1>1. /\ \A state : EndRow(g, state) # CreateRow(h)
      /\ CreateRow(g) = CreateRow(h) => g = h
      /\ CloseUnsent(g) = CloseUnsent(h) => g = h
      /\ CloseUnsent(g) # CloseOrphans /\ CloseOrphans # CreateRow(h)
  BY DEF EndRow, CreateRow, CloseUnsent, CloseOrphans
<1>2. ASSUME NEW a, NEW b, NEW c, NEW d
      PROVE  /\ <<a>> = <<b>> => a = b
             /\ <<a, b>> = <<c, d>> => a = c /\ b = d
             /\ <<a>> # <<b, c>> /\ <<b, c>> # <<a>>
  OBVIOUS
<1> QED
  BY <1>1, <1>2

(* Without errands no start is under way.                                    *)
LEMMA EmptyErrands == ASSUME todo = <<>>, NEW g PROVE ~Starting(g)
  BY DEF Starting

(* Doing the first errand leaves a start under way where it is.             *)
LEMMA StartingTail ==
    ASSUME todo \in Errands, todo # <<>>, todo' = Tail(todo), NEW g, Starting(g)'
    PROVE  todo = <<CloseOrphans, CreateRow(g)>>
<1>1. ASSUME NEW a, NEW b
      PROVE  /\ Tail(<<a>>) = <<>> /\ Tail(<<a, b>>) = <<b>>
             /\ <<>> # <<a>> /\ <<>> # <<a, b>>
             /\ \A c : <<c>> # <<a, b>> /\ (<<c>> = <<a>> => c = a)
  OBVIOUS
<1>2. CASE \E a : todo = <<a>>
  <2>1. PICK a : todo = <<a>>
    BY <1>2
  <2>2. Tail(todo) = <<>>
    BY <1>1, <2>1, Zenon
  <2>3. todo' = <<>>
    BY <2>2, Zenon
  <2>4. /\ <<>> # <<CreateRow(g)>> /\ <<>> # <<CloseOrphans, CreateRow(g)>>
        /\ <<>> # <<CloseUnsent(g), EndRow(g, "FAILED")>>
    BY <1>1
  <2> QED
    BY <2>3, <2>4, Zenon DEF Starting
<1>3. CASE \E h : todo = <<CloseUnsent(h), EndRow(h, "FAILED")>>
  <2>1. PICK h : todo = <<CloseUnsent(h), EndRow(h, "FAILED")>>
    BY <1>3
  <2>2. Tail(todo) = <<EndRow(h, "FAILED")>>
    BY <1>1, <2>1, Zenon
  <2>3. todo' = <<EndRow(h, "FAILED")>>
    BY <2>2, Zenon
  <2>4. /\ <<EndRow(h, "FAILED")>> # <<CreateRow(g)>> /\ <<EndRow(h, "FAILED")>> # <<CloseOrphans, CreateRow(g)>>
        /\ <<EndRow(h, "FAILED")>> # <<CloseUnsent(g), EndRow(g, "FAILED")>>
    BY ErrandForms
  <2> QED
    BY <2>3, <2>4, Zenon DEF Starting
<1>4. CASE \E h : todo = <<CloseOrphans, CreateRow(h)>>
  <2>1. PICK h : todo = <<CloseOrphans, CreateRow(h)>>
    BY <1>4
  <2>2. Tail(todo) = <<CreateRow(h)>>
    BY <1>1, <2>1, Zenon
  <2>3. todo' = <<CreateRow(h)>>
    BY <2>2, Zenon
  <2>4. /\ <<CreateRow(h)>> # <<CloseOrphans, CreateRow(g)>>
        /\ <<CreateRow(h)>> # <<CloseUnsent(g), EndRow(g, "FAILED")>>
        /\ <<CreateRow(h)>> = <<CreateRow(g)>> => CreateRow(h) = CreateRow(g)
    BY <1>1
  <2>5. CreateRow(h) = CreateRow(g)
    BY <2>3, <2>4, Zenon DEF Starting
  <2> QED
    BY <2>1, <2>5
<1> QED
  BY <1>2, <1>3, <1>4 DEF Errands

(* No grant has a worker at first. *)
LEMMA WireInit == JobInit => WireEach
<1> SUFFICES ASSUME JobInit, NEW g \in Grants PROVE WireOK(g)
  BY DEF WireEach
<1>1. /\ worker[g] = NoWorker /\ job[g] = NoJob /\ toParent[g] = <<>> /\ toWorker[g] = <<>>
      /\ written[g] = 0 /\ document[g] = "NONE" /\ start[g] = "NONE" /\ todo = <<>>
  BY DEF JobInit
<1>2. NoWorker.stage = "NONE" /\ NoWorker.post = "NONE" /\ NoJob.phase = "NONE" /\ NoJob.submission = "NONE" /\ NoJob.ipc = "OPEN" /\ ~NoJob.rejected
  BY DEF NoWorker, NoJob
<1>3. ~SaysNotSent(g) /\ ~IsTracked(g) /\ ~Starting(g)
  BY <1>1, <1>2, HoldsFew, EmptyErrands DEF SaysNotSent, IsTracked
<1> QED
  BY <1>1, <1>2, <1>3 DEF WireOK, PostsOK, ReportsOK, OrdersOK, StagesOK, Running

-----------------------------------------------------------------------------
(* The steps of the manager *)

(* What the manager can do to a grant short of starting its worker: it      *)
(* forgets the job or learns more of it, and every order in the channel is  *)
(* one it remembers to have given.                                          *)
Remembers(g) ==
    /\ job'[g].rejected => job'[g].recheck = "REQUESTED"
    /\ job'[g].phase = "FORKED" => ~job'[g].startSent
    /\ IsTracked(g)' =>
         /\ IsTracked(g)
         /\ job[g].startSent => job'[g].startSent
         /\ job[g].recheck = "ALLOWED" => job'[g].recheck = "ALLOWED"
         /\ Holds(toWorker'[g], "START") => Holds(toWorker[g], "START") \/ job'[g].startSent
         /\ Holds(toWorker'[g], "ALLOWED") => Holds(toWorker[g], "ALLOWED") \/ job'[g].recheck = "ALLOWED"
    /\ job'[g].ipc # "OPEN" => job[g].ipc # "OPEN" \/ worker[g].stage = "GONE"

ManagerMoves(g) ==
    /\ worker'[g] = worker[g] \/ worker'[g] = Signalled(worker[g])
    /\ written'[g] = written[g] /\ document'[g] = document[g]
    /\ SaysNotSent(g)' => SaysNotSent(g)
    /\ Remembers(g)
    /\ worker[g].stage = "NONE" => toWorker'[g] = toWorker[g]
    /\ start'[g] # "NONE" => worker[g].stage = "NONE"
    /\ Starting(g)' => worker[g].stage = "NONE"

(* A step of the manager keeps the wire of a grant in order.                 *)
LEMMA ManagerKeeps ==
    ASSUME JobTypes, NEW g \in Grants, WireOK(g), ManagerMoves(g)
    PROVE  WireOK(g)'
<1>1. worker[g] \in WorkerRecord
  BY DEF JobTypes, JobTypeOK
<1>2. /\ worker'[g].stage = worker[g].stage /\ worker'[g].post = worker[g].post
      /\ worker'[g].postsLeft = worker[g].postsLeft /\ worker'[g].facts = worker[g].facts
      /\ IsEarly(worker[g]) => IsEarly(worker[g])'
  BY <1>1 DEF ManagerMoves, Signalled, WorkerRecord, IsEarly
<1>3. PostsOK(g)'
  BY <1>2 DEF WireOK, PostsOK, ManagerMoves, Running
<1>4. ReportsOK(g)'
  BY <1>2 DEF WireOK, ReportsOK, ManagerMoves, Harmless
<1>5. OrdersOK(g)'
  <2>1. IsTracked(g)' /\ MayWrite(g)' => MayWrite(g) \/ job'[g].recheck = "ALLOWED"
    BY <1>2 DEF MayWrite, ManagerMoves, Remembers, Running
  <2> QED
    BY <1>2, <2>1 DEF WireOK, OrdersOK, ManagerMoves, Remembers
<1>6. StagesOK(g)'
  BY <1>2 DEF WireOK, StagesOK, ManagerMoves, Remembers
<1> QED
  BY <1>3, <1>4, <1>5, <1>6 DEF WireOK

(* A grant that a step leaves alone. *)
LEMMA Untouched ==
    ASSUME JobTypes, NEW g \in Grants, WireOK(g),
           worker'[g] = worker[g], written'[g] = written[g], document'[g] = document[g], toParent'[g] = toParent[g],
           toWorker'[g] = toWorker[g], job'[g] = job[g], start'[g] = start[g] \/ start'[g] = "NONE" \/ worker[g].stage = "NONE",
           Starting(g)' => worker[g].stage = "NONE"
    PROVE  ManagerMoves(g)
<1>1. (IsTracked(g)' <=> IsTracked(g)) /\ (SaysNotSent(g)' <=> SaysNotSent(g))
  BY DEF IsTracked, SaysNotSent
<1> QED
  BY <1>1 DEF ManagerMoves, Remembers, WireOK, OrdersOK, StagesOK

(* What a message to a worker adds to its channel. *)
LEMMA SentHolds ==
    ASSUME JobTypes, NEW g \in Grants, NEW messages \in Seq(WorkerMessages), toWorker'[g] = Sent(g, messages)
    PROVE  /\ \A m : Holds(toWorker'[g], m) => Holds(toWorker[g], m) \/ Holds(messages, m)
           /\ worker[g].stage = "NONE" => toWorker'[g] = toWorker[g]
<1>1. toWorker[g] \in Seq(WorkerMessages)
  BY DEF JobTypes, JobTypeOK
<1>2. \A m : Holds(toWorker[g] \o messages, m) => Holds(toWorker[g], m) \/ Holds(messages, m)
  BY <1>1, HoldsConcat
<1> QED
  BY <1>2 DEF Sent, IsAlive

(* A job that goes on with the same orders given. *)
Learns(j, k) ==
    /\ k.phase = "NONE" <=> j.phase = "NONE"
    /\ k.phase = "FORKED" => j.phase = "FORKED"
    /\ k.startSent = j.startSent /\ k.recheck = j.recheck /\ k.rejected = j.rejected
    /\ k.submission = j.submission /\ k.ipc = j.ipc

(* The changes the handlers make to a job, besides new messages, only add to it. *)
LEMMA LearningSteps ==
    ASSUME NEW j \in JobRecord
    PROVE  /\ Learns(j, j)
           /\ Learns(j, [j EXCEPT !.stopRequested = TRUE])
           /\ j.phase # "NONE" => Learns(j, [j EXCEPT !.phase = "RUN"])
           /\ j.phase # "NONE" => \A ending : Learns(j, Ended(j, ending))
<1>1. Learns(j, j) /\ Learns(j, [j EXCEPT !.stopRequested = TRUE])
  BY DEF Learns, JobRecord
<1>2. j.phase # "NONE" => Learns(j, [j EXCEPT !.phase = "RUN"])
  BY DEF Learns, JobRecord
<1>3. ASSUME j.phase # "NONE", NEW ending PROVE Learns(j, Ended(j, ending))
  <2>1. Learns(j, [j EXCEPT !.ending = ending, !.phase = "DONE"])
    BY <1>3 DEF Learns, JobRecord
  <2> QED
    BY <1>1, <2>1 DEF Ended
<1> QED
  BY <1>1, <1>2, <1>3

(* A job that learns while the manager tells its worker nothing but a stop. *)
LEMMA LearningMoves ==
    ASSUME JobTypes, NEW g \in Grants, WireOK(g), Learns(job[g], job'[g]),
           worker'[g] = worker[g] \/ worker'[g] = Signalled(worker[g]),
           written'[g] = written[g], document'[g] = document[g],
           toWorker'[g] = toWorker[g] \/ toWorker'[g] = Sent(g, <<"STOP">>),
           Holds(toParent'[g], "NOT_SENT") => Holds(toParent[g], "NOT_SENT"),
           start'[g] = start[g], todo' = todo
    PROVE  ManagerMoves(g)
<1>1. <<"STOP">> \in Seq(WorkerMessages)
  BY DEF WorkerMessages
<1>2. /\ \A m : Holds(toWorker'[g], m) => Holds(toWorker[g], m) \/ Holds(<<"STOP">>, m)
      /\ worker[g].stage = "NONE" => toWorker'[g] = toWorker[g]
  BY <1>1, SentHolds
<1>3. ~Holds(<<"STOP">>, "START") /\ ~Holds(<<"STOP">>, "ALLOWED")
  BY HoldsFew
<1>4. SaysNotSent(g)' => SaysNotSent(g)
  BY DEF SaysNotSent, Learns
<1>5. Remembers(g)
  BY <1>2, <1>3 DEF Remembers, Learns, IsTracked, WireOK, OrdersOK, StagesOK
<1>6. Starting(g)' => worker[g].stage = "NONE"
  BY DEF Starting, WireOK, StagesOK
<1> QED
  BY <1>2, <1>4, <1>5, <1>6 DEF ManagerMoves, WireOK, StagesOK

(* Stops of any number of jobs. *)
LEMMA StopMoves ==
    ASSUME JobTypes, WireEach, NEW gs \in SUBSET Grants, StopRequested(gs), UNCHANGED <<todo, start, workerVars>>,
           NEW h \in Grants
    PROVE  ManagerMoves(h)
<1>1. job[h] \in JobRecord /\ WireOK(h)
  BY DEF JobTypes, JobTypeOK, WireEach
<1>2. Learns(job[h], job'[h])
  BY <1>1, LearningSteps DEF StopRequested
<1>3. toWorker'[h] = toWorker[h] \/ toWorker'[h] = Sent(h, <<"STOP">>)
  BY DEF StopRequested
<1> QED
  BY <1>1, <1>2, <1>3, LearningMoves DEF workerVars

(* Messages of the worker. *)
LEMMA ReceiveMoves ==
    ASSUME JobTypes, WireEach, NEW g \in Grants, ReceiveSteps(g), NEW h \in Grants
    PROVE  ManagerMoves(h)
<1>1. /\ job \in [Grants -> JobRecord] /\ worker \in [Grants -> WorkerRecord]
      /\ toParent \in [Grants -> Seq(ParentMessages)] /\ toWorker \in [Grants -> Seq(WorkerMessages)]
      /\ job[h] \in JobRecord /\ WireOK(h)
  BY DEF JobTypes, JobTypeOK, WireEach
<1>2. PICK messages : Receives(g, messages)
  BY DEF ReceiveSteps, ReceiveDecided, ReceiveReady, ReceiveRunStarted, ReceiveRecheckRequest, ReceiveSubmission,
         ReceiveFinished, ReceiveFailed
<1>3. /\ toParent[g] # <<>> /\ toParent' = [toParent EXCEPT ![g] = Tail(@)] /\ IsTracked(g)
      /\ UNCHANGED <<todo, start, written, document>>
  BY <1>2 DEF Receives
<1>4. /\ Holds(toParent'[g], "NOT_SENT") => Holds(toParent[g], "NOT_SENT")
      /\ Head(toParent[g]) = "NOT_SENT" => Holds(toParent[g], "NOT_SENT")
  BY <1>1, <1>3, HoldsTail
<1>5. /\ worker' = worker \/ worker' = [worker EXCEPT ![g] = Signalled(@)]
      /\ job' = job \/ \E j : job' = [job EXCEPT ![g] = j]
      /\ toWorker' = toWorker \/ \E q : toWorker' = [toWorker EXCEPT ![g] = q]
  BY DEF ReceiveSteps, ReceiveDecided, ReceiveReady, ReceiveRunStarted, ReceiveRecheckRequest, ReceiveSubmission,
         ReceiveFinished, ReceiveFailed
<1>6. CASE h # g
  BY <1>1, <1>3, <1>5, <1>6, Untouched DEF WireOK, StagesOK, Starting
<1>7. worker'[g] = worker[g] \/ worker'[g] = Signalled(worker[g])
  BY <1>1, <1>5
<1>8. WireOK(g) /\ job[g] \in JobRecord /\ job[g].phase # "NONE"
  BY <1>1, <1>3 DEF WireEach, IsTracked
<1>9. CASE ReceiveDecided(g) \/ ReceiveRunStarted(g) \/ ReceiveFinished(g) \/ ReceiveFailed(g)
  <2>1. Learns(job[g], job'[g])
    <3>1. CASE ReceiveDecided(g)
      BY <1>8, <3>1, LearningSteps DEF ReceiveDecided
    <3>2. CASE ReceiveRunStarted(g)
      BY <1>1, <1>8, <3>2, LearningSteps DEF ReceiveRunStarted
    <3>3. CASE ReceiveFinished(g) \/ ReceiveFailed(g)
      <4>1. PICK ending : job' = [job EXCEPT ![g] = Ended(@, ending)]
        BY <3>3 DEF ReceiveFinished, ReceiveFailed
      <4> QED
        BY <1>1, <1>8, <4>1, LearningSteps
    <3> QED
      BY <1>9, <3>1, <3>2, <3>3
  <2>2. toWorker' = toWorker
    BY <1>9 DEF ReceiveDecided, ReceiveRunStarted, ReceiveFinished, ReceiveFailed
  <2>3. ManagerMoves(g)
    BY <1>3, <1>4, <1>7, <1>8, <2>1, <2>2, LearningMoves
  <2> QED
    BY <1>6, <2>3
<1>10. Starting(g)' => worker[g].stage = "NONE"
  BY <1>3, <1>8 DEF Starting, WireOK, StagesOK
<1>11. start'[g] # "NONE" => worker[g].stage = "NONE"
  BY <1>3, <1>8 DEF WireOK, StagesOK
<1>12. CASE ReceiveReady(g)
  <2>1. job'[g] = AfterReady(job[g])
    BY <1>1, <1>12 DEF ReceiveReady
  <2>2. /\ job'[g].startSent = ~job[g].stopRequested /\ job'[g].recheck = job[g].recheck /\ job'[g].ipc = job[g].ipc
        /\ job'[g].rejected = job[g].rejected /\ job'[g].submission = job[g].submission
    BY <1>8, <2>1 DEF AfterReady, JobRecord
  <2> DEFINE messages0 == IF job[g].stopRequested THEN <<"STOP">> ELSE <<"START">>
  <2>3. toWorker'[g] = Sent(g, messages0)
    BY <1>1, <1>12 DEF ReceiveReady
  <2>4. messages0 \in Seq(WorkerMessages)
    <3>1. <<"STOP">> \in Seq(WorkerMessages) /\ <<"START">> \in Seq(WorkerMessages)
      BY DEF WorkerMessages
    <3> QED
      BY <3>1
  <2>5. ~Holds(messages0, "ALLOWED") /\ (Holds(messages0, "START") => ~job[g].stopRequested)
    BY HoldsFew
  <2> HIDE DEF messages0
  <2>6. /\ \A m : Holds(toWorker'[g], m) => Holds(toWorker[g], m) \/ Holds(messages0, m)
        /\ worker[g].stage = "NONE" => toWorker'[g] = toWorker[g]
    BY <2>3, <2>4, SentHolds
  <2>7. ~job[g].startSent /\ job'[g].phase # "FORKED"
    <3>1. job[g].phase = "FORKED"
      BY <1>12 DEF ReceiveReady
    <3>2. job'[g].phase = "STARTED"
      BY <1>8, <2>1 DEF AfterReady, JobRecord
    <3> QED
      BY <1>8, <3>1, <3>2 DEF WireOK, OrdersOK
  <2>8. Remembers(g)
    BY <1>3, <1>8, <2>2, <2>5, <2>6, <2>7 DEF Remembers, WireOK, OrdersOK
  <2>9. SaysNotSent(g)' => SaysNotSent(g)
    BY <1>4, <2>2 DEF SaysNotSent
  <2> QED
    BY <1>3, <1>6, <1>7, <1>10, <1>11, <2>6, <2>8, <2>9 DEF ManagerMoves
<1>13. CASE ReceiveRecheckRequest(g)
  <2>1. /\ job'[g] = [job[g] EXCEPT !.recheck = "REQUESTED"] /\ toWorker' = toWorker /\ job[g].recheck = "NO"
        /\ job[g].phase # "FORKED"
    BY <1>1, <1>13 DEF ReceiveRecheckRequest
  <2>2. /\ job'[g].startSent = job[g].startSent /\ job'[g].ipc = job[g].ipc /\ job'[g].phase = job[g].phase
        /\ job'[g].rejected = job[g].rejected /\ job'[g].submission = job[g].submission
    BY <1>8, <2>1 DEF JobRecord
  <2>3. Remembers(g)
    BY <1>3, <1>8, <2>1, <2>2 DEF Remembers, WireOK, OrdersOK
  <2>4. SaysNotSent(g)' => SaysNotSent(g)
    BY <1>4, <2>2 DEF SaysNotSent
  <2> QED
    BY <1>3, <1>6, <1>7, <1>10, <1>11, <2>1, <2>3, <2>4 DEF ManagerMoves
<1>14. CASE ReceiveSubmission(g)
  <2> DEFINE report == Head(toParent[g])
             noted == [job[g] EXCEPT !.submission = report]
  <2>1. (job'[g] = noted \/ job'[g] = Ended(noted, "FAILED")) /\ toWorker' = toWorker
    BY <1>1, <1>14 DEF ReceiveSubmission
  <2>2. report \in {"NOT_SENT", "SENT", "UNKNOWN"}
    BY <1>14 DEF ReceiveSubmission, Receives
  <2>3. noted \in JobRecord /\ noted.phase = job[g].phase /\ noted.submission = report
    BY <1>8, <2>2 DEF JobRecord
  <2>4. /\ noted.startSent = job[g].startSent /\ noted.ipc = job[g].ipc
        /\ noted.rejected = job[g].rejected /\ noted.recheck = job[g].recheck
    BY <1>8 DEF JobRecord
  <2> HIDE DEF noted
  <2>5. Learns(noted, job'[g])
    BY <1>8, <2>1, <2>3, LearningSteps
  <2>6. Remembers(g)
    BY <1>3, <1>8, <2>1, <2>3, <2>4, <2>5 DEF Learns, Remembers, WireOK, OrdersOK
  <2>7. SaysNotSent(g)' => SaysNotSent(g)
    BY <1>4, <2>3, <2>5 DEF SaysNotSent, Learns
  <2> QED
    BY <1>3, <1>6, <1>7, <1>10, <1>11, <2>1, <2>6, <2>7 DEF ManagerMoves
<1> QED
  BY <1>9, <1>12, <1>13, <1>14 DEF ReceiveSteps

(* The answer to a recheck: the manager remembers what it sends. *)
LEMMA AnswerMoves ==
    ASSUME JobTypes, WireEach, NEW g \in Grants, AnswerSteps(g), NEW h \in Grants
    PROVE  ManagerMoves(h)
<1>1. /\ job \in [Grants -> JobRecord] /\ toWorker \in [Grants -> Seq(WorkerMessages)]
      /\ WireOK(h) /\ WireOK(g) /\ job[g] \in JobRecord
  BY DEF JobTypes, JobTypeOK, WireEach
<1>2. /\ IsRecheckPending(g) /\ UNCHANGED <<todo, start, worker, toParent, written, document>>
      /\ \E j : job' = [job EXCEPT ![g] = j]
      /\ \E q : toWorker' = [toWorker EXCEPT ![g] = q]
  BY DEF AnswerSteps, AllowWrite, RefuseWrite, workerVars
<1>3. CASE h # g
  BY <1>1, <1>2, <1>3, Untouched DEF WireOK, StagesOK, Starting
<1>4. PICK messages \in {<<"ALLOWED">>, <<"REFUSED", "STOP">>} :
          /\ toWorker'[g] = Sent(g, messages)
          /\ \/ messages = <<"ALLOWED">> /\ job'[g] = [job[g] EXCEPT !.recheck = "ALLOWED"]
             \/ messages # <<"ALLOWED">> /\ job'[g] = [job[g] EXCEPT !.rejected = TRUE, !.stopRequested = TRUE]
  <2>1. <<"REFUSED", "STOP">> # <<"ALLOWED">>
    OBVIOUS
  <2> QED
    BY <1>1, <2>1 DEF AnswerSteps, AllowWrite, RefuseWrite
<1>5. /\ job'[g].startSent = job[g].startSent /\ job'[g].ipc = job[g].ipc /\ job'[g].phase = job[g].phase
      /\ job'[g].submission = job[g].submission
      /\ IF messages = <<"ALLOWED">> THEN job'[g].recheck = "ALLOWED" /\ job'[g].rejected = job[g].rejected
         ELSE job'[g].recheck = job[g].recheck
  BY <1>1, <1>4 DEF JobRecord
<1>6. /\ job[g].recheck = "REQUESTED" /\ ~job[g].rejected
  BY <1>2 DEF IsRecheckPending
<1>7. messages \in Seq(WorkerMessages) /\ ~Holds(messages, "START") /\ (Holds(messages, "ALLOWED") => messages = <<"ALLOWED">>)
  <2>1. CASE messages = <<"ALLOWED">>
    BY <2>1, HoldsFew DEF WorkerMessages
  <2>2. CASE messages = <<"REFUSED", "STOP">>
    <3>1. ~Holds(messages, "START") /\ ~Holds(messages, "ALLOWED")
      BY <2>2, HoldsFew
    <3> QED
      BY <2>2, <3>1 DEF WorkerMessages
  <2> QED
    BY <1>4, <2>1, <2>2
<1>8. /\ \A m : Holds(toWorker'[g], m) => Holds(toWorker[g], m) \/ Holds(messages, m)
      /\ worker[g].stage = "NONE" => toWorker'[g] = toWorker[g]
  BY <1>4, <1>7, SentHolds
<1>9. Remembers(g)
  BY <1>1, <1>5, <1>6, <1>7, <1>8 DEF Remembers, WireOK, OrdersOK, IsTracked
<1>10. SaysNotSent(g)' => SaysNotSent(g)
  BY <1>2, <1>5 DEF SaysNotSent
<1>11. ManagerMoves(g)
  BY <1>1, <1>2, <1>8, <1>9, <1>10 DEF ManagerMoves, WireOK, StagesOK, Starting
<1> QED
  BY <1>3, <1>11

(* Timers, and the end of a worker's channel. *)
LEMMA TimeoutMoves ==
    ASSUME JobTypes, WireEach, NEW g \in Grants, Timeout(g), NEW h \in Grants
    PROVE  ManagerMoves(h)
<1>1. /\ job \in [Grants -> JobRecord] /\ worker \in [Grants -> WorkerRecord]
      /\ WireOK(h) /\ job[h] \in JobRecord
  BY DEF JobTypes, JobTypeOK, WireEach
<1>2. PICK ending : EndAndKill(g, ending)
  BY DEF Timeout
<1>3. Learns(job[h], job'[h])
  BY <1>1, <1>2, LearningSteps DEF EndAndKill, IsTracked
<1>4. worker'[h] = worker[h] \/ worker'[h] = Signalled(worker[h])
  BY <1>1, <1>2 DEF EndAndKill
<1>5. UNCHANGED <<todo, start, toWorker, toParent, written, document>>
  BY <1>2 DEF EndAndKill
<1> QED
  BY <1>1, <1>3, <1>4, <1>5, LearningMoves

(* The steps at the exit of a worker are steps of the manager.               *)
LEMMA ExitMoves ==
    ASSUME JobTypes, OwnedJobs, WireEach, NEW g \in Grants, ExitSteps(g), NEW h \in Grants
    PROVE  ManagerMoves(h)
<1>1. /\ job \in [Grants -> JobRecord] /\ toParent \in [Grants -> Seq(ParentMessages)]
      /\ WireOK(h) /\ WireOK(g) /\ job[g] \in JobRecord
  BY DEF JobTypes, JobTypeOK, WireEach
<1>2. UNCHANGED <<start, toWorker, worker, written, document>>
  BY DEF ExitSteps, SeeProcessExit, EndDrain, RecordExit, workerVars
<1>3. ASSUME NEW at \in Times, RecordExit(g, at)
      PROVE  ManagerMoves(h)
  <2>1. UNCHANGED <<job, toParent>>
    BY <1>3 DEF RecordExit, workerVars
  <2>2. PICK state : todo' = <<EndRow(g, state)>>
    BY <1>3 DEF RecordExit
  <2>3. ~Starting(h)'
    BY <2>2, ErrandForms DEF Starting
  <2> QED
    BY <1>1, <1>2, <2>1, <2>3, Untouched
<1>4. CASE SeeProcessExit(g) \/ EndDrain(g)
  <2>1. UNCHANGED todo /\ worker[g].stage = "GONE" /\ IsTracked(g)
    BY <1>1, <1>4 DEF SeeProcessExit, EndDrain, OwnedJobs, WireOK, StagesOK
  <2>2. \E j : job' = [job EXCEPT ![g] = j]
    BY <1>4 DEF SeeProcessExit, EndDrain
  <2>3. toParent' = toParent \/ toParent' = [toParent EXCEPT ![g] = <<>>]
    BY <1>4 DEF SeeProcessExit, EndDrain, workerVars
  <2>4. CASE h # g
    BY <1>1, <1>2, <2>1, <2>2, <2>3, <2>4, Untouched DEF WireOK, StagesOK, Starting
  <2>5. PICK j \in JobRecord, channel \in {"DRAINING", "CLOSED"} :
            Learns(job[g], j) /\ job'[g] = [j EXCEPT !.ipc = channel]
    <3>1. CASE SeeProcessExit(g)
      BY <1>1, <3>1, LearningSteps DEF SeeProcessExit
    <3>2. CASE EndDrain(g)
      <4>1. Ended(job[g], "INTERRUPTED") \in JobRecord
        BY <1>1, RecordTypes
      <4> QED
        BY <1>1, <2>1, <3>2, <4>1, LearningSteps DEF EndDrain, IsTracked
    <3> QED
      BY <1>4, <3>1, <3>2
  <2>6. /\ job'[g].phase = j.phase /\ job'[g].startSent = j.startSent /\ job'[g].recheck = j.recheck
        /\ job'[g].rejected = j.rejected /\ job'[g].submission = j.submission
    BY <2>5 DEF JobRecord
  <2>7. Remembers(g)
    BY <1>1, <1>2, <2>1, <2>5, <2>6 DEF Remembers, Learns, WireOK, OrdersOK, IsTracked
  <2>8. SaysNotSent(g)' => SaysNotSent(g)
    BY <1>1, <2>3, <2>5, <2>6, HoldsFew DEF SaysNotSent, Learns
  <2>9. ManagerMoves(g)
    BY <1>1, <1>2, <2>1, <2>7, <2>8 DEF ManagerMoves, WireOK, StagesOK, Starting
  <2> QED
    BY <2>4, <2>9
<1> QED
  BY <1>3, <1>4 DEF ExitSteps

(* A job that the manager forgets. *)
LEMMA Forgotten ==
    ASSUME JobTypes, NEW g \in Grants, WireOK(g), job'[g] = NoJob,
           worker'[g] = worker[g], written'[g] = written[g], document'[g] = document[g],
           Holds(toParent'[g], "NOT_SENT") => Holds(toParent[g], "NOT_SENT"),
           worker[g].stage = "NONE" => toWorker'[g] = toWorker[g],
           start'[g] = start[g] \/ start'[g] = "NONE", Starting(g)' => worker[g].stage = "NONE"
    PROVE  ManagerMoves(g)
<1>1. NoJob.phase = "NONE" /\ NoJob.ipc = "OPEN" /\ ~NoJob.rejected /\ NoJob.submission = "NONE"
  BY DEF NoJob
<1>2. (SaysNotSent(g)' => SaysNotSent(g)) /\ ~IsTracked(g)'
  BY <1>1 DEF SaysNotSent, IsTracked
<1> QED
  BY <1>1, <1>2 DEF ManagerMoves, Remembers, WireOK, StagesOK

(* The screens: a grant is issued once, and has no worker before. *)
LEMMA ScreenMoves ==
    ASSUME JobTypes, RowsOK, OnePostEach, WireEach, StoreHandlers, NEW h \in Grants
    PROVE  ManagerMoves(h)
<1>1. WireOK(h)
  BY DEF WireEach
<1>2. CASE ChangeScenario
  BY <1>1, <1>2, Untouched DEF ChangeScenario, jobVars, serverVars, workerVars, WireOK, StagesOK, Starting
<1>3. ASSUME NEW s \in Scenarios, NEW at \in Times, InvalidateApproval(s, at)
      PROVE  ManagerMoves(h)
  <2>1. UndecidedJobsOf(s) \in SUBSET Grants
    BY DEF UndecidedJobsOf, GrantsOf
  <2> QED
    BY <1>3, <2>1, StopMoves DEF InvalidateApproval
<1>4. ASSUME NEW g \in Grants, NEW s \in Scenarios, NEW seen \in Facts, NEW at \in Times, IssueAndStart(g, s, seen, at)
      PROVE  ManagerMoves(h)
  <2>1. worker[g].stage = "NONE"
    <3>1. ~IsIssued(g)
      BY <1>4 DEF IssueAndStart, IssueExecutionGrant
    <3>2. ~HasResult(g)
      BY <3>1 DEF RowsOK, RowOK, NoResult, HasResult
    <3> QED
      BY <3>2 DEF OnePostEach, OnePost
  <2>2. start'[h] = start[h] \/ worker[h].stage = "NONE"
    BY <1>4, <2>1 DEF IssueAndStart, JobTypes, JobTypeOK
  <2> QED
    BY <1>1, <1>4, <2>2, Untouched DEF IssueAndStart, workerVars, WireOK, StagesOK, Starting
<1> QED
  BY <1>2, <1>3, <1>4 DEF StoreHandlers

(* A start call up to the fork. *)
LEMMA StartMoves ==
    ASSUME JobTypes, WireEach, NEW g \in Grants, StartSteps(g), ~\E at \in Times : Launch(g, at), NEW h \in Grants
    PROVE  ManagerMoves(h)
<1>1. WireOK(h) /\ start \in [Grants -> StartStates]
  BY DEF WireEach, JobTypes, JobTypeOK
<1>2. start[g] # "NONE"
  BY DEF StartSteps, ReconcileBeforeRow, FailPreparation, RejectStart, FailLaunch, Consume
<1>3. worker[g].stage = "NONE"
  BY <1>2 DEF WireEach, WireOK, StagesOK
<1>4. UNCHANGED <<worker, written, document, toParent, toWorker, job>>
  BY DEF StartSteps, ReconcileBeforeRow, InterruptUnowned, FailPreparation, GiveUpStart, RejectStart, FailLaunch, Consume,
         workerVars
<1>5. start'[h] = start[h] \/ start'[h] = "NONE" \/ worker[h].stage = "NONE"
  <2>1. CASE h = g
    BY <1>3, <2>1
  <2>2. CASE h # g
    BY <1>1, <2>2 DEF StartSteps, ReconcileBeforeRow, FailPreparation, GiveUpStart, RejectStart, FailLaunch, Consume
  <2> QED
    BY <2>1, <2>2
<1>6. Starting(h)' => worker[h].stage = "NONE"
  <2>1. CASE todo' = todo
    BY <1>1, <2>1 DEF WireOK, StagesOK, Starting
  <2>2. CASE todo' = <<CloseOrphans, CreateRow(g)>> \/ todo' = <<CloseUnsent(g), EndRow(g, "FAILED")>>
    <3>1. Starting(h)' => h = g
      BY <2>2, ErrandForms DEF Starting
    <3> QED
      BY <1>3, <3>1
  <2>3. \/ todo' = todo \/ todo' = <<CloseOrphans, CreateRow(g)>> \/ todo' = <<CloseUnsent(g), EndRow(g, "FAILED")>>
    <3>1. <<CloseOrphans>> \o <<CreateRow(g)>> = <<CloseOrphans, CreateRow(g)>>
      BY PairOfErrands
    <3> QED
      BY <3>1 DEF StartSteps, ReconcileBeforeRow, InterruptUnowned, FailPreparation, GiveUpStart, RejectStart, FailLaunch, Consume
  <2> QED
    BY <2>1, <2>2, <2>3
<1> QED
  BY <1>1, <1>4, <1>5, <1>6, Untouched

(* The errand that makes a row is the last of its handler. *)
LEMMA RowErrand ==
    ASSUME todo \in Errands, todo # <<>>, todo[1].op = "CREATE_ROW"
    PROVE  Starting(todo[1].grant)
<1>1. PICK g \in Grants : todo = <<CreateRow(g)>>
  BY DEF Errands, CloseOrphans, CreateRow, CloseUnsent, EndRow
<1>2. todo[1].grant = g
  BY <1>1 DEF CreateRow
<1> QED
  BY <1>1, <1>2 DEF Starting

(* The transactions of a handler. *)
LEMMA CommitMoves ==
    ASSUME JobTypes, WireEach, Commits, NEW h \in Grants
    PROVE  ManagerMoves(h)
<1>1. WireOK(h) /\ start \in [Grants -> StartStates] /\ job \in [Grants -> JobRecord] /\ todo \in Errands
  BY DEF WireEach, JobTypes, JobTypeOK
<1>2. todo # <<>> /\ todo' = Tail(todo) /\ UNCHANGED workerVars /\ UNCHANGED toWorker
  BY DEF Commits, CommitEndRow, CommitCloseOrphans, CommitCreateRow, CommitCloseUnsent, Proceed
<1>3. Starting(h)' => worker[h].stage = "NONE"
  BY <1>1, <1>2, StartingTail DEF Starting, WireOK, StagesOK
<1>4. CASE CommitEndRow
  <2>1. job'[h] = job[h] \/ job'[h] = NoJob
    BY <1>1, <1>4 DEF CommitEndRow
  <2>2. UNCHANGED start
    BY <1>4 DEF CommitEndRow
  <2> QED
    BY <1>1, <1>2, <1>3, <2>1, <2>2, Untouched, Forgotten DEF workerVars
<1>5. ASSUME NEW at \in Times, CommitCloseOrphans(at) \/ CommitCloseUnsent(at)
      PROVE  ManagerMoves(h)
  BY <1>1, <1>2, <1>3, <1>5, Untouched DEF CommitCloseOrphans, CommitCloseUnsent, workerVars
<1>6. ASSUME NEW at \in Times, CommitCreateRow(at)
      PROVE  ManagerMoves(h)
  <2>1. Starting(todo[1].grant) /\ todo[1].grant \in Grants
    BY <1>1, <1>6, RowErrand, ProceedTypes DEF CommitCreateRow, Proceed
  <2>2. worker[todo[1].grant].stage = "NONE"
    BY <2>1 DEF WireEach, WireOK, StagesOK
  <2>3. start'[h] = start[h] \/ worker[h].stage = "NONE"
    BY <1>1, <1>6, <2>2 DEF CommitCreateRow
  <2>4. UNCHANGED job
    BY <1>6 DEF CommitCreateRow
  <2> QED
    BY <1>1, <1>2, <1>3, <2>3, <2>4, Untouched DEF workerVars
<1> QED
  BY <1>4, <1>5, <1>6 DEF Commits

(* Jobs of another kind, the death of the server, and its restart. *)
LEMMA ServerMoves ==
    ASSUME JobTypes, WireEach, StartOtherJob \/ Crash \/ Restart, NEW h \in Grants
    PROVE  ManagerMoves(h)
<1>1. WireOK(h) /\ start \in [Grants -> StartStates] /\ job \in [Grants -> JobRecord]
  BY DEF WireEach, JobTypes, JobTypeOK
<1>2. ~Starting(h)'
  <2>1. CASE Crash
    BY <2>1, ErrandForms DEF Crash, Starting
  <2>2. CASE StartOtherJob \/ Restart
    <3>1. todo' = <<CloseOrphans>>
      BY <2>2, PairOfErrands DEF StartOtherJob, Restart, InterruptUnowned
    <3>2. <<CloseOrphans>> # <<CloseOrphans, CreateRow(h)>> /\ <<CloseOrphans>> # <<CloseUnsent(h), EndRow(h, "FAILED")>>
      OBVIOUS
    <3> QED
      BY <3>1, <3>2, ErrandForms DEF Starting
  <2> QED
    BY <2>1, <2>2
<1>3. CASE StartOtherJob \/ Restart
  <2>1. UNCHANGED <<job, toWorker, toParent, worker, written, document, start>>
    BY <1>3 DEF StartOtherJob, Restart, InterruptUnowned, workerVars
  <2> QED
    BY <1>1, <1>2, <2>1, Untouched
<1>4. CASE Crash
  <2>1. job'[h] = NoJob /\ toParent'[h] = <<>> /\ start'[h] = "NONE" /\ UNCHANGED <<worker, written, document>>
    BY <1>4 DEF Crash
  <2>2. worker[h].stage = "NONE" => toWorker'[h] = toWorker[h]
    BY <1>4 DEF Crash, IsAlive
  <2> QED
    BY <1>1, <1>2, <2>1, <2>2, HoldsFew, Forgotten
<1> QED
  BY <1>3, <1>4

(* The fork: the worker boots, and has been told nothing. *)
LEMMA LaunchWire ==
    ASSUME JobTypes, WireEach, NEW g \in Grants, NEW at \in Times, Launch(g, at)
    PROVE  WireOK(g)' /\ \A h \in Grants : h # g => ManagerMoves(h)
<1>1. /\ WireOK(g)
      /\ start \in [Grants -> StartStates] /\ job \in [Grants -> JobRecord] /\ worker \in [Grants -> WorkerRecord]
  BY DEF WireEach, JobTypes, JobTypeOK
<1>2. /\ start[g] = "RECORDING" /\ todo = <<>> /\ todo' = todo /\ UNCHANGED <<toParent, toWorker, written, document>>
      /\ start' = [start EXCEPT ![g] = "NONE"] /\ job' = [job EXCEPT ![g] = Forked]
      /\ worker' = [worker EXCEPT ![g] = Booting]
  BY DEF Launch, Idle
<1>3. \A h \in Grants : ~Starting(h) /\ ~Starting(h)'
  BY <1>2, EmptyErrands DEF Starting
<1>4. ASSUME NEW h \in Grants, h # g
      PROVE  ManagerMoves(h)
  BY <1>1, <1>2, <1>3, <1>4, Untouched DEF WireEach
<1>5. WireOK(g)'
  <2>1. worker[g].stage = "NONE" /\ written[g] = 0 /\ toWorker[g] = <<>>
    BY <1>1, <1>2 DEF WireOK, StagesOK, PostsOK
  <2>2. ~SaysNotSent(g) /\ document[g] = "NONE"
    BY <1>1, <2>1 DEF WireOK, ReportsOK, Harmless
  <2>3. Forked.phase = "FORKED" /\ Forked.submission = "NONE" /\ ~Forked.startSent /\ ~Forked.rejected /\ Forked.ipc = "OPEN"
    BY RecordTypes DEF Forked, NoJob
  <2>4. Booting.stage = "BOOTING" /\ Booting.post = "NONE"
    BY RecordTypes DEF Booting, NoWorker
  <2>5. job'[g] = Forked /\ worker'[g] = Booting /\ start'[g] = "NONE"
    BY <1>1, <1>2
  <2>6. ~SaysNotSent(g)'
    BY <1>2, <2>2, <2>3, <2>5 DEF SaysNotSent
  <2>7. \A m : ~Holds(toWorker'[g], m)
    BY <1>2, <2>1, HoldsFew
  <2>8. PostsOK(g)' /\ ReportsOK(g)'
    BY <1>2, <2>1, <2>2, <2>4, <2>5, <2>6 DEF PostsOK, ReportsOK, Running
  <2>9. OrdersOK(g)'
    BY <1>2, <2>1, <2>3, <2>4, <2>5, <2>7 DEF OrdersOK, MayWrite, Running, IsEarly
  <2>10. StagesOK(g)'
    BY <1>3, <2>3, <2>4, <2>5 DEF StagesOK
  <2> QED
    BY <2>8, <2>9, <2>10 DEF WireOK
<1> QED
  BY <1>4, <1>5

-----------------------------------------------------------------------------
(* The steps of a worker *)

(* They are seen by no other grant. *)
LEMMA WorkerOthers ==
    ASSUME JobTypes, WireEach, NEW g \in Grants, RunSteps(g) \/ TakeSignal(g) \/ WorkerDies(g), NEW h \in Grants, h # g
    PROVE  ManagerMoves(h)
<1>1. /\ WireOK(h) /\ worker \in [Grants -> WorkerRecord] /\ toWorker \in [Grants -> Seq(WorkerMessages)]
      /\ toParent \in [Grants -> Seq(ParentMessages)] /\ written \in [Grants -> Nat]
      /\ document \in [Grants -> {"NONE", "NOT_SENT", "SENT", "ANSWERED"}]
  BY DEF WireEach, JobTypes, JobTypeOK
<1>2. WorkerStep(g)
  BY DEF RunSteps, BecomeReady, TakeStart, TakeStop, TakeRecheckResult, TakeLateResult, StartRun, SkipRun,
         EnterStage, RequestRecheck, TimeOutRecheck, AdmitPost, WritePost, SettlePost, CloseContext,
         ReportSubmission, Reports, FailRun, FinishRun, TakeSignal, WorkerDies, WorkerBecomes, TakesMessage, Goes
<1>3. \E w, inbox : Becomes(g, w, inbox)
  BY DEF RunSteps, BecomeReady, TakeStart, TakeStop, TakeRecheckResult, TakeLateResult, StartRun, SkipRun,
         EnterStage, RequestRecheck, TimeOutRecheck, AdmitPost, WritePost, SettlePost, CloseContext,
         ReportSubmission, Reports, FailRun, FinishRun, TakeSignal, WorkerDies, WorkerBecomes, TakesMessage, Goes
<1>4. toParent' = toParent \/ \E messages : toParent' = Told(g, messages)
  BY DEF RunSteps, BecomeReady, TakeStart, TakeStop, TakeRecheckResult, TakeLateResult, StartRun, SkipRun,
         EnterStage, RequestRecheck, TimeOutRecheck, AdmitPost, WritePost, SettlePost, CloseContext,
         ReportSubmission, Reports, FailRun, FinishRun, TakeSignal, WorkerDies, WorkerBecomes, TakesMessage, Goes
<1>5. written' = written \/ written' = [written EXCEPT ![g] = @ + 1]
  BY DEF RunSteps, BecomeReady, TakeStart, TakeStop, TakeRecheckResult, TakeLateResult, StartRun, SkipRun,
         EnterStage, RequestRecheck, TimeOutRecheck, AdmitPost, WritePost, SettlePost, CloseContext,
         ReportSubmission, Reports, FailRun, FinishRun, TakeSignal, WorkerDies, WorkerBecomes, TakesMessage, Goes
<1>6. document' = document \/ \E doc : document' = [document EXCEPT ![g] = doc]
  BY DEF RunSteps, BecomeReady, TakeStart, TakeStop, TakeRecheckResult, TakeLateResult, StartRun, SkipRun,
         EnterStage, RequestRecheck, TimeOutRecheck, AdmitPost, WritePost, SettlePost, CloseContext,
         ReportSubmission, Reports, FailRun, FinishRun, TakeSignal, WorkerDies, WorkerBecomes, TakesMessage, Goes
<1>7. worker'[h] = worker[h] /\ toWorker'[h] = toWorker[h]
  BY <1>1, <1>3 DEF Becomes
<1>8. toParent'[h] = toParent[h]
  BY <1>1, <1>4 DEF Told
<1>9. written'[h] = written[h] /\ document'[h] = document[h]
  BY <1>1, <1>5, <1>6
<1>10. job' = job /\ start' = start /\ todo' = todo
  BY <1>2 DEF WorkerStep, serverVars
<1> QED
  BY <1>1, <1>7, <1>8, <1>9, <1>10, Untouched DEF WireOK, StagesOK, Starting

(* What a worker's step must keep. *)
LEMMA WorkerKeeps ==
    ASSUME JobTypes, NEW g \in Grants, WireOK(g), WorkerStep(g), written'[g] = written[g], document'[g] = document[g],
           PostsOK(g)', worker'[g].stage # "NONE",
           worker[g].stage = "EXITING" => worker'[g].stage \in {"EXITING", "GONE"},
           Harmless(g) => Harmless(g)',
           Holds(toParent'[g], "NOT_SENT") => Holds(toParent[g], "NOT_SENT") \/ Harmless(g)',
           \A m : Holds(toWorker'[g], m) => Holds(toWorker[g], m),
           IsEarly(worker[g]) => IsEarly(worker[g])' \/ Holds(toWorker[g], "START"),
           MayWrite(g)' => MayWrite(g)
    PROVE  WireOK(g)'
<1>1. job' = job /\ start' = start /\ todo' = todo /\ worker[g].stage \notin {"NONE", "GONE"}
  BY DEF WorkerStep, serverVars, IsAlive
<1>2. ReportsOK(g)'
  BY <1>1 DEF WireOK, ReportsOK, SaysNotSent
<1>3. OrdersOK(g)'
  BY <1>1 DEF WireOK, OrdersOK, IsTracked
<1>4. StagesOK(g)'
  BY <1>1 DEF WireOK, StagesOK, Starting
<1> QED
  BY <1>2, <1>3, <1>4 DEF WireOK

(* What a step reads and tells. *)
LEMMA TellsAndReads ==
    ASSUME JobTypes, NEW g \in Grants
    PROVE  /\ \A messages \in Seq(ParentMessages) : toParent' = Told(g, messages) =>
                  \A m : Holds(toParent'[g], m) => Holds(toParent[g], m) \/ Holds(messages, m)
           /\ \A w, inbox : Becomes(g, w, inbox) =>
                  worker'[g] = w /\ \A m : Holds(toWorker'[g], m) => Holds(inbox, m)
           /\ toWorker[g] # <<>> =>
                  \A m : (Holds(Tail(toWorker[g]), m) => Holds(toWorker[g], m)) /\ (Head(toWorker[g]) = m => Holds(toWorker[g], m))
<1>1. /\ worker \in [Grants -> WorkerRecord] /\ toWorker \in [Grants -> Seq(WorkerMessages)]
      /\ toParent \in [Grants -> Seq(ParentMessages)]
  BY DEF JobTypes, JobTypeOK
<1>2. ASSUME NEW messages \in Seq(ParentMessages), toParent' = Told(g, messages), NEW m, Holds(toParent'[g], m)
      PROVE  Holds(toParent[g], m) \/ Holds(messages, m)
  <2>1. toParent[g] \in Seq(ParentMessages)
    BY <1>1
  <2>2. toParent'[g] = toParent[g] \/ toParent'[g] = toParent[g] \o messages
    BY <1>1, <1>2 DEF Told
  <2> QED
    BY <1>2, <2>1, <2>2, HoldsConcat
<1>3. ASSUME NEW w, NEW inbox, Becomes(g, w, inbox)
      PROVE  worker'[g] = w /\ \A m : Holds(toWorker'[g], m) => Holds(inbox, m)
  <2>1. toWorker'[g] = <<>> \/ toWorker'[g] = inbox
    BY <1>1, <1>3 DEF Becomes
  <2> QED
    BY <1>1, <1>3, <2>1, HoldsFew DEF Becomes
<1>4. ASSUME toWorker[g] # <<>>, NEW m
      PROVE  (Holds(Tail(toWorker[g]), m) => Holds(toWorker[g], m)) /\ (Head(toWorker[g]) = m => Holds(toWorker[g], m))
  BY <1>1, <1>4, HoldsTail
<1> QED
  BY <1>2, <1>3, <1>4

(* A worker that keeps its stage and its posts, or ends. *)
Calms(w, next) ==
    \/ next.stage = w.stage /\ next.post = w.post /\ next.postsLeft = w.postsLeft /\ next.facts = w.facts
    \/ next.stage \in {"EXITING", "GONE"} /\ next.post = "NONE" /\ (w.stage = "EXITING" => next.stage \in {"EXITING", "GONE"})

(* The ways a worker is interrupted or ends only calm it.                    *)
LEMMA CalmingSteps ==
    ASSUME NEW w \in WorkerRecord
    PROVE  /\ Calms(w, w) /\ Calms(w, Gone) /\ Calms(w, Exiting(w)) /\ Calms(w, Interrupted(w))
           /\ Calms(w, Interrupted([w EXCEPT !.signal = "TAKEN"]))
           /\ Calms(w, Interrupted([w EXCEPT !.distrusts = TRUE, !.failed = TRUE]))
           /\ Exiting(w).stage = "EXITING"
<1>1. NoWorker \in WorkerRecord /\ NoWorker.post = "NONE"
  BY RecordTypes DEF NoWorker
<1>2. Gone.stage = "GONE" /\ Gone.post = "NONE" /\ Exiting(w).stage = "EXITING" /\ Exiting(w).post = "NONE"
  BY <1>1 DEF Gone, Exiting, WorkerRecord
<1>3. ASSUME NEW v \in WorkerRecord
      PROVE  Calms(v, Interrupted(v))
  <2>1. Calms(v, v) /\ Calms(v, Gone)
    BY <1>2 DEF Calms
  <2>2. Calms(v, [v EXCEPT !.stop = TRUE])
    BY DEF Calms, WorkerRecord
  <2> QED
    BY <2>1, <2>2 DEF Interrupted
<1>4. ASSUME NEW v \in WorkerRecord, v.stage = w.stage, v.post = w.post, v.postsLeft = w.postsLeft, v.facts = w.facts
      PROVE  Calms(w, Interrupted(v))
  BY <1>3, <1>4 DEF Calms
<1>5. Calms(w, Interrupted([w EXCEPT !.signal = "TAKEN"]))
  <2> DEFINE v == [w EXCEPT !.signal = "TAKEN"]
  <2>1. v \in WorkerRecord /\ v.stage = w.stage /\ v.post = w.post /\ v.postsLeft = w.postsLeft /\ v.facts = w.facts
    BY DEF WorkerRecord
  <2> HIDE DEF v
  <2>2. Calms(w, Interrupted(v))
    BY <1>4, <2>1
  <2> QED
    BY <2>2 DEF v
<1>6. Calms(w, Interrupted([w EXCEPT !.distrusts = TRUE, !.failed = TRUE]))
  <2> DEFINE v == [w EXCEPT !.distrusts = TRUE, !.failed = TRUE]
  <2>1. v \in WorkerRecord /\ v.stage = w.stage /\ v.post = w.post /\ v.postsLeft = w.postsLeft /\ v.facts = w.facts
    BY DEF WorkerRecord
  <2> HIDE DEF v
  <2>2. Calms(w, Interrupted(v))
    BY <1>4, <2>1
  <2> QED
    BY <2>2 DEF v
<1> QED
  BY <1>2, <1>3, <1>5, <1>6 DEF Calms

(* Stops, signals, deaths and exits. *)
LEMMA CalmKeeps ==
    ASSUME JobTypes, NEW g \in Grants, WireOK(g), WorkerStep(g), written'[g] = written[g], document'[g] = document[g],
           NEW next, worker'[g] = next, Calms(worker[g], next),
           \A m : Holds(toWorker'[g], m) => Holds(toWorker[g], m),
           Holds(toParent'[g], "NOT_SENT") =>
               Holds(toParent[g], "NOT_SENT") \/ (next.stage \in {"EXITING", "GONE"} /\ written[g] = 0)
    PROVE  WireOK(g)'
<1>1. worker[g].stage \notin {"NONE", "GONE"}
  BY DEF WorkerStep, IsAlive
<1>2. PostsOK(g)'
  BY <1>1 DEF WireOK, PostsOK, Calms, Running
<1>3. worker'[g].stage # "NONE" /\ (worker[g].stage = "EXITING" => worker'[g].stage \in {"EXITING", "GONE"})
  BY <1>1 DEF Calms
<1>4. (Harmless(g) => Harmless(g)') /\ (next.stage \in {"EXITING", "GONE"} /\ written[g] = 0 => Harmless(g)')
  BY DEF Harmless, Calms
<1>5. IsEarly(worker[g]) => IsEarly(worker[g])'
  BY DEF IsEarly, Calms
<1>6. MayWrite(g)' => MayWrite(g)
  BY DEF MayWrite, Calms, Running
<1> QED
  BY <1>2, <1>3, <1>4, <1>5, <1>6, WorkerKeeps

(* A step on the way to the submission. *)
LEMMA AdvanceKeeps ==
    ASSUME JobTypes, NEW g \in Grants, WireOK(g), WorkerStep(g), written'[g] = written[g], document'[g] = document[g],
           worker[g].stage \in {"BOOTING", "WAITING", "RUNNING", "PREFLIGHT", "STAGE", "RECHECK", "PRESSED"},
           NEW to \in {"WAITING", "RUNNING", "PREFLIGHT", "STAGE", "RECHECK", "PRESSED", "CLOSED"},
           worker'[g] = [worker[g] EXCEPT !.stage = to],
           \A m : Holds(toWorker'[g], m) => Holds(toWorker[g], m),
           Holds(toParent'[g], "NOT_SENT") => Holds(toParent[g], "NOT_SENT"),
           to \in {"WAITING", "RUNNING", "PREFLIGHT"} => worker[g].stage \in {"BOOTING", "WAITING", "RUNNING"},
           IsEarly(worker[g]) => to = "WAITING" \/ Holds(toWorker[g], "START"),
           to = "PRESSED" => Holds(toWorker[g], "ALLOWED")
    PROVE  WireOK(g)'
<1>1. worker[g] \in WorkerRecord
  BY DEF JobTypes, JobTypeOK
<1>2. /\ worker'[g].stage = to /\ worker'[g].post = worker[g].post
      /\ worker'[g].postsLeft = worker[g].postsLeft /\ worker'[g].facts = worker[g].facts
  BY <1>1 DEF WorkerRecord
<1>3. PostsOK(g)'
  BY <1>2 DEF WireOK, PostsOK, Running
<1>4. ~Harmless(g)
  BY DEF Harmless
<1>5. IsEarly(worker[g]) => IsEarly(worker[g])' \/ Holds(toWorker[g], "START")
  BY <1>2 DEF IsEarly
<1>6. MayWrite(g)' => MayWrite(g)
  BY <1>2 DEF MayWrite, Running
<1> QED
  BY <1>2, <1>3, <1>4, <1>5, <1>6, WorkerKeeps

(* Steps that change only the stage, without a message about the wire.     *)
LEMMA StageSteps ==
    ASSUME JobTypes, WireEach, NEW g \in Grants,
           BecomeReady(g) \/ StartRun(g) \/ EnterStage(g) \/ RequestRecheck(g) \/ CloseContext(g) \/ TimeOutRecheck(g)
    PROVE  WireOK(g)'
<1> DEFINE silent == {<<>>, <<"READY">>, <<"RUN_STARTED">>, <<"RECHECK">>}
<1>1. WireOK(g)
  BY DEF WireEach
<1>2. ASSUME NEW from \in SUBSET {"BOOTING", "WAITING", "RUNNING", "PREFLIGHT", "STAGE", "RECHECK", "PRESSED"},
             NEW to \in {"WAITING", "PREFLIGHT", "STAGE", "RECHECK", "CLOSED"}, NEW messages \in silent,
             Goes(g, from, to, messages),
             to = "WAITING" => worker[g].stage = "BOOTING",
             to = "PREFLIGHT" => worker[g].stage = "RUNNING",
             to \notin {"WAITING", "PREFLIGHT"} => ~IsEarly(worker[g])
      PROVE  WireOK(g)'
  <2>1. messages \in Seq(ParentMessages) /\ ~Holds(messages, "NOT_SENT")
    <3>1. <<>> \in Seq(ParentMessages)
      BY EmptySeq
    <3>2. <<"READY">> \in Seq(ParentMessages) /\ <<"RUN_STARTED">> \in Seq(ParentMessages) /\ <<"RECHECK">> \in Seq(ParentMessages)
      BY DEF ParentMessages
    <3>3. ~Holds(<<>>, "NOT_SENT") /\ ~Holds(<<"READY">>, "NOT_SENT") /\ ~Holds(<<"RUN_STARTED">>, "NOT_SENT")
          /\ ~Holds(<<"RECHECK">>, "NOT_SENT")
      BY HoldsFew
    <3> QED
      BY <3>1, <3>2, <3>3, Zenon
  <2> HIDE DEF silent
  <2>2. /\ WorkerStep(g) /\ worker[g].stage \in from /\ Becomes(g, [worker[g] EXCEPT !.stage = to], toWorker[g])
        /\ toParent' = Told(g, messages) /\ written' = written /\ document' = document
    BY <1>2 DEF Goes
  <2>3. IsEarly(worker[g]) => to = "WAITING"
    BY <1>2 DEF IsEarly
  <2>4. worker'[g] = [worker[g] EXCEPT !.stage = to] /\ \A m : Holds(toWorker'[g], m) => Holds(toWorker[g], m)
    BY <2>2, TellsAndReads
  <2>5. Holds(toParent'[g], "NOT_SENT") => Holds(toParent[g], "NOT_SENT")
    BY <2>1, <2>2, TellsAndReads
  <2>6. worker[g].stage \in {"BOOTING", "WAITING", "RUNNING", "PREFLIGHT", "STAGE", "RECHECK", "PRESSED"}
    BY <2>2
  <2>7. to \in {"WAITING", "RUNNING", "PREFLIGHT"} => worker[g].stage \in {"BOOTING", "WAITING", "RUNNING"}
    BY <1>2
  <2> QED
    BY <1>1, <2>2, <2>3, <2>4, <2>5, <2>6, <2>7, AdvanceKeeps
<1>3. CASE BecomeReady(g)
  BY <1>2, <1>3 DEF BecomeReady, Goes
<1>4. CASE StartRun(g)
  BY <1>2, <1>4 DEF StartRun, Goes
<1>5. CASE EnterStage(g)
  BY <1>2, <1>5 DEF EnterStage, Goes, IsEarly
<1>6. CASE RequestRecheck(g)
  BY <1>2, <1>6 DEF RequestRecheck, Goes, IsEarly
<1>7. CASE CloseContext(g)
  BY <1>2, <1>7 DEF CloseContext, Goes, IsEarly
<1>8. CASE TimeOutRecheck(g)
  <2>1. /\ WorkerStep(g) /\ worker[g].stage = "RECHECK" /\ Becomes(g, [worker[g] EXCEPT !.stage = "CLOSED"], toWorker[g])
        /\ toParent' = toParent /\ written' = written /\ document' = document
    BY <1>8 DEF TimeOutRecheck, WorkerBecomes, AfterRecheckTimeout
  <2>2. worker'[g] = [worker[g] EXCEPT !.stage = "CLOSED"] /\ \A m : Holds(toWorker'[g], m) => Holds(toWorker[g], m)
    BY <2>1, TellsAndReads
  <2> QED
    BY <1>1, <2>1, <2>2, AdvanceKeeps DEF IsEarly
<1> QED
  BY <1>3, <1>4, <1>5, <1>6, <1>7, <1>8

(* Orders are taken as they were sent. *)
LEMMA OrderSteps ==
    ASSUME JobTypes, WireEach, NEW g \in Grants, TakeStart(g) \/ TakeRecheckResult(g)
    PROVE  WireOK(g)'
<1>1. WireOK(g)
  BY DEF WireEach
<1>2. CASE TakeStart(g)
  <2>1. /\ WorkerStep(g) /\ worker[g].stage = "WAITING" /\ toWorker[g] # <<>> /\ Head(toWorker[g]) = "START"
        /\ Becomes(g, [worker[g] EXCEPT !.stage = "RUNNING"], Tail(toWorker[g]))
        /\ toParent' = toParent /\ written' = written /\ document' = document
    BY <1>2 DEF TakeStart, TakesMessage
  <2>2. Holds(toWorker[g], "START")
    BY <2>1, TellsAndReads
  <2>3. worker'[g] = [worker[g] EXCEPT !.stage = "RUNNING"] /\ \A m : Holds(toWorker'[g], m) => Holds(toWorker[g], m)
    BY <2>1, TellsAndReads
  <2> QED
    BY <1>1, <2>1, <2>2, <2>3, AdvanceKeeps
<1>3. CASE TakeRecheckResult(g)
  <2>1. /\ WorkerStep(g) /\ worker[g].stage = "RECHECK" /\ toWorker[g] # <<>>
        /\ Becomes(g, AfterResult(worker[g], Head(toWorker[g]) = "ALLOWED"), Tail(toWorker[g]))
        /\ toParent' = toParent /\ written' = written /\ document' = document
    BY <1>3 DEF TakeRecheckResult, TakesMessage
  <2>2. PICK to \in {"PRESSED", "CLOSED"} :
            /\ AfterResult(worker[g], Head(toWorker[g]) = "ALLOWED") = [worker[g] EXCEPT !.stage = to]
            /\ to = "PRESSED" => Head(toWorker[g]) = "ALLOWED"
    BY DEF AfterResult
  <2>3. to = "PRESSED" => Holds(toWorker[g], "ALLOWED")
    BY <2>1, <2>2, TellsAndReads
  <2>4. worker'[g] = [worker[g] EXCEPT !.stage = to] /\ \A m : Holds(toWorker'[g], m) => Holds(toWorker[g], m)
    BY <2>1, <2>2, TellsAndReads
  <2> QED
    BY <1>1, <2>1, <2>2, <2>3, <2>4, AdvanceKeeps DEF IsEarly
<1> QED
  BY <1>2, <1>3

(* A post is admitted after the press, and written as it was admitted.      *)
LEMMA PostSteps ==
    ASSUME JobTypes, WireEach, NEW g \in Grants, AdmitPost(g) \/ WritePost(g) \/ SettlePost(g)
    PROVE  WireOK(g)'
<1> DEFINE w == worker[g]
<1>1. WireOK(g) /\ w \in WorkerRecord /\ written \in [Grants -> Nat]
  BY DEF WireEach, JobTypes, JobTypeOK
<1>2. WorkerStep(g) /\ toParent' = toParent /\ document' = document /\ w.stage \notin {"NONE", "GONE"}
  BY DEF AdmitPost, WritePost, SettlePost, WorkerBecomes, WorkerStep, IsAlive
<1>3. PICK post \in {"ADMITTED", "WRITTEN", "NOT_WRITTEN", "ANSWERED"}, left \in 0..1 :
          /\ Becomes(g, [w EXCEPT !.post = post, !.postsLeft = left], toWorker[g])
          /\ \/ post = "ADMITTED" /\ w.stage = "PRESSED" /\ w.postsLeft = 1 /\ left = 0 /\ written' = written
             \/ /\ left = w.postsLeft
                /\ \/ post = "WRITTEN" /\ w.post = "ADMITTED" /\ written' = [written EXCEPT ![g] = @ + 1]
                   \/ post = "NOT_WRITTEN" /\ w.post = "ADMITTED" /\ written' = written
                   \/ post = "ANSWERED" /\ w.post = "WRITTEN" /\ written' = written
  <2>1. ASSUME NEW post \in {"ADMITTED", "WRITTEN", "NOT_WRITTEN", "ANSWERED"}
        PROVE  [w EXCEPT !.post = post] = [w EXCEPT !.post = post, !.postsLeft = w.postsLeft]
    BY <1>1 DEF WorkerRecord
  <2>2. w.postsLeft \in 0..1
    BY <1>1 DEF WorkerRecord
  <2>3. CASE AdmitPost(g)
    <3>1. w.stage = "PRESSED" /\ w.postsLeft = 1
      BY <1>1, <2>2, <2>3 DEF AdmitPost, AdmittablePosts
    <3>2. Admitted(w) = [w EXCEPT !.post = "ADMITTED", !.postsLeft = 0]
      BY <1>1, <3>1 DEF Admitted, WorkerRecord
    <3> QED
      BY <2>3, <3>1, <3>2 DEF AdmitPost, WorkerBecomes
  <2>4. CASE WritePost(g)
    BY <2>1, <2>2, <2>4 DEF WritePost
  <2>5. CASE SettlePost(g)
    BY <2>1, <2>2, <2>5 DEF SettlePost, WorkerBecomes
  <2> QED
    BY <2>3, <2>4, <2>5
<1> DEFINE next == [w EXCEPT !.post = post, !.postsLeft = left]
<1>4. next.stage = w.stage /\ next.post = post /\ next.postsLeft = left /\ next.facts = w.facts
  BY <1>1 DEF WorkerRecord
<1> HIDE DEF next
<1>5. worker'[g] = next /\ \A m : Holds(toWorker'[g], m) => Holds(toWorker[g], m)
  BY <1>3, TellsAndReads DEF next
<1>6. Running(w) /\ (w.stage = "PRESSED" \/ w.post \in {"ADMITTED", "WRITTEN"})
  BY <1>1, <1>2, <1>3 DEF WireOK, PostsOK, Running
<1>7. written'[g] = IF post = "WRITTEN" THEN written[g] + 1 ELSE written[g]
  BY <1>1, <1>3
<1>8. PostsOK(g)'
  BY <1>1, <1>3, <1>4, <1>5, <1>6, <1>7 DEF WireOK, PostsOK, Running
<1>9. MayWrite(g) /\ ~Harmless(g)
  BY <1>6 DEF MayWrite, Harmless, Running
<1>10. ~IsEarly(w)
  BY <1>1, <1>6 DEF IsEarly, WireOK, PostsOK, Running
<1>11. job' = job /\ start' = start /\ todo' = todo
  BY <1>2 DEF WorkerStep, serverVars
<1>12. ReportsOK(g)'
  BY <1>1, <1>2, <1>6, <1>9, <1>11 DEF WireOK, ReportsOK, SaysNotSent, Running
<1>13. OrdersOK(g)'
  BY <1>1, <1>9, <1>10, <1>11 DEF WireOK, OrdersOK, IsTracked
<1>14. StagesOK(g)'
  BY <1>1, <1>2, <1>4, <1>5, <1>11 DEF WireOK, StagesOK, Starting
<1> QED
  BY <1>8, <1>12, <1>13, <1>14 DEF WireOK

(* The end of a run, for whatever reason. *)
LEMMA EndSteps ==
    ASSUME JobTypes, WireEach, NEW g \in Grants,
           TakeStop(g) \/ TakeLateResult(g) \/ SkipRun(g) \/ FailRun(g) \/ TakeSignal(g) \/ WorkerDies(g)
    PROVE  WireOK(g)'
<1> DEFINE w == worker[g]
<1>1. WireOK(g) /\ w \in WorkerRecord
  BY DEF WireEach, JobTypes, JobTypeOK
<1>2. CASE TakeSignal(g) \/ WorkerDies(g)
  <2>1. PICK next \in {Gone, Interrupted([w EXCEPT !.signal = "TAKEN"])} : WorkerBecomes(g, next)
    BY <1>2 DEF TakeSignal, WorkerDies
  <2>2. Calms(w, next)
    BY <1>1, <2>1, CalmingSteps
  <2> QED
    BY <1>1, <2>1, <2>2, TellsAndReads, CalmKeeps DEF WorkerBecomes
<1>3. CASE TakeStop(g) \/ TakeLateResult(g)
  <2>1. PICK next, messages :
            /\ next \in {w, Interrupted(w), Interrupted([w EXCEPT !.distrusts = TRUE, !.failed = TRUE])}
            /\ TakesMessage(g, messages, next)
    BY <1>3 DEF TakeStop, TakeLateResult
  <2>2. Calms(w, next)
    BY <1>1, <2>1, CalmingSteps
  <2>3. \A m : Holds(toWorker'[g], m) => Holds(toWorker[g], m)
    BY <2>1, TellsAndReads DEF TakesMessage
  <2>4. Holds(toParent'[g], "NOT_SENT") => Holds(toParent[g], "NOT_SENT")
    <3>1. <<"VIOLATION">> \in Seq(ParentMessages) /\ ~Holds(<<"VIOLATION">>, "NOT_SENT")
      BY HoldsFew DEF ParentMessages
    <3>2. toParent' = toParent \/ toParent' = Told(g, <<"VIOLATION">>)
      BY <1>3 DEF TakeStop, TakeLateResult
    <3> QED
      BY <3>1, <3>2, TellsAndReads
  <2>5. worker'[g] = next /\ WorkerStep(g) /\ written' = written /\ document' = document
    BY <2>1, TellsAndReads DEF TakesMessage
  <2> QED
    BY <1>1, <2>2, <2>3, <2>4, <2>5, CalmKeeps
<1>4. CASE SkipRun(g) \/ FailRun(g)
  <2> DEFINE last == FailedMessage(w)
  <2>1. last \in Seq(ParentMessages) /\ ~Holds(last, "NOT_SENT")
    <3>1. <<>> \in Seq(ParentMessages) /\ ~Holds(<<>>, "NOT_SENT")
      BY EmptySeq, HoldsFew
    <3>2. <<"FAILED">> \in Seq(ParentMessages) /\ ~Holds(<<"FAILED">>, "NOT_SENT")
      BY HoldsFew DEF ParentMessages
    <3> QED
      BY <3>1, <3>2 DEF FailedMessage
  <2>2. <<"NOT_SENT">> \in Seq(ParentMessages) /\ <<"UNKNOWN">> \in Seq(ParentMessages)
        /\ <<"NOT_SENT", "NOT_RUN">> \in Seq(ParentMessages) /\ ~Holds(<<"UNKNOWN">>, "NOT_SENT")
    BY HoldsFew DEF ParentMessages
  <2> HIDE DEF last
  <2>3. /\ <<"NOT_SENT">> \o last \in Seq(ParentMessages) /\ <<"UNKNOWN">> \o last \in Seq(ParentMessages)
        /\ ~Holds(<<"UNKNOWN">> \o last, "NOT_SENT")
    BY <2>1, <2>2, ConcatProperties, HoldsConcat
  <2>4. PICK messages \in Seq(ParentMessages) :
            /\ \E from : Goes(g, from, "EXITING", messages)
            /\ Holds(messages, "NOT_SENT") => w.stage \in {"RUNNING", "PREFLIGHT"}
    <3>1. ASSUME NEW from, NEW messages \in Seq(ParentMessages), Goes(g, from, "EXITING", messages)
          PROVE  w.stage \in from
      BY <3>1 DEF Goes
    <3>2. CASE SkipRun(g)
      BY <2>2, <3>1, <3>2 DEF SkipRun
    <3>3. CASE Goes(g, {"WAITING", "RUNNING", "REPORTED"}, "EXITING", last)
      BY <2>1, <3>3
    <3>4. CASE Goes(g, {"PREFLIGHT"}, "EXITING", <<"NOT_SENT">> \o last)
      BY <2>3, <3>1, <3>4
    <3>5. CASE Goes(g, {"CLOSED"}, "EXITING", <<"UNKNOWN">> \o last)
      BY <2>3, <3>5
    <3> QED
      BY <1>4, <3>2, <3>3, <3>4, <3>5 DEF FailRun, last
  <2>5. Becomes(g, Exiting(w), toWorker[g]) /\ toParent' = Told(g, messages) /\ WorkerStep(g)
        /\ written' = written /\ document' = document
    BY <2>4 DEF Goes
  <2>6. w.stage \in {"RUNNING", "PREFLIGHT"} => written[g] = 0
    BY <1>1 DEF WireOK, PostsOK, Running
  <2>7. Holds(toParent'[g], "NOT_SENT") => Holds(toParent[g], "NOT_SENT") \/ (Exiting(w).stage \in {"EXITING", "GONE"} /\ written[g] = 0)
    BY <1>1, <2>4, <2>5, <2>6, TellsAndReads, CalmingSteps
  <2>8. Calms(w, Exiting(w)) /\ worker'[g] = Exiting(w) /\ \A m : Holds(toWorker'[g], m) => Holds(toWorker[g], m)
    BY <1>1, <2>5, TellsAndReads, CalmingSteps
  <2> QED
    BY <1>1, <2>5, <2>7, <2>8, CalmKeeps
<1> QED
  BY <1>2, <1>3, <1>4

(* What is reported is what the guard can no longer change. *)
LEMMA ReportSteps ==
    ASSUME JobTypes, WireEach, NEW g \in Grants, ReportSubmission(g)
    PROVE  WireOK(g)'
<1> DEFINE w == worker[g]
<1>1. WireOK(g) /\ w \in WorkerRecord
  BY DEF WireEach, JobTypes, JobTypeOK
<1>2. PICK facts \in {"NOT_SENT", "SENT", "ANSWERED"} :
          /\ Reports(g, facts)
          /\ w.stage \in {"PREFLIGHT", "CLOSED"}
          /\ facts = "NOT_SENT" => w.post \in {"NONE", "NOT_WRITTEN"}
          /\ facts = "ANSWERED" => w.post = "ANSWERED"
  <2>1. CASE w.stage = "PREFLIGHT" /\ Reports(g, "NOT_SENT")
    BY <1>1, <2>1 DEF WireOK, PostsOK, Running
  <2>2. CASE w.stage = "CLOSED" /\ Reports(g, FactsOf(w))
    <3>1. FactsOf(w) \in {"NOT_SENT", "SENT", "ANSWERED"}
      BY <1>1, RecordTypes
    <3>2. /\ FactsOf(w) = "NOT_SENT" => w.post \in {"NONE", "NOT_WRITTEN"}
          /\ FactsOf(w) = "ANSWERED" => w.post = "ANSWERED"
      BY <1>1 DEF FactsOf, WorkerRecord
    <3> QED
      BY <2>2, <3>1, <3>2
  <2> QED
    BY <2>1, <2>2 DEF ReportSubmission
<1> DEFINE next == [w EXCEPT !.stage = "REPORTED", !.facts = facts]
<1>3. WorkerStep(g) /\ Becomes(g, next, toWorker[g]) /\ toParent' = Told(g, <<ReportOf(facts)>>)
      /\ written' = written /\ document' = document
  BY <1>2 DEF Reports
<1>4. next.stage = "REPORTED" /\ next.facts = facts /\ next.post = w.post /\ next.postsLeft = w.postsLeft
  BY <1>1 DEF WorkerRecord
<1> HIDE DEF next
<1>5. worker'[g] = next /\ \A m : Holds(toWorker'[g], m) => Holds(toWorker[g], m)
  BY <1>3, TellsAndReads
<1>6. PostsOK(g)'
  BY <1>1, <1>2, <1>3, <1>4, <1>5 DEF WireOK, PostsOK, Running
<1>7. <<ReportOf(facts)>> \in Seq(ParentMessages) /\ (Holds(<<ReportOf(facts)>>, "NOT_SENT") => facts = "NOT_SENT")
  <2>1. ReportOf(facts) \in ParentMessages /\ (ReportOf(facts) = "NOT_SENT" => facts = "NOT_SENT")
    BY DEF ReportOf, ParentMessages
  <2> QED
    BY <2>1, HoldsFew
<1>8. facts = "NOT_SENT" => Harmless(g)'
  BY <1>1, <1>2, <1>3, <1>4, <1>5 DEF WireOK, PostsOK, Running, Harmless
<1>9. Holds(toParent'[g], "NOT_SENT") => Holds(toParent[g], "NOT_SENT") \/ Harmless(g)'
  BY <1>3, <1>7, <1>8, TellsAndReads
<1>10. ~Harmless(g) /\ ~IsEarly(w)
  BY <1>2 DEF Harmless, IsEarly
<1>11. MayWrite(g)' => MayWrite(g)
  BY <1>2, <1>3, <1>4, <1>5 DEF MayWrite, Running
<1> QED
  BY <1>1, <1>2, <1>3, <1>4, <1>5, <1>6, <1>9, <1>10, <1>11, WorkerKeeps

(* The document says what was reported. *)
LEMMA FinishSteps ==
    ASSUME JobTypes, WireEach, NEW g \in Grants, FinishRun(g)
    PROVE  WireOK(g)'
<1> DEFINE w == worker[g]
<1>1. WireOK(g) /\ w \in WorkerRecord /\ document \in [Grants -> {"NONE", "NOT_SENT", "SENT", "ANSWERED"}]
  BY DEF WireEach, JobTypes, JobTypeOK
<1>2. WorkerStep(g) /\ w.stage = "REPORTED" /\ Becomes(g, Exiting(w), toWorker[g]) /\ written' = written
  BY DEF FinishRun
<1>3. document'[g] = w.facts /\ w.facts # "NONE"
  BY <1>1, <1>2 DEF FinishRun, WireOK, PostsOK
<1>4. worker'[g] = Exiting(w) /\ \A m : Holds(toWorker'[g], m) => Holds(toWorker[g], m)
  BY <1>2, TellsAndReads
<1>5. Exiting(w).stage = "EXITING" /\ Exiting(w).post = "NONE"
  BY RecordTypes DEF Exiting, NoWorker
<1>6. Holds(toParent'[g], "NOT_SENT") => Holds(toParent[g], "NOT_SENT")
  <2>1. <<"RAN">> \in Seq(ParentMessages) /\ ~Holds(<<"RAN">>, "NOT_SENT")
    BY HoldsFew DEF ParentMessages
  <2>2. toParent' = toParent \/ toParent' = Told(g, <<"RAN">>)
    BY DEF FinishRun
  <2> QED
    BY <2>1, <2>2, TellsAndReads
<1>7. job' = job /\ start' = start /\ todo' = todo
  BY <1>2 DEF WorkerStep, serverVars
<1>8. PostsOK(g)'
  BY <1>4, <1>5 DEF PostsOK, Running
<1>9. ReportsOK(g)'
  <2>1. SaysNotSent(g)' => SaysNotSent(g)
    BY <1>6, <1>7 DEF SaysNotSent
  <2>2. Harmless(g) => Harmless(g)'
    BY <1>2, <1>4, <1>5 DEF Harmless
  <2>3. (w.facts = "NOT_SENT" => written[g] = 0) /\ (w.facts = "ANSWERED" => written[g] = 1)
    BY <1>1, <1>2 DEF WireOK, PostsOK, Running
  <2> QED
    BY <1>1, <1>2, <1>3, <1>4, <1>5, <2>1, <2>2, <2>3 DEF WireOK, ReportsOK
<1>10. OrdersOK(g)'
  <2>1. MayWrite(g)' => MayWrite(g)
    BY <1>2, <1>4, <1>5 DEF MayWrite, Running
  <2>2. ~IsEarly(w)
    BY <1>2 DEF IsEarly
  <2> QED
    BY <1>1, <1>7, <2>1, <2>2 DEF WireOK, OrdersOK, IsTracked
<1>11. StagesOK(g)'
  BY <1>1, <1>2, <1>4, <1>5, <1>7 DEF WireOK, StagesOK, Starting
<1> QED
  BY <1>8, <1>9, <1>10, <1>11 DEF WireOK

(* To a grant a step is one of the manager, its fork, or one of its worker. *)
WorkerMoves(g) == RunSteps(g) \/ TakeSignal(g) \/ WorkerDies(g)

(* That these are all the steps there are.                                   *)
LEMMA WireMoves ==
    ASSUME JobTypes, RowsOK, OnePostEach, OwnedJobs, WireEach, [JobNext]_allVars, NEW h \in Grants
    PROVE  ManagerMoves(h) \/ (\E at \in Times : Launch(h, at)) \/ WorkerMoves(h)
<1>1. CASE UNCHANGED allVars
  BY <1>1, Untouched DEF allVars, jobVars, serverVars, workerVars, WireEach, WireOK, StagesOK, Starting
<1>2. CASE StoreHandlers \/ Commits \/ StartOtherJob \/ Crash \/ Restart
  BY <1>2, ScreenMoves, CommitMoves, ServerMoves
<1>3. ASSUME NEW g \in Grants, StopJob(g)
      PROVE  ManagerMoves(h)
  BY <1>3, StopMoves DEF StopJob
<1>4. ASSUME NEW g \in Grants, StartSteps(g)
      PROVE  ManagerMoves(h) \/ \E at \in Times : Launch(h, at)
  BY <1>4, StartMoves, LaunchWire
<1>5. ASSUME NEW g \in Grants, ReceiveSteps(g) \/ AnswerSteps(g) \/ Timeout(g) \/ ExitSteps(g)
      PROVE  ManagerMoves(h)
  BY <1>5, ReceiveMoves, AnswerMoves, TimeoutMoves, ExitMoves
<1>6. ASSUME NEW g \in Grants, WorkerMoves(g)
      PROVE  ManagerMoves(h) \/ WorkerMoves(h)
  BY <1>6, WorkerOthers DEF WorkerMoves
<1> QED
  BY <1>1, <1>2, <1>3, <1>4, <1>5, <1>6 DEF JobNext, GrantSteps, WorkerMoves

(* Every step of the system keeps what is known of the wire. *)
LEMMA WireStep ==
    JobTypes /\ RowsOK /\ OnePostEach /\ OwnedJobs /\ WireEach /\ [JobNext]_allVars => WireEach'
<1> SUFFICES ASSUME JobTypes, RowsOK, OnePostEach, OwnedJobs, WireEach, [JobNext]_allVars, NEW g \in Grants
             PROVE  WireOK(g)'
  BY DEF WireEach
<1>1. WorkerMoves(g) => WireOK(g)'
  BY StageSteps, OrderSteps, PostSteps, EndSteps, ReportSteps, FinishSteps DEF WorkerMoves, RunSteps
<1> QED
  BY <1>1, WireMoves, LaunchWire, ManagerKeeps DEF WireEach

(* The rows of the store stay in order in a behaviour of the job. *)
LEMMA JobRows == JobSpec => [](JobTypes /\ TypeOK /\ RowsOK /\ OnePostEach /\ OwnedJobs)
<1>1. JobSpec => []TypeOK
  BY JobImplementsStore, TypeCorrect, PTL
<1>2. JobSpec => []RowsOK
  <2>1. Spec => []RowsOK
    BY TypeInit, TypeStep, RowsInit, RowsStep, PTL DEF Spec
  <2> QED
    BY <2>1, JobImplementsStore, PTL
<1> QED
  BY <1>1, <1>2, JobTypesInit, JobTypesStep, OnePostInit, OnePostStep, OwnedInit, OwnedStep, PTL DEF JobSpec

(* While the server that started a job is there, bytes are on the wire only *)
(* if it answered the recheck with yes, and never for a write it refused:   *)
(* however the messages of server and worker cross.                         *)
THEOREM WrittenOnlyIfAllowedHolds == JobSpec => []WrittenOnlyIfAllowed
<1>1. JobTypes /\ WireEach => WrittenOnlyIfAllowed
  BY DEF WireEach, WireOK, OrdersOK, MayWrite, WrittenOnlyIfAllowed
<1> QED
  BY <1>1, JobRows, WireInit, WireStep, PTL DEF JobSpec

-----------------------------------------------------------------------------
(* The settlement *)

(* What was settled as not sent is not and will not be on the wire, and     *)
(* what was settled as sent is: no worker is left to change it.             *)
SettledOK(g) ==
    /\ reservation[g].state = "RELEASED" => worker[g].stage \in {"NONE", "GONE"} /\ written[g] = 0
    /\ reservation[g].state = "COMMITTED" => worker[g].stage = "GONE" /\ written[g] = 1

SettledEach == \A g \in Grants : SettledOK(g)

(* A step that settles g does so in accordance with the wire. *)
SettlesTruly(g) ==
    \/ reservation'[g].state \in {reservation[g].state, "RESERVED", "UNKNOWN"}
    \/ reservation'[g].state = "RELEASED" /\ worker[g].stage \in {"NONE", "GONE"} /\ written[g] = 0
    \/ reservation'[g].state = "COMMITTED" /\ worker[g].stage = "GONE" /\ written[g] = 1

(* A grant that was never consumed has no worker. *)
LEMMA OpenUnwritten ==
    ASSUME RowsOK, OnePostEach, NEW g \in Grants, IsOpen(g)
    PROVE  worker[g].stage = "NONE" /\ written[g] = 0
<1>1. ~HasResult(g)
  BY DEF RowsOK, RowOK, IsOpen, IsConsumed
<1> QED
  BY <1>1 DEF OnePostEach, OnePost

(* Giving back open grants, one by one or all at once *)
LEMMA ReleaseOfOpen ==
    ASSUME RowsOK, OnePostEach, NEW gs \in SUBSET OpenGrants, NEW at, reservation' = GrantsReleased(gs, at), NEW h \in Grants
    PROVE  SettlesTruly(h)
<1>1. CASE h \in gs
  <2>1. worker[h].stage = "NONE" /\ written[h] = 0
    BY <1>1, OpenUnwritten DEF OpenGrants
  <2> QED
    BY <1>1, <2>1 DEF GrantsReleased, SettlesTruly
<1>2. CASE h \notin gs
  BY <1>2 DEF GrantsReleased, SettlesTruly
<1> QED
  BY <1>1, <1>2

(* The closing of a write that has no worker *)
LEMMA CloseWithoutWorker ==
    ASSUME TypeOK, RowsOK, OnePostEach, NEW g \in Grants, NEW at, CloseWriteWithoutSending(g, at),
           worker[g].stage \in {"NONE", "GONE"}, written[g] = 0, NEW h \in Grants
    PROVE  SettlesTruly(h)
<1>1. CASE ~IsConsumed(g)
  <2>1. {g} \in SUBSET OpenGrants
    BY <1>1 DEF CloseWriteWithoutSending, IsClosable, OpenGrants, IsOpen, IsConsumed
  <2> QED
    BY <1>1, <2>1, ReleaseOfOpen DEF CloseWriteWithoutSending
<1>2. CASE reservation' = [reservation EXCEPT ![g] = ClosedReservation(g, "RELEASED", at)]
  BY <1>2 DEF ClosedReservation, SettlesTruly, TypeOK
<1> QED
  BY <1>1, <1>2 DEF CloseWriteWithoutSending

(* A grant that is given back unused has not been written.                   *)
LEMMA ReleaseUnused ==
    ASSUME TypeOK, RowsOK, OnePostEach, NEW g \in Grants, NEW at, ReleaseUnusedGrant(g, at), NEW h \in Grants
    PROVE  SettlesTruly(h)
<1>1. CASE IsOpen(g)
  BY <1>1, OpenUnwritten, CloseWithoutWorker DEF ReleaseUnusedGrant, SettlesTruly, vars
<1>2. CASE ~IsOpen(g)
  BY <1>2 DEF ReleaseUnusedGrant, SettlesTruly, vars
<1> QED
  BY <1>1, <1>2

(* The handlers of the screens give back open grants only. *)
LEMMA ScreenSettles ==
    ASSUME TypeOK, RowsOK, OnePostEach, StoreHandlers, NEW h \in Grants
    PROVE  SettlesTruly(h)
<1>1. CASE UNCHANGED reservation
  BY <1>1 DEF SettlesTruly
<1>2. CASE ChangeScenario
  BY <1>1, <1>2 DEF ChangeScenario, CreateScenario, ApproveScenario, grantVars
<1>3. ASSUME NEW s \in Scenarios, NEW at \in Times, InvalidateApproval(s, at)
      PROVE  SettlesTruly(h)
  <2>1. CASE ReviseScenario(s, at)
    BY <1>1, <2>1 DEF ReviseScenario, grantVars
  <2>2. CASE RevokeScenarioApproval(s, at)
    BY <2>2, ReleaseOfOpen DEF RevokeScenarioApproval, OpenGrantsOf
  <2> QED
    BY <1>3, <2>1, <2>2 DEF InvalidateApproval
<1>4. ASSUME NEW g \in Grants, NEW s \in Scenarios, NEW seen \in Facts, NEW at \in Times, IssueAndStart(g, s, seen, at)
      PROVE  SettlesTruly(h)
  <2>1. RowIssued(h) \/ (IsOpen(h) /\ RowWithdrawn(h)) \/ RowKept(h)
    BY <1>4, IssueMoves DEF IssueAndStart
  <2>2. CASE RowIssued(h)
    BY <2>2 DEF RowIssued, SettlesTruly
  <2>3. CASE IsOpen(h) /\ RowWithdrawn(h)
    <3>1. worker[h].stage = "NONE" /\ written[h] = 0
      BY <2>3, OpenUnwritten
    <3>2. reservation'[h].state \in {"RELEASED", reservation[h].state}
      BY <2>3 DEF RowWithdrawn
    <3> QED
      BY <3>1, <3>2 DEF SettlesTruly
  <2>4. CASE RowKept(h)
    BY <2>4 DEF RowKept, SettlesTruly
  <2> QED
    BY <2>1, <2>2, <2>3, <2>4
<1> QED
  BY <1>2, <1>3, <1>4 DEF StoreHandlers

(* A start that is refused or given up has no worker; orphans are unknown.  *)
LEMMA StartSettles ==
    ASSUME TypeOK, RowsOK, OnePostEach, NEW g \in Grants, StartSteps(g), NEW h \in Grants
    PROVE  SettlesTruly(h)
<1>1. CASE UNCHANGED reservation
  BY <1>1 DEF SettlesTruly
<1>2. ASSUME NEW at \in Times, RejectStart(g, at)
      PROVE  SettlesTruly(h)
  BY <1>2, ReleaseUnused DEF RejectStart
<1>3. ASSUME NEW at \in Times, ConsumeExpiredGrant(g, at)
      PROVE  SettlesTruly(h)
  BY <1>3, ReleaseOfOpen DEF ConsumeExpiredGrant, OpenGrants
<1>4. UNCHANGED reservation \/ \E at \in Times : RejectStart(g, at) \/ ConsumeExpiredGrant(g, at)
  BY DEF StartSteps, ReconcileBeforeRow, InterruptUnowned, FailPreparation, Launch, FailLaunch, RecordWriteAttempt, Consume,
         ConsumeExecutionGrant, vars
<1> QED
  BY <1>1, <1>2, <1>3, <1>4

(* The transactions that a handler commits later settle truly.               *)
LEMMA CommitSettles ==
    ASSUME JobTypes, TypeOK, RowsOK, OnePostEach, WireEach, Commits, NEW h \in Grants
    PROVE  SettlesTruly(h)
<1>1. CASE UNCHANGED reservation
  BY <1>1 DEF SettlesTruly
<1>2. CASE CommitEndRow
  BY <1>1, <1>2 DEF CommitEndRow, vars
<1>3. ASSUME NEW at \in Times, CommitCloseOrphans(at)
      PROVE  SettlesTruly(h)
  <2>1. CASE CloseOrphanedWriteResults(ActiveJobs, at)
    BY <2>1 DEF CloseOrphanedWriteResults, ClosedReservation, SettlesTruly
  <2> QED
    BY <1>1, <1>3, <2>1 DEF CommitCloseOrphans, vars
<1>4. ASSUME NEW at \in Times, CommitCreateRow(at)
      PROVE  SettlesTruly(h)
  <2>1. todo[1].grant \in Grants
    BY <1>4, ProceedTypes DEF CommitCreateRow
  <2> QED
    BY <1>1, <1>4, <2>1, ReleaseUnused DEF CommitCreateRow, vars
<1>5. ASSUME NEW at \in Times, CommitCloseUnsent(at)
      PROVE  SettlesTruly(h)
  <2>1. todo \in Errands /\ todo # <<>> /\ todo[1].op = "CLOSE_UNSENT"
    BY <1>5 DEF JobTypes, JobTypeOK, CommitCloseUnsent, Proceed
  <2>2. PICK g \in Grants : todo = <<CloseUnsent(g), EndRow(g, "FAILED")>>
    BY <2>1 DEF Errands, CloseOrphans, CreateRow, CloseUnsent, EndRow
  <2>3. todo[1].grant = g /\ Starting(g)
    BY <2>2 DEF CloseUnsent, Starting
  <2>4. worker[g].stage = "NONE" /\ written[g] = 0
    BY <2>3 DEF WireEach, WireOK, StagesOK, PostsOK
  <2> QED
    BY <1>1, <1>5, <2>3, <2>4, CloseWithoutWorker DEF CommitCloseUnsent, vars
<1> QED
  BY <1>2, <1>3, <1>4, <1>5 DEF Commits

(* The worker has gone by the time its report, its document or its silence  *)
(* is settled.                                                              *)
LEMMA ExitSettles ==
    ASSUME JobTypes, TypeOK, RowsOK, OnePostEach, OwnedJobs, WireEach, NEW g \in Grants, ExitSteps(g), NEW h \in Grants
    PROVE  SettlesTruly(h)
<1>1. CASE UNCHANGED reservation
  BY <1>1 DEF SettlesTruly
<1>2. CASE SeeProcessExit(g) \/ EndDrain(g)
  BY <1>1, <1>2 DEF SeeProcessExit, EndDrain, vars
<1>3. ASSUME NEW at \in Times, RecordExit(g, at)
      PROVE  SettlesTruly(h)
  <2>1. WireOK(g) /\ job[g].ipc = "CLOSED" /\ IsTracked(g)
    BY <1>3 DEF RecordExit, WireEach, OwnedJobs
  <2>2. worker[g].stage = "GONE"
    BY <2>1 DEF WireOK, StagesOK
  <2>3. ASSUME NEW submission, NEW responded, SettleOrLog(g, submission, responded, at),
               submission = "NOT_SENT" /\ ~responded => written[g] = 0, submission = "SENT" /\ responded => written[g] = 1
        PROVE  SettlesTruly(h)
    <3>1. CASE UNCHANGED vars
      BY <1>1, <3>1 DEF vars
    <3>2. CASE SettleWriteResult(g, submission, responded, at)
      <4>1. PICK to : /\ to = ReservationSettlementOf(submission, responded)
                      /\ reservation' = [reservation EXCEPT ![g] = [state |-> to, settledAt |-> Later(at, grant[g].issuedAt)]]
        BY <3>2 DEF SettleWriteResult
      <4>2. (to = "RELEASED" => written[g] = 0) /\ (to = "COMMITTED" => written[g] = 1) /\ to \in {"RELEASED", "COMMITTED", "UNKNOWN"}
        BY <2>3, <4>1 DEF ReservationSettlementOf
      <4>3. CASE h = g
        BY <2>2, <4>1, <4>2, <4>3 DEF SettlesTruly, TypeOK
      <4>4. CASE h # g
        BY <4>1, <4>4 DEF SettlesTruly, TypeOK
      <4> QED
        BY <4>3, <4>4
    <3> QED
      BY <2>3, <3>1, <3>2 DEF SettleOrLog
  <2>4. PICK fromDocument : SettleWrite(g, fromDocument, at)
    BY <1>3 DEF RecordExit
  <2>5. CASE ~job[g].startSent
    <3>1. written[g] = 0
      BY <2>1, <2>5 DEF WireOK, OrdersOK
    <3> QED
      BY <1>1, <2>2, <2>4, <2>5, <3>1, CloseWithoutWorker DEF SettleWrite, vars
  <2>6. CASE SettleOrLog(g, ReportOf(document[g]), document[g] = "ANSWERED", at)
    <3> DEFINE answered == document[g] = "ANSWERED"
    <3>1. ReportOf(document[g]) = "NOT_SENT" => written[g] = 0
      BY <2>1 DEF ReportOf, WireOK, ReportsOK
    <3>2. answered => written[g] = 1
      BY <2>1 DEF WireOK, ReportsOK
    <3> HIDE DEF answered
    <3> QED
      BY <2>3, <2>6, <3>1, <3>2 DEF answered
  <2>7. CASE SettleOrLog(g, FallbackReport(g), FALSE, at)
    <3>1. FallbackReport(g) = "NOT_SENT" => written[g] = 0
      BY <2>1 DEF FallbackReport, WireOK, ReportsOK, SaysNotSent, Harmless
    <3> QED
      BY <2>3, <2>7, <3>1
  <2> QED
    BY <2>4, <2>5, <2>6, <2>7 DEF SettleWrite
<1> QED
  BY <1>2, <1>3 DEF ExitSteps

(* Every step settles truly, and no worker comes back to change a wire that *)
(* was settled.                                                             *)
LEMMA SettledStep ==
    JobTypes /\ TypeOK /\ RowsOK /\ OnePostEach /\ OwnedJobs /\ WireEach /\ SettledEach /\ [JobNext]_allVars => SettledEach'
<1> SUFFICES ASSUME JobTypes, TypeOK, RowsOK, OnePostEach, OwnedJobs, WireEach, SettledEach, [JobNext]_allVars,
                    NEW h \in Grants
             PROVE  SettledOK(h)'
  BY DEF SettledEach
<1>1. SettledOK(h) /\ worker[h] \in WorkerRecord
  BY DEF SettledEach, JobTypes, JobTypeOK
<1>2. SettlesTruly(h)
  <2>1. ASSUME UNCHANGED vars
        PROVE  SettlesTruly(h)
    BY <2>1 DEF vars, SettlesTruly
  <2>2. UNCHANGED allVars \/ StartOtherJob \/ Crash \/ Restart => UNCHANGED vars
    BY DEF allVars, StartOtherJob, Crash, Restart, InterruptUnowned
  <2>3. ASSUME NEW g \in Grants, StopJob(g) \/ ReceiveSteps(g) \/ AnswerSteps(g) \/ Timeout(g)
        PROVE  UNCHANGED vars
    BY <2>3 DEF StopJob, ReceiveSteps, Receives, ReceiveDecided, ReceiveReady, ReceiveRunStarted, ReceiveRecheckRequest,
                ReceiveSubmission, ReceiveFinished, ReceiveFailed, AnswerSteps, AllowWrite, RefuseWrite, Timeout, EndAndKill
  <2>4. ASSUME NEW g \in Grants, RunSteps(g) \/ TakeSignal(g) \/ WorkerDies(g)
        PROVE  UNCHANGED vars
    BY <2>4 DEF RunSteps, BecomeReady, TakeStart, TakeStop, TakeRecheckResult, TakeLateResult, StartRun, SkipRun, EnterStage,
                RequestRecheck, TimeOutRecheck, AdmitPost, WritePost, SettlePost, CloseContext, ReportSubmission, Reports,
                FailRun, FinishRun, TakeSignal, WorkerDies, WorkerBecomes, WorkerStep, TakesMessage, Goes
  <2> QED
    BY <2>1, <2>2, <2>3, <2>4, ScreenSettles, CommitSettles, StartSettles, ExitSettles DEF JobNext, GrantSteps
<1>3. CASE ManagerMoves(h)
  <2>1. worker'[h].stage = worker[h].stage /\ written'[h] = written[h]
    BY <1>1, <1>3 DEF ManagerMoves, Signalled, WorkerRecord
  <2> QED
    BY <1>1, <1>2, <2>1 DEF SettledOK, SettlesTruly
<1>4. ASSUME NEW at \in Times, Launch(h, at)
      PROVE  SettledOK(h)'
  BY <1>4 DEF Launch, RecordWriteAttempt, IsInFlight, SettledOK
<1>5. CASE WorkerMoves(h)
  <2>1. worker[h].stage \notin {"NONE", "GONE"} /\ UNCHANGED vars
    BY <1>5 DEF WorkerMoves, RunSteps, BecomeReady, TakeStart, TakeStop, TakeRecheckResult, TakeLateResult, StartRun, SkipRun,
                EnterStage, RequestRecheck, TimeOutRecheck, AdmitPost, WritePost, SettlePost, CloseContext,
                ReportSubmission, Reports, FailRun, FinishRun, TakeSignal, WorkerDies, WorkerBecomes, WorkerStep,
                TakesMessage, Goes, IsAlive
  <2> QED
    BY <1>1, <2>1 DEF SettledOK, vars
<1> QED
  BY <1>3, <1>4, <1>5, WireMoves

(* Nothing is settled at first. *)
LEMMA SettledInit == JobInit => SettledEach
  BY DEF JobInit, Init, NoReservation, SettledEach, SettledOK

(* What the store finally says of a write is true of the wire: a slot is    *)
(* given back only if nothing was written and nothing will be, and counts   *)
(* as spent for good only if the submission was written - across lost       *)
(* reports, stops, exits before START and the death of either process.      *)
THEOREM SettlementMatchesWireHolds == JobSpec => []SettlementMatchesWire
<1>1. SettledEach => SettlementMatchesWire
  BY DEF SettledEach, SettledOK, SettlementMatchesWire
<1> QED
  BY <1>1, JobRows, WireInit, WireStep, SettledInit, SettledStep, PTL DEF JobSpec

(* What is proved of the store holds of the store a job manager uses: the   *)
(* schema's checks, the completeness of a revocation, the rate of writes,   *)
(* and the one slot.                                                        *)
THEOREM JobKeepsStorePromises ==
    JobSpec => [](SchemaChecksHold /\ RevocationIsComplete /\ WritesKeepTheRate) /\ ImplementsWriteSlot
  BY JobImplementsStore, SchemaChecksAlwaysHold, RevocationIsAlwaysComplete, WritesAlwaysKeepTheRate,
     ImplementsWriteSlotHolds, PTL

-----------------------------------------------------------------------------
(* The decision before the end *)

(* The clock by which the end of a job is settled is not behind the record  *)
(* of the attempt: no setting back of the clock falls between the two.      *)
RecordsInTime(g) ==
    (\E at \in Times : RecordExit(g, at)) => \E at \in Times : at >= result[g].recordedAt /\ RecordExit(g, at)

ClockNotSetBack == [][\A g \in Grants : RecordsInTime(g)]_allVars

(* The running handler closes orphans next. *)
Sweeps == todo = <<CloseOrphans>> \/ \E g \in Grants : todo = <<CloseOrphans, CreateRow(g)>>

(* The running handler has a row to make for g. *)
MakesRow(g) == todo = <<CreateRow(g)>> \/ todo = <<CloseOrphans, CreateRow(g)>>

(* An open grant holds its reservation, and a held one has no result yet.   *)
HoldsWhole(g) ==
    /\ IsOpen(g) => reservation[g].state = "RESERVED"
    /\ reservation[g].state = "RESERVED" => ~IsResultSettled(g)

(* A row that ended has no write left undecided, except the row of a dead   *)
(* server, whose write waits for the sweep that follows the interruption;   *)
(* a handler about to end a row has decided its write.  A grant has a start *)
(* or a row only once it was issued, so nothing opens behind a row.         *)
DecidedOK(g) ==
    /\ row[g] # "NONE" \/ start[g] # "NONE" \/ MakesRow(g) => IsIssued(g)
    /\ HoldsWhole(g)
    /\ row[g] \in {"FINISHED", "FAILED"} => ~IsBusy(g)
    /\ row[g] = "INTERRUPTED" /\ IsInFlight(g) => ~up \/ Sweeps
    /\ \A state \in EndStates : todo = <<EndRow(g, state)>> => ~IsBusy(g)

DecidedEach == \A g \in Grants : DecidedOK(g)

(* A transaction other than the consumption keeps an open grant with its    *)
(* reservation, or withdraws it.                                            *)
LEMMA OpenStep ==
    ASSUME TypeOK, RowsOK, NEW h \in Grants, IsOpen(h),
           \/ UNCHANGED <<grant, reservation>>
           \/ \E s \in Scenarios, at \in Times : RevokeScenarioApproval(s, at)
           \/ \E g \in Grants, s \in Scenarios, seen \in Facts, at \in Times : IssueExecutionGrant(g, s, seen, at)
           \/ \E g \in Grants, at \in Times : ConsumeExpiredGrant(g, at) \/ CloseWriteWithoutSending(g, at)
           \/ \E g \in Grants : \E submission, responded, at : SettleWriteResult(g, submission, responded, at)
           \/ \E active, at : CloseOrphanedWriteResults(active, at)
    PROVE  \/ grant'[h] = grant[h] /\ reservation'[h] = reservation[h]
           \/ ~IsOpen(h)' /\ ~IsConsumed(h)'
<1>1. RowKept(h) => grant'[h] = grant[h] /\ reservation'[h] = reservation[h]
  BY DEF RowKept
<1>2. RowWithdrawn(h) => ~IsOpen(h)' /\ ~IsConsumed(h)'
  BY RowTypes DEF RowWithdrawn, IsOpen, IsConsumed, IsIssued, GrantRow
<1>3. ASSUME NEW gs \in SUBSET OpenGrants, NEW at \in Times, result'[h] = result[h],
             grant' = GrantsInvalidated(gs, at), reservation' = GrantsReleased(gs, at)
      PROVE  RowKept(h) \/ RowWithdrawn(h)
  BY <1>3, InvalidationMoves
<1>4. ASSUME NEW s \in Scenarios, NEW at \in Times, RevokeScenarioApproval(s, at)
      PROVE  RowKept(h) \/ RowWithdrawn(h)
  BY <1>3, <1>4 DEF RevokeScenarioApproval, OpenGrantsOf
<1>5. ASSUME NEW g \in Grants, NEW s \in Scenarios, NEW seen \in Facts, NEW at \in Times, IssueExecutionGrant(g, s, seen, at)
      PROVE  RowKept(h) \/ RowWithdrawn(h)
  <2>1. h # g
    BY <1>5 DEF IssueExecutionGrant, IsOpen
  <2> QED
    BY <1>5, <2>1, IssueMoves
<1>6. ASSUME NEW g \in Grants, NEW at \in Times, ConsumeExpiredGrant(g, at)
      PROVE  RowKept(h) \/ RowWithdrawn(h)
  <2>1. {g} \in SUBSET OpenGrants
    BY <1>6 DEF ConsumeExpiredGrant, OpenGrants
  <2> QED
    BY <1>3, <1>6, <2>1 DEF ConsumeExpiredGrant
<1>7. ASSUME NEW g \in Grants, NEW at \in Times, CloseWriteWithoutSending(g, at)
      PROVE  RowWithdrawn(h) \/ (grant'[h] = grant[h] /\ reservation'[h] = reservation[h])
  <2>1. CASE IsConsumed(g)
    <3>1. h # g
      BY <2>1 DEF IsOpen, IsConsumed
    <3> QED
      BY <1>7, <2>1, <3>1 DEF CloseWriteWithoutSending, TypeOK
  <2>2. CASE ~IsConsumed(g)
    <3>1. {g} \in SUBSET OpenGrants
      BY <1>7, <2>2 DEF CloseWriteWithoutSending, IsClosable, OpenGrants, IsOpen, IsConsumed
    <3> QED
      BY <1>1, <1>3, <1>7, <2>2, <3>1 DEF CloseWriteWithoutSending
  <2> QED
    BY <2>1, <2>2
<1>8. ASSUME NEW g \in Grants, NEW submission, NEW responded, NEW at, SettleWriteResult(g, submission, responded, at)
      PROVE  grant'[h] = grant[h] /\ reservation'[h] = reservation[h]
  <2>1. h # g
    BY <1>8 DEF SettleWriteResult, IsSettleable, RowsOK, RowOK, IsOpen, IsConsumed
  <2> QED
    BY <1>8, <2>1 DEF SettleWriteResult, TypeOK
<1>9. ASSUME NEW active, NEW at, CloseOrphanedWriteResults(active, at)
      PROVE  grant'[h] = grant[h] /\ reservation'[h] = reservation[h]
  <2>1. h \notin OrphanedGrants(active)
    BY DEF OrphanedGrants, IsInFlight, IsOpen, IsConsumed
  <2> QED
    BY <1>9, <2>1 DEF CloseOrphanedWriteResults
<1> QED
  BY <1>1, <1>2, <1>4, <1>5, <1>6, <1>7, <1>8, <1>9

(* A job consumes a grant only where its start waits for that, and gives    *)
(* back no reservation of a grant it leaves open.                           *)
LEMMA OpenJobStep ==
    ASSUME JobTypes, TypeOK, RowsOK, [JobNext]_allVars, NEW h \in Grants, IsOpen(h)
    PROVE  \/ grant'[h] = grant[h] /\ reservation'[h] = reservation[h]
           \/ ~IsOpen(h)' /\ ~IsConsumed(h)'
           \/ start[h] = "CONSUMING" /\ IsConsumed(h)'
<1>1. CASE UNCHANGED vars
  BY <1>1 DEF vars
<1>2. UNCHANGED allVars \/ StartOtherJob \/ Crash \/ Restart => UNCHANGED vars
  BY DEF allVars, StartOtherJob, Crash, Restart, InterruptUnowned
<1>3. CASE StoreHandlers
  BY <1>3, OpenStep DEF StoreHandlers, ChangeScenario, InvalidateApproval, IssueAndStart, CreateScenario, ApproveScenario,
              ReviseScenario, grantVars
<1>4. CASE Commits
  <2>1. todo # <<>> /\ todo[1].op # "CLOSE_ORPHANS" => todo[1].grant \in Grants
    BY ErrandTypes DEF JobTypes, JobTypeOK
  <2>2. CASE CommitEndRow
    BY <1>1, <2>2 DEF CommitEndRow
  <2>3. ASSUME NEW at \in Times, CommitCloseOrphans(at)
        PROVE  UNCHANGED vars \/ CloseOrphanedWriteResults(ActiveJobs, at)
    BY <2>3 DEF CommitCloseOrphans
  <2>4. ASSUME NEW at \in Times, CommitCreateRow(at) \/ CommitCloseUnsent(at)
        PROVE  UNCHANGED vars \/ \E g \in Grants : CloseWriteWithoutSending(g, at)
    BY <2>1, <2>4 DEF CommitCreateRow, CommitCloseUnsent, Proceed, ReleaseUnusedGrant
  <2> QED
    BY <1>1, <1>4, <2>2, <2>3, <2>4, OpenStep DEF Commits
<1>5. ASSUME NEW g \in Grants, StartSteps(g)
      PROVE  \/ grant'[h] = grant[h] /\ reservation'[h] = reservation[h]
             \/ ~IsOpen(h)' /\ ~IsConsumed(h)'
             \/ start[h] = "CONSUMING" /\ IsConsumed(h)'
  <2>1. ASSUME NEW seen \in Facts, NEW at \in Times, Consume(g, seen, at)
        PROVE  \/ grant'[h] = grant[h] /\ reservation'[h] = reservation[h]
               \/ start[h] = "CONSUMING" /\ IsConsumed(h)'
    <3>1. at # Null
      BY RowTypes
    <3> QED
      BY <2>1, <3>1 DEF Consume, ConsumeExecutionGrant, IsConsumed, TypeOK, GrantRow
  <2>2. ASSUME NEW at \in Times, RejectStart(g, at)
        PROVE  UNCHANGED vars \/ CloseWriteWithoutSending(g, at)
    BY <2>2 DEF RejectStart, ReleaseUnusedGrant
  <2>3. ASSUME NEW at \in Times, Launch(g, at) \/ FailLaunch(g, at)
        PROVE  UNCHANGED <<grant, reservation>>
    BY <2>3 DEF Launch, FailLaunch, RecordWriteAttempt
  <2>4. CASE ReconcileBeforeRow(g) \/ FailPreparation(g)
    BY <1>1, <2>4, OpenStep DEF ReconcileBeforeRow, InterruptUnowned, FailPreparation
  <2> QED
    BY <1>1, <1>5, <2>1, <2>2, <2>3, <2>4, OpenStep DEF StartSteps
<1>6. ASSUME NEW g \in Grants, ExitSteps(g)
      PROVE  UNCHANGED vars \/ (\E at \in Times : CloseWriteWithoutSending(g, at))
                            \/ \E submission, responded, at : SettleWriteResult(g, submission, responded, at)
  BY <1>6 DEF ExitSteps, SeeProcessExit, EndDrain, RecordExit, SettleWrite, SettleOrLog
<1>7. ASSUME NEW g \in Grants, StopJob(g) \/ ReceiveSteps(g) \/ AnswerSteps(g) \/ Timeout(g)
      PROVE  UNCHANGED vars
  BY <1>7 DEF StopJob, ReceiveSteps, Receives, ReceiveDecided, ReceiveReady, ReceiveRunStarted, ReceiveRecheckRequest,
              ReceiveSubmission, ReceiveFinished, ReceiveFailed, AnswerSteps, AllowWrite, RefuseWrite, Timeout, EndAndKill
<1>8. ASSUME NEW g \in Grants, RunSteps(g) \/ TakeSignal(g) \/ WorkerDies(g)
      PROVE  UNCHANGED vars
  BY <1>8 DEF RunSteps, BecomeReady, TakeStart, TakeStop, TakeRecheckResult, TakeLateResult, StartRun, SkipRun, EnterStage,
              RequestRecheck, TimeOutRecheck, AdmitPost, WritePost, SettlePost, CloseContext, ReportSubmission, Reports, FailRun,
              FinishRun, TakeSignal, WorkerDies, WorkerBecomes, WorkerStep, TakesMessage, Goes
<1> QED
  BY <1>1, <1>2, <1>3, <1>4, <1>5, <1>6, <1>7, <1>8, OpenStep DEF JobNext, GrantSteps

(* What opens or is in flight was so before, unless the grant is new or its *)
(* start consumes it, and an open grant holds its reservation.              *)
LEMMA BusyStep ==
    ASSUME JobTypes, TypeOK, RowsOK, [JobNext]_allVars, NEW h \in Grants, HoldsWhole(h)
    PROVE  /\ IsIssued(h) => IsIssued(h)' /\ (IsBusy(h)' => IsBusy(h))
           /\ IsInFlight(h)' => IsInFlight(h) \/ start[h] = "CONSUMING"
           /\ HoldsWhole(h)'
<1> USE DEF IsBusy, IsOpen, IsInFlight, IsConsumed, IsIssued
<1>1. RowMoves(h) \/ RowIssued(h)
  <2>1. [Next]_vars
    BY StoreStep DEF JobTypes
  <2> QED
    BY <2>1, RowStep
<1>2. grant[h] \in GrantRow /\ reservation[h] \in ReservationRow /\ Null \notin Times
  BY RowTypes
<1>0. reservation'[h].state = "RESERVED" => ~IsResultSettled(h)'
  <2>1. RowMoves(h) /\ reservation'[h].state = "RESERVED" =>
            reservation[h].state = "RESERVED" /\ result'[h].settledAt = result[h].settledAt
    <3>1. CASE RowRecorded(h)
      <4>1. PICK t \in Times : result'[h] = [result[h] EXCEPT !.recordedAt = t]
        BY <3>1 DEF RowRecorded
      <4> QED
        BY <3>1, <4>1, RowTypes DEF RowRecorded, ResultRow
    <3>2. CASE RowKept(h) \/ RowConsumed(h)
      BY <3>2 DEF RowKept, RowConsumed
    <3>4. CASE RowWithdrawn(h)
      <4>1. PICK t \in Times : reservation'[h] = IF reservation[h].state = "RESERVED" THEN [state |-> "RELEASED", settledAt |-> t]
                                                 ELSE reservation[h]
        BY <3>4 DEF RowWithdrawn
      <4> QED
        BY <3>4, <4>1 DEF RowWithdrawn
    <3>3. CASE RowReleased(h) \/ RowSettled(h)
      <4>1. PICK to \in {"RELEASED", "COMMITTED", "UNKNOWN"}, t \in Times : reservation'[h] = [state |-> to, settledAt |-> t]
        BY <3>3 DEF RowReleased, RowSettled
      <4> QED
        BY <4>1
    <3> QED
      BY <3>1, <3>2, <3>3, <3>4 DEF RowMoves
  <2>2. RowIssued(h) => result'[h] = NoResult
    BY DEF RowIssued, RowsOK, RowOK
  <2> QED
    BY <1>1, <2>1, <2>2 DEF HoldsWhole, IsResultSettled, NoResult
<1>3. CASE RowIssued(h)
  <2>1. PICK s \in Scenarios, at \in Times :
              grant'[h] = [scenario |-> s, revision |-> scenario[s].revision, receipt |-> approval[s].receipt,
                           issuedAt |-> at, expiresAt |-> at + ExecutionGrantTtl, consumedAt |-> Null, invalidatedAt |-> Null]
    BY <1>3 DEF RowIssued
  <2> QED
    BY <1>0, <1>2, <1>3, <2>1 DEF RowIssued, HoldsWhole
<1>4. CASE IsOpen(h) /\ RowMoves(h)
  <2>1. IsIssued(h)'
    BY <1>2, <1>4 DEF RowMoves, RowKept, RowWithdrawn, RowConsumed, RowReleased, RowRecorded, RowSettled, GrantRow
  <2>2. \/ grant'[h] = grant[h] /\ reservation'[h] = reservation[h]
        \/ ~IsOpen(h)' /\ ~IsConsumed(h)'
        \/ start[h] = "CONSUMING" /\ IsConsumed(h)'
    <3> HIDE DEF IsBusy, IsOpen, IsInFlight, IsConsumed, IsIssued
    <3> QED
      BY <1>4, OpenJobStep
  <2> QED
    BY <1>0, <1>4, <2>1, <2>2 DEF HoldsWhole
<1>5. CASE ~IsOpen(h) /\ RowMoves(h)
  <2>1. grant'[h] = grant[h]
    BY <1>5 DEF RowMoves, RowKept, RowWithdrawn, RowConsumed, RowReleased, RowRecorded, RowSettled
  <2>2. reservation'[h].state = "RESERVED" => reservation[h].state = "RESERVED"
    BY <1>5 DEF RowMoves, RowKept, RowWithdrawn, RowConsumed, RowReleased, RowRecorded, RowSettled
  <2> QED
    BY <1>0, <1>5, <2>1, <2>2 DEF HoldsWhole
<1> QED
  BY <1>1, <1>3, <1>4, <1>5

(* Without errands nothing is swept, no row is made and none ends. *)
LEMMA NoErrands ==
    ASSUME todo = <<>>
    PROVE  ~Sweeps /\ \A g : ~MakesRow(g) /\ \A state : todo # <<EndRow(g, state)>>
<1>1. \A a, b : <<>> # <<a>> /\ <<>> # <<a, b>>
  OBVIOUS
<1> QED
  BY <1>1 DEF Sweeps, MakesRow

(* A step that ends no row, starts nothing new, and leaves or does errands  *)
(* that end none either.                                                    *)
LEMMA DecidedKept ==
    ASSUME JobTypes, TypeOK, RowsOK, OwnedJobs, [JobNext]_allVars, NEW h \in Grants, DecidedOK(h),
           row'[h] = row[h] \/ (row[h] \in ActiveStates /\ row'[h] \in ActiveStates),
           start'[h] # "NONE" => start[h] # "NONE" \/ MakesRow(h),
           MakesRow(h)' => start[h] # "NONE" \/ MakesRow(h),
           row[h] = "INTERRUPTED" /\ IsInFlight(h)' /\ (~up \/ Sweeps) => (~up \/ Sweeps)',
           \A state \in EndStates : todo' = <<EndRow(h, state)>> => ~IsBusy(h)'
    PROVE  DecidedOK(h)'
<1>1. /\ IsIssued(h) => IsIssued(h)' /\ (IsBusy(h)' => IsBusy(h))
      /\ IsInFlight(h)' => IsInFlight(h) \/ start[h] = "CONSUMING"
      /\ HoldsWhole(h)'
  BY BusyStep DEF DecidedOK
<1>2. (row[h] # "NONE" \/ start[h] # "NONE" \/ MakesRow(h) => IsIssued(h)) /\ (row[h] \in {"FINISHED", "FAILED"} => ~IsBusy(h))
  BY DEF DecidedOK
<1>3. start[h] = "CONSUMING" => row[h] \in ActiveStates
  BY DEF OwnedJobs, Owns, Prepares
<1>4. row'[h] # "NONE" \/ start'[h] # "NONE" \/ MakesRow(h)' => IsIssued(h)'
  BY <1>1, <1>2 DEF ActiveStates
<1>5. row'[h] \in {"FINISHED", "FAILED"} => ~IsBusy(h)'
  BY <1>1, <1>2 DEF ActiveStates
<1>6. row'[h] = "INTERRUPTED" /\ IsInFlight(h)' => (~up \/ Sweeps)'
  BY <1>1, <1>3 DEF ActiveStates, DecidedOK
<1> QED
  BY <1>1, <1>4, <1>5, <1>6 DEF DecidedOK

(* A handler that runs on to its end without errands.                       *)
LEMMA DecidedIdle ==
    ASSUME JobTypes, TypeOK, RowsOK, OwnedJobs, [JobNext]_allVars, NEW h \in Grants, DecidedOK(h), Idle, todo' = todo,
           row'[h] = row[h] \/ (row[h] \in ActiveStates /\ row'[h] \in ActiveStates), start'[h] # "NONE" => start[h] # "NONE"
    PROVE  DecidedOK(h)'
<1>1. todo = <<>> /\ todo' = <<>> /\ up
  BY DEF Idle
<1>2. ~Sweeps /\ ~MakesRow(h)
  BY <1>1, NoErrands
<1>3. ~MakesRow(h)' /\ \A state : todo' # <<EndRow(h, state)>>
  <2>1. MakesRow(h)' <=> MakesRow(h)
    BY DEF MakesRow
  <2> QED
    BY <1>1, <1>2, <2>1, NoErrands
<1> QED
  BY <1>1, <1>2, <1>3, DecidedKept

(* The screens, where nothing but a new grant has a new start.              *)
LEMMA DecidedScreen ==
    ASSUME JobTypes, TypeOK, RowsOK, OwnedJobs, StoreHandlers, NEW h \in Grants, DecidedOK(h)
    PROVE  DecidedOK(h)'
<1>1. JobNext
  BY DEF JobNext
<1>2. CASE ChangeScenario
  BY <1>1, <1>2, DecidedIdle DEF ChangeScenario, jobVars, serverVars
<1>3. ASSUME NEW s \in Scenarios, NEW at \in Times, InvalidateApproval(s, at)
      PROVE  DecidedOK(h)'
  <2>1. row'[h] = row[h] \/ (row[h] \in ActiveStates /\ row'[h] \in ActiveStates)
    BY <1>3 DEF InvalidateApproval, StopRequested, RowTo, ActiveStates
  <2> QED
    BY <1>1, <1>3, <2>1, DecidedIdle DEF InvalidateApproval
<1>4. ASSUME NEW g \in Grants, NEW s \in Scenarios, NEW seen \in Facts, NEW at \in Times, IssueAndStart(g, s, seen, at)
      PROVE  DecidedOK(h)'
  <2>1. start \in [Grants -> StartStates] /\ Idle /\ UNCHANGED <<todo, row, up>> /\ start' = [start EXCEPT ![g] = "RESOLVING"]
    BY <1>4 DEF IssueAndStart, JobTypes, JobTypeOK
  <2>2. CASE h # g
    BY <1>1, <2>1, <2>2, DecidedIdle
  <2>3. CASE h = g
    <3>1. ~IsIssued(h) /\ RowIssued(h)
      BY <1>4, <2>3, IssueMoves DEF IssueAndStart, IssueExecutionGrant
    <3>2. IsIssued(h)' /\ ~IsConsumed(h)' /\ HoldsWhole(h)'
      BY <3>1, RowTypes DEF RowIssued, IsIssued, IsConsumed, HoldsWhole, RowsOK, RowOK, IsResultSettled, NoResult
    <3>3. row'[h] = "NONE"
      BY <2>1, <3>1 DEF DecidedOK
    <3>4. \A state : todo' # <<EndRow(h, state)>>
      BY <2>1, NoErrands DEF Idle
    <3> QED
      BY <3>2, <3>3, <3>4 DEF DecidedOK, IsInFlight
  <2> QED
    BY <2>2, <2>3
<1> QED
  BY <1>2, <1>3, <1>4 DEF StoreHandlers

(* Interrupting rows is followed by the sweep that decides their writes.    *)
LEMMA DecidedInterrupt ==
    ASSUME JobTypes, TypeOK, RowsOK, OwnedJobs, [JobNext]_allVars, NEW h \in Grants, DecidedOK(h),
           NEW stale \in SUBSET UnownedJobs, NEW rest, InterruptUnowned(stale, rest), UNCHANGED start,
           rest = <<>> \/ \E g \in Grants : rest = <<CreateRow(g)>> /\ start[g] # "NONE"
    PROVE  DecidedOK(h)'
<1>1. todo' = <<CloseOrphans>> \/ \E g \in Grants : todo' = <<CloseOrphans, CreateRow(g)>> /\ start[g] # "NONE"
  BY PairOfErrands DEF InterruptUnowned
<1>2. Sweeps'
  BY <1>1 DEF Sweeps
<1>3. /\ MakesRow(h)' => start[h] # "NONE"
      /\ \A state : todo' # <<EndRow(h, state)>>
  <2>1. /\ <<CloseOrphans>> # <<CreateRow(h)>> /\ <<CloseOrphans>> # <<CloseOrphans, CreateRow(h)>>
        /\ \A g : <<CloseOrphans, CreateRow(g)>> # <<CreateRow(h)>>
        /\ \A g : <<CloseOrphans, CreateRow(g)>> = <<CloseOrphans, CreateRow(h)>> => g = h
        /\ \A state : <<EndRow(h, state)>> # <<CloseOrphans>> /\ \A g : <<EndRow(h, state)>> # <<CloseOrphans, CreateRow(g)>>
    <3>1. \A a, b, c : <<a>> # <<b, c>>
      OBVIOUS
    <3>2. \A a, b : <<a>> = <<b>> => a = b
      OBVIOUS
    <3>3. \A state : EndRow(h, state) # CloseOrphans
      BY DEF EndRow, CloseOrphans
    <3> QED
      BY <3>1, <3>2, <3>3, ErrandForms
  <2> QED
    BY <1>1, <2>1, Zenon DEF MakesRow
<1>4. UNCHANGED vars
  BY DEF InterruptUnowned
<1>5. (IsIssued(h)' <=> IsIssued(h)) /\ (IsBusy(h)' <=> IsBusy(h)) /\ (HoldsWhole(h)' <=> HoldsWhole(h))
  BY <1>4 DEF vars, IsBusy, IsOpen, IsInFlight, IsConsumed, IsIssued, HoldsWhole, IsResultSettled
<1>6. row'[h] = row[h] \/ (row[h] \in ActiveStates /\ row'[h] = "INTERRUPTED")
  BY DEF InterruptUnowned, UnownedJobs, ActiveJobs
<1> QED
  BY <1>2, <1>3, <1>5, <1>6 DEF DecidedOK, ActiveStates

(* A write that is open or in flight can be closed, and then is neither.    *)
LEMMA ClosingDecides ==
    ASSUME TypeOK, RowsOK, NEW g \in Grants, HoldsWhole(g), NEW at \in Times,
           IF IsClosable(g) THEN CloseWriteWithoutSending(g, at) ELSE UNCHANGED vars
    PROVE  ~IsBusy(g)'
<1>1. IsBusy(g) => IsClosable(g)
  BY RowTypes DEF IsBusy, IsOpen, IsInFlight, IsClosable, HoldsWhole, RowsOK, RowOK
<1>2. CASE ~IsClosable(g)
  BY <1>1, <1>2 DEF vars, IsBusy, IsOpen, IsInFlight, IsConsumed, IsIssued
<1>3. CASE IsClosable(g) /\ IsConsumed(g)
  <2>1. reservation'[g].state # "RESERVED" /\ grant'[g] = grant[g]
    BY <1>3 DEF CloseWriteWithoutSending, ClosedReservation, TypeOK
  <2> QED
    BY <1>3, <2>1 DEF IsBusy, IsOpen, IsInFlight, IsConsumed, IsIssued
<1>4. CASE IsClosable(g) /\ ~IsConsumed(g)
  <2>1. IsOpen(g) /\ {g} \in SUBSET OpenGrants
    BY <1>4 DEF IsClosable, IsOpen, IsConsumed, OpenGrants
  <2>2. RowWithdrawn(g)
    BY <1>4, <2>1, InvalidationMoves DEF CloseWriteWithoutSending
  <2> QED
    BY <2>1, <2>2, RowTypes DEF RowWithdrawn, GrantRow, IsBusy, IsOpen, IsInFlight, IsConsumed, IsIssued
<1> QED
  BY <1>2, <1>3, <1>4

(* The steps of a start, up to the launch of its worker.                    *)
LEMMA DecidedStart ==
    ASSUME JobTypes, TypeOK, RowsOK, OwnedJobs, NEW g \in Grants, StartSteps(g), NEW h \in Grants, DecidedOK(h)
    PROVE  DecidedOK(h)'
<1>1. JobNext
  BY DEF JobNext, GrantSteps
<1>2. start \in [Grants -> StartStates]
  BY DEF JobTypes, JobTypeOK
<1>3. CASE ReconcileBeforeRow(g)
  <2>1. PICK stale \in SUBSET UnownedJobs : InterruptUnowned(stale, <<CreateRow(g)>>)
    BY <1>3 DEF ReconcileBeforeRow
  <2>2. start[g] # "NONE" /\ UNCHANGED start
    BY <1>3 DEF ReconcileBeforeRow
  <2> QED
    BY <1>1, <2>1, <2>2, DecidedInterrupt
<1>4. CASE (\E at \in Times : RejectStart(g, at) \/ Launch(g, at)) \/ \E seen \in Facts, at \in Times : Consume(g, seen, at)
  <2>1. Idle /\ UNCHANGED <<todo, row>>
    BY <1>4 DEF RejectStart, Launch, Consume
  <2>2. start'[h] # "NONE" => start[h] # "NONE"
    BY <1>2, <1>4 DEF RejectStart, Launch, Consume
  <2> QED
    BY <1>1, <2>1, <2>2, DecidedIdle
<1>5. CASE FailPreparation(g) \/ \E at \in Times : FailLaunch(g, at)
  <2>1. Idle /\ GiveUpStart(g)
    BY <1>5 DEF FailPreparation, FailLaunch
  <2>2. todo' = <<CloseUnsent(g), EndRow(g, "FAILED")>> /\ UNCHANGED <<row, up>>
    BY <2>1 DEF GiveUpStart
  <2>3. start'[h] # "NONE" => start[h] # "NONE"
    BY <1>2, <2>1 DEF GiveUpStart
  <2>4. ~MakesRow(h)' /\ \A state : todo' # <<EndRow(h, state)>>
    BY <2>2, ErrandForms DEF MakesRow
  <2>5. up /\ ~Sweeps
    BY <2>1, NoErrands DEF Idle
  <2> QED
    BY <1>1, <2>2, <2>3, <2>4, <2>5, DecidedKept
<1> QED
  BY <1>3, <1>4, <1>5 DEF StartSteps

(* The transactions a handler has left: the sweep decides what interrupted  *)
(* jobs left in flight, and a write is closed before its row ends.          *)
LEMMA DecidedCommit ==
    ASSUME JobTypes, TypeOK, RowsOK, OwnedJobs, Commits, NEW h \in Grants, DecidedEach
    PROVE  DecidedOK(h)'
<1>1. JobNext /\ DecidedOK(h) /\ HoldsWhole(h)
  BY DEF JobNext, DecidedEach, DecidedOK
<1>2. up /\ todo # <<>> /\ todo \in Errands /\ todo' = Tail(todo) /\ UNCHANGED up
  BY DEF Commits, CommitEndRow, CommitCloseOrphans, CommitCreateRow, CommitCloseUnsent, Proceed, JobTypes, JobTypeOK
<1>3. start \in [Grants -> StartStates] /\ row \in [Grants -> {"NONE"} \cup ActiveStates \cup EndStates]
  BY DEF JobTypes, JobTypeOK
<1>4. MakesRow(h)' => MakesRow(h)
  BY <1>2, StartingTail DEF MakesRow, Starting
<1>5. ASSUME NEW g, NEW state
      PROVE  /\ Tail(<<CloseOrphans>>) = <<>> /\ Tail(<<CloseOrphans, CreateRow(g)>>) = <<CreateRow(g)>>
             /\ Tail(<<CreateRow(g)>>) = <<>> /\ Tail(<<EndRow(g, state)>>) = <<>>
             /\ Tail(<<CloseUnsent(g), EndRow(g, state)>>) = <<EndRow(g, state)>>
             /\ <<EndRow(g, state)>> # <<>>
  OBVIOUS
<1>6. CASE CommitEndRow
  <2>1. PICK g \in Grants, state \in EndStates : todo = <<EndRow(g, state)>>
    BY <1>2, <1>6 DEF CommitEndRow, Proceed, Errands, CloseOrphans, CreateRow, CloseUnsent, EndRow
  <2>2. todo' = <<>> /\ todo[1].grant = g /\ todo[1].state = state
    BY <1>2, <1>5, <2>1 DEF EndRow
  <2>3. row' = [row EXCEPT ![g] = RowTo(g, state)] /\ UNCHANGED <<vars, start>>
    BY <1>6, <2>2 DEF CommitEndRow
  <2>4. /\ (IsIssued(h)' <=> IsIssued(h)) /\ (IsBusy(h)' <=> IsBusy(h)) /\ (HoldsWhole(h)' <=> HoldsWhole(h))
        /\ IsInFlight(h)' <=> IsInFlight(h)
    BY <2>3 DEF vars, IsBusy, IsOpen, IsInFlight, IsConsumed, IsIssued, HoldsWhole, IsResultSettled
  <2>5. ~Sweeps /\ ~MakesRow(h) /\ ~MakesRow(h)' /\ \A s : todo' # <<EndRow(h, s)>>
    <3>1. ~MakesRow(h)
      BY <2>1, ErrandForms DEF MakesRow
    <3>2. ~Sweeps
      BY <1>6, <2>1, ErrandForms DEF Sweeps, EndRow, CloseOrphans
    <3> QED
      BY <1>4, <1>5, <2>2, <3>1, <3>2, Zenon
  <2>6. CASE h = g
    <3>1. ~IsBusy(h) /\ ~IsInFlight(h) /\ (row'[h] # "NONE" => row[h] # "NONE")
      BY <1>1, <1>3, <2>1, <2>3, <2>6 DEF DecidedOK, IsBusy, RowTo, ActiveStates
    <3> QED
      BY <1>1, <2>3, <2>4, <2>5, <3>1 DEF DecidedOK
  <2>7. CASE h # g
    BY <1>1, <1>2, <2>3, <2>4, <2>5, <2>7 DEF DecidedOK
  <2> QED
    BY <2>6, <2>7
<1>7. ASSUME NEW at \in Times, CommitCloseOrphans(at)
      PROVE  DecidedOK(h)'
  <2>1. UNCHANGED <<row, start>> /\ todo[1] = CloseOrphans
    BY <1>2, <1>7 DEF CommitCloseOrphans, Proceed, Errands, CloseOrphans, CreateRow, CloseUnsent, EndRow
  <2>2. \A state \in EndStates : todo' # <<EndRow(h, state)>>
    <3>1. ~Ends(todo, h)
      BY <2>1 DEF Ends, EndRow, CloseUnsent, CloseOrphans
    <3>2. ~Ends(Tail(todo), h)
      BY <1>2, <3>1, EndsTail
    <3> QED
      BY <1>2, <3>2 DEF Ends
  <2>3. row[h] = "INTERRUPTED" => ~IsInFlight(h)'
    <3>1. ASSUME row[h] = "INTERRUPTED", IsInFlight(h)'
          PROVE  FALSE
      <4>1. start[h] # "CONSUMING" /\ h \notin ActiveJobs
        BY <3>1 DEF OwnedJobs, Owns, Prepares, ActiveJobs, ActiveStates
      <4>2. IsInFlight(h)
        BY <1>1, <3>1, <4>1, BusyStep
      <4>3. h \in OrphanedGrants(ActiveJobs)
        BY <1>1, <4>1, <4>2, RowTypes DEF OrphanedGrants, HoldsWhole, IsInFlight, RowsOK, RowOK
      <4>4. reservation'[h] = ClosedReservation(h, "UNKNOWN", at)
        BY <1>7, <4>3 DEF CommitCloseOrphans, CloseOrphanedWriteResults
      <4> QED
        BY <3>1, <4>4 DEF IsInFlight, ClosedReservation
    <3> QED
      BY <3>1
  <2> QED
    BY <1>1, <1>4, <2>1, <2>2, <2>3, DecidedKept
<1>8. ASSUME NEW at \in Times, CommitCreateRow(at)
      PROVE  DecidedOK(h)'
  <2>1. PICK g \in Grants : todo = <<CreateRow(g)>>
    BY <1>2, <1>8 DEF CommitCreateRow, Proceed, Errands, CloseOrphans, CreateRow, CloseUnsent, EndRow
  <2>2. todo' = <<>> /\ todo[1].grant = g
    BY <1>2, <1>5, <2>1 DEF CreateRow
  <2>3. ~MakesRow(h)' /\ \A state : todo' # <<EndRow(h, state)>>
    <3>1. \A x : <<>> # <<x>>
      OBVIOUS
    <3>2. \A x, y : <<>> # <<x, y>>
      OBVIOUS
    <3> QED
      BY <2>2, <3>1, <3>2, Zenon DEF MakesRow
  <2>4. ~Sweeps
    BY <1>8, <2>1, ErrandForms DEF Sweeps, CommitCreateRow, Proceed, CloseOrphans
  <2>5. CASE row' = [row EXCEPT ![g] = "STARTING"] /\ start' = [start EXCEPT ![g] = "CONSUMING"] /\ h = g
    <3>1. IsIssued(h) /\ row'[h] = "STARTING"
      BY <1>1, <1>3, <2>1, <2>5 DEF DecidedOK, MakesRow
    <3>2. IsIssued(h)' /\ HoldsWhole(h)'
      BY <1>1, <3>1, BusyStep
    <3> QED
      BY <2>3, <3>1, <3>2 DEF DecidedOK
  <2>6. CASE row'[h] = row[h] /\ (start'[h] = start[h] \/ start'[h] = "NONE")
    BY <1>1, <1>2, <2>3, <2>4, <2>6, DecidedKept
  <2>7. \/ row' = [row EXCEPT ![g] = "STARTING"] /\ start' = [start EXCEPT ![g] = "CONSUMING"]
        \/ UNCHANGED row /\ start' = [start EXCEPT ![g] = "NONE"]
    BY <1>8, <2>2 DEF CommitCreateRow
  <2> QED
    BY <1>3, <2>5, <2>6, <2>7
<1>9. ASSUME NEW at \in Times, CommitCloseUnsent(at)
      PROVE  DecidedOK(h)'
  <2>1. PICK g \in Grants : todo = <<CloseUnsent(g), EndRow(g, "FAILED")>>
    BY <1>2, <1>9 DEF CommitCloseUnsent, Proceed, Errands, CloseOrphans, CreateRow, CloseUnsent, EndRow
  <2>2. todo' = <<EndRow(g, "FAILED")>> /\ todo[1].grant = g
    BY <1>2, <1>5, <2>1 DEF CloseUnsent
  <2>3. ~IsBusy(g)'
    BY <1>9, <2>2, ClosingDecides DEF CommitCloseUnsent, DecidedEach, DecidedOK
  <2>4. ASSUME NEW state \in EndStates, todo' = <<EndRow(h, state)>>
        PROVE  ~IsBusy(h)'
    <3>1. g = h
      BY <2>2, <2>4, EndsOne DEF Ends, EndStates
    <3> QED
      BY <2>3, <3>1
  <2>5. ~Sweeps
    BY <1>9, <2>1, ErrandForms DEF Sweeps, CommitCloseUnsent, Proceed, CloseOrphans
  <2>6. UNCHANGED <<row, start>>
    BY <1>9 DEF CommitCloseUnsent
  <2> QED
    BY <1>1, <1>2, <1>4, <2>4, <2>5, <2>6, DecidedKept
<1> QED
  BY <1>6, <1>7, <1>8, <1>9 DEF Commits

(* The worker has gone and a result is recorded by the time a job ends, so  *)
(* whatever the worker said and left behind, its write is decided then -    *)
(* if the clock is not behind the record.                                   *)
LEMMA ExitDecides ==
    ASSUME TypeOK, RowsOK, OnePostEach, WireEach, OwnedJobs, NEW g \in Grants, HoldsWhole(g), NEW at \in Times,
           at >= result[g].recordedAt, RecordExit(g, at)
    PROVE  ~IsBusy(g)'
<1>1. IsTracked(g) /\ HasResult(g)
  BY DEF RecordExit, OwnedJobs, WireEach, WireOK, StagesOK, OnePostEach, OnePost
<1>2. IsConsumed(g)
  BY <1>1, RowTypes
<1>3. PICK fromDocument : SettleWrite(g, fromDocument, at)
  BY DEF RecordExit
<1>4. ASSUME NEW submission, NEW responded, SettleOrLog(g, submission, responded, at)
      PROVE  ~IsBusy(g)'
  <2>1. CASE ~IsSettleable(g)
    <3>1. reservation[g].state # "RESERVED" /\ UNCHANGED vars
      BY <1>1, <1>4, <2>1 DEF SettleOrLog, IsSettleable, HoldsWhole
    <3> QED
      BY <1>2, <3>1 DEF vars, IsBusy, IsOpen, IsInFlight, IsConsumed
  <2>2. CASE IsSettleable(g)
    <3>1. SettleWriteResult(g, submission, responded, at)
      BY <1>4, <2>2 DEF SettleOrLog
    <3>2. PICK to : /\ to = ReservationSettlementOf(submission, responded)
                    /\ reservation' = [reservation EXCEPT ![g] = [state |-> to, settledAt |-> Later(at, grant[g].issuedAt)]]
                    /\ UNCHANGED grant
      BY <3>1 DEF SettleWriteResult
    <3>3. to # "RESERVED"
      BY <3>2 DEF ReservationSettlementOf
    <3>4. reservation'[g].state = to
      BY <3>2 DEF TypeOK
    <3> QED
      BY <1>2, <3>2, <3>3, <3>4 DEF IsBusy, IsOpen, IsInFlight, IsConsumed
  <2> QED
    BY <2>1, <2>2
<1>5. CASE IF IsClosable(g) THEN CloseWriteWithoutSending(g, at) ELSE UNCHANGED vars
  BY <1>5, ClosingDecides
<1> QED
  BY <1>3, <1>4, <1>5 DEF SettleWrite

(* The end of a job is recorded in time. *)
LEMMA DecidedExit ==
    ASSUME JobTypes, TypeOK, RowsOK, OnePostEach, OwnedJobs, WireEach, NEW g \in Grants, ExitSteps(g), RecordsInTime(g),
           NEW h \in Grants, DecidedEach
    PROVE  DecidedOK(h)'
<1>1. JobNext /\ DecidedOK(h) /\ HoldsWhole(g)
  BY DEF JobNext, GrantSteps, DecidedEach, DecidedOK
<1>2. CASE SeeProcessExit(g) \/ EndDrain(g)
  BY <1>1, <1>2, DecidedIdle DEF SeeProcessExit, EndDrain
<1>3. CASE \E at \in Times : RecordExit(g, at)
  <2>1. PICK at \in Times : at >= result[g].recordedAt /\ RecordExit(g, at)
    BY <1>3 DEF RecordsInTime
  <2>2. ~IsBusy(g)'
    BY <1>1, <2>1, ExitDecides
  <2>3. PICK state : todo' = <<EndRow(g, state)>>
    BY <2>1 DEF RecordExit
  <2>4. Idle /\ UNCHANGED <<row, start>>
    BY <2>1 DEF RecordExit
  <2>5. ASSUME NEW other \in EndStates, todo' = <<EndRow(h, other)>>
        PROVE  ~IsBusy(h)'
    <3>1. g = h
      BY <2>3, <2>5 DEF EndRow
    <3> QED
      BY <2>2, <3>1
  <2>6. ~MakesRow(h)'
    BY <2>3, ErrandForms DEF MakesRow
  <2>7. up /\ ~Sweeps
    BY <2>4, NoErrands DEF Idle
  <2> QED
    BY <1>1, <2>4, <2>5, <2>6, <2>7, DecidedKept
<1> QED
  BY <1>2, <1>3 DEF ExitSteps

(* Steps of the worker, handlers without a transaction, and a death of the  *)
(* server, whose restart sweeps.                                            *)
LEMMA DecidedAside ==
    ASSUME JobTypes, TypeOK, RowsOK, OwnedJobs, NEW h \in Grants, DecidedOK(h),
           \/ UNCHANGED <<vars, serverVars>>
           \/ StartOtherJob \/ Crash \/ Restart
           \/ \E g \in Grants : StopJob(g) \/ ReceiveSteps(g) \/ AnswerSteps(g) \/ Timeout(g)
    PROVE  DecidedOK(h)'
<1>1. UNCHANGED vars => /\ (IsIssued(h)' <=> IsIssued(h)) /\ (IsBusy(h)' <=> IsBusy(h)) /\ (HoldsWhole(h)' <=> HoldsWhole(h))
                        /\ (IsInFlight(h)' <=> IsInFlight(h))
  BY DEF vars, IsBusy, IsOpen, IsInFlight, IsConsumed, IsIssued, HoldsWhole, IsResultSettled
<1>2. CASE UNCHANGED <<vars, serverVars>>
  <2>1. (MakesRow(h)' <=> MakesRow(h)) /\ (Sweeps' <=> Sweeps)
    BY <1>2 DEF MakesRow, Sweeps, serverVars
  <2> QED
    BY <1>1, <1>2, <2>1 DEF DecidedOK, serverVars
<1>3. CASE StartOtherJob \/ Restart
  <2>1. PICK stale \in SUBSET UnownedJobs : InterruptUnowned(stale, <<>>)
    BY <1>3 DEF StartOtherJob, Restart
  <2>2. UNCHANGED start /\ JobNext
    BY <1>3 DEF StartOtherJob, Restart, JobNext
  <2> QED
    BY <2>1, <2>2, DecidedInterrupt
<1>4. CASE Crash
  <2>1. todo' = <<>> /\ ~up' /\ start'[h] = "NONE" /\ UNCHANGED <<vars, row>>
    BY <1>4 DEF Crash
  <2>2. ~MakesRow(h)' /\ \A state : todo' # <<EndRow(h, state)>>
    <3>1. \A x : <<>> # <<x>>
      OBVIOUS
    <3>2. \A x, y : <<>> # <<x, y>>
      OBVIOUS
    <3> QED
      BY <2>1, <3>1, <3>2, Zenon DEF MakesRow
  <2> QED
    BY <1>1, <2>1, <2>2 DEF DecidedOK
<1>5. ASSUME NEW g \in Grants, StopJob(g) \/ ReceiveSteps(g) \/ AnswerSteps(g) \/ Timeout(g)
      PROVE  DecidedOK(h)'
  <2>1. JobNext
    BY <1>5 DEF JobNext, GrantSteps
  <2>2. Idle /\ UNCHANGED <<todo, start>>
    <3>1. ReceiveSteps(g) => \E messages : Receives(g, messages)
      BY DEF ReceiveSteps, ReceiveDecided, ReceiveReady, ReceiveRunStarted, ReceiveRecheckRequest, ReceiveSubmission,
             ReceiveFinished, ReceiveFailed
    <3>2. (\E messages : Receives(g, messages)) => Idle /\ UNCHANGED <<todo, start>>
      BY DEF Receives
    <3>3. Timeout(g) => \E ending : EndAndKill(g, ending)
      BY DEF Timeout
    <3>4. (\E ending : EndAndKill(g, ending)) \/ StopJob(g) \/ AnswerSteps(g) => Idle /\ UNCHANGED <<todo, start>>
      BY DEF EndAndKill, StopJob, AnswerSteps, AllowWrite, RefuseWrite
    <3> QED
      BY <1>5, <3>1, <3>2, <3>3, <3>4
  <2>3. row \in [Grants -> {"NONE"} \cup ActiveStates \cup EndStates]
    BY DEF JobTypes, JobTypeOK
  <2>4. CASE UNCHANGED row
    BY <2>1, <2>2, <2>4, DecidedIdle
  <2>5. CASE row'[h] = row[h] \/ (row[h] \in ActiveStates /\ row'[h] \in ActiveStates)
    BY <2>1, <2>2, <2>5, DecidedIdle
  <2>6. CASE StopJob(g)
    BY <2>5, <2>6 DEF StopJob, StopRequested, RowTo, ActiveStates
  <2>7. CASE ReceiveSteps(g)
    BY <2>3, <2>5, <2>7 DEF ReceiveSteps, ReceiveDecided, ReceiveReady, ReceiveRunStarted, ReceiveRecheckRequest,
                ReceiveSubmission, ReceiveFinished, ReceiveFailed, ActiveStates
  <2>8. CASE AnswerSteps(g)
    BY <2>3, <2>5, <2>8 DEF AnswerSteps, AllowWrite, RefuseWrite, RowTo, ActiveStates
  <2>9. CASE Timeout(g)
    BY <2>4, <2>9 DEF Timeout, EndAndKill
  <2> QED
    BY <1>5, <2>6, <2>7, <2>8, <2>9
<1> QED
  BY <1>2, <1>3, <1>4, <1>5

(* Every step decides the write of a job before its row ends, if jobs end   *)
(* in time.                                                                 *)
LEMMA DecidedStep ==
    /\ JobTypes /\ TypeOK /\ RowsOK /\ OnePostEach /\ OwnedJobs /\ WireEach /\ DecidedEach
    /\ [JobNext]_allVars
    /\ [\A g \in Grants : RecordsInTime(g)]_allVars
    => DecidedEach'
<1> SUFFICES ASSUME JobTypes, TypeOK, RowsOK, OnePostEach, OwnedJobs, WireEach, DecidedEach, [JobNext]_allVars,
                    [\A g \in Grants : RecordsInTime(g)]_allVars, NEW h \in Grants
             PROVE  DecidedOK(h)'
  BY DEF DecidedEach
<1>1. DecidedOK(h)
  BY DEF DecidedEach
<1>2. CASE UNCHANGED allVars
  BY <1>1, <1>2, DecidedAside DEF allVars, jobVars
<1>3. ASSUME NEW g \in Grants, RunSteps(g) \/ TakeSignal(g) \/ WorkerDies(g)
      PROVE  DecidedOK(h)'
  <2>1. UNCHANGED <<vars, serverVars>>
    BY <1>3 DEF RunSteps, BecomeReady, TakeStart, TakeStop, TakeRecheckResult, TakeLateResult, StartRun, SkipRun,
                EnterStage, RequestRecheck, TimeOutRecheck, AdmitPost, WritePost, SettlePost, CloseContext,
                ReportSubmission, Reports, FailRun, FinishRun, TakeSignal, WorkerDies, WorkerBecomes, WorkerStep,
                TakesMessage, Goes
  <2> QED
    BY <1>1, <2>1, DecidedAside
<1>4. ASSUME NEW g \in Grants, ExitSteps(g), ~UNCHANGED allVars
      PROVE  DecidedOK(h)'
  <2>1. RecordsInTime(g)
    BY <1>4
  <2> QED
    BY <1>4, <2>1, DecidedExit
<1> QED
  BY <1>1, <1>2, <1>3, <1>4, DecidedScreen, DecidedStart, DecidedCommit, DecidedAside DEF JobNext, GrantSteps

(* There is no job and no grant at first. *)
LEMMA DecidedInit == JobInit => DecidedEach
<1> SUFFICES ASSUME JobInit, NEW g \in Grants PROVE DecidedOK(g)
  BY DEF DecidedEach
<1>1. /\ todo = <<>> /\ row[g] = "NONE" /\ start[g] = "NONE"
      /\ grant[g] = NoGrantRow /\ reservation[g] = NoReservation /\ result[g] = NoResult
  BY DEF JobInit, Init
<1>2. ~MakesRow(g) /\ \A state : todo # <<EndRow(g, state)>>
  BY <1>1, NoErrands
<1> QED
  BY <1>1, <1>2 DEF DecidedOK, HoldsWhole, IsOpen, IsIssued, NoGrantRow, NoReservation

(* A job row that has ended leaves no write undecided: that of a finished   *)
(* or failed job was settled in an earlier transaction, that of an          *)
(* interrupted one is settled by the sweep of the same handler - for any    *)
(* messages lost, any death of server or worker, and any clock that is not  *)
(* behind the record of the attempt when the job ends.  Without that        *)
(* condition it is false: the run job_clock_set_back shows how.             *)
THEOREM DecidedBeforeRowEndsHolds == JobSpec /\ ClockNotSetBack => []DecidedBeforeRowEnds
<1>1. DecidedEach => DecidedBeforeRowEnds
  <2> SUFFICES ASSUME DecidedEach, NEW g \in Grants
               PROVE  /\ row[g] \in {"FINISHED", "FAILED"} => ~IsBusy(g)
                      /\ row[g] = "INTERRUPTED" /\ Idle => ~IsInFlight(g)
    BY DEF DecidedBeforeRowEnds
  <2>1. Idle => up /\ ~Sweeps
    BY NoErrands DEF Idle
  <2> QED
    BY <2>1 DEF DecidedEach, DecidedOK
<1> QED
  BY <1>1, JobRows, WireInit, WireStep, DecidedInit, DecidedStep, PTL DEF JobSpec, ClockNotSetBack
=============================================================================
