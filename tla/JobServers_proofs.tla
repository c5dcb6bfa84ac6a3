------------------------- MODULE JobServers_proofs --------------------------
(***************************************************************************)
(* Theorems about JobServers for any number of servers and jobs, any clock *)
(* and any bounds: its types, that two workers run at the same time only   *)
(* after a loss, that what a closed attempt says covers what the site got, *)
(* and that logins are spaced.                                             *)
(***************************************************************************)
EXTENDS JobServers, TLAPS

-----------------------------------------------------------------------------
(* The types. *)

(* The errands a handler can have left: those of a start or a recovery, the *)
(* launch of a job, the process id of its worker, and the end of a job.     *)
Preparations ==
    {<<>>, <<Step("INTERRUPT", 0), Step("ORPHANS", 0), Step("CREATE", 0)>>, <<Step("ORPHANS", 0), Step("CREATE", 0)>>,
     <<Step("CREATE", 0)>>, <<Step("INTERRUPT", 0), Step("ORPHANS", 0)>>, <<Step("ORPHANS", 0)>>}

LaunchOf(j) == <<Step("LAUNCH", j)>>
PidOf(j) == <<Step("PID", j)>>
UnsentOf(j) == {<<Step("END_ROW", j), Step("NOT_SENT", j)>>, <<Step("NOT_SENT", j)>>}
PendingOf(j) == {<<Step("END_ROW", j), Step("PENDING", j)>>, <<Step("PENDING", j)>>}
EndOf(j) == UnsentOf(j) \cup PendingOf(j)
ErrandsOf(j) == {LaunchOf(j), PidOf(j)} \cup EndOf(j)
Errands == Preparations \cup UNION {ErrandsOf(j) : j \in Jobs}

ServerRecord == [at : {"OFF", "UP", "GONE"}, awake : BOOLEAN, lost : BOOLEAN, stopSoon : BOOLEAN, todo : Errands]
RowRecord == [state : {"NONE", "ACTIVE", "ENDED", "INTERRUPTED"}, pid : BOOLEAN, seen : Times]
JobRecord == [owner : Servers \cup {Nobody}, phase : {"NONE", "FORKED", "STARTED", "DONE"}, startSent : BOOLEAN,
              startFailed : BOOLEAN, stopRequested : BOOLEAN, killTimer : BOOLEAN]
WorkerRecord == [at : {"NONE", "WAITING", "LOGIN", "PRESSED", "AFTER", "GONE"}, seen : BOOLEAN, pressed : BOOLEAN,
                 posts : 0 .. 2, ok : BOOLEAN, stop : BOOLEAN, signalled : BOOLEAN]
Said == [result : {"SUCCEEDED", "FAILED", "RATE_LIMITED"}, submitted : {"YES", "NO", "UNKNOWN"}, response : BOOLEAN]
ReportRecord == Said \cup {NoReport}
AttemptFields == [start : Times, result : {"NONE", "SUCCEEDED", "FAILED", "RATE_LIMITED", "UNKNOWN"},
                  submitted : {"NONE", "YES", "NO", "UNKNOWN"}, rows : 0 .. 2, retry : 0 .. MaxTime + RetryAfter]
\* The second row of an attempt is written when it is closed.
AttemptRecord == {a \in AttemptFields : a.result = "NONE" => a.rows < 2}

ServerTypes ==
    /\ clock \in Times /\ faults \in 0 .. MaxFaults
    /\ inst \in [owner : Servers \cup {Nobody}, beat : Times]
    /\ server \in [Servers -> ServerRecord]
    /\ row \in [Jobs -> RowRecord]
    /\ job \in [Jobs -> JobRecord]
    /\ worker \in [Jobs -> WorkerRecord]
    /\ report \in [Jobs -> ReportRecord]
    /\ attempt \in [Jobs -> AttemptRecord]
    /\ hold \in BOOLEAN

-----------------------------------------------------------------------------
(* The life of a server and of a job. *)

Launching(s, j) == server[s].todo = LaunchOf(j)
HasErrand(s, j) == server[s].todo \in ErrandsOf(j)

(* A server that is not up does nothing; one that knows it lost the lock    *)
(* does not hold it and launches nothing.                                   *)
ServerOK(s) ==
    /\ server[s].at # "UP" => server[s].todo = <<>>
    /\ server[s].at = "OFF" => inst.owner # s /\ ~server[s].lost
    /\ server[s].lost => inst.owner # s
    /\ \A j \in Jobs : server[s].todo \in {LaunchOf(j), PidOf(j)} => ~server[s].lost

(* A job before its row, at its launch, tracked, and at its end.            *)
LifeOK(j) ==
    /\ row[j].state = "NONE" <=> attempt[j].rows = 0
    /\ row[j].state = "NONE" => job[j] = NoJob /\ worker[j] = NoWorker /\ report[j] = NoReport /\ attempt[j] = NoAttempt
    /\ job[j].owner # Nobody => server[job[j].owner].at # "OFF"
    /\ job[j].phase # "NONE" =>
         /\ job[j].owner # Nobody /\ server[job[j].owner].at = "UP"
         /\ row[j].state \in {"ACTIVE", "INTERRUPTED"}
         /\ worker[j].at # "NONE"
         /\ ~job[j].startSent => worker[j].posts = 0 /\ worker[j].at \notin {"LOGIN", "PRESSED"}
         /\ job[j].phase = "FORKED" => ~job[j].startSent
    /\ IsAlive(j) =>
         /\ job[j].owner # Nobody
         /\ server[job[j].owner].at = "UP" => job[j].phase # "NONE" /\ StopsItsWorker(j)
         /\ job[j].phase = "DONE" => worker[j].signalled

(* What a handler still has to do about a job.                              *)
ErrandOK(s, j) ==
    /\ HasErrand(s, j) => row[j].state # "NONE"
    /\ Launching(s, j) =>
         row[j].state \in {"ACTIVE", "INTERRUPTED"} /\ job[j] = NoJob /\ worker[j] = NoWorker /\ report[j] = NoReport
    /\ server[s].todo = PidOf(j) => job[j].owner = s /\ job[j].phase = "FORKED"
    /\ server[s].todo \in EndOf(j) => job[j].phase = "NONE" /\ ~IsAlive(j) /\ report[j] = NoReport
    /\ server[s].todo \in UnsentOf(j) => worker[j].posts = 0

OneErrand == \A j \in Jobs : \A s, t \in Servers : HasErrand(s, j) /\ HasErrand(t, j) => s = t

(* Whose job it is; of an interrupted one the owner has lost the lock.      *)
Belongs(s, j) == Launching(s, j) \/ job[j].owner = s
Interrupted == \A s \in Servers, j \in Jobs : Belongs(s, j) /\ row[j].state = "INTERRUPTED" => inst.owner # s

OneActive == \A i, j \in Jobs : row[i].state = "ACTIVE" /\ row[j].state = "ACTIVE" => i = j
InOrder == \A i, j \in Jobs : i < j /\ row[j].state # "NONE" => row[i].state # "NONE"

Handles(s, j) == Launching(s, j) \/ Tracks(s, j)
OneHandled == \A s \in Servers : \A i, j \in Jobs : Handles(s, i) /\ Handles(s, j) => i = j

LivesOK ==
    /\ \A s \in Servers : ServerOK(s)
    /\ \A j \in Jobs : LifeOK(j)
    /\ \A s \in Servers, j \in Jobs : ErrandOK(s, j)
    /\ OneErrand /\ Interrupted /\ OneActive /\ InOrder /\ OneHandled

-----------------------------------------------------------------------------
(* The attempts. *)

LoginOver(j) == worker[j].at \in {"AFTER", "GONE"} \/ (worker[j].at = "NONE" /\ \A s \in Servers : ~Launching(s, j))

\* What was closed as sent once, or as not sent, was closed when its login was over.
Covers(j, result, submitted, rows) ==
    /\ submitted = "NO" => IF result = "UNKNOWN" THEN worker[j].posts = 0 ELSE j \in ScriptJobs \/ ~worker[j].pressed
    /\ result = "SUCCEEDED" => worker[j].ok
    /\ submitted = "YES" \/ result = "UNKNOWN" => worker[j].posts <= rows
    /\ submitted = "NO" \/ rows < 2 => LoginOver(j)

ReportOK(j) ==
    report[j] # NoReport =>
        /\ report[j].result # "NONE" /\ worker[j].at \in {"AFTER", "GONE"}
        /\ Covers(j, report[j].result, report[j].submitted, IF report[j].response THEN 1 ELSE 2)

AttemptOK(j) ==
    /\ attempt[j].result # "NONE" => attempt[j].rows > 0 /\ Covers(j, attempt[j].result, attempt[j].submitted, attempt[j].rows)
    /\ attempt[j].result = "NONE" => attempt[j].rows < 2 /\ attempt[j].retry = 0

\* A worker knows what it pressed.
PressOK(j) == worker[j].at \in {"NONE", "WAITING", "LOGIN"} => ~worker[j].pressed

TruthOK == \A j \in Jobs : ReportOK(j) /\ AttemptOK(j) /\ PressOK(j)

(* An attempt that is open although a later one was started belongs to a    *)
(* job that has ended, and will be closed without an answer of the site.    *)
LeftOpen == \A i, j \in Started : i < j /\ IsPending(i) => row[i].state = "ENDED"

(* A server about to create a job has closed the attempts of the dead.      *)
NoneInterrupted ==
    \A s \in Servers : inst.owner = s /\ server[s].todo = <<Step("CREATE", 0)>> =>
        \A j \in Jobs : row[j].state = "INTERRUPTED" => ~IsPending(j)

SpacedOK == AttemptsAreSpaced /\ LeftOpen /\ NoneInterrupted

-----------------------------------------------------------------------------
(* What the errands look like. *)

(* Which errands are told apart, and whose they are.                        *)
LEMMA ErrandsDiffer ==
    ASSUME NEW i \in Jobs, NEW j \in Jobs
    PROVE  /\ LaunchOf(j) \notin Preparations /\ PidOf(j) \notin Preparations
           /\ \A td \in EndOf(j) : td \notin Preparations
           /\ LaunchOf(j) # PidOf(i) /\ LaunchOf(j) \notin EndOf(i) /\ PidOf(j) \notin EndOf(i)
           /\ LaunchOf(i) = LaunchOf(j) => i = j
           /\ PidOf(i) = PidOf(j) => i = j
           /\ \A td \in EndOf(i) : td \in EndOf(j) => i = j
<1> DEFINE I == Step("INTERRUPT", 0)
           O == Step("ORPHANS", 0)
           C == Step("CREATE", 0)
<1>1. ASSUME NEW k, NEW k2, NEW a, NEW b
      PROVE  /\ Step(k, a) = Step(k2, b) <=> k = k2 /\ a = b
             /\ <<Step(k, a)>> # <<>>
             /\ <<Step(k, a)>> = <<Step(k2, b)>> => Step(k, a) = Step(k2, b)
  BY DEF Step
<1>2. ASSUME NEW a, NEW b, NEW c, NEW d, NEW e
      PROVE  /\ <<a>> # <<b, c>> /\ <<a>> # <<b, c, d>> /\ <<a, b>> # <<c, d, e>> /\ <<a>> # <<>> /\ <<a, b>> # <<>>
             /\ <<a, b>> = <<c, d>> => a = c /\ b = d
             /\ <<a>> = <<b>> => a = b
  OBVIOUS
<1>3. LaunchOf(j) \notin Preparations /\ PidOf(j) \notin Preparations
  BY <1>1, <1>2 DEF LaunchOf, PidOf, Preparations
<1>4. ASSUME NEW td \in EndOf(j)
      PROVE  td \notin Preparations
  BY <1>1, <1>2 DEF EndOf, UnsentOf, PendingOf, Preparations
<1>5. LaunchOf(j) # PidOf(i) /\ LaunchOf(j) \notin EndOf(i) /\ PidOf(j) \notin EndOf(i)
  BY <1>1, <1>2 DEF LaunchOf, PidOf, EndOf, UnsentOf, PendingOf
<1>6. (LaunchOf(i) = LaunchOf(j) => i = j) /\ (PidOf(i) = PidOf(j) => i = j)
  BY <1>1, <1>2 DEF LaunchOf, PidOf
<1>7. ASSUME NEW td \in EndOf(i), td \in EndOf(j)
      PROVE  i = j
  BY <1>1, <1>2, <1>7 DEF EndOf, UnsentOf, PendingOf
<1> QED
  BY <1>3, <1>4, <1>5, <1>6, <1>7

(* The errands of two jobs are different.                                   *)
LEMMA ErrandsOfOne ==
    ASSUME NEW i \in Jobs, NEW j \in Jobs, NEW td \in ErrandsOf(i), td \in ErrandsOf(j)
    PROVE  i = j
  BY ErrandsDiffer DEF ErrandsOf

(* Errands that are none of a job are no errand of any job.                 *)
LEMMA PreparationsAreNone ==
    ASSUME NEW td \in Preparations, NEW j \in Jobs
    PROVE  td \notin ErrandsOf(j) /\ td # LaunchOf(j) /\ td # PidOf(j) /\ td \notin EndOf(j) /\ td \notin UnsentOf(j)
<1>1. LaunchOf(j) \notin Preparations /\ PidOf(j) \notin Preparations /\ \A e \in EndOf(j) : e \notin Preparations
  BY ErrandsDiffer
<1> QED
  BY <1>1 DEF ErrandsOf, EndOf

(* The first errand, and what is left behind it.                            *)
LEMMA ErrandShapes ==
    ASSUME NEW td \in Errands, td # <<>>
    PROVE  /\ Tail(td) \in Errands
           /\ Head(td).kind = "INTERRUPT" => td \in Preparations /\ Tail(td) \in Preparations /\ Tail(td) # <<Step("CREATE", 0)>>
           /\ Head(td).kind = "ORPHANS" => td \in Preparations /\ Tail(td) \in Preparations
           /\ Head(td).kind = "CREATE" => td = <<Step("CREATE", 0)>> /\ Tail(td) = <<>>
           /\ Head(td).kind = "LAUNCH" => Head(td).job \in Jobs /\ td = LaunchOf(Head(td).job)
           /\ Head(td).kind = "PID" => Head(td).job \in Jobs /\ td = PidOf(Head(td).job) /\ Tail(td) = <<>>
           /\ Head(td).kind = "END_ROW" =>
                /\ Head(td).job \in Jobs /\ td \in EndOf(Head(td).job) /\ Tail(td) \in EndOf(Head(td).job)
                /\ Tail(td) \in UnsentOf(Head(td).job) => td \in UnsentOf(Head(td).job)
           /\ Head(td).kind = "NOT_SENT" => Head(td).job \in Jobs /\ td \in UnsentOf(Head(td).job) /\ Tail(td) = <<>>
           /\ Head(td).kind = "PENDING" => Head(td).job \in Jobs /\ td \in EndOf(Head(td).job) /\ Tail(td) = <<>>
<1>1. ASSUME NEW k, NEW a
      PROVE  Head(<<Step(k, a)>>).kind = k /\ Head(<<Step(k, a)>>).job = a /\ Tail(<<Step(k, a)>>) = <<>>
  BY DEF Step
<1>2. CASE td \in Preparations
  <2> DEFINE I == Step("INTERRUPT", 0)
             O == Step("ORPHANS", 0)
             C == Step("CREATE", 0)
  <2>1. <<O, C>> # <<C>> /\ <<O>> # <<C>>
    BY DEF Step
  <2>2. /\ Head(<<I, O, C>>).kind = "INTERRUPT" /\ Tail(<<I, O, C>>) = <<O, C>>
        /\ Head(<<I, O>>).kind = "INTERRUPT" /\ Tail(<<I, O>>) = <<O>>
        /\ Head(<<O, C>>).kind = "ORPHANS" /\ Tail(<<O, C>>) = <<C>>
        /\ Head(<<O>>).kind = "ORPHANS" /\ Tail(<<O>>) = <<>>
        /\ Head(<<C>>).kind = "CREATE" /\ Tail(<<C>>) = <<>>
    BY DEF Step
  <2>3. td \in {<<I, O, C>>, <<I, O>>, <<O, C>>, <<O>>, <<C>>} /\ {<<O, C>>, <<O>>, <<C>>, <<>>} \subseteq Preparations
    BY <1>2 DEF Preparations
  <2>4. Preparations \subseteq Errands
    BY DEF Errands
  <2> HIDE DEF I, O, C
  <2>5. CASE td = <<I, O, C>> \/ td = <<I, O>>
    <3>1. Head(td).kind = "INTERRUPT" /\ (Tail(td) = <<O, C>> \/ Tail(td) = <<O>>)
      BY <2>2, <2>5, Zenon
    <3> QED
      BY <3>1, <2>1, <2>3, <2>4, <1>2 DEF C
  <2>6. CASE td = <<O, C>> \/ td = <<O>>
    <3>1. Head(td).kind = "ORPHANS" /\ (Tail(td) = <<C>> \/ Tail(td) = <<>>)
      BY <2>2, <2>6, Zenon
    <3> QED
      BY <3>1, <2>3, <2>4, <1>2
  <2>7. CASE td = <<C>>
    <3>1. Head(td).kind = "CREATE" /\ Tail(td) = <<>>
      BY <2>2, <2>7, Zenon
    <3> QED
      BY <3>1, <2>3, <2>4, <2>7 DEF C
  <2> QED
    BY <2>3, <2>5, <2>6, <2>7
<1>3. ASSUME NEW j \in Jobs, td \in ErrandsOf(j)
      PROVE  /\ Head(td).job = j
             /\ \/ Head(td).kind = "LAUNCH" /\ td = LaunchOf(j) /\ Tail(td) = <<>>
                \/ Head(td).kind = "PID" /\ td = PidOf(j) /\ Tail(td) = <<>>
                \/ Head(td).kind = "END_ROW" /\ td \in UnsentOf(j) /\ Tail(td) \in UnsentOf(j)
                \/ Head(td).kind = "END_ROW" /\ td \in PendingOf(j) /\ Tail(td) \in PendingOf(j)
                \/ Head(td).kind = "NOT_SENT" /\ td \in UnsentOf(j) /\ Tail(td) = <<>>
                \/ Head(td).kind = "PENDING" /\ td \in PendingOf(j) /\ Tail(td) = <<>>
  <2>1. CASE td = LaunchOf(j)
    BY <2>1, <1>1, Zenon DEF LaunchOf
  <2>2. CASE td = PidOf(j)
    BY <2>2, <1>1, Zenon DEF PidOf
  <2>3. CASE td \in UnsentOf(j)
    <3>1. CASE td = <<Step("END_ROW", j), Step("NOT_SENT", j)>>
      <4> DEFINE both == <<Step("END_ROW", j), Step("NOT_SENT", j)>>
      <4>1. Tail(both) = <<Step("NOT_SENT", j)>> /\ Head(both).kind = "END_ROW" /\ Head(both).job = j
        BY DEF Step
      <4> QED
        BY <4>1, <3>1, <2>3, Zenon DEF UnsentOf
    <3>2. CASE td = <<Step("NOT_SENT", j)>>
      BY <3>2, <2>3, <1>1, Zenon
    <3> QED
      BY <2>3, <3>1, <3>2 DEF UnsentOf
  <2>4. CASE td \in PendingOf(j)
    <3>1. CASE td = <<Step("END_ROW", j), Step("PENDING", j)>>
      <4> DEFINE both == <<Step("END_ROW", j), Step("PENDING", j)>>
      <4>1. Tail(both) = <<Step("PENDING", j)>> /\ Head(both).kind = "END_ROW" /\ Head(both).job = j
        BY DEF Step
      <4> QED
        BY <4>1, <3>1, <2>4, Zenon DEF PendingOf
    <3>2. CASE td = <<Step("PENDING", j)>>
      BY <3>2, <2>4, <1>1, Zenon
    <3> QED
      BY <2>4, <3>1, <3>2 DEF PendingOf
  <2> QED
    BY <1>3, <2>1, <2>2, <2>3, <2>4 DEF ErrandsOf, EndOf
<1>4. CASE \E j \in Jobs : td \in ErrandsOf(j)
  <2>1. PICK j \in Jobs : td \in ErrandsOf(j)
    BY <1>4
  <2>2. \A e \in UnsentOf(j) : e \notin PendingOf(j)
    BY DEF UnsentOf, PendingOf, Step
  <2>3. <<>> \in Errands /\ \A e \in EndOf(j) : e \in Errands
    BY DEF Errands, Preparations, ErrandsOf
  <2> QED
    BY <1>3, <2>1, <2>2, <2>3 DEF EndOf
<1> QED
  BY <1>2, <1>4 DEF Errands

-----------------------------------------------------------------------------
(* The types are kept. *)

(* What is known of the constants.                                          *)
LEMMA Sizes ==
    /\ MaxJobs \in Nat /\ MaxTime \in Nat /\ MaxFaults \in Nat /\ MinInterval \in Nat /\ RetryAfter \in Nat
    /\ 0 \in Times /\ 0 \in 0 .. MaxFaults /\ \A t \in Times : t \in Int /\ t + RetryAfter \in 0 .. MaxTime + RetryAfter
    /\ 0 \in 0 .. MaxTime + RetryAfter
<1>1. MaxJobs \in Nat /\ MaxTime \in Nat /\ MaxFaults \in Nat /\ MinInterval \in Nat /\ RetryAfter \in Nat
  BY ServersAssumption
<1> QED
  BY <1>1 DEF Times

(* What the actions make of a record is a record.                           *)
LEMMA RecordUpdates ==
    /\ NoJob \in JobRecord /\ NoWorker \in WorkerRecord /\ NoReport \in ReportRecord /\ NoAttempt \in AttemptRecord
    /\ ServerOff \in ServerRecord /\ [ServerOff EXCEPT !.at = "GONE"] \in ServerRecord
    /\ \A v \in ServerRecord :
         /\ \A td \in Errands : [v EXCEPT !.todo = td] \in ServerRecord
         /\ Lost(v) \in ServerRecord /\ [Lost(v) EXCEPT !.todo = <<>>] \in ServerRecord
         /\ \A b \in BOOLEAN : [v EXCEPT !.awake = b] \in ServerRecord /\ [v EXCEPT !.stopSoon = b] \in ServerRecord
    /\ \A a \in AttemptRecord :
         \A result \in {"SUCCEEDED", "FAILED", "RATE_LIMITED", "UNKNOWN"}, submitted \in {"YES", "NO", "UNKNOWN"},
            response \in BOOLEAN, retry \in 0 .. MaxTime + RetryAfter :
              a.result = "NONE" => ClosedAttempt(a, result, submitted, response, retry) \in AttemptRecord
<1>1. 0 \in Times /\ 0 \in 0 .. MaxTime + RetryAfter /\ <<>> \in Errands
  BY Sizes DEF Errands, Preparations
<1>2. /\ NoJob \in JobRecord /\ NoWorker \in WorkerRecord /\ NoReport \in ReportRecord /\ NoAttempt \in AttemptRecord
      /\ ServerOff \in ServerRecord /\ [ServerOff EXCEPT !.at = "GONE"] \in ServerRecord
  <2>1. NoJob \in JobRecord
    BY DEF NoJob, JobRecord
  <2>2. NoWorker \in WorkerRecord
    BY DEF NoWorker, WorkerRecord
  <2>3. NoReport \in ReportRecord
    BY DEF ReportRecord
  <2>4. NoAttempt \in AttemptRecord
    <3>1. NoAttempt \in AttemptFields
      BY <1>1 DEF NoAttempt, AttemptFields
    <3>2. NoAttempt.rows = 0
      BY DEF NoAttempt
    <3> QED
      BY <3>1, <3>2 DEF AttemptRecord
  <2>5. ServerOff \in ServerRecord /\ [ServerOff EXCEPT !.at = "GONE"] \in ServerRecord
    BY <1>1 DEF ServerOff, ServerRecord
  <2> QED
    BY <2>1, <2>2, <2>3, <2>4, <2>5
<1>3. ASSUME NEW v \in ServerRecord
      PROVE  /\ \A td \in Errands : [v EXCEPT !.todo = td] \in ServerRecord
             /\ Lost(v) \in ServerRecord /\ [Lost(v) EXCEPT !.todo = <<>>] \in ServerRecord
             /\ \A b \in BOOLEAN : [v EXCEPT !.awake = b] \in ServerRecord /\ [v EXCEPT !.stopSoon = b] \in ServerRecord
  <2>1. Lost(v) \in ServerRecord
    BY DEF Lost, ServerRecord
  <2>2. \A w \in ServerRecord : \A td \in Errands : [w EXCEPT !.todo = td] \in ServerRecord
    BY DEF ServerRecord
  <2>3. \A b \in BOOLEAN : [v EXCEPT !.awake = b] \in ServerRecord /\ [v EXCEPT !.stopSoon = b] \in ServerRecord
    BY DEF ServerRecord
  <2> QED
    BY <1>1, <2>1, <2>2, <2>3
<1>4. ASSUME NEW a \in AttemptRecord, NEW result \in {"SUCCEEDED", "FAILED", "RATE_LIMITED", "UNKNOWN"},
             NEW submitted \in {"YES", "NO", "UNKNOWN"}, NEW response \in BOOLEAN, NEW retry \in 0 .. MaxTime + RetryAfter,
             a.result = "NONE"
      PROVE  ClosedAttempt(a, result, submitted, response, retry) \in AttemptRecord
  <2>1. a \in AttemptFields /\ a.rows \in 0 .. 1
    BY <1>4 DEF AttemptRecord, AttemptFields
  <2>2. PICK n \in 0 .. 2 : n = IF response THEN a.rows ELSE a.rows + 1
    BY <2>1
  <2>3. ClosedAttempt(a, result, submitted, response, retry)
          = [a EXCEPT !.result = result, !.submitted = submitted, !.retry = retry, !.rows = n]
    BY <2>1, <2>2 DEF ClosedAttempt, AttemptFields
  <2>4. /\ result \in {"NONE", "SUCCEEDED", "FAILED", "RATE_LIMITED", "UNKNOWN"}
        /\ submitted \in {"NONE", "YES", "NO", "UNKNOWN"}
    OBVIOUS
  <2>5. /\ [a EXCEPT !.result = result, !.submitted = submitted, !.retry = retry, !.rows = n] \in AttemptFields
        /\ [a EXCEPT !.result = result, !.submitted = submitted, !.retry = retry, !.rows = n].result = result
    BY <2>1, <2>4 DEF AttemptFields
  <2>6. result # "NONE"
    OBVIOUS
  <2> QED
    BY <2>3, <2>5, <2>6 DEF AttemptRecord
<1> QED
  BY <1>2, <1>3, <1>4

StartedAt(t) == [NoAttempt EXCEPT !.start = t, !.rows = 1]

(* A login that starts makes an attempt.                                    *)
LEMMA StartedTyped ==
    ASSUME NEW t \in Times
    PROVE  /\ StartedAt(t) \in AttemptRecord
           /\ StartedAt(t).start = t /\ StartedAt(t).rows = 1 /\ StartedAt(t).retry = 0 /\ StartedAt(t).result = "NONE"
<1>1. NoAttempt \in AttemptRecord /\ NoAttempt.retry = 0 /\ NoAttempt.result = "NONE"
  BY RecordUpdates DEF NoAttempt
<1>2. ASSUME NEW a \in AttemptRecord
      PROVE  /\ [a EXCEPT !.start = t, !.rows = 1] \in AttemptRecord
             /\ [a EXCEPT !.start = t, !.rows = 1].start = t /\ [a EXCEPT !.start = t, !.rows = 1].rows = 1
             /\ [a EXCEPT !.start = t, !.rows = 1].retry = a.retry /\ [a EXCEPT !.start = t, !.rows = 1].result = a.result
  <2>1. 1 \in 0 .. 2
    OBVIOUS
  <2>2. PICK n \in 0 .. 2 : n = 1
    BY <2>1
  <2>3. a \in AttemptFields
    BY DEF AttemptRecord
  <2>4. /\ [a EXCEPT !.start = t, !.rows = n] \in AttemptFields
        /\ [a EXCEPT !.start = t, !.rows = n].start = t /\ [a EXCEPT !.start = t, !.rows = n].rows = n
        /\ [a EXCEPT !.start = t, !.rows = n].retry = a.retry /\ [a EXCEPT !.start = t, !.rows = n].result = a.result
    BY <2>3 DEF AttemptFields
  <2>5. PICK b \in AttemptFields : b = [a EXCEPT !.start = t, !.rows = n] /\ b.rows = 1
    BY <2>2, <2>4
  <2>6. b \in AttemptFields /\ b.rows = 1
    BY <2>5
  <2>7. b.rows < 2
    BY <2>6
  <2>8. b \in AttemptRecord
    BY <2>6, <2>7, Zenon DEF AttemptRecord
  <2> QED
    BY <2>2, <2>4, <2>5, <2>8
<1> QED
  BY <1>1, <1>2 DEF StartedAt

(* What a server is left with has a type.                                   *)
LEMMA ServerTyped ==
    ASSUME server \in [Servers -> ServerRecord], NEW s \in Servers
    PROVE  /\ \A td \in Errands : SetTodo(s, td) => server' \in [Servers -> ServerRecord]
           /\ \A v \in ServerRecord : [server EXCEPT ![s] = v] \in [Servers -> ServerRecord]
           /\ \A kind : Next1(s, kind) => Rest(s) \in Errands
<1>1. server[s] \in ServerRecord /\ server[s].todo \in Errands
  BY DEF ServerRecord
<1>2. ASSUME NEW td \in Errands, SetTodo(s, td) PROVE server' \in [Servers -> ServerRecord]
  <2>1. [server[s] EXCEPT !.todo = td] \in ServerRecord
    BY <1>1, RecordUpdates
  <2> QED
    BY <1>2, <2>1 DEF SetTodo
<1>3. \A kind : Next1(s, kind) => Rest(s) \in Errands
  BY <1>1, ErrandShapes DEF Next1, Rest
<1> QED
  BY <1>2, <1>3

(* The errands of the several kinds belong to a job.                        *)
LEMMA ErrandJob ==
    ASSUME server \in [Servers -> ServerRecord], NEW s \in Servers, server[s].todo # <<>>,
           Head(server[s].todo).kind \in {"LAUNCH", "PID", "END_ROW", "NOT_SENT", "PENDING"}
    PROVE  TodoJob(s) \in Jobs
<1>1. server[s].todo \in Errands
  BY DEF ServerRecord
<1> QED
  BY <1>1, ErrandShapes DEF TodoJob

(* The types hold at first.                                                 *)
LEMMA ServerTypesInit == ServersInit => ServerTypes
<1> SUFFICES ASSUME ServersInit PROVE ServerTypes
  OBVIOUS
<1>1. 0 \in Times /\ 0 \in 0 .. MaxFaults
  BY Sizes
<1>2. NoRow \in RowRecord /\ NoInstance \in [owner : Servers \cup {Nobody}, beat : Times]
  BY <1>1 DEF NoRow, RowRecord, NoInstance
<1> QED
  BY <1>1, <1>2, RecordUpdates DEF ServersInit, ServerTypes

(* Closing attempts keeps their types.                                      *)
LEMMA ClosingTyped ==
    ASSUME ServerTypes
    PROVE  /\ \A js : CloseUnknown(js) /\ js \subseteq {k \in Jobs : IsPending(k)} => attempt' \in [Jobs -> AttemptRecord] /\ hold' \in BOOLEAN
           /\ \A j \in Jobs : \A result \in {"SUCCEEDED", "FAILED", "RATE_LIMITED", "UNKNOWN"}, submitted \in {"YES", "NO", "UNKNOWN"},
                 response \in BOOLEAN :
                   RecordResult(j, result, submitted, response) => attempt' \in [Jobs -> AttemptRecord] /\ hold' \in BOOLEAN
<1>1. 0 \in 0 .. MaxTime + RetryAfter /\ clock + RetryAfter \in 0 .. MaxTime + RetryAfter
  BY Sizes DEF ServerTypes
<1>2. \A k \in Jobs : attempt[k] \in AttemptRecord
  BY DEF ServerTypes
<1>3. ASSUME NEW js, CloseUnknown(js), js \subseteq {k \in Jobs : IsPending(k)}
      PROVE  attempt' \in [Jobs -> AttemptRecord] /\ hold' \in BOOLEAN
  <2>1. \A k \in Jobs : k \in js => ClosedAttempt(attempt[k], "UNKNOWN", "UNKNOWN", FALSE, 0) \in AttemptRecord
    BY <1>1, <1>2, <1>3, RecordUpdates DEF IsPending
  <2>2. attempt' \in [Jobs -> AttemptRecord]
    BY <1>2, <1>3, <2>1 DEF CloseUnknown
  <2>3. hold' \in BOOLEAN
    BY <1>3, Zenon DEF CloseUnknown
  <2> QED
    BY <2>2, <2>3
<1>4. ASSUME NEW j \in Jobs, NEW result \in {"SUCCEEDED", "FAILED", "RATE_LIMITED", "UNKNOWN"}, NEW submitted \in {"YES", "NO", "UNKNOWN"},
             NEW response \in BOOLEAN, RecordResult(j, result, submitted, response)
      PROVE  attempt' \in [Jobs -> AttemptRecord] /\ hold' \in BOOLEAN
  <2>1. CASE ~IsPending(j)
    BY <1>4, <2>1 DEF RecordResult, ServerTypes
  <2>2. CASE IsPending(j)
    <3>1. PICK retry \in 0 .. MaxTime + RetryAfter : attempt' = [attempt EXCEPT ![j] = ClosedAttempt(@, result, submitted, response, retry)]
      BY <1>1, <1>4, <2>2 DEF RecordResult
    <3>2. ClosedAttempt(attempt[j], result, submitted, response, retry) \in AttemptRecord
      BY <1>2, <2>2, RecordUpdates DEF IsPending
    <3>3. hold' \in BOOLEAN
      BY <1>4, <2>2, Zenon DEF RecordResult
    <3> QED
      BY <3>1, <3>2, <3>3 DEF ServerTypes
  <2> QED
    BY <2>1, <2>2
<1> QED
  BY <1>3, <1>4

(* The steps of a server and its handlers.                                  *)
LEMMA TransactionTypes ==
    ASSUME ServerTypes, NEW s \in Servers, Transaction(s)
    PROVE  ServerTypes'
<1> USE DEF ServerTypes
<1>1. server[s] \in ServerRecord /\ <<>> \in Errands
  BY DEF Errands, Preparations
<1>2. [Lost(server[s]) EXCEPT !.todo = <<>>] \in ServerRecord
  BY <1>1, RecordUpdates
<1>3. CASE InterruptUnowned(s)
  <2>1. row' \in [Jobs -> RowRecord]
    <3>1. EndedRow("INTERRUPTED") \in RowRecord
      BY Sizes DEF EndedRow, NoRow, RowRecord
    <3> QED
      BY <1>3, <3>1 DEF InterruptUnowned
  <2>2. server' \in [Servers -> ServerRecord]
    BY <1>2, <1>3, ServerTyped, Zenon DEF InterruptUnowned
  <2> QED
    BY <1>3, <2>1, <2>2 DEF InterruptUnowned, timeVars, workerVars
<1>4. CASE CloseOrphans(s)
  <2>1. server' \in [Servers -> ServerRecord]
    BY <1>4, ServerTyped, Zenon DEF CloseOrphans
  <2>2. attempt' \in [Jobs -> AttemptRecord] /\ hold' \in BOOLEAN
    <3>1. CloseUnknown(Orphans) /\ Orphans \subseteq {k \in Jobs : IsPending(k)}
      BY <1>4 DEF CloseOrphans, Orphans
    <3> QED
      BY <3>1, ClosingTyped
  <2> QED
    BY <1>4, <2>1, <2>2 DEF CloseOrphans, timeVars, workerVars
<1>5. CASE CreateStartingJob(s)
  <2>1. CASE UNCHANGED <<row, attempt>>
    <3>1. server' \in [Servers -> ServerRecord]
      <4>1. CASE SetTodo(s, <<>>)
        BY <1>1, <4>1, ServerTyped
      <4>2. CASE server' = [server EXCEPT ![s] = [Lost(@) EXCEPT !.todo = <<>>]]
        BY <1>2, <4>2, ServerTyped
      <4>3. CASE \E j \in Jobs : SetTodo(s, <<Step("LAUNCH", j)>>)
        BY <4>3, ServerTyped DEF Errands, ErrandsOf, LaunchOf
      <4> QED
        BY <1>5, <4>1, <4>2, <4>3, Zenon DEF CreateStartingJob
    <3> QED
      BY <1>5, <2>1, <3>1 DEF CreateStartingJob, timeVars, workerVars
  <2>2. CASE ~UNCHANGED <<row, attempt>>
    <3>1. PICK j \in Jobs :
            /\ row' = [row EXCEPT ![j] = [state |-> "ACTIVE", pid |-> FALSE, seen |-> clock]]
            /\ attempt' = [attempt EXCEPT ![j] = [NoAttempt EXCEPT !.start = clock, !.rows = 1]]
            /\ SetTodo(s, LaunchOf(j))
      BY <1>5, <2>2, Zenon DEF CreateStartingJob, LaunchOf
    <3>2. LaunchOf(j) \in Errands
      BY DEF Errands, ErrandsOf
    <3>3. server' \in [Servers -> ServerRecord]
      BY <3>1, <3>2, ServerTyped
    <3>4. [state |-> "ACTIVE", pid |-> FALSE, seen |-> clock] \in RowRecord
      BY DEF RowRecord
    <3>5. [NoAttempt EXCEPT !.start = clock, !.rows = 1] \in AttemptRecord
      BY StartedTyped DEF StartedAt
    <3> QED
      BY <1>5, <3>1, <3>3, <3>4, <3>5 DEF CreateStartingJob, timeVars, workerVars
  <2> QED
    BY <2>1, <2>2
<1>6. CASE LaunchWorker(s)
  <2> DEFINE j == TodoJob(s)
  <2>1. j \in Jobs
    BY <1>6, ErrandJob DEF LaunchWorker, Next1
  <2> HIDE DEF j
  <2>2. PidOf(j) \in Errands
    BY <2>1 DEF Errands, ErrandsOf
  <2>3. server' \in [Servers -> ServerRecord]
    BY <1>6, <2>2, ServerTyped DEF LaunchWorker, PidOf, j
  <2>4. [worker[j] EXCEPT !.at = "WAITING"] \in WorkerRecord
    BY <2>1 DEF WorkerRecord
  <2>5. [job[j] EXCEPT !.owner = s, !.phase = "FORKED"] \in JobRecord
    <3>1. job[j] \in JobRecord
      BY <2>1
    <3> QED
      BY <3>1 DEF JobRecord
  <2>6. worker' \in [Jobs -> WorkerRecord]
    BY <1>6, <2>4 DEF LaunchWorker, j
  <2>7. job' = [job EXCEPT ![j].owner = s, ![j].phase = "FORKED"]
    BY <1>6 DEF LaunchWorker, j
  <2>8. job' \in [Jobs -> JobRecord]
    BY <2>1, <2>5, <2>7
  <2> QED
    BY <1>6, <2>3, <2>6, <2>8 DEF LaunchWorker, timeVars, dbVars
<1>7. CASE RecordWorkerPid(s)
  <2>1. server' \in [Servers -> ServerRecord]
    BY <1>7, ServerTyped, Zenon DEF RecordWorkerPid
  <2>2. row' \in [Jobs -> RowRecord]
    <3> DEFINE j == TodoJob(s)
    <3>1. j \in Jobs
      BY <1>7, ErrandJob DEF RecordWorkerPid, Next1
    <3>2. row' = [row EXCEPT ![j].pid = row[j].state = "ACTIVE"]
      BY <1>7 DEF RecordWorkerPid
    <3>3. PICK active \in BOOLEAN : active = (row[j].state = "ACTIVE")
      OBVIOUS
    <3> HIDE DEF j
    <3>4. row' = [row EXCEPT ![j].pid = active]
      BY <3>2, <3>3, Zenon
    <3>5. [row[j] EXCEPT !.pid = active] \in RowRecord
      BY <3>1 DEF RowRecord
    <3> QED
      BY <3>4, <3>5
  <2> QED
    BY <1>7, <2>1, <2>2 DEF RecordWorkerPid, timeVars, workerVars
<1>8. CASE FailLaunch(s)
  <2>1. TodoJob(s) \in Jobs
    BY <1>8, ErrandJob DEF FailLaunch, Next1
  <2>2. <<Step("END_ROW", TodoJob(s)), Step("NOT_SENT", TodoJob(s))>> \in Errands
    BY <2>1 DEF Errands, ErrandsOf, EndOf, UnsentOf
  <2>3. server' \in [Servers -> ServerRecord]
    BY <1>8, <2>2, ServerTyped, Zenon DEF FailLaunch
  <2> QED
    BY <1>8, <2>3 DEF FailLaunch, timeVars, dbVars, workerVars
<1>9. CASE RecordEnded(s)
  <2>1. server' \in [Servers -> ServerRecord]
    BY <1>9, ServerTyped, Zenon DEF RecordEnded
  <2>2. EndedRow("ENDED") \in RowRecord
    BY Sizes DEF EndedRow, NoRow, RowRecord
  <2>3. row' \in [Jobs -> RowRecord]
    BY <1>9, <2>2 DEF RecordEnded
  <2> QED
    BY <1>9, <2>1, <2>3 DEF RecordEnded, timeVars, workerVars
<1>10. CASE CloseAttemptNotSent(s)
  <2>1. server' \in [Servers -> ServerRecord]
    BY <1>10, ServerTyped, Zenon DEF CloseAttemptNotSent
  <2>2. TodoJob(s) \in Jobs
    BY <1>10, ErrandJob DEF CloseAttemptNotSent, Next1
  <2>3. attempt' \in [Jobs -> AttemptRecord] /\ hold' \in BOOLEAN
    BY <1>10, <2>2, ClosingTyped DEF CloseAttemptNotSent
  <2> QED
    BY <1>10, <2>1, <2>3 DEF CloseAttemptNotSent, timeVars, workerVars
<1>11. CASE ClosePendingAttempt(s)
  <2>1. server' \in [Servers -> ServerRecord]
    BY <1>11, ServerTyped, Zenon DEF ClosePendingAttempt
  <2>2. attempt' \in [Jobs -> AttemptRecord] /\ hold' \in BOOLEAN
    <3>1. CloseUnknown({TodoJob(s)} \cap {j \in Jobs : IsPending(j)})
      BY <1>11 DEF ClosePendingAttempt
    <3>2. {TodoJob(s)} \cap {j \in Jobs : IsPending(j)} \subseteq {k \in Jobs : IsPending(k)}
      OBVIOUS
    <3> QED
      BY <3>1, <3>2, ClosingTyped
  <2> QED
    BY <1>11, <2>1, <2>2 DEF ClosePendingAttempt, timeVars, workerVars
<1> QED
  BY <1>3, <1>4, <1>5, <1>6, <1>7, <1>8, <1>9, <1>10, <1>11 DEF Transaction

(* The other steps of a server.                                             *)
LEMMA ServerStepTypes ==
    ASSUME ServerTypes, NEW s \in Servers,
           \/ CreateManager(s) \/ RenewInstanceLock(s) \/ StartAuditJob(s) \/ StopWorkersAfterLockLost(s)
           \/ CloseManager(s) \/ ServerCrashes(s) \/ HoldUp(s) \/ WakeUp(s)
    PROVE  ServerTypes'
<1> USE DEF ServerTypes
<1>1. server[s] \in ServerRecord /\ NoInstance \in [owner : Servers \cup {Nobody}, beat : Times]
  BY Sizes DEF NoInstance
<1>2. [ServerOff EXCEPT !.at = "GONE"] \in ServerRecord
  BY RecordUpdates
<1>3. CASE CreateManager(s)
  <2>1. PICK td \in Errands : td = <<Step("INTERRUPT", 0), Step("ORPHANS", 0)>>
    BY DEF Errands, Preparations
  <2>2. server' = [server EXCEPT ![s].at = "UP", ![s].todo = td]
    BY <1>3, <2>1, Zenon DEF CreateManager
  <2>3. [server[s] EXCEPT !.at = "UP", !.todo = td] \in ServerRecord
    BY <1>1 DEF ServerRecord
  <2>4. server' \in [Servers -> ServerRecord]
    BY <2>2, <2>3
  <2> QED
    BY <1>3, <2>4 DEF CreateManager, timeVars, workerVars
<1>4. CASE RenewInstanceLock(s)
  <2>1. CASE HoldsLock(s)
    BY <1>4, <2>1 DEF RenewInstanceLock, timeVars, workerVars
  <2>2. CASE ~HoldsLock(s)
    <3>1. Lost(server[s]) \in ServerRecord
      BY <1>1, RecordUpdates
    <3> QED
      BY <1>4, <2>2, <3>1 DEF RenewInstanceLock, timeVars, workerVars
  <2> QED
    BY <2>1, <2>2
<1>5. CASE StartAuditJob(s)
  <2>1. server' \in [Servers -> ServerRecord]
    BY <1>5, ServerTyped DEF StartAuditJob, Errands, Preparations
  <2> QED
    BY <1>5, <2>1 DEF StartAuditJob, timeVars, dbVars, workerVars
<1>6. CASE StopWorkersAfterLockLost(s)
  <2>1. server' \in [Servers -> ServerRecord]
    BY <1>1, <1>6, RecordUpdates DEF StopWorkersAfterLockLost
  <2>2. job' \in [Jobs -> JobRecord] /\ worker' \in [Jobs -> WorkerRecord]
    <3>1. CASE UNCHANGED <<job, worker>>
      BY <3>1
    <3>2. CASE \E j \in Jobs : Tracks(s, j) /\ IsUndecided(j) /\ RequestStop(j, TRUE)
      <4>1. PICK j \in Jobs : RequestStop(j, TRUE)
        BY <3>2
      <4>2. job' \in [Jobs -> JobRecord]
        <5>1. PICK kill \in BOOLEAN : kill = (job[j].killTimer \/ TRUE)
          OBVIOUS
        <5>2. job' = [job EXCEPT ![j].stopRequested = TRUE, ![j].killTimer = kill]
          BY <4>1, <5>1, Zenon DEF RequestStop
        <5>3. job[j] \in JobRecord
          OBVIOUS
        <5>4. [job[j] EXCEPT !.stopRequested = TRUE, !.killTimer = kill] \in JobRecord
          BY <5>3 DEF JobRecord
        <5> QED
          BY <5>2, <5>4
      <4>3. PICK told \in BOOLEAN : told = (worker[j].stop \/ (job[j].phase = "STARTED" /\ IsAlive(j)))
        OBVIOUS
      <4>4. worker' = [worker EXCEPT ![j].stop = told]
        BY <4>1, <4>3, Zenon DEF RequestStop
      <4>5. [worker[j] EXCEPT !.stop = told] \in WorkerRecord
        BY DEF WorkerRecord
      <4> QED
        BY <4>2, <4>4, <4>5
    <3> QED
      BY <1>6, <3>1, <3>2 DEF StopWorkersAfterLockLost
  <2> QED
    BY <1>6, <2>1, <2>2 DEF StopWorkersAfterLockLost, timeVars, dbVars
<1>7. CASE CloseManager(s)
  BY <1>1, <1>2, <1>7 DEF CloseManager, timeVars, workerVars
<1>8. CASE ServerCrashes(s)
  <2>1. \A j \in Jobs : Forgotten(j) \in JobRecord /\ NoReport \in ReportRecord
    BY RecordUpdates DEF Forgotten, JobRecord
  <2>2. faults' \in 0 .. MaxFaults
    BY <1>8, Sizes DEF ServerCrashes
  <2>3. job' \in [Jobs -> JobRecord] /\ report' \in [Jobs -> ReportRecord]
    BY <1>8, <2>1 DEF ServerCrashes
  <2>4. server' \in [Servers -> ServerRecord]
    BY <1>2, <1>8 DEF ServerCrashes
  <2> QED
    BY <1>8, <2>2, <2>3, <2>4 DEF ServerCrashes, dbVars
<1>9. CASE HoldUp(s)
  <2>1. faults' \in 0 .. MaxFaults
    BY <1>9, Sizes DEF HoldUp
  <2>2. server' \in [Servers -> ServerRecord]
    BY <1>1, <1>9, RecordUpdates DEF HoldUp
  <2> QED
    BY <1>9, <2>1, <2>2 DEF HoldUp, dbVars, workerVars
<1>10. CASE WakeUp(s)
  <2>1. server' \in [Servers -> ServerRecord]
    BY <1>1, <1>10, RecordUpdates DEF WakeUp
  <2> QED
    BY <1>10, <2>1 DEF WakeUp, timeVars, dbVars, workerVars
<1> QED
  BY <1>3, <1>4, <1>5, <1>6, <1>7, <1>8, <1>9, <1>10

(* The steps of a server about a job.                                       *)
LEMMA JobStepTypes ==
    ASSUME ServerTypes, NEW s \in Servers, NEW j \in Jobs, JobStep(s, j)
    PROVE  ServerTypes'
<1> USE DEF ServerTypes
<1>1. job[j] \in JobRecord /\ worker[j] \in WorkerRecord /\ row[j] \in RowRecord /\ report[j] \in ReportRecord
  OBVIOUS
<1>2. \A at \in {"AFTER", "LOGIN"} : [worker[j] EXCEPT !.at = at] \in WorkerRecord
  BY <1>1 DEF WorkerRecord
<1>3. \A b \in BOOLEAN : [worker[j] EXCEPT !.signalled = b] \in WorkerRecord
  BY <1>1 DEF WorkerRecord
<1>4. Signalled(j) => worker' \in [Jobs -> WorkerRecord]
  <2>1. PICK b \in BOOLEAN : b = IsAlive(j)
    BY DEF IsAlive
  <2> QED
    BY <1>3, <2>1 DEF Signalled
<1>5. CASE ReceiveReady(s, j)
  <2>1. PICK sent \in BOOLEAN : sent = ~job[j].stopRequested
    OBVIOUS
  <2>2. PICK at \in {"AFTER", "LOGIN"} : at = IF job[j].stopRequested THEN "AFTER" ELSE "LOGIN"
    OBVIOUS
  <2>3. job' = [job EXCEPT ![j].phase = "STARTED", ![j].startSent = sent]
    BY <1>5, <2>1, Zenon DEF ReceiveReady
  <2>4. worker' = [worker EXCEPT ![j].at = at]
    BY <1>5, <2>2, Zenon DEF ReceiveReady
  <2>5. [job[j] EXCEPT !.phase = "STARTED", !.startSent = sent] \in JobRecord
    BY <1>1 DEF JobRecord
  <2>6. row' \in [Jobs -> RowRecord]
    BY <1>5 DEF ReceiveReady, RowRecord
  <2>7. job' \in [Jobs -> JobRecord] /\ worker' \in [Jobs -> WorkerRecord]
    BY <1>2, <2>3, <2>4, <2>5
  <2> QED
    BY <1>5, <2>6, <2>7 DEF ReceiveReady, timeVars
<1>6. CASE ReceiveHeartbeat(s, j)
  <2>1. row' \in [Jobs -> RowRecord]
    BY <1>6 DEF ReceiveHeartbeat, RowRecord
  <2> QED
    BY <1>6, <2>1 DEF ReceiveHeartbeat, timeVars, workerVars
<1>7. CASE ReceiveAuthState(s, j)
  <2>1. report' \in [Jobs -> ReportRecord]
    BY <1>7, RecordUpdates DEF ReceiveAuthState
  <2>2. attempt' \in [Jobs -> AttemptRecord] /\ hold' \in BOOLEAN
    <3>1. CASE UNCHANGED <<attempt, hold>>
      BY <3>1
    <3>2. CASE RecordResult(j, report[j].result, report[j].submitted, report[j].response)
      <4>1. report[j] \in Said
        BY <1>1, <1>7 DEF ReceiveAuthState, ReportRecord
      <4>2. /\ report[j].result \in {"SUCCEEDED", "FAILED", "RATE_LIMITED", "UNKNOWN"}
            /\ report[j].submitted \in {"YES", "NO", "UNKNOWN"} /\ report[j].response \in BOOLEAN
        BY <4>1 DEF Said
      <4> QED
        BY <3>2, <4>2, ClosingTyped
    <3> QED
      BY <1>7, <3>1, <3>2 DEF ReceiveAuthState
  <2> QED
    BY <1>7, <2>1, <2>2 DEF ReceiveAuthState, timeVars
<1>8. CASE LockLostKill(s, j)
  <2>1. job' \in [Jobs -> JobRecord]
    <3>1. [job[j] EXCEPT !.killTimer = FALSE, !.phase = "DONE"] \in JobRecord
      BY <1>1 DEF JobRecord
    <3> QED
      BY <1>8, <3>1 DEF LockLostKill
  <2> QED
    BY <1>4, <1>8, <2>1 DEF LockLostKill, timeVars, dbVars
<1>9. CASE EndAndKill(s, j)
  <2>1. job' \in [Jobs -> JobRecord]
    <3>1. \A failed \in BOOLEAN : [job[j] EXCEPT !.phase = "DONE", !.startFailed = failed] \in JobRecord
      BY <1>1 DEF JobRecord
    <3> QED
      BY <1>9, <3>1 DEF EndAndKill
  <2> QED
    BY <1>4, <1>9, <2>1 DEF EndAndKill, timeVars, dbVars
<1>10. CASE WorkerExited(s, j)
  <2>1. Forgotten(j) \in JobRecord
    BY RecordUpdates DEF Forgotten, JobRecord
  <2>2. <<Step("END_ROW", j), Step(ClosingOf(j), j)>> \in Errands
    BY DEF Errands, ErrandsOf, EndOf, UnsentOf, PendingOf, ClosingOf
  <2>3. server' \in [Servers -> ServerRecord]
    BY <1>10, <2>2, ServerTyped DEF WorkerExited
  <2>4. job' \in [Jobs -> JobRecord] /\ report' \in [Jobs -> ReportRecord]
    BY <1>10, <2>1, RecordUpdates DEF WorkerExited
  <2> QED
    BY <1>10, <2>3, <2>4 DEF WorkerExited, timeVars, dbVars
<1> QED
  BY <1>5, <1>6, <1>7, <1>8, <1>9, <1>10 DEF JobStep

-----------------------------------------------------------------------------
(* The steps of a worker. *)

InLogin(j) == worker[j].at \in {"LOGIN", "PRESSED"}

(* Nothing but the worker of a job and its report changes.                  *)
OnlyWorker(j) ==
    /\ UNCHANGED <<clock, faults, inst, server, row, job, attempt, hold>>
    /\ worker' \in [Jobs -> WorkerRecord] /\ report' \in [Jobs -> ReportRecord]
    /\ \A i \in Jobs \ {j} : worker'[i] = worker[i] /\ report'[i] = report[i]
    /\ IsAlive(j) /\ worker'[j].at # "NONE"
    /\ worker'[j].at # "GONE" => worker'[j].signalled = worker[j].signalled

(* The login goes on: it is pressed, or sent.                               *)
GoesOn(j) ==
    /\ InLogin(j) /\ report'[j] = report[j] /\ worker'[j].ok = worker[j].ok
    /\ worker'[j].at \in {"LOGIN", "PRESSED"}
    /\ worker'[j].at = "LOGIN" => worker[j].at = "LOGIN" /\ worker'[j].pressed = worker[j].pressed

(* It is over, and the worker says what it knows of it.                     *)
Tells(j) ==
    /\ InLogin(j) /\ worker'[j].at = "AFTER" /\ report'[j] \in Said
    /\ worker[j].ok => worker'[j].ok
    /\ report'[j].result = "SUCCEEDED" => worker'[j].ok
    /\ report'[j].submitted = "NO" /\ PressOK(j) => j \in ScriptJobs \/ ~worker'[j].pressed
    /\ report'[j].submitted = "YES" /\ report'[j].response => worker'[j].posts <= 1

(* Or the worker does nothing to the site.                                  *)
Rests(j) ==
    /\ report'[j] = report[j]
    /\ worker'[j].posts = worker[j].posts /\ worker'[j].ok = worker[j].ok /\ worker'[j].pressed = worker[j].pressed
    /\ worker'[j].at = worker[j].at \/ worker'[j].at \in {"AFTER", "GONE"}

(* A new worker and its report.                                             *)
LEMMA WorkerSet ==
    ASSUME ServerTypes, NEW j \in Jobs, NEW w \in WorkerRecord, SetWorker(j, w), OthersStay
    PROVE  /\ UNCHANGED <<clock, faults, inst, server, row, job, attempt, hold>>
           /\ worker' \in [Jobs -> WorkerRecord] /\ worker'[j] = w
           /\ \A i \in Jobs \ {j} : worker'[i] = worker[i]
           /\ report' = report =>
                report' \in [Jobs -> ReportRecord] /\ \A i \in Jobs : report'[i] = report[i]
<1>1. UNCHANGED <<clock, faults, inst, server, row, job, attempt, hold>>
  BY DEF OthersStay, timeVars, dbVars
<1>2. worker \in [Jobs -> WorkerRecord] /\ report \in [Jobs -> ReportRecord]
  BY DEF ServerTypes
<1>3. worker' \in [Jobs -> WorkerRecord] /\ worker'[j] = w /\ \A i \in Jobs \ {j} : worker'[i] = worker[i]
  BY <1>2 DEF SetWorker
<1> QED
  BY <1>1, <1>2, <1>3

(* A worker that leaves its login.                                          *)
LEMMA Leaving ==
    ASSUME ServerTypes, NEW j \in Jobs, InLogin(j), NEW w \in WorkerRecord, NEW result \in {"SUCCEEDED", "FAILED", "RATE_LIMITED"},
           NEW submitted \in {"YES", "NO", "UNKNOWN"}, NEW response \in BOOLEAN, Leave(j, w, result, submitted, response), OthersStay,
           w.signalled = worker[j].signalled
    PROVE  /\ OnlyWorker(j)
           /\ worker'[j].at = "AFTER" /\ worker'[j].posts = w.posts /\ worker'[j].ok = w.ok /\ worker'[j].pressed = w.pressed
           /\ report'[j] \in Said /\ report'[j].result = result /\ report'[j].submitted = submitted /\ report'[j].response = response
<1>1. PICK v \in WorkerRecord : /\ v = [w EXCEPT !.at = "AFTER", !.seen = FALSE]
                                /\ v.at = "AFTER" /\ v.posts = w.posts /\ v.ok = w.ok /\ v.pressed = w.pressed /\ v.signalled = w.signalled
  <2>1. /\ [w EXCEPT !.at = "AFTER", !.seen = FALSE] \in WorkerRecord
        /\ [w EXCEPT !.at = "AFTER", !.seen = FALSE].at = "AFTER" /\ [w EXCEPT !.at = "AFTER", !.seen = FALSE].posts = w.posts
        /\ [w EXCEPT !.at = "AFTER", !.seen = FALSE].ok = w.ok /\ [w EXCEPT !.at = "AFTER", !.seen = FALSE].pressed = w.pressed
        /\ [w EXCEPT !.at = "AFTER", !.seen = FALSE].signalled = w.signalled
    BY DEF WorkerRecord
  <2> QED
    BY <2>1, Zenon
<1>2. PICK r \in Said : /\ r = [result |-> result, submitted |-> submitted, response |-> response]
                        /\ r.result = result /\ r.submitted = submitted /\ r.response = response
  <2>1. /\ [result |-> result, submitted |-> submitted, response |-> response] \in Said
        /\ [result |-> result, submitted |-> submitted, response |-> response].result = result
        /\ [result |-> result, submitted |-> submitted, response |-> response].submitted = submitted
        /\ [result |-> result, submitted |-> submitted, response |-> response].response = response
    BY DEF Said
  <2> QED
    BY <2>1, Zenon
<1>3. SetWorker(j, v) /\ report' = [report EXCEPT ![j] = r]
  BY <1>1, <1>2, Zenon DEF Leave
<1>4. report \in [Jobs -> ReportRecord] /\ r \in ReportRecord
  BY <1>2 DEF ServerTypes, ReportRecord
<1>5. report' \in [Jobs -> ReportRecord] /\ report'[j] = r /\ \A i \in Jobs \ {j} : report'[i] = report[i]
  BY <1>3, <1>4
<1>6. /\ UNCHANGED <<clock, faults, inst, server, row, job, attempt, hold>>
      /\ worker' \in [Jobs -> WorkerRecord] /\ worker'[j] = v
      /\ \A i \in Jobs \ {j} : worker'[i] = worker[i]
  BY <1>3, WorkerSet
<1>7. IsAlive(j)
  BY DEF InLogin, IsAlive
<1>8. OnlyWorker(j)
  BY <1>1, <1>5, <1>6, <1>7 DEF OnlyWorker
<1> QED
  BY <1>1, <1>2, <1>5, <1>6, <1>8

(* What a page sends before its browser is closed, and what the site says.  *)
LEMMA Closings ==
    ASSUME NEW v \in WorkerRecord
    PROVE  /\ \A w \in AfterClosing(v) : /\ w \in WorkerRecord /\ w.ok = v.ok /\ w.pressed = v.pressed /\ w.signalled = v.signalled
                                         /\ v.seen => w = v
           /\ \A w \in WorkerRecord : /\ Answered(w) \in WorkerRecord /\ Answered(w).posts <= 1
                                      /\ Answered(w).ok = w.ok /\ Answered(w).pressed = w.pressed /\ Answered(w).signalled = w.signalled
<1>1. \A n \in 1 .. MaxSends : n \in 0 .. 2
  BY ServersAssumption
<1>2. ASSUME NEW n \in 0 .. 2
      PROVE  /\ [v EXCEPT !.seen = TRUE, !.posts = n] \in WorkerRecord
             /\ [v EXCEPT !.seen = TRUE, !.posts = n].ok = v.ok /\ [v EXCEPT !.seen = TRUE, !.posts = n].pressed = v.pressed
             /\ [v EXCEPT !.seen = TRUE, !.posts = n].signalled = v.signalled
  BY DEF WorkerRecord
<1>3. \A w \in AfterSubmit(v) : w \in WorkerRecord /\ w.ok = v.ok /\ w.pressed = v.pressed /\ w.signalled = v.signalled
  <2> TAKE w \in AfterSubmit(v)
  <2>1. PICK n \in 1 .. MaxSends : w = [v EXCEPT !.seen = TRUE, !.posts = n]
    BY Zenon DEF AfterSubmit
  <2> QED
    BY <1>1, <1>2, <2>1
<1>4. ASSUME NEW w \in WorkerRecord
      PROVE  /\ Answered(w) \in WorkerRecord /\ Answered(w).posts <= 1
             /\ Answered(w).ok = w.ok /\ Answered(w).pressed = w.pressed /\ Answered(w).signalled = w.signalled
  <2>1. w.posts \in 0 .. 2
    BY DEF WorkerRecord
  <2>2. PICK n \in 0 .. 2 : n = (IF w.posts = 2 THEN 1 ELSE w.posts) /\ n <= 1
    BY <2>1
  <2>3. Answered(w) = [w EXCEPT !.posts = n]
    BY <2>2, Zenon DEF Answered
  <2> QED
    BY <2>2, <2>3 DEF WorkerRecord
<1>5. ASSUME NEW w \in AfterClosing(v)
      PROVE  /\ w \in WorkerRecord /\ w.ok = v.ok /\ w.pressed = v.pressed /\ w.signalled = v.signalled
             /\ v.seen => w = v
  <2>1. CASE w = v
    BY <2>1
  <2>2. CASE w # v
    BY <1>3, <1>5, <2>2, Zenon DEF AfterClosing
  <2> QED
    BY <2>1, <2>2
<1> QED
  BY <1>4, <1>5

(* A login that fails tells what it knows.                                  *)
LEMMA EndingTells ==
    ASSUME ServerTypes, NEW j \in Jobs, InLogin(j), NEW result \in {"FAILED", "RATE_LIMITED"},
           NEW submitted \in {"YES", "NO", "UNKNOWN"}, EndLogin(j, result, submitted), OthersStay,
           submitted = "YES" => worker[j].seen,
           submitted = "NO" /\ PressOK(j) => j \in ScriptJobs \/ ~worker[j].pressed
    PROVE  OnlyWorker(j) /\ Tells(j)
<1>1. worker[j] \in WorkerRecord
  BY DEF ServerTypes
<1>2. PICK w \in AfterClosing(worker[j]) :
        \/ Leave(j, w, result, submitted, submitted # "YES")
        \/ w.seen /\ Leave(j, Answered(w), result, submitted, TRUE)
  BY Zenon DEF EndLogin
<1>3. /\ w \in WorkerRecord /\ w.ok = worker[j].ok /\ w.pressed = worker[j].pressed /\ w.signalled = worker[j].signalled
      /\ Answered(w) \in WorkerRecord /\ Answered(w).posts <= 1
      /\ Answered(w).ok = w.ok /\ Answered(w).pressed = w.pressed /\ Answered(w).signalled = w.signalled
  BY <1>1, Closings
<1>4. CASE Leave(j, w, result, submitted, submitted # "YES")
  <2>1. PICK response \in BOOLEAN : response = (submitted # "YES")
    OBVIOUS
  <2>2. Leave(j, w, result, submitted, response)
    BY <1>4, <2>1, Zenon
  <2>3. /\ OnlyWorker(j)
        /\ worker'[j].at = "AFTER" /\ worker'[j].posts = w.posts /\ worker'[j].ok = w.ok /\ worker'[j].pressed = w.pressed
        /\ report'[j] \in Said /\ report'[j].result = result /\ report'[j].submitted = submitted /\ report'[j].response = response
    BY <1>3, <2>2, Leaving
  <2> QED
    BY <1>3, <2>1, <2>3 DEF Tells
<1>5. CASE Leave(j, Answered(w), result, submitted, TRUE)
  <2>1. PICK v \in WorkerRecord : v = Answered(w)
    BY <1>3
  <2>2. PICK response \in BOOLEAN : response = TRUE
    OBVIOUS
  <2>3. Leave(j, v, result, submitted, response)
    BY <1>5, <2>1, <2>2, Zenon
  <2>4. v.posts <= 1 /\ v.ok = worker[j].ok /\ v.pressed = worker[j].pressed /\ v.signalled = worker[j].signalled
    BY <1>3, <2>1
  <2>5. /\ OnlyWorker(j)
        /\ worker'[j].at = "AFTER" /\ worker'[j].posts = v.posts /\ worker'[j].ok = v.ok /\ worker'[j].pressed = v.pressed
        /\ report'[j] \in Said /\ report'[j].result = result /\ report'[j].submitted = submitted /\ report'[j].response = response
    BY <2>3, <2>4, Leaving
  <2> QED
    BY <2>4, <2>5 DEF Tells
<1> QED
  BY <1>2, <1>4, <1>5

(* Every step of a worker is one of these.                                  *)
LEMMA WorkerSteps ==
    ASSUME ServerTypes, NEW j \in Jobs, WorkerStep(j)
    PROVE  OnlyWorker(j) /\ (GoesOn(j) \/ Tells(j) \/ Rests(j))
<1>1. worker[j] \in WorkerRecord
  BY DEF ServerTypes
<1>2. ASSUME NEW w \in WorkerRecord, SetWorker(j, w), OthersStay, report' = report, IsAlive(j), w.at # "NONE",
             w.at # "GONE" => w.signalled = worker[j].signalled
      PROVE  OnlyWorker(j) /\ worker'[j] = w /\ report'[j] = report[j]
  BY <1>2, WorkerSet DEF OnlyWorker
<1>3. CASE SubmitLogin(j)
  <2>1. PICK w \in AfterSubmit(worker[j]) : SetWorker(j, w) /\ OthersStay /\ report' = report
    BY <1>3, Zenon DEF SubmitLogin
  <2>2. w \in WorkerRecord /\ w.at = worker[j].at /\ w.signalled = worker[j].signalled /\ w.ok = worker[j].ok /\ w.pressed = worker[j].pressed
    <3>1. PICK n \in 1 .. MaxSends : w = [worker[j] EXCEPT !.seen = TRUE, !.posts = n]
      BY Zenon DEF AfterSubmit
    <3>2. n \in 0 .. 2
      BY ServersAssumption
    <3> QED
      BY <1>1, <3>1, <3>2 DEF WorkerRecord
  <2>3. InLogin(j) /\ IsAlive(j)
    BY <1>3 DEF SubmitLogin, InLogin, IsAlive
  <2>4. OnlyWorker(j) /\ worker'[j] = w /\ report'[j] = report[j]
    BY <1>2, <2>1, <2>2, <2>3 DEF InLogin
  <2> QED
    BY <2>2, <2>3, <2>4 DEF GoesOn, InLogin
<1>4. CASE PressLogin(j)
  <2>1. PICK w \in WorkerRecord : /\ w = [worker[j] EXCEPT !.at = "PRESSED", !.pressed = TRUE]
                                  /\ w.at = "PRESSED" /\ w.signalled = worker[j].signalled /\ w.ok = worker[j].ok
    <3>1. /\ [worker[j] EXCEPT !.at = "PRESSED", !.pressed = TRUE] \in WorkerRecord
          /\ [worker[j] EXCEPT !.at = "PRESSED", !.pressed = TRUE].at = "PRESSED"
          /\ [worker[j] EXCEPT !.at = "PRESSED", !.pressed = TRUE].signalled = worker[j].signalled
          /\ [worker[j] EXCEPT !.at = "PRESSED", !.pressed = TRUE].ok = worker[j].ok
      BY <1>1 DEF WorkerRecord
    <3> QED
      BY <3>1, Zenon
  <2>2. SetWorker(j, w) /\ OthersStay /\ report' = report
    BY <1>4, <2>1 DEF PressLogin
  <2>3. InLogin(j) /\ IsAlive(j)
    BY <1>4 DEF PressLogin, InLogin, IsAlive
  <2>4. OnlyWorker(j) /\ worker'[j] = w /\ report'[j] = report[j]
    BY <1>2, <2>1, <2>2, <2>3
  <2> QED
    BY <2>1, <2>3, <2>4 DEF GoesOn
<1>5. CASE LoginSucceeds(j)
  <2>1. InLogin(j) /\ OthersStay
    BY <1>5 DEF LoginSucceeds, InLogin
  <2>2. PICK a \in WorkerRecord : a = Answered(worker[j]) /\ a.posts <= 1 /\ a.signalled = worker[j].signalled
    BY <1>1, Closings
  <2>3. PICK w \in WorkerRecord : w = [a EXCEPT !.ok = TRUE] /\ w.posts = a.posts /\ w.signalled = a.signalled /\ w.ok = TRUE
    <3>1. /\ [a EXCEPT !.ok = TRUE] \in WorkerRecord
          /\ [a EXCEPT !.ok = TRUE].posts = a.posts
          /\ [a EXCEPT !.ok = TRUE].signalled = a.signalled
          /\ [a EXCEPT !.ok = TRUE].ok = TRUE
      BY <2>2 DEF WorkerRecord
    <3> QED
      BY <3>1, Zenon
  <2>4. PICK result \in {"SUCCEEDED", "FAILED", "RATE_LIMITED"}, submitted \in {"YES", "NO", "UNKNOWN"}, response \in BOOLEAN :
          result = "SUCCEEDED" /\ submitted = "YES" /\ response = TRUE
    OBVIOUS
  <2>5. Leave(j, w, result, submitted, response)
    <3>1. Leave(j, [Answered(worker[j]) EXCEPT !.ok = TRUE], "SUCCEEDED", "YES", TRUE)
      BY <1>5, Zenon DEF LoginSucceeds
    <3>2. w = [Answered(worker[j]) EXCEPT !.ok = TRUE]
      BY <2>2, <2>3, Zenon
    <3> QED
      BY <2>4, <3>1, <3>2, Zenon
  <2>6. w.signalled = worker[j].signalled /\ w.posts <= 1 /\ w.ok
    BY <2>2, <2>3
  <2>7. /\ OnlyWorker(j)
        /\ worker'[j].at = "AFTER" /\ worker'[j].posts = w.posts /\ worker'[j].ok = w.ok /\ worker'[j].pressed = w.pressed
        /\ report'[j] \in Said /\ report'[j].result = result /\ report'[j].submitted = submitted /\ report'[j].response = response
    <3>1. w.signalled = worker[j].signalled
      BY <2>6
    <3> QED
      BY <2>1, <2>5, <3>1, Leaving
  <2>8. worker'[j].ok /\ worker'[j].posts <= 1
    BY <2>6, <2>7, Zenon
  <2>9. report'[j] \in Said /\ report'[j].submitted = "YES"
    BY <2>4, <2>7, Zenon
  <2>10. Tells(j)
    BY <2>1, <2>7, <2>8, <2>9 DEF Tells
  <2> QED
    BY <2>7, <2>10
<1>6. CASE LoginFails(j)
  <2>1. InLogin(j) /\ OthersStay
    BY <1>6 DEF LoginFails, InLogin
  <2>2. PICK submitted \in Submission(j) \cup (IF worker[j].at = "LOGIN" THEN {"NO"} ELSE {}) : EndLogin(j, "FAILED", submitted)
    BY <1>6, Zenon DEF LoginFails
  <2>3. /\ submitted \in {"YES", "NO", "UNKNOWN"}
        /\ submitted = "YES" => worker[j].seen
        /\ submitted = "NO" /\ PressOK(j) => j \in ScriptJobs \/ ~worker[j].pressed
    BY <2>2 DEF Submission, PressOK
  <2>4. PICK result \in {"FAILED", "RATE_LIMITED"} : result = "FAILED"
    OBVIOUS
  <2>5. EndLogin(j, result, submitted)
    BY <2>2, <2>4, Zenon
  <2> QED
    BY <2>1, <2>3, <2>5, EndingTells
<1>7. CASE LoginRateLimited(j)
  <2>1. InLogin(j) /\ OthersStay
    BY <1>7 DEF LoginRateLimited, InLogin
  <2>2. PICK result \in {"FAILED", "RATE_LIMITED"} : result = "RATE_LIMITED"
    OBVIOUS
  <2>3. CASE worker[j].at = "LOGIN" /\ EndLogin(j, "RATE_LIMITED", "NO")
    <3>1. PICK submitted \in {"YES", "NO", "UNKNOWN"} : submitted = "NO"
      OBVIOUS
    <3>2. EndLogin(j, result, submitted)
      BY <2>2, <2>3, <3>1, Zenon
    <3>3. PressOK(j) => ~worker[j].pressed
      BY <2>3 DEF PressOK
    <3> QED
      BY <2>1, <3>1, <3>2, <3>3, EndingTells
  <2>4. CASE Leave(j, Answered(worker[j]), "RATE_LIMITED", "YES", TRUE)
    <3>1. PICK w \in WorkerRecord : w = Answered(worker[j]) /\ w.posts <= 1 /\ w.signalled = worker[j].signalled /\ w.ok = worker[j].ok
      BY <1>1, Closings
    <3>2. PICK how \in {"SUCCEEDED", "FAILED", "RATE_LIMITED"}, submitted \in {"YES", "NO", "UNKNOWN"}, response \in BOOLEAN :
            how = "RATE_LIMITED" /\ submitted = "YES" /\ response = TRUE
      OBVIOUS
    <3>3. Leave(j, w, how, submitted, response)
      BY <2>4, <3>1, <3>2, Zenon
    <3>4. /\ OnlyWorker(j)
          /\ worker'[j].at = "AFTER" /\ worker'[j].posts = w.posts /\ worker'[j].ok = w.ok /\ worker'[j].pressed = w.pressed
          /\ report'[j] \in Said /\ report'[j].result = how /\ report'[j].submitted = submitted /\ report'[j].response = response
      BY <2>1, <3>1, <3>3, Leaving
    <3> QED
      BY <2>1, <3>1, <3>2, <3>4 DEF Tells
  <2> QED
    BY <1>7, <2>3, <2>4 DEF LoginRateLimited
<1>8. CASE LaunchRefused(j)
  <2>1. PICK w \in WorkerRecord : /\ w = [worker[j] EXCEPT !.at = "AFTER"]
                                  /\ w.at = "AFTER" /\ w.signalled = worker[j].signalled /\ w.ok = worker[j].ok
                                  /\ w.posts = worker[j].posts /\ w.pressed = worker[j].pressed
    <3>1. /\ [worker[j] EXCEPT !.at = "AFTER"] \in WorkerRecord
          /\ [worker[j] EXCEPT !.at = "AFTER"].at = "AFTER"
          /\ [worker[j] EXCEPT !.at = "AFTER"].signalled = worker[j].signalled
          /\ [worker[j] EXCEPT !.at = "AFTER"].ok = worker[j].ok
          /\ [worker[j] EXCEPT !.at = "AFTER"].posts = worker[j].posts
          /\ [worker[j] EXCEPT !.at = "AFTER"].pressed = worker[j].pressed
      BY <1>1 DEF WorkerRecord
    <3> QED
      BY <3>1, Zenon
  <2>2. SetWorker(j, w) /\ OthersStay /\ report' = report /\ IsAlive(j)
    BY <1>8, <2>1 DEF LaunchRefused, IsAlive
  <2>3. OnlyWorker(j) /\ worker'[j] = w /\ report'[j] = report[j]
    BY <1>2, <2>1, <2>2
  <2> QED
    BY <2>1, <2>3 DEF Rests
<1>9. CASE WorkerDisconnected(j)
  <2>1. PICK at \in {"NONE", "WAITING", "LOGIN", "PRESSED", "AFTER", "GONE"} :
          at = (IF worker[j].at = "WAITING" THEN "AFTER" ELSE worker[j].at) /\ (at = worker[j].at \/ at = "AFTER")
    BY <1>1 DEF WorkerRecord
  <2>2. PICK w \in WorkerRecord : /\ w = [worker[j] EXCEPT !.stop = TRUE, !.at = at]
                                  /\ w.at = at /\ w.signalled = worker[j].signalled /\ w.ok = worker[j].ok
                                  /\ w.posts = worker[j].posts /\ w.pressed = worker[j].pressed
    <3>1. /\ [worker[j] EXCEPT !.stop = TRUE, !.at = at] \in WorkerRecord
          /\ [worker[j] EXCEPT !.stop = TRUE, !.at = at].at = at
          /\ [worker[j] EXCEPT !.stop = TRUE, !.at = at].signalled = worker[j].signalled
          /\ [worker[j] EXCEPT !.stop = TRUE, !.at = at].ok = worker[j].ok
          /\ [worker[j] EXCEPT !.stop = TRUE, !.at = at].posts = worker[j].posts
          /\ [worker[j] EXCEPT !.stop = TRUE, !.at = at].pressed = worker[j].pressed
      BY <1>1 DEF WorkerRecord
    <3> QED
      BY <3>1, Zenon
  <2>3. SetWorker(j, w) /\ OthersStay /\ report' = report /\ IsAlive(j)
    BY <1>9, <2>1, <2>2, Zenon DEF WorkerDisconnected
  <2>4. OnlyWorker(j) /\ worker'[j] = w /\ report'[j] = report[j]
    BY <1>2, <2>1, <2>2, <2>3 DEF IsAlive
  <2> QED
    BY <2>1, <2>2, <2>4 DEF Rests
<1>10. CASE WorkerGoes(j)
  <2>1. PICK w \in WorkerRecord : /\ w = [worker[j] EXCEPT !.at = "GONE", !.seen = FALSE, !.stop = FALSE, !.signalled = FALSE]
                                  /\ w.at = "GONE" /\ w.ok = worker[j].ok /\ w.posts = worker[j].posts /\ w.pressed = worker[j].pressed
    <3>1. /\ [worker[j] EXCEPT !.at = "GONE", !.seen = FALSE, !.stop = FALSE, !.signalled = FALSE] \in WorkerRecord
          /\ [worker[j] EXCEPT !.at = "GONE", !.seen = FALSE, !.stop = FALSE, !.signalled = FALSE].at = "GONE"
          /\ [worker[j] EXCEPT !.at = "GONE", !.seen = FALSE, !.stop = FALSE, !.signalled = FALSE].ok = worker[j].ok
          /\ [worker[j] EXCEPT !.at = "GONE", !.seen = FALSE, !.stop = FALSE, !.signalled = FALSE].posts = worker[j].posts
          /\ [worker[j] EXCEPT !.at = "GONE", !.seen = FALSE, !.stop = FALSE, !.signalled = FALSE].pressed = worker[j].pressed
      BY <1>1 DEF WorkerRecord
    <3> QED
      BY <3>1, Zenon
  <2>2. SetWorker(j, w) /\ OthersStay /\ report' = report /\ IsAlive(j)
    BY <1>10, <2>1 DEF WorkerGoes
  <2>3. OnlyWorker(j) /\ worker'[j] = w /\ report'[j] = report[j]
    BY <1>2, <2>1, <2>2
  <2> QED
    BY <2>1, <2>3 DEF Rests
<1> QED
  BY <1>3, <1>4, <1>5, <1>6, <1>7, <1>8, <1>9, <1>10 DEF WorkerStep

(* They keep the types.                                                     *)
LEMMA WorkerStepTypes ==
    ASSUME ServerTypes, NEW j \in Jobs, WorkerStep(j)
    PROVE  ServerTypes'
<1>1. OnlyWorker(j)
  BY WorkerSteps
<1> QED
  BY <1>1 DEF OnlyWorker, ServerTypes

(* Every step keeps the types.                                              *)
LEMMA ServerTypesStep == ServerTypes /\ [ServersNext]_serversVars => ServerTypes'
<1> SUFFICES ASSUME ServerTypes, [ServersNext]_serversVars PROVE ServerTypes'
  OBVIOUS
<1>1. CASE UNCHANGED serversVars
  BY <1>1 DEF serversVars, timeVars, dbVars, workerVars, ServerTypes
<1>2. CASE \E s \in Servers : ServerStep(s)
  <2>1. PICK s \in Servers : ServerStep(s)
    BY <1>2
  <2> QED
    BY <2>1, ServerStepTypes, TransactionTypes, JobStepTypes DEF ServerStep
<1>3. CASE \E j \in Jobs : WorkerStep(j)
  BY <1>3, WorkerStepTypes
<1>4. CASE ClearHold
  BY <1>4 DEF ClearHold, ServerTypes, timeVars, workerVars
<1>5. CASE Tick
  <2>1. clock' \in Times
    BY <1>5, Sizes DEF Tick, ServerTypes, Times
  <2> QED
    BY <1>5, <2>1 DEF Tick, ServerTypes, dbVars, workerVars
<1>6. CASE SetClock
  <2>1. clock' \in Times /\ faults' \in 0 .. MaxFaults
    BY <1>6, Sizes DEF SetClock, ServerTypes
  <2> QED
    BY <1>6, <2>1 DEF SetClock, ServerTypes, dbVars, workerVars
<1> QED
  BY <1>1, <1>2, <1>3, <1>4, <1>5, <1>6 DEF ServersNext

-----------------------------------------------------------------------------
(* The lives of servers and jobs: steps that start and end nothing. *)

(* The errands of a server stay, are dropped, or shrink.                    *)
ErrandsShrink(t) ==
    \/ server'[t].todo = server[t].todo
    \/ server[t].at = "UP" /\ server'[t].todo \in Preparations
    \/ \E j \in Jobs : /\ server[t].todo \in EndOf(j) /\ server'[t].todo \in EndOf(j)
                       /\ server'[t].todo \in UnsentOf(j) => server[t].todo \in UnsentOf(j)

(* It notices at most that it lost the lock.                                *)
NoticesLoss(t) ==
    \/ server'[t].lost = server[t].lost /\ server'[t].stopSoon = server[t].stopSoon
    \/ /\ server'[t].lost /\ server'[t].stopSoon /\ server[t].at = "UP"
       /\ inst.owner # t /\ server'[t].todo \in Preparations

(* The row of a job stays, is interrupted, or ends with the job.            *)
RowAges(j) ==
    \/ row'[j].state = row[j].state
    \/ row[j].state = "ACTIVE" /\ row'[j].state = "INTERRUPTED" /\ \A t \in Servers : Belongs(t, j) => inst.owner # t
    \/ row[j].state = "ACTIVE" /\ row'[j].state = "ENDED" /\ job[j].phase = "NONE" /\ \A t \in Servers : ~Launching(t, j)

AttemptStays(j) == (attempt'[j].rows = 0 <=> attempt[j].rows = 0) /\ (attempt[j] = NoAttempt => attempt'[j] = NoAttempt)

Proceeds ==
    /\ inst'.owner = inst.owner
    /\ \A t \in Servers : server'[t].at = server[t].at /\ ErrandsShrink(t) /\ NoticesLoss(t)
    /\ \A j \in Jobs : /\ job'[j] = job[j] /\ worker'[j] = worker[j] /\ report'[j] \in {report[j], NoReport}
                       /\ AttemptStays(j) /\ RowAges(j)

(* Which errands a server has left it had before.                           *)
LEMMA ShrunkErrands ==
    ASSUME NEW t \in Servers, NEW j \in Jobs, ErrandsShrink(t)
    PROVE  /\ Launching(t, j)' => Launching(t, j)
           /\ server'[t].todo = PidOf(j) => server[t].todo = PidOf(j)
           /\ server'[t].todo \in EndOf(j) => server[t].todo \in EndOf(j)
           /\ server'[t].todo \in UnsentOf(j) => server[t].todo \in UnsentOf(j)
           /\ HasErrand(t, j)' => HasErrand(t, j)
<1>1. Launching(t, j)' <=> server'[t].todo = LaunchOf(j)
  BY DEF Launching, LaunchOf
<1>2. HasErrand(t, j)' <=> server'[t].todo \in ErrandsOf(j)
  BY DEF HasErrand, ErrandsOf, LaunchOf, PidOf, EndOf, UnsentOf, PendingOf
<1>3. CASE server'[t].todo = server[t].todo
  BY <1>1, <1>2, <1>3 DEF Launching, HasErrand
<1>4. CASE server'[t].todo \in Preparations
  BY <1>1, <1>2, <1>4, PreparationsAreNone
<1>5. CASE \E i \in Jobs : /\ server[t].todo \in EndOf(i) /\ server'[t].todo \in EndOf(i)
                           /\ server'[t].todo \in UnsentOf(i) => server[t].todo \in UnsentOf(i)
  <2>1. PICK i \in Jobs : /\ server[t].todo \in EndOf(i) /\ server'[t].todo \in EndOf(i)
                          /\ server'[t].todo \in UnsentOf(i) => server[t].todo \in UnsentOf(i)
    BY <1>5
  <2>2. server'[t].todo # LaunchOf(j) /\ server'[t].todo # PidOf(j)
    BY <2>1, ErrandsDiffer
  <2>3. server'[t].todo \in EndOf(j) => i = j
    BY <2>1, ErrandsDiffer
  <2> QED
    BY <1>1, <1>2, <2>1, <2>2, <2>3 DEF HasErrand, ErrandsOf, EndOf
<1> QED
  BY <1>3, <1>4, <1>5 DEF ErrandsShrink

(* Lives go on in steps that start and end no job.                          *)
LEMMA LivesProceed ==
    ASSUME ServerTypes, LivesOK, Proceeds
    PROVE  LivesOK'
<1>1. ASSUME NEW t \in Servers, NEW j \in Jobs
      PROVE  /\ Launching(t, j)' => Launching(t, j)
             /\ server'[t].todo = PidOf(j) => server[t].todo = PidOf(j)
             /\ server'[t].todo \in EndOf(j) => server[t].todo \in EndOf(j)
             /\ server'[t].todo \in UnsentOf(j) => server[t].todo \in UnsentOf(j)
             /\ HasErrand(t, j)' => HasErrand(t, j)
  BY ShrunkErrands DEF Proceeds
<1>2. ASSUME NEW t \in Servers PROVE ServerOK(t)'
  <2>1. ServerOK(t) /\ ErrandsShrink(t) /\ NoticesLoss(t) /\ server'[t].at = server[t].at /\ inst'.owner = inst.owner
    BY DEF LivesOK, Proceeds
  <2>2. server'[t].at # "UP" => server'[t].todo = <<>>
    <3>1. \A j \in Jobs : <<>> \notin EndOf(j)
      BY ErrandsDiffer DEF Preparations
    <3> QED
      BY <2>1, <3>1 DEF ServerOK, ErrandsShrink
  <2>3. ASSUME NEW j \in Jobs, server'[t].todo \in {LaunchOf(j), PidOf(j)} PROVE ~server'[t].lost
    <3>1. server[t].todo \in {LaunchOf(j), PidOf(j)}
      BY <1>1, <2>3 DEF Launching, LaunchOf
    <3>2. server'[t].todo \notin Preparations
      BY <2>3, ErrandsDiffer
    <3> QED
      BY <2>1, <3>1, <3>2 DEF ServerOK, NoticesLoss
  <2>4. server'[t].at = "OFF" => inst'.owner # t /\ ~server'[t].lost
    BY <2>1 DEF ServerOK, NoticesLoss
  <2>5. server'[t].lost => inst'.owner # t
    BY <2>1 DEF ServerOK, NoticesLoss
  <2> QED
    BY <2>2, <2>3, <2>4, <2>5 DEF ServerOK, LaunchOf, PidOf
<1>3. ASSUME NEW j \in Jobs PROVE LifeOK(j)'
  <2>1. /\ LifeOK(j) /\ job'[j] = job[j] /\ worker'[j] = worker[j] /\ report'[j] \in {report[j], NoReport}
        /\ AttemptStays(j) /\ RowAges(j)
    BY DEF LivesOK, Proceeds
  <2>2. ASSUME job[j].owner # Nobody
        PROVE  /\ job[j].owner \in Servers /\ server'[job[j].owner].at = server[job[j].owner].at
               /\ NoticesLoss(job[j].owner)
    BY <2>2 DEF ServerTypes, JobRecord, Proceeds
  <2>3. row'[j].state = "NONE" <=> row[j].state = "NONE"
    BY <2>1 DEF RowAges
  <2>4. row[j].state \in {"ACTIVE", "INTERRUPTED"} /\ job[j].phase # "NONE" => row'[j].state \in {"ACTIVE", "INTERRUPTED"}
    BY <2>1 DEF RowAges
  <2>5. IsAlive(j)' <=> IsAlive(j)
    BY <2>1 DEF IsAlive
  <2>6. job[j].owner # Nobody /\ StopsItsWorker(j) => StopsItsWorker(j)'
    BY <2>1, <2>2 DEF StopsItsWorker, NoticesLoss
  <2> QED
    BY <2>1, <2>2, <2>3, <2>4, <2>5, <2>6 DEF LifeOK, AttemptStays, NoJob, NoWorker, NoReport, NoAttempt
<1>4. ASSUME NEW t \in Servers, NEW j \in Jobs PROVE ErrandOK(t, j)'
  <2>1. ErrandOK(t, j) /\ job'[j] = job[j] /\ worker'[j] = worker[j] /\ report'[j] \in {report[j], NoReport} /\ RowAges(j)
    BY DEF LivesOK, Proceeds
  <2>2. IsAlive(j)' <=> IsAlive(j)
    BY <2>1 DEF IsAlive
  <2>3. row'[j].state = "NONE" <=> row[j].state = "NONE"
    BY <2>1 DEF RowAges
  <2>4. Launching(t, j) /\ row[j].state \in {"ACTIVE", "INTERRUPTED"} => row'[j].state \in {"ACTIVE", "INTERRUPTED"}
    BY <2>1 DEF RowAges
  <2>5. HasErrand(t, j)' => row'[j].state # "NONE"
    BY <1>1, <2>1, <2>3 DEF ErrandOK
  <2>6. Launching(t, j)' =>
          row'[j].state \in {"ACTIVE", "INTERRUPTED"} /\ job'[j] = NoJob /\ worker'[j] = NoWorker /\ report'[j] = NoReport
    BY <1>1, <2>1, <2>4 DEF ErrandOK
  <2>7. server'[t].todo = PidOf(j) => job'[j].owner = t /\ job'[j].phase = "FORKED"
    BY <1>1, <2>1 DEF ErrandOK
  <2>8. server'[t].todo \in EndOf(j) => job'[j].phase = "NONE" /\ ~IsAlive(j)' /\ report'[j] = NoReport
    BY <1>1, <2>1, <2>2 DEF ErrandOK
  <2>9. server'[t].todo \in UnsentOf(j) => worker'[j].posts = 0
    BY <1>1, <2>1 DEF ErrandOK
  <2> QED
    BY <2>5, <2>6, <2>7, <2>8, <2>9 DEF ErrandOK, PidOf, EndOf, UnsentOf, PendingOf, NoJob, NoWorker, NoReport
<1>5. OneErrand'
  BY <1>1 DEF LivesOK, OneErrand
<1>6. Interrupted'
  <2> SUFFICES ASSUME NEW t \in Servers, NEW j \in Jobs, Belongs(t, j)', row'[j].state = "INTERRUPTED"
               PROVE  inst'.owner # t
    BY DEF Interrupted
  <2>1. Belongs(t, j)
    BY <1>1 DEF Belongs, Proceeds
  <2> QED
    BY <2>1 DEF LivesOK, Interrupted, Proceeds, RowAges
<1>7. OneActive' /\ InOrder'
  <2>1. \A j \in Jobs : (row'[j].state = "ACTIVE" => row[j].state = "ACTIVE") /\ (row'[j].state # "NONE" <=> row[j].state # "NONE")
    BY DEF Proceeds, RowAges
  <2> QED
    BY <2>1 DEF LivesOK, OneActive, InOrder
<1>8. OneHandled'
  BY <1>1 DEF LivesOK, OneHandled, Handles, Tracks, Proceeds
<1> QED
  BY <1>2, <1>3, <1>4, <1>5, <1>6, <1>7, <1>8 DEF LivesOK

(* A closed attempt has its rows, and those closed were open.               *)
LEMMA ClosedFields ==
    ASSUME NEW a \in AttemptRecord, NEW result, NEW submitted, NEW response \in BOOLEAN, NEW retry
    PROVE  /\ ClosedAttempt(a, result, submitted, response, retry).result = result
           /\ ClosedAttempt(a, result, submitted, response, retry).submitted = submitted
           /\ ClosedAttempt(a, result, submitted, response, retry).retry = retry
           /\ ClosedAttempt(a, result, submitted, response, retry).start = a.start
           /\ response => ClosedAttempt(a, result, submitted, response, retry).rows = a.rows
           /\ ~response => ClosedAttempt(a, result, submitted, response, retry).rows = a.rows + 1
<1>1. PICK n : n = IF response THEN a.rows ELSE a.rows + 1
  OBVIOUS
<1>2. ClosedAttempt(a, result, submitted, response, retry)
        = [a EXCEPT !.result = result, !.submitted = submitted, !.retry = retry, !.rows = n]
  BY <1>1 DEF ClosedAttempt, AttemptRecord, AttemptFields
<1> QED
  BY <1>1, <1>2 DEF AttemptRecord, AttemptFields

Unknown(a) == ClosedAttempt(a, "UNKNOWN", "UNKNOWN", FALSE, 0)

(* An open attempt that is closed with an unknown result counts twice.      *)
LEMMA UnknownFields ==
    ASSUME ServerTypes, NEW j \in Jobs, IsPending(j)
    PROVE  /\ Unknown(attempt[j]).result = "UNKNOWN" /\ Unknown(attempt[j]).submitted = "UNKNOWN" /\ Unknown(attempt[j]).retry = 0
           /\ Unknown(attempt[j]).start = attempt[j].start /\ Unknown(attempt[j]).rows = 2
<1>1. attempt[j] \in AttemptRecord
  BY DEF ServerTypes
<1>2. attempt[j].rows = 1
  BY <1>1 DEF IsPending, AttemptRecord, AttemptFields
<1>3. PICK response \in BOOLEAN : response = FALSE
  OBVIOUS
<1>4. Unknown(attempt[j]) = ClosedAttempt(attempt[j], "UNKNOWN", "UNKNOWN", response, 0)
  BY <1>3 DEF Unknown
<1> QED
  BY <1>1, <1>2, <1>3, <1>4, ClosedFields

(* Closing attempts starts none and takes none back.                        *)
LEMMA ClosingKeepsRows ==
    ASSUME ServerTypes, NEW k \in Jobs
    PROVE  /\ \A js : CloseUnknown(js) /\ js \subseteq {j \in Jobs : IsPending(j)} => AttemptStays(k)
           /\ \A j \in Jobs : \A result, submitted : \A response \in BOOLEAN :
                RecordResult(j, result, submitted, response) => AttemptStays(k)
           /\ UNCHANGED attempt => AttemptStays(k)
<1>1. /\ attempt[k] \in AttemptRecord /\ attempt \in [Jobs -> AttemptRecord]
      /\ IsPending(k) => attempt[k].rows = 1 /\ attempt[k] # NoAttempt
  BY DEF ServerTypes, AttemptRecord, AttemptFields, IsPending, NoAttempt
<1>2. ASSUME NEW js, CloseUnknown(js), js \subseteq {j \in Jobs : IsPending(j)}
      PROVE  AttemptStays(k)
  <2>1. CASE k \in js
    <3>1. attempt'[k] = Unknown(attempt[k])
      BY <1>2, <2>1 DEF CloseUnknown, Unknown
    <3>2. IsPending(k)
      BY <1>2, <2>1
    <3>3. attempt'[k].rows = 2
      BY <3>1, <3>2, UnknownFields
    <3> QED
      BY <1>1, <1>2, <2>1, <3>3 DEF AttemptStays
  <2>2. CASE k \notin js
    BY <1>2, <2>2 DEF CloseUnknown, AttemptStays
  <2> QED
    BY <2>1, <2>2
<1>3. ASSUME NEW j \in Jobs, NEW result, NEW submitted, NEW response \in BOOLEAN, RecordResult(j, result, submitted, response)
      PROVE  AttemptStays(k)
  <2>1. CASE IsPending(j) /\ k = j
    <3>1. PICK retry : attempt' = [attempt EXCEPT ![j] = ClosedAttempt(@, result, submitted, response, retry)]
      BY <1>3, <2>1 DEF RecordResult
    <3>2. attempt'[k] = ClosedAttempt(attempt[k], result, submitted, response, retry)
      BY <1>1, <2>1, <3>1
    <3>3. attempt'[k].rows \in {1, 2}
      BY <1>1, <2>1, <3>2, ClosedFields
    <3> QED
      BY <1>1, <2>1, <3>3 DEF AttemptStays
  <2>2. CASE ~(IsPending(j) /\ k = j)
    BY <1>1, <1>3, <2>2 DEF RecordResult, AttemptStays
  <2> QED
    BY <2>1, <2>2
<1>4. UNCHANGED attempt => AttemptStays(k)
  BY DEF AttemptStays
<1> QED
  BY <1>2, <1>3, <1>4

(* What a server does with its errands.                                     *)
LEMMA OthersKeepErrands ==
    ASSUME server \in [Servers -> ServerRecord], NEW s \in Servers
    PROVE  /\ \A td : SetTodo(s, td) =>
                /\ \A t \in Servers : server'[t].at = server[t].at /\ server'[t].lost = server[t].lost
                                      /\ server'[t].stopSoon = server[t].stopSoon /\ server'[t].awake = server[t].awake
                /\ \A t \in Servers \ {s} : server'[t] = server[t]
                /\ server'[s].todo = td
           /\ UNCHANGED server => \A t \in Servers : server'[t].at = server[t].at /\ ErrandsShrink(t) /\ NoticesLoss(t)
           /\ Lost(server[s]).at = server[s].at /\ Lost(server[s]).todo = server[s].todo /\ Lost(server[s]).lost
           /\ server[s].lost => Lost(server[s]) = server[s]
           /\ ~server[s].lost => Lost(server[s]).stopSoon
<1>1. server[s] \in ServerRecord
  OBVIOUS
<1>2. ASSUME NEW td, SetTodo(s, td)
      PROVE  /\ \A t \in Servers : server'[t].at = server[t].at /\ server'[t].lost = server[t].lost
                                   /\ server'[t].stopSoon = server[t].stopSoon /\ server'[t].awake = server[t].awake
             /\ \A t \in Servers \ {s} : server'[t] = server[t]
             /\ server'[s].todo = td
  BY <1>1, <1>2 DEF SetTodo, ServerRecord
<1>3. UNCHANGED server => \A t \in Servers : server'[t].at = server[t].at /\ ErrandsShrink(t) /\ NoticesLoss(t)
  BY DEF ErrandsShrink, NoticesLoss
<1>4. Lost(server[s]).at = server[s].at /\ Lost(server[s]).todo = server[s].todo /\ Lost(server[s]).lost
  BY <1>1 DEF Lost, ServerRecord
<1>5. ~server[s].lost => Lost(server[s]).stopSoon
  BY <1>1 DEF Lost, ServerRecord
<1> QED
  BY <1>2, <1>3, <1>4, <1>5 DEF Lost

(* A handler that has another errand, or drops those of a start.            *)
LEMMA ErrandsProceed ==
    ASSUME ServerTypes, NEW s \in Servers, server[s].at = "UP", NEW td, SetTodo(s, td),
           \/ td \in Preparations
           \/ \E j \in Jobs : server[s].todo \in EndOf(j) /\ td \in EndOf(j) /\ (td \in UnsentOf(j) => server[s].todo \in UnsentOf(j)),
           NEW t \in Servers
    PROVE  server'[t].at = server[t].at /\ ErrandsShrink(t) /\ NoticesLoss(t)
<1>1. /\ server'[t].at = server[t].at /\ server'[t].lost = server[t].lost /\ server'[t].stopSoon = server[t].stopSoon
      /\ t # s => server'[t] = server[t]
      /\ server'[s].todo = td
  BY OthersKeepErrands DEF ServerTypes
<1> QED
  BY <1>1 DEF ErrandsShrink, NoticesLoss

(* A server that finds the lock another's drops the errands of a start.     *)
LEMMA LossProceeds ==
    ASSUME ServerTypes, LivesOK, NEW s \in Servers, server[s].at = "UP", ~HoldsLock(s) \/ server[s].lost,
           server[s].todo \in Preparations,
           \/ server' = [server EXCEPT ![s] = [Lost(@) EXCEPT !.todo = <<>>]]
           \/ server' = [server EXCEPT ![s] = Lost(@)],
           NEW t \in Servers
    PROVE  server'[t].at = server[t].at /\ ErrandsShrink(t) /\ NoticesLoss(t)
<1>1. server \in [Servers -> ServerRecord] /\ server[s] \in ServerRecord /\ ServerOK(s) /\ <<>> \in Preparations
  BY DEF ServerTypes, LivesOK, Preparations
<1>2. Lost(server[s]) \in ServerRecord
  BY <1>1, RecordUpdates
<1>3. inst.owner # s
  BY <1>1 DEF ServerOK, HoldsLock
<1>4. t # s => server'[t] = server[t]
  BY <1>1
<1>5. /\ server'[s].at = Lost(server[s]).at /\ server'[s].lost = Lost(server[s]).lost /\ server'[s].stopSoon = Lost(server[s]).stopSoon
      /\ server'[s].todo \in {<<>>, Lost(server[s]).todo}
  <2>1. CASE server' = [server EXCEPT ![s] = [Lost(@) EXCEPT !.todo = <<>>]]
    <3>1. server'[s] = [Lost(server[s]) EXCEPT !.todo = <<>>]
      BY <1>1, <2>1
    <3> QED
      BY <1>2, <3>1 DEF ServerRecord
  <2>2. CASE server' = [server EXCEPT ![s] = Lost(@)]
    BY <1>1, <2>2
  <2> QED
    BY <2>1, <2>2
<1>6. server'[s].at = server[s].at /\ server'[s].todo \in Preparations /\ server'[s].lost
  BY <1>1, <1>5, OthersKeepErrands
<1>7. \/ server'[s].lost = server[s].lost /\ server'[s].stopSoon = server[s].stopSoon
      \/ server'[s].stopSoon
  BY <1>1, <1>5, OthersKeepErrands
<1> QED
  BY <1>3, <1>4, <1>6, <1>7 DEF ErrandsShrink, NoticesLoss

(* Steps that start and end no job: the clock, the lock that is kept or     *)
(* found lost, heartbeats, results of logins, and all transactions but the  *)
(* creation of a job and its launch.                                        *)
JobsStay == \A j \in Jobs : job'[j] = job[j] /\ worker'[j] = worker[j]

(* What makes such a step.                                                  *)
LEMMA StillProceeds ==
    ASSUME ServerTypes, inst'.owner = inst.owner, JobsStay,
           \A t \in Servers : server'[t].at = server[t].at /\ ErrandsShrink(t) /\ NoticesLoss(t),
           \A j \in Jobs : report'[j] \in {report[j], NoReport} /\ AttemptStays(j) /\ RowAges(j)
    PROVE  Proceeds
  BY DEF Proceeds, JobsStay

(* The clock, the hold, and hold-ups of a server are such steps.            *)
LEMMA IdleSteps ==
    ASSUME ServerTypes, LivesOK,
           ClearHold \/ Tick \/ SetClock \/ UNCHANGED serversVars \/ \E s \in Servers : HoldUp(s) \/ WakeUp(s)
    PROVE  LivesOK'
<1>1. inst' = inst /\ row' = row /\ attempt' = attempt /\ job' = job /\ worker' = worker /\ report' = report
  BY DEF ClearHold, Tick, SetClock, serversVars, HoldUp, WakeUp, timeVars, dbVars, workerVars
<1>2. ASSUME NEW t \in Servers PROVE server'[t].at = server[t].at /\ ErrandsShrink(t) /\ NoticesLoss(t)
  <2>1. CASE UNCHANGED server
    BY <2>1 DEF ErrandsShrink, NoticesLoss
  <2>2. CASE \E s \in Servers : HoldUp(s) \/ WakeUp(s)
    <3>1. PICK s \in Servers : HoldUp(s) \/ WakeUp(s)
      BY <2>2
    <3>2. PICK b \in BOOLEAN : server' = [server EXCEPT ![s].awake = b]
      BY <3>1 DEF HoldUp, WakeUp
    <3> QED
      BY <3>2 DEF ServerTypes, ServerRecord, ErrandsShrink, NoticesLoss
  <2> QED
    BY <2>1, <2>2 DEF ClearHold, Tick, SetClock, serversVars
<1>3. \A j \in Jobs : report'[j] \in {report[j], NoReport} /\ AttemptStays(j) /\ RowAges(j)
  BY <1>1 DEF AttemptStays, RowAges
<1> QED
  BY <1>1, <1>2, <1>3, StillProceeds, LivesProceed DEF JobsStay

(* So are the transactions of a handler that change only the database.      *)
LEMMA QuietTransactions ==
    ASSUME ServerTypes, LivesOK, NEW s \in Servers,
           \/ InterruptUnowned(s) \/ CloseOrphans(s) \/ RecordWorkerPid(s) \/ RecordEnded(s)
           \/ CloseAttemptNotSent(s) \/ ClosePendingAttempt(s)
           \/ CreateStartingJob(s) /\ UNCHANGED row
           \/ StartAuditJob(s) \/ RenewInstanceLock(s)
    PROVE  LivesOK'
<1> DEFINE Servs == \A t \in Servers : server'[t].at = server[t].at /\ ErrandsShrink(t) /\ NoticesLoss(t)
<1>1. server[s] \in ServerRecord /\ server[s].todo \in Errands /\ <<>> \in Preparations
  BY DEF ServerTypes, ServerRecord, Preparations
<1>2. ASSUME NEW kind, Next1(s, kind) PROVE server[s].at = "UP" /\ server[s].todo # <<>> /\ Head(server[s].todo).kind = kind
  BY <1>2 DEF Next1, CanAct
<1>3. UNCHANGED row => \A j \in Jobs : RowAges(j)
  BY DEF RowAges
<1>4. UNCHANGED <<job, worker, report>> => JobsStay /\ \A j \in Jobs : report'[j] \in {report[j], NoReport}
  BY DEF JobsStay
<1>5. UNCHANGED attempt => \A j \in Jobs : AttemptStays(j)
  BY ClosingKeepsRows
<1>6. UNCHANGED server => Servs
  BY DEF ErrandsShrink, NoticesLoss
<1> HIDE DEF Servs
<1>7. CASE InterruptUnowned(s)
  <2>1. server[s].at = "UP" /\ server[s].todo \in Preparations /\ Rest(s) \in Preparations
    BY <1>1, <1>2, <1>7, ErrandShapes DEF InterruptUnowned, Rest
  <2>2. Servs
    <3>1. CASE HoldsLock(s) /\ ~server[s].lost
      BY <1>7, <2>1, <3>1, ErrandsProceed DEF InterruptUnowned, Servs
    <3>2. CASE ~(HoldsLock(s) /\ ~server[s].lost)
      <4>1. server' = [server EXCEPT ![s] = [Lost(@) EXCEPT !.todo = <<>>]]
        BY <1>7, <3>2 DEF InterruptUnowned
      <4> QED
        BY <2>1, <3>2, <4>1, LossProceeds DEF Servs
    <3> QED
      BY <3>1, <3>2
  <2>3. ASSUME NEW j \in Jobs PROVE RowAges(j)
    <3>1. CASE HoldsLock(s) /\ ~server[s].lost /\ row[j].state = "ACTIVE" /\ j \notin OwnJobs(s) /\ ~IsUnownedWorkerRunning(j)
      <4>1. row'[j] = EndedRow("INTERRUPTED")
        BY <1>7, <3>1 DEF InterruptUnowned
      <4>2. row'[j].state = "INTERRUPTED"
        BY <4>1 DEF EndedRow, NoRow
      <4>3. ASSUME NEW t \in Servers, Belongs(t, j) PROVE inst.owner # t
        <5>1. inst.owner = s /\ job[j].owner # s
          BY <3>1 DEF HoldsLock, OwnJobs
        <5>2. ~Launching(s, j)
          BY <2>1, PreparationsAreNone DEF Launching
        <5> QED
          BY <4>3, <5>1, <5>2 DEF Belongs
      <4> QED
        BY <3>1, <4>2, <4>3 DEF RowAges
    <3>2. CASE ~(HoldsLock(s) /\ ~server[s].lost /\ row[j].state = "ACTIVE" /\ j \notin OwnJobs(s) /\ ~IsUnownedWorkerRunning(j))
      <4>1. row'[j] = row[j]
        BY <1>7, <3>2 DEF InterruptUnowned
      <4> QED
        BY <4>1 DEF RowAges
    <3> QED
      BY <3>1, <3>2
  <2>4. UNCHANGED <<inst, job, worker, report, attempt>>
    BY <1>7 DEF InterruptUnowned, workerVars
  <2> QED
    BY <1>4, <1>5, <2>2, <2>3, <2>4, StillProceeds, LivesProceed DEF Servs
<1>8. CASE CloseOrphans(s)
  <2>1. server[s].at = "UP" /\ Rest(s) \in Preparations
    BY <1>1, <1>2, <1>8, ErrandShapes DEF CloseOrphans, Rest
  <2>2. Servs
    BY <1>8, <2>1, ErrandsProceed DEF CloseOrphans, Servs
  <2>3. \A j \in Jobs : AttemptStays(j)
    BY <1>8, ClosingKeepsRows DEF CloseOrphans, Orphans
  <2>4. UNCHANGED <<inst, row, job, worker, report>>
    BY <1>8 DEF CloseOrphans, workerVars
  <2> QED
    BY <1>3, <1>4, <2>2, <2>3, <2>4, StillProceeds, LivesProceed DEF Servs
<1>9. CASE RecordWorkerPid(s)
  <2>1. server[s].at = "UP" /\ Rest(s) \in Preparations
    BY <1>1, <1>2, <1>9, ErrandShapes DEF RecordWorkerPid, Rest
  <2>2. Servs
    BY <1>9, <2>1, ErrandsProceed DEF RecordWorkerPid, Servs
  <2>3. \A j \in Jobs : RowAges(j)
    BY <1>9 DEF RecordWorkerPid, RowAges, ServerTypes, RowRecord
  <2>4. UNCHANGED <<inst, attempt, job, worker, report>>
    BY <1>9 DEF RecordWorkerPid, workerVars
  <2> QED
    BY <1>4, <1>5, <2>2, <2>3, <2>4, StillProceeds, LivesProceed DEF Servs
<1>10. CASE RecordEnded(s)
  <2> DEFINE k == TodoJob(s)
  <2>1. /\ server[s].at = "UP" /\ k \in Jobs /\ server[s].todo \in EndOf(k) /\ Rest(s) \in EndOf(k)
        /\ Rest(s) \in UnsentOf(k) => server[s].todo \in UnsentOf(k)
    BY <1>1, <1>2, <1>10, ErrandShapes DEF RecordEnded, Rest, TodoJob
  <2>2. row' = [row EXCEPT ![k] = IF @.state = "ACTIVE" THEN EndedRow("ENDED") ELSE @] /\ SetTodo(s, Rest(s))
    BY <1>10 DEF RecordEnded
  <2> HIDE DEF k
  <2>3. Servs
    BY <2>1, <2>2, ErrandsProceed DEF Servs
  <2>4. ASSUME NEW j \in Jobs PROVE RowAges(j)
    <3>1. CASE j = k /\ row[j].state = "ACTIVE"
      <4>1. row'[j].state = "ENDED"
        BY <2>1, <2>2, <3>1 DEF ServerTypes, EndedRow, NoRow
      <4>2. job[k].phase = "NONE"
        BY <2>1 DEF LivesOK, ErrandOK
      <4>3. ASSUME NEW t \in Servers, Launching(t, k) PROVE FALSE
        <5>1. HasErrand(t, k) /\ HasErrand(s, k)
          BY <2>1, <4>3 DEF HasErrand, Launching, ErrandsOf
        <5>2. t = s
          BY <2>1, <5>1 DEF LivesOK, OneErrand
        <5> QED
          BY <2>1, <4>3, <5>2, ErrandsDiffer DEF Launching
      <4> QED
        BY <3>1, <4>1, <4>2, <4>3 DEF RowAges
    <3>2. CASE ~(j = k /\ row[j].state = "ACTIVE")
      <4>1. row'[j] = row[j]
        BY <2>1, <2>2, <3>2 DEF ServerTypes
      <4> QED
        BY <4>1 DEF RowAges
    <3> QED
      BY <3>1, <3>2
  <2>5. UNCHANGED <<inst, attempt, job, worker, report>>
    BY <1>10 DEF RecordEnded, workerVars
  <2> QED
    BY <1>4, <1>5, <2>3, <2>4, <2>5, StillProceeds, LivesProceed DEF Servs
<1>11. CASE CloseAttemptNotSent(s) \/ ClosePendingAttempt(s)
  <2>1. server[s].at = "UP" /\ Rest(s) \in Preparations /\ TodoJob(s) \in Jobs
    BY <1>1, <1>2, <1>11, ErrandShapes DEF CloseAttemptNotSent, ClosePendingAttempt, Rest, TodoJob
  <2>2. Servs
    BY <1>11, <2>1, ErrandsProceed DEF CloseAttemptNotSent, ClosePendingAttempt, Servs
  <2>3. ASSUME NEW j \in Jobs PROVE AttemptStays(j)
    <3>1. CASE CloseAttemptNotSent(s)
      BY <2>1, <3>1, ClosingKeepsRows DEF CloseAttemptNotSent
    <3>2. CASE ClosePendingAttempt(s)
      BY <3>2, ClosingKeepsRows DEF ClosePendingAttempt
    <3> QED
      BY <1>11, <3>1, <3>2
  <2>4. UNCHANGED <<inst, row, job, worker, report>>
    BY <1>11 DEF CloseAttemptNotSent, ClosePendingAttempt, workerVars
  <2> QED
    BY <1>3, <1>4, <2>2, <2>3, <2>4, StillProceeds, LivesProceed DEF Servs
<1>12. CASE CreateStartingJob(s) /\ UNCHANGED row
  <2>1. server[s].at = "UP" /\ server[s].todo = <<Step("CREATE", 0)>> /\ server[s].todo \in Preparations
    BY <1>1, <1>2, <1>12, ErrandShapes DEF CreateStartingJob, Preparations
  <2>2. ASSUME NEW j \in Jobs, row[j].state = "NONE", row' = [row EXCEPT ![j] = [state |-> "ACTIVE", pid |-> FALSE, seen |-> clock]]
        PROVE  FALSE
    BY <1>12, <2>2 DEF ServerTypes
  <2>3. UNCHANGED attempt /\ Servs
    <3>1. CASE ~HoldsLock(s)
      <4>1. server' = [server EXCEPT ![s] = [Lost(@) EXCEPT !.todo = <<>>]] /\ UNCHANGED attempt
        BY <1>12, <3>1 DEF CreateStartingJob
      <4> QED
        BY <2>1, <3>1, <4>1, LossProceeds DEF Servs
    <3>2. CASE HoldsLock(s)
      <4>1. SetTodo(s, <<>>) /\ UNCHANGED attempt
        BY <1>12, <2>2, <3>2 DEF CreateStartingJob
      <4> QED
        BY <1>1, <2>1, <4>1, ErrandsProceed DEF Servs
    <3> QED
      BY <3>1, <3>2
  <2>4. UNCHANGED <<inst, job, worker, report>>
    BY <1>12 DEF CreateStartingJob, workerVars
  <2> QED
    BY <1>3, <1>4, <1>5, <1>12, <2>3, <2>4, StillProceeds, LivesProceed DEF Servs
<1>13. CASE StartAuditJob(s)
  <2>1. server[s].at = "UP"
    BY <1>13 DEF StartAuditJob, Idle, CanAct
  <2>2. Servs
    BY <1>13, <2>1, ErrandsProceed DEF StartAuditJob, Preparations, Servs
  <2>3. UNCHANGED <<inst, row, attempt, job, worker, report>>
    BY <1>13 DEF StartAuditJob, dbVars, workerVars
  <2> QED
    BY <1>3, <1>4, <1>5, <2>2, <2>3, StillProceeds, LivesProceed DEF Servs
<1>14. CASE RenewInstanceLock(s)
  <2>1. server[s].at = "UP" /\ server[s].todo \in Preparations
    BY <1>1, <1>14 DEF RenewInstanceLock, Idle, CanAct
  <2>2. UNCHANGED <<row, attempt, job, worker, report>>
    BY <1>14 DEF RenewInstanceLock, workerVars
  <2>3. inst'.owner = inst.owner /\ Servs
    <3>1. CASE HoldsLock(s)
      <4>1. inst'.owner = inst.owner /\ UNCHANGED server
        BY <1>14, <3>1 DEF RenewInstanceLock, ServerTypes
      <4> QED
        BY <1>6, <4>1
    <3>2. CASE ~HoldsLock(s)
      <4>1. server' = [server EXCEPT ![s] = Lost(@)] /\ inst' = inst
        BY <1>14, <3>2 DEF RenewInstanceLock
      <4> QED
        BY <2>1, <3>2, <4>1, LossProceeds DEF Servs
    <3> QED
      BY <3>1, <3>2
  <2> QED
    BY <1>3, <1>4, <1>5, <2>2, <2>3, StillProceeds, LivesProceed DEF Servs
<1> QED
  BY <1>7, <1>8, <1>9, <1>10, <1>11, <1>12, <1>13, <1>14

(* Messages of a worker that change nothing but the database.               *)
LEMMA MessagesProceed ==
    ASSUME ServerTypes, LivesOK, NEW s \in Servers, NEW j \in Jobs,
           ReceiveHeartbeat(s, j) \/ ReceiveAuthState(s, j)
    PROVE  LivesOK'
<1>1. inst' = inst /\ server' = server /\ job' = job /\ worker' = worker
  BY DEF ReceiveHeartbeat, ReceiveAuthState, timeVars, workerVars
<1>2. \A t \in Servers : server'[t].at = server[t].at /\ ErrandsShrink(t) /\ NoticesLoss(t)
  BY <1>1 DEF ErrandsShrink, NoticesLoss
<1>3. CASE ReceiveHeartbeat(s, j)
  <2>1. \A k \in Jobs : row'[k].state = row[k].state
    BY <1>3 DEF ReceiveHeartbeat, ServerTypes, RowRecord
  <2>2. \A k \in Jobs : report'[k] \in {report[k], NoReport} /\ AttemptStays(k) /\ RowAges(k)
    BY <1>3, <2>1 DEF ReceiveHeartbeat, workerVars, AttemptStays, RowAges
  <2> QED
    BY <1>1, <1>2, <2>2, StillProceeds, LivesProceed DEF JobsStay
<1>4. CASE ReceiveAuthState(s, j)
  <2>1. report[j].response \in BOOLEAN
    <3>1. report[j] \in Said
      BY <1>4 DEF ReceiveAuthState, ServerTypes, ReportRecord
    <3> QED
      BY <3>1 DEF Said
  <2>2. \A k \in Jobs : report'[k] \in {report[k], NoReport} /\ RowAges(k)
    BY <1>4 DEF ReceiveAuthState, ServerTypes, RowAges
  <2>3. \A k \in Jobs : AttemptStays(k)
    <3>1. CASE job[j].phase = "STARTED"
      <4>1. RecordResult(j, report[j].result, report[j].submitted, report[j].response)
        BY <1>4, <3>1 DEF ReceiveAuthState
      <4> QED
        BY <2>1, <4>1, ClosingKeepsRows
    <3>2. CASE job[j].phase # "STARTED"
      BY <1>4, <3>2, ClosingKeepsRows DEF ReceiveAuthState
    <3> QED
      BY <3>1, <3>2
  <2> QED
    BY <1>1, <1>2, <2>2, <2>3, StillProceeds, LivesProceed DEF JobsStay
<1> QED
  BY <1>3, <1>4

-----------------------------------------------------------------------------
(* The lives of servers and jobs: steps of one job. *)

(* What a step of one job has to see to while it lasts; the rest stays.     *)
MovesOn(j) ==
    /\ UNCHANGED <<inst, server, attempt>>
    /\ \A i \in Jobs : row'[i].state = row[i].state
    /\ \A i \in Jobs \ {j} : job'[i] = job[i] /\ worker'[i] = worker[i] /\ report'[i] = report[i]
    /\ IsAlive(j) \/ job[j].phase # "NONE"
    /\ job'[j].owner = job[j].owner
    /\ job'[j].phase = "NONE" <=> job[j].phase = "NONE"
    /\ job'[j].phase = job[j].phase \/ \A t \in Servers : server[t].todo # PidOf(j)

StaysInOrder(j) ==
    /\ job'[j].phase # "NONE" =>
         /\ worker'[j].at # "NONE"
         /\ ~job'[j].startSent => worker'[j].posts = 0 /\ worker'[j].at \notin {"LOGIN", "PRESSED"}
         /\ job'[j].phase = "FORKED" => ~job'[j].startSent
    /\ IsAlive(j)' =>
         /\ IsAlive(j)
         /\ job[j].owner # Nobody /\ server[job[j].owner].at = "UP" => StopsItsWorker(j)'
         /\ job'[j].phase = "DONE" => worker'[j].signalled

(* A job that is launched or over has no worker and is not tracked.         *)
LEMMA OutsideLife ==
    ASSUME LivesOK, NEW t \in Servers, NEW j \in Jobs, Launching(t, j) \/ server[t].todo \in EndOf(j)
    PROVE  ~IsAlive(j) /\ job[j].phase = "NONE"
<1>1. ErrandOK(t, j)
  BY DEF LivesOK
<1>2. NoWorker.at = "NONE" /\ NoJob.phase = "NONE"
  BY DEF NoWorker, NoJob
<1> QED
  BY <1>1, <1>2 DEF ErrandOK, IsAlive

(* Lives go on in a step of one job that stays in order.                    *)
LEMMA OneJobMoves ==
    ASSUME ServerTypes, LivesOK, NEW j \in Jobs, MovesOn(j), StaysInOrder(j)
    PROVE  LivesOK'
<1>1. \A t \in Servers : server'[t] = server[t] /\ inst' = inst
  BY DEF MovesOn
<1>2. \A t \in Servers : ServerOK(t)'
  BY <1>1 DEF LivesOK, ServerOK, LaunchOf, PidOf
<1>3. ASSUME NEW i \in Jobs, i # j PROVE LifeOK(i)'
  <2>1. /\ LifeOK(i) /\ job'[i] = job[i] /\ worker'[i] = worker[i] /\ report'[i] = report[i] /\ attempt' = attempt
        /\ row'[i].state = row[i].state /\ server' = server
    BY <1>3 DEF LivesOK, MovesOn
  <2>2. (IsAlive(i)' <=> IsAlive(i)) /\ (StopsItsWorker(i)' <=> StopsItsWorker(i))
    BY <2>1 DEF IsAlive, StopsItsWorker
  <2> QED
    BY <2>1, <2>2 DEF LifeOK, NoJob, NoWorker, NoReport, NoAttempt
<1>4. LifeOK(j)'
  <2>1. /\ LifeOK(j) /\ attempt' = attempt /\ row'[j].state = row[j].state /\ server' = server
        /\ job'[j].owner = job[j].owner /\ (job'[j].phase = "NONE" <=> job[j].phase = "NONE")
    BY DEF LivesOK, MovesOn
  <2>2. row[j].state # "NONE"
    <3>1. NoWorker.at = "NONE" /\ NoJob.phase = "NONE"
      BY DEF NoWorker, NoJob
    <3> QED
      BY <2>1, <3>1 DEF LifeOK, MovesOn, IsAlive
  <2>3. job'[j].owner # Nobody => server'[job'[j].owner].at # "OFF"
    BY <2>1 DEF LifeOK
  <2>4. job'[j].phase # "NONE" =>
          /\ job'[j].owner # Nobody /\ server'[job'[j].owner].at = "UP"
          /\ row'[j].state \in {"ACTIVE", "INTERRUPTED"}
          /\ worker'[j].at # "NONE"
          /\ ~job'[j].startSent => worker'[j].posts = 0 /\ worker'[j].at \notin {"LOGIN", "PRESSED"}
          /\ job'[j].phase = "FORKED" => ~job'[j].startSent
    BY <2>1 DEF LifeOK, StaysInOrder
  <2>5. IsAlive(j)' =>
          /\ job'[j].owner # Nobody
          /\ server'[job'[j].owner].at = "UP" => job'[j].phase # "NONE" /\ StopsItsWorker(j)'
          /\ job'[j].phase = "DONE" => worker'[j].signalled
    BY <2>1 DEF LifeOK, StaysInOrder
  <2>6. (row'[j].state = "NONE") <=> (attempt'[j].rows = 0)
    BY <2>1 DEF LifeOK
  <2> QED
    BY <2>1, <2>2, <2>3, <2>4, <2>5, <2>6 DEF LifeOK, NoJob, NoWorker, NoReport, NoAttempt
<1>5. ASSUME NEW t \in Servers, NEW i \in Jobs PROVE ErrandOK(t, i)'
  <2>1. ErrandOK(t, i) /\ row'[i].state = row[i].state /\ server'[t] = server[t]
    BY <1>1 DEF LivesOK, MovesOn
  <2>2. (Launching(t, i)' <=> Launching(t, i)) /\ (HasErrand(t, i)' <=> HasErrand(t, i))
    BY <2>1 DEF Launching, HasErrand, LaunchOf, ErrandsOf, PidOf, EndOf, UnsentOf, PendingOf
  <2>3. CASE i # j
    <3>1. job'[i] = job[i] /\ worker'[i] = worker[i] /\ report'[i] = report[i]
      BY <2>3 DEF MovesOn
    <3>2. IsAlive(i)' <=> IsAlive(i)
      BY <3>1 DEF IsAlive
    <3> QED
      BY <2>1, <2>2, <3>1, <3>2 DEF ErrandOK, PidOf, EndOf, UnsentOf, PendingOf, NoJob, NoWorker, NoReport
  <2>4. CASE i = j
    <3>1. ~Launching(t, j) /\ server[t].todo \notin EndOf(j) /\ server[t].todo \notin UnsentOf(j)
      BY OutsideLife DEF MovesOn, EndOf
    <3>2. server[t].todo = PidOf(j) => job'[j].owner = t /\ job'[j].phase = "FORKED"
      BY <2>1, <2>4 DEF ErrandOK, MovesOn
    <3> QED
      BY <2>1, <2>2, <2>4, <3>1, <3>2 DEF ErrandOK, PidOf, EndOf, UnsentOf, PendingOf
  <2> QED
    BY <2>3, <2>4
<1>6. \A t \in Servers, i \in Jobs :
        /\ Launching(t, i)' <=> Launching(t, i)
        /\ HasErrand(t, i)' <=> HasErrand(t, i)
        /\ Belongs(t, i)' <=> Belongs(t, i)
        /\ Handles(t, i)' <=> Handles(t, i)
  <2>1. ASSUME NEW t \in Servers, NEW i \in Jobs
        PROVE  (Launching(t, i)' <=> Launching(t, i)) /\ (HasErrand(t, i)' <=> HasErrand(t, i))
    BY <1>1 DEF Launching, HasErrand, LaunchOf, ErrandsOf, PidOf, EndOf, UnsentOf, PendingOf
  <2>2. ASSUME NEW i \in Jobs PROVE job'[i].owner = job[i].owner /\ (job'[i].phase = "NONE" <=> job[i].phase = "NONE")
    BY DEF MovesOn
  <2> QED
    BY <2>1, <2>2 DEF Belongs, Handles, Tracks
<1>7. OneErrand' /\ Interrupted' /\ OneActive' /\ InOrder' /\ OneHandled'
  <2>1. \A i \in Jobs : row'[i].state = row[i].state
    BY DEF MovesOn
  <2>2. OneErrand'
    BY <1>6 DEF LivesOK, OneErrand
  <2>3. Interrupted'
    BY <1>1, <1>6, <2>1 DEF LivesOK, Interrupted
  <2>4. OneActive' /\ InOrder'
    BY <2>1 DEF LivesOK, OneActive, InOrder
  <2>5. OneHandled'
    BY <1>6 DEF LivesOK, OneHandled
  <2> QED
    BY <2>2, <2>3, <2>4, <2>5
<1> QED
  BY <1>2, <1>3, <1>4, <1>5, <1>7 DEF LivesOK

(* The process id of a worker is recorded by its server, before the server  *)
(* does anything else.                                                      *)
LEMMA NobodyRecordsPid ==
    ASSUME LivesOK, NEW s \in Servers, NEW j \in Jobs, Idle(s), job[j].owner = s, NEW t \in Servers
    PROVE  server[t].todo # PidOf(j)
<1>1. server[t].todo = PidOf(j) => job[j].owner = t
  BY DEF LivesOK, ErrandOK
<1>2. server[s].todo = <<>> /\ PidOf(j) # <<>>
  BY DEF Idle, PidOf
<1> QED
  BY <1>1, <1>2

(* READY and the kills of a worker are such steps.                          *)
LEMMA ServerStepsOfAJob ==
    ASSUME ServerTypes, LivesOK, NEW s \in Servers, NEW j \in Jobs,
           ReceiveReady(s, j) \/ LockLostKill(s, j) \/ EndAndKill(s, j)
    PROVE  LivesOK'
<1>1. job[j] \in JobRecord /\ worker[j] \in WorkerRecord /\ LifeOK(j)
  BY DEF ServerTypes, LivesOK
<1>2. Idle(s) /\ job[j].owner = s /\ job[j].phase # "NONE"
  BY DEF ReceiveReady, LockLostKill, EndAndKill, Tracks
<1>3. \A t \in Servers : server[t].todo # PidOf(j)
  BY <1>2, NobodyRecordsPid
<1>4. CASE ReceiveReady(s, j)
  <2>1. /\ job'[j].owner = job[j].owner /\ job'[j].phase = "STARTED" /\ job'[j].startSent = ~job[j].stopRequested
        /\ job'[j].killTimer = job[j].killTimer
        /\ worker'[j].at = IF job[j].stopRequested THEN "AFTER" ELSE "LOGIN"
        /\ worker'[j].posts = worker[j].posts /\ worker'[j].signalled = worker[j].signalled
    BY <1>1, <1>4 DEF ReceiveReady, ServerTypes, JobRecord, WorkerRecord
  <2>2. /\ UNCHANGED <<inst, server, attempt>>
        /\ \A i \in Jobs : row'[i].state = row[i].state
        /\ \A i \in Jobs \ {j} : job'[i] = job[i] /\ worker'[i] = worker[i] /\ report'[i] = report[i]
    BY <1>4 DEF ReceiveReady, ServerTypes, RowRecord
  <2>3. MovesOn(j)
    BY <1>2, <1>3, <2>1, <2>2 DEF MovesOn
  <2>4. IsAlive(j) /\ job[j].phase = "FORKED" /\ server' = server
    BY <1>4 DEF ReceiveReady, IsAlive
  <2>5. IsAlive(j) /\ server[job[j].owner].at = "UP" => StopsItsWorker(j)'
    BY <1>1, <2>1, <2>4 DEF LifeOK, StopsItsWorker
  <2>6. worker[j].posts = 0
    BY <1>1, <2>4 DEF LifeOK
  <2>7. worker'[j].at \in {"AFTER", "LOGIN"} /\ (~job'[j].startSent => worker'[j].at = "AFTER")
    BY <2>1, Zenon
  <2>8. StaysInOrder(j)
    BY <2>1, <2>4, <2>5, <2>6, <2>7 DEF StaysInOrder
  <2> QED
    BY <2>3, <2>8, OneJobMoves
<1>5. CASE LockLostKill(s, j) \/ EndAndKill(s, j)
  <2>1. /\ job'[j].owner = job[j].owner /\ job'[j].phase = "DONE" /\ job'[j].startSent = job[j].startSent
        /\ \A i \in Jobs \ {j} : job'[i] = job[i]
    <3>1. CASE LockLostKill(s, j)
      BY <1>1, <3>1 DEF LockLostKill, ServerTypes, JobRecord
    <3>2. CASE EndAndKill(s, j)
      <4>1. PICK failed \in BOOLEAN : job' = [job EXCEPT ![j].phase = "DONE", ![j].startFailed = failed]
        BY <3>2 DEF EndAndKill
      <4>2. job' = [job EXCEPT ![j] = [job[j] EXCEPT !.phase = "DONE", !.startFailed = failed]]
        BY <4>1 DEF ServerTypes
      <4>3. job'[j] = [job[j] EXCEPT !.phase = "DONE", !.startFailed = failed] /\ \A i \in Jobs \ {j} : job'[i] = job[i]
        BY <4>2 DEF ServerTypes
      <4> QED
        BY <1>1, <4>3 DEF JobRecord
    <3> QED
      BY <1>5, <3>1, <3>2
  <2>2. /\ worker'[j].at = worker[j].at /\ worker'[j].posts = worker[j].posts /\ worker'[j].signalled = IsAlive(j)
        /\ \A i \in Jobs \ {j} : worker'[i] = worker[i]
    BY <1>1, <1>5 DEF LockLostKill, EndAndKill, Signalled, ServerTypes, WorkerRecord
  <2>3. UNCHANGED <<inst, server, attempt, row, report>>
    BY <1>5 DEF LockLostKill, EndAndKill, dbVars
  <2>4. MovesOn(j)
    BY <1>2, <1>3, <2>1, <2>2, <2>3 DEF MovesOn
  <2>5. (IsAlive(j)' <=> IsAlive(j)) /\ (IsAlive(j) => StopsItsWorker(j)')
    BY <2>2 DEF IsAlive, StopsItsWorker
  <2>6. StaysInOrder(j)
    BY <1>1, <1>2, <2>1, <2>2, <2>5 DEF LifeOK, StaysInOrder
  <2> QED
    BY <2>4, <2>6, OneJobMoves
<1> QED
  BY <1>4, <1>5

(* So are the steps of a worker.                                            *)
LEMMA WorkerStepLives ==
    ASSUME ServerTypes, LivesOK, NEW j \in Jobs, WorkerStep(j)
    PROVE  LivesOK'
<1>1. worker[j] \in WorkerRecord /\ LifeOK(j)
  BY DEF ServerTypes, LivesOK
<1>2. OnlyWorker(j) /\ (GoesOn(j) \/ Tells(j) \/ Rests(j))
  BY WorkerSteps
<1>3. UNCHANGED <<inst, server, attempt, row, job>> /\ IsAlive(j)
  BY <1>2 DEF OnlyWorker
<1>4. MovesOn(j)
  BY <1>2, <1>3 DEF OnlyWorker, MovesOn
<1>5. /\ worker'[j].at # "NONE"
      /\ worker'[j].at # "GONE" => worker'[j].signalled = worker[j].signalled
      /\ InLogin(j) \/ (worker'[j].posts = worker[j].posts /\ worker'[j].at \notin {"LOGIN", "PRESSED"})
  <2>1. CASE InLogin(j)
    BY <1>2, <2>1 DEF OnlyWorker
  <2>2. CASE ~InLogin(j)
    BY <1>2, <2>2 DEF OnlyWorker, GoesOn, Tells, Rests, InLogin
  <2> QED
    BY <2>1, <2>2
<1>6. IsAlive(j)' => (StopsItsWorker(j) => StopsItsWorker(j)')
  BY <1>3, <1>5 DEF IsAlive, StopsItsWorker
<1>7. StaysInOrder(j)
  BY <1>1, <1>3, <1>5, <1>6 DEF LifeOK, StaysInOrder, IsAlive, InLogin
<1> QED
  BY <1>4, <1>7, OneJobMoves

-----------------------------------------------------------------------------
(* The lives of servers and jobs: what starts and what ends. *)

SameJob(j) ==
    /\ job'[j] = job[j] /\ worker'[j] = worker[j] /\ report'[j] = report[j] /\ attempt'[j] = attempt[j]
    /\ row'[j].state = row[j].state

(* A job goes on that did not change, nor its server.                       *)
LEMMA LifeStays ==
    ASSUME NEW j \in Jobs, LifeOK(j), SameJob(j),
           job[j].owner # Nobody => /\ server'[job[j].owner].at = server[job[j].owner].at
                                    /\ server'[job[j].owner].lost = server[job[j].owner].lost
                                    /\ server'[job[j].owner].stopSoon = server[job[j].owner].stopSoon
    PROVE  LifeOK(j)'
<1>1. /\ job'[j] = job[j] /\ worker'[j] = worker[j] /\ report'[j] = report[j] /\ attempt'[j] = attempt[j]
      /\ row'[j].state = row[j].state
  BY DEF SameJob
<1>2. (IsAlive(j)' <=> IsAlive(j)) /\ (job[j].owner # Nobody => (StopsItsWorker(j)' <=> StopsItsWorker(j)))
  BY <1>1 DEF IsAlive, StopsItsWorker
<1> QED
  BY <1>1, <1>2 DEF LifeOK, NoJob, NoWorker, NoReport, NoAttempt

(* So do the errands of a server about such a job.                          *)
LEMMA ErrandsStay ==
    ASSUME NEW t \in Servers, NEW j \in Jobs, server'[t].todo = server[t].todo
    PROVE  /\ Launching(t, j)' <=> Launching(t, j)
           /\ HasErrand(t, j)' <=> HasErrand(t, j)
           /\ ErrandOK(t, j) /\ SameJob(j) => ErrandOK(t, j)'
<1>1. (Launching(t, j)' <=> Launching(t, j)) /\ (HasErrand(t, j)' <=> HasErrand(t, j))
  BY DEF Launching, HasErrand, LaunchOf, ErrandsOf, PidOf, EndOf, UnsentOf, PendingOf
<1>2. ASSUME ErrandOK(t, j), SameJob(j) PROVE ErrandOK(t, j)'
  <2>1. job'[j] = job[j] /\ worker'[j] = worker[j] /\ report'[j] = report[j] /\ row'[j].state = row[j].state
    BY <1>2 DEF SameJob
  <2>2. IsAlive(j)' <=> IsAlive(j)
    BY <2>1 DEF IsAlive
  <2> QED
    BY <1>1, <1>2, <2>1, <2>2 DEF ErrandOK, PidOf, EndOf, UnsentOf, PendingOf, NoJob, NoWorker, NoReport
<1> QED
  BY <1>1, <1>2

(* A server whose errands are about another job, or none.                   *)
LEMMA NoErrand ==
    ASSUME NEW t \in Servers, NEW j \in Jobs, server'[t].todo \notin ErrandsOf(j)
    PROVE  ~Launching(t, j)' /\ ~HasErrand(t, j)' /\ ErrandOK(t, j)'
<1>1. ~Launching(t, j)' /\ ~HasErrand(t, j)'
  BY DEF Launching, HasErrand, LaunchOf, ErrandsOf, PidOf, EndOf, UnsentOf, PendingOf
<1>2. server'[t].todo # PidOf(j) /\ server'[t].todo \notin EndOf(j) /\ server'[t].todo \notin UnsentOf(j)
  BY DEF ErrandsOf, EndOf
<1> QED
  BY <1>1, <1>2 DEF ErrandOK, PidOf, EndOf, UnsentOf, PendingOf

(* The manager of a server comes and goes with the lock.                    *)
LEMMA ManagerLives ==
    ASSUME ServerTypes, LivesOK, NEW s \in Servers, CreateManager(s) \/ CloseManager(s)
    PROVE  LivesOK'
<1>1. server[s] \in ServerRecord /\ ServerOK(s) /\ s # Nobody
  BY ServersAssumption DEF ServerTypes, LivesOK
<1>2. UNCHANGED <<row, job, worker, report, attempt>>
  BY DEF CreateManager, CloseManager, workerVars
<1>3. ASSUME NEW t \in Servers, t # s PROVE server'[t] = server[t]
  BY <1>3 DEF CreateManager, CloseManager, ServerTypes
<1>4. \/ /\ server[s].at = "OFF" /\ server'[s].at = "UP" /\ ~server'[s].lost /\ inst'.owner = s
      \/ /\ server'[s].at = "GONE" /\ server'[s].todo = <<>> /\ ~server'[s].lost
         /\ inst'.owner # s /\ inst'.owner \in {inst.owner, Nobody}
         /\ \A j \in Jobs : ~Tracks(s, j)
  <2>1. CASE CreateManager(s)
    BY <1>1, <2>1 DEF CreateManager, ServerTypes, ServerRecord, ServerOK
  <2>2. CASE CloseManager(s)
    BY <1>1, <2>2 DEF CloseManager, ServerTypes, ServerOff, NoInstance
  <2> QED
    BY <2>1, <2>2
<1>5. server'[s].todo \in Preparations
  <2>1. CASE CreateManager(s)
    <3>1. server'[s].todo = <<Step("INTERRUPT", 0), Step("ORPHANS", 0)>>
      BY <1>1, <2>1 DEF CreateManager, ServerTypes, ServerRecord
    <3> QED
      BY <3>1 DEF Preparations
  <2>2. CASE CloseManager(s)
    BY <2>2 DEF CloseManager, ServerTypes, ServerOff, Preparations
  <2> QED
    BY <2>1, <2>2
<1>6. \A j \in Jobs : server'[s].todo \notin ErrandsOf(j) /\ server'[s].todo \notin {LaunchOf(j), PidOf(j)}
  BY <1>5, PreparationsAreNone
<1>7. ASSUME NEW t \in Servers PROVE ServerOK(t)'
  <2>1. CASE t = s
    BY <1>4, <1>6, <2>1 DEF ServerOK, LaunchOf, PidOf
  <2>2. CASE t # s
    <3>1. server'[t] = server[t] /\ ServerOK(t) /\ t # Nobody
      BY <1>3, <2>2, ServersAssumption DEF LivesOK
    <3>2. inst'.owner = t => inst.owner = t
      BY <1>4, <2>2, <3>1
    <3> QED
      BY <3>1, <3>2 DEF ServerOK, LaunchOf, PidOf
  <2> QED
    BY <2>1, <2>2
<1>8. ASSUME NEW j \in Jobs PROVE LifeOK(j)'
  <2>1. SameJob(j) /\ LifeOK(j)
    BY <1>2 DEF SameJob, LivesOK
  <2>2. CASE job[j].owner # s
    <3>1. job[j].owner # Nobody => server'[job[j].owner] = server[job[j].owner]
      BY <1>3, <2>2 DEF ServerTypes, JobRecord
    <3> QED
      BY <2>1, <3>1, LifeStays
  <2>3. CASE job[j].owner = s
    <3>1. server[s].at # "OFF" /\ server'[s].at = "GONE" /\ job[j].phase = "NONE"
      BY <1>1, <1>4, <2>1, <2>3 DEF LifeOK, Tracks
    <3>2. IsAlive(j)' <=> IsAlive(j)
      BY <1>2 DEF IsAlive
    <3> QED
      BY <1>1, <1>2, <2>1, <2>3, <3>1, <3>2 DEF LifeOK, NoJob, NoWorker, NoReport, NoAttempt
  <2> QED
    BY <2>2, <2>3
<1>9. ASSUME NEW t \in Servers, NEW j \in Jobs
      PROVE  ErrandOK(t, j)' /\ (Launching(t, j)' => Launching(t, j)) /\ (HasErrand(t, j)' => HasErrand(t, j))
  <2>1. CASE t = s
    BY <1>6, <2>1, NoErrand
  <2>2. CASE t # s
    BY <1>2, <1>3, <2>2, ErrandsStay DEF LivesOK, SameJob
  <2> QED
    BY <2>1, <2>2
<1>10. OneErrand'
  BY <1>9 DEF LivesOK, OneErrand
<1>11. Interrupted'
  <2> SUFFICES ASSUME NEW t \in Servers, NEW j \in Jobs, Belongs(t, j)', row'[j].state = "INTERRUPTED"
               PROVE  inst'.owner # t
    BY DEF Interrupted
  <2>1. Belongs(t, j) /\ inst.owner # t /\ t # Nobody
    BY <1>2, <1>9, ServersAssumption DEF Belongs, LivesOK, Interrupted
  <2>2. CASE t = s
    <3>1. ~Launching(s, j)'
      BY <1>6, NoErrand
    <3>2. job[j].owner = s
      BY <1>2, <2>2, <3>1 DEF Belongs
    <3>3. server[s].at # "OFF"
      BY <1>1, <3>2 DEF LivesOK, LifeOK
    <3> QED
      BY <1>4, <2>2, <3>3
  <2>3. CASE t # s
    BY <1>4, <2>1, <2>3
  <2> QED
    BY <2>2, <2>3
<1>12. OneActive' /\ InOrder'
  BY <1>2 DEF LivesOK, OneActive, InOrder
<1>13. OneHandled'
  BY <1>2, <1>9 DEF LivesOK, OneHandled, Handles, Tracks
<1> QED
  BY <1>7, <1>8, <1>9, <1>10, <1>11, <1>12, <1>13 DEF LivesOK

(* The jobs of a server that dies are nobody's any more.                    *)
LEMMA CrashLives ==
    ASSUME ServerTypes, LivesOK, NEW s \in Servers, ServerCrashes(s)
    PROVE  LivesOK'
<1>1. server[s].at = "UP" /\ ServerOK(s) /\ s # Nobody
  BY ServersAssumption DEF ServerCrashes, LivesOK
<1>2. inst' = inst /\ row' = row /\ worker' = worker /\ attempt' = attempt
  BY DEF ServerCrashes, dbVars
<1>3. ASSUME NEW t \in Servers, t # s PROVE server'[t] = server[t]
  BY <1>3 DEF ServerCrashes, ServerTypes
<1>4. server'[s].at = "GONE" /\ server'[s].todo = <<>> /\ ~server'[s].lost
  BY DEF ServerCrashes, ServerTypes, ServerOff
<1>5. ASSUME NEW j \in Jobs
      PROVE  /\ job[j].owner # s => SameJob(j)
             /\ job[j].owner = s => job'[j].owner = s /\ job'[j].phase = "NONE" /\ report'[j] = NoReport
  <2>1. job[j].owner # s => SameJob(j)
    BY <1>2 DEF ServerCrashes, ServerTypes, SameJob
  <2>2. job[j].owner = s => job'[j] = Forgotten(j) /\ report'[j] = NoReport
    BY DEF ServerCrashes, ServerTypes
  <2>3. Forgotten(j).owner = job[j].owner /\ Forgotten(j).phase = "NONE"
    BY DEF Forgotten, NoJob
  <2> QED
    BY <2>1, <2>2, <2>3
<1>6. \A j \in Jobs : job'[j].owner = job[j].owner /\ (job'[j].phase # "NONE" => job[j].phase # "NONE" /\ job[j].owner # s)
  BY <1>5 DEF SameJob
<1>7. \A j \in Jobs : server'[s].todo \notin ErrandsOf(j) /\ server'[s].todo \notin {LaunchOf(j), PidOf(j)}
  <2>1. server'[s].todo \in Preparations
    BY <1>4 DEF Preparations
  <2> QED
    BY <2>1, PreparationsAreNone
<1>8. ASSUME NEW t \in Servers PROVE ServerOK(t)'
  <2>1. CASE t = s
    BY <1>4, <1>7, <2>1 DEF ServerOK, LaunchOf, PidOf
  <2>2. CASE t # s
    <3>1. server'[t] = server[t] /\ ServerOK(t)
      BY <1>3, <2>2 DEF LivesOK
    <3> QED
      BY <1>2, <3>1 DEF ServerOK, LaunchOf, PidOf
  <2> QED
    BY <2>1, <2>2
<1>9. ASSUME NEW j \in Jobs PROVE LifeOK(j)'
  <2>1. LifeOK(j)
    BY DEF LivesOK
  <2>2. CASE job[j].owner # s
    <3>1. job[j].owner # Nobody => server'[job[j].owner] = server[job[j].owner]
      BY <1>3, <2>2 DEF ServerTypes, JobRecord
    <3> QED
      BY <1>5, <2>1, <2>2, <3>1, LifeStays
  <2>3. CASE job[j].owner = s
    <3>1. row[j].state # "NONE"
      BY <1>1, <2>1, <2>3 DEF LifeOK, NoJob
    <3> QED
      BY <1>1, <1>2, <1>4, <1>5, <2>1, <2>3, <3>1 DEF LifeOK, NoJob, NoWorker, NoReport, NoAttempt
  <2> QED
    BY <2>2, <2>3
<1>10. ASSUME NEW t \in Servers, NEW j \in Jobs
       PROVE  ErrandOK(t, j)' /\ (Launching(t, j)' => Launching(t, j)) /\ (HasErrand(t, j)' => HasErrand(t, j))
  <2>1. CASE t = s
    BY <1>7, <2>1, NoErrand
  <2>2. CASE t # s /\ job[j].owner # s
    BY <1>3, <1>5, <2>2, ErrandsStay DEF LivesOK
  <2>3. CASE t # s /\ job[j].owner = s
    <3>1. server'[t].todo = server[t].todo /\ ErrandOK(t, j)
      BY <1>3, <2>3 DEF LivesOK
    <3>2. (Launching(t, j)' <=> Launching(t, j)) /\ (HasErrand(t, j)' <=> HasErrand(t, j))
      BY <3>1, ErrandsStay
    <3>3. ~Launching(t, j) /\ server[t].todo # PidOf(j)
      BY <1>1, <2>3, <3>1 DEF ErrandOK, NoJob
    <3>4. ~IsAlive(j)' <=> ~IsAlive(j)
      BY <1>2 DEF IsAlive
    <3> QED
      BY <1>2, <1>5, <2>3, <3>1, <3>2, <3>3, <3>4 DEF ErrandOK, PidOf, EndOf, UnsentOf, PendingOf, NoReport
  <2> QED
    BY <2>1, <2>2, <2>3
<1>11. OneErrand'
  BY <1>10 DEF LivesOK, OneErrand
<1>12. Interrupted'
  BY <1>2, <1>6, <1>10 DEF LivesOK, Interrupted, Belongs
<1>13. OneActive' /\ InOrder'
  BY <1>2 DEF LivesOK, OneActive, InOrder
<1>14. OneHandled'
  BY <1>6, <1>10 DEF LivesOK, OneHandled, Handles, Tracks
<1> QED
  BY <1>8, <1>9, <1>10, <1>11, <1>12, <1>13, <1>14 DEF LivesOK

(* A server that lost the lock stops the one worker it has.                 *)
LEMMA StopLives ==
    ASSUME ServerTypes, LivesOK, NEW s \in Servers, StopWorkersAfterLockLost(s)
    PROVE  LivesOK'
<1>1. Idle(s) /\ server[s].at = "UP" /\ server[s] \in ServerRecord
  BY DEF StopWorkersAfterLockLost, Idle, CanAct, ServerTypes
<1>2. inst' = inst /\ row' = row /\ attempt' = attempt /\ report' = report
  BY DEF StopWorkersAfterLockLost, dbVars
<1>3. /\ \A t \in Servers \ {s} : server'[t] = server[t]
      /\ server'[s].at = server[s].at /\ server'[s].todo = server[s].todo /\ server'[s].lost = server[s].lost
  BY <1>1 DEF StopWorkersAfterLockLost, ServerTypes, ServerRecord
<1>4. \/ /\ ~\E j \in Jobs : Tracks(s, j) /\ IsUndecided(j)
         /\ UNCHANGED <<job, worker>>
      \/ \E j \in Jobs : Tracks(s, j) /\ IsUndecided(j) /\ RequestStop(j, TRUE)
  BY DEF StopWorkersAfterLockLost
<1>5. ASSUME NEW j \in Jobs
      PROVE  /\ job'[j].owner = job[j].owner /\ job'[j].phase = job[j].phase /\ job'[j].startSent = job[j].startSent
             /\ job[j].killTimer => job'[j].killTimer
             /\ worker'[j].at = worker[j].at /\ worker'[j].posts = worker[j].posts /\ worker'[j].signalled = worker[j].signalled
             /\ ~Tracks(s, j) => SameJob(j)
             /\ Tracks(s, j) /\ IsUndecided(j) => job'[j].killTimer
  <2>1. CASE UNCHANGED <<job, worker>> /\ ~\E i \in Jobs : Tracks(s, i) /\ IsUndecided(i)
    BY <1>2, <2>1 DEF SameJob
  <2>2. CASE \E i \in Jobs : Tracks(s, i) /\ IsUndecided(i) /\ RequestStop(i, TRUE)
    <3>1. PICK i \in Jobs : Tracks(s, i) /\ IsUndecided(i) /\ RequestStop(i, TRUE)
      BY <2>2
    <3>2. Tracks(s, j) => i = j
      BY <3>1 DEF LivesOK, OneHandled, Handles
    <3>3. i # j => job'[j] = job[j] /\ worker'[j] = worker[j]
      BY <3>1 DEF RequestStop, ServerTypes
    <3>4. job[i] \in JobRecord /\ worker[i] \in WorkerRecord
      BY DEF ServerTypes
    <3>5. PICK b \in BOOLEAN : b = (worker[i].stop \/ (job[i].phase = "STARTED" /\ IsAlive(i)))
      OBVIOUS
    <3>6. worker' = [worker EXCEPT ![i] = [worker[i] EXCEPT !.stop = b]]
      BY <3>1, <3>5 DEF RequestStop, ServerTypes
    <3>7. worker'[i].at = worker[i].at /\ worker'[i].posts = worker[i].posts /\ worker'[i].signalled = worker[i].signalled
      BY <3>4, <3>6 DEF ServerTypes, WorkerRecord
    <3>8. job'[i] = [job[i] EXCEPT !.stopRequested = TRUE, !.killTimer = TRUE]
      <4>1. job'[i] = [job[i] EXCEPT !.stopRequested = TRUE, !.killTimer = @ \/ TRUE]
        BY <3>1 DEF RequestStop, ServerTypes
      <4>2. (job[i].killTimer \/ TRUE) = TRUE
        OBVIOUS
      <4> QED
        BY <4>1, <4>2
    <3>9. job'[i].owner = job[i].owner /\ job'[i].phase = job[i].phase /\ job'[i].startSent = job[i].startSent /\ job'[i].killTimer
      BY <3>4, <3>8 DEF JobRecord
    <3> QED
      BY <1>2, <3>1, <3>2, <3>3, <3>7, <3>9 DEF SameJob
  <2> QED
    BY <1>4, <2>1, <2>2
<1>6. ASSUME NEW t \in Servers PROVE ServerOK(t)'
  <2>1. /\ ServerOK(t) /\ server'[t].at = server[t].at /\ server'[t].todo = server[t].todo /\ server'[t].lost = server[t].lost
    BY <1>3 DEF LivesOK
  <2> QED
    BY <1>2, <2>1 DEF ServerOK, LaunchOf, PidOf
<1>7. ASSUME NEW j \in Jobs PROVE LifeOK(j)'
  <2>1. LifeOK(j)
    BY DEF LivesOK
  <2>2. CASE job[j].owner # s
    <3>1. job[j].owner # Nobody => server'[job[j].owner] = server[job[j].owner]
      BY <1>3, <2>2 DEF ServerTypes, JobRecord
    <3> QED
      BY <1>5, <2>1, <2>2, <3>1, LifeStays DEF Tracks
  <2>3. CASE job[j].owner = s /\ job[j].phase = "NONE"
    <3>1. SameJob(j)
      BY <1>5, <2>3 DEF Tracks
    <3>2. ~IsAlive(j) /\ ~IsAlive(j)'
      BY <1>1, <1>5, <2>1, <2>3 DEF LifeOK, IsAlive
    <3> QED
      BY <1>2, <1>3, <2>1, <2>3, <3>1, <3>2 DEF LifeOK, SameJob, NoJob, NoWorker, NoReport, NoAttempt
  <2>4. CASE job[j].owner = s /\ job[j].phase # "NONE"
    <3>1. row[j].state # "NONE" /\ s # Nobody
      BY <2>1, <2>4, ServersAssumption DEF LifeOK, NoJob
    <3>2. IsAlive(j)' <=> IsAlive(j)
      BY <1>5 DEF IsAlive
    <3>3. IsAlive(j) => job'[j].killTimer \/ worker'[j].signalled
      <4>1. job[j].phase \in {"FORKED", "STARTED", "DONE"}
        BY <2>4 DEF ServerTypes, JobRecord
      <4>2. CASE job[j].phase = "DONE"
        BY <1>5, <2>1, <4>2 DEF LifeOK
      <4>3. CASE IsUndecided(j)
        BY <1>5, <2>4, <4>3 DEF Tracks
      <4> QED
        BY <4>1, <4>2, <4>3 DEF IsUndecided
    <3>4. IsAlive(j)' => StopsItsWorker(j)'
      BY <3>2, <3>3 DEF StopsItsWorker
    <3>5. /\ job'[j].phase # "NONE" =>
               /\ job'[j].owner # Nobody /\ server'[job'[j].owner].at = "UP"
               /\ row'[j].state \in {"ACTIVE", "INTERRUPTED"}
               /\ worker'[j].at # "NONE"
               /\ ~job'[j].startSent => worker'[j].posts = 0 /\ worker'[j].at \notin {"LOGIN", "PRESSED"}
               /\ job'[j].phase = "FORKED" => ~job'[j].startSent
      BY <1>2, <1>3, <1>5, <2>1, <2>4 DEF LifeOK
    <3>6. IsAlive(j)' => /\ job'[j].owner # Nobody /\ job'[j].phase # "NONE" /\ StopsItsWorker(j)'
                         /\ job'[j].phase = "DONE" => worker'[j].signalled
      BY <1>5, <2>1, <2>4, <3>1, <3>2, <3>4 DEF LifeOK
    <3>7. (row'[j].state = "NONE" <=> attempt'[j].rows = 0) /\ row'[j].state # "NONE"
      BY <1>2, <2>1, <3>1 DEF LifeOK
    <3>8. server'[job'[j].owner].at # "OFF"
      BY <1>1, <1>3, <1>5, <2>4
    <3> QED
      BY <3>5, <3>6, <3>7, <3>8 DEF LifeOK, NoJob, NoWorker, NoReport, NoAttempt
  <2> QED
    BY <2>2, <2>3, <2>4
<1>8. ASSUME NEW t \in Servers, NEW j \in Jobs
      PROVE  ErrandOK(t, j)' /\ (Launching(t, j)' <=> Launching(t, j)) /\ (HasErrand(t, j)' <=> HasErrand(t, j))
  <2>1. server'[t].todo = server[t].todo /\ ErrandOK(t, j)
    BY <1>3 DEF LivesOK
  <2>2. (Launching(t, j)' <=> Launching(t, j)) /\ (HasErrand(t, j)' <=> HasErrand(t, j))
    BY <2>1, ErrandsStay
  <2>3. CASE ~Tracks(s, j)
    BY <1>5, <2>1, <2>3, ErrandsStay
  <2>4. CASE Tracks(s, j)
    <3>1. ~Launching(t, j) /\ server[t].todo \notin EndOf(j) /\ server[t].todo # PidOf(j)
      BY <1>1, <2>4, OutsideLife, NobodyRecordsPid DEF Tracks
    <3>2. ~HasErrand(t, j)
      BY <3>1 DEF HasErrand, Launching, ErrandsOf
    <3>3. server'[t].todo \notin ErrandsOf(j)
      BY <2>1, <3>2 DEF HasErrand
    <3> QED
      BY <2>2, <3>3, NoErrand
  <2> QED
    BY <2>2, <2>3, <2>4
<1>9. \A j \in Jobs : job'[j].owner = job[j].owner /\ job'[j].phase = job[j].phase
  BY <1>5
<1>10. OneErrand' /\ OneActive' /\ InOrder'
  BY <1>2, <1>8 DEF LivesOK, OneErrand, OneActive, InOrder
<1>11. Interrupted'
  BY <1>2, <1>8, <1>9 DEF LivesOK, Interrupted, Belongs
<1>12. OneHandled'
  BY <1>8, <1>9 DEF LivesOK, OneHandled, Handles, Tracks
<1> QED
  BY <1>6, <1>7, <1>8, <1>10, <1>11, <1>12 DEF LivesOK

(* A server whose worker is gone forgets the job and ends its row.          *)
LEMMA ExitLives ==
    ASSUME ServerTypes, LivesOK, NEW s \in Servers, NEW k \in Jobs, WorkerExited(s, k)
    PROVE  LivesOK'
<1> DEFINE td == <<Step("END_ROW", k), Step(ClosingOf(k), k)>>
<1>1. /\ Idle(s) /\ server[s].at = "UP" /\ s # Nobody /\ LifeOK(k)
      /\ job[k].owner = s /\ job[k].phase # "NONE" /\ worker[k].at = "GONE" /\ SetTodo(s, td)
  BY ServersAssumption DEF WorkerExited, Idle, CanAct, Tracks, LivesOK
<1>2. inst' = inst /\ row' = row /\ attempt' = attempt /\ worker' = worker
  BY DEF WorkerExited, dbVars
<1>3. td \in EndOf(k) /\ td \in ErrandsOf(k) /\ td # LaunchOf(k) /\ (td \in UnsentOf(k) => job[k].startFailed /\ ~job[k].startSent)
  <2>1. CASE job[k].startFailed /\ ~job[k].startSent
    <3>1. td \in UnsentOf(k)
      BY <2>1 DEF ClosingOf, UnsentOf
    <3> QED
      BY <2>1, <3>1, ErrandsDiffer DEF EndOf, ErrandsOf
  <2>2. CASE ~(job[k].startFailed /\ ~job[k].startSent)
    <3>1. td \in PendingOf(k)
      BY <2>2 DEF ClosingOf, PendingOf
    <3>2. td \notin UnsentOf(k)
      BY <2>2 DEF ClosingOf, UnsentOf, Step
    <3> QED
      BY <3>1, <3>2, ErrandsDiffer DEF EndOf, ErrandsOf
  <2> QED
    BY <2>1, <2>2
<1> HIDE DEF td
<1>4. \A t \in Servers : /\ server'[t].at = server[t].at /\ server'[t].lost = server[t].lost /\ server'[t].stopSoon = server[t].stopSoon
                         /\ t # s => server'[t] = server[t]
                         /\ t = s => server'[t].todo = td
  BY <1>1, OthersKeepErrands DEF ServerTypes
<1>5. /\ \A j \in Jobs \ {k} : SameJob(j)
      /\ job'[k].owner = s /\ job'[k].phase = "NONE" /\ report'[k] = NoReport
  <2>1. job'[k] = Forgotten(k) /\ report'[k] = NoReport /\ \A j \in Jobs \ {k} : SameJob(j)
    BY <1>2 DEF WorkerExited, ServerTypes, SameJob
  <2> QED
    BY <1>1, <2>1 DEF Forgotten, NoJob
<1>6. ASSUME NEW t \in Servers PROVE ServerOK(t)'
  <2>1. CASE t = s
    <3>1. \A j \in Jobs : td # LaunchOf(j) /\ td # PidOf(j)
      BY <1>3, ErrandsDiffer
    <3> QED
      BY <1>1, <1>2, <1>4, <2>1, <3>1 DEF LivesOK, ServerOK, LaunchOf, PidOf
  <2>2. CASE t # s
    BY <1>2, <1>4, <2>2 DEF LivesOK, ServerOK, LaunchOf, PidOf
  <2> QED
    BY <2>1, <2>2
<1>7. ASSUME NEW j \in Jobs PROVE LifeOK(j)'
  <2>1. CASE j = k
    <3>1. ~IsAlive(k)' /\ row[k].state # "NONE"
      BY <1>1, <1>2 DEF IsAlive, LifeOK, NoJob
    <3> QED
      BY <1>1, <1>2, <1>4, <1>5, <2>1, <3>1 DEF LifeOK, NoJob, NoWorker, NoReport, NoAttempt
  <2>2. CASE j # k
    <3>1. job[j].owner # Nobody => job[j].owner \in Servers
      BY DEF ServerTypes, JobRecord
    <3> QED
      BY <1>4, <1>5, <2>2, <3>1, LifeStays DEF LivesOK
  <2> QED
    BY <2>1, <2>2
<1>8. ASSUME NEW t \in Servers, NEW j \in Jobs
      PROVE  /\ ErrandOK(t, j)' /\ (Launching(t, j)' => Launching(t, j))
             /\ HasErrand(t, j)' => HasErrand(t, j) \/ (t = s /\ j = k)
             /\ HasErrand(t, k)' => t = s
  <2>1. ~HasErrand(t, k)
    BY <1>1, OutsideLife, NobodyRecordsPid DEF HasErrand, Launching, ErrandsOf
  <2>2. CASE t = s /\ j = k
    <3>1. server'[s].todo = td /\ server'[s].todo # LaunchOf(k) /\ server'[s].todo # PidOf(k)
      BY <1>3, <1>4, ErrandsDiffer
    <3>2. ~Launching(s, k)' /\ ~IsAlive(k)'
      BY <1>1, <1>2, <3>1 DEF Launching, LaunchOf, IsAlive
    <3>3. row'[k].state # "NONE" /\ (server'[s].todo \in UnsentOf(k) => worker'[k].posts = 0)
      BY <1>1, <1>2, <1>3, <3>1 DEF LifeOK
    <3> QED
      BY <1>5, <2>2, <3>1, <3>2, <3>3 DEF ErrandOK, PidOf, EndOf, UnsentOf, PendingOf, NoReport
  <2>3. CASE t = s /\ j # k
    <3>1. server'[t].todo \notin ErrandsOf(j)
      BY <1>3, <1>4, <2>3, ErrandsOfOne
    <3> QED
      BY <2>3, <3>1, NoErrand
  <2>4. CASE t # s
    <3>1. server'[t].todo = server[t].todo
      BY <1>4, <2>4
    <3>2. ~HasErrand(t, k)' /\ ErrandOK(t, k)'
      BY <2>1, <3>1, NoErrand DEF HasErrand
    <3>3. CASE j = k
      BY <3>1, <3>2, <3>3, ErrandsStay
    <3>4. CASE j # k
      <4>1. ErrandOK(t, j) /\ SameJob(j)
        BY <1>5, <3>4 DEF LivesOK
      <4>2. ErrandOK(t, j)' /\ (Launching(t, j)' => Launching(t, j)) /\ (HasErrand(t, j)' => HasErrand(t, j))
        BY <3>1, <4>1, ErrandsStay
      <4> QED
        BY <3>2, <4>2
    <3> QED
      BY <3>3, <3>4
  <2> QED
    BY <2>2, <2>3, <2>4
<1>9. \A j \in Jobs : job'[j].owner = job[j].owner /\ (job'[j].phase # "NONE" => job[j].phase # "NONE")
  BY <1>1, <1>5 DEF SameJob
<1>10. OneErrand'
  BY <1>8 DEF LivesOK, OneErrand
<1>11. OneActive' /\ InOrder'
  BY <1>2 DEF LivesOK, OneActive, InOrder
<1>12. Interrupted'
  BY <1>2, <1>8, <1>9 DEF LivesOK, Interrupted, Belongs
<1>13. OneHandled'
  BY <1>8, <1>9 DEF LivesOK, OneHandled, Handles, Tracks
<1> QED
  BY <1>6, <1>7, <1>8, <1>10, <1>11, <1>12, <1>13 DEF LivesOK

(* A launch makes a worker, or ends the job of which nothing was sent.      *)
LEMMA LaunchLives ==
    ASSUME ServerTypes, LivesOK, NEW s \in Servers, LaunchWorker(s) \/ FailLaunch(s)
    PROVE  LivesOK'
<1>1. PICK k \in Jobs : k = TodoJob(s) /\ Launching(s, k)
  <2>1. server[s].todo \in Errands /\ server[s].todo # <<>> /\ Head(server[s].todo).kind = "LAUNCH"
    BY DEF LaunchWorker, FailLaunch, Next1, ServerTypes, ServerRecord
  <2> QED
    BY <2>1, ErrandShapes DEF TodoJob, Launching
<1>2. /\ server[s].at = "UP" /\ s # Nobody /\ ServerOK(s) /\ ~server[s].lost
      /\ ErrandOK(s, k) /\ HasErrand(s, k) /\ LifeOK(k)
  <2>1. server[s].at = "UP" /\ s # Nobody /\ ServerOK(s) /\ ErrandOK(s, k) /\ LifeOK(k)
    BY ServersAssumption DEF LaunchWorker, FailLaunch, Next1, CanAct, LivesOK
  <2>2. ~server[s].lost /\ HasErrand(s, k)
    BY <1>1, <2>1 DEF ServerOK, Launching, HasErrand, ErrandsOf
  <2> QED
    BY <2>1, <2>2
<1>3. /\ row[k].state \in {"ACTIVE", "INTERRUPTED"} /\ job[k] = NoJob /\ worker[k] = NoWorker /\ report[k] = NoReport
  BY <1>1, <1>2 DEF ErrandOK
<1>4. inst' = inst /\ row' = row /\ attempt' = attempt /\ report' = report
  BY DEF LaunchWorker, FailLaunch, dbVars, workerVars
<1>5. PICK td \in ErrandsOf(k) : SetTodo(s, td)
                              /\ \/ td \in UnsentOf(k) /\ UNCHANGED <<job, worker>>
                                 \/ /\ td = PidOf(k)
                                    /\ worker' = [worker EXCEPT ![k].at = "WAITING"]
                                    /\ job' = [job EXCEPT ![k].owner = s, ![k].phase = "FORKED"]
  <2>1. CASE LaunchWorker(s)
    BY <1>1, <2>1 DEF LaunchWorker, PidOf, ErrandsOf
  <2>2. CASE FailLaunch(s)
    BY <1>1, <2>2 DEF FailLaunch, UnsentOf, ErrandsOf, EndOf, workerVars
  <2> QED
    BY <2>1, <2>2
<1>6. td # LaunchOf(k) /\ \A j \in Jobs : td # LaunchOf(j)
  <2>1. td \in {PidOf(k)} \cup EndOf(k)
    BY <1>5 DEF EndOf
  <2> QED
    BY <2>1, ErrandsDiffer
<1>7. \A t \in Servers : /\ server'[t].at = server[t].at /\ server'[t].lost = server[t].lost /\ server'[t].stopSoon = server[t].stopSoon
                         /\ t # s => server'[t] = server[t]
                         /\ t = s => server'[t].todo = td
  BY <1>5, OthersKeepErrands DEF ServerTypes
<1>8. \A j \in Jobs \ {k} : SameJob(j)
  BY <1>4, <1>5 DEF ServerTypes, SameJob
<1>9. \/ td \in UnsentOf(k) /\ job'[k] = NoJob /\ worker'[k] = NoWorker
      \/ /\ td = PidOf(k) /\ worker'[k].at = "WAITING" /\ worker'[k].posts = 0
         /\ job'[k].owner = s /\ job'[k].phase = "FORKED" /\ ~job'[k].startSent
  <2>1. CASE td \in UnsentOf(k) /\ UNCHANGED <<job, worker>>
    BY <1>3, <2>1
  <2>2. CASE /\ td = PidOf(k)
             /\ worker' = [worker EXCEPT ![k].at = "WAITING"]
             /\ job' = [job EXCEPT ![k].owner = s, ![k].phase = "FORKED"]
    <3>1. worker'[k] = [NoWorker EXCEPT !.at = "WAITING"]
      BY <1>3, <2>2 DEF ServerTypes
    <3>2. job' = [job EXCEPT ![k] = [job[k] EXCEPT !.owner = s, !.phase = "FORKED"]]
      BY <2>2 DEF ServerTypes
    <3>3. job'[k] = [NoJob EXCEPT !.owner = s, !.phase = "FORKED"]
      BY <1>3, <3>2 DEF ServerTypes
    <3>4. worker'[k].at = "WAITING" /\ worker'[k].posts = 0
      BY <3>1 DEF NoWorker
    <3>5. ASSUME NEW v \in JobRecord
          PROVE  /\ [v EXCEPT !.owner = s, !.phase = "FORKED"].owner = s /\ [v EXCEPT !.owner = s, !.phase = "FORKED"].phase = "FORKED"
                 /\ [v EXCEPT !.owner = s, !.phase = "FORKED"].startSent = v.startSent
      BY DEF JobRecord
    <3>6. NoJob \in JobRecord /\ ~NoJob.startSent
      BY RecordUpdates DEF NoJob
    <3> QED
      BY <2>2, <3>3, <3>4, <3>5, <3>6
  <2> QED
    BY <1>5, <2>1, <2>2
<1>10. ASSUME NEW t \in Servers PROVE ServerOK(t)'
  <2>1. CASE t = s
    BY <1>2, <1>4, <1>7, <2>1 DEF ServerOK
  <2>2. CASE t # s
    BY <1>4, <1>7, <2>2 DEF LivesOK, ServerOK, LaunchOf, PidOf
  <2> QED
    BY <2>1, <2>2
<1>11. ASSUME NEW j \in Jobs PROVE LifeOK(j)'
  <2>1. CASE j # k
    <3>1. job[j].owner # Nobody => job[j].owner \in Servers
      BY DEF ServerTypes, JobRecord
    <3> QED
      BY <1>7, <1>8, <2>1, <3>1, LifeStays DEF LivesOK
  <2>2. CASE j = k /\ job'[k] = NoJob /\ worker'[k] = NoWorker
    <3>1. job[k].owner = Nobody /\ SameJob(k)
      BY <1>3, <1>4, <2>2 DEF NoJob, SameJob
    <3> QED
      BY <1>2, <2>2, <3>1, LifeStays
  <2>3. CASE /\ j = k /\ worker'[k].at = "WAITING" /\ worker'[k].posts = 0
             /\ job'[k].owner = s /\ job'[k].phase = "FORKED" /\ ~job'[k].startSent
    <3>1. IsAlive(k)' /\ server'[s].at = "UP" /\ ~server'[s].lost /\ StopsItsWorker(k)'
      BY <1>2, <1>7, <2>3 DEF IsAlive, StopsItsWorker
    <3> QED
      BY <1>2, <1>3, <1>4, <2>3, <3>1 DEF LifeOK, NoJob, NoWorker, NoReport, NoAttempt
  <2> QED
    BY <1>9, <2>1, <2>2, <2>3
<1>12. ASSUME NEW t \in Servers, NEW j \in Jobs
       PROVE  /\ ErrandOK(t, j)' /\ (Launching(t, j)' => Launching(t, j) /\ j # k)
              /\ HasErrand(t, j)' => HasErrand(t, j)
  <2>1. CASE t = s /\ j = k
    <3>1. server'[s].todo = td /\ ~Launching(s, k)'
      BY <1>6, <1>7 DEF Launching, LaunchOf
    <3>2. CASE td \in UnsentOf(k) /\ job'[k] = NoJob /\ worker'[k] = NoWorker
      <4>1. td # PidOf(k) /\ job'[k].phase = "NONE" /\ ~IsAlive(k)' /\ worker'[k].posts = 0
        BY <3>2, ErrandsDiffer DEF EndOf, NoJob, NoWorker, IsAlive
      <4> QED
        BY <1>2, <1>3, <1>4, <2>1, <3>1, <4>1 DEF ErrandOK, PidOf, EndOf, UnsentOf, PendingOf, NoReport
    <3>3. CASE td = PidOf(k) /\ job'[k].owner = s /\ job'[k].phase = "FORKED"
      <4>1. server'[s].todo \notin EndOf(k) /\ server'[s].todo \notin UnsentOf(k)
        BY <3>1, <3>3, ErrandsDiffer DEF EndOf
      <4> QED
        BY <1>2, <1>3, <1>4, <2>1, <3>1, <3>3, <4>1 DEF ErrandOK, PidOf, EndOf, UnsentOf, PendingOf
    <3> QED
      BY <1>9, <3>2, <3>3
  <2>2. CASE t = s /\ j # k
    <3>1. server'[t].todo \notin ErrandsOf(j)
      BY <1>7, <2>2, ErrandsOfOne
    <3> QED
      BY <2>2, <3>1, NoErrand
  <2>3. CASE t # s /\ j = k
    <3>1. ~HasErrand(t, k) /\ server'[t].todo = server[t].todo
      BY <1>2, <1>7, <2>3 DEF LivesOK, OneErrand
    <3> QED
      BY <2>3, <3>1, NoErrand DEF HasErrand
  <2>4. CASE t # s /\ j # k
    BY <1>7, <1>8, <2>4, ErrandsStay DEF LivesOK
  <2> QED
    BY <2>1, <2>2, <2>3, <2>4
<1>13. ASSUME NEW t \in Servers, NEW j \in Jobs
       PROVE  (Belongs(t, j)' => Belongs(t, j)) /\ (Handles(t, j)' => Handles(t, j))
  <2>1. CASE j # k
    BY <1>8, <1>12, <2>1 DEF Belongs, Handles, Tracks, SameJob
  <2>2. CASE j = k
    <3>1. ~Launching(t, k)' /\ t # Nobody
      BY <1>12, ServersAssumption
    <3>2. job'[k].owner = t => t = s
      BY <1>9, <3>1 DEF NoJob
    <3> QED
      BY <1>1, <2>2, <3>1, <3>2 DEF Belongs, Handles, Tracks
  <2> QED
    BY <2>1, <2>2
<1>14. OneErrand' /\ Interrupted'
  BY <1>4, <1>12, <1>13 DEF LivesOK, OneErrand, Interrupted
<1>15. OneActive' /\ InOrder'
  BY <1>4 DEF LivesOK, OneActive, InOrder
<1>16. OneHandled'
  BY <1>13 DEF LivesOK, OneHandled
<1> QED
  BY <1>10, <1>11, <1>12, <1>14, <1>15, <1>16 DEF LivesOK

(* A job and its attempt are created by the one that holds the lock.        *)
Creates(s, k) ==
    /\ HoldsLock(s) /\ CanStart(clock) /\ \A i \in Jobs : row[i].state # "ACTIVE"
    /\ row[k].state = "NONE" /\ \A i \in 1 .. k - 1 : row[i].state # "NONE"
    /\ row' = [row EXCEPT ![k] = [state |-> "ACTIVE", pid |-> FALSE, seen |-> clock]]
    /\ attempt' = [attempt EXCEPT ![k] = StartedAt(clock)]
    /\ SetTodo(s, LaunchOf(k))

(* The transaction refuses the job, or creates it.                          *)
LEMMA Creation ==
    ASSUME NEW s \in Servers, CreateStartingJob(s)
    PROVE  UNCHANGED <<row, attempt>> \/ \E k \in Jobs : Creates(s, k)
  BY DEF CreateStartingJob, Creates, StartedAt, LaunchOf

(* A job begins its life when nothing is active, and with its launch ahead. *)
LEMMA CreationLives ==
    ASSUME ServerTypes, LivesOK, NEW s \in Servers, CreateStartingJob(s), NEW k \in Jobs, Creates(s, k)
    PROVE  LivesOK'
<1>1. /\ server[s].at = "UP" /\ s # Nobody /\ ServerOK(s) /\ inst.owner = s /\ ~server[s].lost
      /\ LifeOK(k) /\ row[k].state = "NONE" /\ \A i \in Jobs : row[i].state # "ACTIVE"
  BY ServersAssumption DEF CreateStartingJob, Next1, CanAct, LivesOK, ServerOK, Creates, HoldsLock
<1>2. job[k] = NoJob /\ worker[k] = NoWorker /\ report[k] = NoReport /\ ~IsAlive(k)
  BY <1>1 DEF LifeOK, IsAlive, NoWorker
<1>3. inst' = inst /\ job' = job /\ worker' = worker /\ report' = report
  BY DEF CreateStartingJob, workerVars
<1>4. /\ \A j \in Jobs \ {k} : SameJob(j)
      /\ row'[k].state = "ACTIVE" /\ attempt'[k].rows = 1
  <2>1. clock \in Times /\ attempt'[k] = StartedAt(clock)
    BY DEF Creates, ServerTypes
  <2>2. attempt'[k].rows = 1
    BY <2>1, StartedTyped
  <2> QED
    BY <1>3, <2>2 DEF Creates, ServerTypes, SameJob
<1>5. \A t \in Servers : /\ server'[t].at = server[t].at /\ server'[t].lost = server[t].lost /\ server'[t].stopSoon = server[t].stopSoon
                         /\ t # s => server'[t] = server[t]
                         /\ t = s => server'[t].todo = LaunchOf(k)
  BY OthersKeepErrands DEF Creates, ServerTypes
<1>6. ASSUME NEW t \in Servers PROVE ServerOK(t)'
  <2>1. CASE t = s
    BY <1>1, <1>3, <1>5, <2>1 DEF ServerOK
  <2>2. CASE t # s
    BY <1>3, <1>5, <2>2 DEF LivesOK, ServerOK, LaunchOf, PidOf
  <2> QED
    BY <2>1, <2>2
<1>7. ASSUME NEW j \in Jobs PROVE LifeOK(j)'
  <2>1. CASE j # k
    <3>1. job[j].owner # Nobody => job[j].owner \in Servers
      BY DEF ServerTypes, JobRecord
    <3> QED
      BY <1>4, <1>5, <2>1, <3>1, LifeStays DEF LivesOK
  <2>2. CASE j = k
    <3>1. job'[k].owner = Nobody /\ job'[k].phase = "NONE" /\ ~IsAlive(k)'
      BY <1>2, <1>3 DEF NoJob, NoWorker, IsAlive
    <3> QED
      BY <1>4, <2>2, <3>1 DEF LifeOK
  <2> QED
    BY <2>1, <2>2
<1>8. ASSUME NEW t \in Servers, NEW j \in Jobs
      PROVE  /\ ErrandOK(t, j)'
             /\ Launching(t, j)' => Launching(t, j) \/ (t = s /\ j = k)
             /\ HasErrand(t, j)' => HasErrand(t, j) \/ (t = s /\ j = k)
             /\ HasErrand(t, k)' => t = s
             /\ t = s /\ j # k => ~Launching(t, j)'
  <2>1. ~HasErrand(t, k)
    BY <1>1 DEF LivesOK, ErrandOK
  <2>2. CASE t = s /\ j = k
    <3>1. server'[s].todo = LaunchOf(k)
      BY <1>5
    <3>2. server'[s].todo # PidOf(k) /\ server'[s].todo \notin EndOf(k) /\ server'[s].todo \notin UnsentOf(k)
      BY <3>1, ErrandsDiffer DEF EndOf
    <3> QED
      BY <1>2, <1>3, <1>4, <2>2, <3>2 DEF ErrandOK, PidOf, EndOf, UnsentOf, PendingOf, NoJob, NoWorker, NoReport
  <2>3. CASE t = s /\ j # k
    <3>1. server'[t].todo \notin ErrandsOf(j)
      BY <1>5, <2>3, ErrandsOfOne DEF ErrandsOf
    <3> QED
      BY <2>3, <3>1, NoErrand
  <2>4. CASE t # s
    <3>1. server'[t].todo = server[t].todo
      BY <1>5, <2>4
    <3>2. ~HasErrand(t, k)' /\ ErrandOK(t, k)'
      BY <2>1, <3>1, NoErrand DEF HasErrand
    <3>3. CASE j = k
      BY <2>4, <3>1, <3>2, <3>3, ErrandsStay
    <3>4. CASE j # k
      <4>1. ErrandOK(t, j) /\ SameJob(j)
        BY <1>4, <3>4 DEF LivesOK
      <4>2. ErrandOK(t, j)' /\ (Launching(t, j)' => Launching(t, j)) /\ (HasErrand(t, j)' => HasErrand(t, j))
        BY <3>1, <4>1, ErrandsStay
      <4> QED
        BY <2>4, <3>2, <4>2
    <3> QED
      BY <3>3, <3>4
  <2> QED
    BY <2>2, <2>3, <2>4
<1>9. OneErrand'
  BY <1>8 DEF LivesOK, OneErrand
<1>10. Interrupted'
  <2> SUFFICES ASSUME NEW t \in Servers, NEW j \in Jobs, Belongs(t, j)', row'[j].state = "INTERRUPTED"
               PROVE  inst'.owner # t
    BY DEF Interrupted
  <2>1. j # k /\ row[j].state = "INTERRUPTED"
    BY <1>4 DEF SameJob
  <2>2. Belongs(t, j)
    BY <1>3, <1>8, <2>1 DEF Belongs
  <2> QED
    BY <1>3, <2>1, <2>2 DEF LivesOK, Interrupted
<1>11. OneActive' /\ InOrder'
  <2>1. \A j \in Jobs : j # k => row'[j].state = row[j].state
    BY <1>4 DEF SameJob
  <2>2. OneActive'
    BY <1>1, <2>1 DEF OneActive
  <2>3. InOrder'
    <3> SUFFICES ASSUME NEW i \in Jobs, NEW j \in Jobs, i < j, row'[j].state # "NONE" PROVE row'[i].state # "NONE"
      BY DEF InOrder
    <3>1. CASE j = k
      <4>1. i \in 1 .. k - 1
        BY <3>1, Sizes DEF Jobs
      <4> QED
        BY <1>4, <4>1 DEF Creates, SameJob
    <3>2. CASE j # k
      BY <1>4, <2>1, <3>2 DEF LivesOK, InOrder
    <3> QED
      BY <3>1, <3>2
  <2> QED
    BY <2>2, <2>3
<1>12. OneHandled'
  <2> SUFFICES ASSUME NEW t \in Servers, NEW i \in Jobs, NEW j \in Jobs, Handles(t, i)', Handles(t, j)'
               PROVE  i = j
    BY DEF OneHandled
  <2>1. CASE t # s
    BY <1>3, <1>8, <2>1 DEF LivesOK, OneHandled, Handles, Tracks
  <2>2. CASE t = s
    <3>1. ASSUME NEW m \in Jobs, Handles(s, m)' PROVE m = k
      <4>1. CASE Launching(s, m)'
        BY <1>8, <4>1
      <4>2. CASE Tracks(s, m)
        <5>1. row[m].state = "INTERRUPTED" /\ Belongs(s, m)
          BY <1>1, <4>2 DEF LivesOK, LifeOK, Tracks, Belongs
        <5> QED
          BY <1>1, <5>1 DEF LivesOK, Interrupted
      <4> QED
        BY <1>3, <3>1, <4>1, <4>2 DEF Handles, Tracks
    <3> QED
      BY <2>2, <3>1
  <2> QED
    BY <2>1, <2>2
<1> QED
  BY <1>6, <1>7, <1>8, <1>9, <1>10, <1>11, <1>12 DEF LivesOK

(* No server and no job lives at first.                                     *)
LEMMA LivesInit == ServersInit => LivesOK
<1> SUFFICES ASSUME ServersInit PROVE LivesOK
  OBVIOUS
<1>1. /\ \A s \in Servers : server[s] = ServerOff
      /\ \A j \in Jobs : row[j] = NoRow /\ job[j] = NoJob /\ worker[j] = NoWorker /\ report[j] = NoReport /\ attempt[j] = NoAttempt
      /\ inst = NoInstance
  BY DEF ServersInit
<1>2. \A s \in Servers : server[s].at = "OFF" /\ server[s].todo = <<>> /\ ~server[s].lost /\ inst.owner # s
  BY <1>1, ServersAssumption DEF ServerOff, NoInstance
<1>3. \A j \in Jobs : /\ row[j].state = "NONE" /\ attempt[j].rows = 0 /\ job[j].phase = "NONE" /\ job[j].owner = Nobody
                      /\ ~IsAlive(j)
  BY <1>1 DEF NoRow, NoAttempt, NoJob, NoWorker, IsAlive
<1>4. \A s \in Servers, j \in Jobs : ~HasErrand(s, j) /\ ~Launching(s, j) /\ server[s].todo \notin {LaunchOf(j), PidOf(j)}
                                     /\ server[s].todo \notin EndOf(j) /\ server[s].todo \notin UnsentOf(j)
  <2>1. <<>> \in Preparations
    BY DEF Preparations
  <2> QED
    BY <1>2, <2>1, PreparationsAreNone DEF HasErrand, Launching
<1>5. \A s \in Servers : ServerOK(s)
  BY <1>2, <1>4 DEF ServerOK
<1>6. \A j \in Jobs : LifeOK(j)
  BY <1>1, <1>3 DEF LifeOK
<1>7. \A s \in Servers, j \in Jobs : ErrandOK(s, j)
  BY <1>4 DEF ErrandOK
<1>8. OneErrand /\ Interrupted /\ OneActive /\ InOrder
  BY <1>3, <1>4 DEF OneErrand, Interrupted, OneActive, InOrder
<1>9. OneHandled
  BY <1>3, <1>4 DEF OneHandled, Handles, Tracks
<1> QED
  BY <1>5, <1>6, <1>7, <1>8, <1>9 DEF LivesOK

(* Every step keeps the lives of servers and jobs.                          *)
LEMMA LivesStep == ServerTypes /\ LivesOK /\ [ServersNext]_serversVars => LivesOK'
<1> SUFFICES ASSUME ServerTypes, LivesOK, [ServersNext]_serversVars PROVE LivesOK'
  OBVIOUS
<1>1. ASSUME NEW s \in Servers, Transaction(s) PROVE LivesOK'
  <2>1. CASE CreateStartingJob(s)
    BY <2>1, Creation, CreationLives, QuietTransactions
  <2>2. CASE LaunchWorker(s) \/ FailLaunch(s)
    BY <2>2, LaunchLives
  <2> QED
    BY <1>1, <2>1, <2>2, QuietTransactions DEF Transaction
<1>2. ASSUME NEW s \in Servers, NEW j \in Jobs, JobStep(s, j) PROVE LivesOK'
  BY <1>2, MessagesProceed, ServerStepsOfAJob, ExitLives DEF JobStep
<1>3. ASSUME NEW s \in Servers, ServerStep(s) PROVE LivesOK'
  <2>1. CASE HoldUp(s) \/ WakeUp(s)
    BY <2>1, IdleSteps
  <2>2. CASE CreateManager(s) \/ CloseManager(s)
    BY <2>2, ManagerLives
  <2>3. CASE RenewInstanceLock(s) \/ StartAuditJob(s)
    BY <2>3, QuietTransactions
  <2> QED
    BY <1>1, <1>2, <1>3, <2>1, <2>2, <2>3, StopLives, CrashLives DEF ServerStep
<1> QED
  BY <1>3, IdleSteps, WorkerStepLives DEF ServersNext

-----------------------------------------------------------------------------
(* What the attempts say. *)

(* Only the creation of a job makes a server launch it.                     *)
LEMMA OnlyCreationLaunches ==
    ASSUME ServerTypes, NEW s \in Servers, ServerStep(s), ~\E k \in Jobs : CreateStartingJob(s) /\ Creates(s, k),
           NEW t \in Servers, NEW j \in Jobs, Launching(t, j)'
    PROVE  Launching(t, j)
<1>1. server'[t].todo = LaunchOf(j) /\ server[s] \in ServerRecord /\ server[s].todo \in Errands
  BY DEF Launching, LaunchOf, ServerTypes, ServerRecord
<1>2. CASE server'[t].todo = server[t].todo
  BY <1>1, <1>2 DEF Launching
<1>3. ASSUME NEW td, SetTodo(s, td) PROVE server'[t].todo = server[t].todo \/ server'[t].todo = td
  <2>1. server'[s].todo = td /\ (t # s => server'[t] = server[t])
    BY <1>3, OthersKeepErrands DEF ServerTypes
  <2> QED
    BY <2>1
<1>4. server'[t].todo = server[t].todo \/ \E td : server'[t].todo = td /\ \A i \in Jobs : td # LaunchOf(i)
  <2>1. ASSUME NEW td \in Preparations, SetTodo(s, td)
        PROVE  server'[t].todo = server[t].todo \/ \E e : server'[t].todo = e /\ \A i \in Jobs : e # LaunchOf(i)
    BY <1>3, <2>1, PreparationsAreNone
  <2>2. CASE Transaction(s)
    <3>1. CASE \/ InterruptUnowned(s) /\ ~(HoldsLock(s) /\ ~server[s].lost)
               \/ CreateStartingJob(s) /\ ~HoldsLock(s)
      <4>1. server' = [server EXCEPT ![s] = [Lost(@) EXCEPT !.todo = <<>>]]
        BY <3>1 DEF InterruptUnowned, CreateStartingJob
      <4>2. Lost(server[s]) \in ServerRecord
        BY <1>1, RecordUpdates
      <4>3. server'[t].todo = server[t].todo \/ server'[t].todo = <<>>
        BY <1>1, <4>1, <4>2 DEF ServerTypes, ServerRecord
      <4> QED
        BY <4>3, PreparationsAreNone DEF Preparations
    <3>2. CASE SetTodo(s, Rest(s)) /\ server[s].todo # <<>>
      <4>1. \A i \in Jobs : Rest(s) # LaunchOf(i)
        <5>1. Rest(s) = Tail(server[s].todo) /\ Head(server[s].todo).kind
                 \in {"INTERRUPT", "ORPHANS", "CREATE", "LAUNCH", "PID", "END_ROW", "NOT_SENT", "PENDING"}
          BY <2>2, <3>2 DEF Transaction, Rest, Next1, InterruptUnowned, CloseOrphans, CreateStartingJob, LaunchWorker, RecordWorkerPid,
                            FailLaunch, RecordEnded, CloseAttemptNotSent, ClosePendingAttempt
        <5>2. <<>> \in Preparations /\ (Head(server[s].todo).kind = "LAUNCH" => Rest(s) = <<>>)
          <6>1. ASSUME NEW i \in Jobs PROVE Tail(LaunchOf(i)) = <<>>
            BY DEF LaunchOf, Step
          <6> QED
            BY <1>1, <3>2, <6>1, ErrandShapes DEF Rest, Preparations
        <5>3. Rest(s) \in Preparations \/ \E i \in Jobs : Rest(s) \in EndOf(i)
          <6>1. Head(server[s].todo).kind \in {"PID", "NOT_SENT", "PENDING", "CREATE"} => Rest(s) = <<>>
            BY <1>1, <3>2, <5>1, ErrandShapes
          <6>2. Head(server[s].todo).kind \in {"INTERRUPT", "ORPHANS"} => Rest(s) \in Preparations
            BY <1>1, <3>2, <5>1, ErrandShapes
          <6>3. Head(server[s].todo).kind = "END_ROW" => \E i \in Jobs : Rest(s) \in EndOf(i)
            BY <1>1, <3>2, <5>1, ErrandShapes
          <6> QED
            BY <5>1, <5>2, <6>1, <6>2, <6>3
        <5> QED
          BY <5>3, PreparationsAreNone, ErrandsDiffer
      <4> QED
        BY <1>3, <3>2, <4>1
    <3>3. CASE LaunchWorker(s) \/ FailLaunch(s)
      <4>1. TodoJob(s) \in Jobs
        BY <3>3, ErrandJob DEF LaunchWorker, FailLaunch, Next1, ServerTypes
      <4>2. PICK td \in ErrandsOf(TodoJob(s)) : SetTodo(s, td) /\ td \in {PidOf(TodoJob(s))} \cup EndOf(TodoJob(s))
        BY <3>3 DEF LaunchWorker, FailLaunch, PidOf, UnsentOf, EndOf, ErrandsOf
      <4>3. \A i \in Jobs : td # LaunchOf(i)
        BY <4>1, <4>2, ErrandsDiffer
      <4> QED
        BY <1>3, <4>2, <4>3
    <3>4. CASE CreateStartingJob(s) /\ HoldsLock(s)
      <4>1. SetTodo(s, <<>>)
        <5>1. ~\E k \in Jobs : Creates(s, k)
          BY <3>4
        <5> QED
          BY <3>4, <5>1 DEF CreateStartingJob, Creates, StartedAt, LaunchOf
      <4> QED
        BY <2>1, <4>1 DEF Preparations
    <3> QED
      BY <2>2, <3>1, <3>2, <3>3, <3>4 DEF Transaction, Next1, InterruptUnowned, CloseOrphans, RecordWorkerPid, RecordEnded,
                                    CloseAttemptNotSent, ClosePendingAttempt
  <2>3. CASE RenewInstanceLock(s)
    <3>1. Lost(server[s]).todo = server[s].todo
      BY OthersKeepErrands DEF ServerTypes
    <3> QED
      BY <2>3, <3>1 DEF RenewInstanceLock, ServerTypes
  <2>4. CASE StartAuditJob(s)
    BY <2>1, <2>4 DEF StartAuditJob, Preparations
  <2>5. CASE CreateManager(s)
    <3>1. server'[t].todo = server[t].todo \/ server'[t].todo = <<Step("INTERRUPT", 0), Step("ORPHANS", 0)>>
      BY <1>1, <2>5 DEF CreateManager, ServerTypes, ServerRecord
    <3> QED
      BY <3>1, PreparationsAreNone DEF Preparations
  <2>6. CASE CloseManager(s) \/ ServerCrashes(s)
    <3>1. server'[t].todo = server[t].todo \/ server'[t].todo = <<>>
      BY <1>1, <2>6 DEF CloseManager, ServerCrashes, ServerTypes, ServerOff
    <3> QED
      BY <3>1, PreparationsAreNone DEF Preparations
  <2>7. CASE StopWorkersAfterLockLost(s) \/ HoldUp(s) \/ WakeUp(s)
    <3>1. PICK b \in BOOLEAN : server' = [server EXCEPT ![s].awake = b] \/ server' = [server EXCEPT ![s].stopSoon = b]
      BY <2>7 DEF StopWorkersAfterLockLost, HoldUp, WakeUp
    <3> QED
      BY <1>1, <3>1 DEF ServerTypes, ServerRecord
  <2>8. ASSUME NEW k \in Jobs, JobStep(s, k)
        PROVE  server'[t].todo = server[t].todo \/ \E td : server'[t].todo = td /\ \A i \in Jobs : td # LaunchOf(i)
    <3>1. CASE WorkerExited(s, k)
      <4>1. PICK td \in EndOf(k) : SetTodo(s, td)
        BY <3>1 DEF WorkerExited, EndOf, UnsentOf, PendingOf, ClosingOf
      <4> QED
        BY <1>3, <4>1, ErrandsDiffer
    <3> QED
      BY <2>8, <3>1 DEF JobStep, ReceiveReady, ReceiveHeartbeat, ReceiveAuthState, LockLostKill, EndAndKill
  <2> QED
    BY <2>2, <2>3, <2>4, <2>5, <2>6, <2>7, <2>8 DEF ServerStep
<1> QED
  BY <1>1, <1>2, <1>4

(* The worker of a job did nothing to the site, and at most came to an end. *)
QuietWorker(j) ==
    /\ worker'[j].posts = worker[j].posts /\ worker'[j].ok = worker[j].ok /\ worker'[j].pressed = worker[j].pressed
    /\ worker'[j].at = worker[j].at \/ worker'[j].at \in {"AFTER", "GONE"}
    /\ \A t \in Servers : Launching(t, j)' => Launching(t, j)

(* What was said of a login stays true while nothing reaches the site.      *)
LEMMA QuietCovers ==
    ASSUME NEW j \in Jobs, QuietWorker(j)
    PROVE  /\ LoginOver(j) => LoginOver(j)'
           /\ \A result, submitted, rows : Covers(j, result, submitted, rows) => Covers(j, result, submitted, rows)'
<1>1. LoginOver(j) => LoginOver(j)'
  BY DEF QuietWorker, LoginOver
<1> QED
  BY <1>1 DEF QuietWorker, Covers

(* So does what its report says.                                            *)
LEMMA QuietReport ==
    ASSUME NEW j \in Jobs, QuietWorker(j), ReportOK(j), report'[j] \in {report[j], NoReport}
    PROVE  ReportOK(j)'
<1>1. CASE report'[j] = NoReport
  BY <1>1 DEF ReportOK, NoReport
<1>2. CASE report'[j] = report[j] /\ report[j] # NoReport
  <2>1. /\ report[j].result # "NONE" /\ worker[j].at \in {"AFTER", "GONE"}
        /\ Covers(j, report[j].result, report[j].submitted, IF report[j].response THEN 1 ELSE 2)
    BY <1>2 DEF ReportOK
  <2>2. Covers(j, report[j].result, report[j].submitted, IF report[j].response THEN 1 ELSE 2)'
    BY <1>2, <2>1, QuietCovers DEF Covers, QuietWorker, LoginOver
  <2>3. worker'[j].at \in {"AFTER", "GONE"}
    BY <2>1 DEF QuietWorker
  <2> QED
    BY <1>2, <2>1, <2>2, <2>3 DEF ReportOK, NoReport
<1> QED
  BY <1>1, <1>2

(* And what it pressed.                                                     *)
LEMMA QuietPress ==
    ASSUME NEW j \in Jobs, QuietWorker(j), PressOK(j)
    PROVE  PressOK(j)'
  BY DEF PressOK, QuietWorker

(* And its attempt, when nobody closes it.                                  *)
LEMMA QuietAttempt ==
    ASSUME NEW j \in Jobs, QuietWorker(j), AttemptOK(j), attempt'[j] = attempt[j]
    PROVE  AttemptOK(j)'
<1>1. CASE attempt[j].result = "NONE"
  BY <1>1 DEF AttemptOK
<1>2. CASE attempt[j].result # "NONE"
  <2>1. attempt[j].rows > 0 /\ Covers(j, attempt[j].result, attempt[j].submitted, attempt[j].rows)
    BY <1>2 DEF AttemptOK
  <2>2. Covers(j, attempt[j].result, attempt[j].submitted, attempt[j].rows)'
    BY <2>1, QuietCovers DEF Covers, QuietWorker, LoginOver
  <2> QED
    BY <1>2, <2>1, <2>2 DEF AttemptOK
<1> QED
  BY <1>1, <1>2

(* An attempt that was closed before its login was over counts twice.       *)
LEMMA OpenLogin ==
    ASSUME ServerTypes, NEW j \in Jobs, AttemptOK(j), ~LoginOver(j), attempt'[j] = attempt[j],
           worker'[j].posts \in 0 .. 2, worker[j].ok => worker'[j].ok
    PROVE  AttemptOK(j)'
<1>1. CASE attempt[j].result = "NONE"
  BY <1>1 DEF AttemptOK
<1>2. CASE attempt[j].result # "NONE"
  <2>1. attempt[j].rows \in 0 .. 2
    BY DEF ServerTypes, AttemptRecord, AttemptFields
  <2>2. attempt[j].submitted # "NO" /\ attempt[j].rows = 2 /\ (attempt[j].result = "SUCCEEDED" => worker[j].ok)
    BY <1>2, <2>1 DEF AttemptOK, Covers
  <2>3. Covers(j, attempt[j].result, attempt[j].submitted, attempt[j].rows)'
    BY <2>2 DEF Covers
  <2> QED
    BY <1>2, <2>2, <2>3 DEF AttemptOK
<1> QED
  BY <1>1, <1>2

(* An attempt closed with an unknown result covers whatever happens.        *)
LEMMA UnknownCovers ==
    ASSUME ServerTypes, NEW j \in Jobs, IsPending(j), attempt'[j] = Unknown(attempt[j]), worker'[j] = worker[j]
    PROVE  AttemptOK(j)'
<1>1. /\ attempt'[j].result = "UNKNOWN" /\ attempt'[j].submitted = "UNKNOWN" /\ attempt'[j].rows = 2 /\ worker'[j].posts \in 0 .. 2
  BY UnknownFields DEF ServerTypes, WorkerRecord
<1> QED
  BY <1>1 DEF AttemptOK, Covers

(* The result of a report, or of an errand, covers what the worker did.     *)
LEMMA ResultCovers ==
    ASSUME ServerTypes, NEW j \in Jobs, NEW result, NEW submitted, NEW response \in BOOLEAN, AttemptOK(j), QuietWorker(j),
           RecordResult(j, result, submitted, response), result # "NONE",
           Covers(j, result, submitted, IF response THEN 1 ELSE 2)
    PROVE  AttemptOK(j)'
<1>1. CASE ~IsPending(j)
  BY <1>1, QuietAttempt DEF RecordResult
<1>2. CASE IsPending(j)
  <2>1. PICK retry : attempt'[j] = ClosedAttempt(attempt[j], result, submitted, response, retry)
    BY <1>2 DEF RecordResult, ServerTypes
  <2>2. attempt[j] \in AttemptRecord /\ attempt[j].rows = 1
    BY <1>2 DEF ServerTypes, AttemptRecord, AttemptFields, IsPending
  <2>3. /\ attempt'[j].result = result /\ attempt'[j].submitted = submitted
        /\ response => attempt'[j].rows = 1
        /\ ~response => attempt'[j].rows = 2
    BY <2>1, <2>2, ClosedFields
  <2>4. attempt'[j].rows > 0 /\ Covers(j, attempt'[j].result, attempt'[j].submitted, attempt'[j].rows)
    BY <2>3
  <2>5. Covers(j, attempt[j].result, attempt[j].submitted, attempt[j].rows)'
    <3>1. QuietWorker(j) => (LoginOver(j) => LoginOver(j)')
      BY QuietCovers
    <3> QED
      BY <2>4, <3>1 DEF Covers, QuietWorker
  <2> QED
    BY <2>3, <2>4, <2>5 DEF AttemptOK
<1> QED
  BY <1>1, <1>2

(* Nothing is said at first.                                                *)
LEMMA TruthInit == ServersInit => TruthOK
<1> SUFFICES ASSUME ServersInit, NEW j \in Jobs PROVE ReportOK(j) /\ AttemptOK(j) /\ PressOK(j)
  BY DEF TruthOK
<1>1. report[j] = NoReport /\ attempt[j] = NoAttempt /\ worker[j] = NoWorker
  BY DEF ServersInit
<1>2. attempt[j].result = "NONE" /\ attempt[j].rows < 2 /\ attempt[j].retry = 0 /\ ~worker[j].pressed
  BY <1>1 DEF NoAttempt, NoWorker
<1> QED
  BY <1>1, <1>2 DEF ReportOK, AttemptOK, PressOK

(* Workers: what a login reports, and what it does to an attempt that was   *)
(* closed before.                                                           *)
LEMMA WorkerTellsTruth ==
    ASSUME ServerTypes, LivesOK, TruthOK, NEW k \in Jobs, WorkerStep(k), NEW j \in Jobs
    PROVE  ReportOK(j)' /\ AttemptOK(j)' /\ PressOK(j)'
<1>1. OnlyWorker(k) /\ (GoesOn(k) \/ Tells(k) \/ Rests(k))
  BY WorkerSteps
<1>2. /\ UNCHANGED <<server, attempt>> /\ ReportOK(j) /\ AttemptOK(j) /\ PressOK(j)
      /\ worker'[k].posts \in 0 .. 2 /\ ReportOK(k)
  BY <1>1 DEF OnlyWorker, WorkerRecord, TruthOK
<1>3. \A t \in Servers : Launching(t, j)' => Launching(t, j)
  BY <1>2, ErrandsStay
<1>4. CASE j # k
  <2>1. worker'[j] = worker[j] /\ report'[j] = report[j]
    BY <1>1, <1>4 DEF OnlyWorker
  <2> QED
    BY <1>2, <1>3, <2>1, QuietReport, QuietAttempt, QuietPress DEF QuietWorker
<1>5. CASE j = k /\ Rests(k)
  <2>1. QuietWorker(j) /\ report'[j] = report[j]
    BY <1>3, <1>5 DEF Rests, QuietWorker
  <2> QED
    BY <1>2, <2>1, QuietReport, QuietAttempt, QuietPress
<1>6. CASE j = k /\ GoesOn(k)
  <2>1. ~LoginOver(k) /\ report[k] = NoReport
    BY <1>2, <1>6 DEF GoesOn, InLogin, LoginOver, ReportOK
  <2>2. AttemptOK(j)'
    BY <1>2, <1>6, <2>1, OpenLogin DEF GoesOn
  <2>3. PressOK(j)'
    BY <1>2, <1>6 DEF PressOK, GoesOn
  <2> QED
    BY <1>6, <2>1, <2>2, <2>3 DEF GoesOn, ReportOK, NoReport
<1>7. CASE j = k /\ Tells(k)
  <2>1. ~LoginOver(k)
    BY <1>7 DEF Tells, InLogin, LoginOver
  <2>2. AttemptOK(j)'
    BY <1>2, <1>7, <2>1, OpenLogin DEF Tells
  <2>3. PressOK(j)'
    BY <1>7 DEF PressOK, Tells
  <2>4. report'[k].result \in {"SUCCEEDED", "FAILED", "RATE_LIMITED"}
    BY <1>7 DEF Tells, Said
  <2>5. report'[k].submitted = "YES" => worker'[k].posts <= (IF report'[k].response THEN 1 ELSE 2)
    BY <1>2, <1>7 DEF Tells
  <2>6. ReportOK(j)'
    BY <1>2, <1>7, <2>4, <2>5 DEF ReportOK, Covers, LoginOver, Tells
  <2> QED
    BY <2>2, <2>3, <2>6
<1> QED
  BY <1>1, <1>4, <1>5, <1>6, <1>7

(* Servers: what they close, and the logins they let begin.                 *)
LEMMA ServerTellsTruth ==
    ASSUME ServerTypes, LivesOK, TruthOK, NEW s \in Servers, ServerStep(s), NEW j \in Jobs
    PROVE  ReportOK(j)' /\ AttemptOK(j)' /\ PressOK(j)'
<1>1. ReportOK(j) /\ AttemptOK(j) /\ PressOK(j) /\ worker[j] \in WorkerRecord /\ attempt[j] \in AttemptRecord
  BY DEF TruthOK, ServerTypes
<1>2. ASSUME NEW k \in Jobs, CreateStartingJob(s), Creates(s, k) PROVE ReportOK(j)' /\ AttemptOK(j)' /\ PressOK(j)'
  <2>1. worker' = worker /\ report' = report
    BY <1>2 DEF CreateStartingJob, workerVars
  <2>2. CASE j = k
    <3>1. report[k] = NoReport /\ ~worker[k].pressed
      BY <1>2 DEF Creates, LivesOK, LifeOK, NoWorker
    <3>2. attempt'[k] = StartedAt(clock) /\ clock \in Times
      BY <1>2 DEF Creates, ServerTypes
    <3>3. attempt'[k].result = "NONE" /\ attempt'[k].rows = 1 /\ attempt'[k].retry = 0
      BY <3>2, StartedTyped
    <3> QED
      BY <2>1, <2>2, <3>1, <3>3 DEF ReportOK, AttemptOK, PressOK, NoReport
  <2>3. CASE j # k
    <3>1. attempt'[j] = attempt[j]
      BY <1>2, <2>3 DEF Creates, ServerTypes
    <3>2. \A t \in Servers : Launching(t, j)' => Launching(t, j)
      <4>1. \A t \in Servers : server'[t].todo = server[t].todo \/ server'[t].todo = LaunchOf(k)
        BY <1>2, OthersKeepErrands DEF Creates, ServerTypes
      <4>2. LaunchOf(k) # LaunchOf(j)
        BY <2>3, ErrandsDiffer
      <4> QED
        BY <4>1, <4>2 DEF Launching, LaunchOf
    <3> QED
      BY <1>1, <2>1, <3>1, <3>2, QuietReport, QuietAttempt, QuietPress DEF QuietWorker
  <2> QED
    BY <2>2, <2>3
<1>3. ASSUME ~\E k \in Jobs : CreateStartingJob(s) /\ Creates(s, k) PROVE ReportOK(j)' /\ AttemptOK(j)' /\ PressOK(j)'
  <2>1. \A t \in Servers : Launching(t, j)' => Launching(t, j)
    BY <1>3, OnlyCreationLaunches
  <2>2. worker'[j] = worker[j] => QuietWorker(j)
    BY <2>1 DEF QuietWorker
  <2>3. ASSUME UNCHANGED <<attempt, worker>>, report'[j] \in {report[j], NoReport} PROVE ReportOK(j)' /\ AttemptOK(j)' /\ PressOK(j)'
    BY <1>1, <2>2, <2>3, QuietReport, QuietAttempt, QuietPress
  <2>4. ASSUME UNCHANGED <<worker, report>>, NEW js, js \subseteq {k \in Jobs : IsPending(k)}, CloseUnknown(js)
        PROVE  ReportOK(j)' /\ AttemptOK(j)' /\ PressOK(j)'
    <3>1. (IsPending(j) /\ attempt'[j] = Unknown(attempt[j])) \/ attempt'[j] = attempt[j]
      BY <2>4 DEF CloseUnknown, Unknown
    <3> QED
      BY <1>1, <2>2, <2>4, <3>1, QuietReport, QuietAttempt, QuietPress, UnknownCovers
  <2>5. ASSUME NEW kind, Next1(s, kind)
        PROVE  /\ server[s].todo \in Errands /\ server[s].todo # <<>> /\ Head(server[s].todo).kind = kind
    BY <2>5 DEF Next1, ServerTypes, ServerRecord
  <2>6. CASE Transaction(s)
    <3>1. CASE InterruptUnowned(s) \/ CreateStartingJob(s) \/ RecordWorkerPid(s) \/ FailLaunch(s) \/ RecordEnded(s)
      <4>1. UNCHANGED <<attempt, worker, report>>
        <5>1. CASE CreateStartingJob(s)
          BY <1>3, <5>1, Creation DEF CreateStartingJob, workerVars
        <5> QED
          BY <3>1, <5>1 DEF InterruptUnowned, RecordWorkerPid, FailLaunch, RecordEnded, workerVars, dbVars
      <4> QED
        BY <2>3, <4>1
    <3>2. CASE CloseOrphans(s) \/ ClosePendingAttempt(s)
      <4>1. UNCHANGED <<worker, report>> /\ \E js : js \subseteq {k \in Jobs : IsPending(k)} /\ CloseUnknown(js)
        BY <3>2 DEF CloseOrphans, ClosePendingAttempt, Orphans, workerVars
      <4> QED
        BY <2>4, <4>1
    <3>3. CASE CloseAttemptNotSent(s)
      <4> DEFINE k == TodoJob(s)
      <4>1. k \in Jobs /\ server[s].todo \in UnsentOf(k)
        BY <2>5, <3>3, ErrandShapes DEF CloseAttemptNotSent, TodoJob
      <4>2. RecordResult(k, "UNKNOWN", "NO", TRUE) /\ UNCHANGED <<worker, report>>
        BY <3>3 DEF CloseAttemptNotSent, workerVars
      <4> HIDE DEF k
      <4>3. CASE j # k
        <5>1. attempt'[j] = attempt[j]
          BY <4>1, <4>2, <4>3 DEF RecordResult, ServerTypes
        <5> QED
          BY <1>1, <2>2, <4>2, <5>1, QuietReport, QuietAttempt, QuietPress
      <4>4. CASE j = k
        <5>1. worker[k].posts = 0 /\ ~IsAlive(k)
          BY <4>1 DEF LivesOK, ErrandOK, EndOf
        <5>2. \A t \in Servers : ~Launching(t, k)
          <6>1. HasErrand(s, k) /\ server[s].todo # LaunchOf(k)
            BY <4>1, ErrandsDiffer DEF HasErrand, ErrandsOf, EndOf
          <6>2. ASSUME NEW t \in Servers, Launching(t, k) PROVE FALSE
            <7>1. HasErrand(t, k)
              BY <6>2 DEF HasErrand, Launching, ErrandsOf
            <7>2. t = s
              BY <4>1, <6>1, <7>1 DEF LivesOK, OneErrand
            <7> QED
              BY <6>1, <6>2, <7>2 DEF Launching
          <6> QED
            BY <6>2
        <5>3. LoginOver(k)
          BY <5>1, <5>2 DEF LoginOver, IsAlive
        <5>4. Covers(k, "UNKNOWN", "NO", IF TRUE THEN 1 ELSE 2)
          BY <5>1, <5>3 DEF Covers
        <5> QED
          BY <1>1, <2>2, <4>1, <4>2, <4>4, <5>4, QuietReport, QuietPress, ResultCovers
      <4> QED
        BY <4>3, <4>4
    <3>4. CASE LaunchWorker(s)
      <4> DEFINE k == TodoJob(s)
      <4>1. k \in Jobs /\ Launching(s, k)
        BY <2>5, <3>4, ErrandShapes DEF LaunchWorker, TodoJob, Launching
      <4>2. worker' = [worker EXCEPT ![k].at = "WAITING"] /\ UNCHANGED <<attempt, report>>
        BY <3>4 DEF LaunchWorker, dbVars
      <4> HIDE DEF k
      <4>3. CASE j # k
        BY <1>1, <2>2, <4>1, <4>2, <4>3, QuietReport, QuietAttempt, QuietPress DEF ServerTypes
      <4>4. CASE j = k
        <5>1. worker[k] = NoWorker /\ report[k] = NoReport
          BY <4>1 DEF LivesOK, ErrandOK
        <5>2. ~LoginOver(k)
          BY <4>1, <5>1 DEF LoginOver, NoWorker
        <5>3. /\ worker'[k].posts \in 0 .. 2 /\ worker'[k].ok = worker[k].ok /\ worker'[k].pressed = worker[k].pressed
              /\ ~worker[k].pressed
          BY <1>1, <4>1, <4>2, <4>4, <5>1 DEF ServerTypes, WorkerRecord, NoWorker
        <5> QED
          BY <1>1, <4>1, <4>2, <4>4, <5>1, <5>2, <5>3, OpenLogin DEF ReportOK, PressOK, NoReport
      <4> QED
        BY <4>3, <4>4
    <3> QED
      BY <2>6, <3>1, <3>2, <3>3, <3>4 DEF Transaction
  <2>7. CASE \/ RenewInstanceLock(s) \/ StartAuditJob(s) \/ CreateManager(s) \/ CloseManager(s) \/ ServerCrashes(s)
             \/ HoldUp(s) \/ WakeUp(s)
    <3>1. UNCHANGED <<attempt, worker>> /\ report'[j] \in {report[j], NoReport}
      BY <2>7 DEF RenewInstanceLock, StartAuditJob, CreateManager, CloseManager, ServerCrashes, HoldUp, WakeUp, workerVars, dbVars,
                  ServerTypes
    <3> QED
      BY <2>3, <3>1
  <2>8. ASSUME NEW k \in Jobs, \/ ReceiveHeartbeat(s, k) \/ WorkerExited(s, k)
                               \/ LockLostKill(s, k) \/ EndAndKill(s, k)
        PROVE  ReportOK(j)' /\ AttemptOK(j)' /\ PressOK(j)'
    <3>1. UNCHANGED attempt /\ report'[j] \in {report[j], NoReport}
      BY <2>8 DEF ReceiveHeartbeat, WorkerExited, LockLostKill, EndAndKill, workerVars, dbVars, ServerTypes
    <3>2. worker'[j].posts = worker[j].posts /\ worker'[j].ok = worker[j].ok /\ worker'[j].pressed = worker[j].pressed
          /\ worker'[j].at = worker[j].at
      <4>1. worker' = worker \/ worker' = [worker EXCEPT ![k].signalled = IsAlive(k)]
        BY <2>8 DEF ReceiveHeartbeat, WorkerExited, LockLostKill, EndAndKill, Signalled, workerVars
      <4> QED
        BY <1>1, <4>1 DEF ServerTypes, WorkerRecord
    <3> QED
      BY <1>1, <2>1, <3>1, <3>2, QuietReport, QuietAttempt, QuietPress DEF QuietWorker
  <2>9. CASE StopWorkersAfterLockLost(s)
    <3>1. UNCHANGED <<attempt, report>>
      BY <2>9 DEF StopWorkersAfterLockLost, dbVars
    <3>2. worker'[j].posts = worker[j].posts /\ worker'[j].ok = worker[j].ok /\ worker'[j].pressed = worker[j].pressed
          /\ worker'[j].at = worker[j].at
      <4>1. worker' = worker \/ \E i \in Jobs : \E b \in BOOLEAN : worker' = [worker EXCEPT ![i].stop = b]
        <5>1. ASSUME NEW i \in Jobs, RequestStop(i, TRUE) PROVE \E b \in BOOLEAN : worker' = [worker EXCEPT ![i].stop = b]
          <6>1. PICK b \in BOOLEAN : b = (worker[i].stop \/ (job[i].phase = "STARTED" /\ IsAlive(i)))
            OBVIOUS
          <6>2. worker' = [worker EXCEPT ![i].stop = b]
            BY <5>1, <6>1, Zenon DEF RequestStop
          <6> QED
            BY <6>2
        <5> QED
          BY <2>9, <5>1 DEF StopWorkersAfterLockLost
      <4> QED
        BY <1>1, <4>1 DEF ServerTypes, WorkerRecord
    <3> QED
      BY <1>1, <2>1, <3>1, <3>2, QuietReport, QuietAttempt, QuietPress DEF QuietWorker
  <2>10. ASSUME NEW k \in Jobs, ReceiveReady(s, k) PROVE ReportOK(j)' /\ AttemptOK(j)' /\ PressOK(j)'
    <3>1. UNCHANGED <<attempt, report>> /\ worker[k].at = "WAITING"
      BY <2>10 DEF ReceiveReady
    <3>2. CASE j # k
      BY <1>1, <2>2, <2>10, <3>1, <3>2, QuietReport, QuietAttempt, QuietPress DEF ReceiveReady, ServerTypes
    <3>3. CASE j = k
      <4>1. worker'[k].posts \in 0 .. 2 /\ worker'[k].ok = worker[k].ok /\ worker'[k].pressed = worker[k].pressed /\ ~worker[k].pressed
        BY <1>1, <2>10, <3>1, <3>3 DEF ReceiveReady, ServerTypes, WorkerRecord, PressOK
      <4>2. report[k] = NoReport /\ ~LoginOver(k)
        BY <1>1, <3>1, <3>3 DEF ReportOK, LoginOver
      <4> QED
        BY <1>1, <3>1, <3>3, <4>1, <4>2, OpenLogin DEF ReportOK, PressOK, NoReport
    <3> QED
      BY <3>2, <3>3
  <2>11. ASSUME NEW k \in Jobs, ReceiveAuthState(s, k) PROVE ReportOK(j)' /\ AttemptOK(j)' /\ PressOK(j)'
    <3>1. worker' = worker /\ report'[j] \in {report[j], NoReport}
      BY <2>11 DEF ReceiveAuthState, ServerTypes
    <3>2. ReportOK(j)' /\ PressOK(j)' /\ (attempt'[j] = attempt[j] => AttemptOK(j)')
      BY <1>1, <2>2, <3>1, QuietReport, QuietAttempt, QuietPress
    <3>3. CASE job[k].phase = "STARTED" /\ j = k
      <4>1. RecordResult(k, report[k].result, report[k].submitted, report[k].response) /\ report[k] # NoReport
        BY <2>11, <3>3 DEF ReceiveAuthState
      <4>2. /\ report[k].result # "NONE" /\ report[k].response \in BOOLEAN
            /\ Covers(k, report[k].result, report[k].submitted, IF report[k].response THEN 1 ELSE 2)
        BY <1>1, <3>3, <4>1 DEF ReportOK, ServerTypes, ReportRecord, Said
      <4> QED
        BY <1>1, <2>2, <3>1, <3>2, <3>3, <4>1, <4>2, ResultCovers
    <3>4. CASE ~(job[k].phase = "STARTED" /\ j = k)
      <4>1. attempt'[j] = attempt[j]
        BY <2>11, <3>4 DEF ReceiveAuthState, RecordResult, ServerTypes
      <4> QED
        BY <3>2, <4>1
    <3> QED
      BY <3>3, <3>4
  <2> QED
    BY <2>6, <2>7, <2>8, <2>9, <2>10, <2>11 DEF ServerStep, JobStep
<1> QED
  BY <1>2, <1>3

(* Every step keeps the truth of reports and attempts.                      *)
LEMMA TruthStep == ServerTypes /\ LivesOK /\ TruthOK /\ [ServersNext]_serversVars => TruthOK'
<1> SUFFICES ASSUME ServerTypes, LivesOK, TruthOK, [ServersNext]_serversVars, NEW j \in Jobs
             PROVE  ReportOK(j)' /\ AttemptOK(j)' /\ PressOK(j)'
  BY DEF TruthOK
<1>1. CASE ClearHold \/ Tick \/ SetClock \/ UNCHANGED serversVars
  <2>1. UNCHANGED <<attempt, worker, report, server>> /\ ReportOK(j) /\ AttemptOK(j) /\ PressOK(j)
    BY <1>1 DEF ClearHold, Tick, SetClock, serversVars, dbVars, workerVars, TruthOK
  <2>2. QuietWorker(j)
    BY <2>1, ErrandsStay DEF QuietWorker
  <2> QED
    BY <2>1, <2>2, QuietReport, QuietAttempt, QuietPress
<1> QED
  BY <1>1, ServerTellsTruth, WorkerTellsTruth DEF ServersNext

-----------------------------------------------------------------------------
(* When the attempts were started. *)

(* What every step but a creation keeps of an attempt and its row: a later  *)
(* Retry-After is only set while the job is not over.                       *)
KeepsStart(j) ==
    /\ attempt'[j].start = attempt[j].start
    /\ (attempt'[j].rows > 0) <=> (attempt[j].rows > 0)
    /\ IsPending(j)' => IsPending(j)
    /\ \/ attempt'[j].retry = attempt[j].retry
       \/ attempt'[j].retry = 0
       \/ IsPending(j) /\ row[j].state # "ENDED"
    /\ row[j].state = "ENDED" => row'[j].state = "ENDED"

(* Steps that start no login keep the spaces between the logins.            *)
LEMMA KeepsSpaces ==
    ASSUME ServerTypes, AttemptsAreSpaced, LeftOpen, \A j \in Jobs : KeepsStart(j)
    PROVE  AttemptsAreSpaced' /\ LeftOpen'
<1>1. Started' = Started
  BY DEF Started, KeepsStart
<1>2. AttemptsAreSpaced'
  <2> SUFFICES ASSUME NEW i \in Started, NEW j \in Started, i < j
               PROVE  attempt'[j].start >= attempt'[i].start + MinInterval /\ attempt'[j].start >= attempt'[i].retry
    BY <1>1 DEF AttemptsAreSpaced
  <2>1. i \in Jobs /\ j \in Jobs /\ KeepsStart(i) /\ KeepsStart(j)
    BY DEF Started
  <2>2. attempt[j].start >= attempt[i].start + MinInterval /\ attempt[j].start >= attempt[i].retry
    BY DEF AttemptsAreSpaced
  <2>3. attempt[j].start \in Nat
    BY <2>1 DEF ServerTypes, AttemptRecord, AttemptFields, Times
  <2>4. ~(IsPending(i) /\ row[i].state # "ENDED")
    BY DEF LeftOpen
  <2> QED
    BY <2>1, <2>2, <2>3, <2>4 DEF KeepsStart
<1>3. LeftOpen'
  <2> SUFFICES ASSUME NEW i \in Started, NEW j \in Started, i < j, IsPending(i)' PROVE row'[i].state = "ENDED"
    BY <1>1 DEF LeftOpen
  <2>1. KeepsStart(i)
    BY DEF Started
  <2> QED
    BY <2>1 DEF LeftOpen, KeepsStart
<1> QED
  BY <1>2, <1>3

(* A row that has ended stays ended.                                        *)
LEMMA EndedStays ==
    ASSUME ServerTypes, [ServersNext]_serversVars, NEW j \in Jobs, row[j].state = "ENDED"
    PROVE  row'[j].state = "ENDED"
<1>1. row[j] \in RowRecord
  BY DEF ServerTypes
<1>2. ASSUME NEW s \in Servers, ServerStep(s) PROVE row'[j].state = "ENDED"
  <2>1. CASE InterruptUnowned(s)
    BY <2>1 DEF InterruptUnowned, ServerTypes
  <2>2. CASE CreateStartingJob(s)
    BY <2>2, Creation DEF Creates, ServerTypes
  <2>3. CASE RecordWorkerPid(s)
    BY <1>1, <2>3 DEF RecordWorkerPid, ServerTypes, RowRecord
  <2>4. CASE RecordEnded(s)
    <3>1. EndedRow("ENDED").state = "ENDED"
      BY DEF EndedRow, NoRow
    <3> QED
      BY <1>1, <2>4, <3>1 DEF RecordEnded, ServerTypes
  <2>5. ASSUME NEW k \in Jobs, JobStep(s, k) PROVE row'[j].state = "ENDED"
    <3>1. row' = row \/ \E seen : row' = [row EXCEPT ![k].seen = seen]
      BY <2>5 DEF JobStep, ReceiveReady, ReceiveHeartbeat, ReceiveAuthState, LockLostKill, EndAndKill, WorkerExited, dbVars
    <3> QED
      BY <1>1, <3>1 DEF ServerTypes, RowRecord
  <2> QED
    BY <1>2, <2>1, <2>2, <2>3, <2>4, <2>5
       DEF ServerStep, Transaction, CloseOrphans, LaunchWorker, FailLaunch, CloseAttemptNotSent, ClosePendingAttempt, CreateManager,
           RenewInstanceLock, StartAuditJob, StopWorkersAfterLockLost, CloseManager, ServerCrashes, HoldUp, WakeUp, dbVars
<1>3. ASSUME NEW k \in Jobs, WorkerStep(k) PROVE row'[j].state = "ENDED"
  BY <1>3, WorkerSteps DEF OnlyWorker
<1> QED
  BY <1>2, <1>3 DEF ServersNext, ClearHold, Tick, SetClock, serversVars, dbVars

(* Closing takes no attempt back, and opens none.                           *)
LEMMA ClosingKeepsStart ==
    ASSUME ServerTypes, NEW j \in Jobs, row[j].state = "ENDED" => row'[j].state = "ENDED"
    PROVE  /\ UNCHANGED attempt => KeepsStart(j)
           /\ \A js : CloseUnknown(js) /\ js \subseteq {k \in Jobs : IsPending(k)} => KeepsStart(j)
           /\ \A k \in Jobs : \A result, submitted : \A response \in BOOLEAN :
                RecordResult(k, result, submitted, response) /\ result # "NONE" /\ (result = "RATE_LIMITED" => row[k].state # "ENDED")
                  => KeepsStart(j)
<1>1. attempt[j] \in AttemptRecord
  BY DEF ServerTypes
<1>2. attempt'[j] = attempt[j] => KeepsStart(j)
  BY DEF KeepsStart, IsPending
<1>3. ASSUME NEW js, CloseUnknown(js), js \subseteq {k \in Jobs : IsPending(k)} PROVE KeepsStart(j)
  <2>1. CASE j \in js
    <3>1. attempt'[j] = Unknown(attempt[j]) /\ IsPending(j)
      BY <1>3, <2>1 DEF CloseUnknown, Unknown
    <3>2. attempt'[j].start = attempt[j].start /\ attempt'[j].rows = 2 /\ attempt'[j].result = "UNKNOWN" /\ attempt'[j].retry = 0
      BY <3>1, UnknownFields
    <3> QED
      BY <3>1, <3>2 DEF KeepsStart, IsPending
  <2>2. CASE j \notin js
    BY <1>2, <1>3, <2>2 DEF CloseUnknown
  <2> QED
    BY <2>1, <2>2
<1>4. ASSUME NEW k \in Jobs, NEW result, NEW submitted, NEW response \in BOOLEAN, RecordResult(k, result, submitted, response),
             result # "NONE", result = "RATE_LIMITED" => row[k].state # "ENDED"
      PROVE  KeepsStart(j)
  <2>1. CASE j = k /\ IsPending(k)
    <3>1. PICK retry : /\ attempt'[k] = ClosedAttempt(attempt[k], result, submitted, response, retry)
                       /\ retry = 0 \/ result = "RATE_LIMITED"
      BY <1>4, <2>1 DEF RecordResult, ServerTypes
    <3>2. /\ attempt'[k].start = attempt[k].start /\ attempt'[k].result = result /\ attempt'[k].retry = retry
          /\ attempt'[k].rows = 1 \/ attempt'[k].rows = 2
      <4>1. attempt[k].rows = 1
        BY <1>1, <2>1 DEF IsPending, AttemptRecord, AttemptFields
      <4> QED
        BY <1>1, <2>1, <3>1, <4>1, ClosedFields
    <3> QED
      BY <1>4, <2>1, <3>1, <3>2 DEF KeepsStart, IsPending
  <2>2. CASE ~(j = k /\ IsPending(k))
    BY <1>2, <1>4, <2>2 DEF RecordResult, ServerTypes
  <2> QED
    BY <2>1, <2>2
<1> QED
  BY <1>2, <1>3, <1>4

(* Every step but a creation keeps the attempts as they were started.       *)
LEMMA StepsKeepStarts ==
    ASSUME ServerTypes, LivesOK, TruthOK, [ServersNext]_serversVars,
           ~\E s \in Servers, k \in Jobs : CreateStartingJob(s) /\ Creates(s, k), NEW j \in Jobs
    PROVE  KeepsStart(j)
<1>1. row[j].state = "ENDED" => row'[j].state = "ENDED"
  BY EndedStays
<1>2. UNCHANGED attempt => KeepsStart(j)
  BY <1>1, ClosingKeepsStart
<1>3. ASSUME NEW s \in Servers, Transaction(s) PROVE KeepsStart(j)
  <2>1. CASE CloseOrphans(s) \/ ClosePendingAttempt(s)
    <3>1. PICK js : CloseUnknown(js) /\ js \subseteq {k \in Jobs : IsPending(k)}
      BY <2>1 DEF CloseOrphans, ClosePendingAttempt, Orphans
    <3> QED
      BY <1>1, <3>1, ClosingKeepsStart
  <2>2. CASE CloseAttemptNotSent(s)
    <3>1. TodoJob(s) \in Jobs
      BY <2>2, ErrandJob DEF CloseAttemptNotSent, Next1, ServerTypes
    <3>2. RecordResult(TodoJob(s), "UNKNOWN", "NO", TRUE)
      BY <2>2 DEF CloseAttemptNotSent
    <3> QED
      BY <1>1, <3>1, <3>2, ClosingKeepsStart
  <2>3. CASE CreateStartingJob(s)
    BY <1>2, <2>3, Creation
  <2> QED
    BY <1>2, <1>3, <2>1, <2>2, <2>3 DEF Transaction, InterruptUnowned, LaunchWorker, RecordWorkerPid, FailLaunch, RecordEnded, dbVars
<1>4. ASSUME NEW s \in Servers, NEW k \in Jobs, JobStep(s, k) PROVE KeepsStart(j)
  <2>1. CASE ReceiveAuthState(s, k)
    <3>1. CASE job[k].phase = "STARTED"
      <4>1. RecordResult(k, report[k].result, report[k].submitted, report[k].response) /\ report[k] # NoReport
        BY <2>1, <3>1 DEF ReceiveAuthState
      <4>2. row[k].state # "ENDED"
        BY <3>1 DEF LivesOK, LifeOK
      <4>3. report[k].result # "NONE" /\ report[k].response \in BOOLEAN
        BY <4>1 DEF TruthOK, ReportOK, ServerTypes, ReportRecord, Said
      <4> QED
        BY <1>1, <4>1, <4>2, <4>3, ClosingKeepsStart
    <3>2. CASE job[k].phase # "STARTED"
      BY <1>2, <2>1, <3>2 DEF ReceiveAuthState
    <3> QED
      BY <3>1, <3>2
  <2> QED
    BY <1>2, <1>4, <2>1 DEF JobStep, ReceiveReady, ReceiveHeartbeat, LockLostKill, EndAndKill, WorkerExited, dbVars
<1>5. ASSUME NEW s \in Servers, ServerStep(s) PROVE KeepsStart(j)
  BY <1>2, <1>3, <1>4, <1>5 DEF ServerStep, CreateManager, RenewInstanceLock, StartAuditJob, StopWorkersAfterLockLost, CloseManager,
     ServerCrashes, HoldUp, WakeUp, dbVars
<1>6. ASSUME NEW k \in Jobs, WorkerStep(k) PROVE KeepsStart(j)
  BY <1>2, <1>6, WorkerSteps DEF OnlyWorker
<1> QED
  BY <1>2, <1>5, <1>6 DEF ServersNext, ClearHold, Tick, SetClock, serversVars, dbVars

(* A server is left with the creation of a job by closing the orphans.      *)
CreateNext == <<Step("CREATE", 0)>>

(* Its errand is the creation only after that transaction.                  *)
LEMMA OnlyOrphansLeadToCreation ==
    ASSUME ServerTypes, NEW s \in Servers, ServerStep(s), ~CloseOrphans(s), NEW t \in Servers, server'[t].todo = CreateNext
    PROVE  server[t].todo = CreateNext /\ (inst'.owner = t => inst.owner = t)
<1>1. server[s] \in ServerRecord /\ server[s].todo \in Errands
  BY DEF ServerTypes, ServerRecord
<1>2. /\ CreateNext \in Preparations /\ CreateNext # <<>>
      /\ CreateNext # <<Step("INTERRUPT", 0), Step("ORPHANS", 0)>>
      /\ CreateNext # <<Step("INTERRUPT", 0), Step("ORPHANS", 0), Step("CREATE", 0)>>
      /\ \A k \in Jobs : CreateNext # LaunchOf(k) /\ CreateNext # PidOf(k) /\ CreateNext \notin EndOf(k)
  <2>1. CreateNext \in Preparations
    BY DEF CreateNext, Preparations
  <2> QED
    BY <2>1, PreparationsAreNone DEF CreateNext
<1>3. ASSUME NEW td, SetTodo(s, td), td # CreateNext PROVE server[t].todo = CreateNext
  <2>1. server'[s].todo = td /\ (t # s => server'[t] = server[t])
    BY <1>3, OthersKeepErrands DEF ServerTypes
  <2> QED
    BY <1>3, <2>1
<1>4. ASSUME NEW td \in {<<>>}, server' = [server EXCEPT ![s] = [Lost(@) EXCEPT !.todo = td]]
      PROVE  server[t].todo = CreateNext
  <2>1. Lost(server[s]) \in ServerRecord
    BY <1>1, RecordUpdates
  <2> QED
    BY <1>1, <1>2, <1>4, <2>1 DEF ServerTypes, ServerRecord
<1>5. CASE Transaction(s)
  <2>1. inst' = inst
    BY <1>5 DEF Transaction, InterruptUnowned, CloseOrphans, CreateStartingJob, LaunchWorker, RecordWorkerPid,
                FailLaunch, RecordEnded, CloseAttemptNotSent, ClosePendingAttempt, dbVars
  <2>2. CASE \/ InterruptUnowned(s) /\ ~(HoldsLock(s) /\ ~server[s].lost)
             \/ CreateStartingJob(s) /\ ~HoldsLock(s)
    BY <1>4, <2>1, <2>2 DEF InterruptUnowned, CreateStartingJob
  <2>3. CASE SetTodo(s, Rest(s)) /\ server[s].todo # <<>>
    <3>1. Rest(s) = Tail(server[s].todo)
             /\ Head(server[s].todo).kind \in {"INTERRUPT", "CREATE", "LAUNCH", "PID", "END_ROW", "NOT_SENT", "PENDING"}
      BY <1>5, <2>3 DEF Transaction, Rest, Next1, InterruptUnowned, CreateStartingJob, LaunchWorker, RecordWorkerPid,
                        FailLaunch, RecordEnded, CloseAttemptNotSent, ClosePendingAttempt
    <3>2. Head(server[s].todo).kind \in {"PID", "NOT_SENT", "PENDING", "CREATE"} => Rest(s) = <<>>
      BY <1>1, <2>3, <3>1, ErrandShapes
    <3>3. Head(server[s].todo).kind = "INTERRUPT" => Rest(s) # CreateNext
      BY <1>1, <2>3, <3>1, ErrandShapes DEF CreateNext
    <3>4. Head(server[s].todo).kind = "END_ROW" => \E i \in Jobs : Rest(s) \in EndOf(i)
      BY <1>1, <2>3, <3>1, ErrandShapes
    <3>5. Head(server[s].todo).kind = "LAUNCH" => Rest(s) = <<>>
      <4>1. ASSUME NEW i \in Jobs PROVE Tail(LaunchOf(i)) = <<>>
        BY DEF LaunchOf, Step
      <4> QED
        BY <1>1, <2>3, <4>1, ErrandShapes DEF Rest
    <3>6. Rest(s) # CreateNext
      BY <1>2, <3>1, <3>2, <3>3, <3>4, <3>5
    <3> QED
      BY <1>3, <2>1, <2>3, <3>6
  <2>4. CASE LaunchWorker(s) \/ FailLaunch(s)
    <3>1. TodoJob(s) \in Jobs
      BY <2>4, ErrandJob DEF LaunchWorker, FailLaunch, Next1, ServerTypes
    <3>2. PICK td \in {PidOf(TodoJob(s))} \cup EndOf(TodoJob(s)) : SetTodo(s, td)
      BY <2>4 DEF LaunchWorker, FailLaunch, PidOf, UnsentOf, EndOf
    <3> QED
      BY <1>2, <1>3, <2>1, <3>1, <3>2
  <2>5. CASE CreateStartingJob(s) /\ HoldsLock(s)
    <3>1. \E td : SetTodo(s, td) /\ td # CreateNext
      <4>1. CASE SetTodo(s, <<>>)
        BY <1>2, <4>1
      <4>2. CASE \E k \in Jobs : SetTodo(s, LaunchOf(k))
        BY <1>2, <4>2
      <4> QED
        BY <2>5, <4>1, <4>2 DEF CreateStartingJob, LaunchOf
    <3> QED
      BY <1>3, <2>1, <3>1
  <2> QED
    BY <1>5, <2>2, <2>3, <2>4, <2>5 DEF Transaction, Next1, InterruptUnowned, RecordWorkerPid, RecordEnded,
                                        CloseAttemptNotSent, ClosePendingAttempt
<1>6. CASE RenewInstanceLock(s)
  <2>1. Lost(server[s]).todo = server[s].todo
    BY OthersKeepErrands DEF ServerTypes
  <2> QED
    BY <1>6, <2>1 DEF RenewInstanceLock, ServerTypes
<1>7. CASE StartAuditJob(s)
  BY <1>2, <1>3, <1>7 DEF StartAuditJob, dbVars
<1>8. CASE CreateManager(s)
  <2>1. server'[s].todo = <<Step("INTERRUPT", 0), Step("ORPHANS", 0)>> /\ inst'.owner = s /\ (t # s => server'[t] = server[t])
    BY <1>1, <1>8 DEF CreateManager, ServerTypes, ServerRecord
  <2> QED
    BY <1>2, <2>1
<1>9. CASE CloseManager(s) \/ ServerCrashes(s)
  <2>1. server'[s].todo = <<>> /\ (t # s => server'[t] = server[t]) /\ inst' \in {inst, NoInstance}
    BY <1>1, <1>9 DEF CloseManager, ServerCrashes, ServerTypes, ServerOff, dbVars
  <2>2. NoInstance.owner # t
    BY ServersAssumption DEF NoInstance
  <2> QED
    BY <1>2, <2>1, <2>2
<1>10. CASE StopWorkersAfterLockLost(s) \/ HoldUp(s) \/ WakeUp(s)
  <2>1. PICK b \in BOOLEAN : server' = [server EXCEPT ![s].awake = b] \/ server' = [server EXCEPT ![s].stopSoon = b]
    BY <1>10 DEF StopWorkersAfterLockLost, HoldUp, WakeUp
  <2>2. server'[t].todo = server[t].todo
    BY <1>1, <2>1 DEF ServerTypes, ServerRecord
  <2>3. inst' = inst
    BY <1>10 DEF StopWorkersAfterLockLost, HoldUp, WakeUp, dbVars
  <2> QED
    BY <2>2, <2>3
<1>11. ASSUME NEW k \in Jobs, JobStep(s, k) PROVE server[t].todo = CreateNext /\ inst' = inst
  <2>1. CASE WorkerExited(s, k)
    <3>1. PICK td \in EndOf(k) : SetTodo(s, td)
      BY <2>1 DEF WorkerExited, EndOf, UnsentOf, PendingOf, ClosingOf
    <3> QED
      BY <1>2, <1>3, <2>1, <3>1 DEF WorkerExited, dbVars
  <2> QED
    BY <1>11, <2>1 DEF JobStep, ReceiveReady, ReceiveHeartbeat, ReceiveAuthState, LockLostKill, EndAndKill, dbVars
<1> QED
  BY <1>5, <1>6, <1>7, <1>8, <1>9, <1>10, <1>11 DEF ServerStep

(* Only the holder of the lock interrupts a row, and before it closes the   *)
(* orphans.                                                                 *)
LEMMA OnlyHolderInterrupts ==
    ASSUME ServerTypes, NEW s \in Servers, ServerStep(s), NEW j \in Jobs,
           row'[j].state = "INTERRUPTED", row[j].state # "INTERRUPTED"
    PROVE  inst.owner = s /\ inst' = inst /\ InterruptUnowned(s) /\ Head(server[s].todo).kind = "INTERRUPT"
<1>1. row[j] \in RowRecord
  BY DEF ServerTypes
<1>2. CASE InterruptUnowned(s)
  BY <1>2 DEF InterruptUnowned, HoldsLock, Next1
<1>3. CASE CreateStartingJob(s)
  BY <1>3, Creation DEF Creates, ServerTypes
<1>4. CASE RecordWorkerPid(s)
  BY <1>1, <1>4 DEF RecordWorkerPid, ServerTypes, RowRecord
<1>5. CASE RecordEnded(s)
  <2>1. EndedRow("ENDED").state = "ENDED"
    BY DEF EndedRow, NoRow
  <2> QED
    BY <1>1, <1>5, <2>1 DEF RecordEnded, ServerTypes
<1>6. CASE \E k \in Jobs : JobStep(s, k)
  <2>1. PICK k \in Jobs : JobStep(s, k)
    BY <1>6
  <2>2. row' = row \/ \E seen : row' = [row EXCEPT ![k].seen = seen]
    BY <2>1 DEF JobStep, ReceiveReady, ReceiveHeartbeat, ReceiveAuthState, LockLostKill, EndAndKill, WorkerExited, dbVars
  <2> QED
    BY <1>1, <2>2 DEF ServerTypes, RowRecord
<1> QED
  BY <1>2, <1>3, <1>4, <1>5, <1>6
     DEF ServerStep, Transaction, CloseOrphans, LaunchWorker, FailLaunch, CloseAttemptNotSent, ClosePendingAttempt, CreateManager,
         RenewInstanceLock, StartAuditJob, StopWorkersAfterLockLost, CloseManager, ServerCrashes, HoldUp, WakeUp, dbVars

(* No attempt is started at first.                                          *)
LEMMA SpacedInit == ServersInit => SpacedOK
<1> SUFFICES ASSUME ServersInit PROVE SpacedOK
  OBVIOUS
<1>1. \A j \in Jobs : attempt[j].rows = 0
  BY DEF ServersInit, NoAttempt
<1>2. Started = {}
  BY <1>1 DEF Started
<1>3. \A s \in Servers : server[s].todo # CreateNext
  BY DEF ServersInit, ServerOff, CreateNext
<1> QED
  BY <1>2, <1>3 DEF SpacedOK, AttemptsAreSpaced, LeftOpen, NoneInterrupted, CreateNext

(* The job that is created is the last one, and its start is in the limits. *)
LEMMA CreationSpaced ==
    ASSUME ServerTypes, LivesOK, SpacedOK, NEW s \in Servers, NEW k \in Jobs, CreateStartingJob(s), Creates(s, k)
    PROVE  SpacedOK'
<1>1. /\ server[s].at = "UP" /\ server[s].todo = CreateNext /\ inst.owner = s /\ inst' = inst
  <2>1. server[s].todo \in Errands
    BY DEF ServerTypes, ServerRecord
  <2> QED
    BY <2>1, ErrandShapes DEF CreateStartingJob, Next1, CanAct, Creates, HoldsLock, CreateNext
<1>2. /\ \A j \in Jobs \ {k} : attempt'[j] = attempt[j] /\ row'[j] = row[j]
      /\ attempt'[k] = StartedAt(clock) /\ row'[k].state = "ACTIVE" /\ clock \in Times
  BY DEF Creates, ServerTypes
<1>3. attempt'[k].start = clock /\ attempt'[k].rows = 1 /\ attempt'[k].retry = 0
  BY <1>2, StartedTyped
<1>4. attempt[k].rows = 0 /\ k \notin Started
  BY DEF Creates, LivesOK, LifeOK, Started
<1>5. Started' = Started \cup {k}
  BY <1>2, <1>3, <1>4 DEF Started
<1>6. ASSUME NEW i \in Started PROVE i \in Jobs /\ i < k /\ row[i].state \notin {"NONE", "ACTIVE"} /\ attempt'[i] = attempt[i] /\ row'[i] = row[i]
  <2>1. i \in Jobs /\ i # k /\ row[i].state \notin {"NONE", "ACTIVE"}
    BY <1>4 DEF Started, LivesOK, LifeOK, Creates
  <2>2. ~(k < i)
    BY <2>1 DEF LivesOK, InOrder, Creates
  <2>3. i < k
    BY <2>1, <2>2, Sizes DEF Jobs
  <2> QED
    BY <1>2, <2>1, <2>3
<1>7. AttemptsAreSpaced'
  <2> SUFFICES ASSUME NEW i \in Started', NEW j \in Started', i < j
               PROVE  attempt'[j].start >= attempt'[i].start + MinInterval /\ attempt'[j].start >= attempt'[i].retry
    BY DEF AttemptsAreSpaced
  <2>1. CASE j = k
    <3>1. i \in Started
      BY <1>5, <2>1, Sizes DEF Jobs
    <3>2. attempt[i].start + MinInterval <= clock /\ attempt[i].retry <= clock
      BY <3>1 DEF Creates, CanStart
    <3>3. attempt[i].start \in Int /\ attempt[i].retry \in Int /\ clock \in Int /\ MinInterval \in Int
      BY <1>2, <1>6, <3>1, Sizes DEF ServerTypes, AttemptRecord, AttemptFields
    <3> QED
      BY <1>3, <1>6, <2>1, <3>1, <3>2, <3>3
  <2>2. CASE j # k
    <3>1. j \in Started /\ i # k
      BY <1>5, <1>6, <2>2, Sizes DEF Jobs
    <3>2. i \in Started
      BY <1>5, <3>1
    <3> QED
      BY <1>6, <3>1, <3>2 DEF SpacedOK, AttemptsAreSpaced
  <2> QED
    BY <2>1, <2>2
<1>8. LeftOpen'
  <2> SUFFICES ASSUME NEW i \in Started', NEW j \in Started', i < j, IsPending(i)' PROVE row'[i].state = "ENDED"
    BY DEF LeftOpen
  <2>1. i \in Started
    BY <1>5, <1>6, Sizes DEF Jobs
  <2>2. IsPending(i) /\ row'[i] = row[i]
    BY <1>6, <2>1 DEF IsPending
  <2>3. row[i].state # "INTERRUPTED"
    BY <1>1, <1>6, <2>1, <2>2 DEF SpacedOK, NoneInterrupted, CreateNext
  <2> QED
    BY <1>6, <2>1, <2>2, <2>3 DEF ServerTypes, RowRecord
<1>9. NoneInterrupted'
  <2> SUFFICES ASSUME NEW t \in Servers, inst'.owner = t, server'[t].todo = CreateNext PROVE FALSE
    BY DEF NoneInterrupted, CreateNext
  <2>1. t = s /\ server'[s].todo = LaunchOf(k)
    BY <1>1, OthersKeepErrands DEF Creates, ServerTypes
  <2>2. CreateNext \in Preparations
    BY DEF CreateNext, Preparations
  <2> QED
    BY <2>1, <2>2, ErrandsDiffer
<1> QED
  BY <1>7, <1>8, <1>9 DEF SpacedOK

(* Every step keeps the starts apart.                                       *)
LEMMA SpacedStep == ServerTypes /\ LivesOK /\ TruthOK /\ SpacedOK /\ [ServersNext]_serversVars => SpacedOK'
<1> SUFFICES ASSUME ServerTypes, LivesOK, TruthOK, SpacedOK, [ServersNext]_serversVars PROVE SpacedOK'
  OBVIOUS
<1>1. CASE \E s \in Servers, k \in Jobs : CreateStartingJob(s) /\ Creates(s, k)
  BY <1>1, CreationSpaced
<1>2. CASE ~\E s \in Servers, k \in Jobs : CreateStartingJob(s) /\ Creates(s, k)
  <2>1. \A j \in Jobs : KeepsStart(j)
    BY <1>2, StepsKeepStarts
  <2>2. AttemptsAreSpaced' /\ LeftOpen'
    BY <2>1, KeepsSpaces DEF SpacedOK
  <2>3. NoneInterrupted'
    <3> SUFFICES ASSUME NEW t \in Servers, inst'.owner = t, server'[t].todo = CreateNext,
                        NEW j \in Jobs, row'[j].state = "INTERRUPTED", IsPending(j)'
                 PROVE  FALSE
      BY DEF NoneInterrupted, CreateNext
    <3>1. IsPending(j)
      BY <2>1 DEF KeepsStart
    <3>2. CASE \E s \in Servers : ServerStep(s)
      <4>1. PICK s \in Servers : ServerStep(s)
        BY <3>2
      <4>2. CASE CloseOrphans(s)
        <5>1. row' = row /\ CloseUnknown(Orphans)
          BY <4>2 DEF CloseOrphans
        <5>2. j \in Orphans
          BY <3>1, <5>1 DEF Orphans
        <5>3. attempt'[j] = Unknown(attempt[j])
          BY <5>1, <5>2 DEF CloseUnknown, Unknown
        <5> QED
          BY <3>1, <5>3, UnknownFields DEF IsPending
      <4>3. CASE ~CloseOrphans(s)
        <5>1. server[t].todo = CreateNext /\ inst.owner = t
          BY <4>1, <4>3, OnlyOrphansLeadToCreation
        <5>2. row[j].state # "INTERRUPTED"
          BY <3>1, <5>1 DEF SpacedOK, NoneInterrupted, CreateNext
        <5>3. inst.owner = s /\ Head(server[s].todo).kind = "INTERRUPT"
          BY <4>1, <5>2, OnlyHolderInterrupts
        <5>4. Head(CreateNext).kind = "CREATE"
          BY DEF CreateNext, Step
        <5> QED
          BY <5>1, <5>3, <5>4
      <4> QED
        BY <4>2, <4>3
    <3>3. CASE UNCHANGED <<inst, server, row>>
      BY <3>1, <3>3 DEF SpacedOK, NoneInterrupted, CreateNext
    <3>4. (\E k \in Jobs : WorkerStep(k)) \/ ClearHold \/ Tick \/ SetClock \/ UNCHANGED serversVars
             => UNCHANGED <<inst, server, row>>
      BY WorkerSteps DEF OnlyWorker, ClearHold, Tick, SetClock, serversVars, dbVars
    <3> QED
      BY <3>2, <3>3, <3>4 DEF ServersNext
  <2> QED
    BY <2>2, <2>3 DEF SpacedOK
<1> QED
  BY <1>1, <1>2

-----------------------------------------------------------------------------
(* The theorems. *)

ServersInv == ServerTypes /\ LivesOK /\ TruthOK /\ SpacedOK

(* The invariant the theorems below rest on: the types, the lives of        *)
(* servers and jobs, what the attempts say, and when they were started.     *)
THEOREM ServersInvHolds == ServersSpec => []ServersInv
<1>1. ServersInit => ServersInv
  BY ServerTypesInit, LivesInit, TruthInit, SpacedInit DEF ServersInv
<1>2. ServersInv /\ [ServersNext]_serversVars => ServersInv'
  BY ServerTypesStep, LivesStep, TruthStep, SpacedStep DEF ServersInv
<1> QED
  BY <1>1, <1>2, PTL DEF ServersSpec

(* Every variable keeps its type, whatever the servers, workers and clock   *)
(* do (instance-lock.ts, audit-job-manager.ts, auto-login-store.ts).        *)
THEOREM ServersTypeHolds == ServersSpec => []ServersTypeOK
<1> DEFINE StepRecord == [kind : {"INTERRUPT", "ORPHANS", "CREATE", "LAUNCH", "PID", "END_ROW", "NOT_SENT", "PENDING"},
                          job : Jobs \cup {0}]
<1>1. ServersInv => ServersTypeOK
  <2> SUFFICES ASSUME ServerTypes PROVE ServersTypeOK
    BY DEF ServersInv
  <2>1. ASSUME NEW kind \in {"INTERRUPT", "ORPHANS", "CREATE", "LAUNCH", "PID", "END_ROW", "NOT_SENT", "PENDING"},
               NEW j \in Jobs \cup {0}
        PROVE  Step(kind, j) \in StepRecord
    BY DEF Step
  <2>2. ASSUME NEW a \in StepRecord, NEW b \in StepRecord, NEW c \in StepRecord
        PROVE  <<>> \in Seq(StepRecord) /\ <<a>> \in Seq(StepRecord) /\ <<a, b>> \in Seq(StepRecord) /\ <<a, b, c>> \in Seq(StepRecord)
    <3> HIDE DEF StepRecord
    <3> QED
      OBVIOUS
  <2> HIDE DEF StepRecord
  <2>3. Preparations \subseteq Seq(StepRecord)
    BY <2>1, <2>2 DEF Preparations
  <2>4. \A j \in Jobs : ErrandsOf(j) \subseteq Seq(StepRecord)
    BY <2>1, <2>2 DEF ErrandsOf, LaunchOf, PidOf, EndOf, UnsentOf, PendingOf
  <2>5. Errands \subseteq Seq(StepRecord)
    BY <2>3, <2>4 DEF Errands
  <2>6. \A s \in Servers :
          /\ server[s].at \in {"OFF", "UP", "GONE"}
          /\ server[s].awake \in BOOLEAN /\ server[s].lost \in BOOLEAN /\ server[s].stopSoon \in BOOLEAN
          /\ server[s].todo \in Seq(StepRecord)
    BY <2>5 DEF ServerTypes, ServerRecord
  <2>7. report \in [Jobs -> [result : {"NONE", "SUCCEEDED", "FAILED", "RATE_LIMITED"}, submitted : {"YES", "NO", "UNKNOWN"},
                             response : BOOLEAN]]
    <3> DEFINE all == [result : {"NONE", "SUCCEEDED", "FAILED", "RATE_LIMITED"}, submitted : {"YES", "NO", "UNKNOWN"},
                       response : BOOLEAN]
    <3>1. Said \subseteq all /\ NoReport \in all
      BY DEF Said, NoReport
    <3> HIDE DEF all
    <3>2. report \in [Jobs -> all]
      BY <3>1 DEF ServerTypes, ReportRecord
    <3> QED
      BY <3>2 DEF all
  <2>8. attempt \in [Jobs -> AttemptFields]
    BY DEF ServerTypes, AttemptRecord
  <2>9. job \in [Jobs -> JobRecord] /\ worker \in [Jobs -> WorkerRecord] /\ row \in [Jobs -> RowRecord]
    BY DEF ServerTypes
  <2>10. /\ clock \in Times /\ faults \in 0 .. MaxFaults /\ inst \in [owner : Servers \cup {Nobody}, beat : Times]
         /\ hold \in BOOLEAN
    BY DEF ServerTypes
  <2> QED
    BY <2>6, <2>7, <2>8, <2>9, <2>10, Zenon DEF ServersTypeOK, StepRecord, RowRecord, JobRecord, WorkerRecord, AttemptFields
<1> QED
  BY <1>1, ServersInvHolds, PTL

(* Two workers run at the same time only after a server died or lost the    *)
(* lock, and then it stops its worker (#stopWorkersAfterLockLost): an       *)
(* active row is the only one, and the job of an interrupted row belongs to *)
(* a server that does not hold the lock.                                    *)
THEOREM TwoWorkersOnlyAfterALossHolds == ServersSpec => []TwoWorkersOnlyAfterALoss
<1>1. ServersInv => TwoWorkersOnlyAfterALoss
  <2> SUFFICES ASSUME ServerTypes, LivesOK, NEW i \in Jobs, NEW j \in Jobs, i # j, IsAlive(i), IsAlive(j),
                      \A k \in {i, j} : server[job[k].owner].at # "GONE"
               PROVE  \E k \in {i, j} : inst.owner # job[k].owner /\ StopsItsWorker(k)
    BY DEF ServersInv, TwoWorkersOnlyAfterALoss
  <2>1. ASSUME NEW k \in {i, j}
        PROVE  /\ job[k].owner \in Servers /\ Belongs(job[k].owner, k)
               /\ row[k].state \in {"ACTIVE", "INTERRUPTED"} /\ StopsItsWorker(k)
    <3>1. k \in Jobs /\ IsAlive(k) /\ LifeOK(k) /\ job[k] \in JobRecord
      BY DEF LivesOK, ServerTypes
    <3>2. job[k].owner \in Servers /\ job[k].owner # Nobody
      BY <3>1 DEF LifeOK, JobRecord
    <3>3. server[job[k].owner].at = "UP"
      BY <3>1, <3>2 DEF LifeOK, ServerTypes, ServerRecord
    <3> QED
      BY <3>1, <3>2, <3>3 DEF LifeOK, Belongs
  <2>2. PICK k \in {i, j} : row[k].state = "INTERRUPTED"
    BY <2>1 DEF LivesOK, OneActive
  <2>3. inst.owner # job[k].owner
    BY <2>1, <2>2 DEF LivesOK, Interrupted
  <2> QED
    BY <2>1, <2>3
<1> QED
  BY <1>1, ServersInvHolds, PTL

(* What a closed attempt says of its login stands                           *)
(* (recordAutoLoginResult, closeUnknownAttemptIn, #recordJobRow,            *)
(* submission): one that was closed before its login was over counts twice, *)
(* the most a login does.                                                   *)
THEOREM ClosedAttemptsTellTruthHolds == ServersSpec => []ClosedAttemptsTellTruth
<1>1. ServersInv => ClosedAttemptsTellTruth
  BY DEF ServersInv, TruthOK, AttemptOK, Covers, MayBeSent, ClosedAttemptsTellTruth
<1> QED
  BY <1>1, ServersInvHolds, PTL

(* Logins are MinInterval and every Retry-After apart (decideAutoLoginStart)*)
(* also over set clocks and servers that take over: an answer that asks for *)
(* a pause comes before the next login is started.                          *)
THEOREM AttemptsAreSpacedHolds == ServersSpec => []AttemptsAreSpaced
<1>1. ServersInv => AttemptsAreSpaced
  BY DEF ServersInv, SpacedOK
<1> QED
  BY <1>1, ServersInvHolds, PTL

(* When a login is started every attempt of an interrupted job was closed   *)
(* before (#interruptUnownedJobs, closeOrphanedAutoLoginAttempts).  This is *)
(* the first half of LoginsStartOnTheTruth; its second half is about a sum. *)
NoOrphanAtAStart ==
    \A j \in Jobs : attempt[j].rows = 0 /\ attempt'[j].rows = 1 =>
        \A i \in Jobs : row[i].state = "INTERRUPTED" => ~IsPending(i)

(* Every step that starts a login does it when no orphan is left.           *)
THEOREM NoOrphanAtAStartHolds == ServersSpec => [][NoOrphanAtAStart]_serversVars
<1>1. ServersInv /\ [ServersNext]_serversVars => [NoOrphanAtAStart]_serversVars
  <2> SUFFICES ASSUME ServersInv, [ServersNext]_serversVars, NEW j \in Jobs, attempt[j].rows = 0, attempt'[j].rows = 1,
                      NEW i \in Jobs, row[i].state = "INTERRUPTED"
               PROVE  ~IsPending(i)
    BY DEF NoOrphanAtAStart
  <2>1. ~KeepsStart(j)
    BY DEF KeepsStart
  <2>2. PICK s \in Servers, k \in Jobs : CreateStartingJob(s) /\ Creates(s, k)
    BY <2>1, StepsKeepStarts DEF ServersInv
  <2>3. server[s].todo = CreateNext
    <3>1. server[s].todo \in Errands
      BY DEF ServersInv, ServerTypes, ServerRecord
    <3> QED
      BY <2>2, <3>1, ErrandShapes DEF CreateStartingJob, Next1, CreateNext
  <2> QED
    BY <2>2, <2>3 DEF ServersInv, SpacedOK, NoneInterrupted, Creates, HoldsLock, CreateNext
<1> QED
  BY <1>1, ServersInvHolds, PTL DEF ServersSpec
=============================================================================
