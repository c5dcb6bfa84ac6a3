------------------------------- MODULE RunCrawl --------------------------------
(***************************************************************************)
(* The crawl of one Run over its executions: what an execution saves, how  *)
(* it ends, and what the next one makes of the saved state                 *)
(* (orchestration/run-coordinator.ts, run-checkpoint.ts,                   *)
(* run-checkpoint-session.ts, crawl-frontier.ts, cli/audit-run.ts and the  *)
(* checkpoint files of report/artifact-writer.ts).  One process at a time  *)
(* works in the directory of the Run: RunStart is about that.  It can be   *)
(* killed before every step, every write can fail, and the site can be     *)
(* unavailable, for a moment or for good.                                  *)
(***************************************************************************)
EXTENDS Naturals, Sequences, FiniteSets

CONSTANTS
    Urls,        \* the pages of the site
    Start,       \* the start URL
    MaxDepth,    \* crawl.maxDepth
    MaxPages,    \* crawl.maxPages
    MaxRechecks, \* the length of SITE_UNAVAILABLE_RECHECK_DELAYS_MS
    MaxFaults    \* bound: kills, failures, outages, stops and violations, all together

ASSUME CrawlAssumption ==
    /\ IsFiniteSet(Urls) /\ Start \in Urls
    /\ MaxDepth \in Nat /\ MaxPages \in Nat \ {0} /\ MaxRechecks \in Nat /\ MaxFaults \in Nat

Metadata == "METADATA"  \* robots.txt and sitemap.xml

VARIABLES
    disk,    \* the files under checkpoint/
    run,     \* the memory of the process, if there is one
    down,    \* what of the site never answers
    faults   \* what has gone wrong so far

vars == <<disk, run, down, faults>>

-----------------------------------------------------------------------------
(* The crawl frontier. A page is known by its place in the order of        *)
(* discovery: its ID is the next one of the allocator, saved with it.      *)

Ids == 1 .. Cardinality(Urls)

RequeueCodes == {"MAX_RUNTIME_REACHED", "RUN_INTERRUPTED", "SITE_UNAVAILABLE", "AUTH_SESSION_LOST",
                 "SERVICE_REQUEST_LIMIT_REACHED"}

(* Mutant: an interrupted execution is taken for a completed one. *)
CodesWithoutSignal == <<"SITE_UNAVAILABLE", "AUTH_SESSION_LOST", "SERVICE_REQUEST_LIMIT_REACHED",
                        "MAX_RUNTIME_REACHED">>

StoppingCodes == <<"SITE_UNAVAILABLE", "AUTH_SESSION_LOST", "SERVICE_REQUEST_LIMIT_REACHED",
                   "MAX_RUNTIME_REACHED", "RUN_INTERRUPTED">>
OtherCodes == {"MAX_DEPTH_REACHED", "MAX_PAGES_REACHED", "SAFETY_VIOLATION_ABORT",
               "CHECKPOINT_WRITE_FAILED", "EXECUTION_INCOMPLETE", "PREFLIGHT_FAILED"}

\* AUDITED stands for AUDITED and FAILED; the detail of a reason tells the page
\* that made the execution stop from those it did not begin.
Entries == [url : Urls, depth : 0 .. MaxDepth + 1, state : {"QUEUED", "AUDITING", "AUDITED", "SKIPPED"},
            why : RequeueCodes \cup OtherCodes \cup {"NONE"}, detail : BOOLEAN]

Discovered(url, depth) ==
    IF depth > MaxDepth
    THEN [url |-> url, depth |-> depth, state |-> "SKIPPED", why |-> "MAX_DEPTH_REACHED", detail |-> FALSE]
    ELSE [url |-> url, depth |-> depth, state |-> "QUEUED", why |-> "NONE", detail |-> FALSE]

Skipped(entry, code) == [entry EXCEPT !.state = "SKIPPED", !.why = code]
SkipAll(entries, states, code) ==
    [i \in DOMAIN entries |-> IF entries[i].state \in states THEN Skipped(entries[i], code) ELSE entries[i]]

Queued(entries) == {i \in DOMAIN entries : entries[i].state = "QUEUED"}
nextQueued(entries) == CHOOSE i \in Queued(entries) : \A j \in Queued(entries) : i <= j

Unknown(entries) == Urls \ {entries[i].url : i \in DOMAIN entries}
Orders(S) == UNION {{s \in [1 .. n -> S] : \A i, j \in 1 .. n : s[i] = s[j] => i = j} : n \in 0 .. Cardinality(S)}
discover(entries, links, depth) == entries \o [i \in 1 .. Len(links) |-> Discovered(links[i], depth)]

-----------------------------------------------------------------------------
(* The checkpoint files. *)

\* What a state file holds of the crawl.
NoCrawl == [entries |-> <<>>, completed |-> <<>>, started |-> 0, meta |-> "NONE", violation |-> FALSE]

NoFile == [status |-> "NONE", end |-> "NONE", crawl |-> NoCrawl]
Statuses == {"IN_PROGRESS", "STOPPED", "FINISHED"}
Checkpoint(status, crawl, end) == [status |-> status, end |-> end, crawl |-> crawl]

NoPage == "NO_PAGE"
Broken == "BROKEN"
NoPages == [i \in Ids |-> NoPage]
EmptyDirectory == [state |-> NoFile, prev |-> NoFile, pages |-> NoPages]

InSeq(s) == {s[i] : i \in DOMAIN s}
Completed(c) == InSeq(c.crawl.completed)
Consistent(crawl) == \A i \in Ids :
    i \in InSeq(crawl.completed) <=> i \in DOMAIN crawl.entries /\ crawl.entries[i].state = "AUDITED"

stateUsable(c) == c.status # "NONE" /\ Consistent(c.crawl)
pagesUsable(c) == \A i \in Completed(c) : disk.pages[i] = c.crawl.entries[i].url

FirstOf(usable) ==
    IF disk.state \in usable THEN disk.state ELSE IF disk.prev \in usable THEN disk.prev ELSE NoFile
readCheckpointState == FirstOf({c \in {disk.state, disk.prev} : stateUsable(c)})
readCheckpoint == FirstOf({c \in {disk.state, disk.prev} : stateUsable(c) /\ pagesUsable(c)})

-----------------------------------------------------------------------------
(* What is decided about a saved state. *)

isLeftToAudit(entry) ==
    \/ entry.state \in {"QUEUED", "AUDITING"}
    \/ entry.state = "SKIPPED" /\ entry.why \in RequeueCodes
LeftToAudit(c) == {i \in DOMAIN c.crawl.entries : isLeftToAudit(c.crawl.entries[i])}

decideRunResumption(c) ==
    IF c.status = "FINISHED" THEN "NOT_RESUMABLE"
    ELSE IF c.crawl.violation THEN IF c.status = "IN_PROGRESS" THEN "FINALIZE_ONLY" ELSE "NOT_RESUMABLE"
    ELSE IF c.status = "IN_PROGRESS" \/ LeftToAudit(c) # {} THEN "RESUME" ELSE "NOT_RESUMABLE"

restoreEntry(entry) ==
    IF isLeftToAudit(entry) THEN [entry EXCEPT !.state = "QUEUED", !.why = "NONE", !.detail = FALSE] ELSE entry

(* Mutant: what was known of a violation is not restored. *)
RestoredInnocent(crawl) ==
    [crawl EXCEPT !.entries = [i \in DOMAIN @ |-> restoreEntry(@[i])], !.violation = FALSE]

restored(crawl) == [crawl EXCEPT !.entries = [i \in DOMAIN @ |-> restoreEntry(@[i])]]

(* Mutant: no page is known to have stopped an execution before. *)
NoTriggers(c) == {}

siteUnavailableTriggerUrlsOf(c) ==
    {c.crawl.entries[i].url : i \in {j \in DOMAIN c.crawl.entries :
        c.crawl.entries[j].why = "SITE_UNAVAILABLE" /\ c.crawl.entries[j].detail}}
stoppedAtSiteMetadataBefore(c) == c.crawl.meta = "NONE" /\ c.end = "SITE_UNAVAILABLE"

decideRunExecutionEndReason(crawl) ==
    LET codes == {crawl.entries[i].why : i \in DOMAIN crawl.entries}
        hits == {i \in DOMAIN StoppingCodes : StoppingCodes[i] \in codes}
    IN IF crawl.violation THEN "SAFETY_VIOLATION"
       ELSE IF hits = {} THEN "COMPLETED" ELSE StoppingCodes[CHOOSE i \in hits : \A j \in hits : i <= j]
-----------------------------------------------------------------------------
(* The process. *)

NoProcess == [pc |-> "NONE", crawl |-> NoCrawl, saved |-> NoFile, last |-> NoFile, page |-> 0, rechecks |-> 0,
              unavailable |-> FALSE, lost |-> FALSE, failed |-> FALSE, preflightFailed |-> FALSE, then |-> "NONE"]
Begun(saved, pc) ==
    [NoProcess EXCEPT !.pc = pc, !.crawl = restored(saved.crawl), !.saved = saved, !.last = saved]

Resumed == run.saved # NoFile
At(pc) == run.pc = pc
Smooth == UNCHANGED faults
Fault == faults < MaxFaults /\ faults' = faults + 1
Init ==
    /\ disk = EmptyDirectory
    /\ run = NoProcess
    /\ down \in SUBSET (Urls \cup {Metadata})
    /\ faults = 0

\* chooseRunToResume: the states first, then the chosen one with its pages.  A new
\* Run has a directory of its own; this module follows a Run until it is over.
Choose ==
    /\ At("NONE")
    /\ readCheckpointState = NoFile \/ decideRunResumption(readCheckpointState) # "NOT_RESUMABLE"
    /\ IF readCheckpoint = NoFile \/ decideRunResumption(readCheckpoint) = "NOT_RESUMABLE"
       THEN disk' = EmptyDirectory /\ run' = Begun(NoFile, "PREFLIGHT")
       ELSE run' = Begun(readCheckpoint, "CHECK") /\ UNCHANGED disk
    /\ Smooth /\ UNCHANGED down

\* The session has the lock: it reads the state again, then removes what it does not know.
Check ==
    /\ At("CHECK")
    /\ IF readCheckpointState = run.saved
       THEN /\ disk' = [disk EXCEPT !.pages = [i \in Ids |-> IF i \in Completed(run.saved) THEN @[i] ELSE NoPage]]
            /\ run' = [run EXCEPT !.pc = "PREFLIGHT"]
       ELSE run' = NoProcess /\ UNCHANGED disk
    /\ Smooth /\ UNCHANGED down

\* A violation may be in the ledgers of the preflight already.
PreflightPasses(bad) ==
    LET found == [run EXCEPT !.pc = "METADATA", !.crawl.violation = @ \/ bad] IN
    /\ At("PREFLIGHT")
    /\ run' = IF Resumed THEN found ELSE [found EXCEPT !.crawl.entries = <<Discovered(Start, 0)>>]
    /\ IF bad THEN Fault ELSE Smooth
    /\ UNCHANGED <<disk, down>>

PreflightFails(bad) ==
    /\ At("PREFLIGHT") /\ Fault
    /\ run' = [run EXCEPT !.pc = "OUTPUT", !.preflightFailed = TRUE, !.crawl.violation = @ \/ bad,
                          !.crawl.entries = SkipAll(@, {"QUEUED"}, "PREFLIGHT_FAILED")]
    /\ UNCHANGED <<disk, down>>

ToSave(after) == [run EXCEPT !.pc = "MOVE", !.then = after]

MetadataKnown ==
    /\ At("METADATA") /\ (run.crawl.meta # "NONE" \/ run.crawl.violation)
    /\ run' = [ToSave("NEXT") EXCEPT !.crawl.meta = IF @ = "NONE" THEN "ABORTED" ELSE @]
    /\ Smooth /\ UNCHANGED <<disk, down>>

FetchMetadata(unavailable, bad) ==
    LET kept == IF unavailable /\ ~bad /\ ~stoppedAtSiteMetadataBefore(run.saved) THEN "NONE" ELSE "KEPT" IN
    /\ At("METADATA") /\ run.crawl.meta = "NONE" /\ ~run.crawl.violation
    /\ Metadata \in down => unavailable
    /\ run' = [ToSave("NEXT") EXCEPT !.crawl.meta = kept, !.crawl.violation = bad,
                                     !.unavailable = unavailable /\ ~bad]
    /\ IF bad \/ (unavailable /\ Metadata \notin down) THEN Fault ELSE Smooth
    /\ UNCHANGED <<disk, down>>

-----------------------------------------------------------------------------
(* The loop over the pages. *)

Current == IF run.page # 0 THEN run.page ELSE nextQueued(run.crawl.entries)
More == run.page # 0 \/ Queued(run.crawl.entries) # {}

\* Why no page is begun any more, in the order of the checks.
StopReason ==
    CASE run.crawl.violation -> "SAFETY_VIOLATION_ABORT"
      [] ~run.crawl.violation /\ run.failed -> "CHECKPOINT_WRITE_FAILED"
      [] ~run.crawl.violation /\ ~run.failed /\ run.unavailable -> "SITE_UNAVAILABLE"
      [] ~run.crawl.violation /\ ~run.failed /\ ~run.unavailable /\ run.lost -> "AUTH_SESSION_LOST"
      [] OTHER -> IF run.crawl.started >= MaxPages THEN "MAX_PAGES_REACHED" ELSE "NONE"

StopWith(code) == run' = [run EXCEPT !.pc = "OUTPUT", !.page = 0,
                                     !.crawl.entries = SkipAll(@, {"QUEUED", "AUDITING"}, code)]

CrawlEnds ==
    /\ At("NEXT") /\ ~More
    /\ run' = [run EXCEPT !.pc = "OUTPUT"]
    /\ Smooth /\ UNCHANGED <<disk, down>>

\* The reason found first is that of every page left, and nothing is awaited in between.
StopCrawl ==
    /\ At("NEXT") /\ More /\ StopReason # "NONE"
    /\ StopWith(StopReason)
    /\ Smooth /\ UNCHANGED <<disk, down>>

\* The user, the clock and the request limit are looked at here only: what they
\* did before does not matter until now.  The request limit precedes the page limit.
StopFromOutside(code) ==
    /\ At("NEXT") /\ More
    /\ IF code = "SERVICE_REQUEST_LIMIT_REACHED"
       THEN StopReason \in {"NONE", "MAX_PAGES_REACHED"} ELSE StopReason = "NONE"
    /\ StopWith(code)
    /\ Fault /\ UNCHANGED <<disk, down>>

BeginPage ==
    /\ At("NEXT") /\ More /\ StopReason = "NONE"
    /\ run' = [run EXCEPT !.pc = "AUDIT", !.page = Current, !.crawl.started = @ + 1,
                          !.crawl.entries[Current].state = "AUDITING"]
    /\ Smooth /\ UNCHANGED <<disk, down>>

Page == run.crawl.entries[run.page]
Triggers == siteUnavailableTriggerUrlsOf(run.saved)

\* The page has a result: its links are discovered and it is saved, unless a save
\* failed before.  An unavailable page is kept for a violation, or if it stopped the
\* execution before: it must not stop the Run for ever.
KeepPage(links, unavailable, bad) ==
    /\ At("AUDIT")
    /\ Page.url \in down => unavailable
    /\ unavailable /\ ~bad => Page.url \in Triggers
    /\ run' = [run EXCEPT !.pc = "PAGE", !.page = 0, !.rechecks = 0,
                          !.unavailable = @ \/ (unavailable /\ ~bad),
                          !.crawl.violation = @ \/ bad, !.crawl.completed = Append(@, run.page),
                          !.crawl.entries =
                              discover([@ EXCEPT ![run.page].state = "AUDITED"], links, Page.depth + 1)]
    /\ IF bad \/ (unavailable /\ Page.url \notin down) THEN Fault ELSE Smooth
    /\ UNCHANGED <<disk, down>>

(* Mutant: a page that is thrown away goes on counting. *)
DropCounted(code) ==
    [run EXCEPT !.pc = "MOVE", !.crawl.entries[run.page] = [Skipped(@, code) EXCEPT !.detail = TRUE]]

\* The page is thrown away, to be audited later: it does not count as begun.
DropPage(code) ==
    [run EXCEPT !.pc = "MOVE", !.crawl.started = @ - 1,
                !.crawl.entries[run.page] = [Skipped(@, code) EXCEPT !.detail = TRUE]]

DropUnavailable ==
    /\ At("AUDIT") /\ Page.url \notin Triggers
    /\ run' = [DropPage("SITE_UNAVAILABLE") EXCEPT !.unavailable = TRUE, !.then = "WAIT"]
    /\ IF Page.url \in down THEN Smooth ELSE Fault
    /\ UNCHANGED <<disk, down>>

DropLoggedOut ==
    /\ At("AUDIT")
    /\ run' = [DropPage("AUTH_SESSION_LOST") EXCEPT !.lost = TRUE, !.then = "NEXT", !.page = 0]
    /\ Fault /\ UNCHANGED <<disk, down>>

\* An exception of the audit or of the metadata ends the crawl: what is left is not
\* resumed.  What the ledgers have of a violation stays.
CrawlThrows(bad) ==
    /\ At("METADATA") \/ At("AUDIT")
    /\ run' = [run EXCEPT !.pc = "OUTPUT", !.page = 0, !.crawl.violation = @ \/ bad,
                          !.crawl.entries = SkipAll(@, {"QUEUED", "AUDITING"}, "EXECUTION_INCOMPLETE")]
    /\ Fault /\ UNCHANGED <<disk, down>>

\* The exception comes after markFinished, while the links are taken from the result:
\* the page has ended but is not among the completed ones, and is not saved.
LinksThrow(links, bad) ==
    /\ At("AUDIT")
    /\ Page.url \in down => bad \/ Page.url \in Triggers
    /\ run' = [run EXCEPT !.pc = "OUTPUT", !.page = 0, !.crawl.violation = @ \/ bad,
                          !.crawl.entries =
                              SkipAll(discover([@ EXCEPT ![run.page].state = "AUDITED"], links, Page.depth + 1),
                                      {"QUEUED"}, "EXECUTION_INCOMPLETE")]
    /\ Fault /\ UNCHANGED <<disk, down>>

mayRecheck == run.rechecks < MaxRechecks /\ ~run.failed

(* Mutant: the page to check again keeps the reason it was skipped for. *)
RecheckSkipped ==
    /\ At("WAIT") /\ mayRecheck
    /\ run' = [run EXCEPT !.pc = "NEXT", !.rechecks = @ + 1, !.unavailable = FALSE,
                          !.crawl.entries[run.page].state = "AUDITING"]
    /\ Smooth /\ UNCHANGED <<disk, down>>

Recheck ==
    /\ At("WAIT") /\ mayRecheck
    /\ run' = [run EXCEPT !.pc = "NEXT", !.rechecks = @ + 1, !.unavailable = FALSE,
                          !.crawl.entries[run.page] = [@ EXCEPT !.state = "AUDITING", !.why = "NONE", !.detail = FALSE]]
    /\ Smooth /\ UNCHANGED <<disk, down>>

(* Mutant: the crawl goes on with the next page. *)
GiveUpThePage ==
    /\ At("WAIT")
    /\ run' = [run EXCEPT !.pc = "NEXT", !.page = 0, !.rechecks = 0, !.unavailable = FALSE]
    /\ IF mayRecheck THEN Fault ELSE Smooth
    /\ UNCHANGED <<disk, down>>

\* No attempt left, or the user or the clock ended the wait.
GiveUp ==
    /\ At("WAIT")
    /\ run' = [run EXCEPT !.pc = "NEXT", !.page = 0, !.rechecks = 0]
    /\ IF mayRecheck THEN Fault ELSE Smooth
    /\ UNCHANGED <<disk, down>>

-----------------------------------------------------------------------------
(* The saves. *)

LastPage == run.crawl.completed[Len(run.crawl.completed)]

SavePage ==
    /\ At("PAGE")
    /\ disk' = [disk EXCEPT !.pages[LastPage] = run.crawl.entries[LastPage].url]
    /\ run' = ToSave("NEXT")
    /\ Smooth /\ UNCHANGED down

(* Mutant: the state is saved although the page was not. *)
SavePageIgnored ==
    /\ At("PAGE")
    /\ run' = ToSave("NEXT")
    /\ Fault /\ UNCHANGED <<disk, down>>

SavePageFails ==
    /\ At("PAGE")
    /\ run' = [run EXCEPT !.pc = "NEXT", !.failed = TRUE]
    /\ Fault /\ UNCHANGED <<disk, down>>

\* decideRunCheckpointConclusion and the state it is about; NoFile: the state is left as it is.
Conclusion ==
    LET end == decideRunExecutionEndReason(run.crawl)
        status == IF end \in InSeq(StoppingCodes) THEN "STOPPED" ELSE "FINISHED"
        atEnd == Checkpoint(status, run.crawl, end)
        lastWritten == IF run.last = NoFile THEN NoFile ELSE Checkpoint(status, run.last.crawl, end)
    IN IF ~run.crawl.violation /\ (run.failed \/ (Resumed /\ run.preflightFailed)) THEN NoFile
       ELSE IF ~run.failed /\ Consistent(run.crawl) THEN atEnd ELSE lastWritten

Concluding == run.then \in {"CLEAN", "END"}
StateToWrite == IF Concluding THEN Conclusion ELSE Checkpoint("IN_PROGRESS", run.crawl, "NONE")
Failed == IF Concluding THEN NoProcess ELSE [run EXCEPT !.pc = run.then, !.failed = TRUE]

(* Mutant: the previous state is replaced even when there is no state to take its place. *)
MoveAnyState ==
    /\ At("MOVE")
    /\ disk' = [disk EXCEPT !.prev = disk.state, !.state = NoFile]
    /\ run' = [run EXCEPT !.pc = "PLACE"]
    /\ Smooth /\ UNCHANGED down

\* writeCheckpointState, once the temporary file is there: the state becomes the
\* previous one, if there is one, then the temporary file becomes the state.
MoveState ==
    /\ At("MOVE")
    /\ disk' = IF disk.state = NoFile THEN disk ELSE [disk EXCEPT !.prev = disk.state, !.state = NoFile]
    /\ run' = [run EXCEPT !.pc = "PLACE"]
    /\ Smooth /\ UNCHANGED down

PlaceState ==
    /\ At("PLACE")
    /\ disk' = [disk EXCEPT !.state = StateToWrite]
    /\ run' = IF Concluding /\ (run.then = "END" \/ StateToWrite.status # "FINISHED") THEN NoProcess
              ELSE IF Concluding THEN [NoProcess EXCEPT !.pc = run.then]
              ELSE [run EXCEPT !.pc = run.then, !.last = StateToWrite]
    /\ Smooth /\ UNCHANGED down

SaveStateFails ==
    /\ At("MOVE") \/ At("PLACE")
    /\ run' = Failed
    /\ Fault /\ UNCHANGED <<disk, down>>

-----------------------------------------------------------------------------
(* The end of an execution. *)

OutputsWritten ==
    /\ At("OUTPUT")
    /\ run' = IF Conclusion = NoFile THEN NoProcess ELSE ToSave("CLEAN")
    /\ Smooth /\ UNCHANGED <<disk, down>>

\* Without the outputs only a Run with a violation is concluded.
OutputsFail ==
    /\ At("OUTPUT")
    /\ run' = IF Conclusion = NoFile \/ ~run.crawl.violation THEN NoProcess ELSE ToSave("END")
    /\ Fault /\ UNCHANGED <<disk, down>>

\* removeFinishedCheckpointFiles: the pages, then the previous state; a failure leaves the rest.
RemovePages ==
    /\ At("CLEAN")
    /\ disk' = [disk EXCEPT !.pages = NoPages]
    /\ run' = [run EXCEPT !.pc = "CLEAN_PREV"]
    /\ Smooth /\ UNCHANGED down

RemovePrevious ==
    /\ At("CLEAN_PREV")
    /\ disk' = [disk EXCEPT !.prev = NoFile]
    /\ run' = NoProcess
    /\ Smooth /\ UNCHANGED down

Kill == ~At("NONE") /\ run' = NoProcess /\ Fault /\ UNCHANGED <<disk, down>>

\* The Run is over.
Over == At("NONE") /\ readCheckpointState.status = "FINISHED" /\ UNCHANGED vars

Work ==
    \/ Check
    \/ \E bad \in BOOLEAN : PreflightPasses(bad)
    \/ \E bad \in BOOLEAN : PreflightFails(bad) \/ CrawlThrows(bad)
    \/ MetadataKnown
    \/ \E unavailable, bad \in BOOLEAN : FetchMetadata(unavailable, bad)
    \/ CrawlEnds \/ StopCrawl \/ BeginPage
    \/ \E code \in {"MAX_RUNTIME_REACHED", "RUN_INTERRUPTED", "SERVICE_REQUEST_LIMIT_REACHED"} : StopFromOutside(code)
    \/ \E links \in Orders(Unknown(run.crawl.entries)), unavailable, bad \in BOOLEAN : KeepPage(links, unavailable, bad)
    \/ \E links \in Orders(Unknown(run.crawl.entries)), bad \in BOOLEAN : LinksThrow(links, bad)
    \/ DropUnavailable \/ DropLoggedOut \/ Recheck \/ GiveUp
    \/ SavePage \/ SavePageFails \/ MoveState \/ PlaceState \/ SaveStateFails
    \/ OutputsWritten \/ OutputsFail \/ RemovePages \/ RemovePrevious

Next == Choose \/ Work \/ Kill \/ Over
Spec == Init /\ [][Next]_vars

\* The process goes on, and the user starts the audit again until the Run is over.
FairSpec == Spec /\ WF_vars(Work) /\ WF_vars(Choose)

-----------------------------------------------------------------------------
(* A page file that can no longer be read: the readers are written for it. *)

Damage(i) ==
    /\ At("NONE") /\ disk.pages[i] \notin {NoPage, Broken}
    /\ disk' = [disk EXCEPT !.pages[i] = Broken]
    /\ Fault /\ UNCHANGED <<run, down>>

DamagedNext == Next \/ (\E i \in Ids : Damage(i))
DamagedSpec == Init /\ [][DamagedNext]_vars

-----------------------------------------------------------------------------
(* Properties. *)

Steps == {"NONE", "CHECK", "PREFLIGHT", "METADATA", "NEXT", "AUDIT", "WAIT", "PAGE", "MOVE", "PLACE",
          "OUTPUT", "CLEAN", "CLEAN_PREV"}
Ends == InSeq(StoppingCodes) \cup {"NONE", "COMPLETED", "SAFETY_VIOLATION"}

CrawlOK(crawl) ==
    /\ DOMAIN crawl.entries \subseteq Ids /\ InSeq(crawl.entries) \subseteq Entries
    /\ InSeq(crawl.completed) \subseteq DOMAIN crawl.entries
    /\ crawl.started \in 0 .. MaxPages
    /\ crawl.meta \in {"NONE", "KEPT", "ABORTED"} /\ crawl.violation \in BOOLEAN
CheckpointOK(c) == c.status \in Statuses \cup {"NONE"} /\ c.end \in Ends /\ CrawlOK(c.crawl)

\* The type invariant. An entry is skipped if, and only if, it has a reason, no URL
\* is known twice, and no page is saved in the middle of its audit.
CrawlTypeOK ==
    /\ CheckpointOK(disk.state) /\ CheckpointOK(disk.prev)
    /\ disk.pages \in [Ids -> Urls \cup {NoPage, Broken}]
    /\ run.pc \in Steps /\ run.then \in Steps \cup {"END"} /\ run.page \in 0 .. Len(run.crawl.entries)
    /\ run.rechecks \in 0 .. MaxRechecks /\ faults \in 0 .. MaxFaults /\ down \subseteq Urls \cup {Metadata}
    /\ {run.unavailable, run.lost, run.failed, run.preflightFailed} \subseteq BOOLEAN
    /\ CheckpointOK(run.saved) /\ CheckpointOK(run.last) /\ CrawlOK(run.crawl)
    /\ \A crawl \in {disk.state.crawl, disk.prev.crawl, run.crawl}, i, j \in Ids :
         i \in DOMAIN crawl.entries =>
             /\ crawl.entries[i].state = "SKIPPED" <=> crawl.entries[i].why # "NONE"
             /\ crawl.entries[i].state = "AUDITING" => crawl = run.crawl
             /\ j \in DOMAIN crawl.entries /\ crawl.entries[i].url = crawl.entries[j].url => i = j

\* Every state file a resumption could fall back to finds the page files of its
\* completed pages, each of the page it means, whatever was killed, failed, was
\* cleaned up or was discovered again in another order (writeCheckpointPage before
\* writeCheckpointState, cleanUpForResume).
SavedPagesMatch ==
    disk.state.status # "FINISHED" =>
        \A c \in {disk.state, disk.prev} : stateUsable(c) => pagesUsable(c)

\* Over all executions the pages are audited breadth first, in the order of their
\* discovery: nothing that is left to audit was discovered before an audited page
\* (CrawlFrontier.restore, requeueForRecheck and the kept page of a former stop).
BreadthFirst ==
    LET c == readCheckpointState IN
    /\ \A i, j \in DOMAIN c.crawl.entries : i < j => c.crawl.entries[i].depth <= c.crawl.entries[j].depth
    /\ \A i, j \in DOMAIN c.crawl.completed : i < j => c.crawl.completed[i] < c.crawl.completed[j]
    /\ \A i \in Completed(c), j \in LeftToAudit(c) : i < j

\* How an execution concludes and what a resumption would do agree: a state that is
\* stopped has something left that a resumption would audit; one that is finished
\* without a violation has nothing left, neither in the memory of the process, which
\* the outputs show, nor in the file, unless an exception took a page between its end
\* and its save (decideRunCheckpointConclusion, decideRunResumption, and the last
\* written content of checkpointConclusionOf).
StoppedIfPagesAreLeft ==
    [][LET c == readCheckpointState' IN
       c # readCheckpointState =>
         /\ c.status = "STOPPED" => LeftToAudit(c) # {}
         /\ c.status = "FINISHED" /\ c.end # "SAFETY_VIOLATION" =>
              /\ \A i \in DOMAIN run.crawl.entries : ~isLeftToAudit(run.crawl.entries[i])
              /\ Consistent(run.crawl) => LeftToAudit(c) = {}]_vars

\* The limit of pages counts the pages the Run keeps, over all its executions: no
\* more are audited, and a page is given up for the limit only when so many are
\* kept (pagesStarted is saved, and taken back for a page that is thrown away).
LimitCountsKeptPages ==
    LET c == readCheckpointState IN
    /\ Len(c.crawl.completed) <= MaxPages
    /\ (\E i \in DOMAIN c.crawl.entries : c.crawl.entries[i].why = "MAX_PAGES_REACHED")
         => Len(c.crawl.completed) = MaxPages

\* A violation that was saved is never forgotten by a later save, and no page of the
\* Run is begun while the process, the state it began from or the saved state knows of
\* one, in whatever execution it was found (#safetyViolationRecorded, FINALIZE_ONLY).
NoPageAfterViolation ==
    [][/\ readCheckpointState.crawl.violation => readCheckpointState'.crawl.violation
       /\ run.pc # "AUDIT" /\ run'.pc = "AUDIT" =>
            ~\E crawl \in {run.crawl, run.saved.crawl, readCheckpointState.crawl} : crawl.violation]_vars

\* To its reader the saved state is the simple record of RunProgress: pages are only
\* added, one by one and never again, and a Run that is over stays so.
Saved == readCheckpointState
Record == INSTANCE RunProgress WITH
    Pages <- Urls,
    done <- [i \in DOMAIN Saved.crawl.completed |-> Saved.crawl.entries[Saved.crawl.completed[i]].url],
    status <- Saved.status
ImplementsRunProgress == Record!Spec

\* If the user starts the audit again whenever it has ended, the Run is over at last,
\* even when pages of the site, or its robots.txt, never answer: a page stops the
\* executions only once (siteUnavailableTriggerUrlsOf, stoppedAtSiteMetadataBefore).
RunEnds == <>(Saved.status = "FINISHED")

\* A start that has chosen a Run is not refused as if another process had it: nobody
\* has written anything since it chose (#stateUnchanged).
RefusedOnlyIfChanged == [][run.pc = "CHECK" /\ faults' = faults => run'.pc # "NONE"]_vars
=============================================================================
