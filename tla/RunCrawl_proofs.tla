-------------------------- MODULE RunCrawl_proofs ---------------------------
(***************************************************************************)
(* Proofs about RunCrawl, for any site, any limits and any number of       *)
(* faults: the state files and the page files of a Run fit together at any *)
(* moment a process can be killed, the saved state is what RunProgress     *)
(* promises, the Run is breadth first, its end agrees with what is left to *)
(* audit, and it keeps to its limit of pages and to what it knows of a     *)
(* violation.                                                              *)
(*                                                                         *)
(* SteadyInv says what is true of every crawl, in memory or saved (Good),  *)
(* of every state file (FileOK), how the files, the state the process last *)
(* saw and its memory follow one another (FilesOK, MemoryOK), and what     *)
(* each step of the process knows (PhaseOK).  An exception between the end *)
(* of a page and its save breaks it off: the memory is no longer a good    *)
(* crawl, and what is concluded is what was saved last (BrokenOff).        *)
(* CrawlInv is one or the other.                                           *)
(***************************************************************************)
EXTENDS RunCrawl, TLAPS, FiniteSetTheorems, NaturalsInduction, SequenceTheorems

CrawlRecord == [entries : Seq(Entries), completed : Seq(Nat), started : 0 .. MaxPages,
                meta : {"NONE", "KEPT", "ABORTED"}, violation : BOOLEAN]

FileRecord == [status : Statuses \cup {"NONE"}, end : Ends, crawl : CrawlRecord]

RunRecord == [pc : Steps, crawl : CrawlRecord, saved : FileRecord, last : FileRecord, page : Nat,
              rechecks : 0 .. MaxRechecks, unavailable : BOOLEAN, lost : BOOLEAN, failed : BOOLEAN,
              preflightFailed : BOOLEAN, then : {"NONE", "NEXT", "WAIT", "CLEAN", "END"}]

DiskRecord == [state : FileRecord, prev : FileRecord, pages : [Ids -> Urls \cup {NoPage, Broken}]]

-----------------------------------------------------------------------------
(* The inductive invariant *)

Types ==
    /\ disk \in DiskRecord
    /\ run \in RunRecord
    /\ down \subseteq Urls \cup {Metadata}
    /\ faults \in 0 .. MaxFaults

(* The entries of a crawl by their state *)
Left(crawl) == {i \in DOMAIN crawl.entries : isLeftToAudit(crawl.entries[i])}
InState(crawl, state) == {i \in DOMAIN crawl.entries : crawl.entries[i].state = state}
PutOff(crawl) == {i \in DOMAIN crawl.entries : crawl.entries[i].why \in RequeueCodes}

(* A page is known once; it has a reason when it is skipped, and only then; *)
(* and the pages that have a result are the audited ones, in order.         *)
EntriesOK(crawl) ==
    /\ \A i, j \in DOMAIN crawl.entries : crawl.entries[i].url = crawl.entries[j].url => i = j
    /\ \A i \in DOMAIN crawl.entries : crawl.entries[i].state = "SKIPPED" <=> crawl.entries[i].why # "NONE"
    /\ \A k \in DOMAIN crawl.completed : crawl.completed[k] \in InState(crawl, "AUDITED")
    /\ \A i \in InState(crawl, "AUDITED") : \E k \in DOMAIN crawl.completed : crawl.completed[k] = i

(* Breadth first: depths grow with the order of discovery, no page is more  *)
(* than one link deeper than any that is left, and what is left comes after *)
(* everything that was audited.                                             *)
OrderOK(crawl) ==
    /\ \A i, j \in DOMAIN crawl.entries : i < j => crawl.entries[i].depth <= crawl.entries[j].depth
    /\ \A i \in DOMAIN crawl.entries, j \in Left(crawl) : crawl.entries[i].depth <= crawl.entries[j].depth + 1
    /\ \A j \in Left(crawl) : crawl.entries[j].depth <= MaxDepth
    /\ \A k, l \in DOMAIN crawl.completed : k < l => crawl.completed[k] < crawl.completed[l]
    /\ \A k \in DOMAIN crawl.completed, j \in Left(crawl) : crawl.completed[k] < j

(* Pages are given up for the limit only when as many are kept.             *)
LimitOK(crawl) ==
    /\ Len(crawl.completed) <= MaxPages
    /\ \A i \in DOMAIN crawl.entries :
          crawl.entries[i].why = "MAX_PAGES_REACHED" => Len(crawl.completed) = MaxPages

Good(crawl) == EntriesOK(crawl) /\ OrderOK(crawl) /\ LimitOK(crawl)

(* A state file: no page is in the middle of its audit, the pages begun are *)
(* the pages kept unless the Run is over, and a Run that is stopped has     *)
(* something left.                                                          *)
FileOK(c) ==
    /\ Good(c.crawl)
    /\ InState(c.crawl, "AUDITING") = {}
    /\ c.status = "NONE" => c = NoFile
    /\ c.status # "FINISHED" => c.crawl.started = Len(c.crawl.completed)
    /\ c.status = "STOPPED" => Left(c.crawl) # {}

(* What d has kept of c: the pages that had a result, under the same places.*)
Follows(c, d) ==
    /\ Len(c.completed) <= Len(d.completed)
    /\ \A k \in DOMAIN c.completed :
          /\ d.completed[k] = c.completed[k]
          /\ d.entries[c.completed[k]].url = c.entries[c.completed[k]].url

PagesMatch(crawl) ==
    \A k \in DOMAIN crawl.completed : disk.pages[crawl.completed[k]] = crawl.entries[crawl.completed[k]].url

(* The saved state, as its reader finds it *)
Newest == IF disk.state # NoFile THEN disk.state ELSE disk.prev

(* The two state files: the newer follows the older, and both find their    *)
(* pages until the Run is over.                                             *)
FilesOK ==
    /\ FileOK(disk.state) /\ FileOK(disk.prev)
    /\ disk.prev.status # "FINISHED"
    /\ disk.state # NoFile => Follows(disk.prev.crawl, disk.state.crawl)
    /\ disk.state.status # "FINISHED" => PagesMatch(disk.state.crawl) /\ PagesMatch(disk.prev.crawl)
    /\ disk.state.status = "FINISHED" => run.pc \in {"NONE", "CLEAN", "CLEAN_PREV"}
    /\ run.pc \in {"CLEAN", "CLEAN_PREV"} => disk.state.status = "FINISHED"

InRun == run.pc \notin {"NONE", "CLEAN", "CLEAN_PREV"}

(* The memory of a process: it knows the newest state, follows it, and has  *)
(* lost nothing of a violation; the page files of its pages are there.      *)
MemoryOK ==
    /\ Good(run.crawl) /\ FileOK(run.saved) /\ FileOK(run.last)
    /\ InRun =>
          /\ run.last = Newest
          /\ Follows(run.last.crawl, run.crawl)
          /\ run.last.crawl.violation \/ run.saved.crawl.violation => run.crawl.violation
          /\ ~run.failed => \A k \in DOMAIN run.crawl.completed :
                \/ disk.pages[run.crawl.completed[k]] = run.crawl.entries[run.crawl.completed[k]].url
                \/ run.pc = "PAGE" /\ k = Len(run.crawl.completed)

(* How far the memory is ahead of the newest state                          *)
IsSaved == Len(run.crawl.completed) = Len(run.last.crawl.completed)
IsOneAhead == Len(run.crawl.completed) = Len(run.last.crawl.completed) + 1 /\ run.last.status = "IN_PROGRESS"
IsUnderWay == run.last.status = "IN_PROGRESS"

Counted == run.crawl.started = Len(run.crawl.completed)
NoneInAudit == InState(run.crawl, "AUDITING") = {}
Undisturbed == ~run.failed /\ ~run.unavailable /\ ~run.lost

(* The page the loop is at is the first that is left.                       *)
AtPage == run.page \in Left(run.crawl) /\ (\A j \in Left(run.crawl) : run.page <= j)

BeforeTheLoop ==
    /\ run.pc \in {"CHECK", "PREFLIGHT", "METADATA"} =>
          /\ Undisturbed /\ run.page = 0 /\ Counted /\ IsSaved /\ NoneInAudit /\ PutOff(run.crawl) = {}
          /\ run.pc # "METADATA" => run.crawl.violation = run.saved.crawl.violation
          /\ run.saved = run.last
          /\ ~run.preflightFailed
    /\ run.pc = "PREFLIGHT" /\ run.saved = NoFile => run.crawl = NoCrawl
    /\ run.pc = "CHECK" => run.saved # NoFile

InTheLoop ==
    /\ run.pc = "NEXT" =>
          /\ Counted
          /\ ~run.failed => IsUnderWay /\ IsSaved
          /\ Undisturbed => PutOff(run.crawl) = {}
          /\ run.page = 0 => NoneInAudit
          /\ run.page # 0 => InState(run.crawl, "AUDITING") = {run.page} /\ AtPage
    /\ run.pc = "AUDIT" =>
          /\ Undisturbed /\ ~run.crawl.violation
          /\ run.crawl.started = Len(run.crawl.completed) + 1
          /\ IsUnderWay /\ IsSaved /\ PutOff(run.crawl) = {}
          /\ run.page # 0 /\ AtPage /\ InState(run.crawl, "AUDITING") = {run.page}
    /\ run.pc = "WAIT" =>
          /\ Counted /\ NoneInAudit /\ run.unavailable /\ ~run.lost /\ ~run.crawl.violation
          /\ ~run.failed => IsUnderWay /\ IsSaved
          /\ run.page # 0 /\ AtPage /\ PutOff(run.crawl) = {run.page}

(* A save in the loop: one page at most is new, and only under way.         *)
InASave ==
    /\ run.pc = "PAGE" =>
          /\ ~run.failed /\ ~run.lost /\ run.page = 0 /\ Counted /\ NoneInAudit /\ PutOff(run.crawl) = {}
          /\ IsOneAhead
    /\ run.pc \in {"MOVE", "PLACE"} /\ run.then \in {"NEXT", "WAIT"} =>
          /\ ~run.failed /\ Counted /\ NoneInAudit
          /\ IsSaved \/ IsOneAhead
          /\ Undisturbed => PutOff(run.crawl) = {}
    /\ run.pc \in {"MOVE", "PLACE"} /\ run.then = "NEXT" => run.page = 0
    /\ run.pc \in {"MOVE", "PLACE"} /\ run.then = "WAIT" =>
          /\ run.unavailable /\ ~run.lost /\ ~run.crawl.violation
          /\ run.page # 0 /\ AtPage /\ PutOff(run.crawl) = {run.page}
    /\ run.pc = "PLACE" => disk.state = NoFile
    /\ run.pc \in {"MOVE", "PLACE"} => run.then \in {"NEXT", "WAIT", "CLEAN", "END"}

(* At the end nothing is queued, and what is put off was counted rightly.   *)
AtTheEnd ==
    run.pc = "OUTPUT" \/ (run.pc \in {"MOVE", "PLACE"} /\ run.then \in {"CLEAN", "END"}) =>
        /\ NoneInAudit /\ InState(run.crawl, "QUEUED") = {} /\ run.page = 0
        /\ PutOff(run.crawl) # {} => Counted
        /\ ~run.failed => IsSaved /\ (PutOff(run.crawl) # {} /\ ~(run.preflightFailed /\ run.saved # NoFile) => IsUnderWay)
        /\ run.pc # "OUTPUT" => Conclusion # NoFile

PhaseOK == BeforeTheLoop /\ InTheLoop /\ InASave /\ AtTheEnd /\ (~InRun => run.page = 0)

(* What holds unless an exception took a page between its end and its save  *)
SteadyInv == Types /\ FilesOK /\ MemoryOK /\ PhaseOK

(* What an exception in the middle of it leaves of a crawl: a page is       *)
(* audited and not completed.  Nothing is left to audit, no more pages are  *)
(* taken into the memory, and what was saved last is what there is to       *)
(* conclude with.                                                           *)
BrokenOff ==
    /\ run.pc \in {"OUTPUT", "MOVE", "PLACE"} /\ run.page = 0
    /\ run.pc # "OUTPUT" => run.then \in {"CLEAN", "END"} /\ Conclusion # NoFile
    /\ run.pc = "PLACE" => disk.state = NoFile
    /\ ~Consistent(run.crawl) /\ ~run.failed
    /\ InState(run.crawl, "AUDITING") = {} /\ InState(run.crawl, "QUEUED") = {} /\ PutOff(run.crawl) = {}
    /\ \A i, j \in DOMAIN run.crawl.entries : run.crawl.entries[i].url = run.crawl.entries[j].url => i = j
    /\ \A i \in DOMAIN run.crawl.entries :
          run.crawl.entries[i].state = "SKIPPED" <=> run.crawl.entries[i].why # "NONE"
    /\ \A k \in DOMAIN run.crawl.completed : run.crawl.completed[k] \in InState(run.crawl, "AUDITED")
    /\ FileOK(run.saved) /\ FileOK(run.last)
    /\ run.last = Newest /\ IsUnderWay

CrawlInv == SteadyInv \/ (Types /\ FilesOK /\ BrokenOff)

-----------------------------------------------------------------------------
(* Sets, sequences and entries *)

(* A set of numbers that is not empty has a least one: the interval up to   *)
(* it is the least of the intervals by inclusion.                           *)
LEMMA LeastExists ==
    ASSUME NEW S \in SUBSET Nat, S # {}
    PROVE  \E m \in S : \A n \in S : m <= n
<1> DEFINE Upto == {1 .. n : n \in S}
<1>1. Upto \subseteq FiniteSubsetsOf(Nat) /\ Upto # {}
    <2>1. ASSUME NEW n \in S PROVE 1 .. n \in FiniteSubsetsOf(Nat)
        <3>1. IsFiniteSet(1 .. n)
            BY FS_Interval
        <3> QED BY <3>1 DEF FiniteSubsetsOf
    <2> QED BY <2>1
<1>2. PICK x \in Upto : \A y \in Upto : ~(<<y, x>> \in StrictSubsetOrdering(Nat))
    <2> HIDE DEF Upto
    <2> QED BY <1>1, FS_StrictSubsetOrderingWellFounded, WFMin
<1>3. PICK m \in S : x = 1 .. m
    OBVIOUS
<1>4. ASSUME NEW n \in S, ~(m <= n) PROVE FALSE
    <2>1. 1 .. n \in Upto /\ 1 .. n \subseteq 1 .. m /\ m \in 1 .. m /\ m \notin 1 .. n /\ 1 .. m \subseteq Nat
        BY <1>4
    <2> QED BY <1>2, <1>3, <2>1 DEF StrictSubsetOrdering
<1> QED BY <1>4

(* What is made of a sequence entry by entry is a sequence of the same      *)
(* length.                                                                  *)
LEMMA MappedSeq ==
    ASSUME NEW S, NEW T, NEW s \in Seq(S), NEW f \in [DOMAIN s -> T]
    PROVE  f \in Seq(T) /\ Len(f) = Len(s) /\ DOMAIN f = DOMAIN s
<1>1. Len(s) \in Nat /\ DOMAIN s = 1 .. Len(s)
    BY LenProperties
<1>2. f \in [1 .. Len(s) -> T]
    BY <1>1
<1>3. f \in Seq(T)
    BY <1>1, <1>2, SeqDef
<1>4. DOMAIN f = 1 .. Len(f) /\ Len(f) \in Nat
    BY <1>3, LenProperties
<1> QED BY <1>1, <1>2, <1>3, <1>4

(* No more pages than URLs: IDs do not run out.                             *)
LEMMA EntriesHaveIds ==
    ASSUME NEW entries \in Seq(Entries),
           \A i, j \in DOMAIN entries : entries[i].url = entries[j].url => i = j
    PROVE  DOMAIN entries \subseteq Ids
<1> DEFINE urlOf == [i \in DOMAIN entries |-> entries[i].url]
<1>1. DOMAIN entries = 1 .. Len(entries) /\ Len(entries) \in Nat /\ \A i \in DOMAIN entries : entries[i] \in Entries
    BY LenProperties, ElementOfSeq
<1>2. urlOf \in Injection(DOMAIN entries, Urls)
    BY <1>1 DEF Injection, IsInjective, Entries
<1>3. Cardinality(DOMAIN entries) <= Cardinality(Urls)
    <2> HIDE DEF urlOf
    <2> QED BY <1>2, FS_Injection, CrawlAssumption
<1>4. Cardinality(DOMAIN entries) = Len(entries)
    <2>1. PICK n \in Nat : n = Len(entries)
        BY <1>1
    <2>2. Cardinality(1 .. n) = IF 1 > n THEN 0 ELSE n - 1 + 1
        BY FS_Interval
    <2> QED BY <1>1, <2>1, <2>2
<1>5. Cardinality(Urls) \in Nat
    BY CrawlAssumption, FS_CardinalityType
<1> QED BY <1>1, <1>3, <1>4, <1>5 DEF Ids

(* The fields of an entry that is skipped, restored or begun                *)
LEMMA EntryChanges ==
    ASSUME NEW e \in Entries, NEW code \in RequeueCodes \cup OtherCodes
    PROVE  /\ Skipped(e, code) \in Entries
           /\ Skipped(e, code).url = e.url /\ Skipped(e, code).depth = e.depth
           /\ Skipped(e, code).state = "SKIPPED" /\ Skipped(e, code).why = code
           /\ restoreEntry(e) \in Entries
           /\ restoreEntry(e).url = e.url /\ restoreEntry(e).depth = e.depth
           /\ isLeftToAudit(e) => restoreEntry(e).state = "QUEUED" /\ restoreEntry(e).why = "NONE"
           /\ ~isLeftToAudit(e) => restoreEntry(e) = e
<1> PICK no \in BOOLEAN : no = FALSE
    OBVIOUS
<1>1. restoreEntry(e) = (IF isLeftToAudit(e) THEN [e EXCEPT !.state = "QUEUED", !.why = "NONE", !.detail = no] ELSE e)
    BY Zenon DEF restoreEntry
<1>2. Skipped(e, code) \in Entries
      /\ Skipped(e, code).url = e.url /\ Skipped(e, code).depth = e.depth
      /\ Skipped(e, code).state = "SKIPPED" /\ Skipped(e, code).why = code
    BY DEF Skipped, Entries
<1> QED BY <1>1, <1>2 DEF Entries

(* What a step makes of a crawl that begins, ends or puts off pages without *)
(* a result: the pages are where they were, and no more of them are left.   *)
Remarked(c, d) ==
    /\ d.completed = c.completed
    /\ DOMAIN d.entries = DOMAIN c.entries
    /\ \A i \in DOMAIN c.entries :
          /\ d.entries[i].url = c.entries[i].url /\ d.entries[i].depth = c.entries[i].depth
          /\ d.entries[i].state = "AUDITED" <=> c.entries[i].state = "AUDITED"
          /\ d.entries[i].state = "SKIPPED" <=> d.entries[i].why # "NONE"
          /\ isLeftToAudit(d.entries[i]) => isLeftToAudit(c.entries[i])
          /\ d.entries[i].why = "MAX_PAGES_REACHED" =>
                c.entries[i].why = "MAX_PAGES_REACHED" \/ Len(c.completed) = MaxPages

(* Such a crawl is as good as before, and follows what it followed.         *)
LEMMA RemarkedIsGood ==
    ASSUME NEW c \in CrawlRecord, NEW d \in CrawlRecord, Good(c), Remarked(c, d)
    PROVE  /\ Good(d)
           /\ \A f \in CrawlRecord : Good(f) /\ Follows(f, c) => Follows(f, d)
           /\ \A k \in DOMAIN d.completed : d.entries[d.completed[k]].url = c.entries[c.completed[k]].url
<1>1. Left(d) \subseteq Left(c)
    BY DEF Left, Remarked
<1>2. InState(d, "AUDITED") = InState(c, "AUDITED")
    BY DEF InState, Remarked
<1>3. EntriesOK(d)
    BY <1>2 DEF EntriesOK, Remarked, Good
<1>4. OrderOK(d)
    BY <1>1 DEF OrderOK, Remarked, Good, Left
<1>5. LimitOK(d)
    BY DEF LimitOK, Remarked, Good
<1>6. \A k \in DOMAIN c.completed : c.completed[k] \in DOMAIN c.entries
    BY DEF Good, EntriesOK, InState
<1>7. ASSUME NEW f \in CrawlRecord, Good(f), Follows(f, c) PROVE Follows(f, d)
    <2>1. \A k \in DOMAIN f.completed : k \in DOMAIN c.completed
        <3>1. DOMAIN f.completed = 1 .. Len(f.completed) /\ DOMAIN c.completed = 1 .. Len(c.completed)
              /\ Len(f.completed) \in Nat /\ Len(c.completed) \in Nat
            BY LenProperties DEF CrawlRecord
        <3> QED BY <1>7, <3>1 DEF Follows
    <2> QED BY <1>6, <1>7, <2>1 DEF Follows, Remarked
<1> QED BY <1>3, <1>4, <1>5, <1>6, <1>7 DEF Good, Remarked

(* Skipping entries by their state, one by one                              *)
LEMMA SkipAllSkips ==
    ASSUME NEW entries \in Seq(Entries), NEW states, NEW code \in RequeueCodes \cup OtherCodes
    PROVE  /\ SkipAll(entries, states, code) \in Seq(Entries)
           /\ DOMAIN SkipAll(entries, states, code) = DOMAIN entries
           /\ \A i \in DOMAIN entries :
                SkipAll(entries, states, code)[i] =
                    IF entries[i].state \in states THEN Skipped(entries[i], code) ELSE entries[i]
<1>1. \A i \in DOMAIN entries : entries[i] \in Entries
    BY LenProperties, ElementOfSeq
<1>2. \A i \in DOMAIN entries : Skipped(entries[i], code) \in Entries
    BY <1>1, EntryChanges
<1>3. SkipAll(entries, states, code) \in [DOMAIN entries -> Entries]
    BY <1>1, <1>2 DEF SkipAll
<1>4. \A i \in DOMAIN entries :
          SkipAll(entries, states, code)[i] = IF entries[i].state \in states THEN Skipped(entries[i], code) ELSE entries[i]
    BY DEF SkipAll
<1> HIDE DEF SkipAll
<1> QED BY <1>3, <1>4, MappedSeq

(* Restoring them                                                           *)
LEMMA RestoredEntries ==
    ASSUME NEW crawl \in CrawlRecord
    PROVE  /\ restored(crawl) \in CrawlRecord
           /\ DOMAIN restored(crawl).entries = DOMAIN crawl.entries
           /\ \A i \in DOMAIN crawl.entries : restored(crawl).entries[i] = restoreEntry(crawl.entries[i])
           /\ restored(crawl).completed = crawl.completed /\ restored(crawl).started = crawl.started
           /\ restored(crawl).meta = crawl.meta /\ restored(crawl).violation = crawl.violation
<1> DEFINE es == [i \in DOMAIN crawl.entries |-> restoreEntry(crawl.entries[i])]
<1>1. crawl.entries \in Seq(Entries) /\ \A i \in DOMAIN crawl.entries : crawl.entries[i] \in Entries
    BY LenProperties, ElementOfSeq DEF CrawlRecord
<1>2. \A i \in DOMAIN crawl.entries : restoreEntry(crawl.entries[i]) \in Entries
    BY <1>1, EntryChanges, Zenon DEF OtherCodes
<1>3. es \in [DOMAIN crawl.entries -> Entries] /\ \A i \in DOMAIN crawl.entries : es[i] = restoreEntry(crawl.entries[i])
    BY <1>2
<1>4. restored(crawl) = [crawl EXCEPT !.entries = es]
    BY DEF restored
<1> HIDE DEF es
<1>5. es \in Seq(Entries) /\ DOMAIN es = DOMAIN crawl.entries
    BY <1>1, <1>3, MappedSeq
<1> QED BY <1>3, <1>4, <1>5 DEF CrawlRecord

-----------------------------------------------------------------------------
(* The steps of the process that leave the files alone *)

(* A process that goes on with the crawl, without a new result              *)
GoesOn ==
    /\ UNCHANGED <<disk, down>> /\ faults' \in 0 .. MaxFaults
    /\ run' \in RunRecord
    /\ InRun /\ run'.pc \notin {"NONE", "CLEAN", "CLEAN_PREV"}
    /\ run'.saved = run.saved /\ run'.last = run.last
    /\ Remarked(run.crawl, run'.crawl)
    /\ run.crawl.violation => run'.crawl.violation
    /\ run.failed => run'.failed
    /\ run.pc = "PAGE" => run'.failed

(* Fault and Smooth keep the count within its bound.                        *)
LEMMA FaultsAreCounted == ASSUME Types, Fault \/ Smooth PROVE faults' \in 0 .. MaxFaults
BY CrawlAssumption DEF Types, Fault, Smooth

(* It keeps what is known of the files and of the memory.                   *)
LEMMA GoingOnKeepsFiles ==
    ASSUME SteadyInv, GoesOn
    PROVE  Types' /\ FilesOK' /\ MemoryOK'
<1>1. Types'
    BY DEF GoesOn, SteadyInv, Types
<1>2. FilesOK'
    BY DEF GoesOn, SteadyInv, FilesOK, InRun, PagesMatch
<1>3. run.crawl \in CrawlRecord /\ run'.crawl \in CrawlRecord /\ Good(run.crawl) /\ Remarked(run.crawl, run'.crawl)
      /\ run.last.crawl \in CrawlRecord /\ Good(run.last.crawl) /\ Follows(run.last.crawl, run.crawl)
    BY DEF GoesOn, SteadyInv, Types, MemoryOK, RunRecord, FileRecord, FileOK
<1>4. /\ Good(run'.crawl) /\ Follows(run.last.crawl, run'.crawl)
      /\ \A k \in DOMAIN run'.crawl.completed :
            run'.crawl.entries[run'.crawl.completed[k]].url = run.crawl.entries[run.crawl.completed[k]].url
    BY <1>3, RemarkedIsGood
<1>5. MemoryOK'
    BY <1>4 DEF GoesOn, SteadyInv, MemoryOK, InRun, Newest, Remarked
<1> QED BY <1>1, <1>2, <1>5

(* What there is before the first save                                      *)
LEMMA EmptyRecords ==
    /\ NoCrawl \in CrawlRecord /\ NoFile \in FileRecord /\ NoProcess \in RunRecord
    /\ NoCrawl.entries = <<>> /\ NoCrawl.completed = <<>> /\ NoCrawl.started = 0 /\ NoCrawl.meta = "NONE"
    /\ NoCrawl.violation = FALSE
    /\ NoFile.status = "NONE" /\ NoFile.end = "NONE" /\ NoFile.crawl = NoCrawl
    /\ NoProcess.pc = "NONE" /\ NoProcess.crawl = NoCrawl /\ NoProcess.saved = NoFile /\ NoProcess.last = NoFile
    /\ NoProcess.page = 0 /\ NoProcess.then = "NONE" /\ NoProcess.unavailable = FALSE /\ NoProcess.lost = FALSE
    /\ NoProcess.failed = FALSE /\ NoProcess.preflightFailed = FALSE
<1> PICK no \in BOOLEAN : no = FALSE
    OBVIOUS
<1>1. NoCrawl = [entries |-> <<>>, completed |-> <<>>, started |-> 0, meta |-> "NONE", violation |-> no]
    BY Zenon DEF NoCrawl
<1>2. NoCrawl \in CrawlRecord
    BY <1>1, CrawlAssumption, EmptySeq DEF CrawlRecord
<1>3. NoFile \in FileRecord
    BY <1>2 DEF NoFile, FileRecord, Ends
<1>4. NoProcess = [pc |-> "NONE", crawl |-> NoCrawl, saved |-> NoFile, last |-> NoFile, page |-> 0, rechecks |-> 0,
                   unavailable |-> no, lost |-> no, failed |-> no, preflightFailed |-> no, then |-> "NONE"]
    BY Zenon DEF NoProcess
<1>5. NoProcess \in RunRecord
    BY <1>2, <1>3, <1>4, CrawlAssumption DEF RunRecord, Steps
<1>6. NoProcess.unavailable = no /\ NoProcess.lost = no /\ NoProcess.failed = no /\ NoProcess.preflightFailed = no
      /\ NoCrawl.violation = no
    BY <1>1, <1>4
<1>7. /\ NoCrawl.entries = <<>> /\ NoCrawl.completed = <<>> /\ NoCrawl.started = 0 /\ NoCrawl.meta = "NONE"
      /\ NoProcess.pc = "NONE" /\ NoProcess.crawl = NoCrawl /\ NoProcess.saved = NoFile /\ NoProcess.last = NoFile
      /\ NoProcess.page = 0 /\ NoProcess.then = "NONE"
    BY <1>1, <1>4
<1>8. NoFile.status = "NONE" /\ NoFile.end = "NONE" /\ NoFile.crawl = NoCrawl
    BY DEF NoFile
<1> QED BY <1>2, <1>3, <1>5, <1>6, <1>7, <1>8

(* An empty crawl is as good as any, and every crawl follows it.            *)
LEMMA EmptyIsGood ==
    /\ Good(NoCrawl) /\ FileOK(NoFile)
    /\ Left(NoCrawl) = {} /\ PutOff(NoCrawl) = {}
    /\ \A state : InState(NoCrawl, state) = {}
    /\ \A d \in CrawlRecord : Follows(NoCrawl, d)
<1>1. DOMAIN NoCrawl.entries = {} /\ DOMAIN NoCrawl.completed = {} /\ Len(NoCrawl.completed) = 0
    BY EmptyRecords
<1>2. Left(NoCrawl) = {} /\ PutOff(NoCrawl) = {} /\ \A state : InState(NoCrawl, state) = {}
    BY <1>1 DEF Left, PutOff, InState
<1>3. Good(NoCrawl)
    BY <1>1, <1>2, CrawlAssumption DEF Good, EntriesOK, OrderOK, LimitOK
<1>4. FileOK(NoFile)
    BY <1>1, <1>2, <1>3, EmptyRecords DEF FileOK
<1>5. \A d \in CrawlRecord : Follows(NoCrawl, d)
    BY <1>1, LenProperties DEF Follows, CrawlRecord
<1> QED BY <1>2, <1>3, <1>4, <1>5

(* A process that is gone leaves nothing to know but the files.             *)
LEMMA NoProcessKeepsInv ==
    ASSUME Types, FilesOK, UNCHANGED <<disk, down>>, Fault \/ Smooth, run' = NoProcess
    PROVE  SteadyInv'
<1>1. Types'
    BY EmptyRecords, FaultsAreCounted DEF Types
<1>2. run'.pc = "NONE" /\ run'.crawl = NoCrawl /\ run'.saved = NoFile /\ run'.last = NoFile /\ run'.page = 0
    BY EmptyRecords
<1>3. FilesOK'
    BY <1>2 DEF FilesOK, PagesMatch
<1>4. MemoryOK'
    BY <1>2, EmptyIsGood DEF MemoryOK, InRun
<1>5. PhaseOK'
    BY <1>2 DEF PhaseOK, BeforeTheLoop, InTheLoop, InASave, AtTheEnd, InRun
<1> QED BY <1>1, <1>3, <1>4, <1>5 DEF SteadyInv

(* The crawl ends for a reason, or with an exception and what the ledgers   *)
(* have of a violation                                                      *)
StopsFor(code, bad) ==
    \/ StopWith(code) /\ ~bad
    \/ run' = [run EXCEPT !.pc = "OUTPUT", !.page = 0, !.crawl.violation = @ \/ bad,
                          !.crawl.entries = SkipAll(@, {"QUEUED", "AUDITING"}, code)]

(* What is queued or begun is skipped then.                                 *)
LEMMA StopWithStops ==
    ASSUME Types, NEW code \in RequeueCodes \cup OtherCodes, NEW bad \in BOOLEAN, StopsFor(code, bad)
    PROVE  /\ run' \in RunRecord /\ run'.pc = "OUTPUT" /\ run'.page = 0
           /\ run'.saved = run.saved /\ run'.last = run.last /\ run'.failed = run.failed
           /\ run'.preflightFailed = run.preflightFailed
           /\ run'.crawl.completed = run.crawl.completed /\ run'.crawl.started = run.crawl.started
           /\ run'.crawl.violation = (run.crawl.violation \/ bad)
           /\ DOMAIN run'.crawl.entries = DOMAIN run.crawl.entries
           /\ \A i \in DOMAIN run.crawl.entries :
                run'.crawl.entries[i] = IF run.crawl.entries[i].state \in {"QUEUED", "AUDITING"}
                                        THEN Skipped(run.crawl.entries[i], code) ELSE run.crawl.entries[i]
<1> DEFINE es == SkipAll(run.crawl.entries, {"QUEUED", "AUDITING"}, code)
<1>1. run \in RunRecord /\ run.crawl \in CrawlRecord /\ run.crawl.entries \in Seq(Entries)
    BY DEF Types, RunRecord, CrawlRecord
<1>2. PICK v \in BOOLEAN : v = (run.crawl.violation \/ bad)
    OBVIOUS
<1>3. /\ es \in Seq(Entries)
      /\ DOMAIN es = DOMAIN run.crawl.entries
      /\ \A i \in DOMAIN run.crawl.entries :
            es[i] = IF run.crawl.entries[i].state \in {"QUEUED", "AUDITING"}
                    THEN Skipped(run.crawl.entries[i], code) ELSE run.crawl.entries[i]
    BY <1>1, SkipAllSkips
<1>4. \/ run' = [run EXCEPT !.pc = "OUTPUT", !.page = 0, !.crawl.entries = es] /\ v = run.crawl.violation
      \/ run' = [run EXCEPT !.pc = "OUTPUT", !.page = 0, !.crawl.violation = v, !.crawl.entries = es]
    <2>1. CASE StopWith(code) /\ ~bad
        <3>1. run.crawl.violation \in BOOLEAN
            BY <1>1 DEF CrawlRecord
        <3>2. v = run.crawl.violation
            BY <1>2, <2>1, <3>1
        <3> QED BY <2>1, <3>2, Zenon DEF StopWith
    <2>2. CASE run' = [run EXCEPT !.pc = "OUTPUT", !.page = 0, !.crawl.violation = @ \/ bad,
                                  !.crawl.entries = SkipAll(@, {"QUEUED", "AUDITING"}, code)]
        BY <1>2, <2>2, Zenon
    <2> QED BY <2>1, <2>2, Zenon DEF StopsFor
<1> HIDE DEF es
<1>5. CASE run' = [run EXCEPT !.pc = "OUTPUT", !.page = 0, !.crawl.entries = es] /\ v = run.crawl.violation
    <2>1. run' \in RunRecord /\ run'.pc = "OUTPUT" /\ run'.page = 0
        BY <1>1, <1>5, <1>3 DEF RunRecord, CrawlRecord, Steps
    <2>2. /\ run'.crawl.entries = es /\ run'.crawl.violation = v
          /\ run'.crawl.completed = run.crawl.completed /\ run'.crawl.started = run.crawl.started
        BY <1>1, <1>5, <1>3 DEF RunRecord, CrawlRecord
    <2>3. /\ run'.saved = run.saved /\ run'.last = run.last /\ run'.failed = run.failed
          /\ run'.preflightFailed = run.preflightFailed
        BY <1>1, <1>5 DEF RunRecord
    <2> QED BY <1>2, <1>3, <2>1, <2>2, <2>3
<1>6. CASE run' = [run EXCEPT !.pc = "OUTPUT", !.page = 0, !.crawl.violation = v, !.crawl.entries = es]
    <2>1. run' \in RunRecord /\ run'.pc = "OUTPUT" /\ run'.page = 0
        BY <1>1, <1>6, <1>3 DEF RunRecord, CrawlRecord, Steps
    <2>2. /\ run'.crawl.entries = es /\ run'.crawl.violation = v
          /\ run'.crawl.completed = run.crawl.completed /\ run'.crawl.started = run.crawl.started
        BY <1>1, <1>6, <1>3 DEF RunRecord, CrawlRecord
    <2>3. /\ run'.saved = run.saved /\ run'.last = run.last /\ run'.failed = run.failed
          /\ run'.preflightFailed = run.preflightFailed
        BY <1>1, <1>6 DEF RunRecord
    <2> QED BY <1>2, <1>3, <2>1, <2>2, <2>3
<1> QED BY <1>4, <1>5, <1>6

(* The parts of the memory                                                  *)
LEMMA MemoryTypes ==
    ASSUME Types
    PROVE  /\ run \in RunRecord /\ run.crawl \in CrawlRecord /\ run.saved \in FileRecord /\ run.last \in FileRecord
           /\ run.last.crawl \in CrawlRecord /\ run.saved.crawl \in CrawlRecord
           /\ run.crawl.entries \in Seq(Entries) /\ run.crawl.completed \in Seq(Nat)
           /\ DOMAIN run.crawl.entries = 1 .. Len(run.crawl.entries) /\ Len(run.crawl.entries) \in Nat
           /\ DOMAIN run.crawl.completed = 1 .. Len(run.crawl.completed) /\ Len(run.crawl.completed) \in Nat
           /\ \A i \in DOMAIN run.crawl.entries : run.crawl.entries[i] \in Entries
           /\ run.crawl.started \in 0 .. MaxPages /\ run.crawl.violation \in BOOLEAN
           /\ Len(run.last.crawl.completed) \in Nat
           /\ DOMAIN run.last.crawl.completed = 1 .. Len(run.last.crawl.completed)
<1>1. run \in RunRecord /\ run.crawl \in CrawlRecord /\ run.saved \in FileRecord /\ run.last \in FileRecord
    BY DEF Types, RunRecord
<1>2. run.last.crawl \in CrawlRecord /\ run.saved.crawl \in CrawlRecord
    BY <1>1 DEF FileRecord
<1>3. run.crawl.entries \in Seq(Entries) /\ run.crawl.completed \in Seq(Nat) /\ run.last.crawl.completed \in Seq(Nat)
      /\ run.crawl.started \in 0 .. MaxPages /\ run.crawl.violation \in BOOLEAN
    BY <1>1, <1>2 DEF CrawlRecord
<1>4. DOMAIN run.crawl.entries = 1 .. Len(run.crawl.entries) /\ Len(run.crawl.entries) \in Nat
    BY <1>3, LenProperties
<1>5. DOMAIN run.crawl.completed = 1 .. Len(run.crawl.completed) /\ Len(run.crawl.completed) \in Nat
    BY <1>3, LenProperties
<1>6. DOMAIN run.last.crawl.completed = 1 .. Len(run.last.crawl.completed) /\ Len(run.last.crawl.completed) \in Nat
    BY <1>3, LenProperties
<1>7. \A i \in DOMAIN run.crawl.entries : run.crawl.entries[i] \in Entries
    BY <1>3, <1>4, ElementOfSeq
<1> QED BY <1>1, <1>2, <1>3, <1>4, <1>5, <1>6, <1>7

(* A crawl that stops, for whatever reason, keeps the invariant: a reason   *)
(* that lets pages be resumed comes from the loop only, and the limit only  *)
(* when as many pages are kept.                                             *)
LEMMA StoppingKeepsInv ==
    ASSUME SteadyInv, UNCHANGED <<disk, down>>, Fault \/ Smooth,
           NEW code \in RequeueCodes \cup OtherCodes, NEW bad \in BOOLEAN, StopsFor(code, bad),
           run.pc \in {"METADATA", "NEXT", "AUDIT"},
           code \in RequeueCodes => run.pc = "NEXT",
           code = "MAX_PAGES_REACHED" => Len(run.crawl.completed) = MaxPages
    PROVE  SteadyInv'
<1>1. Types /\ MemoryOK /\ PhaseOK /\ Good(run.crawl)
    BY DEF SteadyInv, MemoryOK
<1>2. /\ run' \in RunRecord /\ run'.pc = "OUTPUT" /\ run'.page = 0
      /\ run'.saved = run.saved /\ run'.last = run.last /\ run'.failed = run.failed
      /\ run'.preflightFailed = run.preflightFailed
      /\ run'.crawl.completed = run.crawl.completed /\ run'.crawl.started = run.crawl.started
      /\ run'.crawl.violation = (run.crawl.violation \/ bad)
      /\ DOMAIN run'.crawl.entries = DOMAIN run.crawl.entries
      /\ \A i \in DOMAIN run.crawl.entries :
           run'.crawl.entries[i] = IF run.crawl.entries[i].state \in {"QUEUED", "AUDITING"}
                                   THEN Skipped(run.crawl.entries[i], code) ELSE run.crawl.entries[i]
    BY <1>1, StopWithStops
<1>3. \A i \in DOMAIN run.crawl.entries :
        /\ Skipped(run.crawl.entries[i], code).url = run.crawl.entries[i].url
        /\ Skipped(run.crawl.entries[i], code).depth = run.crawl.entries[i].depth
        /\ Skipped(run.crawl.entries[i], code).state = "SKIPPED" /\ Skipped(run.crawl.entries[i], code).why = code
    BY <1>1, MemoryTypes, EntryChanges
<1>4. Remarked(run.crawl, run'.crawl)
    <2> SUFFICES ASSUME NEW i \in DOMAIN run.crawl.entries
                 PROVE  LET d == run'.crawl.entries[i]
                            e == run.crawl.entries[i] IN
                        /\ d.url = e.url /\ d.depth = e.depth
                        /\ d.state = "AUDITED" <=> e.state = "AUDITED"
                        /\ d.state = "SKIPPED" <=> d.why # "NONE"
                        /\ isLeftToAudit(d) => isLeftToAudit(e)
                        /\ d.why = "MAX_PAGES_REACHED" =>
                             e.why = "MAX_PAGES_REACHED" \/ Len(run.crawl.completed) = MaxPages
        BY <1>2 DEF Remarked
    <2>1. code # "NONE"
        BY DEF OtherCodes, RequeueCodes
    <2>2. CASE run.crawl.entries[i].state \in {"QUEUED", "AUDITING"}
        BY <1>2, <1>3, <2>1, <2>2 DEF isLeftToAudit
    <2>3. CASE run.crawl.entries[i].state \notin {"QUEUED", "AUDITING"}
        BY <1>1, <1>2, <2>3 DEF Good, EntriesOK
    <2> QED BY <2>2, <2>3
<1>5. GoesOn
    <2>1. faults' \in 0 .. MaxFaults
        BY <1>1, FaultsAreCounted
    <2>2. InRun /\ run'.pc \notin {"NONE", "CLEAN", "CLEAN_PREV"} /\ run.pc # "PAGE"
        BY <1>2 DEF InRun
    <2> QED BY <1>2, <1>4, <2>1, <2>2 DEF GoesOn
<1>6. NoneInAudit' /\ (InState(run.crawl, "QUEUED") = {})'
    <2>1. \A i \in DOMAIN run'.crawl.entries : run'.crawl.entries[i].state \notin {"QUEUED", "AUDITING"}
        BY <1>2, <1>3
    <2> QED BY <2>1 DEF NoneInAudit, InState
<1>7. PutOff(run'.crawl) = {} \/ run.pc = "NEXT"
    <2> SUFFICES ASSUME run.pc # "NEXT" PROVE PutOff(run'.crawl) = {}
        OBVIOUS
    <2>1. PutOff(run.crawl) = {}
        BY <1>1 DEF PhaseOK, BeforeTheLoop, InTheLoop
    <2> QED BY <1>2, <1>3, <2>1 DEF PutOff
<1>8. PhaseOK'
    BY <1>1, <1>2, <1>6, <1>7
    DEF PhaseOK, BeforeTheLoop, InTheLoop, InASave, AtTheEnd, InRun, Counted, IsSaved, IsUnderWay
<1> QED BY <1>5, <1>8, GoingOnKeepsFiles DEF SteadyInv

(* The three actions that stop it                                           *)
LEMMA StopsKeepInv ==
    ASSUME SteadyInv,
           \/ StopCrawl
           \/ \E bad \in BOOLEAN : CrawlThrows(bad)
           \/ \E code \in {"MAX_RUNTIME_REACHED", "RUN_INTERRUPTED", "SERVICE_REQUEST_LIMIT_REACHED"} : StopFromOutside(code)
    PROVE  SteadyInv'
<1>1. CASE StopCrawl
    <2>1. StopReason \in RequeueCodes \cup OtherCodes
        BY <1>1 DEF StopCrawl, StopReason, RequeueCodes, OtherCodes
    <2>2. StopReason = "MAX_PAGES_REACHED" => Len(run.crawl.completed) = MaxPages
        <3>1. Counted /\ Types
            BY <1>1 DEF SteadyInv, PhaseOK, InTheLoop, StopCrawl, At
        <3>2. StopReason = "MAX_PAGES_REACHED" => run.crawl.started >= MaxPages
            BY DEF StopReason
        <3> QED BY <3>1, <3>2, MemoryTypes, CrawlAssumption DEF Counted
    <2>3. StopsFor(StopReason, FALSE)
        BY <1>1 DEF StopCrawl, StopsFor
    <2> QED BY <1>1, <2>1, <2>2, <2>3, StoppingKeepsInv DEF StopCrawl, At
<1>2. ASSUME NEW bad \in BOOLEAN, CrawlThrows(bad) PROVE SteadyInv'
    <2>1. "EXECUTION_INCOMPLETE" \in OtherCodes /\ "EXECUTION_INCOMPLETE" \notin RequeueCodes
        BY DEF OtherCodes, RequeueCodes
    <2>2. StopsFor("EXECUTION_INCOMPLETE", bad)
        BY <1>2, Zenon DEF CrawlThrows, StopsFor
    <2>3. run.pc \in {"METADATA", "AUDIT"} /\ Fault /\ UNCHANGED <<disk, down>>
        BY <1>2, Zenon DEF CrawlThrows, At
    <2> QED BY <2>1, <2>2, <2>3, StoppingKeepsInv
<1>3. ASSUME NEW code \in {"MAX_RUNTIME_REACHED", "RUN_INTERRUPTED", "SERVICE_REQUEST_LIMIT_REACHED"}, StopFromOutside(code)
      PROVE  SteadyInv'
    <2>1. code \in RequeueCodes /\ code # "MAX_PAGES_REACHED"
        BY DEF RequeueCodes
    <2>2. StopsFor(code, FALSE)
        BY <1>3 DEF StopFromOutside, StopsFor
    <2> QED BY <1>3, <2>1, <2>2, StoppingKeepsInv DEF StopFromOutside, At
<1> QED BY <1>1, <1>2, <1>3

(* A good crawl is its own remark.                                          *)
LEMMA RemarkedBySelf == ASSUME NEW c, Good(c) PROVE Remarked(c, c)
BY DEF Remarked, Good, EntriesOK

(* The crawl ends for want of pages, or the wait for the site is given up.  *)
LEMMA EndsKeepInv == ASSUME SteadyInv, CrawlEnds \/ GiveUp PROVE SteadyInv'
<1>1. Types /\ PhaseOK /\ Good(run.crawl) /\ run \in RunRecord /\ Remarked(run.crawl, run.crawl)
    BY MemoryTypes, RemarkedBySelf DEF SteadyInv, MemoryOK
<1>2. UNCHANGED <<disk, down>> /\ faults' \in 0 .. MaxFaults
    BY <1>1, FaultsAreCounted DEF CrawlEnds, GiveUp
<1>3. CASE CrawlEnds
    <2>1. /\ run' \in RunRecord /\ run'.crawl = run.crawl /\ run'.saved = run.saved /\ run'.last = run.last
          /\ run'.failed = run.failed /\ run'.page = run.page /\ run'.pc = "OUTPUT" /\ run.pc = "NEXT"
          /\ run'.preflightFailed = run.preflightFailed
        BY <1>1, <1>3 DEF CrawlEnds, At, RunRecord, Steps
    <2>2. run.page = 0 /\ InState(run.crawl, "QUEUED") = {}
        BY <1>3 DEF CrawlEnds, More, Queued, InState
    <2>3. GoesOn
        BY <1>1, <1>2, <2>1 DEF GoesOn, InRun
    <2>4. PhaseOK'
        BY <1>1, <2>1, <2>2
        DEF PhaseOK, BeforeTheLoop, InTheLoop, InASave, AtTheEnd, InRun, Counted, IsSaved, IsUnderWay, NoneInAudit
    <2> QED BY <2>3, <2>4, GoingOnKeepsFiles DEF SteadyInv
<1>4. CASE GiveUp
    <2>1. /\ run' \in RunRecord /\ run'.crawl = run.crawl /\ run'.saved = run.saved /\ run'.last = run.last
          /\ run'.failed = run.failed /\ run'.page = 0 /\ run'.pc = "NEXT" /\ run.pc = "WAIT"
          /\ run'.unavailable = run.unavailable
        <3>1. PICK none \in 0 .. MaxRechecks : none = 0
            BY CrawlAssumption
        <3>2. run' = [run EXCEPT !.pc = "NEXT", !.page = 0, !.rechecks = none] /\ run.pc = "WAIT"
            BY <1>4, <3>1 DEF GiveUp, At
        <3> QED BY <1>1, <3>2 DEF RunRecord, Steps
    <2>2. GoesOn
        BY <1>1, <1>2, <2>1 DEF GoesOn, InRun
    <2>3. PhaseOK'
        BY <1>1, <2>1
        DEF PhaseOK, BeforeTheLoop, InTheLoop, InASave, AtTheEnd, InRun, Counted, IsSaved, IsUnderWay, NoneInAudit, Undisturbed
    <2> QED BY <2>2, <2>3, GoingOnKeepsFiles DEF SteadyInv
<1> QED BY <1>3, <1>4

(* A page file or a state that cannot be written                            *)
LEMMA SaveFailuresKeepInv == ASSUME SteadyInv, SavePageFails \/ SaveStateFails PROVE SteadyInv'
<1> PICK yes \in BOOLEAN : yes = TRUE
    OBVIOUS
<1>1. Types /\ PhaseOK /\ Good(run.crawl) /\ run \in RunRecord /\ Remarked(run.crawl, run.crawl)
    BY MemoryTypes, RemarkedBySelf DEF SteadyInv, MemoryOK
<1>2. UNCHANGED <<disk, down>> /\ faults' \in 0 .. MaxFaults /\ Fault
    BY <1>1, FaultsAreCounted DEF SavePageFails, SaveStateFails
<1>3. CASE SavePageFails
    <2>1. run' = [run EXCEPT !.pc = "NEXT", !.failed = yes] /\ run.pc = "PAGE"
        BY <1>3, Zenon DEF SavePageFails, At
    <2>2. /\ run' \in RunRecord /\ run'.crawl = run.crawl /\ run'.saved = run.saved /\ run'.last = run.last
          /\ run'.failed /\ run'.page = run.page /\ run'.pc = "NEXT"
        BY <1>1, <2>1 DEF RunRecord, Steps
    <2>3. GoesOn
        BY <1>1, <1>2, <2>1, <2>2 DEF GoesOn, InRun
    <2>4. PhaseOK'
        BY <1>1, <2>1, <2>2
        DEF PhaseOK, BeforeTheLoop, InTheLoop, InASave, AtTheEnd, InRun, Counted, IsSaved, IsUnderWay, NoneInAudit, Undisturbed
    <2> QED BY <2>3, <2>4, GoingOnKeepsFiles DEF SteadyInv
<1>4. CASE SaveStateFails /\ Concluding
    BY <1>2, <1>4, NoProcessKeepsInv DEF SaveStateFails, Failed, SteadyInv
<1>5. CASE SaveStateFails /\ ~Concluding
    <2>1. run' = [run EXCEPT !.pc = run.then, !.failed = yes] /\ run.pc \in {"MOVE", "PLACE"}
        BY <1>5, Zenon DEF SaveStateFails, At, Failed
    <2>2. run.then \in {"NEXT", "WAIT"}
        BY <1>1, <1>5, <2>1 DEF PhaseOK, InASave, Concluding
    <2>3. /\ run' \in RunRecord /\ run'.crawl = run.crawl /\ run'.saved = run.saved /\ run'.last = run.last
          /\ run'.failed /\ run'.page = run.page /\ run'.pc = run.then
          /\ run'.unavailable = run.unavailable /\ run'.lost = run.lost
        BY <1>1, <2>1, <2>2 DEF RunRecord, Steps
    <2>4. GoesOn
        BY <1>1, <1>2, <2>1, <2>2, <2>3 DEF GoesOn, InRun
    <2>5. AtPage' <=> AtPage
        BY <2>3 DEF AtPage
    <2>6. PhaseOK'
        BY <1>1, <2>1, <2>2, <2>3, <2>5
        DEF PhaseOK, BeforeTheLoop, InTheLoop, InASave, AtTheEnd, InRun, Counted, NoneInAudit, Undisturbed
    <2> QED BY <2>4, <2>6, GoingOnKeepsFiles DEF SteadyInv
<1> QED BY <1>3, <1>4, <1>5

(* The outputs: the execution is concluded, or ends without.                *)
LEMMA OutputsKeepInv == ASSUME SteadyInv, OutputsWritten \/ OutputsFail PROVE SteadyInv'
<1>1. Types /\ PhaseOK /\ Good(run.crawl) /\ run \in RunRecord /\ Remarked(run.crawl, run.crawl)
    BY MemoryTypes, RemarkedBySelf DEF SteadyInv, MemoryOK
<1>2. UNCHANGED <<disk, down>> /\ faults' \in 0 .. MaxFaults /\ (Fault \/ Smooth) /\ run.pc = "OUTPUT"
    BY <1>1, FaultsAreCounted DEF OutputsWritten, OutputsFail, At
<1>3. CASE run' = NoProcess
    BY <1>2, <1>3, NoProcessKeepsInv DEF SteadyInv
<1>4. CASE Conclusion # NoFile /\ \E after \in {"CLEAN", "END"} : run' = ToSave(after)
    <2>1. PICK after \in {"CLEAN", "END"} : run' = [run EXCEPT !.pc = "MOVE", !.then = after]
        BY <1>4 DEF ToSave
    <2>2. /\ run' \in RunRecord /\ run'.crawl = run.crawl /\ run'.saved = run.saved /\ run'.last = run.last
          /\ run'.failed = run.failed /\ run'.page = run.page /\ run'.pc = "MOVE" /\ run'.then = after
          /\ run'.preflightFailed = run.preflightFailed
        BY <1>1, <2>1 DEF RunRecord, Steps
    <2>3. GoesOn
        BY <1>1, <1>2, <2>2 DEF GoesOn, InRun
    <2>4. Conclusion' = Conclusion
        BY <2>2 DEF Conclusion, Resumed
    <2>5. PhaseOK'
        BY <1>1, <1>2, <1>4, <2>2, <2>4
        DEF PhaseOK, BeforeTheLoop, InTheLoop, InASave, AtTheEnd, InRun, Counted, IsSaved, IsUnderWay, NoneInAudit
    <2> QED BY <2>3, <2>5, GoingOnKeepsFiles DEF SteadyInv
<1> QED BY <1>3, <1>4 DEF OutputsWritten, OutputsFail

(* When a page may be begun nothing is put off, and the loop comes to the   *)
(* first page that is left.                                                 *)
LEMMA CurrentIsFirst ==
    ASSUME SteadyInv, run.pc = "NEXT", More, StopReason = "NONE"
    PROVE  /\ Undisturbed /\ ~run.crawl.violation /\ run.crawl.started < MaxPages
           /\ Current \in DOMAIN run.crawl.entries /\ Current \in Left(run.crawl)
           /\ \A j \in Left(run.crawl) : Current <= j
           /\ \A i \in InState(run.crawl, "AUDITING") : i = Current
<1>1. Types /\ PhaseOK /\ Good(run.crawl)
    BY DEF SteadyInv, MemoryOK
<1>2. Undisturbed /\ ~run.crawl.violation /\ run.crawl.started < MaxPages
    <2>1. run.failed \in BOOLEAN /\ run.lost \in BOOLEAN /\ run.unavailable \in BOOLEAN
        BY <1>1 DEF Types, RunRecord
    <2>2. ~run.crawl.violation /\ ~run.failed /\ ~run.unavailable /\ ~run.lost
        BY <2>1 DEF StopReason
    <2>3. ~(run.crawl.started >= MaxPages)
        BY <2>2 DEF StopReason
    <2> QED BY <1>1, <2>2, <2>3, MemoryTypes, CrawlAssumption DEF Undisturbed
<1>3. CASE run.page # 0
    BY <1>1, <1>2, <1>3 DEF PhaseOK, InTheLoop, AtPage, Current, Left
<1>4. CASE run.page = 0
    <2>1. NoneInAudit /\ PutOff(run.crawl) = {}
        BY <1>1, <1>2, <1>4 DEF PhaseOK, InTheLoop
    <2>2. Left(run.crawl) = Queued(run.crawl.entries)
        BY <2>1 DEF NoneInAudit, InState, PutOff, Left, Queued, isLeftToAudit
    <2>3. Queued(run.crawl.entries) # {} /\ Queued(run.crawl.entries) \subseteq DOMAIN run.crawl.entries
          /\ Queued(run.crawl.entries) \in SUBSET Nat
        BY <1>1, <1>4, MemoryTypes DEF More, Queued
    <2>4. \E m \in Queued(run.crawl.entries) : \A n \in Queued(run.crawl.entries) : m <= n
        BY <2>3, LeastExists
    <2>5. nextQueued(run.crawl.entries) \in Queued(run.crawl.entries)
          /\ \A n \in Queued(run.crawl.entries) : nextQueued(run.crawl.entries) <= n
        BY <2>4 DEF nextQueued
    <2>6. InState(run.crawl, "AUDITING") = {}
        BY <2>1 DEF NoneInAudit
    <2> QED BY <1>2, <1>4, <2>2, <2>3, <2>5, <2>6 DEF Current
<1> QED BY <1>3, <1>4

(* One entry is written anew, with its URL and depth.                       *)
OneEntry(i, e) ==
    /\ i \in DOMAIN run.crawl.entries /\ e \in Entries
    /\ e.url = run.crawl.entries[i].url /\ e.depth = run.crawl.entries[i].depth
    /\ isLeftToAudit(e) /\ isLeftToAudit(run.crawl.entries[i])
    /\ e.state = "SKIPPED" <=> e.why # "NONE"
    /\ run'.crawl \in CrawlRecord
    /\ run'.crawl.completed = run.crawl.completed
    /\ run'.crawl.entries = [run.crawl.entries EXCEPT ![i] = e]

(* Then the other entries and the pages that are left are as they were.     *)
LEMMA OneEntryRemarks ==
    ASSUME Types, Good(run.crawl), NEW i, NEW e, OneEntry(i, e)
    PROVE  /\ Remarked(run.crawl, run'.crawl)
           /\ DOMAIN run'.crawl.entries = DOMAIN run.crawl.entries
           /\ \A j \in DOMAIN run.crawl.entries : run'.crawl.entries[j] = IF j = i THEN e ELSE run.crawl.entries[j]
           /\ Left(run'.crawl) = Left(run.crawl) /\ i \in Left(run.crawl)
<1>1. /\ DOMAIN run'.crawl.entries = DOMAIN run.crawl.entries
      /\ \A j \in DOMAIN run.crawl.entries : run'.crawl.entries[j] = IF j = i THEN e ELSE run.crawl.entries[j]
    BY DEF OneEntry
<1>2. Left(run'.crawl) = Left(run.crawl) /\ i \in Left(run.crawl)
    BY <1>1 DEF OneEntry, Left
<1>3. e.state # "AUDITED" /\ run.crawl.entries[i].state # "AUDITED" /\ e.why # "MAX_PAGES_REACHED"
    BY DEF OneEntry, isLeftToAudit, RequeueCodes
<1>4. Remarked(run.crawl, run'.crawl)
    <2> SUFFICES ASSUME NEW j \in DOMAIN run.crawl.entries
                 PROVE  /\ run'.crawl.entries[j].url = run.crawl.entries[j].url
                        /\ run'.crawl.entries[j].depth = run.crawl.entries[j].depth
                        /\ run'.crawl.entries[j].state = "AUDITED" <=> run.crawl.entries[j].state = "AUDITED"
                        /\ run'.crawl.entries[j].state = "SKIPPED" <=> run'.crawl.entries[j].why # "NONE"
                        /\ isLeftToAudit(run'.crawl.entries[j]) => isLeftToAudit(run.crawl.entries[j])
                        /\ run'.crawl.entries[j].why = "MAX_PAGES_REACHED" =>
                             run.crawl.entries[j].why = "MAX_PAGES_REACHED" \/ Len(run.crawl.completed) = MaxPages
        BY <1>1 DEF Remarked, OneEntry
    <2>1. CASE j = i
        BY <1>1, <1>3, <2>1 DEF OneEntry
    <2>2. CASE j # i
        BY <1>1, <2>2 DEF Good, EntriesOK
    <2> QED BY <2>1, <2>2
<1> QED BY <1>1, <1>2, <1>4

(* A page is begun.                                                         *)
LEMMA BeginPageKeepsInv == ASSUME SteadyInv, BeginPage PROVE SteadyInv'
<1> DEFINE old == run.crawl.entries[Current]
           new == [old EXCEPT !.state = "AUDITING"]
           es == [run.crawl.entries EXCEPT ![Current] = new]
<1>1. Types /\ PhaseOK /\ Good(run.crawl) /\ run \in RunRecord
    BY MemoryTypes DEF SteadyInv, MemoryOK
<1>2. run.pc = "NEXT" /\ More /\ StopReason = "NONE" /\ UNCHANGED <<disk, down>> /\ faults' \in 0 .. MaxFaults
    BY <1>1, FaultsAreCounted DEF BeginPage, At
<1>3. /\ Undisturbed /\ ~run.crawl.violation /\ run.crawl.started < MaxPages
      /\ Current \in DOMAIN run.crawl.entries /\ Current \in Left(run.crawl)
      /\ \A j \in Left(run.crawl) : Current <= j
      /\ \A i \in InState(run.crawl, "AUDITING") : i = Current
    BY <1>2, CurrentIsFirst
<1>4. Counted /\ IsUnderWay /\ IsSaved /\ PutOff(run.crawl) = {}
    BY <1>1, <1>2, <1>3 DEF PhaseOK, InTheLoop, Undisturbed
<1>5. old \in Entries /\ old.why = "NONE" /\ isLeftToAudit(old) /\ Current \in Nat /\ Current # 0
    <2>1. old \in Entries /\ Current \in Nat /\ Current # 0
        BY <1>1, <1>3, MemoryTypes
    <2>2. isLeftToAudit(old) /\ old.why \notin RequeueCodes
        BY <1>3, <1>4 DEF Left, PutOff
    <2>3. old.state = "SKIPPED" <=> old.why # "NONE"
        BY <1>1, <1>3 DEF Good, EntriesOK
    <2> QED BY <2>1, <2>2, <2>3 DEF isLeftToAudit
<1>6. new \in Entries /\ new.url = old.url /\ new.depth = old.depth /\ new.state = "AUDITING" /\ new.why = "NONE"
      /\ isLeftToAudit(new)
    <2>1. new \in Entries /\ new.url = old.url /\ new.depth = old.depth /\ new.state = "AUDITING" /\ new.why = old.why
        BY <1>5 DEF Entries
    <2> QED BY <1>5, <2>1 DEF isLeftToAudit
<1>7. run' = [run EXCEPT !.pc = "AUDIT", !.page = Current, !.crawl.started = @ + 1, !.crawl.entries = es]
    BY DEF BeginPage
<1>8. es \in Seq(Entries)
    BY <1>1, <1>3, <1>6, MemoryTypes, ExceptSeq
<1> HIDE DEF old, new
<1> HIDE DEF es
<1>9. run.crawl.started + 1 \in 0 .. MaxPages
    BY <1>1, <1>3, MemoryTypes, CrawlAssumption
<1>10. /\ run' \in RunRecord /\ run'.crawl \in CrawlRecord /\ run'.crawl.entries = es
       /\ run'.crawl.completed = run.crawl.completed /\ run'.crawl.violation = run.crawl.violation
       /\ run'.crawl.started = run.crawl.started + 1
       /\ run'.saved = run.saved /\ run'.last = run.last /\ run'.page = Current /\ run'.pc = "AUDIT"
       /\ run'.failed = run.failed /\ run'.unavailable = run.unavailable /\ run'.lost = run.lost
    BY <1>1, <1>5, <1>7, <1>8, <1>9 DEF RunRecord, CrawlRecord, Steps
<1>11. OneEntry(Current, new)
    BY <1>3, <1>5, <1>6, <1>10 DEF OneEntry, old, es
<1>12. /\ Remarked(run.crawl, run'.crawl)
       /\ DOMAIN run'.crawl.entries = DOMAIN run.crawl.entries
       /\ \A j \in DOMAIN run.crawl.entries : run'.crawl.entries[j] = IF j = Current THEN new ELSE run.crawl.entries[j]
       /\ Left(run'.crawl) = Left(run.crawl)
    BY <1>1, <1>11, OneEntryRemarks
<1>13. GoesOn
    BY <1>2, <1>10, <1>12 DEF GoesOn, InRun
<1>14. InState(run'.crawl, "AUDITING") = {run'.page} /\ PutOff(run'.crawl) = {}
    <2>1. ASSUME NEW i \in DOMAIN run.crawl.entries PROVE run'.crawl.entries[i].state = "AUDITING" <=> i = Current
        BY <1>3, <1>6, <1>12 DEF InState
    <2>2. ASSUME NEW i \in DOMAIN run.crawl.entries PROVE run'.crawl.entries[i].why \notin RequeueCodes
        BY <1>4, <1>6, <1>12 DEF PutOff, RequeueCodes
    <2> QED BY <1>3, <1>10, <1>12, <2>1, <2>2 DEF InState, PutOff
<1>15. AtPage'
    BY <1>3, <1>10, <1>12 DEF AtPage
<1>16. PhaseOK'
    BY <1>3, <1>4, <1>5, <1>10, <1>14, <1>15
    DEF PhaseOK, BeforeTheLoop, InTheLoop, InASave, AtTheEnd, InRun, Counted, IsSaved, IsUnderWay, Undisturbed
<1> QED BY <1>13, <1>16, GoingOnKeepsFiles DEF SteadyInv

(* A page thrown away is put off and not counted.                           *)
LEMMA DropPageDrops ==
    ASSUME SteadyInv, run.pc = "AUDIT", NEW code \in {"SITE_UNAVAILABLE", "AUTH_SESSION_LOST"},
           NEW yes \in BOOLEAN, run'.crawl \in CrawlRecord, run'.crawl.completed = run.crawl.completed,
           run'.crawl.entries =
               [run.crawl.entries EXCEPT ![run.page] = [Skipped(run.crawl.entries[run.page], code) EXCEPT !.detail = yes]]
    PROVE  /\ Remarked(run.crawl, run'.crawl)
           /\ DOMAIN run'.crawl.entries = DOMAIN run.crawl.entries
           /\ Left(run'.crawl) = Left(run.crawl)
           /\ PutOff(run'.crawl) = {run.page} /\ InState(run'.crawl, "AUDITING") = {}
<1> DEFINE old == run.crawl.entries[run.page]
           new == [Skipped(old, code) EXCEPT !.detail = yes]
<1>1. Types /\ PhaseOK /\ Good(run.crawl)
    BY DEF SteadyInv, MemoryOK
<1>2. /\ run.page \in Left(run.crawl) /\ InState(run.crawl, "AUDITING") = {run.page} /\ PutOff(run.crawl) = {}
      /\ run.page \in DOMAIN run.crawl.entries
    BY <1>1 DEF PhaseOK, InTheLoop, AtPage, Left
<1>3. old \in Entries /\ isLeftToAudit(old)
    BY <1>1, <1>2, MemoryTypes DEF Left
<1>4. code \in RequeueCodes /\ code \in RequeueCodes \cup OtherCodes /\ code # "NONE"
    BY DEF RequeueCodes
<1>5. Skipped(old, code) \in Entries /\ Skipped(old, code).url = old.url /\ Skipped(old, code).depth = old.depth
      /\ Skipped(old, code).state = "SKIPPED" /\ Skipped(old, code).why = code
    BY <1>3, <1>4, EntryChanges
<1>6. new \in Entries /\ new.url = old.url /\ new.depth = old.depth /\ new.state = "SKIPPED" /\ new.why = code
    BY <1>5 DEF Entries
<1>7. isLeftToAudit(new)
    BY <1>4, <1>6 DEF isLeftToAudit
<1>8. run'.crawl.entries = [run.crawl.entries EXCEPT ![run.page] = new]
    OBVIOUS
<1> HIDE DEF new
<1>9. OneEntry(run.page, new)
    BY <1>2, <1>3, <1>4, <1>6, <1>7, <1>8 DEF OneEntry
<1>10. /\ Remarked(run.crawl, run'.crawl)
       /\ DOMAIN run'.crawl.entries = DOMAIN run.crawl.entries
       /\ \A j \in DOMAIN run.crawl.entries : run'.crawl.entries[j] = IF j = run.page THEN new ELSE run.crawl.entries[j]
       /\ Left(run'.crawl) = Left(run.crawl)
    BY <1>1, <1>9, OneEntryRemarks
<1>11. PutOff(run'.crawl) = {run.page} /\ InState(run'.crawl, "AUDITING") = {}
    <2>1. ASSUME NEW i \in DOMAIN run.crawl.entries PROVE run'.crawl.entries[i].state # "AUDITING"
        <3>1. CASE i = run.page
            BY <1>6, <1>10, <3>1
        <3>2. CASE i # run.page
            <4>1. run.crawl.entries[i].state # "AUDITING"
                BY <1>2, <3>2 DEF InState
            <4> QED BY <1>10, <3>2, <4>1
        <3> QED BY <3>1, <3>2
    <2>2. ASSUME NEW i \in DOMAIN run.crawl.entries PROVE run'.crawl.entries[i].why \in RequeueCodes <=> i = run.page
        BY <1>2, <1>4, <1>6, <1>10 DEF PutOff
    <2> QED BY <1>2, <1>10, <2>1, <2>2 DEF InState, PutOff
<1> QED BY <1>10, <1>11

(* The two ways a page is thrown away                                       *)
LEMMA DropsKeepInv == ASSUME SteadyInv, DropUnavailable \/ DropLoggedOut PROVE SteadyInv'
<1> PICK yes \in BOOLEAN : yes = TRUE
    OBVIOUS
<1>1. Types /\ PhaseOK /\ Good(run.crawl) /\ run \in RunRecord
    BY MemoryTypes DEF SteadyInv, MemoryOK
<1>2. run.pc = "AUDIT" /\ UNCHANGED <<disk, down>> /\ faults' \in 0 .. MaxFaults
    BY <1>1, FaultsAreCounted DEF DropUnavailable, DropLoggedOut, At
<1>3. /\ ~run.failed /\ ~run.unavailable /\ ~run.lost /\ ~run.crawl.violation
      /\ run.crawl.started = Len(run.crawl.completed) + 1
      /\ IsUnderWay /\ IsSaved /\ run.page # 0 /\ AtPage
    BY <1>1, <1>2 DEF PhaseOK, InTheLoop, Undisturbed
<1>4. run.page \in DOMAIN run.crawl.entries /\ run.crawl.started - 1 \in 0 .. MaxPages
      /\ run.crawl.started - 1 = Len(run.crawl.completed)
    BY <1>1, <1>3, MemoryTypes, CrawlAssumption DEF AtPage, Left
<1>5. PICK code \in {"SITE_UNAVAILABLE", "AUTH_SESSION_LOST"} :
        \/ code = "SITE_UNAVAILABLE" /\ run' = [DropPage(code) EXCEPT !.unavailable = yes, !.then = "WAIT"]
        \/ code = "AUTH_SESSION_LOST" /\ run' = [DropPage(code) EXCEPT !.lost = yes, !.then = "NEXT", !.page = 0]
    BY Zenon DEF DropUnavailable, DropLoggedOut
<1> DEFINE new == [Skipped(run.crawl.entries[run.page], code) EXCEPT !.detail = yes]
           es == [run.crawl.entries EXCEPT ![run.page] = new]
<1>6. DropPage(code) = [run EXCEPT !.pc = "MOVE", !.crawl.started = @ - 1, !.crawl.entries = es]
    BY DEF DropPage
<1>7. es \in Seq(Entries)
    <2>1. run.crawl.entries[run.page] \in Entries
        BY <1>1, <1>4, MemoryTypes
    <2>2. Skipped(run.crawl.entries[run.page], code) \in Entries
        BY <2>1, EntryChanges DEF RequeueCodes
    <2>3. new \in Entries
        BY <2>2 DEF Entries
    <2> QED BY <1>1, <1>4, <2>3, MemoryTypes, ExceptSeq
<1>8. es = [run.crawl.entries EXCEPT ![run.page] = new]
    OBVIOUS
<1> HIDE DEF new
<1> HIDE DEF es
<1>9. PICK r : r = DropPage(code)
    OBVIOUS
<1>10. /\ r \in RunRecord /\ r.crawl \in CrawlRecord /\ r.crawl.entries = es /\ r.crawl.completed = run.crawl.completed
       /\ r.crawl.started = run.crawl.started - 1 /\ r.crawl.violation = run.crawl.violation
       /\ r.pc = "MOVE" /\ r.saved = run.saved /\ r.last = run.last /\ r.page = run.page
       /\ r.failed = run.failed /\ r.unavailable = run.unavailable /\ r.lost = run.lost
    <2>1. PICK n \in 0 .. MaxPages : n = run.crawl.started - 1
        BY <1>4
    <2>2. r = [run EXCEPT !.pc = "MOVE", !.crawl.started = n, !.crawl.entries = es]
        BY <1>6, <1>9, <2>1, Zenon
    <2>3. /\ r \in RunRecord /\ r.pc = "MOVE" /\ r.saved = run.saved /\ r.last = run.last /\ r.page = run.page
          /\ r.failed = run.failed /\ r.unavailable = run.unavailable /\ r.lost = run.lost
        BY <1>1, <1>7, <2>2 DEF RunRecord, CrawlRecord, Steps
    <2>4. /\ r.crawl \in CrawlRecord /\ r.crawl.entries = es /\ r.crawl.completed = run.crawl.completed
          /\ r.crawl.started = n /\ r.crawl.violation = run.crawl.violation
        BY <1>1, <1>7, <2>2 DEF RunRecord, CrawlRecord
    <2> QED BY <2>1, <2>3, <2>4
<1>11. /\ run' \in RunRecord /\ run'.crawl = r.crawl /\ run'.pc = "MOVE" /\ run'.saved = run.saved /\ run'.last = run.last
       /\ run'.failed = run.failed
       /\ \/ run'.then = "WAIT" /\ run'.unavailable /\ ~run'.lost /\ run'.page = run.page
          \/ run'.then = "NEXT" /\ run'.lost /\ run'.page = 0
    <2>1. CASE run' = [r EXCEPT !.unavailable = yes, !.then = "WAIT"]
        BY <1>3, <1>10, <2>1 DEF RunRecord
    <2>2. CASE run' = [r EXCEPT !.lost = yes, !.then = "NEXT", !.page = 0]
        BY <1>10, <2>2 DEF RunRecord
    <2> QED BY <1>5, <1>9, <2>1, <2>2
<1>12. /\ Remarked(run.crawl, run'.crawl)
       /\ Left(run'.crawl) = Left(run.crawl)
       /\ PutOff(run'.crawl) = {run.page} /\ InState(run'.crawl, "AUDITING") = {}
    <2>1. run'.crawl \in CrawlRecord /\ run'.crawl.completed = run.crawl.completed /\ run'.crawl.entries = es
        BY <1>10, <1>11
    <2> QED BY <1>2, <1>8, <2>1, DropPageDrops DEF new
<1>13. GoesOn
    BY <1>2, <1>10, <1>11, <1>12 DEF GoesOn, InRun
<1>14. PhaseOK'
    <2>1. Counted' /\ NoneInAudit' /\ IsSaved'
        BY <1>3, <1>4, <1>10, <1>11, <1>12 DEF Counted, NoneInAudit, IsSaved
    <2>2. run'.then = "WAIT" => AtPage'
        BY <1>3, <1>11, <1>12 DEF AtPage
    <2> QED BY <1>3, <1>10, <1>11, <1>12, <2>1, <2>2
        DEF PhaseOK, BeforeTheLoop, InTheLoop, InASave, AtTheEnd, InRun, Undisturbed
<1> QED BY <1>13, <1>14, GoingOnKeepsFiles DEF SteadyInv

(* The page is checked again: it is in audit again, without a reason.       *)
LEMMA RecheckKeepsInv == ASSUME SteadyInv, Recheck PROVE SteadyInv'
<1> PICK no \in BOOLEAN : no = FALSE
    OBVIOUS
<1> DEFINE old == run.crawl.entries[run.page]
           new == [old EXCEPT !.state = "AUDITING", !.why = "NONE", !.detail = no]
           es == [run.crawl.entries EXCEPT ![run.page] = new]
<1>1. Types /\ PhaseOK /\ Good(run.crawl) /\ run \in RunRecord
    BY MemoryTypes DEF SteadyInv, MemoryOK
<1>2. run.pc = "WAIT" /\ UNCHANGED <<disk, down>> /\ faults' \in 0 .. MaxFaults /\ mayRecheck
    BY <1>1, FaultsAreCounted DEF Recheck, At
<1>3. /\ ~run.failed /\ ~run.lost /\ Counted /\ IsUnderWay /\ IsSaved /\ NoneInAudit
      /\ run.page # 0 /\ AtPage /\ PutOff(run.crawl) = {run.page}
    BY <1>1, <1>2 DEF PhaseOK, InTheLoop, mayRecheck
<1>4. run.page \in DOMAIN run.crawl.entries /\ isLeftToAudit(old)
    BY <1>3 DEF AtPage, Left
<1>5. old \in Entries
    BY <1>1, <1>4, MemoryTypes
<1>6. new \in Entries /\ new.url = old.url /\ new.depth = old.depth /\ new.state = "AUDITING" /\ new.why = "NONE"
    BY <1>5 DEF Entries
<1>7. run' = [run EXCEPT !.pc = "NEXT", !.rechecks = @ + 1, !.unavailable = no, !.crawl.entries = es]
    BY Zenon DEF Recheck
<1>8. es \in Seq(Entries)
    BY <1>1, <1>4, <1>6, MemoryTypes, ExceptSeq
<1>9. es = [run.crawl.entries EXCEPT ![run.page] = new]
    OBVIOUS
<1> HIDE DEF new
<1> HIDE DEF es
<1>10. run.rechecks + 1 \in 0 .. MaxRechecks
    BY <1>1, <1>2, CrawlAssumption DEF mayRecheck, RunRecord
<1>11. /\ run' \in RunRecord /\ run'.crawl \in CrawlRecord /\ run'.crawl.entries = es
       /\ run'.crawl.completed = run.crawl.completed /\ run'.crawl.violation = run.crawl.violation
       /\ run'.crawl.started = run.crawl.started
       /\ run'.saved = run.saved /\ run'.last = run.last /\ run'.page = run.page /\ run'.pc = "NEXT"
       /\ run'.failed = run.failed /\ run'.lost = run.lost
    BY <1>1, <1>7, <1>8, <1>10 DEF RunRecord, CrawlRecord, Steps
<1>12. isLeftToAudit(new)
    BY <1>6 DEF isLeftToAudit
<1>13. OneEntry(run.page, new)
    BY <1>4, <1>6, <1>9, <1>11, <1>12 DEF OneEntry
<1>14. /\ Remarked(run.crawl, run'.crawl)
       /\ DOMAIN run'.crawl.entries = DOMAIN run.crawl.entries
       /\ \A j \in DOMAIN run.crawl.entries : run'.crawl.entries[j] = IF j = run.page THEN new ELSE run.crawl.entries[j]
       /\ Left(run'.crawl) = Left(run.crawl)
    BY <1>1, <1>13, OneEntryRemarks
<1>15. GoesOn
    BY <1>2, <1>3, <1>11, <1>14 DEF GoesOn, InRun
<1>16. InState(run'.crawl, "AUDITING") = {run'.page} /\ PutOff(run'.crawl) = {}
    <2>1. ASSUME NEW i \in DOMAIN run.crawl.entries PROVE run'.crawl.entries[i].state = "AUDITING" <=> i = run.page
        BY <1>3, <1>6, <1>14 DEF NoneInAudit, InState
    <2>2. ASSUME NEW i \in DOMAIN run.crawl.entries PROVE run'.crawl.entries[i].why \notin RequeueCodes
        BY <1>3, <1>6, <1>14 DEF PutOff, RequeueCodes
    <2> QED BY <1>4, <1>11, <1>14, <2>1, <2>2 DEF InState, PutOff
<1>17. AtPage'
    BY <1>3, <1>11, <1>14 DEF AtPage
<1>18. PhaseOK'
    BY <1>3, <1>11, <1>16, <1>17
    DEF PhaseOK, BeforeTheLoop, InTheLoop, InASave, AtTheEnd, InRun, Counted, IsSaved, IsUnderWay, Undisturbed
<1> QED BY <1>15, <1>18, GoingOnKeepsFiles DEF SteadyInv

(* A crawl with the same entries and results is good in the same way.       *)
LEMMA SameEntriesRemark ==
    ASSUME NEW c, NEW d, Good(c), d.entries = c.entries, d.completed = c.completed
    PROVE  /\ Remarked(c, d) /\ PutOff(d) = PutOff(c) /\ Left(d) = Left(c)
           /\ InState(d, "AUDITING") = InState(c, "AUDITING")
BY DEF Remarked, Good, EntriesOK, PutOff, Left, InState

(* robots.txt and sitemap.xml, fetched or known: the first save follows.    *)
LEMMA MetadataKeepsInv ==
    ASSUME SteadyInv, MetadataKnown \/ \E unavailable, bad \in BOOLEAN : FetchMetadata(unavailable, bad)
    PROVE  SteadyInv'
<1>1. Types /\ PhaseOK /\ Good(run.crawl) /\ run \in RunRecord
    BY MemoryTypes DEF SteadyInv, MemoryOK
<1>2. run.pc = "METADATA" /\ UNCHANGED <<disk, down>> /\ faults' \in 0 .. MaxFaults
    <2>1. Fault \/ Smooth
        BY DEF MetadataKnown, FetchMetadata
    <2> QED BY <1>1, <2>1, FaultsAreCounted DEF MetadataKnown, FetchMetadata, At
<1>3. /\ ~run.failed /\ ~run.lost /\ run.page = 0 /\ Counted /\ IsSaved /\ NoneInAudit /\ PutOff(run.crawl) = {}
    BY <1>1, <1>2 DEF PhaseOK, BeforeTheLoop, Undisturbed
<1>4. PICK meta \in {"NONE", "KEPT", "ABORTED"}, violation \in BOOLEAN, unavailable \in BOOLEAN :
        /\ run' = [run EXCEPT !.pc = "MOVE", !.then = "NEXT", !.crawl.meta = meta, !.crawl.violation = violation,
                              !.unavailable = unavailable]
        /\ run.crawl.violation => violation
    <2>1. CASE MetadataKnown
        <3>1. PICK meta \in {"NONE", "KEPT", "ABORTED"} :
                run' = [run EXCEPT !.pc = "MOVE", !.then = "NEXT", !.crawl.meta = meta]
            <4>1. run.crawl.meta \in {"NONE", "KEPT", "ABORTED"}
                BY <1>1 DEF RunRecord, CrawlRecord
            <4>2. run' = [run EXCEPT !.pc = "MOVE", !.then = "NEXT",
                                     !.crawl.meta = IF run.crawl.meta = "NONE" THEN "ABORTED" ELSE run.crawl.meta]
                BY <2>1 DEF MetadataKnown, ToSave
            <4> QED BY <4>1, <4>2
        <3>2. run' = [run EXCEPT !.pc = "MOVE", !.then = "NEXT", !.crawl.meta = meta,
                                 !.crawl.violation = run.crawl.violation, !.unavailable = run.unavailable]
            BY <1>1, <3>1 DEF RunRecord, CrawlRecord
        <3>3. run.crawl.violation \in BOOLEAN /\ run.unavailable \in BOOLEAN
            BY <1>1 DEF RunRecord, CrawlRecord
        <3> QED BY <3>2, <3>3
    <2>2. ASSUME NEW site \in BOOLEAN, NEW bad \in BOOLEAN, FetchMetadata(site, bad)
          PROVE  \E meta \in {"NONE", "KEPT", "ABORTED"}, violation \in BOOLEAN, unavailable \in BOOLEAN :
                    /\ run' = [run EXCEPT !.pc = "MOVE", !.then = "NEXT", !.crawl.meta = meta,
                                          !.crawl.violation = violation, !.unavailable = unavailable]
                    /\ run.crawl.violation => violation
        <3>1. PICK kept \in {"NONE", "KEPT"} :
                kept = IF site /\ ~bad /\ ~stoppedAtSiteMetadataBefore(run.saved) THEN "NONE" ELSE "KEPT"
            OBVIOUS
        <3>2. PICK seen \in BOOLEAN : seen = (site /\ ~bad)
            OBVIOUS
        <3>3. run' = [run EXCEPT !.pc = "MOVE", !.then = "NEXT", !.crawl.meta = kept, !.crawl.violation = bad,
                                 !.unavailable = seen]
            BY <2>2, <3>1, <3>2, Zenon DEF FetchMetadata, ToSave
        <3>4. ~run.crawl.violation
            BY <2>2 DEF FetchMetadata
        <3> QED BY <3>3, <3>4
    <2> QED BY <2>1, <2>2
<1>5. /\ run' \in RunRecord /\ run'.crawl \in CrawlRecord /\ run'.crawl.entries = run.crawl.entries
      /\ run'.crawl.completed = run.crawl.completed /\ run'.crawl.started = run.crawl.started
      /\ run'.crawl.violation = violation
      /\ run'.saved = run.saved /\ run'.last = run.last /\ run'.page = run.page /\ run'.pc = "MOVE"
      /\ run'.then = "NEXT" /\ run'.failed = run.failed
    BY <1>1, <1>4 DEF RunRecord, CrawlRecord, Steps
<1>6. /\ Remarked(run.crawl, run'.crawl) /\ PutOff(run'.crawl) = PutOff(run.crawl)
      /\ InState(run'.crawl, "AUDITING") = InState(run.crawl, "AUDITING")
    BY <1>1, <1>5, SameEntriesRemark
<1>7. GoesOn
    BY <1>2, <1>3, <1>4, <1>5, <1>6 DEF GoesOn, InRun
<1>8. PhaseOK'
    BY <1>3, <1>5, <1>6
    DEF PhaseOK, BeforeTheLoop, InTheLoop, InASave, AtTheEnd, InRun, Counted, IsSaved, NoneInAudit, Undisturbed
<1> QED BY <1>7, <1>8, GoingOnKeepsFiles DEF SteadyInv

(* A preflight that fails skips what is queued, for good.                   *)
LEMMA PreflightFailsKeepsInv == ASSUME SteadyInv, NEW bad \in BOOLEAN, PreflightFails(bad) PROVE SteadyInv'
<1> PICK yes \in BOOLEAN : yes = TRUE
    OBVIOUS
<1> DEFINE es == SkipAll(run.crawl.entries, {"QUEUED"}, "PREFLIGHT_FAILED")
<1>1. Types /\ PhaseOK /\ Good(run.crawl) /\ run \in RunRecord
    BY MemoryTypes DEF SteadyInv, MemoryOK
<1>2. run.pc = "PREFLIGHT" /\ UNCHANGED <<disk, down>> /\ faults' \in 0 .. MaxFaults
    BY <1>1, FaultsAreCounted DEF PreflightFails, At
<1>3. /\ ~run.failed /\ run.page = 0 /\ Counted /\ IsSaved /\ NoneInAudit /\ PutOff(run.crawl) = {}
    BY <1>1, <1>2 DEF PhaseOK, BeforeTheLoop, Undisturbed
<1>4. "PREFLIGHT_FAILED" \in OtherCodes /\ "PREFLIGHT_FAILED" \notin RequeueCodes
    BY DEF OtherCodes, RequeueCodes
<1>5. /\ es \in Seq(Entries)
      /\ DOMAIN es = DOMAIN run.crawl.entries
      /\ \A i \in DOMAIN run.crawl.entries :
            es[i] = IF run.crawl.entries[i].state = "QUEUED"
                    THEN Skipped(run.crawl.entries[i], "PREFLIGHT_FAILED") ELSE run.crawl.entries[i]
    BY <1>1, <1>4, SkipAllSkips, MemoryTypes
<1> PICK v \in BOOLEAN : v = (run.crawl.violation \/ bad)
    OBVIOUS
<1>6. run' = [run EXCEPT !.pc = "OUTPUT", !.preflightFailed = yes, !.crawl.violation = v, !.crawl.entries = es]
    BY Zenon DEF PreflightFails
<1> HIDE DEF es
<1>7. /\ run' \in RunRecord /\ run'.crawl \in CrawlRecord /\ run'.crawl.entries = es
      /\ run'.crawl.completed = run.crawl.completed /\ run'.crawl.started = run.crawl.started
      /\ run'.crawl.violation = v
      /\ run'.saved = run.saved /\ run'.last = run.last /\ run'.page = run.page /\ run'.pc = "OUTPUT"
      /\ run'.failed = run.failed
    BY <1>1, <1>5, <1>6 DEF RunRecord, CrawlRecord, Steps
<1>8. ASSUME NEW i \in DOMAIN run.crawl.entries
      PROVE  /\ run.crawl.entries[i].state = "QUEUED" =>
                   /\ run'.crawl.entries[i].url = run.crawl.entries[i].url
                   /\ run'.crawl.entries[i].depth = run.crawl.entries[i].depth
                   /\ run'.crawl.entries[i].state = "SKIPPED" /\ run'.crawl.entries[i].why = "PREFLIGHT_FAILED"
             /\ run.crawl.entries[i].state # "QUEUED" => run'.crawl.entries[i] = run.crawl.entries[i]
    <2> DEFINE s == Skipped(run.crawl.entries[i], "PREFLIGHT_FAILED")
    <2>1. /\ s.url = run.crawl.entries[i].url /\ s.depth = run.crawl.entries[i].depth
          /\ s.state = "SKIPPED" /\ s.why = "PREFLIGHT_FAILED"
        <3>1. run.crawl.entries[i] \in Entries
            BY <1>1, MemoryTypes
        <3>2. PICK code \in RequeueCodes \cup OtherCodes : code = "PREFLIGHT_FAILED"
            BY <1>4
        <3>3. LET e == Skipped(run.crawl.entries[i], code) IN
              /\ e.url = run.crawl.entries[i].url /\ e.depth = run.crawl.entries[i].depth
              /\ e.state = "SKIPPED" /\ e.why = code
            BY <3>1, EntryChanges
        <3> QED BY <3>2, <3>3, Zenon
    <2>2. run'.crawl.entries[i] = IF run.crawl.entries[i].state = "QUEUED" THEN s ELSE run.crawl.entries[i]
        BY <1>5, <1>7
    <2> HIDE DEF s
    <2> QED BY <2>1, <2>2
<1>9. Remarked(run.crawl, run'.crawl)
    <2> SUFFICES ASSUME NEW i \in DOMAIN run.crawl.entries
                 PROVE  LET e == run.crawl.entries[i]
                            d == run'.crawl.entries[i] IN
                        /\ d.url = e.url /\ d.depth = e.depth
                        /\ d.state = "AUDITED" <=> e.state = "AUDITED"
                        /\ d.state = "SKIPPED" <=> d.why # "NONE"
                        /\ isLeftToAudit(d) => isLeftToAudit(e)
                        /\ d.why = "MAX_PAGES_REACHED" =>
                             e.why = "MAX_PAGES_REACHED" \/ Len(run.crawl.completed) = MaxPages
        BY <1>5, <1>7 DEF Remarked
    <2>1. CASE run.crawl.entries[i].state = "QUEUED"
        BY <1>4, <1>8, <2>1 DEF isLeftToAudit
    <2>2. CASE run.crawl.entries[i].state # "QUEUED"
        BY <1>1, <1>8, <2>2 DEF Good, EntriesOK
    <2> QED BY <2>1, <2>2
<1>10. GoesOn
    BY <1>2, <1>3, <1>7, <1>9 DEF GoesOn, InRun
<1>11. NoneInAudit' /\ InState(run'.crawl, "QUEUED") = {} /\ PutOff(run'.crawl) = {}
    <2>1. \A i \in DOMAIN run.crawl.entries : run.crawl.entries[i].state # "AUDITING" /\ run.crawl.entries[i].why \notin RequeueCodes
        BY <1>3 DEF NoneInAudit, InState, PutOff
    <2>2. \A i \in DOMAIN run.crawl.entries :
            run'.crawl.entries[i].state \notin {"AUDITING", "QUEUED"} /\ run'.crawl.entries[i].why \notin RequeueCodes
        <3> SUFFICES ASSUME NEW i \in DOMAIN run.crawl.entries
                     PROVE  run'.crawl.entries[i].state \notin {"AUDITING", "QUEUED"} /\ run'.crawl.entries[i].why \notin RequeueCodes
            OBVIOUS
        <3>1. CASE run.crawl.entries[i].state = "QUEUED"
            BY <1>4, <1>8, <3>1
        <3>2. CASE run.crawl.entries[i].state # "QUEUED"
            BY <1>8, <2>1, <3>2
        <3> QED BY <3>1, <3>2
    <2>3. DOMAIN run'.crawl.entries = DOMAIN run.crawl.entries
        BY <1>5, <1>7
    <2> QED BY <2>2, <2>3 DEF NoneInAudit, InState, PutOff
<1>12. PhaseOK'
    BY <1>3, <1>7, <1>11
    DEF PhaseOK, BeforeTheLoop, InTheLoop, InASave, AtTheEnd, InRun, Counted, IsSaved
<1> QED BY <1>10, <1>12, GoingOnKeepsFiles DEF SteadyInv

(* A page that is discovered is queued, unless it is too deep.              *)
LEMMA DiscoveredIsNew ==
    ASSUME NEW url \in Urls, NEW depth \in 0 .. MaxDepth + 1
    PROVE  LET e == Discovered(url, depth) IN
           /\ e \in Entries /\ e.url = url /\ e.depth = depth
           /\ IF depth > MaxDepth THEN e.state = "SKIPPED" /\ e.why = "MAX_DEPTH_REACHED"
              ELSE e.state = "QUEUED" /\ e.why = "NONE"
<1> PICK no \in BOOLEAN : no = FALSE
    OBVIOUS
<1>1. CASE depth > MaxDepth
    <2>1. Discovered(url, depth) = [url |-> url, depth |-> depth, state |-> "SKIPPED", why |-> "MAX_DEPTH_REACHED", detail |-> no]
        BY <1>1, Zenon DEF Discovered
    <2> QED BY <1>1, <2>1 DEF Entries, OtherCodes
<1>2. CASE ~(depth > MaxDepth)
    <2>1. Discovered(url, depth) = [url |-> url, depth |-> depth, state |-> "QUEUED", why |-> "NONE", detail |-> no]
        BY <1>2, Zenon DEF Discovered
    <2> QED BY <1>2, <2>1 DEF Entries
<1> QED BY <1>1, <1>2

(* The first page of a Run                                                  *)
LEMMA StartIsDiscovered ==
    /\ <<Discovered(Start, 0)>> \in Seq(Entries)
    /\ Discovered(Start, 0).depth = 0 /\ Discovered(Start, 0).state = "QUEUED" /\ Discovered(Start, 0).why = "NONE"
<1>1. 0 \in 0 .. MaxDepth + 1 /\ ~(0 > MaxDepth) /\ Start \in Urls
    BY CrawlAssumption
<1>2. PICK e : e = Discovered(Start, 0)
    OBVIOUS
<1>3. e \in Entries /\ e.depth = 0 /\ e.state = "QUEUED" /\ e.why = "NONE"
    BY <1>1, <1>2, DiscoveredIsNew
<1>4. <<e>> \in Seq(Entries)
    BY <1>3
<1> QED BY <1>2, <1>3, <1>4

(* A new Run knows its start URL, and nothing of it is begun.               *)
LEMMA FirstCrawlIsGood ==
    ASSUME NEW c \in CrawlRecord, c.entries = <<Discovered(Start, 0)>>, c.completed = <<>>
    PROVE  /\ Good(c) /\ PutOff(c) = {} /\ InState(c, "AUDITING") = {}
<1>2. DOMAIN c.entries = {1} /\ c.entries[1] = Discovered(Start, 0)
    OBVIOUS
<1>3. c.entries[1].state = "QUEUED" /\ c.entries[1].why = "NONE" /\ c.entries[1].depth = 0
    BY <1>2, StartIsDiscovered
<1>4. DOMAIN c.completed = {} /\ Len(c.completed) = 0
    OBVIOUS
<1>5. PutOff(c) = {} /\ InState(c, "AUDITING") = {} /\ InState(c, "AUDITED") = {}
    BY <1>2, <1>3 DEF PutOff, InState, RequeueCodes
<1>6. Good(c)
    BY <1>2, <1>3, <1>4, <1>5, CrawlAssumption DEF Good, EntriesOK, OrderOK, LimitOK, Left
<1> QED BY <1>5, <1>6

(* The preflight passes: a new Run gets its start URL.                      *)
LEMMA PreflightPassesKeepsInv == ASSUME SteadyInv, NEW bad \in BOOLEAN, PreflightPasses(bad) PROVE SteadyInv'
<1>1. Types /\ FilesOK /\ MemoryOK /\ PhaseOK /\ Good(run.crawl) /\ run \in RunRecord
    BY MemoryTypes DEF SteadyInv, MemoryOK
<1>2. run.pc = "PREFLIGHT" /\ UNCHANGED <<disk, down>> /\ faults' \in 0 .. MaxFaults
    <2>1. Fault \/ Smooth
        BY DEF PreflightPasses
    <2> QED BY <1>1, <2>1, FaultsAreCounted DEF PreflightPasses, At
<1>3. /\ Undisturbed /\ run.page = 0 /\ Counted /\ IsSaved /\ NoneInAudit /\ PutOff(run.crawl) = {}
      /\ run.saved = run.last /\ ~run.preflightFailed
      /\ run.saved = NoFile => run.crawl = NoCrawl
    BY <1>1, <1>2 DEF PhaseOK, BeforeTheLoop
<1>4. PICK violation \in BOOLEAN : violation = (run.crawl.violation \/ bad)
    OBVIOUS
<1>5. PICK found : found = [run EXCEPT !.pc = "METADATA", !.crawl.violation = violation]
    OBVIOUS
<1>6. run' = IF Resumed THEN found ELSE [found EXCEPT !.crawl.entries = <<Discovered(Start, 0)>>]
    BY <1>4, <1>5, Zenon DEF PreflightPasses
<1>7. /\ found \in RunRecord /\ found.crawl \in CrawlRecord /\ found.crawl.entries = run.crawl.entries
      /\ found.crawl.completed = run.crawl.completed /\ found.crawl.started = run.crawl.started
      /\ found.crawl.violation = violation
      /\ found.saved = run.saved /\ found.last = run.last /\ found.page = run.page /\ found.pc = "METADATA"
      /\ found.failed = run.failed /\ found.unavailable = run.unavailable /\ found.lost = run.lost
      /\ found.preflightFailed = run.preflightFailed
    BY <1>1, <1>5 DEF RunRecord, CrawlRecord, Steps
<1>8. CASE Resumed
    <2>1. run' = found
        BY <1>6, <1>8
    <2>2. /\ Remarked(run.crawl, run'.crawl) /\ PutOff(run'.crawl) = PutOff(run.crawl)
          /\ InState(run'.crawl, "AUDITING") = InState(run.crawl, "AUDITING")
        BY <1>1, <1>7, <2>1, SameEntriesRemark
    <2>3. GoesOn
        BY <1>2, <1>3, <1>4, <1>7, <2>1, <2>2 DEF GoesOn, InRun, Undisturbed
    <2>4. PhaseOK'
        BY <1>3, <1>7, <2>1, <2>2
        DEF PhaseOK, BeforeTheLoop, InTheLoop, InASave, AtTheEnd, InRun, Counted, IsSaved, NoneInAudit, Undisturbed
    <2> QED BY <2>3, <2>4, GoingOnKeepsFiles DEF SteadyInv
<1>9. CASE ~Resumed
    <2>1. run.saved = NoFile /\ run.last = NoFile /\ run.crawl = NoCrawl
        BY <1>3, <1>9 DEF Resumed
    <2>3. PICK es \in Seq(Entries) : es = <<Discovered(Start, 0)>>
        BY StartIsDiscovered
    <2>4. run' = [found EXCEPT !.crawl.entries = es]
        BY <1>6, <1>9, <2>3
    <2>5. /\ run' \in RunRecord /\ run'.crawl \in CrawlRecord /\ run'.crawl.entries = es
          /\ run'.crawl.completed = found.crawl.completed /\ run'.crawl.started = found.crawl.started
          /\ run'.saved = run.saved /\ run'.last = run.last /\ run'.page = run.page /\ run'.pc = "METADATA"
          /\ run'.failed = run.failed /\ run'.unavailable = run.unavailable /\ run'.lost = run.lost
          /\ run'.preflightFailed = run.preflightFailed
        BY <1>7, <2>4 DEF RunRecord, CrawlRecord
    <2>6. run'.crawl.completed = <<>> /\ run'.crawl.started = 0
        BY <1>7, <2>1, <2>5, EmptyRecords
    <2>7. Good(run'.crawl) /\ PutOff(run'.crawl) = {} /\ InState(run'.crawl, "AUDITING") = {}
        BY <2>3, <2>5, <2>6, FirstCrawlIsGood
    <2>8. Follows(run'.last.crawl, run'.crawl)
        BY <2>1, <2>5, EmptyRecords, EmptyIsGood
    <2>9. Types' /\ FilesOK'
        BY <1>1, <1>2, <2>5 DEF Types, FilesOK, PagesMatch
    <2>10. Newest' = Newest /\ InRun /\ DOMAIN run'.crawl.completed = {}
        BY <1>2, <2>6 DEF Newest, InRun
    <2>11. MemoryOK'
        BY <1>1, <2>1, <2>5, <2>7, <2>8, <2>10, EmptyRecords DEF MemoryOK
    <2>12. PhaseOK'
        BY <1>3, <2>1, <2>5, <2>6, <2>7, EmptyRecords
        DEF PhaseOK, BeforeTheLoop, InTheLoop, InASave, AtTheEnd, InRun, Counted, IsSaved, NoneInAudit, Undisturbed
    <2> QED BY <2>9, <2>11, <2>12 DEF SteadyInv
<1> QED BY <1>8, <1>9

(* What a page that is kept makes of the crawl: it is audited and has a     *)
(* result, and its links that are new come last, one deeper than it.        *)
Kept(c, d, p, links) ==
    /\ d.completed = Append(c.completed, p)
    /\ DOMAIN d.entries = 1 .. Len(c.entries) + Len(links)
    /\ \A i \in DOMAIN c.entries :
          /\ d.entries[i].url = c.entries[i].url /\ d.entries[i].depth = c.entries[i].depth
          /\ d.entries[i].why = c.entries[i].why
          /\ d.entries[i].state = IF i = p THEN "AUDITED" ELSE c.entries[i].state
    /\ \A i \in DOMAIN d.entries \ DOMAIN c.entries :
          d.entries[i] = Discovered(links[i - Len(c.entries)], c.entries[p].depth + 1)

(* Links found on one page are new, and each is found once.                 *)
NewLinks(c, links) ==
    /\ links \in Seq(Urls)
    /\ \A i, j \in DOMAIN links : links[i] = links[j] => i = j
    /\ \A i \in DOMAIN links, j \in DOMAIN c.entries : links[i] # c.entries[j].url

(* The crawl is good after the first page that is left was kept.            *)
LEMMA KeptPageIsGood ==
    ASSUME NEW c \in CrawlRecord, NEW d \in CrawlRecord, Good(c), PutOff(c) = {}, NEW p \in Left(c),
           \A j \in Left(c) : p <= j, InState(c, "AUDITING") = {p}, Len(c.completed) < MaxPages,
           NEW links, NewLinks(c, links), Kept(c, d, p, links)
    PROVE  /\ Good(d) /\ PutOff(d) = {} /\ InState(d, "AUDITING") = {}
           /\ \A f \in CrawlRecord : Good(f) /\ Follows(f, c) => Follows(f, d)
           /\ Len(d.completed) = Len(c.completed) + 1
           /\ \A k \in DOMAIN c.completed :
                 k \in DOMAIN d.completed /\ d.completed[k] = c.completed[k]
                 /\ d.entries[d.completed[k]].url = c.entries[c.completed[k]].url
<1> DEFINE depth == c.entries[p].depth + 1
<1>1. /\ Len(c.entries) \in Nat /\ DOMAIN c.entries = 1 .. Len(c.entries)
      /\ Len(c.completed) \in Nat /\ DOMAIN c.completed = 1 .. Len(c.completed)
      /\ Len(links) \in Nat /\ DOMAIN links = 1 .. Len(links)
    BY LenProperties DEF CrawlRecord, NewLinks
<1>2. /\ Len(d.completed) = Len(c.completed) + 1 /\ DOMAIN d.completed = 1 .. Len(c.completed) + 1
      /\ d.completed[Len(c.completed) + 1] = p
      /\ \A k \in DOMAIN c.completed : k \in DOMAIN d.completed /\ d.completed[k] = c.completed[k]
    <2>1. c.completed \in Seq(Nat) /\ p \in Nat
        BY <1>1 DEF CrawlRecord, Left
    <2> QED BY <1>1, <2>1, AppendProperties DEF Kept
<1>3. /\ p \in DOMAIN c.entries /\ c.entries[p].state = "AUDITING" /\ c.entries[p].why = "NONE"
      /\ c.entries[p].depth \in Nat /\ depth \in 0 .. MaxDepth + 1
    <2>1. p \in DOMAIN c.entries /\ c.entries[p].state = "AUDITING"
        BY DEF InState, Left
    <2>2. c.entries[p].why = "NONE"
        BY <2>1 DEF Good, EntriesOK
    <2>3. c.entries[p].depth \in 0 .. MaxDepth + 1
        <3>1. c.entries[p] \in Entries
            BY <1>1, <2>1, ElementOfSeq DEF CrawlRecord
        <3> QED BY <3>1 DEF Entries
    <2>4. c.entries[p].depth <= MaxDepth
        BY DEF Good, OrderOK
    <2> QED BY <2>1, <2>2, <2>3, <2>4, CrawlAssumption
<1>4. ASSUME NEW i \in DOMAIN c.entries
      PROVE  /\ d.entries[i].url = c.entries[i].url /\ d.entries[i].depth = c.entries[i].depth
             /\ d.entries[i].why = c.entries[i].why /\ c.entries[i].depth \in Nat
             /\ i = p => d.entries[i].state = "AUDITED"
             /\ i # p => d.entries[i].state = c.entries[i].state /\ d.entries[i].state # "AUDITING"
             /\ i \in DOMAIN d.entries
    <2>1. c.entries[i].depth \in Nat
        <3>1. c.entries[i] \in Entries
            BY <1>1, ElementOfSeq DEF CrawlRecord
        <3> QED BY <3>1, CrawlAssumption DEF Entries
    <2> QED BY <1>1, <2>1 DEF Kept, InState
<1>5. ASSUME NEW i \in DOMAIN d.entries, i \notin DOMAIN c.entries
      PROVE  /\ i > Len(c.entries) /\ i \in Nat /\ i - Len(c.entries) \in DOMAIN links
             /\ d.entries[i].url = links[i - Len(c.entries)] /\ d.entries[i].depth = depth
             /\ d.entries[i].state \notin {"AUDITED", "AUDITING"} /\ d.entries[i].why \in {"NONE", "MAX_DEPTH_REACHED"}
             /\ d.entries[i].state = "SKIPPED" <=> d.entries[i].why # "NONE"
             /\ d.entries[i].state = "QUEUED" => depth <= MaxDepth
    <2>1. i > Len(c.entries) /\ i \in Nat /\ i - Len(c.entries) \in DOMAIN links
        BY <1>1, <1>5 DEF Kept
    <2>2. links[i - Len(c.entries)] \in Urls
        BY <1>1, <2>1, ElementOfSeq DEF NewLinks
    <2>3. d.entries[i] = Discovered(links[i - Len(c.entries)], depth)
        BY <1>5 DEF Kept
    <2> HIDE DEF depth
    <2>4. PICK e : e = Discovered(links[i - Len(c.entries)], depth)
        OBVIOUS
    <2>5. /\ e.url = links[i - Len(c.entries)] /\ e.depth = depth
          /\ IF depth > MaxDepth THEN e.state = "SKIPPED" /\ e.why = "MAX_DEPTH_REACHED"
             ELSE e.state = "QUEUED" /\ e.why = "NONE"
        BY <1>3, <2>2, <2>4, DiscoveredIsNew
    <2>6. depth > MaxDepth \/ depth <= MaxDepth
        BY <1>3, CrawlAssumption
    <2> QED BY <2>1, <2>3, <2>4, <2>5, <2>6
<1>6. \A k \in DOMAIN c.completed : c.completed[k] \in DOMAIN c.entries /\ c.completed[k] # p
    BY <1>3 DEF Good, EntriesOK, InState
<1>7. PutOff(d) = {} /\ InState(d, "AUDITING") = {}
    <2>1. ASSUME NEW i \in DOMAIN d.entries PROVE d.entries[i].state # "AUDITING" /\ d.entries[i].why \notin RequeueCodes
        <3>1. CASE i \in DOMAIN c.entries
            BY <1>4, <3>1 DEF PutOff
        <3>2. CASE i \notin DOMAIN c.entries
            BY <1>5, <3>2 DEF RequeueCodes
        <3> QED BY <3>1, <3>2
    <2> QED BY <2>1 DEF PutOff, InState
<1>8. \A j \in Left(d) : \/ j \in Left(c) /\ p < j /\ j \in DOMAIN c.entries
                         \/ j \in DOMAIN d.entries \ DOMAIN c.entries /\ depth <= MaxDepth
    <2> SUFFICES ASSUME NEW j \in Left(d)
                 PROVE  \/ j \in Left(c) /\ p < j /\ j \in DOMAIN c.entries
                        \/ j \in DOMAIN d.entries \ DOMAIN c.entries /\ depth <= MaxDepth
        OBVIOUS
    <2>1. j \in DOMAIN d.entries /\ d.entries[j].state = "QUEUED"
        BY <1>7 DEF Left, isLeftToAudit, PutOff, InState
    <2>2. CASE j \in DOMAIN c.entries
        <3>1. j # p /\ c.entries[j].state = "QUEUED"
            BY <1>4, <2>1, <2>2
        <3>2. j \in Left(c)
            BY <2>2, <3>1 DEF Left, isLeftToAudit
        <3> QED BY <1>1, <1>3, <2>2, <3>1, <3>2
    <2>3. CASE j \notin DOMAIN c.entries
        BY <1>5, <2>1, <2>3
    <2> QED BY <2>2, <2>3
<1> HIDE DEF depth
<1>9. EntriesOK(d)
    <2>1. ASSUME NEW i \in DOMAIN d.entries, NEW j \in DOMAIN d.entries, d.entries[i].url = d.entries[j].url PROVE i = j
        <3>1. CASE i \in DOMAIN c.entries /\ j \in DOMAIN c.entries
            BY <1>4, <2>1, <3>1 DEF Good, EntriesOK
        <3>2. CASE i \in DOMAIN c.entries /\ j \notin DOMAIN c.entries
            BY <1>4, <1>5, <2>1, <3>2 DEF NewLinks
        <3>3. CASE i \notin DOMAIN c.entries /\ j \in DOMAIN c.entries
            BY <1>4, <1>5, <2>1, <3>3 DEF NewLinks
        <3>4. CASE i \notin DOMAIN c.entries /\ j \notin DOMAIN c.entries
            <4>1. i - Len(c.entries) = j - Len(c.entries)
                BY <1>5, <2>1, <3>4 DEF NewLinks
            <4> QED BY <1>1, <1>5, <3>4, <4>1
        <3> QED BY <3>1, <3>2, <3>3, <3>4
    <2>2. ASSUME NEW i \in DOMAIN d.entries PROVE d.entries[i].state = "SKIPPED" <=> d.entries[i].why # "NONE"
        <3>1. CASE i \in DOMAIN c.entries /\ i # p
            BY <1>4, <3>1 DEF Good, EntriesOK
        <3>2. CASE i = p
            BY <1>3, <1>4, <3>2
        <3>3. CASE i \notin DOMAIN c.entries
            BY <1>5, <3>3
        <3> QED BY <3>1, <3>2, <3>3
    <2>3. ASSUME NEW k \in DOMAIN d.completed PROVE d.completed[k] \in InState(d, "AUDITED")
        <3>1. CASE k = Len(c.completed) + 1
            BY <1>2, <1>3, <1>4, <3>1 DEF InState
        <3>2. CASE k # Len(c.completed) + 1
            <4>1. k \in DOMAIN c.completed /\ d.completed[k] = c.completed[k]
                BY <1>1, <1>2, <3>2
            <4>2. c.completed[k] \in DOMAIN c.entries /\ c.completed[k] # p /\ c.entries[c.completed[k]].state = "AUDITED"
                BY <1>6, <4>1 DEF Good, EntriesOK, InState
            <4> QED BY <1>4, <4>1, <4>2 DEF InState
        <3> QED BY <3>1, <3>2
    <2>4. ASSUME NEW i \in InState(d, "AUDITED") PROVE \E k \in DOMAIN d.completed : d.completed[k] = i
        <3>1. i \in DOMAIN d.entries /\ d.entries[i].state = "AUDITED"
            BY DEF InState
        <3>2. i \in DOMAIN c.entries
            BY <1>5, <3>1
        <3>3. CASE i = p
            BY <1>1, <1>2, <3>3
        <3>4. CASE i # p
            <4>1. i \in InState(c, "AUDITED")
                BY <1>4, <3>1, <3>2, <3>4 DEF InState
            <4>2. PICK k \in DOMAIN c.completed : c.completed[k] = i
                BY <4>1 DEF Good, EntriesOK
            <4> QED BY <1>2, <4>2
        <3> QED BY <3>3, <3>4
    <2> QED BY <2>1, <2>2, <2>3, <2>4 DEF EntriesOK
<1>10. OrderOK(d)
    <2>1. /\ \A i \in DOMAIN c.entries : c.entries[i].depth <= depth
          /\ \A j \in DOMAIN c.entries : p < j => depth <= c.entries[j].depth + 1
        BY <1>1, <1>3, <1>4 DEF Good, OrderOK, depth
    <2>2. depth \in Nat
        BY <1>3, CrawlAssumption
    <2>3. ASSUME NEW i \in DOMAIN d.entries, NEW j \in DOMAIN d.entries, i < j PROVE d.entries[i].depth <= d.entries[j].depth
        <3>1. CASE j \in DOMAIN c.entries
            <4>1. i \in DOMAIN c.entries
                BY <1>1, <1>5, <2>3, <3>1
            <4> QED BY <1>4, <2>3, <3>1, <4>1 DEF Good, OrderOK
        <3>2. CASE i \in DOMAIN c.entries /\ j \notin DOMAIN c.entries
            BY <1>4, <1>5, <2>1, <3>2
        <3>3. CASE i \notin DOMAIN c.entries /\ j \notin DOMAIN c.entries
            BY <1>5, <2>2, <3>3
        <3> QED BY <3>1, <3>2, <3>3
    <2>4. ASSUME NEW i \in DOMAIN d.entries, NEW j \in Left(d) PROVE d.entries[i].depth <= d.entries[j].depth + 1
        <3>1. CASE i \in DOMAIN c.entries /\ j \in Left(c) /\ j \in DOMAIN c.entries
            BY <1>4, <3>1 DEF Good, OrderOK
        <3>2. CASE i \notin DOMAIN c.entries /\ j \in DOMAIN c.entries /\ p < j
            BY <1>4, <1>5, <2>1, <3>2
        <3>3. CASE i \in DOMAIN c.entries /\ j \in DOMAIN d.entries \ DOMAIN c.entries
            BY <1>4, <1>5, <2>1, <2>2, <3>3
        <3>4. CASE i \notin DOMAIN c.entries /\ j \in DOMAIN d.entries \ DOMAIN c.entries
            BY <1>5, <2>2, <3>4
        <3> QED BY <1>8, <3>1, <3>2, <3>3, <3>4
    <2>5. ASSUME NEW j \in Left(d) PROVE d.entries[j].depth <= MaxDepth
        <3>1. CASE j \in Left(c) /\ j \in DOMAIN c.entries
            BY <1>4, <3>1 DEF Good, OrderOK
        <3>2. CASE j \in DOMAIN d.entries \ DOMAIN c.entries /\ depth <= MaxDepth
            BY <1>5, <3>2
        <3> QED BY <1>8, <3>1, <3>2
    <2>6. ASSUME NEW k \in DOMAIN d.completed, NEW l \in DOMAIN d.completed, k < l PROVE d.completed[k] < d.completed[l]
        <3>1. k \in DOMAIN c.completed
            BY <1>1, <1>2, <2>6
        <3>2. CASE l \in DOMAIN c.completed
            BY <1>2, <2>6, <3>1, <3>2 DEF Good, OrderOK
        <3>3. CASE l \notin DOMAIN c.completed
            <4>1. d.completed[l] = p
                BY <1>1, <1>2, <3>3
            <4> QED BY <1>2, <3>1, <4>1 DEF Good, OrderOK
        <3> QED BY <3>2, <3>3
    <2>7. ASSUME NEW k \in DOMAIN d.completed, NEW j \in Left(d) PROVE d.completed[k] < j
        <3>1. d.completed[k] \in DOMAIN c.entries
            <4>1. CASE k \in DOMAIN c.completed
                BY <1>2, <1>6, <4>1
            <4>2. CASE k \notin DOMAIN c.completed
                BY <1>1, <1>2, <1>3, <4>2
            <4> QED BY <4>1, <4>2
        <3>2. CASE j \in DOMAIN d.entries \ DOMAIN c.entries
            BY <1>1, <1>5, <3>1, <3>2
        <3>3. CASE j \in Left(c) /\ p < j
            <4>1. CASE k \in DOMAIN c.completed
                BY <1>2, <3>3, <4>1 DEF Good, OrderOK
            <4>2. CASE k \notin DOMAIN c.completed
                BY <1>1, <1>2, <3>3, <4>2
            <4> QED BY <4>1, <4>2
        <3> QED BY <1>8, <3>2, <3>3
    <2> QED BY <2>3, <2>4, <2>5, <2>6, <2>7 DEF OrderOK
<1>11. LimitOK(d)
    <2>1. ASSUME NEW i \in DOMAIN d.entries PROVE d.entries[i].why # "MAX_PAGES_REACHED"
        <3>1. CASE i \in DOMAIN c.entries
            BY <1>1, <1>4, <3>1, CrawlAssumption DEF Good, LimitOK
        <3>2. CASE i \notin DOMAIN c.entries
            BY <1>5, <3>2
        <3> QED BY <3>1, <3>2
    <2> QED BY <1>1, <1>2, <2>1, CrawlAssumption DEF LimitOK
<1>12. \A k \in DOMAIN c.completed : d.entries[d.completed[k]].url = c.entries[c.completed[k]].url
    BY <1>2, <1>4, <1>6
<1>13. ASSUME NEW f \in CrawlRecord, Good(f), Follows(f, c) PROVE Follows(f, d)
    <2>1. DOMAIN f.completed = 1 .. Len(f.completed) /\ Len(f.completed) \in Nat
        BY LenProperties DEF CrawlRecord
    <2>2. \A k \in DOMAIN f.completed : k \in DOMAIN c.completed
        BY <1>1, <1>13, <2>1 DEF Follows
    <2>3. Len(f.completed) <= Len(d.completed)
        BY <1>1, <1>2, <1>13, <2>1 DEF Follows
    <2>4. ASSUME NEW k \in DOMAIN f.completed
          PROVE  d.completed[k] = f.completed[k] /\ d.entries[f.completed[k]].url = f.entries[f.completed[k]].url
        <3>1. k \in DOMAIN c.completed /\ c.completed[k] = f.completed[k]
              /\ c.entries[f.completed[k]].url = f.entries[f.completed[k]].url
            BY <1>13, <2>2 DEF Follows
        <3>2. d.completed[k] = c.completed[k] /\ d.entries[d.completed[k]].url = c.entries[c.completed[k]].url
            BY <1>2, <1>12, <3>1
        <3> QED BY <3>1, <3>2
    <2> QED BY <2>3, <2>4 DEF Follows
<1> QED BY <1>2, <1>7, <1>9, <1>10, <1>11, <1>12, <1>13 DEF Good

(* The links of a page are among the URLs not known yet, each once.         *)
LEMMA OrdersAreNew ==
    ASSUME NEW crawl, NEW links \in Orders(Unknown(crawl.entries))
    PROVE  NewLinks(crawl, links)
<1>1. PICK n \in 0 .. Cardinality(Unknown(crawl.entries)) :
        links \in [1 .. n -> Unknown(crawl.entries)] /\ \A i, j \in 1 .. n : links[i] = links[j] => i = j
    BY DEF Orders
<1>2. n \in Nat /\ Unknown(crawl.entries) \subseteq Urls
    BY DEF Unknown
<1>3. links \in [1 .. n -> Urls] /\ DOMAIN links = 1 .. n
    BY <1>1, <1>2
<1>4. links \in Seq(Urls)
    BY <1>2, <1>3, SeqDef
<1>5. \A i \in DOMAIN links, j \in DOMAIN crawl.entries : links[i] # crawl.entries[j].url
    <2>1. \A i \in DOMAIN links : links[i] \in Unknown(crawl.entries)
        BY <1>1
    <2> QED BY <2>1 DEF Unknown
<1> QED BY <1>1, <1>3, <1>4, <1>5 DEF NewLinks

(* What is discovered comes after what is known.                            *)
LEMMA DiscoverAppends ==
    ASSUME NEW entries \in Seq(Entries), NEW links \in Seq(Urls), NEW depth \in 0 .. MaxDepth + 1
    PROVE  /\ discover(entries, links, depth) \in Seq(Entries)
           /\ DOMAIN discover(entries, links, depth) = 1 .. Len(entries) + Len(links)
           /\ \A i \in DOMAIN entries : discover(entries, links, depth)[i] = entries[i]
           /\ \A i \in (1 .. Len(entries) + Len(links)) \ DOMAIN entries :
                 discover(entries, links, depth)[i] = Discovered(links[i - Len(entries)], depth)
<1> DEFINE found == [i \in 1 .. Len(links) |-> Discovered(links[i], depth)]
           all == entries \o found
<1>1. Len(entries) \in Nat /\ DOMAIN entries = 1 .. Len(entries) /\ Len(links) \in Nat /\ DOMAIN links = 1 .. Len(links)
    BY LenProperties
<1>2. \A i \in 1 .. Len(links) : Discovered(links[i], depth) \in Entries
    <2>1. ASSUME NEW i \in 1 .. Len(links) PROVE Discovered(links[i], depth) \in Entries
        <3>1. links[i] \in Urls
            BY <1>1, ElementOfSeq
        <3> QED BY <3>1, DiscoveredIsNew
    <2> QED BY <2>1
<1>3. found \in [1 .. Len(links) -> Entries] /\ \A i \in 1 .. Len(links) : found[i] = Discovered(links[i], depth)
    BY <1>2
<1> HIDE DEF found
<1>4. found \in Seq(Entries)
    BY <1>1, <1>3, SeqDef
<1>5. Len(found) = Len(links)
    BY <1>1, <1>3, <1>4, LenProperties
<1>6. /\ all \in Seq(Entries) /\ Len(all) = Len(entries) + Len(found)
      /\ \A i \in 1 .. Len(entries) + Len(found) :
            all[i] = IF i <= Len(entries) THEN entries[i] ELSE found[i - Len(entries)]
    BY <1>4, ConcatProperties
<1>7. discover(entries, links, depth) = all
    BY DEF discover, found
<1> HIDE DEF all
<1>8. DOMAIN all = 1 .. Len(entries) + Len(links)
    BY <1>5, <1>6, LenProperties
<1>9. \A i \in DOMAIN entries : all[i] = entries[i]
    BY <1>1, <1>5, <1>6
<1>10. ASSUME NEW i \in (1 .. Len(entries) + Len(links)) \ DOMAIN entries
       PROVE  all[i] = Discovered(links[i - Len(entries)], depth)
    <2>1. i - Len(entries) \in 1 .. Len(links) /\ ~(i <= Len(entries)) /\ i \in 1 .. Len(entries) + Len(found)
        BY <1>1, <1>5
    <2> QED BY <1>3, <1>6, <2>1
<1> QED BY <1>6, <1>7, <1>8, <1>9, <1>10

(* The entries when the page in audit has ended, and its links are          *)
(* discovered                                                               *)
Ended(links) == discover([run.crawl.entries EXCEPT ![run.page].state = "AUDITED"], links, Page.depth + 1)

(* What they are                                                            *)
EndedOK(es, links) ==
    /\ es \in Seq(Entries) /\ DOMAIN es = 1 .. Len(run.crawl.entries) + Len(links)
    /\ \A i \in DOMAIN run.crawl.entries :
          /\ es[i].url = run.crawl.entries[i].url /\ es[i].depth = run.crawl.entries[i].depth
          /\ es[i].why = run.crawl.entries[i].why
          /\ es[i].state = IF i = run.page THEN "AUDITED" ELSE run.crawl.entries[i].state
    /\ \A i \in DOMAIN es \ DOMAIN run.crawl.entries :
          es[i] = Discovered(links[i - Len(run.crawl.entries)], Page.depth + 1)
    /\ run.page \in DOMAIN run.crawl.entries /\ run.page \in Nat /\ NewLinks(run.crawl, links)

(* That is what the entries are when the page in audit has ended.           *)
LEMMA EndedPageEntries ==
    ASSUME SteadyInv, run.pc = "AUDIT", NEW links \in Orders(Unknown(run.crawl.entries))
    PROVE  EndedOK(Ended(links), links)
<1> PICK es : es = Ended(links)
    OBVIOUS
<1> DEFINE old == run.crawl.entries[run.page]
           base == [run.crawl.entries EXCEPT ![run.page].state = "AUDITED"]
<1>1. Types /\ MemoryOK /\ PhaseOK /\ Good(run.crawl) /\ run \in RunRecord
    BY MemoryTypes DEF SteadyInv, MemoryOK
<1>3. run.page \in Left(run.crawl)
    BY <1>1 DEF PhaseOK, InTheLoop, AtPage
<1>4. NewLinks(run.crawl, links)
    BY OrdersAreNew
<1>5. run.page \in DOMAIN run.crawl.entries /\ run.page \in Nat
    BY <1>1, <1>3, MemoryTypes DEF Left
<1>6. old \in Entries /\ old.depth + 1 \in 0 .. MaxDepth + 1
    <2>1. old \in Entries
        BY <1>1, <1>5, MemoryTypes
    <2>2. old.depth <= MaxDepth
        BY <1>1, <1>3 DEF Good, OrderOK
    <2> QED BY <2>1, <2>2, CrawlAssumption DEF Entries
<1>7. /\ base \in Seq(Entries) /\ Len(base) = Len(run.crawl.entries) /\ DOMAIN base = DOMAIN run.crawl.entries
      /\ \A i \in DOMAIN run.crawl.entries :
            base[i] = IF i = run.page THEN [old EXCEPT !.state = "AUDITED"] ELSE run.crawl.entries[i]
    <2>1. PICK e : e = [old EXCEPT !.state = "AUDITED"]
        OBVIOUS
    <2>2. e \in Entries
        BY <1>6, <2>1 DEF Entries
    <2>3. base = [run.crawl.entries EXCEPT ![run.page] = e]
        BY <2>1
    <2> HIDE DEF base
    <2>4. base \in Seq(Entries) /\ Len(base) = Len(run.crawl.entries)
        BY <1>1, <1>5, <2>2, <2>3, MemoryTypes, ExceptSeq
    <2>5. DOMAIN base = DOMAIN run.crawl.entries
          /\ \A i \in DOMAIN run.crawl.entries : base[i] = IF i = run.page THEN e ELSE run.crawl.entries[i]
        BY <2>3
    <2> QED BY <2>1, <2>4, <2>5
<1> HIDE DEF base
<1>8. PICK depth : es = discover(base, links, depth) /\ depth = old.depth + 1
    BY DEF base, Page, Ended
<1>9. /\ es \in Seq(Entries) /\ DOMAIN es = 1 .. Len(run.crawl.entries) + Len(links)
      /\ \A i \in DOMAIN run.crawl.entries : es[i] = base[i]
      /\ \A i \in DOMAIN es \ DOMAIN run.crawl.entries :
            es[i] = Discovered(links[i - Len(run.crawl.entries)], depth)
    <2>1. depth \in 0 .. MaxDepth + 1 /\ links \in Seq(Urls)
        BY <1>4, <1>6, <1>8 DEF NewLinks
    <2>2. /\ es \in Seq(Entries)
          /\ DOMAIN es = 1 .. Len(base) + Len(links)
          /\ \A i \in DOMAIN base : es[i] = base[i]
          /\ \A i \in (1 .. Len(base) + Len(links)) \ DOMAIN base : es[i] = Discovered(links[i - Len(base)], depth)
        <3> DEFINE Appended(entries, found, d, all) ==
                /\ all \in Seq(Entries)
                /\ DOMAIN all = 1 .. Len(entries) + Len(found)
                /\ \A i \in DOMAIN entries : all[i] = entries[i]
                /\ \A i \in (1 .. Len(entries) + Len(found)) \ DOMAIN entries : all[i] = Discovered(found[i - Len(entries)], d)
        <3>1. \A entries \in Seq(Entries), found \in Seq(Urls), d \in 0 .. MaxDepth + 1 :
                  Appended(entries, found, d, discover(entries, found, d))
            BY DiscoverAppends
        <3> HIDE DEF Appended
        <3>2. Appended(base, links, depth, es)
            BY <1>7, <1>8, <2>1, <3>1
        <3> QED BY <3>2 DEF Appended
    <2> QED BY <1>7, <2>2
<1>10. ASSUME NEW i \in DOMAIN run.crawl.entries
      PROVE  /\ es[i].url = run.crawl.entries[i].url /\ es[i].depth = run.crawl.entries[i].depth
             /\ es[i].why = run.crawl.entries[i].why
             /\ es[i].state = IF i = run.page THEN "AUDITED" ELSE run.crawl.entries[i].state
    <2>1. CASE i = run.page
        <3>1. PICK e : e = [old EXCEPT !.state = "AUDITED"]
            OBVIOUS
        <3>2. e.url = old.url /\ e.depth = old.depth /\ e.why = old.why /\ e.state = "AUDITED"
            BY <1>6, <3>1 DEF Entries
        <3>3. es[i] = e
            BY <1>7, <1>9, <2>1, <3>1
        <3> QED BY <2>1, <3>2, <3>3
    <2>2. CASE i # run.page
        BY <1>7, <1>9, <2>2
    <2> QED BY <2>1, <2>2
<1> QED BY <1>4, <1>5, <1>8, <1>9, <1>10 DEF Page, EndedOK

(* The crawl with that page among the completed ones is good, and what      *)
(* followed is followed still.                                              *)
OneMore(crawl) ==
    /\ Good(crawl) /\ PutOff(crawl) = {} /\ InState(crawl, "AUDITING") = {}
    /\ \A f \in CrawlRecord : Good(f) /\ Follows(f, run.crawl) => Follows(f, crawl)
    /\ Len(crawl.completed) = Len(run.crawl.completed) + 1
    /\ \A k \in DOMAIN run.crawl.completed :
          k \in DOMAIN crawl.completed /\ crawl.completed[k] = run.crawl.completed[k]
          /\ crawl.entries[crawl.completed[k]].url = run.crawl.entries[run.crawl.completed[k]].url

(* With the ended page among the completed ones the crawl is good, and has  *)
(* one page more.                                                           *)
LEMMA EndedPageIsGood ==
    ASSUME SteadyInv, run.pc = "AUDIT", NEW links \in Orders(Unknown(run.crawl.entries)), NEW crawl \in CrawlRecord,
           crawl.entries = Ended(links), crawl.completed = Append(run.crawl.completed, run.page)
    PROVE  OneMore(crawl)
<1>1. Types /\ Good(run.crawl) /\ run.crawl \in CrawlRecord
    BY MemoryTypes DEF SteadyInv, MemoryOK
<1>2. /\ run.crawl.started = Len(run.crawl.completed) + 1 /\ PutOff(run.crawl) = {}
      /\ run.page \in Left(run.crawl) /\ (\A j \in Left(run.crawl) : run.page <= j)
      /\ InState(run.crawl, "AUDITING") = {run.page}
    BY DEF SteadyInv, PhaseOK, InTheLoop, AtPage
<1>3. Len(run.crawl.completed) < MaxPages
    BY <1>1, <1>2, MemoryTypes, CrawlAssumption
<1>4. PICK es : es = crawl.entries
    OBVIOUS
<1>5. /\ DOMAIN es = 1 .. Len(run.crawl.entries) + Len(links)
      /\ \A i \in DOMAIN run.crawl.entries :
            /\ es[i].url = run.crawl.entries[i].url /\ es[i].depth = run.crawl.entries[i].depth
            /\ es[i].why = run.crawl.entries[i].why
            /\ es[i].state = IF i = run.page THEN "AUDITED" ELSE run.crawl.entries[i].state
      /\ \A i \in DOMAIN es \ DOMAIN run.crawl.entries :
            es[i] = Discovered(links[i - Len(run.crawl.entries)], Page.depth + 1)
      /\ NewLinks(run.crawl, links)
    <2>1. EndedOK(es, links)
        BY <1>4, EndedPageEntries
    <2> QED BY <2>1 DEF EndedOK
<1>6. Kept(run.crawl, crawl, run.page, links)
    BY <1>4, <1>5 DEF Kept, Page
<1> QED BY <1>1, <1>2, <1>3, <1>5, <1>6, KeptPageIsGood DEF OneMore

(* A page has its result: it is one ahead of what is saved.                 *)
LEMMA KeepPageKeepsInv ==
    ASSUME SteadyInv, NEW links \in Orders(Unknown(run.crawl.entries)), NEW unavailable \in BOOLEAN, NEW bad \in BOOLEAN,
           KeepPage(links, unavailable, bad)
    PROVE  SteadyInv'
<1> PICK es : es = Ended(links)
    OBVIOUS
<1>1. Types /\ FilesOK /\ MemoryOK /\ PhaseOK /\ Good(run.crawl) /\ run \in RunRecord
    BY MemoryTypes DEF SteadyInv, MemoryOK
<1>2. run.pc = "AUDIT" /\ UNCHANGED <<disk, down>> /\ faults' \in 0 .. MaxFaults
    <2>1. Fault \/ Smooth
        BY DEF KeepPage
    <2> QED BY <1>1, <2>1, FaultsAreCounted DEF KeepPage, At
<1>3. /\ ~run.failed /\ ~run.lost /\ run.crawl.started = Len(run.crawl.completed) + 1
      /\ IsUnderWay /\ IsSaved /\ PutOff(run.crawl) = {}
      /\ run.page \in Left(run.crawl) /\ (\A j \in Left(run.crawl) : run.page <= j)
      /\ InState(run.crawl, "AUDITING") = {run.page}
    BY <1>1, <1>2 DEF PhaseOK, InTheLoop, Undisturbed, AtPage
<1>4. es \in Seq(Entries) /\ run.page \in Nat
    BY <1>2, EndedPageEntries DEF EndedOK
<1>10. PICK cs : cs = Append(run.crawl.completed, run.page)
    OBVIOUS
<1>11. cs \in Seq(Nat)
    BY <1>1, <1>4, <1>10, MemoryTypes, AppendProperties
<1>12. PICK v \in BOOLEAN, u \in BOOLEAN :
         v = (run.crawl.violation \/ bad) /\ u = (run.unavailable \/ (unavailable /\ ~bad))
    OBVIOUS
<1>13. PICK crawl : crawl = run'.crawl
    OBVIOUS
<1>14. PICK none \in 0 .. MaxRechecks : none = 0
    BY CrawlAssumption
<1>15. run' = [run EXCEPT !.pc = "PAGE", !.page = none, !.rechecks = none, !.unavailable = u,
                         !.crawl.violation = v, !.crawl.completed = cs, !.crawl.entries = es]
    BY <1>10, <1>12, <1>14, Zenon DEF KeepPage, Ended
<1>16. /\ crawl \in CrawlRecord /\ crawl.entries = es /\ crawl.completed = cs /\ crawl.violation = v
       /\ crawl.started = run.crawl.started
    BY <1>1, <1>4, <1>11, <1>13, <1>15 DEF RunRecord, CrawlRecord
<1>17. /\ run' \in RunRecord /\ run'.crawl = crawl /\ run'.saved = run.saved /\ run'.last = run.last
       /\ run'.page = 0 /\ run'.pc = "PAGE" /\ run'.failed = run.failed /\ run'.lost = run.lost
    <2>1. es \in Seq(Entries) /\ none \in 0 .. MaxRechecks /\ none \in Nat
        BY <1>4, <1>14
    <2>2. run' \in RunRecord
        <3>1. PICK begun : begun = [run EXCEPT !.pc = "PAGE", !.page = none, !.rechecks = none, !.unavailable = u]
            OBVIOUS
        <3>2. begun \in RunRecord
            BY <1>1, <2>1, <3>1 DEF RunRecord, Steps
        <3>3. run' = [begun EXCEPT !.crawl.violation = v, !.crawl.completed = cs, !.crawl.entries = es]
            BY <1>15, <3>1, Zenon
        <3> QED BY <1>11, <2>1, <3>2, <3>3 DEF RunRecord, CrawlRecord
    <2>3. /\ run'.saved = run.saved /\ run'.last = run.last /\ run'.page = none /\ run'.pc = "PAGE"
          /\ run'.failed = run.failed /\ run'.lost = run.lost
        BY <1>1, <1>15 DEF RunRecord
    <2> QED BY <1>13, <1>14, <2>2, <2>3
<1>19. Len(run.crawl.completed) \in Nat
    BY <1>1, MemoryTypes
<1>20. /\ Good(crawl) /\ PutOff(crawl) = {} /\ InState(crawl, "AUDITING") = {}
       /\ \A f \in CrawlRecord : Good(f) /\ Follows(f, run.crawl) => Follows(f, crawl)
       /\ Len(crawl.completed) = Len(run.crawl.completed) + 1
       /\ \A k \in DOMAIN run.crawl.completed :
             k \in DOMAIN crawl.completed /\ crawl.completed[k] = run.crawl.completed[k]
             /\ crawl.entries[crawl.completed[k]].url = run.crawl.entries[run.crawl.completed[k]].url
    <2>1. OneMore(crawl)
        BY <1>2, <1>10, <1>16, EndedPageIsGood
    <2> QED BY <2>1 DEF OneMore
<1>21. Types' /\ FilesOK'
    BY <1>1, <1>2, <1>17 DEF Types, FilesOK, PagesMatch
<1>22. MemoryOK'
    <2>1. /\ run.last = Newest /\ Follows(run.last.crawl, run.crawl) /\ Good(run.last.crawl)
          /\ FileOK(run.last) /\ FileOK(run.saved)
          /\ run.last.crawl.violation \/ run.saved.crawl.violation => run.crawl.violation
          /\ \A k \in DOMAIN run.crawl.completed :
                disk.pages[run.crawl.completed[k]] = run.crawl.entries[run.crawl.completed[k]].url
        BY <1>1, <1>2, <1>3 DEF MemoryOK, InRun, FileOK
    <2>2. Follows(run.last.crawl, crawl)
        BY <1>1, <1>20, <2>1, MemoryTypes
    <2>3. ASSUME NEW k \in DOMAIN crawl.completed
          PROVE  disk.pages[crawl.completed[k]] = crawl.entries[crawl.completed[k]].url \/ k = Len(crawl.completed)
        <3>1. DOMAIN crawl.completed = 1 .. Len(crawl.completed) /\ Len(crawl.completed) \in Nat
            BY <1>16, LenProperties DEF CrawlRecord
        <3>2. CASE k \in DOMAIN run.crawl.completed
            BY <1>20, <2>1, <3>2
        <3>3. CASE k \notin DOMAIN run.crawl.completed
            BY <1>1, <1>19, <1>20, <3>1, <3>3, MemoryTypes
        <3> QED BY <3>2, <3>3
    <2>4. Newest' = Newest
        BY <1>2 DEF Newest
    <2> QED BY <1>2, <1>12, <1>16, <1>17, <1>20, <2>1, <2>2, <2>3, <2>4 DEF MemoryOK
<1>23. PhaseOK'
    <2>1. Counted' /\ NoneInAudit'
        BY <1>3, <1>16, <1>17, <1>20 DEF Counted, NoneInAudit
    <2>2. IsOneAhead'
        BY <1>3, <1>17, <1>20 DEF IsOneAhead, IsSaved, IsUnderWay
    <2> QED BY <1>3, <1>17, <1>20, <2>1, <2>2
        DEF PhaseOK, BeforeTheLoop, InTheLoop, InASave, AtTheEnd, InRun
<1> QED BY <1>21, <1>22, <1>23 DEF SteadyInv

(* An exception takes the page away after it has ended: it is audited and   *)
(* not among the completed ones, and nothing is left.                       *)
LEMMA LinksThrowBreaksOff ==
    ASSUME SteadyInv, NEW links \in Orders(Unknown(run.crawl.entries)), NEW bad \in BOOLEAN, LinksThrow(links, bad)
    PROVE  Types' /\ FilesOK' /\ BrokenOff'
<1> PICK es : es = Ended(links)
    OBVIOUS
<1> PICK sk : sk = SkipAll(es, {"QUEUED"}, "EXECUTION_INCOMPLETE")
    OBVIOUS
<1>1. Types /\ FilesOK /\ MemoryOK /\ PhaseOK /\ Good(run.crawl) /\ run \in RunRecord
    BY MemoryTypes DEF SteadyInv, MemoryOK
<1>2. run.pc = "AUDIT" /\ UNCHANGED <<disk, down>> /\ faults' \in 0 .. MaxFaults
    <2>1. Fault /\ run.pc = "AUDIT" /\ UNCHANGED <<disk, down>>
        BY Zenon DEF LinksThrow, At
    <2> QED BY <1>1, <2>1, FaultsAreCounted
<1>3. /\ ~run.failed /\ IsUnderWay /\ PutOff(run.crawl) = {} /\ InState(run.crawl, "AUDITING") = {run.page}
      /\ run.last = Newest /\ FileOK(run.last) /\ FileOK(run.saved)
    BY <1>1, <1>2 DEF PhaseOK, InTheLoop, Undisturbed, MemoryOK, InRun
<1>4. /\ es \in Seq(Entries)
      /\ \A i \in DOMAIN run.crawl.entries :
            es[i].state = IF i = run.page THEN "AUDITED" ELSE run.crawl.entries[i].state
      /\ run.page \in DOMAIN run.crawl.entries /\ run.page \in Nat
      /\ \A i \in DOMAIN run.crawl.entries : i \in DOMAIN es
    <2>1. EndedOK(es, links)
        BY <1>2, EndedPageEntries
    <2>2. Len(links) \in Nat
        BY <2>1, LenProperties DEF NewLinks, EndedOK
    <2>3. \A i \in DOMAIN run.crawl.entries : i \in DOMAIN es
        BY <1>1, <2>1, <2>2, MemoryTypes DEF EndedOK
    <2> QED BY <2>1, <2>3 DEF EndedOK
<1>5. PICK ended \in CrawlRecord : ended.entries = es /\ ended.completed = Append(run.crawl.completed, run.page)
    <2>1. PICK cs \in Seq(Nat) : cs = Append(run.crawl.completed, run.page)
        BY <1>1, <1>4, MemoryTypes, AppendProperties
    <2>2. PICK e : e = [run.crawl EXCEPT !.entries = es, !.completed = cs]
        OBVIOUS
    <2>3. e \in CrawlRecord /\ e.entries = es /\ e.completed = cs
        BY <1>1, <1>4, <2>2, MemoryTypes DEF CrawlRecord
    <2> QED BY <2>1, <2>3
<1>6. Good(ended) /\ PutOff(ended) = {} /\ InState(ended, "AUDITING") = {}
    BY <1>2, <1>5, EndedPageIsGood DEF OneMore
<1>7. /\ sk \in Seq(Entries) /\ DOMAIN sk = DOMAIN es
      /\ \A i \in DOMAIN es : sk[i] = IF es[i].state \in {"QUEUED"} THEN Skipped(es[i], "EXECUTION_INCOMPLETE") ELSE es[i]
    <2>1. PICK code \in RequeueCodes \cup OtherCodes : code = "EXECUTION_INCOMPLETE"
        BY DEF OtherCodes
    <2> QED BY <1>4, <2>1, SkipAllSkips
<1>8. \A i \in DOMAIN es :
        /\ sk[i].url = es[i].url
        /\ IF es[i].state = "QUEUED" THEN sk[i].state = "SKIPPED" /\ sk[i].why = "EXECUTION_INCOMPLETE"
                                     ELSE sk[i].state = es[i].state /\ sk[i].why = es[i].why
    <2>1. ASSUME NEW i \in DOMAIN es, es[i].state = "QUEUED"
          PROVE  sk[i].url = es[i].url /\ sk[i].state = "SKIPPED" /\ sk[i].why = "EXECUTION_INCOMPLETE"
        <3>1. es[i] \in Entries /\ "EXECUTION_INCOMPLETE" \in RequeueCodes \cup OtherCodes
            BY <1>4, LenProperties, ElementOfSeq DEF OtherCodes
        <3>2. sk[i] = Skipped(es[i], "EXECUTION_INCOMPLETE")
            BY <1>7, <2>1
        <3> QED BY <3>1, <3>2, EntryChanges
    <2> QED BY <1>7, <2>1
<1>9. PICK v \in BOOLEAN : v = (run.crawl.violation \/ bad)
    OBVIOUS
<1>10. PICK none \in Nat : none = 0
    OBVIOUS
<1>11. run' = [run EXCEPT !.pc = "OUTPUT", !.page = none, !.crawl.violation = v, !.crawl.entries = sk]
    BY <1>9, <1>10, Zenon DEF LinksThrow, Ended
<1>12. /\ run' \in RunRecord /\ run'.crawl.entries = sk /\ run'.crawl.completed = run.crawl.completed
       /\ run'.saved = run.saved /\ run'.last = run.last /\ run'.page = 0 /\ run'.pc = "OUTPUT"
       /\ run'.failed = run.failed
    <2>1. run' \in RunRecord
        BY <1>1, <1>7, <1>11 DEF RunRecord, CrawlRecord, Steps
    <2>2. run'.crawl.entries = sk /\ run'.crawl.completed = run.crawl.completed
        BY <1>1, <1>7, <1>11 DEF RunRecord, CrawlRecord
    <2>3. /\ run'.saved = run.saved /\ run'.last = run.last /\ run'.page = none /\ run'.pc = "OUTPUT"
          /\ run'.failed = run.failed
        BY <1>1, <1>11 DEF RunRecord
    <2> QED BY <1>10, <2>1, <2>2, <2>3
<1>13. PICK crawl \in CrawlRecord : crawl = run'.crawl /\ crawl.entries = sk /\ crawl.completed = run.crawl.completed
    BY <1>12 DEF RunRecord
<1>14. /\ \A i, j \in DOMAIN crawl.entries : crawl.entries[i].url = crawl.entries[j].url => i = j
       /\ \A i \in DOMAIN crawl.entries : crawl.entries[i].state = "SKIPPED" <=> crawl.entries[i].why # "NONE"
    BY <1>5, <1>6, <1>7, <1>8, <1>13 DEF Good, EntriesOK
<1>15. InState(crawl, "AUDITING") = {} /\ InState(crawl, "QUEUED") = {} /\ PutOff(crawl) = {}
    BY <1>5, <1>6, <1>7, <1>8, <1>13 DEF InState, PutOff, RequeueCodes
<1>16. \A k \in DOMAIN run.crawl.completed :
        /\ run.crawl.completed[k] \in DOMAIN run.crawl.entries
        /\ run.crawl.entries[run.crawl.completed[k]].state = "AUDITED" /\ run.crawl.completed[k] # run.page
    BY <1>1, <1>3 DEF Good, EntriesOK, InState
<1>17. \A k \in DOMAIN crawl.completed : crawl.completed[k] \in InState(crawl, "AUDITED")
    BY <1>4, <1>7, <1>8, <1>13, <1>16 DEF InState
<1>18. ~Consistent(crawl)
    <2>1. run.page \in DOMAIN crawl.entries /\ crawl.entries[run.page].state = "AUDITED"
        BY <1>4, <1>7, <1>8, <1>13
    <2>2. run.page \in Ids
        BY <1>7, <1>13, <1>14, <2>1, EntriesHaveIds
    <2>3. run.page \notin InSeq(crawl.completed)
        BY <1>13, <1>16 DEF InSeq
    <2> QED BY <2>1, <2>2, <2>3 DEF Consistent
<1>19. Types' /\ FilesOK'
    BY <1>1, <1>2, <1>12 DEF Types, FilesOK, PagesMatch
<1>20. Newest' = Newest
    BY <1>2 DEF Newest
<1>21. BrokenOff'
    BY <1>3, <1>12, <1>13, <1>14, <1>15, <1>17, <1>18, <1>20 DEF BrokenOff, IsUnderWay
<1> QED BY <1>19, <1>21

-----------------------------------------------------------------------------
(* The files and their reader *)

(* The parts of the directory                                               *)
LEMMA DiskTypes ==
    ASSUME Types
    PROVE  /\ disk \in DiskRecord /\ disk.state \in FileRecord /\ disk.prev \in FileRecord
           /\ disk.state.crawl \in CrawlRecord /\ disk.prev.crawl \in CrawlRecord
           /\ disk.pages \in [Ids -> Urls \cup {NoPage, Broken}]
           /\ Newest \in FileRecord /\ Newest.crawl \in CrawlRecord
BY DEF Types, DiskRecord, FileRecord, Newest

(* A crawl that is good is consistent to its reader.                        *)
LEMMA GoodIsConsistent ==
    ASSUME NEW crawl \in CrawlRecord, Good(crawl)
    PROVE  /\ Consistent(crawl)
           /\ \A k \in DOMAIN crawl.completed : crawl.completed[k] \in Ids /\ crawl.completed[k] \in DOMAIN crawl.entries
<1>1. \A k \in DOMAIN crawl.completed : crawl.completed[k] \in DOMAIN crawl.entries
    BY DEF Good, EntriesOK, InState
<1>2. DOMAIN crawl.entries \subseteq Ids
    BY EntriesHaveIds DEF CrawlRecord, Good, EntriesOK
<1>3. Consistent(crawl)
    BY DEF Consistent, InSeq, Good, EntriesOK, InState
<1> QED BY <1>1, <1>2, <1>3

(* The reader finds the newest state, with its pages until the Run is over. *)
LEMMA ReadsNewest ==
    CrawlInv => /\ readCheckpointState = Newest
                /\ disk.state.status # "FINISHED" => readCheckpoint = Newest
<1> SUFFICES ASSUME CrawlInv
             PROVE  /\ readCheckpointState = Newest
                    /\ disk.state.status # "FINISHED" => readCheckpoint = Newest
    OBVIOUS
<1>1. Types /\ FilesOK
    BY DEF CrawlInv, SteadyInv
<1>2. ASSUME NEW c \in {disk.state, disk.prev} PROVE stateUsable(c) <=> c # NoFile
    <2>1. Consistent(c.crawl)
        BY <1>1, DiskTypes, GoodIsConsistent DEF FilesOK, FileOK
    <2>2. c.status = "NONE" <=> c = NoFile
        BY <1>1, EmptyRecords DEF FilesOK, FileOK
    <2> QED BY <2>1, <2>2 DEF stateUsable
<1>3. readCheckpointState = Newest
    BY <1>2 DEF readCheckpointState, FirstOf, Newest
<1>4. ASSUME disk.state.status # "FINISHED", NEW c \in {disk.state, disk.prev} PROVE pagesUsable(c)
    BY <1>1, <1>4 DEF FilesOK, PagesMatch, pagesUsable, Completed, InSeq
<1>5. ASSUME disk.state.status # "FINISHED" PROVE readCheckpoint = Newest
    BY <1>2, <1>4, <1>5 DEF readCheckpoint, FirstOf, Newest
<1> QED BY <1>3, <1>5

(* What follows what follows a crawl follows it.                            *)
LEMMA FollowsOn ==
    ASSUME NEW c \in CrawlRecord, NEW d \in CrawlRecord, NEW e \in CrawlRecord, Follows(c, d), Follows(d, e)
    PROVE  Follows(c, e)
<1>1. /\ Len(c.completed) \in Nat /\ DOMAIN c.completed = 1 .. Len(c.completed)
      /\ Len(d.completed) \in Nat /\ DOMAIN d.completed = 1 .. Len(d.completed) /\ Len(e.completed) \in Nat
    BY LenProperties DEF CrawlRecord
<1>2. ASSUME NEW k \in DOMAIN c.completed
      PROVE  e.completed[k] = c.completed[k] /\ e.entries[c.completed[k]].url = c.entries[c.completed[k]].url
    <2>1. d.completed[k] = c.completed[k] /\ d.entries[c.completed[k]].url = c.entries[c.completed[k]].url
        BY DEF Follows
    <2>2. k \in DOMAIN d.completed
        BY <1>1 DEF Follows
    <2> QED BY <2>1, <2>2 DEF Follows
<1>3. Len(c.completed) <= Len(e.completed)
    BY <1>1 DEF Follows
<1> QED BY <1>2, <1>3 DEF Follows

(* Every crawl follows itself.                                              *)
LEMMA FollowsItself == ASSUME NEW c \in CrawlRecord PROVE Follows(c, c)
BY LenProperties DEF Follows, CrawlRecord

(* The memory follows both files, no further than what it last saw.         *)
LEMMA MemoryFollowsFiles ==
    ASSUME SteadyInv, InRun, NEW c \in {disk.state, disk.prev}
    PROVE  /\ Follows(c.crawl, run.crawl) /\ Len(c.crawl.completed) <= Len(run.last.crawl.completed)
           /\ Follows(c.crawl, run.last.crawl)
<1>1. Types /\ FilesOK /\ run.last = Newest /\ Follows(run.last.crawl, run.crawl)
    BY DEF SteadyInv, MemoryOK
<1>2. run.crawl \in CrawlRecord /\ run.last.crawl \in CrawlRecord /\ c.crawl \in CrawlRecord
    BY <1>1, MemoryTypes, DiskTypes
<1>3. Follows(c.crawl, run.last.crawl)
    <2>1. CASE c = run.last
        BY <1>2, <2>1, FollowsItself
    <2>2. CASE c # run.last /\ disk.state = NoFile
        <3>1. c = NoFile
            BY <1>1, <2>2 DEF Newest
        <3> QED BY <1>2, <3>1, EmptyIsGood, EmptyRecords
    <2>3. CASE c # run.last /\ disk.state # NoFile
        BY <1>1, <2>3 DEF Newest, FilesOK
    <2> QED BY <2>1, <2>2, <2>3
<1> QED BY <1>1, <1>2, <1>3, FollowsOn DEF Follows

(* A saved state restored: what is left is queued again, without a reason.  *)
LEMMA RestoredIsGood ==
    ASSUME NEW c \in CrawlRecord, Good(c)
    PROVE  /\ restored(c) \in CrawlRecord /\ Remarked(c, restored(c)) /\ Good(restored(c))
           /\ PutOff(restored(c)) = {} /\ InState(restored(c), "AUDITING") = {}
<1> DEFINE d == restored(c)
<1>1. /\ d \in CrawlRecord /\ DOMAIN d.entries = DOMAIN c.entries
      /\ \A i \in DOMAIN c.entries : d.entries[i] = restoreEntry(c.entries[i])
      /\ d.completed = c.completed
    BY RestoredEntries
<1> HIDE DEF d
<1>2. ASSUME NEW i \in DOMAIN c.entries
      PROVE  /\ d.entries[i].url = c.entries[i].url /\ d.entries[i].depth = c.entries[i].depth
             /\ isLeftToAudit(c.entries[i]) => d.entries[i].state = "QUEUED" /\ d.entries[i].why = "NONE"
             /\ ~isLeftToAudit(c.entries[i]) => d.entries[i] = c.entries[i]
             /\ c.entries[i].state = "SKIPPED" <=> c.entries[i].why # "NONE"
    <2>1. c.entries[i] \in Entries
        BY LenProperties, ElementOfSeq DEF CrawlRecord
    <2>2. PICK code \in RequeueCodes \cup OtherCodes : TRUE
        BY DEF RequeueCodes
    <2>3. /\ restoreEntry(c.entries[i]).url = c.entries[i].url /\ restoreEntry(c.entries[i]).depth = c.entries[i].depth
          /\ isLeftToAudit(c.entries[i]) =>
                restoreEntry(c.entries[i]).state = "QUEUED" /\ restoreEntry(c.entries[i]).why = "NONE"
          /\ ~isLeftToAudit(c.entries[i]) => restoreEntry(c.entries[i]) = c.entries[i]
        BY <2>1, <2>2, EntryChanges
    <2> QED BY <1>1, <2>3 DEF Good, EntriesOK
<1>3. Remarked(c, d)
    <2> SUFFICES ASSUME NEW i \in DOMAIN c.entries
                 PROVE  /\ d.entries[i].url = c.entries[i].url /\ d.entries[i].depth = c.entries[i].depth
                        /\ d.entries[i].state = "AUDITED" <=> c.entries[i].state = "AUDITED"
                        /\ d.entries[i].state = "SKIPPED" <=> d.entries[i].why # "NONE"
                        /\ isLeftToAudit(d.entries[i]) => isLeftToAudit(c.entries[i])
                        /\ d.entries[i].why = "MAX_PAGES_REACHED" =>
                              c.entries[i].why = "MAX_PAGES_REACHED" \/ Len(c.completed) = MaxPages
        BY <1>1 DEF Remarked
    <2>1. CASE isLeftToAudit(c.entries[i])
        <3>1. c.entries[i].state # "AUDITED"
            BY <2>1 DEF isLeftToAudit
        <3> QED BY <1>2, <2>1, <3>1
    <2>2. CASE ~isLeftToAudit(c.entries[i])
        BY <1>2, <2>2
    <2> QED BY <2>1, <2>2
<1>4. PutOff(d) = {} /\ InState(d, "AUDITING") = {}
    <2>1. ASSUME NEW i \in DOMAIN c.entries PROVE d.entries[i].why \notin RequeueCodes /\ d.entries[i].state # "AUDITING"
        <3>1. CASE isLeftToAudit(c.entries[i])
            BY <1>2, <3>1 DEF RequeueCodes
        <3>2. CASE ~isLeftToAudit(c.entries[i])
            <4>1. "NONE" \notin RequeueCodes
                BY DEF RequeueCodes
            <4> QED BY <1>2, <3>2, <4>1 DEF isLeftToAudit
        <3> QED BY <3>1, <3>2
    <2> QED BY <1>1, <2>1 DEF PutOff, InState
<1>5. Good(d)
    BY <1>1, <1>3, RemarkedIsGood
<1> QED BY <1>1, <1>3, <1>4, <1>5 DEF d

-----------------------------------------------------------------------------
(* The steps that read or write the files *)

(* The fields of a process that begins                                      *)
LEMMA BegunFields ==
    ASSUME NEW saved \in FileRecord, NEW pc \in Steps
    PROVE  LET b == Begun(saved, pc) IN
           /\ b \in RunRecord /\ b.pc = pc /\ b.crawl = restored(saved.crawl) /\ b.saved = saved /\ b.last = saved
           /\ b.page = 0 /\ ~b.unavailable /\ ~b.lost /\ ~b.failed /\ ~b.preflightFailed
<1>1. restored(saved.crawl) \in CrawlRecord
    BY RestoredEntries DEF FileRecord
<1>2. PICK crawl \in CrawlRecord : crawl = restored(saved.crawl)
    BY <1>1
<1>3. PICK b : b = Begun(saved, pc)
    OBVIOUS
<1>4. b = [NoProcess EXCEPT !.pc = pc, !.crawl = crawl, !.saved = saved, !.last = saved]
    BY <1>2, <1>3 DEF Begun
<1>5. PICK p \in RunRecord : p = NoProcess
    BY EmptyRecords
<1>6. p.page = 0 /\ ~p.unavailable /\ ~p.lost /\ ~p.failed /\ ~p.preflightFailed
    BY <1>5, EmptyRecords
<1>7. b \in RunRecord /\ b.pc = pc /\ b.crawl = crawl /\ b.saved = saved /\ b.last = saved
    BY <1>4, <1>5 DEF RunRecord
<1>8. b.page = p.page /\ b.unavailable = p.unavailable /\ b.lost = p.lost /\ b.failed = p.failed
      /\ b.preflightFailed = p.preflightFailed
    BY <1>4, <1>5 DEF RunRecord
<1> QED BY <1>2, <1>3, <1>6, <1>7, <1>8

(* Nothing is restored from nothing.                                        *)
LEMMA NothingRestored == restored(NoCrawl) = NoCrawl
<1>1. restored(NoCrawl) \in CrawlRecord /\ DOMAIN restored(NoCrawl).entries = {}
    BY EmptyRecords, RestoredEntries
<1>2. PICK es : es = restored(NoCrawl).entries
    OBVIOUS
<1>3. es \in Seq(Entries) /\ DOMAIN es = {}
    BY <1>1, <1>2 DEF CrawlRecord
<1>4. es = <<>>
    <2>1. Len(es) \in Nat /\ DOMAIN es = 1 .. Len(es)
        BY <1>3, LenProperties
    <2>2. Len(es) = 0
        BY <1>3, <2>1
    <2> QED BY <1>3, <2>2, EmptySeq
<1>5. /\ restored(NoCrawl).entries = NoCrawl.entries
      /\ restored(NoCrawl).completed = NoCrawl.completed /\ restored(NoCrawl).started = NoCrawl.started
      /\ restored(NoCrawl).meta = NoCrawl.meta /\ restored(NoCrawl).violation = NoCrawl.violation
    BY <1>2, <1>4, EmptyRecords, RestoredEntries
<1>6. NoCrawl \in CrawlRecord
    BY EmptyRecords
<1> HIDE DEF restored
<1>7. \A c, d \in CrawlRecord : c.entries = d.entries /\ c.completed = d.completed /\ c.started = d.started
                                /\ c.meta = d.meta /\ c.violation = d.violation => c = d
    BY DEF CrawlRecord
<1> QED BY <1>1, <1>5, <1>6, <1>7

(* An empty directory                                                       *)
LEMMA EmptyDirectoryFields ==
    EmptyDirectory \in DiskRecord /\ EmptyDirectory.state = NoFile /\ EmptyDirectory.prev = NoFile
BY EmptyRecords DEF EmptyDirectory, DiskRecord, NoPages

(* A process begins on the newest state, or on none.                        *)
LEMMA ChooseKeepsInv == ASSUME SteadyInv, Choose PROVE SteadyInv'
<1>1. Types /\ FilesOK /\ run.pc = "NONE" /\ UNCHANGED <<down, faults>>
    BY DEF SteadyInv, Choose, At, Smooth
<1>2. Newest = NoFile \/ decideRunResumption(Newest) # "NOT_RESUMABLE"
    BY ReadsNewest DEF Choose, CrawlInv
<1>3. Newest.status # "FINISHED"
    BY <1>2, EmptyRecords DEF decideRunResumption
<1>4. disk.state.status # "FINISHED" /\ FileOK(Newest) /\ Newest \in FileRecord
    <2>1. disk.state.status = "FINISHED" => Newest = disk.state
        BY EmptyRecords DEF Newest
    <2> QED BY <1>1, <1>3, <2>1, DiskTypes DEF FilesOK, Newest
<1>5. readCheckpoint = Newest
    BY <1>4, ReadsNewest DEF CrawlInv
<1>6. /\ Good(Newest.crawl) /\ Newest.crawl \in CrawlRecord /\ Newest.crawl.started = Len(Newest.crawl.completed)
      /\ restored(Newest.crawl) \in CrawlRecord /\ Good(restored(Newest.crawl))
      /\ PutOff(restored(Newest.crawl)) = {} /\ InState(restored(Newest.crawl), "AUDITING") = {}
      /\ restored(Newest.crawl).completed = Newest.crawl.completed
      /\ restored(Newest.crawl).started = Newest.crawl.started
      /\ restored(Newest.crawl).violation = Newest.crawl.violation
    BY <1>3, <1>4, RestoredIsGood, RestoredEntries DEF FileOK, FileRecord
<1>7. CASE Newest = NoFile
    <2>1. disk' = EmptyDirectory /\ run' = Begun(NoFile, "PREFLIGHT")
        BY <1>5, <1>7 DEF Choose
    <2>2. /\ run' \in RunRecord /\ run'.pc = "PREFLIGHT" /\ run'.crawl = restored(NoFile.crawl)
          /\ run'.saved = NoFile /\ run'.last = NoFile
          /\ run'.page = 0 /\ ~run'.unavailable /\ ~run'.lost /\ ~run'.failed /\ ~run'.preflightFailed
        BY <2>1, EmptyRecords, BegunFields DEF Steps
    <2>3. run'.crawl = NoCrawl
        BY <2>2, EmptyRecords, NothingRestored
    <2>4. disk' \in DiskRecord /\ disk'.state = NoFile /\ disk'.prev = NoFile
        BY <2>1, EmptyDirectoryFields
    <2>5. Types'
        BY <1>1, <2>2, <2>4 DEF Types
    <2>6. DOMAIN NoCrawl.completed = {} /\ Len(NoCrawl.completed) = 0
        BY EmptyRecords
    <2>7. FilesOK'
        BY <2>2, <2>4, <2>6, EmptyRecords, EmptyIsGood DEF FilesOK, PagesMatch
    <2>8. MemoryOK'
        BY <2>2, <2>3, <2>4, <2>6, EmptyRecords, EmptyIsGood DEF MemoryOK, Newest
    <2>9. Counted' /\ IsSaved' /\ NoneInAudit' /\ Undisturbed'
        BY <2>2, <2>3, <2>6, EmptyRecords, EmptyIsGood DEF Counted, IsSaved, NoneInAudit, Undisturbed
    <2>10. PhaseOK'
        BY <2>2, <2>3, <2>9, EmptyRecords, EmptyIsGood DEF PhaseOK, BeforeTheLoop, InTheLoop, InASave, AtTheEnd, InRun
    <2> QED BY <2>5, <2>7, <2>8, <2>10 DEF SteadyInv
<1>8. CASE Newest # NoFile
    <2>1. disk' = disk /\ run' = Begun(Newest, "CHECK")
        BY <1>2, <1>5, <1>8 DEF Choose
    <2>2. /\ run' \in RunRecord /\ run'.pc = "CHECK" /\ run'.crawl = restored(Newest.crawl)
          /\ run'.saved = Newest /\ run'.last = Newest
          /\ run'.page = 0 /\ ~run'.unavailable /\ ~run'.lost /\ ~run'.failed /\ ~run'.preflightFailed
        BY <1>4, <2>1, BegunFields DEF Steps
    <2>3. Types'
        BY <1>1, <2>1, <2>2 DEF Types
    <2>4. FilesOK'
        BY <1>1, <1>4, <2>1, <2>2 DEF FilesOK, PagesMatch
    <2>5. Newest' = Newest
        BY <2>1 DEF Newest
    <2>6. Remarked(Newest.crawl, run'.crawl)
        BY <1>6, <2>2, RestoredIsGood
    <2>7. /\ Follows(Newest.crawl, run'.crawl)
          /\ \A k \in DOMAIN run'.crawl.completed :
                run'.crawl.entries[run'.crawl.completed[k]].url = Newest.crawl.entries[Newest.crawl.completed[k]].url
        BY <1>6, <2>2, <2>6, FollowsItself, RemarkedIsGood
    <2>8. \A k \in DOMAIN Newest.crawl.completed :
            disk.pages[Newest.crawl.completed[k]] = Newest.crawl.entries[Newest.crawl.completed[k]].url
        BY <1>1, <1>4 DEF FilesOK, PagesMatch, Newest
    <2>9. MemoryOK'
        BY <1>4, <1>6, <2>1, <2>2, <2>5, <2>7, <2>8 DEF MemoryOK
    <2>10. Counted' /\ IsSaved' /\ NoneInAudit' /\ Undisturbed'
        BY <1>6, <2>2 DEF Counted, IsSaved, NoneInAudit, Undisturbed
    <2>11. PhaseOK'
        BY <1>6, <1>8, <2>2, <2>10 DEF PhaseOK, BeforeTheLoop, InTheLoop, InASave, AtTheEnd, InRun
    <2> QED BY <2>3, <2>4, <2>9, <2>11 DEF SteadyInv
<1> QED BY <1>7, <1>8

(* The pages of the files are pages of the memory.                          *)
LEMMA FilePagesAreMemoryPages ==
    ASSUME SteadyInv, InRun, NEW c \in {disk.state, disk.prev}, NEW k \in DOMAIN c.crawl.completed
    PROVE  /\ k \in DOMAIN run.last.crawl.completed /\ k \in DOMAIN run.crawl.completed
           /\ c.crawl.completed[k] = run.last.crawl.completed[k] /\ c.crawl.completed[k] = run.crawl.completed[k]
           /\ c.crawl.completed[k] \in Ids
<1>1. Types /\ FilesOK
    BY DEF SteadyInv
<1>2. Follows(c.crawl, run.crawl) /\ Follows(c.crawl, run.last.crawl)
    BY MemoryFollowsFiles
<1>3. c.crawl \in CrawlRecord /\ Good(c.crawl)
    BY <1>1, DiskTypes DEF FilesOK, FileOK
<1>4. Len(c.crawl.completed) \in Nat /\ DOMAIN c.crawl.completed = 1 .. Len(c.crawl.completed)
    BY <1>3, LenProperties DEF CrawlRecord
<1>5. c.crawl.completed[k] \in Ids
    BY <1>3, GoodIsConsistent
<1>6. k \in DOMAIN run.last.crawl.completed /\ k \in DOMAIN run.crawl.completed
    BY <1>1, <1>2, <1>4, MemoryTypes DEF Follows
<1> QED BY <1>2, <1>5, <1>6 DEF Follows

(* The clean-up before a resumption keeps the pages of the saved state, and *)
(* with them those of the state before it.                                  *)
LEMMA CheckKeepsInv == ASSUME SteadyInv, Check PROVE SteadyInv'
<1>1. /\ Types /\ FilesOK /\ MemoryOK /\ PhaseOK /\ run.pc = "CHECK" /\ InRun /\ UNCHANGED <<down, faults>>
      /\ run \in RunRecord
    BY MemoryTypes DEF SteadyInv, Check, At, Smooth, InRun
<1>2. /\ run.saved = run.last /\ run.last = Newest /\ run.saved # NoFile /\ IsSaved /\ ~run.failed
      /\ Follows(run.last.crawl, run.crawl)
    BY <1>1 DEF PhaseOK, BeforeTheLoop, MemoryOK, Undisturbed
<1>3. run' = [run EXCEPT !.pc = "PREFLIGHT"]
      /\ disk' = [disk EXCEPT !.pages = [i \in Ids |-> IF i \in Completed(run.saved) THEN disk.pages[i] ELSE NoPage]]
    <2>1. readCheckpointState = run.saved
        BY <1>2, ReadsNewest DEF CrawlInv
    <2> QED BY <2>1 DEF Check
<1>4. PICK kept : kept = [i \in Ids |-> IF i \in Completed(run.saved) THEN disk.pages[i] ELSE NoPage]
    OBVIOUS
<1>5. kept \in [Ids -> Urls \cup {NoPage, Broken}]
    BY <1>1, <1>4, DiskTypes
<1>6. disk' \in DiskRecord /\ disk'.state = disk.state /\ disk'.prev = disk.prev /\ disk'.pages = kept
    BY <1>1, <1>3, <1>4, <1>5 DEF Types, DiskRecord
<1>7. /\ run' \in RunRecord /\ run'.pc = "PREFLIGHT" /\ run'.crawl = run.crawl /\ run'.saved = run.saved
      /\ run'.last = run.last /\ run'.page = run.page /\ run'.failed = run.failed /\ run'.lost = run.lost
      /\ run'.unavailable = run.unavailable /\ run'.preflightFailed = run.preflightFailed
    BY <1>1, <1>3 DEF RunRecord, Steps
<1>8. \A k \in DOMAIN run.last.crawl.completed :
        run.last.crawl.completed[k] \in Ids =>
            kept[run.last.crawl.completed[k]] = disk.pages[run.last.crawl.completed[k]]
    BY <1>2, <1>4 DEF Completed, InSeq
<1>9. ASSUME NEW c \in {disk.state, disk.prev}, NEW k \in DOMAIN c.crawl.completed
      PROVE  kept[c.crawl.completed[k]] = disk.pages[c.crawl.completed[k]]
    BY <1>1, <1>8, <1>9, FilePagesAreMemoryPages
<1>10. Types'
    BY <1>1, <1>6, <1>7 DEF Types
<1>11. FilesOK'
    BY <1>1, <1>6, <1>7, <1>9 DEF FilesOK, PagesMatch
<1>12. \A k \in DOMAIN run.crawl.completed : kept[run.crawl.completed[k]] = disk.pages[run.crawl.completed[k]]
    <2> SUFFICES ASSUME NEW k \in DOMAIN run.crawl.completed
                 PROVE  kept[run.crawl.completed[k]] = disk.pages[run.crawl.completed[k]]
        OBVIOUS
    <2>1. k \in DOMAIN run.last.crawl.completed
        BY <1>1, <1>2, MemoryTypes DEF IsSaved
    <2>2. run.crawl.completed[k] = run.last.crawl.completed[k]
        BY <1>2, <2>1 DEF Follows
    <2>3. run.crawl.completed[k] \in Ids
        BY <1>1, MemoryTypes, GoodIsConsistent DEF MemoryOK
    <2> QED BY <1>8, <2>1, <2>2, <2>3
<1>13. Newest' = Newest
    BY <1>6 DEF Newest
<1>14. MemoryOK'
    BY <1>1, <1>6, <1>7, <1>12, <1>13 DEF MemoryOK
<1>15. PhaseOK'
    BY <1>1, <1>2, <1>7
    DEF PhaseOK, BeforeTheLoop, InTheLoop, InASave, AtTheEnd, InRun, Counted, IsSaved, NoneInAudit, Undisturbed
<1> QED BY <1>10, <1>11, <1>14, <1>15 DEF SteadyInv

(* The page that is written is none that a state file has.                  *)
LEMMA SavePageKeepsInv == ASSUME SteadyInv, SavePage PROVE SteadyInv'
<1> DEFINE n == Len(run.crawl.completed)
<1>1. /\ Types /\ FilesOK /\ MemoryOK /\ PhaseOK /\ run.pc = "PAGE" /\ InRun /\ UNCHANGED <<down, faults>>
      /\ run \in RunRecord /\ Good(run.crawl)
    BY MemoryTypes DEF SteadyInv, SavePage, At, Smooth, InRun, MemoryOK
<1>2. /\ ~run.failed /\ ~run.lost /\ run.page = 0 /\ Counted /\ NoneInAudit /\ PutOff(run.crawl) = {} /\ IsOneAhead
    BY <1>1 DEF PhaseOK, InASave
<1>3. n \in Nat /\ DOMAIN run.crawl.completed = 1 .. n /\ n \in DOMAIN run.crawl.completed
      /\ DOMAIN run.last.crawl.completed = 1 .. n - 1
    BY <1>1, <1>2, MemoryTypes DEF IsOneAhead
<1>4. LastPage = run.crawl.completed[n] /\ LastPage \in Ids /\ LastPage \in DOMAIN run.crawl.entries
    BY <1>1, <1>3, MemoryTypes, GoodIsConsistent DEF LastPage
<1>5. \A k \in DOMAIN run.crawl.completed : k # n => run.crawl.completed[k] # LastPage
    <2>1. \A k \in DOMAIN run.crawl.completed : k # n => run.crawl.completed[k] < run.crawl.completed[n]
        BY <1>1, <1>3 DEF Good, OrderOK
    <2>2. LastPage \in Nat
        BY <1>1, <1>4, MemoryTypes
    <2> QED BY <1>4, <2>1, <2>2
<1>6. run.crawl.entries[LastPage].url \in Urls
    <2>1. run.crawl.entries[LastPage] \in Entries
        BY <1>1, <1>4, MemoryTypes
    <2> QED BY <2>1 DEF Entries
<1>7. PICK pages : pages = [disk.pages EXCEPT ![LastPage] = run.crawl.entries[LastPage].url]
    OBVIOUS
<1>8. /\ pages \in [Ids -> Urls \cup {NoPage, Broken}] /\ pages[LastPage] = run.crawl.entries[LastPage].url
      /\ \A i \in Ids : i # LastPage => pages[i] = disk.pages[i]
    <2> HIDE DEF LastPage
    <2> QED BY <1>1, <1>4, <1>6, <1>7, DiskTypes
<1>9. disk' \in DiskRecord /\ disk'.state = disk.state /\ disk'.prev = disk.prev /\ disk'.pages = pages
    <2>1. disk' = [disk EXCEPT !.pages = pages]
        BY <1>7 DEF SavePage
    <2> QED BY <1>1, <1>8, <2>1 DEF Types, DiskRecord
<1>10. /\ run' \in RunRecord /\ run'.pc = "MOVE" /\ run'.then = "NEXT" /\ run'.crawl = run.crawl
       /\ run'.saved = run.saved /\ run'.last = run.last /\ run'.page = run.page /\ run'.failed = run.failed
       /\ run'.lost = run.lost /\ run'.unavailable = run.unavailable
    BY <1>1 DEF SavePage, ToSave, RunRecord, Steps
<1>11. ASSUME NEW c \in {disk.state, disk.prev}, NEW k \in DOMAIN c.crawl.completed
       PROVE  pages[c.crawl.completed[k]] = disk.pages[c.crawl.completed[k]]
    <2>1. /\ k \in DOMAIN run.last.crawl.completed /\ k \in DOMAIN run.crawl.completed
          /\ c.crawl.completed[k] = run.crawl.completed[k] /\ c.crawl.completed[k] \in Ids
        BY <1>1, <1>11, FilePagesAreMemoryPages
    <2>2. k # n
        BY <1>3, <2>1
    <2> QED BY <1>5, <1>8, <2>1, <2>2
<1>12. Types'
    BY <1>1, <1>9, <1>10 DEF Types
<1>13. FilesOK'
    BY <1>1, <1>9, <1>10, <1>11 DEF FilesOK, PagesMatch
<1>14. \A k \in DOMAIN run.crawl.completed :
            pages[run.crawl.completed[k]] = run.crawl.entries[run.crawl.completed[k]].url
    <2> SUFFICES ASSUME NEW k \in DOMAIN run.crawl.completed
                 PROVE  pages[run.crawl.completed[k]] = run.crawl.entries[run.crawl.completed[k]].url
        OBVIOUS
    <2>1. CASE k = n
        BY <1>4, <1>8, <2>1
    <2>2. CASE k # n
        <3>1. run.crawl.completed[k] \in Ids
            BY <1>1, MemoryTypes, GoodIsConsistent
        <3>2. disk.pages[run.crawl.completed[k]] = run.crawl.entries[run.crawl.completed[k]].url
            BY <1>1, <1>2, <2>2 DEF MemoryOK
        <3> QED BY <1>5, <1>8, <2>2, <3>1, <3>2
    <2> QED BY <2>1, <2>2
<1>15. Newest' = Newest
    BY <1>9 DEF Newest
<1>16. MemoryOK'
    BY <1>1, <1>9, <1>10, <1>14, <1>15 DEF MemoryOK
<1>17. PhaseOK'
    BY <1>2, <1>10
    DEF PhaseOK, BeforeTheLoop, InTheLoop, InASave, AtTheEnd, InRun, Counted, IsOneAhead, NoneInAudit
<1> QED BY <1>12, <1>13, <1>16, <1>17 DEF SteadyInv

(* Moving the state aside changes nothing for its reader.                   *)
LEMMA MoveStateMoves ==
    ASSUME Types, FilesOK, MoveState
    PROVE  /\ Types' /\ FilesOK' /\ Newest' = Newest
           /\ run.pc = "MOVE" /\ run'.pc = "PLACE" /\ run'.then = run.then /\ run'.crawl = run.crawl
           /\ run'.saved = run.saved /\ run'.last = run.last /\ run'.page = run.page /\ run'.failed = run.failed
           /\ run'.lost = run.lost /\ run'.unavailable = run.unavailable /\ run'.preflightFailed = run.preflightFailed
           /\ disk'.state = NoFile /\ disk'.pages = disk.pages /\ Conclusion' = Conclusion
<1>1. run.pc = "MOVE" /\ UNCHANGED <<down, faults>> /\ run \in RunRecord
    BY MemoryTypes DEF MoveState, At, Smooth
<1>2. /\ run' \in RunRecord /\ run'.pc = "PLACE" /\ run'.then = run.then /\ run'.crawl = run.crawl
      /\ run'.saved = run.saved /\ run'.last = run.last /\ run'.page = run.page /\ run'.failed = run.failed
      /\ run'.lost = run.lost /\ run'.unavailable = run.unavailable /\ run'.preflightFailed = run.preflightFailed
    BY <1>1 DEF MoveState, RunRecord, Steps
<1>3. /\ disk' \in DiskRecord /\ disk'.state = NoFile /\ disk'.pages = disk.pages
      /\ disk'.prev = IF disk.state = NoFile THEN disk.prev ELSE disk.state
    <2>1. CASE disk.state = NoFile
        BY <2>1 DEF MoveState, Types
    <2>2. CASE disk.state # NoFile
        <3>1. PICK none \in FileRecord : none = NoFile
            BY EmptyRecords
        <3>2. disk' = [disk EXCEPT !.prev = disk.state, !.state = none]
            BY <2>2, <3>1 DEF MoveState
        <3>3. disk' \in DiskRecord /\ disk'.state = none /\ disk'.pages = disk.pages /\ disk'.prev = disk.state
            BY <3>2 DEF Types, DiskRecord
        <3> QED BY <2>2, <3>1, <3>3
    <2> QED BY <2>1, <2>2
<1>4. disk.state.status # "FINISHED"
    BY <1>1 DEF FilesOK
<1>5. Types'
    BY <1>1, <1>2, <1>3 DEF Types
<1>6. FilesOK'
    <2>1. PagesMatch(disk.state.crawl) /\ PagesMatch(disk.prev.crawl)
        BY <1>1, <1>4 DEF FilesOK
    <2>2. DOMAIN NoCrawl.completed = {} /\ NoFile.crawl = NoCrawl /\ NoFile.status # "FINISHED"
        BY EmptyRecords
    <2>3. disk'.prev \in {disk.state, disk.prev}
        BY <1>3
    <2>4. FileOK(disk'.state) /\ FileOK(disk'.prev) /\ disk'.prev.status # "FINISHED"
        BY <1>1, <1>3, <1>4, <2>3, EmptyIsGood DEF FilesOK
    <2>5. PagesMatch(disk.prev.crawl)' /\ PagesMatch(disk.state.crawl)'
        <3>1. \A k \in DOMAIN disk'.prev.crawl.completed :
                disk.pages[disk'.prev.crawl.completed[k]] = disk'.prev.crawl.entries[disk'.prev.crawl.completed[k]].url
            BY <2>1, <2>3 DEF PagesMatch
        <3>2. PagesMatch(disk.prev.crawl)'
            <4>1. disk'.pages = disk.pages
                BY <1>3
            <4>2. PICK d : d = disk'.prev.crawl
                OBVIOUS
            <4>3. \A k \in DOMAIN d.completed : disk.pages[d.completed[k]] = d.entries[d.completed[k]].url
                BY <3>1, <4>2
            <4> QED BY <4>1, <4>2, <4>3 DEF PagesMatch
        <3>3. DOMAIN disk'.state.crawl.completed = {}
            BY <1>3, <2>2
        <3>4. PagesMatch(disk.state.crawl)'
            BY <3>3 DEF PagesMatch
        <3> QED BY <3>2, <3>4
    <2> QED BY <1>2, <1>3, <2>2, <2>4, <2>5 DEF FilesOK
<1>7. Newest' = Newest
    BY <1>3 DEF Newest
<1>8. Conclusion' = Conclusion
    BY <1>2 DEF Conclusion, Resumed
<1> QED BY <1>1, <1>2, <1>3, <1>5, <1>6, <1>7, <1>8

(* Nor for the process.                                                     *)
LEMMA MoveStateKeepsInv == ASSUME SteadyInv, MoveState PROVE SteadyInv'
<1>1. Types /\ FilesOK /\ MemoryOK /\ PhaseOK
    BY DEF SteadyInv
<1>2. /\ Types' /\ FilesOK' /\ Newest' = Newest
      /\ run.pc = "MOVE" /\ run'.pc = "PLACE" /\ run'.then = run.then /\ run'.crawl = run.crawl
      /\ run'.saved = run.saved /\ run'.last = run.last /\ run'.page = run.page /\ run'.failed = run.failed
      /\ run'.lost = run.lost /\ run'.unavailable = run.unavailable /\ run'.preflightFailed = run.preflightFailed
      /\ disk'.state = NoFile /\ disk'.pages = disk.pages /\ Conclusion' = Conclusion
    BY <1>1, MoveStateMoves
<1>3. MemoryOK'
    BY <1>1, <1>2 DEF MemoryOK, InRun
<1>4. AtPage' <=> AtPage
    BY <1>2 DEF AtPage
<1>5. PhaseOK'
    BY <1>1, <1>2, <1>4
    DEF PhaseOK, BeforeTheLoop, InTheLoop, InASave, AtTheEnd, InRun, Counted, IsSaved, IsOneAhead, IsUnderWay, NoneInAudit, Undisturbed
<1> QED BY <1>2, <1>3, <1>5 DEF SteadyInv

(* Once the Run is over its pages and its previous state may go.            *)
LEMMA RemovalsKeepInv == ASSUME SteadyInv, RemovePages \/ RemovePrevious PROVE SteadyInv'
<1>1. /\ Types /\ FilesOK /\ MemoryOK /\ run.pc \in {"CLEAN", "CLEAN_PREV"} /\ UNCHANGED <<down, faults>>
      /\ run \in RunRecord /\ disk.state.status = "FINISHED" /\ run.page = 0
    BY MemoryTypes DEF SteadyInv, RemovePages, RemovePrevious, At, Smooth, FilesOK, PhaseOK, InRun
<1>2. CASE RemovePages
    <2>1. NoPages \in [Ids -> Urls \cup {NoPage, Broken}]
        BY DEF NoPages
    <2>2. disk' \in DiskRecord /\ disk'.state = disk.state /\ disk'.prev = disk.prev
        BY <1>1, <1>2, <2>1 DEF RemovePages, Types, DiskRecord
    <2>3. /\ run' \in RunRecord /\ run'.pc = "CLEAN_PREV" /\ run'.crawl = run.crawl
          /\ run'.saved = run.saved /\ run'.last = run.last /\ run'.page = run.page
        BY <1>1, <1>2 DEF RemovePages, RunRecord, Steps
    <2>4. Types' /\ FilesOK'
        BY <1>1, <2>2, <2>3 DEF Types, FilesOK
    <2>5. MemoryOK' /\ PhaseOK'
        BY <1>1, <2>3 DEF MemoryOK, InRun, PhaseOK, BeforeTheLoop, InTheLoop, InASave, AtTheEnd
    <2> QED BY <2>4, <2>5 DEF SteadyInv
<1>3. CASE RemovePrevious
    <2>1. disk' \in DiskRecord /\ disk'.state = disk.state /\ disk'.prev = NoFile
        BY <1>1, <1>3, EmptyRecords DEF RemovePrevious, Types, DiskRecord
    <2>2. run' = NoProcess /\ run' \in RunRecord /\ run'.pc = "NONE" /\ run'.crawl = NoCrawl /\ run'.saved = NoFile
          /\ run'.last = NoFile /\ run'.page = 0
        BY <1>3, EmptyRecords DEF RemovePrevious
    <2>3. Types'
        BY <1>1, <2>1, <2>2 DEF Types
    <2>4. disk.state.crawl \in CrawlRecord
        BY <1>1, DiskTypes
    <2>5. FilesOK'
        BY <1>1, <2>1, <2>2, <2>4, EmptyRecords, EmptyIsGood DEF FilesOK
    <2>6. MemoryOK' /\ PhaseOK'
        BY <2>2, EmptyIsGood DEF MemoryOK, InRun, PhaseOK, BeforeTheLoop, InTheLoop, InASave, AtTheEnd
    <2> QED BY <2>3, <2>5, <2>6 DEF SteadyInv
<1> QED BY <1>2, <1>3

-----------------------------------------------------------------------------
(* How an execution ends *)

(* The codes that stop an execution are those that let its pages be resumed.*)
LEMMA CodesThatStop ==
    /\ DOMAIN StoppingCodes = 1 .. 5 /\ \A h \in 1 .. 5 : StoppingCodes[h] \in RequeueCodes
    /\ \A code \in RequeueCodes : \E h \in 1 .. 5 : StoppingCodes[h] = code
    /\ InSeq(StoppingCodes) = RequeueCodes
<1>1. DOMAIN StoppingCodes = 1 .. 5
    BY DEF StoppingCodes
<1>2. StoppingCodes[1] = "SITE_UNAVAILABLE" /\ StoppingCodes[2] = "AUTH_SESSION_LOST"
      /\ StoppingCodes[3] = "SERVICE_REQUEST_LIMIT_REACHED" /\ StoppingCodes[4] = "MAX_RUNTIME_REACHED"
      /\ StoppingCodes[5] = "RUN_INTERRUPTED"
    BY DEF StoppingCodes
<1>3. \A h \in 1 .. 5 : h = 1 \/ h = 2 \/ h = 3 \/ h = 4 \/ h = 5
    OBVIOUS
<1>4. \A h \in 1 .. 5 : StoppingCodes[h] \in RequeueCodes
    BY <1>2, <1>3 DEF RequeueCodes
<1>5. \A code \in RequeueCodes : \E h \in 1 .. 5 : StoppingCodes[h] = code
    <2>1. 1 \in 1 .. 5 /\ 2 \in 1 .. 5 /\ 3 \in 1 .. 5 /\ 4 \in 1 .. 5 /\ 5 \in 1 .. 5
        OBVIOUS
    <2> QED BY <1>2, <2>1 DEF RequeueCodes
<1>6. InSeq(StoppingCodes) = RequeueCodes
    BY <1>1, <1>4, <1>5 DEF InSeq
<1> QED BY <1>1, <1>4, <1>5, <1>6

(* An execution without a violation is completed if nothing was put off,    *)
(* and stopped if something was.                                            *)
LEMMA EndReasons ==
    ASSUME NEW crawl
    PROVE  LET end == decideRunExecutionEndReason(crawl) IN
           /\ end \in Ends
           /\ crawl.violation => end = "SAFETY_VIOLATION" /\ end \notin InSeq(StoppingCodes)
           /\ ~crawl.violation /\ PutOff(crawl) = {} => end = "COMPLETED" /\ end \notin InSeq(StoppingCodes)
           /\ ~crawl.violation /\ PutOff(crawl) # {} => end \in InSeq(StoppingCodes)
<1> DEFINE codes == {crawl.entries[i].why : i \in DOMAIN crawl.entries}
           hits == {i \in DOMAIN StoppingCodes : StoppingCodes[i] \in codes}
           first == CHOOSE i \in hits : \A j \in hits : i <= j
<1>1. PICK end : end = decideRunExecutionEndReason(crawl)
    OBVIOUS
<1>2. end = IF crawl.violation THEN "SAFETY_VIOLATION" ELSE IF hits = {} THEN "COMPLETED" ELSE StoppingCodes[first]
    BY <1>1 DEF decideRunExecutionEndReason
<1>3. hits = {} <=> PutOff(crawl) = {}
    BY CodesThatStop DEF PutOff
<1>4. hits # {} => first \in DOMAIN StoppingCodes
    <2>1. ASSUME hits # {} PROVE first \in hits
        <3>1. hits \in SUBSET Nat
            BY CodesThatStop
        <3> HIDE DEF hits
        <3>2. \E i \in hits : \A j \in hits : i <= j
            BY <2>1, <3>1, LeastExists
        <3> QED BY <3>2
    <2> QED BY <2>1
<1> HIDE DEF hits, first
<1>5. hits # {} => StoppingCodes[first] \in InSeq(StoppingCodes)
    BY <1>4 DEF InSeq
<1>6. "SAFETY_VIOLATION" \notin InSeq(StoppingCodes) /\ "COMPLETED" \notin InSeq(StoppingCodes)
    BY CodesThatStop DEF RequeueCodes
<1>7. CASE crawl.violation
    BY <1>1, <1>2, <1>6, <1>7 DEF Ends
<1>8. CASE ~crawl.violation /\ PutOff(crawl) = {}
    BY <1>1, <1>2, <1>3, <1>6, <1>8 DEF Ends
<1>9. CASE ~crawl.violation /\ PutOff(crawl) # {}
    BY <1>1, <1>2, <1>3, <1>5, <1>9 DEF Ends
<1> QED BY <1>7, <1>8, <1>9

(* The fields of a state                                                    *)
LEMMA CheckpointFields ==
    ASSUME NEW status \in Statuses, NEW crawl \in CrawlRecord, NEW end \in Ends
    PROVE  LET c == Checkpoint(status, crawl, end) IN
           c \in FileRecord /\ c.status = status /\ c.crawl = crawl /\ c.end = end /\ c # NoFile
<1>1. PICK c : c = Checkpoint(status, crawl, end)
    OBVIOUS
<1>2. c \in FileRecord /\ c.status = status /\ c.crawl = crawl /\ c.end = end
    BY <1>1 DEF Checkpoint, FileRecord
<1>3. c # NoFile
    BY <1>2, EmptyRecords DEF Statuses
<1> QED BY <1>1, <1>2, <1>3

(* What is put off is left.                                                 *)
LEMMA PutOffIsLeft == ASSUME NEW crawl, Good(crawl) PROVE PutOff(crawl) \subseteq Left(crawl)
<1>1. "NONE" \notin RequeueCodes
    BY DEF RequeueCodes
<1> QED BY <1>1 DEF PutOff, Left, isLeftToAudit, Good, EntriesOK

(* The state an execution concludes with: the crawl at its end, or for a    *)
(* violation after a failed save what was saved last, and then the Run is   *)
(* over.                                                                    *)
LEMMA ConclusionIsOK ==
    ASSUME SteadyInv, run.pc = "PLACE", run.then \in {"CLEAN", "END"}
    PROVE  /\ Conclusion \in FileRecord /\ FileOK(Conclusion) /\ Conclusion # NoFile
           /\ Conclusion.status \in {"STOPPED", "FINISHED"}
           /\ \/ Conclusion.crawl = run.crawl /\ ~run.failed
              \/ Conclusion.crawl = run.last.crawl /\ Conclusion.status = "FINISHED"
           /\ Conclusion.status = "FINISHED" /\ Conclusion.end # "SAFETY_VIOLATION" =>
                Left(run.crawl) = {} /\ Left(Conclusion.crawl) = {}
           /\ Conclusion.status = "STOPPED" => run.last.status = "IN_PROGRESS"
           /\ Len(Conclusion.crawl.completed) = Len(run.last.crawl.completed)
<1> DEFINE end == decideRunExecutionEndReason(run.crawl)
           status == IF end \in InSeq(StoppingCodes) THEN "STOPPED" ELSE "FINISHED"
<1>1. /\ Types /\ MemoryOK /\ PhaseOK /\ Good(run.crawl) /\ FileOK(run.last)
      /\ run.crawl \in CrawlRecord /\ run.last \in FileRecord /\ run.last.crawl \in CrawlRecord
    BY MemoryTypes DEF SteadyInv, MemoryOK
<1>2. /\ NoneInAudit /\ InState(run.crawl, "QUEUED") = {} /\ (PutOff(run.crawl) # {} => Counted)
      /\ Conclusion # NoFile
      /\ ~run.failed /\ PutOff(run.crawl) # {} /\ ~(run.preflightFailed /\ run.saved # NoFile) => IsUnderWay
    BY <1>1 DEF PhaseOK, AtTheEnd
<1>3. /\ end \in Ends
      /\ run.crawl.violation => end = "SAFETY_VIOLATION" /\ end \notin InSeq(StoppingCodes)
      /\ ~run.crawl.violation /\ PutOff(run.crawl) = {} => end = "COMPLETED" /\ end \notin InSeq(StoppingCodes)
      /\ ~run.crawl.violation /\ PutOff(run.crawl) # {} => end \in InSeq(StoppingCodes)
    BY EndReasons
<1>4. Conclusion = IF ~run.crawl.violation /\ (run.failed \/ (Resumed /\ run.preflightFailed)) THEN NoFile
                   ELSE IF ~run.failed /\ Consistent(run.crawl) THEN Checkpoint(status, run.crawl, end)
                   ELSE IF run.last = NoFile THEN NoFile ELSE Checkpoint(status, run.last.crawl, end)
    BY DEF Conclusion
<1> HIDE DEF end
<1>5. status \in Statuses /\ (run.crawl.violation => status = "FINISHED")
      /\ (status = "STOPPED" => ~run.crawl.violation /\ PutOff(run.crawl) # {})
      /\ (status = "FINISHED" /\ end # "SAFETY_VIOLATION" => PutOff(run.crawl) = {})
      /\ status \in {"STOPPED", "FINISHED"}
      /\ (end # "SAFETY_VIOLATION" => ~run.crawl.violation)
    BY <1>3 DEF Statuses
<1> HIDE DEF status
<1>6. Consistent(run.crawl)
    BY <1>1, GoodIsConsistent
<1>7. ~(~run.crawl.violation /\ (run.failed \/ (Resumed /\ run.preflightFailed)))
    BY <1>2, <1>4
<1>8. CASE ~run.failed
    <2>1. Conclusion = Checkpoint(status, run.crawl, end)
        BY <1>4, <1>6, <1>7, <1>8
    <2>2. /\ Conclusion \in FileRecord /\ Conclusion.status = status /\ Conclusion.crawl = run.crawl
          /\ Conclusion.end = end
        BY <1>1, <1>3, <1>5, <2>1, CheckpointFields
    <2>3. PutOff(run.crawl) = {} => Left(run.crawl) = {}
        BY <1>2 DEF NoneInAudit, InState, PutOff, Left, isLeftToAudit
    <2>4. PutOff(run.crawl) \subseteq Left(run.crawl)
        BY <1>1, PutOffIsLeft
    <2>5. FileOK(Conclusion)
        BY <1>1, <1>2, <1>5, <2>2, <2>3, <2>4 DEF FileOK, NoneInAudit, Counted
    <2>6. status = "STOPPED" => IsUnderWay
        BY <1>2, <1>5, <1>7, <1>8 DEF Resumed
    <2>7. IsSaved
        BY <1>1, <1>8 DEF PhaseOK, AtTheEnd
    <2>8. status = "FINISHED" /\ end # "SAFETY_VIOLATION" => Left(run.crawl) = {}
        BY <1>5, <2>3
    <2> QED BY <1>2, <1>5, <1>8, <2>2, <2>5, <2>6, <2>7, <2>8 DEF IsUnderWay, IsSaved
<1>9. CASE run.failed
    <2>1. run.crawl.violation /\ status = "FINISHED" /\ end = "SAFETY_VIOLATION"
        BY <1>3, <1>5, <1>7, <1>9
    <2>2. Conclusion = Checkpoint(status, run.last.crawl, end)
        BY <1>2, <1>4, <1>9, <2>1
    <2>3. /\ Conclusion \in FileRecord /\ Conclusion.status = status /\ Conclusion.crawl = run.last.crawl
          /\ Conclusion.end = end
        BY <1>1, <1>3, <1>5, <2>2, CheckpointFields
    <2>4. FileOK(Conclusion)
        BY <1>1, <2>1, <2>3 DEF FileOK
    <2> QED BY <1>2, <1>5, <2>1, <2>3, <2>4
<1>10. run.failed \in BOOLEAN
    BY <1>1, MemoryTypes DEF RunRecord
<1> QED BY <1>8, <1>9, <1>10

(* Broken off, it is what was saved last, and the Run is over.              *)
LEMMA BrokenOffConcludes ==
    ASSUME Types, BrokenOff, run.pc # "OUTPUT"
    PROVE  /\ Conclusion \in FileRecord /\ FileOK(Conclusion) /\ Conclusion # NoFile
           /\ Conclusion.status = "FINISHED" /\ Conclusion.crawl = run.last.crawl
<1> DEFINE end == decideRunExecutionEndReason(run.crawl)
           status == IF end \in InSeq(StoppingCodes) THEN "STOPPED" ELSE "FINISHED"
<1>1. /\ run.last \in FileRecord /\ run.last.crawl \in CrawlRecord /\ FileOK(run.last) /\ IsUnderWay
      /\ ~Consistent(run.crawl) /\ Conclusion # NoFile /\ PutOff(run.crawl) = {}
    BY MemoryTypes DEF BrokenOff
<1>2. end \in Ends /\ status = "FINISHED"
    BY <1>1, EndReasons
<1>3. Conclusion = Checkpoint(status, run.last.crawl, end)
    BY <1>1 DEF Conclusion
<1> HIDE DEF end, status
<1>4. /\ Conclusion \in FileRecord /\ Conclusion.status = "FINISHED" /\ Conclusion.crawl = run.last.crawl
    BY <1>1, <1>2, <1>3, CheckpointFields DEF Statuses
<1>5. FileOK(Conclusion)
    BY <1>1, <1>4 DEF FileOK
<1> QED BY <1>1, <1>4, <1>5

(* In both cases the pages are those of the newest state, and when the Run  *)
(* is over without a violation nothing is left in the memory, nor in the    *)
(* state unless the crawl was broken off.                                   *)
LEMMA ConclusionFits ==
    ASSUME CrawlInv, run.pc = "PLACE", run.then \in {"CLEAN", "END"}
    PROVE  /\ Conclusion \in FileRecord /\ FileOK(Conclusion) /\ Conclusion # NoFile
           /\ Conclusion.status \in {"STOPPED", "FINISHED"}
           /\ \/ Conclusion.crawl = run.crawl /\ ~run.failed /\ SteadyInv
              \/ Conclusion.crawl = run.last.crawl /\ Conclusion.status = "FINISHED"
           /\ Conclusion.status = "FINISHED" /\ Conclusion.end # "SAFETY_VIOLATION" =>
                Left(run.crawl) = {} /\ (Consistent(run.crawl) => Left(Conclusion.crawl) = {})
           /\ Conclusion.status = "STOPPED" => run.last.status = "IN_PROGRESS"
           /\ Len(Conclusion.crawl.completed) = Len(run.last.crawl.completed)
<1>1. CASE SteadyInv
    BY <1>1, ConclusionIsOK
<1>2. CASE Types /\ BrokenOff
    <2>1. /\ Conclusion \in FileRecord /\ FileOK(Conclusion) /\ Conclusion # NoFile
          /\ Conclusion.status = "FINISHED" /\ Conclusion.crawl = run.last.crawl
        BY <1>2, BrokenOffConcludes
    <2>2. Left(run.crawl) = {}
        BY <1>2 DEF BrokenOff, Left, isLeftToAudit, InState, PutOff
    <2>3. ~Consistent(run.crawl)
        BY <1>2 DEF BrokenOff
    <2> QED BY <2>1, <2>2, <2>3
<1> QED BY <1>1, <1>2 DEF CrawlInv

(* What a step that places a state makes of the files                       *)
Places(c) ==
    /\ disk' = [disk EXCEPT !.state = c]
    /\ c \in FileRecord /\ FileOK(c) /\ c # NoFile
    /\ Follows(disk.prev.crawl, c.crawl)
    /\ c.status # "FINISHED" => PagesMatch(c.crawl)

(* The files fit together with it.                                          *)
LEMMA PlacedFits ==
    ASSUME Types, FilesOK, run.pc = "PLACE", NEW c, Places(c),
           c.status = "FINISHED" => run'.pc \in {"NONE", "CLEAN"},
           run'.pc \in {"CLEAN", "CLEAN_PREV"} => c.status = "FINISHED"
    PROVE  disk' \in DiskRecord /\ FilesOK' /\ Newest' = c /\ disk'.state = c /\ disk'.pages = disk.pages
<1>1. disk' \in DiskRecord /\ disk'.state = c /\ disk'.prev = disk.prev /\ disk'.pages = disk.pages
    BY DEF Places, Types, DiskRecord
<1>2. Newest' = c
    BY <1>1 DEF Newest, Places
<1>3. disk.state.status # "FINISHED" /\ PagesMatch(disk.prev.crawl)
    BY DEF FilesOK
<1>4. FilesOK'
    BY <1>1, <1>3 DEF FilesOK, Places, PagesMatch
<1> QED BY <1>1, <1>2, <1>4

(* A save in the loop: the memory has caught up with the files.             *)
LEMMA SavedInTheLoop == ASSUME SteadyInv, PlaceState, ~Concluding PROVE SteadyInv'
<1> DEFINE c == Checkpoint("IN_PROGRESS", run.crawl, "NONE")
<1>1. /\ Types /\ FilesOK /\ MemoryOK /\ PhaseOK /\ run.pc = "PLACE" /\ InRun /\ UNCHANGED <<down, faults>>
      /\ run \in RunRecord /\ run.crawl \in CrawlRecord /\ Good(run.crawl)
    BY MemoryTypes DEF SteadyInv, PlaceState, At, Smooth, InRun, MemoryOK
<1>2. /\ run.then \in {"NEXT", "WAIT"} /\ disk.state = NoFile
      /\ ~run.failed /\ Counted /\ NoneInAudit
      /\ Undisturbed => PutOff(run.crawl) = {}
      /\ run.then = "NEXT" => run.page = 0
      /\ run.then = "WAIT" =>
            /\ run.unavailable /\ ~run.lost /\ ~run.crawl.violation
            /\ run.page # 0 /\ AtPage /\ PutOff(run.crawl) = {run.page}
    BY <1>1 DEF PhaseOK, InASave, Concluding
<1>3. /\ c \in FileRecord /\ c.status = "IN_PROGRESS" /\ c.crawl = run.crawl /\ c # NoFile
    BY <1>1, CheckpointFields DEF Statuses, Ends
<1> HIDE DEF c
<1>4. FileOK(c)
    BY <1>1, <1>2, <1>3 DEF FileOK, Counted, NoneInAudit
<1>5. Follows(disk.prev.crawl, c.crawl)
    BY <1>1, <1>3, MemoryFollowsFiles
<1>6. PagesMatch(c.crawl)
    BY <1>1, <1>2, <1>3 DEF MemoryOK, PagesMatch
<1>7. disk' = [disk EXCEPT !.state = c] /\ run' = [run EXCEPT !.pc = run.then, !.last = c]
    BY DEF PlaceState, StateToWrite, c
<1>8. /\ run' \in RunRecord /\ run'.pc = run.then /\ run'.crawl = run.crawl /\ run'.saved = run.saved /\ run'.last = c
      /\ run'.page = run.page /\ run'.failed = run.failed /\ run'.lost = run.lost /\ run'.unavailable = run.unavailable
    BY <1>1, <1>2, <1>3, <1>7 DEF RunRecord, Steps
<1>9. Places(c)
    BY <1>3, <1>4, <1>5, <1>6, <1>7 DEF Places
<1>10. disk' \in DiskRecord /\ FilesOK' /\ Newest' = c /\ disk'.pages = disk.pages
    BY <1>1, <1>2, <1>3, <1>8, <1>9, PlacedFits
<1>11. Types'
    BY <1>1, <1>8, <1>10 DEF Types
<1>12. MemoryOK'
    <2>1. Follows(c.crawl, run.crawl)
        BY <1>1, <1>3, FollowsItself
    <2> QED BY <1>1, <1>3, <1>4, <1>6, <1>8, <1>10, <2>1 DEF MemoryOK, PagesMatch
<1>13. AtPage' <=> AtPage
    BY <1>8 DEF AtPage
<1>14. PhaseOK'
    BY <1>2, <1>3, <1>8, <1>13
    DEF PhaseOK, BeforeTheLoop, InTheLoop, InASave, AtTheEnd, InRun, Counted, IsSaved, IsUnderWay, NoneInAudit, Undisturbed
<1> QED BY <1>10, <1>11, <1>12, <1>14 DEF SteadyInv

(* What the step that concludes writes                                      *)
LEMMA ConcludingPlaces ==
    ASSUME CrawlInv, PlaceState, Concluding
    PROVE  /\ Places(Conclusion) /\ run.pc = "PLACE" /\ run.then \in {"CLEAN", "END"}
           /\ run'.pc \in {"NONE", "CLEAN"} /\ (run'.pc = "CLEAN" => Conclusion.status = "FINISHED")
           /\ run' \in RunRecord /\ run'.crawl = NoCrawl /\ run'.saved = NoFile /\ run'.last = NoFile /\ run'.page = 0
<1>1. /\ Types /\ FilesOK /\ run.pc = "PLACE" /\ InRun /\ run.then \in {"CLEAN", "END"}
      /\ SteadyInv \/ BrokenOff
    BY DEF CrawlInv, SteadyInv, PlaceState, At, InRun, Concluding
<1>2. /\ Conclusion \in FileRecord /\ FileOK(Conclusion) /\ Conclusion # NoFile
      /\ Conclusion.status \in {"STOPPED", "FINISHED"}
      /\ \/ Conclusion.crawl = run.crawl /\ ~run.failed /\ SteadyInv
         \/ Conclusion.crawl = run.last.crawl /\ Conclusion.status = "FINISHED"
    BY <1>1, ConclusionFits
<1>3. disk' = [disk EXCEPT !.state = Conclusion]
      /\ run' = IF run.then = "END" \/ Conclusion.status # "FINISHED" THEN NoProcess ELSE [NoProcess EXCEPT !.pc = run.then]
    BY DEF PlaceState, StateToWrite
<1>4. Follows(disk.prev.crawl, Conclusion.crawl)
    <2>1. CASE SteadyInv
        <3>1. Follows(disk.prev.crawl, run.crawl) /\ Follows(disk.prev.crawl, run.last.crawl)
            BY <1>1, <2>1, MemoryFollowsFiles DEF SteadyInv
        <3> QED BY <1>2, <3>1
    <2>2. CASE BrokenOff
        <3>1. disk.prev = run.last
            BY <1>1, <2>2 DEF BrokenOff, Newest
        <3>2. Follows(disk.prev.crawl, run.last.crawl)
            BY <1>1, <3>1, FollowsItself, MemoryTypes
        <3>3. Conclusion.crawl = run.last.crawl
            BY <1>1, <2>2, BrokenOffConcludes
        <3> QED BY <3>2, <3>3
    <2> QED BY <1>1, <2>1, <2>2
<1>5. Conclusion.status # "FINISHED" => PagesMatch(Conclusion.crawl)
    BY <1>1, <1>2 DEF SteadyInv, MemoryOK, PagesMatch
<1>6. Places(Conclusion)
    BY <1>2, <1>3, <1>4, <1>5 DEF Places
<1>7. /\ run'.pc \in {"NONE", "CLEAN"} /\ (run'.pc = "CLEAN" => Conclusion.status = "FINISHED")
      /\ run' \in RunRecord /\ run'.crawl = NoCrawl /\ run'.saved = NoFile /\ run'.last = NoFile /\ run'.page = 0
    <2> PICK p \in RunRecord : p = NoProcess
        BY EmptyRecords
    <2>1. CASE run' = p
        BY <2>1, EmptyRecords
    <2>2. CASE run' = [p EXCEPT !.pc = "CLEAN"] /\ Conclusion.status = "FINISHED"
        <3>1. /\ run'.pc = "CLEAN" /\ run' \in RunRecord /\ run'.crawl = p.crawl /\ run'.saved = p.saved
              /\ run'.last = p.last /\ run'.page = p.page
            BY <2>2 DEF RunRecord, Steps
        <3> QED BY <2>2, <3>1, EmptyRecords
    <2> QED BY <1>1, <1>3, <2>1, <2>2
<1> QED BY <1>1, <1>6, <1>7

(* A conclusion ends the execution, or leaves it to the clean-up.           *)
LEMMA ConclusionKeepsInv == ASSUME CrawlInv, PlaceState, Concluding PROVE SteadyInv'
<1>1. Types /\ FilesOK /\ UNCHANGED <<down, faults>>
    BY DEF CrawlInv, SteadyInv, PlaceState, Smooth
<1>2. /\ Places(Conclusion) /\ run.pc = "PLACE"
      /\ run'.pc \in {"NONE", "CLEAN"} /\ (run'.pc = "CLEAN" => Conclusion.status = "FINISHED")
      /\ run' \in RunRecord /\ run'.crawl = NoCrawl /\ run'.saved = NoFile /\ run'.last = NoFile /\ run'.page = 0
    BY ConcludingPlaces
<1>3. PICK c : c = Conclusion
    OBVIOUS
<1>4. disk' \in DiskRecord /\ FilesOK'
    BY <1>1, <1>2, <1>3, PlacedFits
<1>5. Types'
    BY <1>1, <1>2, <1>4 DEF Types
<1>6. MemoryOK' /\ PhaseOK'
    BY <1>2, EmptyIsGood DEF MemoryOK, InRun, PhaseOK, BeforeTheLoop, InTheLoop, InASave, AtTheEnd
<1> QED BY <1>4, <1>5, <1>6 DEF SteadyInv

-----------------------------------------------------------------------------
(* The inductive invariant *)

(* A steady crawl stays so, or is broken off.                               *)
LEMMA SteadySteps == ASSUME SteadyInv, [Next]_vars PROVE CrawlInv'
<1>1. CASE Choose
    BY <1>1, ChooseKeepsInv DEF CrawlInv
<1>2. CASE Work
    <2>1. CASE Check \/ MetadataKnown \/ CrawlEnds \/ StopCrawl \/ BeginPage
        BY <2>1, CheckKeepsInv, MetadataKeepsInv, EndsKeepInv, StopsKeepInv, BeginPageKeepsInv DEF CrawlInv
    <2>2. CASE \E bad \in BOOLEAN : PreflightPasses(bad)
        BY <2>2, PreflightPassesKeepsInv DEF CrawlInv
    <2>3. CASE \E bad \in BOOLEAN : PreflightFails(bad) \/ CrawlThrows(bad)
        BY <2>3, PreflightFailsKeepsInv, StopsKeepInv DEF CrawlInv
    <2>4. CASE \E unavailable, bad \in BOOLEAN : FetchMetadata(unavailable, bad)
        BY <2>4, MetadataKeepsInv DEF CrawlInv
    <2>5. CASE \E code \in {"MAX_RUNTIME_REACHED", "RUN_INTERRUPTED", "SERVICE_REQUEST_LIMIT_REACHED"} : StopFromOutside(code)
        BY <2>5, StopsKeepInv DEF CrawlInv
    <2>6. CASE \E links \in Orders(Unknown(run.crawl.entries)), unavailable, bad \in BOOLEAN : KeepPage(links, unavailable, bad)
        BY <2>6, KeepPageKeepsInv DEF CrawlInv
    <2>7. CASE \E links \in Orders(Unknown(run.crawl.entries)), bad \in BOOLEAN : LinksThrow(links, bad)
        BY <2>7, LinksThrowBreaksOff DEF CrawlInv
    <2>8. CASE DropUnavailable \/ DropLoggedOut \/ Recheck \/ GiveUp
        BY <2>8, DropsKeepInv, RecheckKeepsInv, EndsKeepInv DEF CrawlInv
    <2>9. CASE SavePage \/ SavePageFails \/ MoveState \/ SaveStateFails
        BY <2>9, SavePageKeepsInv, SaveFailuresKeepInv, MoveStateKeepsInv DEF CrawlInv
    <2>10. CASE PlaceState
        BY <2>10, SavedInTheLoop, ConclusionKeepsInv DEF CrawlInv
    <2>11. CASE OutputsWritten \/ OutputsFail \/ RemovePages \/ RemovePrevious
        BY <2>11, OutputsKeepInv, RemovalsKeepInv DEF CrawlInv
    <2> QED BY <1>2, <2>1, <2>2, <2>3, <2>4, <2>5, <2>6, <2>7, <2>8, <2>9, <2>10, <2>11 DEF Work
<1>3. CASE Kill
    BY <1>3, NoProcessKeepsInv DEF Kill, CrawlInv, SteadyInv
<1>4. CASE UNCHANGED vars
    <2>1. SteadyInv'
        BY <1>4 DEF vars, SteadyInv, Types, FilesOK, MemoryOK, PhaseOK, BeforeTheLoop, InTheLoop, InASave, AtTheEnd,
                    Newest, PagesMatch, InRun, IsSaved, IsOneAhead, IsUnderWay, Counted, NoneInAudit, Undisturbed, AtPage,
                    Conclusion, Resumed
    <2> QED BY <2>1 DEF CrawlInv
<1> QED BY <1>1, <1>2, <1>3, <1>4 DEF Next, Over

(* A crawl that is broken off can only be concluded.                        *)
LEMMA OnlyConcludes ==
    ASSUME BrokenOff, Next
    PROVE  OutputsWritten \/ OutputsFail \/ MoveState \/ PlaceState \/ SaveStateFails \/ Kill
<1>1. run.pc \in {"OUTPUT", "MOVE", "PLACE"}
    BY DEF BrokenOff
<1>2. ASSUME NEW links, NEW unavailable, NEW bad
      PROVE  /\ ~PreflightPasses(bad) /\ ~PreflightFails(bad) /\ ~CrawlThrows(bad) /\ ~FetchMetadata(unavailable, bad)
             /\ ~KeepPage(links, unavailable, bad) /\ ~LinksThrow(links, bad)
    BY <1>1, Zenon DEF PreflightPasses, PreflightFails, CrawlThrows, FetchMetadata, KeepPage, LinksThrow, At
<1>3. ASSUME NEW code PROVE ~StopFromOutside(code)
    BY <1>1, Zenon DEF StopFromOutside, At
<1>4. /\ ~Choose /\ ~Over /\ ~Check /\ ~MetadataKnown /\ ~CrawlEnds /\ ~StopCrawl /\ ~BeginPage
      /\ ~DropUnavailable /\ ~DropLoggedOut /\ ~Recheck /\ ~GiveUp /\ ~SavePage /\ ~SavePageFails
      /\ ~RemovePages /\ ~RemovePrevious
    BY <1>1, Zenon DEF Choose, Over, Check, MetadataKnown, CrawlEnds, StopCrawl, BeginPage, DropUnavailable,
        DropLoggedOut, Recheck, GiveUp, SavePage, SavePageFails, RemovePages, RemovePrevious, At
<1> QED BY <1>2, <1>3, <1>4, Zenon DEF Next, Work

(* It stays so until it is, or until the process is gone.                   *)
LEMMA BrokenOffSteps == ASSUME Types, FilesOK, BrokenOff, [Next]_vars PROVE CrawlInv'
<1>1. run \in RunRecord /\ (run.pc # "OUTPUT" => Concluding)
    BY MemoryTypes DEF BrokenOff, Concluding
<1>2. CASE run' = NoProcess /\ UNCHANGED <<disk, down>> /\ (Fault \/ Smooth)
    BY <1>2, NoProcessKeepsInv DEF CrawlInv
<1>3. CASE /\ run.pc = "OUTPUT" /\ UNCHANGED <<disk, down>> /\ (Fault \/ Smooth)
           /\ Conclusion # NoFile /\ \E after \in {"CLEAN", "END"} : run' = ToSave(after)
    <2>1. PICK after \in {"CLEAN", "END"} : run' = [run EXCEPT !.pc = "MOVE", !.then = after]
        BY <1>3 DEF ToSave
    <2>2. /\ run' \in RunRecord /\ run'.crawl = run.crawl /\ run'.saved = run.saved /\ run'.last = run.last
          /\ run'.failed = run.failed /\ run'.page = run.page /\ run'.pc = "MOVE" /\ run'.then = after
          /\ run'.preflightFailed = run.preflightFailed
        BY <1>1, <2>1 DEF RunRecord, Steps
    <2>3. Conclusion' = Conclusion /\ Newest' = Newest
        BY <1>3, <2>2 DEF Conclusion, Resumed, Newest
    <2>4. faults' \in 0 .. MaxFaults
        BY <1>3, FaultsAreCounted
    <2>5. Types' /\ FilesOK'
        BY <1>3, <2>2, <2>4 DEF Types, FilesOK, PagesMatch
    <2>6. BrokenOff'
        BY <1>3, <2>2, <2>3 DEF BrokenOff, IsUnderWay
    <2> QED BY <2>5, <2>6 DEF CrawlInv
<1>4. CASE MoveState
    <2>1. /\ Types' /\ FilesOK' /\ Newest' = Newest
          /\ run.pc = "MOVE" /\ run'.pc = "PLACE" /\ run'.then = run.then /\ run'.crawl = run.crawl
          /\ run'.saved = run.saved /\ run'.last = run.last /\ run'.page = run.page /\ run'.failed = run.failed
          /\ disk'.state = NoFile /\ Conclusion' = Conclusion
        BY <1>4, MoveStateMoves
    <2>2. BrokenOff'
        BY <2>1 DEF BrokenOff, IsUnderWay
    <2> QED BY <2>1, <2>2 DEF CrawlInv
<1>5. CASE PlaceState
    <2>1. Concluding
        BY <1>1, <1>5 DEF PlaceState, At
    <2> QED BY <1>5, <2>1, ConclusionKeepsInv DEF CrawlInv
<1>6. CASE UNCHANGED vars
    <2>1. Types' /\ FilesOK'
        BY <1>6 DEF vars, Types, FilesOK, PagesMatch
    <2>2. BrokenOff'
        BY <1>6 DEF vars, BrokenOff, IsUnderWay, Newest, Conclusion, Resumed
    <2> QED BY <2>1, <2>2 DEF CrawlInv
<1>7. CASE OutputsWritten \/ OutputsFail
    <2>1. run.pc = "OUTPUT" /\ UNCHANGED <<disk, down>> /\ (Fault \/ Smooth)
        BY <1>7 DEF OutputsWritten, OutputsFail, At
    <2>2. run' = NoProcess \/ (Conclusion # NoFile /\ \E after \in {"CLEAN", "END"} : run' = ToSave(after))
        BY <1>7 DEF OutputsWritten, OutputsFail
    <2> QED BY <1>2, <1>3, <2>1, <2>2
<1>8. CASE SaveStateFails \/ Kill
    BY <1>1, <1>2, <1>8 DEF SaveStateFails, Failed, Kill, At
<1> QED BY <1>4, <1>5, <1>6, <1>7, <1>8, OnlyConcludes

(* It holds of every execution of a Run and of what it leaves behind.       *)
THEOREM CrawlInvHolds == Spec => []CrawlInv
<1>1. Init => SteadyInv
    <2> SUFFICES ASSUME Init PROVE SteadyInv
        OBVIOUS
    <2>1. disk = EmptyDirectory /\ run = NoProcess /\ down \subseteq Urls \cup {Metadata} /\ faults = 0
        BY DEF Init
    <2>2. Types
        BY <2>1, EmptyDirectoryFields, EmptyRecords, CrawlAssumption DEF Types
    <2>3. DOMAIN NoCrawl.completed = {}
        BY EmptyRecords
    <2>4. FilesOK
        BY <2>1, <2>3, EmptyDirectoryFields, EmptyRecords, EmptyIsGood DEF FilesOK, PagesMatch
    <2>5. MemoryOK /\ PhaseOK
        BY <2>1, EmptyRecords, EmptyIsGood
        DEF MemoryOK, InRun, PhaseOK, BeforeTheLoop, InTheLoop, InASave, AtTheEnd
    <2> QED BY <2>2, <2>4, <2>5 DEF SteadyInv
<1>2. Init => CrawlInv
    BY <1>1 DEF CrawlInv
<1>3. CrawlInv /\ [Next]_vars => CrawlInv'
    BY SteadySteps, BrokenOffSteps DEF CrawlInv
<1> QED BY <1>2, <1>3, PTL DEF Spec

-----------------------------------------------------------------------------
(* The properties *)

(* What every crawl and every state file is                                 *)
LEMMA CrawlsAreOK ==
    ASSUME NEW crawl \in CrawlRecord, Good(crawl)
    PROVE  /\ CrawlOK(crawl)
           /\ \A i \in DOMAIN crawl.entries : crawl.entries[i].state = "SKIPPED" <=> crawl.entries[i].why # "NONE"
           /\ \A i, j \in DOMAIN crawl.entries : crawl.entries[i].url = crawl.entries[j].url => i = j
<1>1. DOMAIN crawl.entries \subseteq Ids
    BY EntriesHaveIds DEF CrawlRecord, Good, EntriesOK
<1>2. InSeq(crawl.entries) \subseteq Entries
    BY LenProperties, ElementOfSeq DEF CrawlRecord, InSeq
<1>3. InSeq(crawl.completed) \subseteq DOMAIN crawl.entries
    BY GoodIsConsistent DEF InSeq
<1>4. CrawlOK(crawl)
    BY <1>1, <1>2, <1>3 DEF CrawlOK, CrawlRecord
<1> QED BY <1>4 DEF Good, EntriesOK

(* So is one that is broken off.                                            *)
LEMMA BrokenOffIsOK ==
    ASSUME BrokenOff, run.crawl \in CrawlRecord
    PROVE  /\ CrawlOK(run.crawl)
           /\ \A i \in DOMAIN run.crawl.entries :
                run.crawl.entries[i].state = "SKIPPED" <=> run.crawl.entries[i].why # "NONE"
           /\ \A i, j \in DOMAIN run.crawl.entries : run.crawl.entries[i].url = run.crawl.entries[j].url => i = j
<1>1. /\ \A i, j \in DOMAIN run.crawl.entries : run.crawl.entries[i].url = run.crawl.entries[j].url => i = j
      /\ \A i \in DOMAIN run.crawl.entries :
            run.crawl.entries[i].state = "SKIPPED" <=> run.crawl.entries[i].why # "NONE"
    BY DEF BrokenOff
<1>2. DOMAIN run.crawl.entries \subseteq Ids
    BY <1>1, EntriesHaveIds DEF CrawlRecord
<1>3. InSeq(run.crawl.entries) \subseteq Entries
    BY LenProperties, ElementOfSeq DEF CrawlRecord, InSeq
<1>4. InSeq(run.crawl.completed) \subseteq DOMAIN run.crawl.entries
    BY DEF BrokenOff, InState, InSeq
<1> QED BY <1>1, <1>2, <1>3, <1>4 DEF CrawlOK, CrawlRecord

(* CrawlTypeOK for every site: an entry is skipped if, and only if, it has  *)
(* a reason, no page is known twice, and no file has a page in audit.       *)
THEOREM CrawlTypeHolds == Spec => []CrawlTypeOK
<1>1. CrawlInv => CrawlTypeOK
    <2> SUFFICES ASSUME CrawlInv PROVE CrawlTypeOK
        OBVIOUS
    <2>1. Types /\ FilesOK /\ ((MemoryOK /\ PhaseOK) \/ BrokenOff)
        BY DEF CrawlInv, SteadyInv
    <2>2. /\ disk.state.crawl \in CrawlRecord /\ Good(disk.state.crawl) /\ disk.state \in FileRecord
          /\ disk.prev.crawl \in CrawlRecord /\ Good(disk.prev.crawl) /\ disk.prev \in FileRecord
          /\ run.crawl \in CrawlRecord /\ (Good(run.crawl) \/ BrokenOff)
          /\ run.saved \in FileRecord /\ run.saved.crawl \in CrawlRecord /\ Good(run.saved.crawl)
          /\ run.last \in FileRecord /\ run.last.crawl \in CrawlRecord /\ Good(run.last.crawl)
        BY <2>1, DiskTypes, MemoryTypes DEF FilesOK, FileOK, MemoryOK, BrokenOff
    <2>8. /\ CrawlOK(run.crawl)
          /\ \A i \in DOMAIN run.crawl.entries :
                run.crawl.entries[i].state = "SKIPPED" <=> run.crawl.entries[i].why # "NONE"
          /\ \A i, j \in DOMAIN run.crawl.entries : run.crawl.entries[i].url = run.crawl.entries[j].url => i = j
        BY <2>2, CrawlsAreOK, BrokenOffIsOK
    <2>3. ASSUME NEW c \in FileRecord, c.crawl \in CrawlRecord, Good(c.crawl) PROVE CheckpointOK(c)
        BY <2>3, CrawlsAreOK DEF CheckpointOK, FileRecord
    <2>4. CheckpointOK(disk.state) /\ CheckpointOK(disk.prev) /\ CheckpointOK(run.saved) /\ CheckpointOK(run.last)
          /\ CrawlOK(run.crawl)
        BY <2>2, <2>3, <2>8
    <2>5. run.page \in 0 .. Len(run.crawl.entries)
        <3>1. run.page = 0 \/ run.page \in Left(run.crawl)
            <4>1. CASE run.pc \in {"NONE", "CLEAN", "CLEAN_PREV", "CHECK", "PREFLIGHT", "METADATA", "PAGE"}
                BY <2>1, <4>1 DEF PhaseOK, InRun, BeforeTheLoop, InASave, BrokenOff
            <4>2. CASE run.pc \in {"NEXT", "AUDIT", "WAIT"}
                BY <2>1, <4>2 DEF PhaseOK, InTheLoop, AtPage, BrokenOff
            <4>3. CASE run.pc \in {"MOVE", "PLACE", "OUTPUT"}
                BY <2>1, <4>3 DEF PhaseOK, InASave, AtTheEnd, AtPage, BrokenOff
            <4> QED BY <2>1, <4>1, <4>2, <4>3, MemoryTypes DEF RunRecord, Steps
        <3> QED BY <2>1, <3>1, MemoryTypes DEF Left
    <2>6. /\ disk.pages \in [Ids -> Urls \cup {NoPage, Broken}]
          /\ run.pc \in Steps /\ run.then \in Steps \cup {"END"}
          /\ run.rechecks \in 0 .. MaxRechecks /\ faults \in 0 .. MaxFaults /\ down \subseteq Urls \cup {Metadata}
          /\ {run.unavailable, run.lost, run.failed, run.preflightFailed} \subseteq BOOLEAN
        <3>1. run \in RunRecord /\ disk \in DiskRecord
            BY <2>1 DEF Types
        <3> QED BY <2>1, <3>1 DEF Types, RunRecord, DiskRecord, Steps
    <2>7. ASSUME NEW crawl \in {disk.state.crawl, disk.prev.crawl, run.crawl}, NEW i \in Ids, NEW j \in Ids,
                 i \in DOMAIN crawl.entries
          PROVE  /\ crawl.entries[i].state = "SKIPPED" <=> crawl.entries[i].why # "NONE"
                 /\ crawl.entries[i].state = "AUDITING" => crawl = run.crawl
                 /\ j \in DOMAIN crawl.entries /\ crawl.entries[i].url = crawl.entries[j].url => i = j
        <3>1. crawl = run.crawl \/ (crawl \in CrawlRecord /\ Good(crawl))
            BY <2>2
        <3>2. crawl.entries[i].state = "AUDITING" => crawl = run.crawl
            BY <2>1, <2>7 DEF FilesOK, FileOK, InState
        <3> QED BY <2>7, <2>8, <3>1, <3>2, CrawlsAreOK
    <2> QED BY <2>4, <2>5, <2>6, <2>7 DEF CrawlTypeOK
<1> QED BY <1>1, CrawlInvHolds, PTL

(* Every state file a resumption could fall back to finds its pages, at     *)
(* every moment of every execution.                                         *)
THEOREM SavedPagesMatchHolds == Spec => []SavedPagesMatch
<1>1. CrawlInv => SavedPagesMatch
    <2>1. CrawlInv => FilesOK
        BY DEF CrawlInv, SteadyInv
    <2>2. FilesOK => SavedPagesMatch
        BY DEF FilesOK, PagesMatch, SavedPagesMatch, pagesUsable, Completed, InSeq
    <2> QED BY <2>1, <2>2
<1> QED BY <1>1, CrawlInvHolds, PTL

(* What the reader knows of the newest state                                *)
LEMMA NewestIsOK ==
    ASSUME CrawlInv
    PROVE  readCheckpointState = Newest /\ FileOK(Newest) /\ Good(Newest.crawl) /\ Newest \in FileRecord
BY ReadsNewest, DiskTypes DEF CrawlInv, SteadyInv, FilesOK, FileOK, Newest

(* The pages are audited breadth first, over all executions.                *)
THEOREM BreadthFirstHolds == Spec => []BreadthFirst
<1>1. CrawlInv => BreadthFirst
    <2> SUFFICES ASSUME CrawlInv PROVE BreadthFirst
        OBVIOUS
    <2>1. PICK c : c = readCheckpointState
        OBVIOUS
    <2>2. Good(c.crawl)
        BY <2>1, NewestIsOK
    <2>3. LeftToAudit(c) = Left(c.crawl)
        BY DEF LeftToAudit, Left
    <2>4. \A i \in Completed(c), j \in LeftToAudit(c) : i < j
        BY <2>2, <2>3 DEF Good, OrderOK, Completed, InSeq
    <2> QED BY <2>1, <2>2, <2>4 DEF BreadthFirst, Good, OrderOK
<1> QED BY <1>1, CrawlInvHolds, PTL

(* The limit of pages counts the pages that are kept.                       *)
THEOREM LimitCountsKeptPagesHolds == Spec => []LimitCountsKeptPages
<1>1. CrawlInv => LimitCountsKeptPages
    BY NewestIsOK DEF LimitCountsKeptPages, Good, LimitOK
<1> QED BY <1>1, CrawlInvHolds, PTL

(* The newest state changes only when one is placed.                        *)
LEMMA NewestChanges ==
    ASSUME CrawlInv, [Next]_vars
    PROVE  Newest' = Newest \/ (PlaceState /\ At("PLACE"))
<1>1. Types /\ FilesOK /\ disk \in DiskRecord
    BY DEF CrawlInv, SteadyInv, Types
<1>2. CASE UNCHANGED disk
    BY <1>2 DEF Newest
<1>3. CASE Choose
    <2>1. Newest = NoFile \/ decideRunResumption(Newest) # "NOT_RESUMABLE"
        BY <1>3, ReadsNewest DEF Choose
    <2>2. disk.state.status # "FINISHED"
        BY <2>1, EmptyRecords DEF decideRunResumption, Newest
    <2>3. readCheckpoint = Newest
        BY <2>2, ReadsNewest
    <2>4. disk' = disk \/ (disk' = EmptyDirectory /\ Newest = NoFile)
        BY <1>3, <2>1, <2>3 DEF Choose
    <2> QED BY <2>4, EmptyDirectoryFields DEF Newest
<1>4. CASE Check \/ SavePage \/ RemovePages
    <2>1. disk'.state = disk.state /\ disk'.prev = disk.prev
        BY <1>1, <1>4 DEF Check, SavePage, RemovePages, DiskRecord
    <2> QED BY <2>1 DEF Newest
<1>5. CASE MoveState
    <2>1. CASE disk.state = NoFile
        BY <1>5, <2>1 DEF MoveState, Newest
    <2>2. CASE disk.state # NoFile
        <3>1. disk'.state = NoFile /\ disk'.prev = disk.state
            BY <1>1, <1>5, <2>2 DEF MoveState, DiskRecord
        <3> QED BY <2>2, <3>1 DEF Newest
    <2> QED BY <2>1, <2>2
<1>6. CASE RemovePrevious
    <2>1. disk.state.status = "FINISHED"
        BY <1>1, <1>6 DEF RemovePrevious, At, FilesOK
    <2>2. disk'.state = disk.state /\ disk.state # NoFile
        BY <1>1, <1>6, <2>1, EmptyRecords DEF RemovePrevious, DiskRecord
    <2> QED BY <2>2 DEF Newest
<1>7. CASE PlaceState
    BY <1>7 DEF PlaceState
<1>8. ASSUME NEW links, NEW unavailable, NEW bad,
             \/ PreflightPasses(bad) \/ PreflightFails(bad) \/ CrawlThrows(bad) \/ FetchMetadata(unavailable, bad)
             \/ KeepPage(links, unavailable, bad) \/ LinksThrow(links, bad)
      PROVE  UNCHANGED disk
    BY <1>8, Zenon DEF PreflightPasses, PreflightFails, CrawlThrows, FetchMetadata, KeepPage, LinksThrow
<1>9. ASSUME NEW code, StopFromOutside(code) PROVE UNCHANGED disk
    BY <1>9 DEF StopFromOutside
<1>10. ASSUME \/ MetadataKnown \/ CrawlEnds \/ StopCrawl \/ BeginPage \/ DropUnavailable
              \/ DropLoggedOut \/ Recheck \/ GiveUp \/ SavePageFails \/ SaveStateFails
              \/ OutputsWritten \/ OutputsFail \/ Kill \/ UNCHANGED vars
       PROVE  UNCHANGED disk
    BY <1>10, Zenon
    DEF MetadataKnown, CrawlEnds, StopCrawl, BeginPage, DropUnavailable, DropLoggedOut, Recheck,
 GiveUp, SavePageFails, SaveStateFails, OutputsWritten, OutputsFail, Kill, vars
<1> QED BY <1>2, <1>3, <1>4, <1>5, <1>6, <1>7, <1>8, <1>9, <1>10 DEF Next, Work, Over

(* How the state that is placed is related to the one before: it is the     *)
(* same to the reader but for its status, or one page ahead while the Run   *)
(* is under way, and it knows of every violation known before.              *)
LEMMA PlacedFollows ==
    ASSUME CrawlInv, PlaceState
    PROVE  /\ Newest' \in FileRecord /\ FileOK(Newest') /\ FileOK(Newest) /\ Newest \in FileRecord
           /\ Follows(Newest.crawl, Newest'.crawl)
           /\ Newest.crawl.violation => Newest'.crawl.violation
           /\ Newest.status # "FINISHED" /\ Newest'.status \in Statuses
           /\ \/ /\ Len(Newest'.crawl.completed) = Len(Newest.crawl.completed)
                 /\ Newest'.status = "STOPPED" => Newest.status = "IN_PROGRESS"
              \/ /\ Len(Newest'.crawl.completed) = Len(Newest.crawl.completed) + 1
                 /\ Newest.status = "IN_PROGRESS" /\ Newest'.status = "IN_PROGRESS"
<1>1. /\ Types /\ FilesOK /\ run.pc = "PLACE" /\ InRun /\ run.crawl \in CrawlRecord
      /\ run.last = Newest /\ run.last \in FileRecord /\ FileOK(run.last) /\ run.last.crawl \in CrawlRecord
    BY MemoryTypes DEF CrawlInv, SteadyInv, BrokenOff, PlaceState, At, InRun, MemoryOK
<1>2. Newest.status # "FINISHED"
    BY <1>1 DEF FilesOK, Newest
<1>3. SteadyInv => /\ PhaseOK /\ Good(run.crawl) /\ Follows(run.last.crawl, run.crawl)
                   /\ run.last.crawl.violation => run.crawl.violation
    BY <1>1 DEF SteadyInv, MemoryOK
<1>4. CASE ~Concluding
    <2>1. SteadyInv
        BY <1>1, <1>4 DEF CrawlInv, BrokenOff, Concluding
    <2>2. PICK c : c = Checkpoint("IN_PROGRESS", run.crawl, "NONE")
        OBVIOUS
    <2>3. disk' = [disk EXCEPT !.state = c]
        BY <1>4, <2>2 DEF PlaceState, StateToWrite
    <2>4. c \in FileRecord /\ c.status = "IN_PROGRESS" /\ c.crawl = run.crawl /\ c # NoFile
        BY <1>1, <2>2, CheckpointFields DEF Statuses, Ends
    <2>5. disk'.state = c
        BY <1>1, <2>3 DEF Types, DiskRecord
    <2>6. Newest' = c
        BY <2>4, <2>5 DEF Newest
    <2>7. Counted /\ NoneInAudit /\ (IsSaved \/ IsOneAhead)
        BY <1>1, <1>3, <1>4, <2>1 DEF PhaseOK, InASave, Concluding
    <2>8. FileOK(c)
        BY <1>3, <2>1, <2>4, <2>7 DEF FileOK, Counted, NoneInAudit
    <2> QED BY <1>1, <1>2, <1>3, <2>1, <2>4, <2>6, <2>7, <2>8 DEF IsSaved, IsOneAhead, Statuses
<1>5. CASE Concluding
    <2>1. Places(Conclusion) /\ run.then \in {"CLEAN", "END"}
        BY <1>5, ConcludingPlaces
    <2>2. PICK c : c = Conclusion
        OBVIOUS
    <2>3. disk'.state = c /\ c # NoFile /\ c \in FileRecord /\ FileOK(c)
        BY <1>1, <2>1, <2>2 DEF Places, Types, DiskRecord
    <2>4. Newest' = c
        BY <2>3 DEF Newest
    <2>5. /\ c.status \in {"STOPPED", "FINISHED"}
          /\ (c.crawl = run.crawl /\ SteadyInv) \/ c.crawl = run.last.crawl
          /\ c.status = "STOPPED" => run.last.status = "IN_PROGRESS"
          /\ Len(c.crawl.completed) = Len(run.last.crawl.completed)
        BY <1>1, <2>1, <2>2, ConclusionFits
    <2>6. Follows(run.last.crawl, c.crawl) /\ (run.last.crawl.violation => c.crawl.violation)
        BY <1>1, <1>3, <2>5, FollowsItself
    <2> QED BY <1>1, <1>2, <2>3, <2>4, <2>5, <2>6 DEF Statuses
<1> QED BY <1>4, <1>5

(* A Run is stopped only when something is left, and is over without a      *)
(* violation only when nothing is, in the memory the outputs show, and in   *)
(* the state that stays, unless an exception took a page between its end    *)
(* and its save.                                                            *)
THEOREM StoppedIfPagesAreLeftHolds == Spec => StoppedIfPagesAreLeft
<1> DEFINE Fits(c) ==
      /\ c.status = "STOPPED" => LeftToAudit(c) # {}
      /\ c.status = "FINISHED" /\ c.end # "SAFETY_VIOLATION" =>
           /\ \A i \in DOMAIN run.crawl.entries : ~isLeftToAudit(run.crawl.entries[i])
           /\ Consistent(run.crawl) => LeftToAudit(c) = {}
<1>1. ASSUME CrawlInv, PlaceState PROVE Fits(Newest')
    <2>1. PICK c : c = Newest'
        OBVIOUS
    <2>2. c.status = "STOPPED" => LeftToAudit(c) # {}
        BY <1>1, <2>1, PlacedFollows DEF FileOK, Left, LeftToAudit
    <2>3. CASE ~Concluding
        <3>1. disk' = [disk EXCEPT !.state = Checkpoint("IN_PROGRESS", run.crawl, "NONE")]
            BY <1>1, <2>3 DEF PlaceState, StateToWrite
        <3>2. disk'.state.status = "IN_PROGRESS"
            BY <1>1, <3>1 DEF CrawlInv, SteadyInv, Types, DiskRecord, Checkpoint
        <3>3. c.status # "FINISHED"
            BY <2>1, <3>2, EmptyRecords DEF Newest
        <3> QED BY <2>1, <2>2, <3>3
    <2>4. CASE Concluding
        <3>1. Places(Conclusion) /\ run.pc = "PLACE" /\ run.then \in {"CLEAN", "END"}
            BY <1>1, <2>4, ConcludingPlaces
        <3>2. disk'.state = Conclusion /\ Conclusion # NoFile
            BY <1>1, <3>1 DEF Places, CrawlInv, SteadyInv, Types, DiskRecord
        <3>3. c = Conclusion
            BY <2>1, <3>2 DEF Newest
        <3>4. c.status = "FINISHED" /\ c.end # "SAFETY_VIOLATION" =>
                Left(run.crawl) = {} /\ (Consistent(run.crawl) => Left(c.crawl) = {})
            BY <1>1, <3>1, <3>3, ConclusionFits
        <3> QED BY <2>1, <2>2, <3>4 DEF Left, LeftToAudit
    <2> QED BY <2>3, <2>4
<1>2. ASSUME CrawlInv, [Next]_vars, readCheckpointState = Newest, readCheckpointState' = Newest'
      PROVE  readCheckpointState' # readCheckpointState => Fits(readCheckpointState')
    <2> HIDE DEF Fits
    <2> QED BY <1>1, <1>2, NewestChanges
<1>3. CrawlInv /\ [Next]_vars /\ readCheckpointState = Newest /\ (readCheckpointState = Newest)'
        => [LET c == readCheckpointState' IN
            c # readCheckpointState =>
              /\ c.status = "STOPPED" => LeftToAudit(c) # {}
              /\ c.status = "FINISHED" /\ c.end # "SAFETY_VIOLATION" =>
                   /\ \A i \in DOMAIN run.crawl.entries : ~isLeftToAudit(run.crawl.entries[i])
                   /\ Consistent(run.crawl) => LeftToAudit(c) = {}]_vars
    BY <1>2
<1>4. CrawlInv => readCheckpointState = Newest
    BY ReadsNewest
<1> QED BY <1>3, <1>4, CrawlInvHolds, PTL DEF Spec, StoppedIfPagesAreLeft

(* Only the step that begins a page brings the process to its audit.        *)
LEMMA AuditsBegin ==
    ASSUME CrawlInv, [Next]_vars, run.pc # "AUDIT", run'.pc = "AUDIT"
    PROVE  BeginPage
<1>1. Types /\ (PhaseOK \/ BrokenOff) /\ run \in RunRecord
    BY MemoryTypes DEF CrawlInv, SteadyInv
<1>2. run' # NoProcess /\ run' # run
    BY EmptyRecords
<1>3. ~Choose
    <2>1. ASSUME Choose PROVE run'.pc \in {"PREFLIGHT", "CHECK"}
        <3>1. Newest \in FileRecord /\ NoFile \in FileRecord
            BY <1>1, DiskTypes, EmptyRecords
        <3>2. run' = Begun(NoFile, "PREFLIGHT") \/ run' = Begun(readCheckpoint, "CHECK")
            BY <2>1 DEF Choose
        <3>3. readCheckpoint \in FileRecord
            BY <1>1, <3>1, DiskTypes DEF readCheckpoint, FirstOf
        <3>4. "PREFLIGHT" \in Steps /\ "CHECK" \in Steps
            BY DEF Steps
        <3> QED BY <3>1, <3>2, <3>3, <3>4, BegunFields
    <2> QED BY <2>1
<1>4. ~StopCrawl
    BY <1>1 DEF StopCrawl, StopWith, RunRecord
<1>5. ~(\E code \in {"MAX_RUNTIME_REACHED", "RUN_INTERRUPTED", "SERVICE_REQUEST_LIMIT_REACHED"} : StopFromOutside(code))
    BY <1>1 DEF StopFromOutside, StopWith, RunRecord
<1>6. ~(Check \/ MetadataKnown \/ CrawlEnds)
    BY <1>1, <1>2 DEF Check, MetadataKnown, CrawlEnds, ToSave, RunRecord
<1>7. ~(\E bad \in BOOLEAN : PreflightPasses(bad))
    <2> SUFFICES ASSUME NEW bad \in BOOLEAN, PreflightPasses(bad) PROVE FALSE
        OBVIOUS
    <2>1. PICK v : v = (run.crawl.violation \/ bad)
        OBVIOUS
    <2>2. PICK found : found = [run EXCEPT !.pc = "METADATA", !.crawl.violation = v]
        OBVIOUS
    <2>3. run' = IF Resumed THEN found ELSE [found EXCEPT !.crawl.entries = <<Discovered(Start, 0)>>]
        BY <2>1, <2>2, Zenon DEF PreflightPasses
    <2>4. run'.pc = "METADATA"
        BY <1>1, <2>2, <2>3 DEF RunRecord
    <2> QED BY <2>4
<1>8. ~(\E unavailable, bad \in BOOLEAN : FetchMetadata(unavailable, bad))
    <2> SUFFICES ASSUME NEW unavailable \in BOOLEAN, NEW bad \in BOOLEAN, FetchMetadata(unavailable, bad) PROVE FALSE
        OBVIOUS
    <2>1. PICK kept, seen : run' = [ToSave("NEXT") EXCEPT !.crawl.meta = kept, !.crawl.violation = bad, !.unavailable = seen]
        BY Zenon DEF FetchMetadata
    <2>2. run'.pc = "MOVE"
        BY <1>1, <2>1 DEF ToSave, RunRecord
    <2> QED BY <2>2
<1>9. ASSUME NEW links, NEW unavailable, NEW bad, KeepPage(links, unavailable, bad) \/ LinksThrow(links, bad)
      PROVE  FALSE
    <2>1. At("AUDIT")
        BY <1>9, Zenon DEF KeepPage, LinksThrow
    <2> QED BY <2>1 DEF At
<1>16. ASSUME NEW bad, PreflightFails(bad) \/ CrawlThrows(bad) PROVE FALSE
    <2>1. CASE PreflightFails(bad)
        <3>1. PICK f, v, es : run' = [run EXCEPT !.pc = "OUTPUT", !.preflightFailed = f,
                                                 !.crawl.violation = v, !.crawl.entries = es]
            BY <2>1, Zenon DEF PreflightFails
        <3>2. run'.pc = "OUTPUT"
            BY <1>1, <3>1 DEF RunRecord
        <3> QED BY <3>2
    <2>2. CASE CrawlThrows(bad)
        <3>1. PICK p, v, es : run' = [run EXCEPT !.pc = "OUTPUT", !.page = p,
                                                 !.crawl.violation = v, !.crawl.entries = es]
            BY <2>2, Zenon DEF CrawlThrows
        <3>2. run'.pc = "OUTPUT"
            BY <1>1, <3>1 DEF RunRecord
        <3> QED BY <3>2
    <2> QED BY <1>16, <2>1, <2>2
<1>10. ~(DropUnavailable \/ DropLoggedOut)
    BY DEF DropUnavailable, DropLoggedOut, At
<1>11. ~(Recheck \/ GiveUp)
    BY <1>1 DEF Recheck, GiveUp, RunRecord
<1>12. ~(SavePage \/ SavePageFails \/ MoveState)
    BY <1>1 DEF SavePage, SavePageFails, MoveState, ToSave, RunRecord
<1>13. ~SaveStateFails
    <2>1. run.pc \in {"MOVE", "PLACE"} => run.then \in {"NEXT", "WAIT", "CLEAN", "END"}
        BY <1>1 DEF PhaseOK, InASave, BrokenOff
    <2> QED BY <1>1, <1>2, <2>1 DEF SaveStateFails, At, Failed, RunRecord
<1>14. ~PlaceState
    <2>1. run.pc = "PLACE" => run.then \in {"NEXT", "WAIT", "CLEAN", "END"}
        BY <1>1 DEF PhaseOK, InASave, BrokenOff
    <2>2. NoProcess \in RunRecord
        BY EmptyRecords
    <2> QED BY <1>1, <1>2, <2>1, <2>2 DEF PlaceState, At, RunRecord
<1>15. ~(OutputsWritten \/ OutputsFail \/ RemovePages \/ RemovePrevious \/ Kill)
    BY <1>1, <1>2 DEF OutputsWritten, OutputsFail, RemovePages, RemovePrevious, Kill, ToSave, RunRecord
<1> QED BY <1>2, <1>3, <1>4, <1>5, <1>6, <1>7, <1>8, <1>9, <1>10, <1>11, <1>12, <1>13, <1>14, <1>15, <1>16
    DEF Next, Work, Over, vars

(* A saved violation is never forgotten, and no page is begun while one is  *)
(* known to the process, to the state it began from or to the newest state. *)
THEOREM NoPageAfterViolationHolds == Spec => NoPageAfterViolation
<1>1. ASSUME CrawlInv, [Next]_vars, readCheckpointState = Newest, readCheckpointState' = Newest'
      PROVE  /\ readCheckpointState.crawl.violation => readCheckpointState'.crawl.violation
             /\ run.pc # "AUDIT" /\ run'.pc = "AUDIT" =>
                  ~\E crawl \in {run.crawl, run.saved.crawl, readCheckpointState.crawl} : crawl.violation
    <2>1. Newest.crawl.violation => Newest'.crawl.violation
        BY <1>1, NewestChanges, PlacedFollows
    <2>2. ASSUME run.pc # "AUDIT", run'.pc = "AUDIT"
          PROVE  ~run.crawl.violation /\ ~run.saved.crawl.violation /\ ~Newest.crawl.violation
        <3>1. BeginPage
            BY <1>1, <2>2, AuditsBegin
        <3>2. run.pc = "NEXT" /\ More /\ StopReason = "NONE"
            BY <3>1 DEF BeginPage, At
        <3>3. SteadyInv
            BY <1>1, <3>2 DEF CrawlInv, BrokenOff
        <3>4. ~run.crawl.violation
            BY <3>2, <3>3, CurrentIsFirst
        <3> QED BY <3>2, <3>3, <3>4 DEF SteadyInv, MemoryOK, InRun
    <2> QED BY <1>1, <2>1, <2>2
<1>2. CrawlInv /\ [Next]_vars /\ readCheckpointState = Newest /\ (readCheckpointState = Newest)'
        => [/\ readCheckpointState.crawl.violation => readCheckpointState'.crawl.violation
            /\ run.pc # "AUDIT" /\ run'.pc = "AUDIT" =>
                 ~\E crawl \in {run.crawl, run.saved.crawl, readCheckpointState.crawl} : crawl.violation]_vars
    BY <1>1
<1>3. CrawlInv => readCheckpointState = Newest
    BY ReadsNewest
<1> QED BY <1>2, <1>3, CrawlInvHolds, PTL DEF Spec, NoPageAfterViolation

(* A start that has chosen a Run is never refused at the check: what it     *)
(* reads under the lock is the state it chose, unless it is killed.  Only   *)
(* a damaged page file breaks that (DamagedSpec, the run crawl_damaged_page)*)
THEOREM NotRefusedAtTheCheck == Spec => RefusedOnlyIfChanged
<1>1. ASSUME CrawlInv, [Next]_vars, readCheckpointState = Newest, run.pc = "CHECK", faults' = faults
      PROVE  run'.pc # "NONE"
    <2>1. Types /\ run \in RunRecord /\ faults \in Nat
        BY <1>1, MemoryTypes, CrawlAssumption DEF CrawlInv, SteadyInv, Types
    <2>2. run.saved = Newest
        BY <1>1 DEF CrawlInv, BrokenOff, SteadyInv, PhaseOK, BeforeTheLoop, MemoryOK, InRun
    <2>3. CASE Check
        <3>1. run' = [run EXCEPT !.pc = "PREFLIGHT"]
            BY <1>1, <2>2, <2>3 DEF Check
        <3> QED BY <2>1, <3>1 DEF RunRecord
    <2>4. ~Choose /\ ~Over /\ ~Kill
        BY <1>1, <2>1 DEF Choose, Over, Kill, At, Fault
    <2>5. Work => Check
        BY <1>1 DEF Work, PreflightPasses, PreflightFails, MetadataKnown, FetchMetadata, CrawlEnds, StopCrawl, BeginPage,
                    StopFromOutside, KeepPage, LinksThrow, DropUnavailable, DropLoggedOut, CrawlThrows, Recheck, GiveUp, SavePage,
                    SavePageFails, MoveState, PlaceState, SaveStateFails, OutputsWritten, OutputsFail, RemovePages,
                    RemovePrevious, At
    <2>6. CASE UNCHANGED vars
        BY <1>1, <2>6 DEF vars
    <2> QED BY <1>1, <2>3, <2>4, <2>5, <2>6 DEF Next
<1>2. CrawlInv /\ [Next]_vars /\ readCheckpointState = Newest
        => [run.pc = "CHECK" /\ faults' = faults => run'.pc # "NONE"]_vars
    BY <1>1
<1>3. CrawlInv => readCheckpointState = Newest
    BY ReadsNewest
<1> QED BY <1>2, <1>3, CrawlInvHolds, PTL DEF Spec, RefusedOnlyIfChanged

-----------------------------------------------------------------------------
(* The record of the Run *)

(* The URLs of the pages a crawl has completed, in order *)
DoneOf(crawl) == [i \in DOMAIN crawl.completed |-> crawl.entries[crawl.completed[i]].url]

(* They are a sequence of URLs, as long as that of the pages, and no URL is *)
(* in it twice.                                                             *)
LEMMA DoneUrls ==
    ASSUME NEW crawl \in CrawlRecord, Good(crawl)
    PROVE  /\ DoneOf(crawl) \in Seq(Urls) /\ Len(DoneOf(crawl)) = Len(crawl.completed)
           /\ Len(crawl.completed) \in Nat /\ DOMAIN crawl.completed = 1 .. Len(crawl.completed)
           /\ \A i, j \in 1 .. Len(crawl.completed) : DoneOf(crawl)[i] = DoneOf(crawl)[j] => i = j
<1>1. Len(crawl.completed) \in Nat /\ DOMAIN crawl.completed = 1 .. Len(crawl.completed)
    BY LenProperties DEF CrawlRecord
<1>2. \A i \in DOMAIN crawl.completed : crawl.completed[i] \in DOMAIN crawl.entries
    BY DEF Good, EntriesOK, InState
<1>3. \A i \in DOMAIN crawl.entries : crawl.entries[i] \in Entries
    BY LenProperties, ElementOfSeq DEF CrawlRecord
<1>4. DoneOf(crawl) \in [DOMAIN crawl.completed -> Urls]
    BY <1>2, <1>3 DEF DoneOf, Entries
<1>5. DoneOf(crawl) \in Seq(Urls) /\ Len(DoneOf(crawl)) = Len(crawl.completed)
    <2>1. crawl.completed \in Seq(Nat)
        BY DEF CrawlRecord
    <2> QED BY <1>4, <2>1, MappedSeq
<1>6. ASSUME NEW i \in 1 .. Len(crawl.completed), NEW j \in 1 .. Len(crawl.completed),
             DoneOf(crawl)[i] = DoneOf(crawl)[j]
      PROVE  i = j
    <2>1. crawl.completed[i] = crawl.completed[j]
        BY <1>1, <1>2, <1>6 DEF DoneOf, Good, EntriesOK
    <2>2. ~(i < j) /\ ~(j < i)
        <3>1. crawl.completed[i] \in Nat
            BY ElementOfSeq DEF CrawlRecord
        <3>2. \A k, l \in DOMAIN crawl.completed : k < l => crawl.completed[k] < crawl.completed[l]
            BY DEF Good, OrderOK
        <3>3. PICK x \in Nat : x = crawl.completed[i] /\ x = crawl.completed[j]
            BY <2>1, <3>1
        <3>4. ~(x < x)
            OBVIOUS
        <3>5. i < j => x < x
            BY <1>1, <3>2, <3>3, Zenon
        <3>6. j < i => x < x
            BY <1>1, <3>2, <3>3, Zenon
        <3> QED BY <3>4, <3>5, <3>6
    <2> QED BY <1>1, <2>2
<1> QED BY <1>1, <1>5, <1>6

(* A crawl that follows another and has as many pages has done the same,    *)
(* and one that has one page more has done one more, not done before.       *)
LEMMA DoneFollows ==
    ASSUME NEW c \in CrawlRecord, NEW d \in CrawlRecord, Good(c), Good(d), Follows(c, d)
    PROVE  /\ Len(d.completed) = Len(c.completed) => DoneOf(d) = DoneOf(c)
           /\ Len(d.completed) = Len(c.completed) + 1 =>
                \E p \in Urls :
                   /\ \A i \in 1 .. Len(DoneOf(c)) : DoneOf(c)[i] # p
                   /\ DoneOf(d) = Append(DoneOf(c), p)
<1>1. PICK s \in Seq(Urls), n \in Nat :
        s = DoneOf(c) /\ n = Len(c.completed) /\ Len(s) = n /\ DOMAIN c.completed = 1 .. n
    BY DoneUrls
<1>2. PICK t \in Seq(Urls), m \in Nat :
        /\ t = DoneOf(d) /\ m = Len(d.completed) /\ Len(t) = m /\ DOMAIN d.completed = 1 .. m
        /\ \A i, j \in 1 .. m : t[i] = t[j] => i = j
    BY DoneUrls
<1>3. n <= m
    BY <1>1, <1>2 DEF Follows
<1>4. ASSUME NEW i \in 1 .. n PROVE t[i] = s[i]
    <2>1. i \in DOMAIN c.completed /\ i \in DOMAIN d.completed
        BY <1>1, <1>2, <1>3
    <2>2. d.completed[i] = c.completed[i] /\ d.entries[c.completed[i]].url = c.entries[c.completed[i]].url
        BY <2>1 DEF Follows
    <2>3. s[i] = c.entries[c.completed[i]].url /\ t[i] = d.entries[d.completed[i]].url
        BY <1>1, <1>2, <2>1 DEF DoneOf
    <2> QED BY <2>2, <2>3
<1>5. CASE m = n
    BY <1>1, <1>2, <1>4, <1>5, SeqEqual
<1>6. ASSUME m = n + 1
      PROVE  \E p \in Urls : (\A i \in 1 .. n : s[i] # p) /\ t = Append(s, p)
    <2>1. PICK p \in Urls : p = t[m]
        <3>1. m \in 1 .. Len(t)
            BY <1>2, <1>6
        <3> QED BY <3>1, ElementOfSeq
    <2>2. \A i \in 1 .. n : s[i] # p
        BY <1>2, <1>4, <1>6, <2>1
    <2>3. PICK u \in Seq(Urls) : u = Append(s, p) /\ Len(u) = n + 1 /\ (\A i \in 1 .. n : u[i] = s[i]) /\ u[n + 1] = p
        <3>1. /\ Append(s, p) \in Seq(Urls) /\ Len(Append(s, p)) = Len(s) + 1
              /\ \A i \in 1 .. Len(s) : Append(s, p)[i] = s[i]
              /\ Append(s, p)[Len(s) + 1] = p
            BY AppendProperties
        <3> QED BY <1>1, <3>1
    <2>4. t = u
        <3>1. \A i \in 1 .. m : t[i] = u[i]
            BY <1>4, <1>6, <2>1, <2>3
        <3> QED BY <1>2, <1>6, <2>3, <3>1, SeqEqual
    <2> QED BY <2>2, <2>3, <2>4
<1> QED BY <1>1, <1>2, <1>5, <1>6

(* What the reader finds is a step of the record further, or where it was.  *)
LEMMA RecordStep ==
    ASSUME CrawlInv, [Next]_vars, readCheckpointState = Newest, readCheckpointState' = Newest'
    PROVE  [Record!Next]_(<<DoneOf(Saved.crawl), Saved.status>>)
<1>1. Saved = Newest /\ Saved' = Newest'
    BY DEF Saved
<1>2. CASE Newest' = Newest
    BY <1>1, <1>2
<1>3. CASE PlaceState
    <2>1. PICK c \in FileRecord : c = Newest /\ FileOK(c)
        BY <1>3, PlacedFollows
    <2>2. PICK d \in FileRecord : d = Newest' /\ FileOK(d)
        BY <1>3, PlacedFollows
    <2>3. c.crawl \in CrawlRecord /\ d.crawl \in CrawlRecord /\ Good(c.crawl) /\ Good(d.crawl)
        BY <2>1, <2>2 DEF FileRecord, FileOK
    <2>4. /\ Follows(c.crawl, d.crawl) /\ c.status # "FINISHED" /\ d.status \in Statuses
          /\ \/ /\ Len(d.crawl.completed) = Len(c.crawl.completed)
                /\ d.status = "STOPPED" => c.status = "IN_PROGRESS"
             \/ /\ Len(d.crawl.completed) = Len(c.crawl.completed) + 1
                /\ c.status = "IN_PROGRESS" /\ d.status = "IN_PROGRESS"
        BY <1>3, <2>1, <2>2, PlacedFollows
    <2>5. PICK old : old = DoneOf(c.crawl)
        OBVIOUS
    <2>6. PICK new : new = DoneOf(d.crawl)
        OBVIOUS
    <2>7. DoneOf(Saved.crawl) = old /\ Saved.status = c.status
        BY <1>1, <2>1, <2>5
    <2>8. DoneOf(Saved.crawl)' = new /\ Saved.status' = d.status
        <3>1. DoneOf(Saved.crawl)' = DoneOf(Newest'.crawl)
            BY <1>1 DEF DoneOf
        <3> QED BY <1>1, <2>2, <2>6, <3>1
    <2>9. CASE Len(d.crawl.completed) = Len(c.crawl.completed)
        <3>1. new = old
            BY <2>3, <2>4, <2>5, <2>6, <2>9, DoneFollows
        <3>2. c.status \in {"NONE", "IN_PROGRESS", "STOPPED"} /\ (d.status = "STOPPED" => c.status = "IN_PROGRESS")
            BY <2>1, <2>3, <2>4, <2>9, LenProperties DEF FileRecord, CrawlRecord, Statuses
        <3> QED BY <2>4, <2>7, <2>8, <3>1, <3>2
            DEF Record!Next, Record!Begin, Record!Stop, Record!Resume, Record!Finish, Statuses, DoneOf
    <2>10. CASE Len(d.crawl.completed) = Len(c.crawl.completed) + 1
        <3>1. PICK p \in Urls : (\A i \in 1 .. Len(old) : old[i] # p) /\ new = Append(old, p)
            BY <2>3, <2>4, <2>5, <2>6, <2>10, DoneFollows
        <3>2. c.status = "IN_PROGRESS" /\ d.status = "IN_PROGRESS"
            BY <2>3, <2>4, <2>10, LenProperties DEF CrawlRecord
        <3>3. [i \in DOMAIN Saved.crawl.completed |-> Saved.crawl.entries[Saved.crawl.completed[i]].url] = old
            BY <2>7, Zenon DEF DoneOf
        <3>4. [i \in DOMAIN Saved.crawl.completed |-> Saved.crawl.entries[Saved.crawl.completed[i]].url]' = new
            BY <2>8, Zenon DEF DoneOf
        <3>5. Record!Audit(p)
            BY <2>7, <2>8, <3>1, <3>2, <3>3, <3>4, Zenon DEF Record!Audit
        <3> QED BY <3>5 DEF Record!Next
    <2> QED BY <2>4, <2>9, <2>10
<1> QED BY <1>2, <1>3, NewestChanges

(* To whoever resumes it, the saved state is the record of RunProgress:     *)
(* pages are only added, one by one and never twice, and what is over stays *)
(* over.                                                                    *)
THEOREM ImplementsRunProgressHolds == Spec => ImplementsRunProgress
<1>1. Init => Record!Init
    <2> SUFFICES ASSUME Init PROVE Record!Init
        OBVIOUS
    <2>1. Saved = NoFile
        BY DEF Init, Saved, readCheckpointState, FirstOf, EmptyDirectory, stateUsable, NoFile
    <2> QED BY <2>1 DEF Record!Init, NoFile, NoCrawl
<1>2. CrawlInv /\ [Next]_vars /\ readCheckpointState = Newest /\ (readCheckpointState = Newest)'
        => [Record!Next]_(<<[i \in DOMAIN Saved.crawl.completed |-> Saved.crawl.entries[Saved.crawl.completed[i]].url],
                            Saved.status>>)
    BY RecordStep DEF DoneOf
<1>3. CrawlInv => readCheckpointState = Newest
    BY ReadsNewest
<1> QED BY <1>1, <1>2, <1>3, CrawlInvHolds, PTL DEF Spec, ImplementsRunProgress, Record!Spec, Record!vars
=============================================================================
