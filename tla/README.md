# BeakSight: a TLA+ verification project

BeakSight audits web sites with a real browser and writes a report. It has three
modes: `PUBLIC_PASSIVE` (reads public pages; command line and local UI),
`TEST_AUTH_PASSIVE` (logs in first; local UI) and `TEST_APPROVED_WRITE` (makes
one approved registration or update per job; local UI). Most of the code reads
pages and applies rules to them. What is hard in it is the control: who may
write, when, how often and what is recorded of it; which process owns a Run; and
what is true after one of the processes has died between two steps. This
project models that control.

Contents: [inventory](#inventory), [modules](#modules),
[runs](#runs-bounds-and-what-they-show), [fairness](#fairness),
[proofs](#what-is-proved), [findings](#findings),
[abstractions and what is not modelled](#abstractions-and-what-is-not-modelled),
[plan](#plan).

## Inventory

The parts that keep state, what they do with it and what makes them correct.
Paths are relative to `src/src/` unless they begin with `apps/`.

| Part | State it keeps | Operations | What makes it correct | Here |
|---|---|---|---|---|
| Approval and grant store (`control/approval/`) | tables of scenarios, receipts, execution grants, write reservations, write results | create, revise, approve, revoke; issue, consume; settle, record, close | one write at a time; limits hold between settlements; a grant is used only as approved; nothing decided is decided again | `WriteGrants` |
| Job manager and job store (`control/job/audit-job-manager.ts`, `job-store.ts`) | job rows; in memory the tracked worker, its timers, the start call in preparation | start, stop, kill, receive, recheck, exit, settle, recover | one job at a time; every write is decided before its job ends; the store agrees with the wire | `WriteJob` |
| Write worker and its IPC (`worker/`) | stage of the run, stop and signal flags, pending recheck, result document | ready, start, stop, recheck, press, report, finish, fail | presses only after an answer of the server that is still valid | `WriteJob` |
| Write guard and sender (`safety/`) | phase of the write stage, admissions left, facts of the submission | admit, send, settle | one submission per grant, only in the pressed phase | `WriteJob` |
| Local UI server (`apps/local-ui/src/server/`) | none of its own | issue and start, stop, revoke, revise, stop what was withdrawn | a withdrawal that comes in time prevents the write | `WriteJob` |
| Locks of a Run (`core/lock-file.ts`, `core/process-lock.ts`, `orchestration/output-start-lock.ts`, `run-checkpoint-session.ts`) | start lock of an output directory, `run.lock` of each Run, takeover tokens | hold, judge, wait, take over, confirm, beat, release | one Run per output directory; no Run has two writers; a resumed Run goes on from what was saved | `LockFiles`, `RunStart` |
| Instance lock (`control/job/instance-lock.ts`) | one row of the control database | acquire, renew, hold, release, each one transaction | one manager writes jobs; one that lost the row starts and repairs nothing and stops its worker | `JobServers` |
| Automated login (`control/job/auto-login-store.ts`, `auto-login-limits.ts`) | attempts, holds | begin with the job row, record, close, hold, clear | what the tables say of a login covers what the site got; interval, daily maximum and hold cannot be got round | `JobServers` |
| Stage chain (`control/job/stage-chain-policy.ts`, in the manager and the worker) | memory only | start, advance, record, stop, exit | one slot for the whole chain; no stage after a stop; the chain ends and says how | `StageChain` |
| Run checkpoint and crawl frontier (`orchestration/run-checkpoint.ts`, `crawl-frontier.ts`, `id-allocator.ts`, files of `report/artifact-writer.ts`) | saved state and pages, URL states, ids | save, choose, check, restore, requeue, conclude, clean up | resuming repeats no audited page and loses none; a state finds its pages; the end says what a resumption would find | `RunCrawl`, `RunProgress` |
| Run coordination (`orchestration/run-coordinator.ts`, `page-auditor.ts`, `site-availability.ts`) | progress, stop reasons | preflight, site metadata, page loop, recheck, stop | limits hold over all executions; a sick site is left alone; the Run is over at last | `RunCrawl` |
| Crawl queue, pacer, budgets (`crawl/`) | queue, last navigation, admitted requests | enqueue, wait, consume | interval kept when the clock jumps; the budget is never exceeded | not modelled |
| Control database and migrations (`control/store/`) | SQLite file | transactions, migrations | a transaction is atomic | a transaction is one action |
| Profiles, credentials, login setups | rows with a revision | single transactions | optimistic revision | not modelled |
| Data rules and generated values; scenario drafts and digests | none | pure | unit-testable | not modelled |
| Request and payload policy, egress proxy, safety ledger | append-only ledger | classify, record | data, not control | not modelled |
| Browser, evidence, discovery, interaction, audit rules, reports | per page | read, derive, write files | external behaviour, or pure | not modelled |
| Command line, configuration, launcher | none | parse, exit codes | unit-testable | start order in `RunStart`, choice and end in `RunCrawl` |

How they interact. The UI server, the job manager and the store share one
process and one SQLite database; the server is one JavaScript thread, so its
handlers interleave at their awaits and its transactions are atomic. The manager
forks one worker per job and talks to it over an IPC channel, FIFO in each
direction; the worker and the page in its browser run on their own. The worker,
or the command line in its place, shares the output directory with other starts
and nothing but files between them. The clock is the machine's and may be set
back.

What is hard to test, and the property that watches it, is listed at its source
line under `hazards` in `PROJECT.json`; in short:

* a handler that commits several transactions, and a death between them;
* the answer to a recheck, a stop, a revocation, a timeout and an exit that
  cross on the two channels;
* a worker that outlives the server that could hear it;
* a page that posts on its own while the button is about to be pressed;
* three processes that take over one stale lock file;
* a lock that looks stale although its owner lives;
* a chain of stages whose decision waits for a file while users, timers and the
  worker go on;
* a login whose server died with it under way, and the next server that starts one;
* a login that the page sends by itself while the worker decides what to say of it;
* a Run killed between the page file, the two renames of the state, and the end;
* an exception between the end of a page and its save;
* clocks that are set back between the check and the record.

## Modules

```
WriteSlot    <--refines--  WriteGrants  <--extends, implements--  WriteJob
                           |  MCWriteGrants (2 cfg)               |  MCWriteJob (3 cfg)
                           |  WriteGrants_proofs  <--extends--    |  WriteJob_proofs
                                                                  |  WriteJobWire_proofs
                                                                  |  WriteJobStop_proofs
LockFiles    <--extends--  RunStart       MCRunStart (2 cfg)      RunStart_proofs
RunProgress  <--refines--  RunCrawl       MCRunCrawl (2 cfg)      RunCrawl_proofs
                           StageChain     MCStageChain (2 cfg)    StageChain_proofs
                           JobServers     MCJobServers (1 cfg)    JobServers_proofs
```

**`WriteSlot`** is the promise of the approval store with nothing of its tables
in it: a grant is unused, open, writing, settled or returned; at most one is
open or writing; what is settled or returned stays so.

**`WriteGrants`** is the store (`scenario-store.ts`, `execution-grant.ts`,
`approval-validity.ts`). One action per exported function, that is per
transaction. The variables are the tables, one function each: `scenario`,
`approval` (the last receipt; the checks read no other), `grant`, `reservation`,
`result`. The clock of a call is an input chosen at each call from `Times`, not a
variable that grows: the store is given the clock of its caller, and it may be
set back. A call also brings the facts it has seen (digests, discovery, rules);
those that speak for an approval are `UsableFacts`. A rejected call writes
nothing and is no step. A job and its grant have one identity (the column
`execution_grants.job_id` is unique).

**`WriteJob`** puts the server, the manager, the worker, the guard and the wire on
top. An action is a handler from one await to the next. A handler that commits
several transactions commits the first in its action and leaves the others in
`todo`; nothing but the next of them or the death of the server comes before
they are done, as in the code. Variables to code:

| Variable | Code |
|---|---|
| `up`, `deaths` | the server process (`Crash`, `Restart`) |
| `todo` | transactions the handler has still to commit |
| `row` | `audit_jobs.state` |
| `start` | where a start call waits: before the row, or in `#prepareWrite` |
| `job` | `TrackedJob`: `startSent`, `stopRequested`, the recheck, the submission reported, the ending, the channel |
| `toParent`, `toWorker` | IPC messages sent and not received |
| `worker` | session stage, stop, signal, the guard's admissions and facts |
| `written` | submissions whose bytes left the sender: the truth the store is compared with |
| `document` | the write result in `action-run.json` |

Every store step of `WriteJob` is an action of `WriteGrants` used as it is, so
`JobSpec` implements `Spec` of `WriteGrants` (a theorem, see below).

**`LockFiles`** is the lock file calls one file-system operation at a time:
`Sweep`, `Create` (the `link` of a finished file), `Read` and judge, the grace,
and the takeover: token, move, compare, restore or create, drop. `file` and
`token` are the files by name, `call` the call a process has under way with what
it has read. A lock is its owner and its heartbeat; that is what
`isDeepStrictEqual` and `isOwnRunLock` tell apart. `judgeRunLock` is translated
from process-lock.ts: dead owner, boot time off (the clock was set: `reset`), heartbeat
old (the owner is held up: `asleep`).

**`RunStart`** makes those calls in the order of `executeAuditRun`,
`startWorkerRun` and `RunCheckpointSession`: hold the start lock, list the Runs,
read and judge their locks, wait for those that look stale, choose a new Run or
a resumption, confirm the start lock, lock the Run, check that the saved state is
the one chosen, clean up, confirm the run lock, release the start lock; then
heartbeats and saves side by side, each a read and a later write; then finish, or
abandon. `run` is the place of a start in that order and its session; `saved`
the checkpoint of each Run. Every initial state has the leavings of a dead Run:
with or without its locks, with or without the tokens of a takeover it was in.

**`StageChain`** is one full audit: the manager and one worker that works through
several stages, a job row per stage. `row` and `recorded` are the database, `job` the
tracked stage, `advance` where `#advanceChain` waits (for the READ definitions or for
the look at what happened meanwhile), `chain` what the user sees, `worker` the session,
`toParent` and `toWorker` the two channels. Users stop the chain or revise the profile,
the server shuts down or dies, the lock is lost, the worker breaks off, dies or is
silent. The two sides of a hand-over race: the worker waits for `NEXT_STAGE` only so
long (`AwaitTimesOut`), the manager kills only after a timer.

**`JobServers`** is several servers on one control database: the instance lock, the job
rows, and the automated login each job begins with. `server[s]` is a process with
what its manager remembers and the transactions its handler has still to commit
(`todo`, as in `WriteJob`); `inst`, `row`, `attempt`, `hold` are tables; `worker[j].posts`
counts the logins the site really got, as against `seen` and `pressed`, from which the
worker says what it did (`Submission`, automated-login.ts:408-421). The login is the stage
`runAutomatedLoginStage`: the page may send at any time between its opening and the closing
of its browser, the worker presses once, and every exit reports what that exit of the
code reports: a constant NO, `submission()`, or a result that needs an answer. The wall clock is a variable here, since
staleness, intervals and Retry-After are about it; it ticks when every server in
good order is in time, and may be set.

**`RunProgress`** is the promise of a saved Run to its reader: pages are added one by
one and never twice, and a Run that is over stays so.

**`RunCrawl`** is a Run over all its executions: `disk` the files under `checkpoint/`
(state, previous state, page files), `run` the memory of the process with its place
in the order of `AuditRun`, `down` what of the site never answers. An execution
chooses what to resume, checks it under the lock, passes the preflight and the site
metadata, loops over the frontier, saves after each page (page file, state to previous
state, new state) and concludes. An exception ends the crawl before its page is over (`CrawlThrows`)
or after it (`LinksThrow`); the second leaves a memory that is not consistent, and the Run is
concluded with the content written last. It can be killed before every step. That one process
at a time does this is what `RunStart` shows (`OneWriterPerRun`).

## Runs, bounds and what they show

`CHECK_DEADLOCK FALSE` is in every configuration but those of `RunCrawl`:
grants, revisions, deaths and starts are used up, and a system that has nothing
left to do may stop. The longest runs take two to three minutes with two workers.

| Run (cfg) | Instance | Shows |
|---|---|---|
| `grants_approval` (`WriteGrantsApproval`) | 1 scenario, 2 grants, 3 facts of which 2 usable, clock 0..2, 2 revisions, the second with a lower limit, 2 receipts | rows stay within the table CHECKs, the approval state agrees with the receipts and a revoked scenario holds no open grant, a grant is consumed only under the approval that stands, the cumulative limit holds |
| `grants_slot` (`WriteGrantsSlot`) | 2 scenarios, 2 grants, clock 0..2, interval 1, window 2, 1 write in a window | one write at a time across scenarios, writes are spaced and fit the window at their settlement times, `WriteSlot` implemented |
| `job_wire` (`WriteJobWire`) | 2 grants (symmetric), still clock, nothing stopped or withdrawn, 1 death | at most one submission each, only if allowed, also for a second job after the first |
| `job_ends` (`WriteJobEnds`) | 1 grant, still clock, stops, 2 revisions, a revocation, 1 death, fair | ended and interrupted jobs are decided, as the wire has it, every write ends, a withdrawal in time prevents it |
| `job_clock_set_back` (`WriteJobClock`) | 1 grant, no death, a clock that may be set back | a finding |
| `locks_two` (`RunStartTwo`) | 2 starts, 2 heartbeats, 1 save before the last, 1 session held up, 1 death, clock set or not | one Run per output directory, one writer per Run, no lock of another is replaced or removed |
| `locks_three` (`RunStartThree`) | 3 starts, the last save only | no Run has two writers, a resumed Run goes on from what was chosen; `RunTypeOK` |
| `chain_full` (`StageChain`) | 3 stages of the three kinds, stops, a revision, a loss of the lock, deaths of both processes, fair | the slot is held while the worker works, no stage after a stop, messages fit the stage, results are recorded once and before they are planned from, the chain ends and tells the truth |
| `chain_launch_fails` (`StageChainLaunch`) | 2 stages | a finding |
| `servers` (`JobServers`) | 2 servers (symmetric), 2 jobs, one that logs in by a form and one by a script of the page, a browser that sends a login once or twice, clock 0..1, 1 of: crash, hold-up, clock set | two workers run at once only after a loss that is being answered, the login tables cover what the workers know and what the site got, logins are spaced, and none starts on an open account |
| `crawl` (`RunCrawl`) | 3 URLs in any graph of links, depth 1, 2 pages, 1 recheck, 3 faults, an exception before or after the end of a page, any part of the site down for good, fair | a state always finds its pages, order and limit hold over all executions, the conclusion fits what is left, no page after a violation, `RunProgress` implemented, the Run ends |
| `crawl_damaged_page` (`RunCrawlDamage`) | the same with 2 faults and page files that become unreadable | a finding |

Why these bounds.

* *Two grants* give a job and a later one, and, with a window of one write, the
  write that the interval and the window refuse.
* *Two revisions and two receipts* give the three ways an approval goes stale
  (revised, replaced, revoked) and a grant issued under an older receipt.
* *Clock 0..2* is before, at and after each limit of 1; since every call
  chooses its reading, it includes a clock that stands and one set back. The
  lifetimes are 1 and 2, so that grants and approvals expire.
* *One death* lets the server die at every place and a new one meet the worker
  left behind. A second death adds a restart from states the first one reaches.
* *Two starts* race for every file; *three* are what a takeover needs to fail
  (one judged stale by a second, replaced by a third): the restore that finds
  the name taken happens only there. Three with deaths or saves also pass but take
  longer than a regular run should.
* *Three stages* give a first, a middle and a last one and the three kinds of
  result; the middle one is where both sides of a hand-over are under way at once.
* *Two servers, two jobs*: the one that loses the lock and the one that takes it, the
  job of each. One unit of time is what makes a lock and a heartbeat stale, so a
  server in good order renews at every tick; interval 1, window 2 and Retry-After
  2 are reached, not reached and never reached within the clock. One fault is a hold-up that
  ends in a takeover, the death of a server with a login under way, or a clock set back between two logins.
  With two faults `AttemptsAreSpaced` and `TwoWorkersOnlyAfterALoss` hold too (2.8 million
  states when a login is sent once), which takes longer than a regular run should; both, and
  `ClosedAttemptsTellTruth`, are proved for any number of them.
* *Three URLs, two pages*: one page too many for the limit, a depth that is cut, and
  every order of discovery. Three faults are enough for a stop, a second stop at the
  same page and a death in between; `MaxRechecks` is 1 for the 4 of the code.
* `StoppableJobs`, `ChangedScenarios`: what a user stops (once each), revokes or
  revises. `MaxBeats`, `MaxSaves`, `MaxSleeps`: heartbeats, saves, and sessions
  held up.

Every property of a passing run has a mutant in `PROJECT.json`: a plausible bug in
one definition (a guard dropped, a comparison forgotten, two steps swapped)
under which the run finds the property violated.

## Fairness

Three runs have a liveness property: `job_ends` (`WritesEnd`;
`NothingWrittenOnceWithdrawn` is safety, written with `[]`), `chain_full` (`ChainEnds`)
and `crawl` (`RunEnds`). The assumptions of `job_ends`, in `JobFairness`:

* `WF(Commits)`: a handler between two transactions goes on; nothing awaits there.
* `SF` per grant of the start call's steps, of the receipt of messages, of the
  exit steps, and of "the worker goes on or a timer finds it silent". Strong,
  because another handler may run in between and disable the step for a moment,
  while the event loop keeps the timer, message or continuation and serves it
  later. No fairness on user actions, on the answer of a recheck (its lookup may
  hang: `RECHECK` times out in the worker and by the deadline of the manager),
  or on the page.
* `WF` that a signalled worker ends. On Windows the kill is immediate. On POSIX
  the signal is handled by JavaScript in the worker, so a worker whose thread
  hangs survives; there the assumption is on the worker, not on the code (listed
  as a hazard).

`WritesEnd` speaks of writes the living manager prepares or tracks; after a death
the slot is freed by the next start or restart that finds the old worker silent,
for which the code promises no time.

`FairChainSpec` is built on the same grounds: a handler gets on, messages are received,
timers fire, a signalled worker ends; users, shutdown and the profile owe nothing.
`ChainEnds` asks only for chains whose worker was launched: the others are a finding.

`FairSpec` of `RunCrawl` is weak fairness of the process (`Work`) and of starting again
(`Choose`). The second is an assumption on the user, and what `RunEnds` says is about
the code all the same: if nobody gives up, neither does the site keep the Run from
being over, however much of it never answers. Faults are bounded, so in the
end an execution is not killed.

## What is proved

Every theorem is about every value of the constants that satisfies the named
assumptions: any set of scenarios, grants, servers, starts or pages (exactly two starts where
a theorem says so), any length of a chain, any limits, any number of deaths. A safety property is proved from an inductive
invariant, which is its module's real statement of why the code is right; the tables
below say what it adds to the property. Each was first checked by TLC on the instance of
a run, and then proved action by action: one lemma per action or per kind of step.

**The store** (`WriteGrants_proofs`, about `Spec`)

| Theorem | States | Argument |
|---|---|---|
| `TypeCorrect` | `TypeOK` | inductive as it stands |
| `OneWriteAtATimeHolds` | `OneWriteAtATime` | inductive with `TypeOK`: the issue requires that nothing is in flight and invalidates every open grant it does not itself refuse over; every other transaction leaves a grant as it is or takes it out of the busy ones |
| `SchemaChecksAlwaysHold` | `SchemaChecksHold` | `RowsOK`: the CHECKs and what they leave out (rows come together, a held reservation belongs to a grant that was not invalidated, only a consumed grant has written). Every transaction moves every row in one of six ways (`RowMoves`), and none of them breaks `RowsOK` |
| `RevocationIsAlwaysComplete` | `RevocationIsComplete` | `ApprovalsOK`: the state column is `APPROVED` or `REVOKED` exactly if the last receipt is of the current revision and stands or is revoked; a revoked scenario has no open grant |
| `ConsumedOnlyAsApprovedHolds` | `ConsumedOnlyAsApproved` | from `TypeOK` and the checks of the consumption alone |
| `ImplementsWriteSlotHolds` | `Spec => ImplementsWriteSlot` | with `RowsOK` and `OneWriteAtATime`, initial states map to initial states and every transaction to a step of `WriteSlot` or a stutter |
| `WritesAlwaysKeepTheRate` | `WritesKeepTheRate` | `RateInv`: a reservation that is *held* was issued in due distance of every counted write of its scenario, with room in its window. A settlement does not look at the rate at all; it needs what the issue has checked, and that nobody wrote in between (`OneWriteAtATime`) |
| `CountsStayWithinLimitHolds` | `CountsStayWithinLimit` | `RowsOK` and cardinalities: only an issue raises a count, by one, after it has counted |

**The write job** (`WriteJob_proofs`, `WriteJobWire_proofs`, `WriteJobStop_proofs`, about `JobSpec`)

| Theorem | States | Argument |
|---|---|---|
| `JobTypeCorrect` | `JobTypeOK` | `JobTypes`: with `EndedWhenClosed` (a closed channel knows how its row ends), without which the row written at the exit would have no type |
| `JobImplementsStore` | `JobSpec => Spec` | initial states map to initial states; every action of `JobNext` is an action of `Next` or leaves the tables alone |
| `JobOneWriteAtATime`, `JobKeepsStorePromises` | what was proved of the store, of the store in use | from `JobImplementsStore` |
| `WrittenAtMostOnceHolds` | `WrittenAtMostOnce` | `OnePostEach`: bytes written, a post admitted and admissions left sum to at most one. A worker step moves within that sum (`Subsides`); only a fork restores it, and a fork is the only one of its grant because the row, made once, is there |
| `OneOwnJobHolds` | `OneOwnJob` | `OwnedJobs`: a tracked job and one in preparation have an active row, and a row is created only when no row is active, in the same handler that found it so |
| `WrittenOnlyIfAllowedHolds` | `WrittenOnlyIfAllowed` | `WireEach`: the guard's account of the posts is true of the wire (`PostsOK`); a report of "not sent", under way or received, is true for good (`ReportsOK`); a worker that was not started has done nothing, and one that may write was answered with yes (`OrdersOK`); the channel closes behind the worker (`StagesOK`) |
| `SettlementMatchesWireHolds` | `SettlementMatchesWire` | `SettledEach` on top of `WireEach`: a released reservation has no worker left and nothing written, a committed one a write and no worker left. The places that settle (report, refusal, exit, orphans, failed launch) are one lemma each |
| `DecidedBeforeRowEndsHolds` | `JobSpec /\ ClockNotSetBack => []DecidedBeforeRowEnds` | `DecidedEach`: only a grant that was issued has a row, an interrupted row with a write in flight is swept by the handler that interrupted it or the server is down, and a handler about to end a row has decided its write. `ClockNotSetBack` asks of one step only, the end of a job, that its clock is not behind the record of the attempt; with the run `job_clock_set_back` it names the one way to an undecided write |
| `NothingWrittenOnceWithdrawnHolds` | `NothingWrittenOnceWithdrawn` | `StopInv` with the predicate `Doomed`: what dooms a write is in the manager (a remembered stop, a grant that no approval will cover again: `NeverAgain`), or in the channel ahead of every permission, or in the worker. No step takes a write out of `Doomed` and no worker step writes in it. `AgesOK` (a grant is of a revision and a receipt its scenario has had) is why an approval, once lost, does not come back |

**The servers** (`JobServers_proofs`, about `ServersSpec`; `ServersInv`)

| Theorem | States | Argument |
|---|---|---|
| `ServersInvHolds` | `ServersInv` | the invariant below, over all actions |
| `ServersTypeHolds` | `ServersTypeOK` | the exact types, with the errands a handler can have |
| `TwoWorkersOnlyAfterALossHolds` | `TwoWorkersOnlyAfterALoss` | `LivesOK`: which errand may exist in which state of a job, one active row, one handler per job, and the job of an interrupted row belongs to a server that does not hold the lock |
| `ClosedAttemptsTellTruthHolds` | `ClosedAttemptsTellTruth` | `TruthOK`: a report or a closed attempt covers what the worker pressed and what the site got, also what it is still to get (`Covers`): whoever says NO, or counts one row, says it of a login that is over. `WorkerSteps` sorts the steps of a worker: the login goes on, ends with a report, or rests |
| `AttemptsAreSpacedHolds` | `AttemptsAreSpaced` | `SpacedOK`: an attempt left open behind a later one belongs to an ended job and will be closed without an answer, so no Retry-After can come too late |
| `NoOrphanAtAStartHolds` | the first half of `LoginsStartOnTheTruth` | the same: a server about to create a job has closed the attempts of the dead |

**The chain** (`StageChain_proofs`, about `ChainSpec`; `ChainInv`)

| Theorem | States | Argument |
|---|---|---|
| `ChainInvHolds`, `ChainTypeHolds` | `ChainInv`, `ChainTypeOK` | the invariant over all actions |
| `MessagesMatchStageHolds` | `MessagesMatchStage` | `LinkOK`: every message under way fits the phase its predecessors will leave the server in, and the last one leaves it where the worker is. `OrdersOK`: at most one order is under way, to a worker that waits for this one or is about to end |
| `SlotCoversWorkHolds` | `SlotCoversWork` | `SlotOK`: the slot is that of the stage the worker works on or is on its way to |
| `ChainTellsTruthHolds` | `ChainTellsTruth` | `TruthOK`, with `LifeOK` for what waits: rows, results and shown stages belong together at every transaction |
| `NoStageAfterStopHolds` | `NoStageAfterStop` | from `ChainInv`: a row is made only by the start of a chain and by `CREATE_NEXT`, and neither is open once a stop was accepted |

**The crawl** (`RunCrawl_proofs`, about `Spec`; `CrawlInv`)

| Theorem | States | Argument |
|---|---|---|
| `CrawlInvHolds`, `CrawlTypeHolds` | `CrawlInv`, `CrawlTypeOK` | the invariant over all actions; it is `SteadyInv` while the memory is a good crawl, or `BrokenOff` once an exception took a page between its end and its save: then nothing is taken into the memory and what was saved last is concluded. `EntriesHaveIds` (no more entries than URLs) is a pigeonhole argument |
| `SavedPagesMatchHolds` | `SavedPagesMatch` | `FilesOK`: state and previous state follow one another and both find their pages until the Run is over, between the two renames too |
| `BreadthFirstHolds`, `LimitCountsKeptPagesHolds` | `BreadthFirst`, `LimitCountsKeptPages` | `Good`: true of every crawl in memory or saved; `MemoryOK` and `PhaseOK` say which page the loop is at (the first that is left) and when the count of begun pages is that of the kept ones |
| `StoppedIfPagesAreLeftHolds` | `StoppedIfPagesAreLeft`, of every state that is placed | `PhaseOK` knows at the end that nothing is queued and why pages were put off, so the conclusion fits what is left; `BrokenOff` says the same of the memory of a Run that is concluded with what was saved last |
| `NoPageAfterViolationHolds` | `NoPageAfterViolation` | `MemoryOK`: a process knows the violation of the state it began from and of the newest one |
| `NotRefusedAtTheCheck` | `RefusedOnlyIfChanged`, without damaged files | at `CHECK` the state read again is the one chosen (`PhaseOK`). With a damaged page file this is finding 3 |
| `ImplementsRunProgressHolds` | `Spec => ImplementsRunProgress` | the newest state (`Newest`) is what a reader finds; each write of a state maps to a step of `RunProgress` or a stutter |

**The locks** (`RunStart_proofs`, about `Spec`)

| Theorem | States | Argument |
|---|---|---|
| `RunTypeHolds` | `RunTypeOK` | `StartInv`: takeovers, heartbeats and saves begin below their limits, and a takeover drops its token with an outcome, without which `DropToken` would leave the call undefined |
| `OneWriterHolds` | two starts: `OneWriterPerRun` | `RunHeld`: who is about to write, or resumes, has the `run.lock` under its name. What it rests on: a session that may come to write has its lock, or the other has taken it and is past moving it (`OpenHeld`); a takeover takes it only from a session that is held up (`TakesFromSleeper`), and one that found the lock gone has no session beside it (`ChangedAlone`) |
| `OneRunHolds` | two starts: `OneRunPerOutputDirectory` | `StartHeld`: from its acquisition to its release the start lock is in its place, or the other start has moved it and is about to put it back, or died with it. So only one is between `LIST` and `RELEASE`, and what it saw there stays true: it has no session beside it (`NoOtherRun`), or has seen or has yet to read its lock (`FindsOther`) |
| `ResumesHolds` | two starts: `ResumesWhatWasSaved` | the check under the `run.lock`, and then `RunHeld`: the other cannot write any more; `SavedOK`: nobody but its own start saves into a new Run |
| `TouchesOwnHolds` | two starts: `TouchesOnlyOwnLock` | `RunHeld` for heartbeat, finish and refusal, `StartHeld` for the release, both of which read the lock some steps before they replace or remove it |

The last four share one invariant, `RunInv` (TLC found it true of the instance of `locks_two`,
`ResumesWhatWasSaved` with it, which the runs check for three starts only), kept by every action, and the hypothesis
`TwoStarts`: there are exactly two starts. Everything else is arbitrary: heartbeats, saves,
sleeps, deaths, what the dead Run left behind and when the clock was set. The hypothesis is needed: with
three starts `OneRunPerOutputDirectory` is false (see the observations below), because a
third start can create its lock while the second has moved the lock of the first. With
two, the start that moved a lock it had not judged ends its call without one. No part of
`RunInv` speaks of the contents of the token files: between two starts the comparison after the move and
the restoration are enough, whatever becomes of the tokens.

Assumptions: those named in the modules. `TimeAssumption`, `FactsAssumption`, `TtlAssumption`,
`RateAssumption`, `LimitAssumption`, `BoundAssumption`, `DeathsAssumption`, `StopAssumption`
and `RunAssumption` give constants their kinds. `GrantsAssumption` and `CrawlAssumption`
ask for finitely many grants and URLs (for cardinalities), the latter also for a limit of at least one
page. `LockAssumption` and `ServersAssumption` keep names apart; the second also says of the
code's periods that a lock is renewed before it is stale and a worker is silent no later than
a lock, and that the interval between logins is shorter than the window they are counted in.
`ChainAssumption` says which sequences of stages there are. None bounds a size.

Model-checked only:

* *Liveness and fairness*: `WritesEnd`, `ChainEnds`, `RunEnds`. Out of the prover's reach.
* `DecidedBeforeRowEnds` without its condition on the clock: it is then false (finding 1).
* The second half of `LoginsStartOnTheTruth` sums the posts of all jobs. What a sum over a set
  is for every set needs induction, which is out of the prover's reach.
* `OneWriterPerRun` and `ResumesWhatWasSaved` of `RunStart` for three starts, without saves,
  sleeps and deaths (`locks_three`). For two starts they are proved, as are
  `OneRunPerOutputDirectory` and `TouchesOnlyOwnLock`, on the timing assumptions in
  `GraceOver`, `ClockAllows`, `Sleep` and `Wake` (see Abstractions). For four or more nothing is known.

## Findings

Three runs expect a violation; `PROJECT.json` quotes the sentence each one
contradicts.

1. **A clock set back leaves a write undecided** (`job_clock_set_back`). `#settleWrite`
   passes the clock as it is; behind `recorded_at` both attempts are refused, and the
   job row ends with the reservation still `RESERVED`. The closing functions take
   the later of clock and record and would not fail.
2. **A chain whose worker cannot be launched stays RUNNING** (`chain_launch_fails`).
   `#start` registers the chain before it forks; `#failLaunch` ends the row and not the
   chain.
3. **One unreadable page file locks a Run out** (`crawl_damaged_page`). The choice falls back
   to the previous state, as it is written to do, and the check under the lock
   compares it with the newer state, whose pages it does not read: every start is
   refused as if another process had gone on with the Run.

Four observations are not kept as runs. **A login recorded as not sent may have been sent**:
of the submission `NO` control/auth/automated-login-results.ts:107 says "送る前に終わった（ロックの心配がない）" (it ended before it
was sent; there is no risk of a lock). `NotSentIsTrue` states it, and fails on one server with one job and
no fault (add it to `JobServers.cfg`). The exits of the login stage before the press give a constant NO after awaits
in which the page can have sent the login by itself, which the guard lets through
(automated-login.ts:502, 516, 541, 552, 555: as soon as the form is filled, say, so that the second inspection
finds another page), and a page can also send after the outcome is decided and before its browser
is closed (678). The profile is then not held, and the attempt counts once. `ClosedAttemptsTellTruth` says what
a NO does mean: a worker that says it of a form has not pressed it, and a server that says
it by itself never told its worker to start. With three starts `OneRunPerOutputDirectory`
does not hold (add it to `RunStartThree.cfg`): a takeover moves a lock before it
compares it; if a fresh start lock is away at that moment, after its owner's
confirmation, a third start creates its own. The two Runs have directories of their own,
and no Run has two writers. The sweep before a lock is created judges a takeover
token and then removes what has the name, so the slower of two sweeps can remove a
live token; the comparison of the moved lock catches it for two starts. And the rule
that one audit runs at a time (doc/spec/local-ui.md) has an exception after the death
of a server, which `TwoWorkersOnlyAfterALoss` delimits.

## Abstractions and what is not modelled

*Store.* The content checks of an issue are one verdict, `UsableFacts`. A
reservation counts one write, as its CHECK says. `SettleWriteReservation` is an
exported function of the store that no module of the server calls; it is in
`Next`, not used in `JobNext`. Times are small integers, TTLs and windows small
differences.

*Write jobs.* Progress, heartbeat and login messages are left out, as their
receipt changes nothing a property speaks of. A job of another kind appears only as a start
that reconciles or is refused. The first stop of a job is an action; a second or
forced one is the death of its worker. A failed fork is `FailLaunch`. The checks of
the page before the press are one choice: go on or close. A death of a worker
loses none or all of its unsent messages; loss of the tail is the early end of the
drain. An interrupted worker that flushes its last messages is merged with one that
has gone, a finished or failed one stays `EXITING` until its process ends. `UnownedJobs`
takes for granted that a preparation is shorter than
`unownedWorkerStaleAfterMs`.

*Chains.* The result of a stage is valid or not and names reasons to stop from
`FewFindings`; login, progress and heartbeats are left out. `other` is any other job in
the slot. The plan of the stages is a constant.

*Servers.* One profile. The guard admits one login of a worker, sent by the press or by the page,
which reaches the site once, or twice when the browser sends it again on a connection that
broke; one that is sent and gets lost is left out, and so is a login that would be admitted and is
never seen: the page handlers that watch it are older than it is. An answer (`Answered`) tells that
one was enough. A decision of the login stage, the closing of its browser and the report are one step
with what the page may send in between (`AfterClosing`), since nobody sees the worker in the meantime;
the press is a step of its own, and its end is part of the decision that follows. The results of a
failed login are told apart as far as the tables do: a Retry-After or not. Of the requests of a script
that were blocked with the credentials in them only their existence counts, in `Submission`. Whether the
worker ends its process after the login or goes on to audit is `WorkerGoes` at any time. Messages other than
READY, HEARTBEAT and AUTH_STATE are left out, and the end of a job is decided in one
step (`EndAndKill`). A handler takes no time on the clock. `#recordJobRow` ends the row and
closes the attempt in two transactions; between them a server that lost the lock can
leave an attempt open while the next starts one, which is why `LoginsStartOnTheTruth`
speaks of closed attempts and interrupted jobs.

*Crawl.* A page is known by its place in the order of discovery, which is what the
allocator saved with the frontier makes its ID. `AUDITED` stands for `AUDITED` and
`FAILED`; nothing here tells them apart. Which links a page has is chosen anew at every
audit, in any order. A failed audit that is tried again at once inside the page is
one audit. The signal, the runtime and the request limit are read at the head
of the loop only and are therefore events there. A violation found and not yet saved
dies with the process: the page is audited again, and the violation is found again or
is not. An exception after the end of a page
leaves the memory of the process inconsistent, and the code concludes with the content it wrote
last (run-coordinator.ts:2746, tests/unit/run-coordinator.test.ts:3870): FINISHED, with pages
QUEUED in the file although nothing is left in the memory and the outputs; `StoppedIfPagesAreLeft`
therefore speaks of both. An exception of the rest of the loop has the effect of one of the two
actions. A violation may be found by a failed preflight, in a resumed Run too, and ends it. The loss of the lock during an execution is left to `RunStart`; a start after a
finished Run is another Run. The temporary file and its sync are part of the rename.
The model does not follow the report files, only whether they could be written.

*Locks.* Times are what they decide: a lock is fresh, or its owner is held up
(`asleep`) or the clock was set (`reset`). The code's constants are 60 s between heartbeats,
five minutes to go stale and 75 s of grace; the model assumes that
every other step is short against the grace. That is said in four places:
`GraceOver` (a grace ends only after its owner has acted, unless it is dead,
waits, stands or is held up), `ClockAllows` (the clock is set while every start stands or
waits), `Sleep` (not with a confirmed write pending) and `Wake` (not in the
moments of a takeover of its lock). The last two exclude a window that files
cannot close: a session stopped between confirming its lock and writing. It is
listed as a hazard. `OneRunPerOutputDirectory` leaves out sessions that were held
up: one that sleeps through five minutes and the grace passes for dead, and that
is what the code intends. A reused process id is told apart by the boot time.
A failing disk (the paths where a lock is `UNAVAILABLE` and the Run goes on
without it), side files other than the token, directories made for a lock and
removed with it, Runs that are only to be finalised, and the removal of a
finished checkpoint are left out.

*Not modelled* and why: data without control (policies, rules, digests, reports,
messages), external behaviour (Chromium, Playwright, the operating system's
credential store), single-transaction rows under a revision, and migrations,
which run before any component. Pages of the UI and the launcher hold no state of
the jobs.

## Plan

Modelled so far, in the order of importance: the approval store, the write job, the
locks of a Run, the stage chain, the servers with the instance lock and the logins,
and the crawl with its checkpoint. What is left of the first plan is the pacer, the
request budget and the slowdown (`crawl/`, and the slowdown in `orchestration/run-coordinator.ts`): one thread
of one process, no partner and no file, well within reach of unit tests.

Theorems to come. `OneWriterPerRun` for any number of starts that never sleep or die, which
is what `locks_three` suggests: the invariant would have to follow a lock through several
hands, moved by one start and put back or replaced by another.
