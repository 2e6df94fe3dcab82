# A verification project for Catch3

Catch3 is a C++ test framework with a built-in runner. A test binary that is
started without a worker flag becomes the *runner*: it plans the run, starts
copies of itself as *worker processes*, hands them tests one at a time over a
pipe, and decides from their messages and their deaths what the verdict of each
test is. The engine that runs a single test case (sections, assertions,
generators) is that of Catch2; the runner, the property tests, the mocks and the
snapshots are new.

This directory holds TLA+ modules of the parts whose behaviour is hard to test,
TLC configurations that check them on small instances, and TLAPS proofs that hold
for all instances: the scheduler with its processes, the history that runs share
and the lock that protects it, what the history remembers of a test, the planner,
the trackers of sections and generators, the shrinker of property tests, and the
mocks. Paths below are relative to the repository.

## 1. Inventory

### The runner (`src/Progmasoft/Runner`)

| Component | State it keeps | Operations | Talks to | What is hard |
|---|---|---|---|---|
| **Scheduler** (`Scheduler.cpp`, `SchedulerModel.hpp`) | a queue of jobs; per test: attempts, retries and repeats left, pending jobs, the bisection, the verdict; per worker: flags, job, step, the test under way, history, deadline; held resources, the serial flag, the retry budget, failing starts | `Run`, `Enqueue`, `SettleBlocked`, `Dispatch`, `StartPending`, `Handle`, `CheckDeadlines`, `Reap`, `WorkerEnded`, `Complete`, `Decide`, `ProbeEnded`, `Finish` | workers through pipes; the event queue filled by reader threads; the clock | interleaving of the loop with messages and deaths; time limits that race answers; retries, probes and jobs that start over; locks; stopping early; ending at all |
| **Worker loop, protocol** (`Execution.cpp`, `Protocol.cpp`) | the commands read, the test under way | greet, read a command, run the test, report its end; report a fatal signal and die | the runner | it may die at any point, and its messages are still in the pipe |
| **Child processes** (`Process.cpp`) | handles, pipes, reader threads, the process group | spawn, write, kill the group, wait, read lines | the operating system | closing of the two streams, late output, kill against exit |
| **Results** (`Results.cpp`, `Catch3/Results.hpp`) | outcomes | what is a failure, what fails a run | scheduler, reports | quarantine, flakiness |
| **Planner** (`Planner.cpp`) | nothing | selection, closure of dependencies, order, shards, limits, incremental runs | history, Git, catalog | shards with dependencies; cycles |
| **History, quarantine** (`History.cpp`) | a file of runs and of records per test | load, `Apply`, `Commit` | the file lock, other runs | several runs at once; a policy over many runs |
| **Files** (`Files.cpp`) | a lock file | exclusive creation, stale locks, atomic replacement | other runs | crashes with the lock held; stale locks |
| **Runner main flow** (`Runner.cpp`, `Console.cpp`) | the run | options, plan, run, commit, reports, exit code | all of the above | order of the effects |
| **Analysis, catalog, options, JSON, Git, hashes, importers** | nothing over time | pure functions, parsers, wrappers | | text |

### The engine (`src/Progmasoft/Catch3`)

| Component | State | What is hard |
|---|---|---|
| **Section tracker and run context** | a tree of trackers, the current one, the cycle | a test case is entered again until each leaf was run; exceptions in between |
| **Fatal condition handler** | the previous signal handlers | the report is written inside the handler, then the signal is raised again |
| **Mocks** | expectations with call counts, sequences, one global lock | calls out of order, from several threads |
| **Property tests** (`PropertyEngine.cpp`, `ChoiceShrinker.cpp`, `StrategyContext.cpp`) | a sequence of choices, the best failing one, a budget | the shrinker must end and keep a failing sequence |
| **Snapshots** (`Snapshot.cpp`) | files | existence is read, then acted upon |
| **Generators, matchers, benchmarks, reporters, registry** | little | pure, numeric or forwarding |

`PROJECT.json` lists all of them under `components` with what is modelled, and
under `hazards` what is hard to test, each at its line with the properties
that cover it.

### What makes each part correct

* **Scheduler.** No test is lost and none runs twice, whatever workers do
  (`OneJobPerTest`, `NoTestForgotten`, `AttemptsAccounted`, `CleanEnd`,
  `RunEnds`). What the runner believes of a process is true when it acts on it
  (`BeliefIsTrue`); verdicts are final and true (`VerdictIsFinal`,
  `VerdictIsTrue`, `OrderBugIsNotFlaky`, `CulpritIsPolluter`). What must not run
  together does not, at most `--jobs` tests run, isolated tests are alone,
  dependencies pass first (`LocksMatchJobs`, `JobsExclusive`, `Exclusion`,
  `JobsLimit`, `IsolatedAlone`, `DependenciesRespected`). The run stops early for
  the right reason and then hands out nothing more (`StopsForCause`,
  `StopHandsOutNothing`).
* **Lock and history.** One run at a time is between taking and releasing the lock
  (`OneHolder`); a lock file outlives only a run that died (`LockHasOwner`); a run
  that was told "saved" is in the file after those that were there
  (`KeepsLedger`); a commit ends (`CommitEnds`).
* **What is remembered of a test.** A flaky test does not slip through, passes let
  it out (`FlakyIsQuarantined`, `PassesRelease`); `--replay` and `--incremental`
  act on the latest real result (`ReplayFitsLast`, `KeptOnlyIfPassed`).
* **Planner.** The plan has what is needed and nothing else, refuses exactly what
  can never run, keeps a test and its dependencies in one shard, shares the work
  well, and is what the scheduler assumes (`SelectsWhatIsNeeded`,
  `RefusesExactlyCycles`, `ShardsHoldDependencies`, `NearBest`, `PlanStands`).
* **Sections and generators.** Every path once (`EveryPathOnce`), also after a
  failure elsewhere (`FailureStaysLocal`) and under path filters
  (`FollowsFilter`); trackers never reach a state `close` calls illogical
  (`NoIllogicalClose`); the test case ends (`TestCaseEnds`).
* **Shrinker.** The result fails and replays (`ShrunkFails`), nothing simpler is
  one step away (`NothingHelps`), and it ends within its budget (`ShrinkEnds`).
* **Mocks.** The right expectation takes a call, whichever thread makes it
  (`CallsGoToFirst`), and the test gets exactly the failures it should
  (`EachFailureOnce`).

## 2. The modules

| Module | What it is | Code |
|---|---|---|
| `Worker` | a worker process as the runner sees it: `RunWorker`, the protocol listener, and the faults the environment may show | `Execution.cpp`, `Protocol.cpp`, `Process.cpp` |
| `Outcomes` | outcomes, and the verdict over the attempts of a test; no state | `Results.cpp`, `Scheduler.cpp` |
| `Scheduler` | the loop of `RunInWorkers` with all of its handlers; EXTENDS `Worker` and `Outcomes`: the composition of the runner with its processes | `Scheduler.cpp` |
| `SchedulerProperties` | what the scheduler promises | |
| `FileLock` | the lock file between runs, every call of the file system a step; no specification of its own, it is used by `HistoryStore` | `Files.cpp` |
| `HistoryStore` | runs that commit to one history; EXTENDS `FileLock` | `History.cpp`, `Files.cpp` |
| `RunLedger` | abstract: what the history promises runs that finish at the same time; implemented by `HistoryStore` | |
| `Quarantine` | what the history remembers of one test over many runs, and what a plan decides from it | `History.cpp`, `Planner.cpp` |
| `Planner` | `MakePlan`: closure, cycles, shards, order | `Planner.cpp` |
| `Sections` | the trackers and the loop that runs a test case until every path was taken | `TestCaseTracker.cpp`, `RunContext.cpp` |
| `Shrinker` | the five passes over the choices of a failing trial | `ChoiceShrinker.cpp`, `ChoiceSource.hpp` |
| `Mocks` | expectations, sequences, threads, verification | `Mock.cpp`, `Mock.hpp` |
| `MC...` | instances for TLC: plans, catalogs, programs, expectations, symmetry | |
| `SchedulerProofs`, `ProcessProofs` (EXTENDS it), `HistoryProofs`, `QuarantineProofs`, `PlannerProofs`, `ShrinkerProofs`, `MocksProofs`, `SectionsProofs` | theorems and lemmas | |

Operators named `<Definition>_<What>` are mutated forms of a definition (a
dropped guard, an off-by-one): `PROJECT.json` pairs each property with one that
must break it, so that no property is checked that the code cannot violate.

How the modules fit together, as the parts of the program do: `Planner` hands over
a plan that satisfies `PlanStands`, which is `PlanAssumption` of `Scheduler`;
`Scheduler` makes verdicts, the records of `Quarantine`; that a commit of
`Quarantine` is one undisturbed step is what `RunLedger` promises and
`HistoryStore` implements; `Sections` and `Mocks` are inside of what `Worker`
takes as a choice of endings.

### The scheduler

*State.* The members of `Scheduler` and the fields of `TestState`, `Worker`,
`Running`, `Job` and `Bisection` are variables under their own names, as
functions of tests or of worker *slots*. A slot stands for one process and is
reused once the process has been reaped; until then none of its messages can be
left. `job[w]` is `NoJob` and `running[w]` is `NotRunning` where the code has an
empty optional. `infrastructureFailed` stands for the non-empty message of that
kind. Of an attempt, its outcome and the tests before it are kept.

*The loop.* `pc` cuts `Run` and `RunInWorkers` into phases:

```
enqueue -> settle -> dispatch -> start -> wait -> handle -> reap -> settle ...
                                   |                         |
                                   +--------> done <---------+
```

`EnqueuePlanned` is one iteration of the loop of `Run`; `SettleBlocked` one
blocked job; `DrainQueue` the end of the queue when the run stops; `Assign`,
`Spawn`, `MakeRoom`, `SpawnFails`, `DispatchEnds` the ways one turn of the loop
in `Dispatch` can end; `StartPending` one worker; `SendHome` the quits and the
test `Done()`; `TakeEvents` the swap of the event queue under its lock; the
`Handle...` actions one event each, one action per kind of message and branch;
`CheckDeadlines`, `WorkerEnded` and `EndTurn` the rest. Processes take steps
between any two of these, so every race of the loop with messages and deaths is
there, although the runner is one thread.

*Processes.* `Greets`, `TakesRun`, `TakesQuit`, `EndsTest` are the loop of
`RunWorker`; `ReportsFatal` and `Raises` the handler of fatal signals, which
reports, and then dies by the signal; `Crashes`, `Hangs`, `DiesIdle`,
`FailsToStart` and `StreamsClose` what else befalls a process. How a test ends is
a choice from `EndsAlone`, or `EndsPolluted` when a polluter of the test ran
before it in the same process: that is how order bugs come in.

*Abstractions.* Seeds, durations, notes, captured output, temporary
directories and console events are left out. The time limit of a worker is the
flag `overdue`, raised by `LimitPasses` for a process that hangs, a test that
may be slow, or a start that may. Which of several idle workers takes a job, and
the order in which ended workers are reaped, are left open. The two `closed`
events of a worker are one, the later. The wake-up of the loop every 500 ms is
kept out where it would change nothing (`FindsWork`).

### The history and its lock

`pc[r]` is where a run is in `History::Commit` and the `FileLock` it makes first.
`TryCreate`, `LookAtAge`, `BreakLock` and `TryAgain` are the loop of the
constructor, `Release` the destructor; `LoadHistory`, `SetsAside`,
`WritesTemporary` and `Replaces` what is done under the lock, each with its way to
fail (`disk`, `aside`). Between any two of them another run may take its step, and
any run may die (`Dies`). A lock is removed by its name, so `RemoveLock` takes
whatever lock is there and notes in `stolen` whether a live run has lost it.
Time is not counted: `LockAges` makes a lock older than 30 seconds, at once when
its run is dead, and only with the fault `slow` while it lives; `WaitEnds` ends
the ten seconds a run waits. `Damage` is a file that cannot be read, for reasons
outside of the program. Of the contents, the sequence of recorded runs is kept.

In `Quarantine` one run is `Plan`, which decides whether an earlier result stands,
and `Commit`, which applies a result; `OtherCommits` are those of other runs in
between, `Rebuild` a new fingerprint of the binary. `Apply` is `History::Apply` for
one test, with `FlakyEvents` and `PassStreak` as in the code, over the records that
count.

### The planner

`phase` goes through the numbered steps of `MakePlan`: `Close` is one test of the
work list, `Visit`, `Descend`, `FindCycle`, `Return` the recursive search with its
stack as `path`, `Link` one edge of the groups, `PlaceByHash` or `Place` a shard for
them (there is no plan when the durations it would go by cannot be read,
`RefuseDurations`), `Take` the tests of one machine, `MakeOrder` the rest. The union-find forest
is the function `root` that its look-up computes. What selects a test in the first
place is open (`roots` is any set), and so is the order: the four orders of the
code are permutations, and any may come out.

### Sections and generators

The test program is drawn in the initial state: any tree of `Nodes`, numbered in
the order of their text, each a section or a generator (`Programs`). `place` has, for
each scope being executed, the node from which on its statements are still ahead
(`Ahead`); the next of them is the `Statement`. A tracker is named by
the path of nodes to it, so `trackers` is the tree the code builds by find-or-make.
`StartCycle` and `EndCycle` are one turn of the loop of `RunContext::runTest`;
`EnterSection`, `SkipSection`, `LeaveSection` the macros with
`SectionTracker::acquire` and `CloseTracker`; `AcquireGenerator`,
`CreateGenerator`, `RejectGenerator` those of `GENERATE`;
`FailsRequirement` an exception anywhere, which unwinds through
`SectionEndedEarly` and then `CloseOpenChild` when the cycle is over. `walk`,
`taken` and `cut` record what happened, for the properties only.

### The shrinker

`pass` is the pass at work and `at`, `part`, `search`, `low`, `high` its local
variables; one step is one candidate. `Try` is the function of that name.
Whether the property fails for given choices is drawn when it is first asked and
remembered in `verdicts` (`MayFail`, `Learned`), so TLC goes through every
property there is. How many choices a trial draws may depend on the first one
(`strategy`).

### The mocks

`Decide` is what happens under the global lock: the first expectation that accepts
the call and can take it, the steps it enters and the ones it passes.
The failures found in it are reported without the lock, in a step of their own
(`ReportMockFailure`), so that calls of other threads come in between.

A verification, `Verify` or the destructor of a mock, only takes the expectations out of
their mock under the lock (`VerifyAll`). It then judges each without it (`Judge`),
and destroys them when it returns (`Destroy`, one by one, as nothing says in which
order). `checked` has those of each thread until then. Calls no longer find them in
the mock, but a sequence, which refers to its steps by `weak_ptr`, does: `Held` are
the expectations that `Enter` finds, reports and retires. So a step that is being
verified can get a failure because a later step was called before it, besides the one
for its missing calls, and `EachFailureOnce` counts both: `history` remembers of
each call what was `held`.

Any thread that is in the test's code (`Free`) may declare, call or verify. Threads report
failures at any time, which the library allows only with
`CATCH_CONFIG_EXPERIMENTAL_THREAD_SAFE_ASSERTIONS` (`docs/progmasoft-mocking.md`, lines
138 to 141); without it only the behaviours in which no thread but the test's reports
a failure are those of the program.

## 3. The runs

| Run | Instance | What it shows | States |
|---|---|---|---|
| `attempts` | a, b; b is broken by a and in quarantine; `--repeat=2`, two retries each, budget 3, `--fail-fast=1` | jobs are neither lost nor doubled, attempts add up against repeats, limits and budget, verdicts are final, the run stops for the right reason, ends clean; the type invariant | 414,000 |
| `bisect` | five tests, two processes; c breaks e | an order bug is never called flaky; the search names c; `--jobs` is respected | 86,000 |
| `exclusion` | four tests: a, b share a resource, b is isolated, c serial, never retried and after a and d; fatal signals, hangs, slow tests, processes that do not exit | what must not run together does not; verdicts are true | 49,000 |
| `faults` | a, b with b a replay after a; processes that cannot be spawned, die or hang at start, greet late, are another binary, die idle | no test is forgotten; beliefs hold | 594,000 |
| `progress` | three tests with an order bug, an isolated test that hangs, fatal signals, a resource, failing starts | under fairness the run ends | 289,000 |
| `history_store` | three runs, a history that keeps two; crashes, a full disk, a file that cannot be set aside, damage | mutual exclusion unless a lock was taken away, lock files have owners, the store implements the ledger, commits end | 188,000 |
| `quarantine` | a window of 4, in at 2 flaky events, out after 1 pass, 5 records, two binaries | what is remembered of a test fits what happened to it | 979,000 |
| `planner` | four tests, every graph of up to four dependencies including an unknown name, every selection, two shards | the plan against reference definitions: least closed set, existence of a circle, best sharing | 1,180,000 |
| `sections` | every test case of four sections and generators of two elements, eight path filters of both styles, two failures, `--abortx 2` | every path once, failures stay local, filters are followed, the test case ends | 148,000 |
| `shrinker` | every input of three choices up to 3, every property, two strategies, a budget of 22 | the result fails and replays, nothing simpler is near, it ends | 484,000 |
| `mocks` | two mocks, two sequences, three expectations, three calls, two threads, either of which verifies | who takes a call, and which failures a test gets | 8,464,000 |
| `stale_lock` | three runs, one may crash | violation of `AllReachTheFile`, below | |

`stale_lock` shows a place where the program does something else than its
documentation says (`docs/progmasoft-runner.md`, line 106: "Runs that finish at the
same time all reach the file."). A run that finds a lock stale removes it by its
name, after it looked at its age. Two runs that find the lock of a dead run stale
at the same time both go to remove it; the slower one removes the lock the
faster one has made meanwhile, a third run takes the free name, and what the
faster one adds is overwritten. No slow run is needed, only one crash.

### Met while modelling

Further places where code and documentation differ. Each of the first nine has a
configuration beside the modules with which TLC finds the violation; they are not
among the runs above.

| Configuration | Property | What happens |
|---|---|---|
| `MCScheduler_ProbeLocks` | `Exclusion` | `Dispatch` takes the resources of a job's target only; the tests a probe or replay runs before it are started without theirs, beside tests that hold them (`progmasoft-runner.md`, line 241: "tests that share a resource never run at the same time") |
| `MCScheduler_ReplayLivelock` | `RunEnds` | a replay whose first test always ends its process starts over for ever: that path has no count (line 48: "A crash ends the test, not the run.") |
| `MCScheduler_ProbeHang` | `HangIsStopped` | `StartStep` sets a deadline for the target only; a test that hangs before it is never stopped (line 52: "A hang is stopped.") |
| `MCScheduler_StopRace` | `StartsNothingAfterStop` | a worker that greets after `--fail-fast` stopped the run still starts its test (`command-line.md`, line 79: "start no test after N failed tests") |
| `MCScheduler_StopRetries` | `NotRunMeansNotReached` | a test that failed and whose retry is dropped by the stop is reported as not run (`Results.hpp`, line 30: "The run stopped before reaching it.") |
| `MCScheduler_IdleBlame` | `VerdictIsTrue` | the death of an idle process is charged to the next test, which never started (`Results.hpp`, line 23) |
| `MCScheduler_WrongCulprit` | `CulpritIsPolluter` | a probe cut short by a crash counts as one that passed, and the search names the wrong test (`progmasoft-runner.md`, line 87) |
| `MCQuarantine_Released` | `ReleasedStaysOut` | ten clean passes release a test, but the flaky events may still be in the window of 20: the next pass puts it back (`History.cpp`, line 361) |
| `MCSections_Loop` | `EveryPathOnce` | a `GENERATE` in a loop together with sections named by the iteration: not every combination is taken |

Without a configuration: a failing `REQUIRE` in a section with a `GENERATE` of its
own drops the elements that are left, and one after a nested section the sections
behind it that were not yet found (`FailureStaysLocal` says what is not lost). A
stale lock that cannot be removed lets the constructor of `FileLock` spin without a
pause (`Files.cpp`, lines 77 to 81; `BreakLock` succeeds in the model).
`ExampleDatabase::Update` goes on when it did not get the lock
(`PropertyEngine.cpp`, line 99). The loser of a race to create a snapshot gets an
I/O error. A call between an expectation's declaration and its `.Times` or
`.InSequence` is decided with the defaults; the model declares in one step. A
worker that has read `quit` and hangs in its exit has no deadline (`exclusion`
includes such processes and therefore may stop). The retry budget is at least
five, also for a plan of ten tests, where the documentation says at most a tenth
(`progmasoft-runner.md`, line 94). A late greeting resets the count of failing
starts.

### Bounds

*Scheduler.* Two or three slots, one more than `--jobs` where a worker may be
quitting while its successor starts; when all slots are in use `SpawnFails` puts the
job back, as the code does when it has no room. Two tests are enough for one to break
the other, three for a dependency or a third party, five for a search of two rounds
with an odd half. `RetryFloor` is 5 as in the code, 3 in `attempts` so that the
budget of two tests with four retries runs out. `MaximumProbes` (12) and
`StartupFailuresToGiveUp` (3) are the code's. Nothing else is bounded: retries,
repeats, probes and starting over end by the code's own limits, and where they do
not (`ReplayLivelock`) the state space is still finite because
slots are reused. Slots are symmetric wherever no liveness property is checked.

*History.* Three runs: one that dies with the lock, one that breaks it, one that
comes between; two kept, so that the oldest is dropped.
*Quarantine.* The constants of the code (20, 2, 10, 50) are scaled down so that
records leave the window before they are forgotten, and passes release before the
window is clean; the theorems hold for all values in this order.
*Planner.* Four tests are the smallest that have a diamond, a circle with a way
into it, and two groups of two; the theorems hold for every catalog.
*Sections.* Four statements hold a section with two generators and a nested
section, a generator before and after a section, and siblings at two depths; two
failures are enough for the second to meet what the first left behind.
*Shrinker.* Three choices hold a block of two with a rest, and a swap and a move
over a distance of one and two; `SingleSteps` is 2 where the code has 8, so that a
choice of 3 has a value between zero and those tried one by one; the budget of 22 is
spent in some runs and not in others. A budget of 40, with 7.6 million states, gave the same answer.
*Mocks.* Three expectations are the least for a step that is in two sequences with
two others. Those of one mock are of one call, of up to two, and of one or two, the
second mock has the step that passes one of them; three calls are enough for one to
be refused and one to come early while the mock is verified.

### Fairness

*Scheduler.* `WF(LoopStep)`: the loop never waits longer than 500 ms
(`NextDeadline`), and never blocks on anything else. `WF(Progress(w))` for each
process: one that can go on does; a test that is in an endless loop is `hung` and
has no step. `WF(LimitPasses(w))`: time passes. Nothing obliges a process to die
idle or to fail to start, so these are outside of `Progress`. The `progress` run
leaves out two things under which the run need not end: starts that are late again
and again (each late greeting resets the count), and hangs before the target of a
probe; the test that hangs there is isolated and so is never one of those before a
target.

*History.* `WF(RunStep(r))` for each run that lives: it polls every ten
milliseconds. `WF(WaitEnds(r))`: its deadline of ten seconds passes. No
fairness for crashes, damage and ageing.

*Sections, shrinker.* `WF` of the next step of the one thread there is. A failing
assertion is not part of it: nothing obliges one to fail.

## 4. Theorems

The proofs assume what the modules' ASSUMEs say and TLC evaluates in the runs: a
plan lists each test once and dependencies are planned (`PlanAssumption`); at least
one worker, known modes (`OptionAssumption`); what tests may do
(`CatalogAssumption`); the order of the quarantine's constants
(`PolicyAssumption`); a finite catalog, keys that differ (`CatalogAssumption` of
`Planner`); and numbers that are numbers. All else is arbitrary: tests, slots,
plans, runs, policies, catalogs, properties.

**Scheduler.** `TypeCorrect`: `Spec => []TypeOK`. `TypeOK` is not inductive. The
invariant that is, `TypeInv`, adds

* `VacantSlots`: a slot that is not in use has no job, process or message. A
  message of a process that is gone would set a flag of a worker not in use;
* `JobsUnderWay`: a worker that runs a test or waits to start one has a job. The
  end of a target completes `job[w]`, which must be one;
* `ProcessesInTests`: a process that is running is inside a test, whose name
  `EndsTest` appends to `ran`;
* `ClosedIsLast`: the end of the streams is the last message. Without it a worker
  could be reaped with messages left in the batch, which would then be taken
  for those of the next process in the slot;
* `ProbesTried`: a probe is for a test that has attempts. The verdict after a
  probe is made from them, and from none there is no first failure.

Each action has its lemma (`AssignTypeInv`, `HandleTargetEndTypeInv`, ...), and
each helper that decides what follows an attempt has one that gives its result
(`DecideType`, `ProbeEndedType`, `CompleteType`). `LeastExists`, `GreatestExists` and
`NthExists` give the first, last and n-th of some positions, for the verdict and the
bisection.

**Jobs** (second half of `SchedulerProofs`). `LocksAreThoseOfJobs` and `JobsAreExclusive`: `LocksMatchJobs`
and `JobsExclusive` are inductive only together and over `TypeInv`: releasing the
resources of one job leaves the others' alone because jobs are disjoint, and a job
that is taken is disjoint from the others because the locks are those of all of them.
`StopIsFinal`: `Spec => StopHandsOutNothing`; the one step of a stopped run that
could spend a retry is `Decide`, deep in `Complete`.

What a step can do to the jobs is said once, in `JobMoves`: a test is enqueued, a
blocked job is settled, the queue is drained, a job is handed out (`HandsOut`) or put
back (`PutsBack`), or a worker's job ends (`Leaves`): its test is enqueued again
(`Requeues`), gets its verdict (`Resolves`) or is dropped by the stop (`Drops`). The
remaining steps leave queue, jobs and verdicts alone. Each invariant below is kept by
these few moves, whatever message or death was behind them.

| Inductive invariant | What it adds, and why | Theorems |
|---|---|---|
| `JobsInv` | no two jobs for one test (`JobsApart`), `pendingJobs` counts them, a test with a verdict has none; tests that are not enqueued yet have neither (or enqueueing would make a second job); a job in hand comes after passes of its dependencies, which rests on `NoneBlocked`: all blocked jobs are settled before dispatch starts | `EachTestHasOneJob` (`OneJobPerTest`), `NothingIsForgotten` (`NoTestForgotten`), `VerdictStays` (`VerdictIsFinal`) |
| `VerdictInv` | over `JobsInv`: a test without a verdict is `not-run`, a verdict is an attempt's or comes from a dependency, the failures are counted one by one | `DependenciesComeFirst` (`DependenciesRespected`), `StopHasCause` (`StopsForCause`) |
| `EndInv` | the phases: everything is enqueued before the first dispatch, a stop drains the queue before the run can be done | `EndsClean` (`CleanEnd`) |
| `AccountInv` | over `VerdictInv`: a test pays for each attempt with a repeat or a retry, with equality unless it was blocked or the run stopped; a test not yet enqueued has its first attempt paid; the retries of all tests and what is left of the budget are the budget | `AttemptsAreAccounted` (`AttemptsAccounted`) |

`VerdictStays` is an action property: a test with a verdict has no job, so no worker
can add to its attempts or decide on it again.

**Processes** (`ProcessProofs`). `ProcessInv` gives the course of a process as five
moments (`Unstarted`, `Waiting`, `Sent`, `Inside`, `Ended`), each with all that can
be in its pipe and in the pipe to it, what the runner believes, and the states the
process may be in. In each it may also be dead (`Over`), with the end of its streams
last in the pipe. A message thus comes from exactly one test. With it go what a job
is at (`JobGoesOn`, `RunsItsStep`, `RunsAlone`) and that not more workers are live
than `--jobs` allows. From it follow

* `BeliefsAreTrue` (`BeliefIsTrue`): with every fault there is, what the runner would
  charge is what the process is inside of;
* `IsolatedRunAlone` (`IsolatedAlone`) and `JobsAreLimited` (`JobsLimit`). A process
  that was killed for its time limit is not counted by the code, and its successor
  starts before it is gone; nor does `JobsLimit` count it;
* `TargetsAreExclusive`: with `LocksInv`, the targets of jobs exclude each other for
  as long as their processes live, killed ones included. No run checks this form;
* `TestsAreExclusive` (`Exclusion`): all tests do, in plans without probes and
  replays (`~BisectOrder`, `Replayed = {}`). The hypothesis is needed: those run other
  tests before their target without the locks of these (`MCScheduler_ProbeLocks`);
* `VerdictsAreTrue` (`VerdictIsTrue`), if no process dies idle and none is too slow
  to greet. `CausesInv` says why a process is dead, hangs, was killed or is late, and
  that the end in its pipe is one its test can have after the tests before it;
  `AttemptsTrue` carries it to the attempts, `VerdictIsAnAttempts` to the verdict. Both
  hypotheses are needed: an idle death after the command was sent is charged to the
  test (`MCScheduler_IdleBlame`), and a greeting that comes after its worker was killed
  as silent still starts a test, whose process then dies under it.

**Search.** Two theorems of `ProcessProofs` are about the bisection as a whole. Their
hypothesis `NoneDies` is on the constants: no fault strikes an idle or a greeting
process, and no test ends its process or exceeds a limit. It is needed, as a probe cut
short counts as one that passed (`MCScheduler_WrongCulprit`).

* `CulpritsAreTrue` (`CulpritIsPolluter`). `SearchInv` says that attempts ended as the
  tests before them let them (`AttemptsTell`; rests on `EndOfTarget`: what the runner
  remembers of a process is what it ran), that a probe runs what the search is to try
  next in a process of its own (`ProbesFollow`), and of a test that fails exactly after
  certain others that one of these is always among the candidates (`SearchFits`). A
  step of the search keeps one (`NarrowedFits`), because what is left when the probed
  half is taken away has all the others (`WithoutKeeps`), so the last candidate is one.
  When the probes are spent before, the search names nobody, and the property says so.
* `OrderBugsAreNotFlaky` (`OrderBugIsNotFlaky`). Over `SearchInv` and `AccountInv`,
  `RetriesAlone`: all attempts but the first run alone, and a search begins after the
  last attempt. Attempts that would seem flaky are then a failure after other tests and
  a pass alone (`SeemsFlaky`), which is what `Confirms` asks for, and the first probe
  fails (`ProbeTells`). With `--repeat` the property does not hold, as the last repeat
  need not be alone; nor is it promised (`progmasoft-runner.md`, line 97: "a test whose
  verdicts differ is flaky"), nor is it when the run stops before it has searched.

That nothing but the end of a target decides anything when no process dies is
`QuietSteps`.

**History.** `StoreInvariant` proves `StoreInv`: while no lock was taken away, the
lock file is that of the run that holds the lock (`OwnersHold`), what a holder is
about to write is what the file lists now (`CopiesAreCurrent`), and answers come
once, when the run is done (`AnswersInTime`). From it follow `LockIsExclusive`
(`OneHolder`), `LockFilesHaveOwners` (`LockHasOwner`), and `NoStealWithoutCause`: a
run's lock is removed by another only if one has died or is slow.

`StoreKeepsLedger` is the refinement `Spec => Ledger!Spec`, with the mapping

| `RunLedger` | `HistoryStore` |
|---|---|
| `recorded` | `file.listed` |
| `intact` | `file.state # "damaged"` |
| `answer` | `result` |
| `exclusive` | `~stolen` |

`Replaces` is `Record`: it needs `CopiesAreCurrent`, or the run would write over what another
has added since. `GivesUp` and the failures under the lock are `Refuse`;
`SetsAside` is `SetAside`; a step that removes the lock of a live run is `LoseLock`,
after which the ledger promises nothing. All other steps are stutters.

**Quarantine.** `MemoryFits`: with the types, the latest result that is still among
the records is the latest there was (`LastIsReal`), although blocked and kept
results come in between and old ones are forgotten. `ReplaysFit`, `KeptResultsPassed`,
`FlakyTestsAreIn` and `PassesLetOut` are read from it and from what `Remember` and
`Apply` do; the last also needs that a window of clean passes has no flaky event in it
(`StreakIsNotFlaky`), or what passes let out would be put in again.

**Planner.** `PlanInvariant` proves `PlanInv`: what is selected is in every closed
set that has the roots, and is closed itself but for the work list (`CloseInv`); the
path of the search is a chain of different tests, those in state 1 and no others,
and those in state 2 have only dependencies in state 2 and no circle among them
(`CycleInv`; a circle through the test that is done last would go through one that
is not done, `OneMoreDone`); a dependency is still to be linked or has the root of its
test, and tests of one root that are placed have one shard (`ShardInv`).
`PlanHasWhatIsNeeded`, `CyclesAreRefused`, `ShardsAreClosed` and `PlansAreSound` follow.
The last also needs that an order of finitely many tests without repetition has
them all (`OrdersAreWhole`).

**Shrinker.** `ShrunkFailsAlways`: that what is held is what its replay consumes
rests on `ReplayRepeats`, a replay of what a replay consumed consumes the same;
that it fails, on `TryKeepsFailing`. `CursorOK`, with the bounds of the binary search,
shows that each candidate is a sequence of natural numbers.

`NothingHelpsAtTheEnd` (`NothingHelps`) rests on `RoundInv`: in a round that has
improved nothing and has budget left, every candidate *behind* the cursor of the round
(`Behind`) is known not to help. `Behind` has one part per pass: of the deletions the
blocks of the sizes before and, of the present size, those at or after the cursor, as
that pass goes from the end; of the choices being lowered the ones before, and of the
one at the cursor the steps that were tried (`LoweringHere`); neighbours to the left.
A candidate that is tried either improves, and the round counts for nothing, or is
behind the cursor from now on (`Settled`); one that is tried again later is still
known. That the result of a round that improves nothing stands in the end needs that
the cursor of each pass has come to its end when the next begins. The binary search of
a pass may skip values, so the property is about zero and the next `SingleSteps` values
below a choice, which are tried one by one.

**Mocks.** `MocksInvariant` proves `MocksInv`: the counter of an expectation is the
number of entries of `history` it took (`CountsFit`), a sequence is at the last of its
steps that took a call (`StepsFit`), of the expectations that are not destroyed exactly
those a sequence has passed are retired (`RetiredFit`), and what has left its mock is in
the hands of a verification until it is judged (`VerifiedFit`). So what `Decide` reads, counters and
flags, says the same as the history of calls, by which `CallsGoToFirst` defines the
right expectation; `CallsGoToTheFirst` follows, as an entry of the history is judged by
what came before it and later steps leave that alone. `FailuresAreReportedOnce`
(`EachFailureOnce`) needs `FailuresFit` besides: failures that were reported and those
that threads are about to report are, together, the calls that were refused, those that
came early, and the expectations that were judged without their calls; `VerifiedFit`
makes that all of them in the end. A call between the swap and the end of a verification
comes early by what sequences hold, for which `RetiredFit` has to speak of `Held`.
The counts are
of finite sets to which a step adds one element, not sums over data.

**Sections.** `NeverClosedIllogically` (`NoIllogicalClose`), for programs without a
`GENERATE` in a loop (`"again" \notin Kinds`), those of the run `sections`; any nesting,
filters and exceptions. `SectionsInvariant` proves `SectionsInv`:

* `PathOK`: every tracker from the test case to the current one is live, that is
  executing, executing its children or to be run again. It is what makes a `close`
  logical, and what could fail is that a section is executed without its tracker being
  the current one: `sectionStarted` enters a section also when its tracker is open
  although the cycle is complete and `acquire` did not open it;
* `WayOK` says that this never comes to pass. Before the first section of a cycle is
  left, all that was passed on the way is done with; afterwards, what is left to be
  entered again (`Pending`) lies before the place the test has come to. The second
  follows from the first at the moment a section is left: behind it nothing is pending,
  as it would have been reached past a section that was not done with (`PendingOK`);
* `StackOK` and `ScopeOK`: the sections being executed are on the way to the current
  tracker, with generators in between, and the statement that is next comes after the
  tracker it is looked up in. This is how a generator that is closed last in a scope
  leads back to the section around it;
* `TreeOK`: the tree has the parents of its trackers, in the order of the text.

With a `GENERATE` in a loop the trackers on the way do not follow the order of the
text, since the loop comes back to a tracker it has opened, and `SectionsInv` does not
hold; `NoIllogicalClose` does in all programs of up to five statements.

Only model-checked: liveness (`RunEnds`, `CommitEnds`, `TestCaseEnds`, `ShrinkEnds`),
which is out of the provers' reach; `NearBest`, a bound on sums of durations, which are
folds over data; and what the whole of a test case's cycles covers (`EveryPathOnce`,
`FailureStaysLocal`, `FollowsFilter`), which needs an induction over the combinations of
elements a generator still has to give.

## 5. Plan

Done: the scheduler with its processes; the lock, the history and its ledger; the
quarantine; the planner; sections and generators; the shrinker; the mocks.

Left, in this order:

1. An abstract `RunPlan` (each test goes from waiting to under way to a verdict,
   no two that exclude each other under way) that `Scheduler` implements.
2. `RunInProcess` (`--in-process`), which shares `Decide` and `Finish` with the
   processes but has no worker to lose.
3. The flow of `Runner.cpp`: plan, run, commit, reports, exit code.
4. The trials of `PropertyEngine` with the database of examples, over `Shrinker`
   and `FileLock`; snapshots.
5. That no leaf is entered twice with the same elements (`EveryPathOnce`, first part),
   as a theorem of `Sections`.

## 6. Not modelled

Text (console, reports, JSON, importers, options, tags, string conversion), pure
numeric code (benchmarks, matchers), platform code under `Process.cpp`,
Git and hashing, and the vendored JSON parser; the reasons are under
`components`. Most lines of the repository are of these kinds: the amalgamated
sources under `extras` alone, which repeat the library and its third-party code,
are more than half of it, and the rest is for the larger part parsing, formatting,
templates of matchers and string conversion. The share of all lines that the map
covers is small for that reason.

Within the modelled components: `RunInProcess`, messages that only describe a test,
how a test comes to be selected, time limits and predictions of the planner,
statistics of the history, the actions and results of mocked calls, assertion
handlers and messages, and everything named under *Abstractions*.
