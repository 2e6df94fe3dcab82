----------------------------- MODULE Scheduler ------------------------------
(***************************************************************************)
(* The scheduler of the Catch3 runner (Runner/Scheduler.cpp): one thread   *)
(* that hands the jobs of a plan to worker processes, takes their messages *)
(* and decides what follows each attempt: a repeat, a retry, a probe or    *)
(* the verdict.  Its loop, RunInWorkers, is cut into the phases of `pc';   *)
(* the processes (module Worker) take their steps between any two of them. *)
(*                                                                         *)
(* Seeds, durations, temporary directories, notes and console events are   *)
(* left out.  Which of several idle workers gets a job, and in which order *)
(* workers that ended together are reaped, is left open.                   *)
(***************************************************************************)
EXTENDS Worker, Outcomes, FiniteSets, Integers

CONSTANTS
  \* The plan.
  Tests,             \* the planned tests
  PlanOrder,         \* their order
  Dependencies,      \* the planned tests a test depends on
  Resources,         \* the resources a test of the catalog needs
  Serial,            \* the tests tagged [!serial]
  Isolated,          \* the tests tagged [!isolated]
  Quarantined,       \* the tests in quarantine
  FlakyHistory,      \* the tests whose history shows flakiness
  RetryLimit,        \* the retry limit of each test
  Limited,           \* the tests with a time limit
  Slow,              \* the tests that may take longer than their limit
  Replayed,          \* the tests of a --replay run ...
  ReplaySequence,    \* ... and the tests to run before each
  \* The options.
  MaximumWorkers, RetryMode, BisectOrder, Repeat, FailFast, Isolate,
  \* Numbers the code fixes.
  RetryFloor,             \* 5: retries even a small run may spend
  MaximumProbes,          \* 12
  StartupFailuresToGiveUp \* 3

PlanAssumption ==
  /\ Tests \subseteq Catalog
  /\ PlanOrder \in Seq(Tests)
  /\ \A t \in Tests : \E i \in DOMAIN PlanOrder : PlanOrder[i] = t
  /\ \A i, k \in DOMAIN PlanOrder : PlanOrder[i] = PlanOrder[k] => i = k
  /\ Dependencies \in [Tests -> SUBSET Tests]
  /\ DOMAIN Resources = Catalog
  /\ Serial \subseteq Catalog /\ Isolated \subseteq Catalog
  /\ Quarantined \subseteq Tests /\ FlakyHistory \subseteq Tests
  /\ RetryLimit \in [Tests -> Nat]
  /\ Limited \subseteq Tests /\ Slow \subseteq Tests /\ Replayed \subseteq Tests
  /\ ReplaySequence \in [Tests -> Seq(Catalog)]
OptionAssumption ==
  /\ MaximumWorkers \in Nat \ {0}
  /\ RetryMode \in {"off", "auto", "always"}
  /\ BisectOrder \in BOOLEAN /\ Isolate \in BOOLEAN
  /\ Repeat \in Nat \ {0} /\ FailFast \in Nat
  /\ RetryFloor \in Nat /\ MaximumProbes \in Nat
  /\ StartupFailuresToGiveUp \in Nat \ {0}
ASSUME SchedulerAssumption == PlanAssumption /\ OptionAssumption

VARIABLES
  pc,                    \* the phase of Run and RunInWorkers
  enqueued,              \* how many planned tests Run has enqueued
  batch,                 \* per slot, the events taken and not yet handled
  queue,                 \* queue_
  attempts, pendingJobs, finished, verdict, flaky,        \* TestState and its
  retriesUsed, repeatsLeft, bisection,                    \* result, per test
  workers,               \* workers_: the slots in use
  ready, dedicated, quitting, killedForTimeout,           \* Worker's flags
  job, step, running, history,                            \* Worker, per slot
  overdue,               \* the workers whose current time limit has passed
  streamsClosed,         \* outputClosed and errorsClosed
  pendingStart, heldResources, serialRunning, retryBudget,
  startupFailures, infrastructureFailed, stopping, failedTests

testVars == <<attempts, finished, verdict, flaky, retriesUsed, repeatsLeft,
              bisection, retryBudget, stopping, failedTests>>
queueVars == <<queue, pendingJobs>>
flagVars == <<ready, dedicated, quitting, killedForTimeout>>
workerVars == <<workers, flagVars, job, step, running, history, overdue,
                streamsClosed, pendingStart>>
lockVars == <<heldResources, serialRunning>>
startVars == <<startupFailures, infrastructureFailed>>
vars == <<pc, enqueued, batch, testVars, queueVars, workerVars, lockVars, startVars, processVars>>

Phases == {"enqueue", "settle", "dispatch", "start", "wait", "handle", "reap", "done"}

Job(kind, test, before, fresh) ==
  [kind |-> kind, test |-> test, before |-> before, fresh |-> fresh]
NoJob == Job("none", NoTest, <<>>, FALSE)
Jobs == [kind : {"attempt", "probe"}, test : Tests, before : Seq(Catalog), fresh : BOOLEAN]
Running(test, target) == [test |-> test, target |-> target, fatal |-> FALSE]
NotRunning == Running(NoTest, FALSE)
NoBisection ==
  [stage |-> "none", candidates |-> <<>>, probing |-> <<>>, probes |-> 0,
   culprit |-> NoTest, reproduced |-> FALSE]

PlannedJob(t) ==
  IF t \in Replayed THEN Job("attempt", t, ReplaySequence[t], TRUE)
  ELSE Job("attempt", t, <<>>, FALSE)

\* The scheduler's constructor.
Init ==
  /\ ProcessInit
  /\ pc = "enqueue" /\ enqueued = 0
  /\ batch = [w \in Slots |-> <<>>]
  /\ queue = <<>>
  /\ attempts = [t \in Tests |-> <<>>]
  /\ pendingJobs = [t \in Tests |-> 0]
  /\ finished = [t \in Tests |-> FALSE]
  /\ verdict = [t \in Tests |-> "not-run"]
  /\ flaky = [t \in Tests |-> FALSE]
  /\ retriesUsed = [t \in Tests |-> 0]
  /\ repeatsLeft = [t \in Tests |-> Repeat - 1]
  /\ bisection = [t \in Tests |-> NoBisection]
  /\ workers = {} /\ ready = {} /\ dedicated = {} /\ quitting = {}
  /\ killedForTimeout = {} /\ overdue = {} /\ streamsClosed = {} /\ pendingStart = {}
  /\ job = [w \in Slots |-> NoJob]
  /\ step = [w \in Slots |-> 0]
  /\ running = [w \in Slots |-> NotRunning]
  /\ history = [w \in Slots |-> <<>>]
  /\ heldResources = {} /\ serialRunning = FALSE
  /\ retryBudget = IF Len(PlanOrder) \div 10 > RetryFloor
                   THEN Len(PlanOrder) \div 10 ELSE RetryFloor
  /\ startupFailures = 0 /\ infrastructureFailed = FALSE
  /\ stopping = FALSE /\ failedTests = 0
-----------------------------------------------------------------------------
\* Mutant: the else is missing.
Enqueue_Twice(j, tried, pending) ==
  /\ queue' = IF j.kind = "probe" \/ j.before # <<>> \/ tried # <<>>
              THEN <<j>> \o Append(queue, j) ELSE Append(queue, j)
  /\ pendingJobs' = [pending EXCEPT ![j.test] = @ + 1]

\* Scheduler::Enqueue.  Retries, repeats, probes and replays go to the front.
Enqueue(j, tried, pending) ==
  /\ queue' = IF j.kind = "probe" \/ j.before # <<>> \/ tried # <<>>
              THEN <<j>> \o queue ELSE Append(queue, j)
  /\ pendingJobs' = [pending EXCEPT ![j.test] = @ + 1]

\* Scheduler::Run enqueues the plan, then starts the loop.
EnqueuePlanned ==
  /\ pc = "enqueue" /\ enqueued < Len(PlanOrder)
  /\ LET t == PlanOrder[enqueued + 1] IN Enqueue(PlannedJob(t), attempts[t], pendingJobs)
  /\ enqueued' = enqueued + 1
  /\ UNCHANGED <<pc, batch, testVars, workerVars, lockVars, startVars, processVars>>

StartLoop ==
  /\ pc = "enqueue" /\ enqueued = Len(PlanOrder)
  /\ pc' = "settle"
  /\ UNCHANGED <<enqueued, batch, testVars, queueVars, workerVars, lockVars, startVars,
                 processVars>>
-----------------------------------------------------------------------------
(***************************************************************************)
(* What follows an attempt.                                                *)
(***************************************************************************)

\* Scheduler::Finish, with the outcome of the test and whether it is flaky.
\* A test that has its verdict keeps it.
Finish(t, outcome, isFlaky) ==
  IF finished[t]
  THEN UNCHANGED <<finished, verdict, flaky, failedTests, stopping>>
  ELSE /\ finished' = [finished EXCEPT ![t] = TRUE]
       /\ verdict' = [verdict EXCEPT ![t] = outcome]
       /\ flaky' = [flaky EXCEPT ![t] = isFlaky]
       /\ failedTests' = failedTests + (IF FailsRun(outcome, t \in Quarantined) THEN 1 ELSE 0)
       /\ stopping' = (stopping \/ /\ FailsRun(outcome, t \in Quarantined)
                                   /\ FailFast > 0 /\ failedTests' >= FailFast)

FinishTried(t, tried, reproduced) ==
  Finish(t, Verdict(tried, reproduced), Flaky(tried, reproduced))

Unresolved == UNCHANGED <<finished, verdict, flaky, failedTests, stopping>>

\* Scheduler::StartProbe, on a test whose bisection is `search' so far.
StartProbe(t, search, sequence, pending) ==
  /\ bisection' = [bisection EXCEPT ![t] =
       [search EXCEPT !.probes = @ + 1, !.probing = sequence]]
  /\ Enqueue(Job("probe", t, sequence, TRUE), attempts[t], pending)

\* One retry tells a deterministic failure from the others; more go to what
\* is known to be unstable.
WorthRetrying(t, outcome) ==
  \/ RetryMode = "always"
  \/ /\ RetryMode = "auto"
     /\ \/ retriesUsed[t] = 0
        \/ outcome \in {"crashed", "timed-out"}
        \/ t \in Quarantined \/ t \in FlakyHistory

Repeats(t) == ~stopping /\ repeatsLeft[t] > 0

\* Mutants: a condition of a retry is missing.
Retries_NoLimit(t, tried) ==
  /\ ~stopping /\ ~Repeats(t) /\ IsFailure(Last(tried).outcome)
  /\ retryBudget > 0 /\ WorthRetrying(t, Last(tried).outcome)
Retries_NoBudget(t, tried) ==
  /\ ~stopping /\ ~Repeats(t) /\ IsFailure(Last(tried).outcome)
  /\ retriesUsed[t] < RetryLimit[t] /\ WorthRetrying(t, Last(tried).outcome)
Retries_AfterStop(t, tried) ==
  /\ ~Repeats(t) /\ IsFailure(Last(tried).outcome) /\ retryBudget > 0
  /\ retriesUsed[t] < RetryLimit[t] /\ WorthRetrying(t, Last(tried).outcome)

Retries(t, tried) ==
  /\ ~stopping /\ ~Repeats(t)
  /\ IsFailure(Last(tried).outcome)
  /\ retriesUsed[t] < RetryLimit[t] /\ retryBudget > 0
  /\ WorthRetrying(t, Last(tried).outcome)

\* The failures that happened after other tests in a shared process.
SharedFailures(tried) ==
  {i \in Failures(tried) : tried[i].precededBy # <<>> /\ tried[i].outcome # "timed-out"}
\* A pass alone after such a failure: flaky, or broken by a test before it.
Confirms(t, tried) ==
  /\ ~stopping /\ ~Repeats(t) /\ ~Retries(t, tried)
  /\ ~IsFailure(Last(tried).outcome) /\ Last(tried).precededBy = <<>>
  /\ BisectOrder /\ bisection[t].stage = "none"
  /\ SharedFailures(tried) # {}

\* Scheduler::Decide, after the attempts `tried'.
Decide(t, tried, pending) ==
  \/ /\ Repeats(t)
     /\ repeatsLeft' = [repeatsLeft EXCEPT ![t] = @ - 1]
     /\ Enqueue(Job("attempt", t, <<>>, FALSE), tried, pending)
     /\ Unresolved /\ UNCHANGED <<retriesUsed, retryBudget, bisection>>
  \/ /\ Retries(t, tried)
     /\ retriesUsed' = [retriesUsed EXCEPT ![t] = @ + 1]
     /\ retryBudget' = retryBudget - 1
     /\ Enqueue(Job("attempt", t, <<>>, TRUE), tried, pending)
     /\ Unresolved /\ UNCHANGED <<repeatsLeft, bisection>>
  \/ /\ Confirms(t, tried)
     /\ LET first == CHOOSE i \in SharedFailures(tried) : \A k \in SharedFailures(tried) : i <= k
            sequence == tried[first].precededBy
        IN StartProbe(t, [bisection[t] EXCEPT !.stage = "confirming", !.candidates = sequence],
                      sequence, pending)
     /\ Unresolved /\ UNCHANGED <<repeatsLeft, retriesUsed, retryBudget>>
  \/ /\ ~Repeats(t) /\ ~Retries(t, tried) /\ ~Confirms(t, tried)
     /\ FinishTried(t, tried, bisection[t].reproduced)
     /\ queue' = queue /\ pendingJobs' = pending
     /\ UNCHANGED <<repeatsLeft, retriesUsed, retryBudget, bisection>>

\* The elements of s that are not in t, in their order.
Without(s, t) ==
  LET kept == {i \in DOMAIN s : s[i] \notin Range(t)}
      Nth(n) == CHOOSE i \in kept : Cardinality({k \in kept : k <= i}) = n
  IN [n \in 1..Cardinality(kept) |-> s[Nth(n)]]

\* Mutant: the halves are swapped.
Narrowed_Swapped(search, failed) ==
  IF search.stage = "confirming"
  THEN [search EXCEPT !.stage = "searching", !.reproduced = TRUE]
  ELSE [search EXCEPT !.candidates =
          IF failed THEN Without(search.candidates, search.probing) ELSE search.probing]

\* What a probe says about the search: the candidates are narrowed to the
\* tests it ran, when the test failed after them, or to the others.
Narrowed(search, failed) ==
  IF search.stage = "confirming"
  THEN [search EXCEPT !.stage = "searching", !.reproduced = TRUE]
  ELSE [search EXCEPT !.candidates =
          IF failed THEN search.probing ELSE Without(search.candidates, search.probing)]

SearchEnds(search) == Len(search.candidates) <= 1 \/ search.probes >= MaximumProbes

Half(candidates) == SubSeq(candidates, 1, Len(candidates) \div 2)

\* Scheduler::ProbeEnded.
ProbeEnded(t, failed, pending) ==
  LET search == bisection[t]
      flakyAfterAll == search.stage = "confirming" /\ ~failed
      narrowed == Narrowed(search, failed)
      ended == [narrowed EXCEPT !.stage = "done",
                  !.culprit = IF Len(narrowed.candidates) = 1
                              THEN narrowed.candidates[1] ELSE NoTest]
  IN \/ /\ flakyAfterAll
        /\ bisection' = [bisection EXCEPT ![t].stage = "done"]
        /\ FinishTried(t, attempts[t], search.reproduced)
        /\ queue' = queue /\ pendingJobs' = pending
     \/ /\ ~flakyAfterAll /\ SearchEnds(narrowed)
        /\ bisection' = [bisection EXCEPT ![t] = ended]
        /\ FinishTried(t, attempts[t], narrowed.reproduced)
        /\ queue' = queue /\ pendingJobs' = pending
     \/ /\ ~flakyAfterAll /\ ~SearchEnds(narrowed)
        /\ StartProbe(t, narrowed, Half(narrowed.candidates), pending)
        /\ Unresolved

\* Scheduler::Complete, for the job of worker w and the outcome of its
\* target, which ran after the tests in the worker's history.
Complete(w, outcome) ==
  LET t == job[w].test
      pending == [pendingJobs EXCEPT ![t] = @ - 1]
      tried == Append(attempts[t], [outcome |-> outcome, precededBy |-> history[w]])
  IN IF job[w].kind = "probe"
     THEN /\ ProbeEnded(t, IsFailure(outcome), pending)
          /\ UNCHANGED <<attempts, repeatsLeft, retriesUsed, retryBudget>>
     ELSE /\ attempts' = [attempts EXCEPT ![t] = tried]
          /\ Decide(t, tried, pending)

\* Scheduler::ReleaseJob: the locks of the job of worker w.
ReleaseLocks(w) ==
  /\ heldResources' = heldResources \ Resources[job[w].test]
  /\ serialRunning' = (serialRunning /\ job[w].test \notin Serial)

TakeLocks(j) ==
  /\ heldResources' = heldResources \cup Resources[j.test]
  /\ serialRunning' = (serialRunning \/ j.test \in Serial)
-----------------------------------------------------------------------------
(***************************************************************************)
(* The top of a turn: tests that cannot run any more, and the end of the   *)
(* run.                                                                    *)
(***************************************************************************)

\* The dependency of a test of the queue got a verdict that is not a pass.
IsBlocked(j) ==
  j.kind = "attempt" /\ \E d \in Dependencies[j.test] : finished[d] /\ ~Satisfies(verdict[d])

\* Scheduler::SettleBlocked, one job at a time.
SettleBlocked ==
  /\ pc = "settle"
  /\ \E i \in DOMAIN queue :
       LET t == queue[i].test
       IN /\ IsBlocked(queue[i])
          /\ \A k \in 1..(i - 1) : ~IsBlocked(queue[k])
          /\ queue' = RemoveAt(queue, i)
          /\ pendingJobs' = [pendingJobs EXCEPT ![t] = @ - 1]
          /\ IF pendingJobs[t] = 1 /\ ~finished[t] /\ attempts[t] = <<>>
             THEN Finish(t, "blocked", FALSE)
             ELSE Unresolved
  /\ UNCHANGED <<pc, enqueued, batch, attempts, retriesUsed, repeatsLeft, bisection, retryBudget,
                 workerVars, lockVars, startVars, processVars>>

\* Scheduler::Quit, for some workers.
SendQuit(some) ==
  /\ quitting' = quitting \cup some
  /\ commands' = [w \in Slots |->
       IF w \in some \ quitting THEN Append(commands[w], Quit) ELSE commands[w]]
Jobless == {w \in workers : job[w] = NoJob}

\* When the run stops early, queued work will not start; running work
\* finishes.
DrainQueue ==
  /\ pc = "settle" /\ \A i \in DOMAIN queue : ~IsBlocked(queue[i])
  /\ pc' = "dispatch"
  /\ IF stopping \/ infrastructureFailed
     THEN /\ pendingJobs' = [t \in Tests |->
               pendingJobs[t] - Cardinality({i \in DOMAIN queue : queue[i].test = t})]
          /\ queue' = <<>>
          /\ SendQuit(Jobless)
     ELSE UNCHANGED <<queueVars, quitting, commands>>
  /\ UNCHANGED <<enqueued, batch, testVars, workers, ready, dedicated, killedForTimeout, job,
                 step, running, history, overdue, streamsClosed, pendingStart, lockVars, startVars,
                 process, current, output, ran>>
-----------------------------------------------------------------------------
(***************************************************************************)
(* Dispatch.                                                               *)
(***************************************************************************)
\* Mutant: dependencies need not have their verdicts.
Settled_Always(j) == TRUE
Settled(j) == j.kind = "probe" \/ \A d \in Dependencies[j.test] : finished[d]
Busy == {w \in workers : job[w] # NoJob}
\* Nothing else starts until the serial test has run.
Halts(j) == Settled(j) /\ (serialRunning \/ (j.test \in Serial /\ Busy # {}))
\* Mutant: resources are not looked at.
Passed_AnyResources(j) == ~Settled(j)
Passed(j) ==
  \/ ~Settled(j)
  \/ ~Halts(j) /\ Resources[j.test] \cap heldResources # {}

\* The job Scheduler::TakeRunnable takes is the i-th of the queue.
TakesRunnable(i) ==
  /\ \A k \in 1..(i - 1) : Passed(queue[k])
  /\ ~Passed(queue[i]) /\ ~Halts(queue[i])

Live == workers \ quitting
\* Mutants: a busy worker counts as idle, the tag [!isolated] is not looked at,
\* one worker too many.
Idle_Busy == {w \in Live : w \in ready /\ w \notin dedicated}
Idle == {w \in Live : w \in ready /\ w \notin dedicated /\ job[w] = NoJob}
NeedsFresh_NotIsolated(j) == j.fresh \/ Isolate
NeedsFresh(j) == j.fresh \/ Isolate \/ j.test \in Isolated
CanShare(j) == ~NeedsFresh(j) /\ Idle # {}
Room_OneMore == Cardinality(Live) <= MaximumWorkers
Room == Cardinality(Live) < MaximumWorkers

\* Scheduler::StartStep: the next test of the job j of worker w.
StepTest(j, s) == IF s >= Len(j.before) THEN j.test ELSE j.before[s + 1]
StartStep(w, j, s) ==
  /\ running' = [running EXCEPT ![w] = Running(StepTest(j, s), s >= Len(j.before))]
  /\ commands' = [commands EXCEPT ![w] = Append(@, StepTest(j, s))]
  /\ overdue' = overdue \ {w}

\* An idle, ready, shared worker takes a job that may share a process.
Assign ==
  /\ pc = "dispatch" /\ ~stopping
  /\ \E i \in DOMAIN queue, w \in Idle :
       /\ TakesRunnable(i) /\ CanShare(queue[i])
       /\ queue' = RemoveAt(queue, i)
       /\ job' = [job EXCEPT ![w] = queue[i]]
       /\ step' = [step EXCEPT ![w] = 0]
       /\ TakeLocks(queue[i])
       /\ StartStep(w, queue[i], 0)
  /\ UNCHANGED <<pc, enqueued, batch, testVars, pendingJobs, workers, flagVars, history,
                 streamsClosed, pendingStart, startVars, process, current, output, ran>>

\* Mutant: the job is lost.
PutBack_Drops(i) == queue' = RemoveAt(queue, i)

\* The job that was taken goes to the front of the queue.
PutBack(i) == queue' = <<queue[i]>> \o RemoveAt(queue, i)

\* Without room the job waits; for a fresh process an idle shared worker
\* gives way.
MakeRoom ==
  /\ pc = "dispatch" /\ ~stopping
  /\ \E i \in DOMAIN queue :
       /\ TakesRunnable(i) /\ ~CanShare(queue[i]) /\ ~Room
       /\ PutBack(i)
       /\ IF NeedsFresh(queue[i]) /\ Idle # {}
          THEN \E w \in Idle : SendQuit({w})
          ELSE UNCHANGED <<quitting, commands>>
  /\ pc' = "start"
  /\ UNCHANGED <<enqueued, batch, testVars, pendingJobs, workers, ready, dedicated,
                 killedForTimeout, job, step, running, history, overdue, streamsClosed,
                 pendingStart, lockVars, startVars, process, current, output, ran>>

\* Otherwise a new worker starts.  The job waits until it says hello.
Spawn ==
  /\ pc = "dispatch" /\ ~stopping /\ ~infrastructureFailed
  /\ \E i \in DOMAIN queue, w \in Slots \ workers :
       /\ TakesRunnable(i) /\ ~CanShare(queue[i]) /\ Room
       /\ queue' = RemoveAt(queue, i)
       /\ workers' = workers \cup {w}
       /\ dedicated' = IF NeedsFresh(queue[i]) THEN dedicated \cup {w} ELSE dedicated
       /\ job' = [job EXCEPT ![w] = queue[i]]
       /\ pendingStart' = pendingStart \cup {w}
       /\ TakeLocks(queue[i])
       /\ Becomes(w, "starting")
  /\ UNCHANGED <<pc, enqueued, batch, testVars, pendingJobs, ready, quitting, killedForTimeout,
                 step, running, history, overdue, streamsClosed, startVars,
                 current, commands, output, ran>>

\* The system refuses the process, or, a bound of the model, every slot is in
\* use: the job goes back and the turn goes on.
SpawnFails ==
  /\ pc = "dispatch" /\ ~stopping
  /\ \E i \in DOMAIN queue :
       /\ TakesRunnable(i) /\ ~CanShare(queue[i]) /\ Room
       /\ PutBack(i)
  /\ \/ /\ "spawn" \in Faults /\ ~infrastructureFailed
        /\ startupFailures' = startupFailures + 1
        /\ infrastructureFailed' = (startupFailures + 1 >= StartupFailuresToGiveUp)
     \/ (infrastructureFailed \/ workers = Slots) /\ UNCHANGED startVars
  /\ pc' = "start"
  /\ UNCHANGED <<enqueued, batch, testVars, pendingJobs, workerVars, lockVars, processVars>>

DispatchEnds ==
  /\ pc = "dispatch"
  /\ stopping \/ ~\E i \in DOMAIN queue : TakesRunnable(i)
  /\ pc' = "start"
  /\ UNCHANGED <<enqueued, batch, testVars, queueVars, workerVars, lockVars, startVars,
                 processVars>>
-----------------------------------------------------------------------------
(***************************************************************************)
(* The rest of a turn.                                                     *)
(***************************************************************************)

Startable == pendingStart \cap ready

\* Scheduler::StartPending, one worker at a time.
StartPending ==
  /\ pc = "start"
  /\ \E w \in Startable :
       /\ pendingStart' = pendingStart \ {w}
       /\ StartStep(w, job[w], step[w])
  /\ UNCHANGED <<pc, enqueued, batch, testVars, queueVars, workers, flagVars, job, step, history,
                 streamsClosed, lockVars, startVars, process, current, output, ran>>

\* Idle workers with nothing left to do go home, and the run may be done.
SendHome ==
  /\ pc = "start" /\ Startable = {}
  /\ SendQuit(IF queue = <<>> THEN Jobless \cap ready ELSE {})
  /\ pc' = IF workers = {} /\ (infrastructureFailed \/ stopping \/ queue = <<>>)
           THEN "done" ELSE "wait"
  /\ UNCHANGED <<enqueued, batch, testVars, queueVars, workers, ready, dedicated,
                 killedForTimeout, job, step, running, history, overdue, streamsClosed,
                 pendingStart, lockVars, startVars, process, current, output, ran>>

\* The loop wakes for an event, at a deadline and twice a second.  Turns that
\* would find nothing to do are left out.
FindsWork ==
  \/ \E w \in Slots : output[w] # <<>>
  \/ overdue # {}
  \/ (stopping \/ infrastructureFailed) /\ queue # <<>>
  \/ \E i \in DOMAIN queue :
       TakesRunnable(i) /\ (CanShare(queue[i]) \/ (Room /\ workers # Slots))

TakeEvents ==
  /\ pc = "wait" /\ FindsWork
  /\ batch' = output
  /\ output' = [w \in Slots |-> <<>>]
  /\ pc' = "handle"
  /\ UNCHANGED <<enqueued, testVars, queueVars, workerVars, lockVars, startVars,
                 process, current, commands, ran>>

Kill(some) ==
  process' = [w \in Slots |->
    IF w \in some /\ process[w] \notin {"none", "gone"} THEN "killed" ELSE process[w]]

NextEvent(w, kind) == pc = "handle" /\ batch[w] # <<>> /\ Head(batch[w]).kind = kind
DropEvent(w) == batch' = [batch EXCEPT ![w] = Tail(@)]

\* HandleLine, "hello": the worker is ready, unless it sees other tests.
HandleHello(w) ==
  /\ NextEvent(w, "hello") /\ DropEvent(w)
  /\ IF Head(batch[w]).is = "same"
     THEN /\ ready' = ready \cup {w}
          /\ startupFailures' = 0
          /\ overdue' = overdue \ {w}
          /\ UNCHANGED <<quitting, process>>
     ELSE /\ quitting' = quitting \cup {w}
          /\ Kill({w})
          /\ UNCHANGED <<ready, startupFailures, overdue>>
  /\ UNCHANGED <<pc, enqueued, testVars, queueVars, workers, dedicated, killedForTimeout, job,
                 step, running, history, streamsClosed, pendingStart, lockVars,
                 infrastructureFailed, current, commands, output, ran>>

IsRunning(w) == running[w] # NotRunning

\* Mutant: the report is not remembered.
HandleFatal_Forgets(w) ==
  /\ NextEvent(w, "fatal") /\ DropEvent(w)
  /\ UNCHANGED <<pc, enqueued, testVars, queueVars, workerVars, lockVars, startVars, processVars>>

\* HandleLine, "fatal", and the messages that change nothing: any but the
\* greeting without a test, and an "end" after "fatal", which leaves the
\* attempt to the exit of the worker.
HandleFatal(w) ==
  /\ NextEvent(w, "fatal") /\ DropEvent(w)
  /\ running' = IF IsRunning(w) THEN [running EXCEPT ![w].fatal = TRUE] ELSE running
  /\ UNCHANGED <<pc, enqueued, testVars, queueVars, workers, flagVars, job, step, history,
                 overdue, streamsClosed, pendingStart, lockVars, startVars, processVars>>
IgnoreEnd(w) ==
  /\ NextEvent(w, "end") /\ DropEvent(w)
  /\ ~IsRunning(w) \/ running[w].fatal
  /\ UNCHANGED <<pc, enqueued, testVars, queueVars, workerVars, lockVars, startVars, processVars>>

\* Mutant: the test before the target is not added to the history.
HandleStepEnd_Forgets(w) ==
  /\ NextEvent(w, "end") /\ DropEvent(w)
  /\ IsRunning(w) /\ ~running[w].fatal /\ ~running[w].target
  /\ step' = [step EXCEPT ![w] = @ + 1]
  /\ StartStep(w, job[w], step[w] + 1)
  /\ UNCHANGED <<pc, enqueued, testVars, queueVars, workers, flagVars, job, history, streamsClosed,
                 pendingStart, lockVars, startVars, process, current, output, ran>>

\* HandleLine, "end", and StepEnded for a test before the target.
HandleStepEnd(w) ==
  /\ NextEvent(w, "end") /\ DropEvent(w)
  /\ IsRunning(w) /\ ~running[w].fatal /\ ~running[w].target
  /\ history' = [history EXCEPT ![w] = Append(@, running[w].test)]
  /\ step' = [step EXCEPT ![w] = @ + 1]
  /\ StartStep(w, job[w], step[w] + 1)
  /\ UNCHANGED <<pc, enqueued, testVars, queueVars, workers, flagVars, job, streamsClosed,
                 pendingStart, lockVars, startVars, process, current, output, ran>>

\* HandleLine, "end", and StepEnded for the target.  A dedicated worker quits.
HandleTargetEnd(w) ==
  /\ NextEvent(w, "end") /\ DropEvent(w)
  /\ IsRunning(w) /\ ~running[w].fatal /\ running[w].target
  /\ Complete(w, Head(batch[w]).is)
  /\ ReleaseLocks(w)
  /\ job' = [job EXCEPT ![w] = NoJob]
  /\ running' = [running EXCEPT ![w] = NotRunning]
  /\ history' = [history EXCEPT ![w] = Append(@, running[w].test)]
  /\ overdue' = overdue \ {w}
  /\ SendQuit({w} \cap dedicated)
  /\ UNCHANGED <<pc, enqueued, workers, ready, dedicated, killedForTimeout, step, streamsClosed,
                 pendingStart, startVars, process, current, output, ran>>

HandleClosed(w) ==
  /\ NextEvent(w, "closed") /\ DropEvent(w)
  /\ streamsClosed' = streamsClosed \cup {w}
  /\ UNCHANGED <<pc, enqueued, testVars, queueVars, workers, flagVars, job, step, running,
                 history, overdue, pendingStart, lockVars, startVars, processVars>>

\* Scheduler::CheckDeadlines, once the events are handled.  Time limits: that
\* of the running test, and 60 seconds for the greeting.
CheckDeadlines ==
  /\ pc = "handle" /\ \A w \in Slots : batch[w] = <<>>
  /\ LET timedOut == {w \in overdue : IsRunning(w) /\ w \notin killedForTimeout}
         silent == {w \in overdue \ timedOut : w \notin ready /\ w \notin quitting}
     IN /\ killedForTimeout' = killedForTimeout \cup timedOut
        /\ quitting' = quitting \cup timedOut \cup silent
        /\ Kill(timedOut \cup silent)
  /\ overdue' = {}
  /\ pc' = "reap"
  /\ UNCHANGED <<enqueued, batch, testVars, queueVars, workers, ready, dedicated, job, step,
                 running, history, streamsClosed, pendingStart, lockVars, startVars, current,
                 commands, output, ran>>

\* The slot of a worker that was erased is free again.
Vacate(w) ==
  /\ workers' = workers \ {w} /\ ready' = ready \ {w} /\ dedicated' = dedicated \ {w}
  /\ quitting' = quitting \ {w} /\ killedForTimeout' = killedForTimeout \ {w}
  /\ overdue' = overdue \ {w} /\ streamsClosed' = streamsClosed \ {w}
  /\ pendingStart' = pendingStart \ {w}
  /\ job' = [job EXCEPT ![w] = NoJob]
  /\ step' = [step EXCEPT ![w] = 0]
  /\ running' = [running EXCEPT ![w] = NotRunning]
  /\ history' = [history EXCEPT ![w] = <<>>]
  /\ Becomes(w, "none")
  /\ current' = [current EXCEPT ![w] = NoTest]
  /\ commands' = [commands EXCEPT ![w] = <<>>]
  /\ ran' = [ran EXCEPT ![w] = <<>>]

\* Mutant: it is not counted.
CountStartupFailure_Never(w) == UNCHANGED startVars

\* A worker that never said hello failed to start, unless the run was ending.
CountStartupFailure(w) ==
  IF w \notin ready /\ ~stopping /\ ~infrastructureFailed
  THEN /\ startupFailures' = startupFailures + 1
       /\ infrastructureFailed' = (startupFailures' >= StartupFailuresToGiveUp)
  ELSE UNCHANGED startVars

\* Scheduler::WorkerEnded and Reap, for a worker whose streams have closed.
\* Its target ended with it; a job that died before its target starts over
\* elsewhere, but a probe counts as one that did not fail.
WorkerEnded(w) ==
  /\ pc = "reap" /\ w \in streamsClosed
  /\ CountStartupFailure(w)
  /\ LET t == job[w].test
         pending == [pendingJobs EXCEPT ![t] = @ - 1]
         startsOver == IF IsRunning(w) THEN job[w].kind # "probe" ELSE ~infrastructureFailed'
     IN \/ /\ running[w].target
           /\ Complete(w, IF w \in killedForTimeout THEN "timed-out" ELSE "crashed")
        \/ /\ ~running[w].target /\ IsRunning(w) /\ job[w].kind = "probe"
           /\ ProbeEnded(t, FALSE, pending)
           /\ UNCHANGED <<attempts, repeatsLeft, retriesUsed, retryBudget>>
        \/ /\ ~running[w].target /\ job[w] # NoJob /\ startsOver
           /\ Enqueue(job[w], attempts[t], pending)
           /\ UNCHANGED testVars
        \/ /\ ~IsRunning(w) /\ job[w] # NoJob /\ ~startsOver
           /\ pendingJobs' = pending
           /\ UNCHANGED <<queue, testVars>>
        \/ job[w] = NoJob /\ UNCHANGED <<queueVars, testVars>>
  /\ IF job[w] = NoJob THEN UNCHANGED lockVars ELSE ReleaseLocks(w)
  /\ Vacate(w)
  /\ UNCHANGED <<pc, enqueued, batch, output>>

\* Mutant: the run ends with the last worker, whatever is queued.
EndTurn_Early ==
  /\ pc = "reap" /\ streamsClosed = {}
  /\ pc' = IF workers = {} THEN "done" ELSE "settle"
  /\ UNCHANGED <<enqueued, batch, testVars, queueVars, workerVars, lockVars, startVars,
                 processVars>>

EndTurn ==
  /\ pc = "reap" /\ streamsClosed = {}
  /\ pc' = IF workers = {} /\ queue = <<>> THEN "done" ELSE "settle"
  /\ UNCHANGED <<enqueued, batch, testVars, queueVars, workerVars, lockVars, startVars,
                 processVars>>
-----------------------------------------------------------------------------
(***************************************************************************)
(* The clock: the current limit of worker w passes, because its process    *)
(* hangs or because what it does may take longer: a slow test, a slow      *)
(* start.                                                                  *)
(***************************************************************************)
LimitPasses(w) ==
  /\ w \in workers \ overdue
  /\ \/ /\ running[w].target /\ running[w].test \in Limited
        /\ w \notin killedForTimeout
        /\ (running[w].test \in Slow \/ process[w] = "hung")
     \/ /\ w \notin ready /\ w \notin quitting
        /\ ("slow" \in Faults \/ process[w] = "hung")
  /\ overdue' = overdue \cup {w}
  /\ UNCHANGED <<pc, enqueued, batch, testVars, queueVars, workers, flagVars, job, step, running,
                 history, streamsClosed, pendingStart, lockVars, startVars, processVars>>

WorkerStep(w) ==
  /\ ProcessStep(w)
  /\ UNCHANGED <<pc, enqueued, batch, testVars, queueVars, workerVars, lockVars, startVars>>

Handle(w) ==
  \/ HandleHello(w) \/ HandleFatal(w) \/ IgnoreEnd(w) \/ HandleStepEnd(w)
  \/ HandleTargetEnd(w) \/ HandleClosed(w)

LoopStep ==
  \/ EnqueuePlanned \/ StartLoop \/ SettleBlocked \/ DrainQueue
  \/ Assign \/ MakeRoom \/ Spawn \/ SpawnFails \/ DispatchEnds
  \/ StartPending \/ SendHome \/ TakeEvents
  \/ \E w \in Slots : Handle(w)
  \/ CheckDeadlines
  \/ \E w \in Slots : WorkerEnded(w)
  \/ EndTurn

Terminated == pc = "done" /\ UNCHANGED vars

Next ==
  \/ LoopStep
  \/ \E w \in Slots : WorkerStep(w) \/ LimitPasses(w)
  \/ Terminated

Spec == Init /\ [][Next]_vars

(***************************************************************************)
(* Fairness.  The loop goes on while it has something to do (it never      *)
(* waits for longer than half a second), a process that can go on does so, *)
(* and time passes.  Nothing has to die while it is idle, and no process   *)
(* has to fail to start.                                                   *)
(***************************************************************************)
Progress(w) ==
  /\ \/ Greets(w) \/ TakesRun(w) \/ TakesQuit(w) \/ EndsTest(w) \/ Crashes(w)
     \/ ReportsFatal(w) \/ Raises(w) \/ Hangs(w) \/ StreamsClose(w)
  /\ UNCHANGED <<pc, enqueued, batch, testVars, queueVars, workerVars, lockVars, startVars>>

Fairness ==
  /\ WF_vars(LoopStep)
  /\ \A w \in Slots : WF_vars(Progress(w)) /\ WF_vars(LimitPasses(w))

FairSpec == Spec /\ Fairness
=============================================================================
