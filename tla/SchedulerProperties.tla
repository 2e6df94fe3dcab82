------------------------ MODULE SchedulerProperties -------------------------
(***************************************************************************)
(* What the scheduler promises: the properties of module Scheduler.        *)
(***************************************************************************)
EXTENDS Scheduler

Searches ==
  [stage : {"none", "confirming", "searching", "done"}, candidates : Seq(Catalog),
   probing : Seq(Catalog), probes : Nat, culprit : Catalog \cup {NoTest},
   reproduced : BOOLEAN]
Attempts == [outcome : Outcome, precededBy : Seq(Catalog)]

LoopTypeOK ==
  /\ pc \in Phases /\ enqueued \in 0..Len(PlanOrder)
  /\ batch \in [Slots -> Seq(Messages)]
  /\ startupFailures \in Nat /\ infrastructureFailed \in BOOLEAN
QueueTypeOK == queue \in Seq(Jobs) /\ pendingJobs \in [Tests -> Int]
TestTypeOK ==
  /\ attempts \in [Tests -> Seq(Attempts)]
  /\ retriesUsed \in [Tests -> Nat] /\ repeatsLeft \in [Tests -> Nat]
  /\ bisection \in [Tests -> Searches] /\ retryBudget \in Nat
VerdictTypeOK ==
  /\ finished \in [Tests -> BOOLEAN] /\ flaky \in [Tests -> BOOLEAN]
  /\ verdict \in [Tests -> Outcome]
  /\ failedTests \in Nat /\ stopping \in BOOLEAN
WorkerTypeOK ==
  /\ workers \subseteq Slots
  /\ ready \subseteq workers /\ dedicated \subseteq workers /\ quitting \subseteq workers
  /\ killedForTimeout \subseteq workers /\ overdue \subseteq workers
  /\ streamsClosed \subseteq workers /\ pendingStart \subseteq workers
  /\ job \in [Slots -> Jobs \cup {NoJob}]
  /\ step \in [Slots -> Nat]
  /\ running \in [Slots -> [test : Catalog \cup {NoTest}, target : BOOLEAN, fatal : BOOLEAN]]
  /\ history \in [Slots -> Seq(Catalog)]
LockTypeOK ==
  /\ heldResources \subseteq UNION {Resources[t] : t \in Catalog}
  /\ serialRunning \in BOOLEAN

\* The type of every variable of the runner and of the processes.
TypeOK ==
  /\ ProcessTypeOK /\ LoopTypeOK /\ QueueTypeOK /\ TestTypeOK /\ VerdictTypeOK
  /\ WorkerTypeOK /\ LockTypeOK
-----------------------------------------------------------------------------
(***************************************************************************)
(* Jobs: nothing is lost, nothing runs twice.                              *)
(***************************************************************************)
Queued(t) == {i \in DOMAIN queue : queue[i].test = t}
Handed(t) == {w \in workers : job[w].test = t}
HasJob(t) == Queued(t) # {} \/ Handed(t) # {}
EnqueuedTests == {PlanOrder[i] : i \in 1..enqueued}

\* A test never has two jobs, in the queue or with workers, whatever mix of
\* repeats, retries, probes and jobs that start over it has been through, and
\* pendingJobs, which decides whether a blocked test is settled, counts them.
OneJobPerTest ==
  \A t \in Tests :
    /\ \A i, k \in Queued(t) : i = k
    /\ \A w, v \in Handed(t) : w = v
    /\ Queued(t) = {} \/ Handed(t) = {}
    /\ pendingJobs[t] = IF HasJob(t) THEN 1 ELSE 0

\* A test without a verdict is still to be done, until the run gives up: no
\* crash, failed start, timeout or blocked dependency makes the scheduler
\* forget it.  A test with a verdict has nothing left to do.
NoTestForgotten ==
  \A t \in EnqueuedTests :
    IF finished[t] THEN ~HasJob(t) ELSE HasJob(t) \/ stopping \/ infrastructureFailed

\* Attempts are accounted for: those made and the one under way are the
\* repeats and retries spent, also when jobs start over in another process,
\* and retries come out of one budget.
SpentRetries == Cardinality(UNION {{t} \X (1..retriesUsed[t]) : t \in Tests})
AttemptsAccounted ==
  /\ \A t \in EnqueuedTests :
       LET underWay == \/ \E i \in Queued(t) : queue[i].kind = "attempt"
                       \/ \E w \in Handed(t) : job[w].kind = "attempt"
           spent == Repeat - repeatsLeft[t] + retriesUsed[t]
       IN /\ Len(attempts[t]) + (IF underWay THEN 1 ELSE 0) <= spent
          /\ \/ Len(attempts[t]) + (IF underWay THEN 1 ELSE 0) = spent
             \/ verdict[t] = "blocked" \/ stopping \/ infrastructureFailed
          /\ retriesUsed[t] <= RetryLimit[t]
  /\ retryBudget + SpentRetries =
       IF Len(PlanOrder) \div 10 > RetryFloor THEN Len(PlanOrder) \div 10 ELSE RetryFloor

\* A verdict is final: a late message, a worker that ends later or a probe
\* changes neither the verdict of a test nor its attempts.
VerdictIsFinal ==
  [][\A t \in Tests : finished[t] =>
       /\ finished'[t] /\ verdict'[t] = verdict[t] /\ flaky'[t] = flaky[t]
       /\ attempts'[t] = attempts[t]]_vars
-----------------------------------------------------------------------------
(***************************************************************************)
(* Processes: what the runner believes of them is true, and what must not  *)
(* run together does not.                                                  *)
(***************************************************************************)
InTest(w) == current[w] # NoTest /\ process[w] \in {"running", "raising", "hung", "killed"}

\* A process that is inside a test is inside the test the runner charges with
\* its messages, its time limit and its exit, and has run the tests that the
\* runner believes it has run: what an attempt says it was preceded by, and so
\* what a bisection searches, is what happened.
BeliefIsTrue ==
  \A w \in Slots : InTest(w) =>
    /\ w \in workers /\ running[w].test = current[w]
    /\ history[w] = ran[w]

\* The locks that are held are those of the jobs that were handed out.
LocksMatchJobs ==
  /\ heldResources = UNION {Resources[job[w].test] : w \in Busy}
  /\ serialRunning <=> \E w \in Busy : job[w].test \in Serial

\* The jobs that were handed out are for tests that may run together: no two
\* share a resource, and a serial one is alone.
JobsExclusive ==
  \A w, v \in Busy : w # v =>
    /\ Resources[job[w].test] \cap Resources[job[v].test] = {}
    /\ job[w].test \notin Serial

\* Of the processes, too: tests that share a resource are never inside their
\* processes at the same time, and next to a serial test there is no other.
\* A process that was killed counts until its streams close.
Exclusion ==
  \A w, v \in Slots : w # v /\ InTest(w) /\ InTest(v) =>
    /\ Resources[current[w]] \cap Resources[current[v]] = {}
    /\ current[w] \notin Serial

\* No more tests run at a time than --jobs allows, although workers that quit
\* do not count any more when new ones start.  One that was killed for its time
\* limit does not count either: the next starts before its process is gone.
JobsLimit == Cardinality({w \in Slots : InTest(w) /\ process[w] # "killed"}) <= MaximumWorkers

\* A test that needs a process of its own never follows another test in it,
\* unless its job says so (a probe, a replay).
IsolatedAlone ==
  \A w \in Slots :
    InTest(w) /\ running[w].target /\ (job[w].test \in Isolated \/ Isolate \/ job[w].fresh)
      => ran[w] = job[w].before
-----------------------------------------------------------------------------
(***************************************************************************)
(* Verdicts.                                                               *)
(***************************************************************************)
Failing == {"failed", "crash", "fatal", "hang"}

\* A test starts only after all of its dependencies passed, the last retry
\* and probe of them included; it is blocked exactly when one did not, and
\* then it was not tried.
DependenciesRespected ==
  \A t \in Tests :
    LET failed == {d \in Dependencies[t] : finished[d] /\ ~Satisfies(verdict[d])}
        open == {d \in Dependencies[t] : ~finished[d]}
    IN /\ attempts[t] # <<>> \/ Handed(t) # {} => failed = {} /\ open = {}
       /\ verdict[t] = "blocked" => failed # {} /\ attempts[t] = <<>>
       /\ failed # {} /\ finished[t] => verdict[t] = "blocked"

\* Verdicts are true: a test is said to have failed only if it can fail, and
\* to have passed only if it can pass; what befalls a process outside of a test
\* and messages of other tests are not charged to it.
VerdictIsTrue ==
  \A t \in Tests :
    LET ends == EndsAlone[t] \cup EndsPolluted[t]
    IN /\ IsFailure(verdict[t]) => ends \cap Failing # {} \/ t \in Limited \cap Slow
       /\ Passing(verdict[t]) => ends \ Failing # {}

\* A test that passes alone and always fails after a certain other one is not
\* taken for a flaky one: its failure fails the run.  (Of a test that is to be
\* repeated differing verdicts are all that is asked.)
OrderBugIsNotFlaky ==
  \A t \in Tests :
    EndsAlone[t] = {"passed"} /\ EndsPolluted[t] = {"failed"}
      /\ BisectOrder /\ FailFast = 0 /\ Repeat = 1
    => ~flaky[t]

\* When such a failure was reproduced, the report names a test that leaves
\* state behind, unless the probes were spent before one test was left.
CulpritIsPolluter ==
  \A t \in Tests :
    LET search == bisection[t]
    IN /\ EndsAlone[t] = {"passed"} /\ EndsPolluted[t] = {"failed"}
       /\ search.stage = "done" /\ search.reproduced
       => \/ search.culprit \in Polluters[t]
          \/ search.culprit = NoTest /\ search.probes >= MaximumProbes
-----------------------------------------------------------------------------
(***************************************************************************)
(* The end of the run.                                                     *)
(***************************************************************************)

\* When the run is over no process is left and no lock is held, and unless the
\* run gave up or stopped every test has a verdict and no job is left.
CleanEnd ==
  pc = "done" =>
    /\ workers = {} /\ \A w \in Slots : process[w] = "none"
    /\ heldResources = {} /\ ~serialRunning
    /\ infrastructureFailed \/ (queue = <<>> /\ \A t \in Tests : pendingJobs[t] = 0)
    /\ infrastructureFailed \/ stopping \/ \A t \in Tests : finished[t]

\* The run stops early exactly when enough tests failed it; failures in
\* quarantine and retries that are still open do not count.
StopsForCause ==
  LET failed == {t \in Tests \ Quarantined : IsFailure(verdict[t]) \/ verdict[t] = "blocked"}
  IN /\ failedTests = Cardinality(failed)
     /\ stopping <=> FailFast > 0 /\ Cardinality(failed) >= FailFast

\* Once the run stops, no further job is handed out, and no retry is spent.
StopHandsOutNothing ==
  [][stopping => /\ \A w \in Slots : job'[w] \in {job[w], NoJob}
                 /\ retryBudget' = retryBudget]_vars

\* The run ends.
RunEnds == <>(pc = "done")
-----------------------------------------------------------------------------
(***************************************************************************)
(* What the documentation says and the code does not do.                   *)
(***************************************************************************)

\* "start no test after N failed tests" (docs/command-line.md).
StartsNothingAfterStop ==
  [][stopping => \A w \in Slots : running'[w].target => running[w].target]_vars

\* A test that is reported as not run was not reached (Catch3/Results.hpp).
NotRunMeansNotReached ==
  \A t \in Tests : pc = "done" /\ verdict[t] = "not-run" => attempts[t] = <<>>

\* A test that hangs past its time limit is ended (docs/progmasoft-runner.md).
HangIsStopped ==
  \A w \in Slots :
    process[w] = "hung" /\ current[w] \in Limited ~> process[w] # "hung"
=============================================================================
