------------------------------ MODULE Outcomes ------------------------------
(***************************************************************************)
(* What the runner says of one attempt and of all attempts of a test:      *)
(* Results.cpp, and the verdict Scheduler::Finish gives.                   *)
(***************************************************************************)
EXTENDS Naturals, Sequences

Outcome ==
  {"passed", "failed", "failed-as-expected", "skipped", "crashed", "timed-out",
   "blocked", "not-run"}

IsFailure(outcome) == outcome \in {"failed", "crashed", "timed-out"}
Passing(outcome) == outcome \in {"passed", "failed-as-expected", "skipped"}
Satisfies(outcome) == outcome \in {"passed", "failed-as-expected"}

\* Mutant: quarantine does not excuse.
FailsRun_NoQuarantine(outcome, quarantined) ==
  outcome \in {"failed", "crashed", "timed-out", "blocked"}
FailsRun(outcome, quarantined) ==
  ~quarantined /\ outcome \in {"failed", "crashed", "timed-out", "blocked"}

Failures(attempts) == {i \in DOMAIN attempts : IsFailure(attempts[i].outcome)}
Passes(attempts) == {i \in DOMAIN attempts : Passing(attempts[i].outcome)}

FirstFailure(attempts) ==
  attempts[CHOOSE i \in Failures(attempts) : \A k \in Failures(attempts) : i <= k]
LastPass(attempts) ==
  attempts[CHOOSE i \in Passes(attempts) : \A k \in Passes(attempts) : k <= i]

\* The verdict over all attempts of a test that was tried.  A failure that
\* the probes reproduced counts; one that a later pass follows is flaky.
Flaky_Reproduced(attempts, reproduced) ==  \* mutant: the probes are ignored
  Failures(attempts) # {} /\ Passes(attempts) # {}
Flaky(attempts, reproduced) ==
  ~reproduced /\ Failures(attempts) # {} /\ Passes(attempts) # {}
Verdict(attempts, reproduced) ==
  IF reproduced /\ Failures(attempts) # {} THEN FirstFailure(attempts).outcome
  ELSE IF Flaky(attempts, reproduced) THEN LastPass(attempts).outcome
  ELSE attempts[Len(attempts)].outcome
=============================================================================
