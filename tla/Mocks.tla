------------------------------- MODULE Mocks --------------------------------
(***************************************************************************)
(* Mocks (Mock.cpp, Catch3/Mock.hpp): expectations with call counts, in    *)
(* sequences that span mocks, called and verified from several threads.    *)
(*                                                                         *)
(* Expectations are numbered in the order they are declared, which is also *)
(* the order of the steps of a sequence.  One lock is held while a call is *)
(* decided, so a decision is one step; its failure is reported in another, *)
(* without the lock.  A mock that is verified gives its expectations away  *)
(* under the lock; they are judged, and then destroyed, one by one without *)
(* it, and sequences find them until then.  An expectation is declared     *)
(* with everything that is asked of it in one step: nothing calls the mock *)
(* during that statement.  A test that is left by an exception is not      *)
(* verified and not modelled.  Threads report failures at the same time,   *)
(* as they may with CATCH_CONFIG_EXPERIMENTAL_THREAD_SAFE_ASSERTIONS.      *)
(***************************************************************************)
EXTENDS Integers, Sequences, FiniteSetsExt

CONSTANTS
  Threads,          \* that of the test, and others
  Calls,            \* <<mock, arguments>>
  Declarations,     \* [mock, accepts, minimum, maximum, sequences]: what a test may expect
  MaxExpectations,  \* bound: expectations a test declares
  MaxCalls          \* bound: calls it makes

ASSUME MocksAssumption ==
  /\ \A d \in Declarations :
       /\ d.accepts \subseteq Calls /\ \A c \in d.accepts : c[1] = d.mock
       /\ d.minimum \in Nat /\ d.maximum \in Nat /\ d.minimum <= d.maximum
  /\ MaxExpectations \in Nat /\ MaxCalls \in Nat

MockNames == {d.mock : d \in Declarations}
SequenceNames == UNION {d.sequences : d \in Declarations}
Refused == 0

VARIABLES
  expectations,  \* all that were declared
  calls,         \* expectation -> Calls
  retired,       \* the Retired ones
  gone,          \* those a verification took out of their mocks
  checked,       \* thread -> those it verifies: they are not destroyed yet
  judged,        \* those whose verification is reported
  current,       \* sequence -> the step it is at, 0 before the first
  reporting,     \* threads with a failure still to report
  failures,      \* failures of the test case that mocks reported
  history        \* the calls so far, each with the expectation that took it

verifyVars == <<gone, checked, judged>>
vars == <<expectations, calls, retired, verifyVars, current, reporting, failures, history>>

Init ==
  /\ expectations = <<>> /\ calls = <<>>
  /\ retired = {} /\ gone = {} /\ judged = {}
  /\ checked = [t \in Threads |-> {}]
  /\ current = [s \in SequenceNames |-> 0]
  /\ reporting = {} /\ failures = 0
  /\ history = <<>>

Satisfied(e) == calls[e] >= expectations[e].minimum
Available(e) == e \notin retired /\ calls[e] < expectations[e].maximum
Live == DOMAIN expectations \ gone

\* Those whose state a sequence still finds.
Held == Live \cup UNION {checked[t] : t \in Threads}
Accepts(e, call) == call \in expectations[e].accepts

\* Whether a thread is in the code of the test.
Free(t) == t \notin reporting /\ checked[t] = {}

\* CATCH3_EXPECT_CALL with what its result is asked for.
Declare(t) ==
  /\ Free(t) /\ Len(expectations) < MaxExpectations
  /\ \E d \in Declarations : expectations' = Append(expectations, d)
  /\ calls' = Append(calls, 0)
  /\ UNCHANGED <<retired, verifyVars, current, reporting, failures, history>>

-----------------------------------------------------------------------------
\* The steps of a sequence that a call of step e passes.
Passes(e, s) ==
  {f \in Held : s \in expectations[f].sequences /\ current[s] <= f /\ f < e}

Entered(e) == {s \in expectations[e].sequences : current[s] <= e}

\* Mutant: only the step just before is looked at.
Undone_Last(e) ==
  \E s \in Entered(e) : \E f \in Passes(e, s) : f = Max(Passes(e, s)) /\ ~Satisfied(f)

\* Whether Enter leaves a step undone that should have come before.
Undone(e) == \E s \in Entered(e) : \E f \in Passes(e, s) : ~Satisfied(f)

\* Mutant: steps that had their calls are not retired.
Enter_Unsatisfied(e) ==
  /\ current' = [s \in SequenceNames |-> IF s \in Entered(e) THEN e ELSE current[s]]
  /\ retired' = retired \cup
       {f \in UNION {Passes(e, s) : s \in Entered(e)} : ~Satisfied(f)}

\* MockSequence::Enter, for every sequence of e: the steps before e are retired.
Enter(e) ==
  /\ current' = [s \in SequenceNames |-> IF s \in Entered(e) THEN e ELSE current[s]]
  /\ retired' = retired \cup UNION {Passes(e, s) : s \in Entered(e)}

Reports(t) == reporting' = reporting \cup {t}
Remembers(call, e) ==
  history' = Append(history, [call |-> call, taken |-> e,
                              declared |-> Len(expectations),
                              gone |-> gone, held |-> Held])

Take(t, call, e) ==
  /\ calls' = [calls EXCEPT ![e] = @ + 1]
  /\ Enter(e)
  /\ IF Undone(e) THEN Reports(t) ELSE UNCHANGED reporting
  /\ Remembers(call, e)

Refuse(t, call) ==
  /\ Reports(t) /\ Remembers(call, Refused)
  /\ UNCHANGED <<calls, current, retired>>

\* A call goes to the first expectation that accepts it and can take it.
Decide(t, call) ==
  LET takers == {e \in Live : Accepts(e, call) /\ Available(e)}
  IN /\ Free(t) /\ Len(history) < MaxCalls
     /\ IF takers = {} THEN Refuse(t, call) ELSE Take(t, call, Min(takers))
     /\ UNCHANGED <<expectations, verifyVars, failures>>

\* The failure of a call fails the test case, and the call goes on.
ReportMockFailure(t) ==
  /\ t \in reporting
  /\ failures' = failures + 1 /\ reporting' = reporting \ {t}
  /\ UNCHANGED <<expectations, calls, retired, verifyVars, current, history>>

\* Verify, and the destructor: the mock gives its expectations away ...
VerifyAll(t, mock) ==
  LET swapped == {e \in Live : expectations[e].mock = mock}
  IN /\ Free(t) /\ swapped # {}
     /\ gone' = gone \cup swapped
     /\ checked' = [checked EXCEPT ![t] = swapped]
     /\ UNCHANGED <<expectations, calls, retired, judged, current, reporting, failures, history>>

\* ... each is judged, in the order they were declared ...
Judge(t) ==
  LET unjudged == checked[t] \ judged
  IN /\ unjudged # {}
     /\ judged' = judged \cup {Min(unjudged)}
     /\ failures' = IF Satisfied(Min(unjudged)) THEN failures ELSE failures + 1
     /\ UNCHANGED <<expectations, calls, retired, gone, checked, current, reporting, history>>

\* ... and destroyed, in an order the library chooses.  A call that meets the
\* states of a vector in the middle of this sees those of some such order.
Destroy(t) ==
  /\ checked[t] \subseteq judged
  /\ \E e \in checked[t] : checked' = [checked EXCEPT ![t] = @ \ {e}]
  /\ UNCHANGED <<expectations, calls, retired, gone, judged, current, reporting, failures, history>>

\* The test has joined its threads, and its mocks are gone.
Ended == Live = {} /\ \A t \in Threads : Free(t)

Next ==
  \/ \E t \in Threads :
       \/ Declare(t) \/ ReportMockFailure(t) \/ Judge(t) \/ Destroy(t)
       \/ \E call \in Calls : Decide(t, call)
       \/ \E mock \in MockNames : VerifyAll(t, mock)
  \/ Ended /\ UNCHANGED vars

Spec == Init /\ [][Next]_vars
-----------------------------------------------------------------------------
(* Properties.  They are stated over the calls alone: who took them, and   *)
(* what was declared and verified by then.                                 *)

CountBefore(e, i) == Cardinality({k \in 1..(i - 1) : history[k].taken = e})
InOrder(f, e, s) == f < e /\ s \in expectations[f].sequences \cap expectations[e].sequences
PassedBefore(f, s, i) ==
  \E k \in 1..(i - 1) : history[k].taken # Refused /\ InOrder(f, history[k].taken, s)
ExpectedAt(i) == (1..history[i].declared) \ history[i].gone

\* "A call goes to the first expectation, in the order they were declared,
\* that accepts its arguments and can take another call", "a step that is
\* passed takes no more calls", and only a call that no expectation can take
\* is refused; whichever thread called, whatever was verified in between and
\* however many sequences a step is in.
CallsGoToFirst ==
  \A i \in DOMAIN history :
    LET takers == {e \in ExpectedAt(i) :
                     /\ Accepts(e, history[i].call)
                     /\ CountBefore(e, i) < expectations[e].maximum
                     /\ \A s \in expectations[e].sequences : ~PassedBefore(e, s, i)}
    IN history[i].taken = IF takers = {} THEN Refused ELSE Min(takers)

\* A test whose mocks are verified has a failure for each call that was
\* refused, for each that passed a step of a sequence before this step had
\* its calls, also if the step was just being verified, and for each
\* expectation that did not get its calls: none is lost, none is reported
\* twice, and there is no other.
EachFailureOnce ==
  LET refused == {i \in DOMAIN history : history[i].taken = Refused}
      early == {i \in DOMAIN history \ refused :
                  \E f \in history[i].held, s \in SequenceNames :
                    /\ InOrder(f, history[i].taken, s) /\ ~PassedBefore(f, s, i)
                    /\ CountBefore(f, i) < expectations[f].minimum}
      unmet == {e \in DOMAIN expectations :
                  CountBefore(e, Len(history) + 1) < expectations[e].minimum}
  IN Ended => failures = Cardinality(refused) + Cardinality(early) + Cardinality(unmet)
=============================================================================
