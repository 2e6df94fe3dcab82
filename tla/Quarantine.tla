----------------------------- MODULE Quarantine -----------------------------
(***************************************************************************)
(* What the history remembers of one test over many runs                   *)
(* (Runner/History.cpp), and what the planner of a run decides from it     *)
(* (Runner/Planner.cpp): whether an earlier pass stands.                   *)
(*                                                                         *)
(* A run reads the history when it plans and commits when it is over;      *)
(* other runs commit in between.  That commits do not disturb each other   *)
(* is the promise of RunLedger.  `binary' is the version of the test       *)
(* binary, and so the fingerprint of what a result depends on.             *)
(***************************************************************************)
EXTENDS Naturals, Integers, Sequences, FiniteSets

CONSTANTS
  Window, FlakyEventsToEnter, PassesToLeave,   \* QuarantinePolicy: 20, 2, 10
  RecordsPerTest,                              \* 50
  Binaries                                     \* versions of the binary

ASSUME PolicyAssumption ==
  /\ Window \in Nat \ {0} /\ FlakyEventsToEnter \in Nat \ {0} /\ PassesToLeave \in Nat \ {0}
  /\ RecordsPerTest \in Nat /\ RecordsPerTest > Window /\ Window > PassesToLeave

VARIABLES
  records,       \* TestHistory::records, the most recent last
  quarantined,   \* whether it has a QuarantineRecord
  lastFailure,   \* whether it has a ReplayRecord
  binary,        \* the version of the binary now
  plan,          \* what the run under way has decided
  lastReal       \* the latest result of a run that was committed

vars == <<records, quarantined, lastFailure, binary, plan, lastReal>>

Record(outcome, flaky, fingerprint) ==
  [outcome |-> outcome, flaky |-> flaky, fingerprint |-> fingerprint]
Tried == {"passed", "failed", "skipped"}
Recorded == Tried \cup {"blocked", "up-to-date"}
Records == [outcome : Recorded, flaky : BOOLEAN, fingerprint : Binaries]
NoRecord == Record("none", FALSE, CHOOSE b \in Binaries : TRUE)
Plans == {"none", "run", "keep"}

\* The type of what is remembered and planned.
QuarantineTypeOK ==
  /\ records \in Seq(Records) /\ Len(records) <= RecordsPerTest
  /\ quarantined \in BOOLEAN /\ lastFailure \in BOOLEAN
  /\ binary \in Binaries /\ plan \in Plans
  /\ lastReal \in Records \cup {NoRecord}

Init ==
  /\ records = <<>> /\ quarantined = FALSE /\ lastFailure = FALSE
  /\ binary \in Binaries
  /\ plan = "none" /\ lastReal = NoRecord
-----------------------------------------------------------------------------
\* Results of runs that did not reach the test say nothing about it.
Counts(record) == record.outcome \in Tried

IsFailure(record) == record.outcome = "failed"
CleanPass(record) == record.outcome = "passed" /\ ~record.flaky

\* The positions of s that count, and the one that counts after i.
Counted(s) == {i \in DOMAIN s : Counts(s[i])}
Later(s, i) == {k \in Counted(s) : k > i}
Newer(s, i) == CHOOSE k \in Later(s, i) : \A l \in Later(s, i) : k <= l

HasLast(s) == Counted(s) # {}
LastOf(s) == s[CHOOSE i \in Counted(s) : \A k \in Counted(s) : k <= i]

\* A flaky result, or a verdict that changed although nothing did that the
\* test depends on.
IsFlakyEvent(s, i) ==
  \/ s[i].flaky
  \/ /\ Later(s, i) # {}
     /\ LET newer == s[Newer(s, i)]
        IN /\ ~newer.flaky /\ s[i].fingerprint = newer.fingerprint
           /\ IsFailure(s[i]) # IsFailure(newer)

\* TestHistory::FlakyEvents, among the last Window results.
FlakyEvents(s) ==
  Cardinality({i \in Counted(s) : Cardinality(Later(s, i)) < Window /\ IsFlakyEvent(s, i)})

\* TestHistory::PassStreak.
PassStreak(s) ==
  Cardinality({i \in Counted(s) : \A k \in {i} \cup Later(s, i) : CleanPass(s[k])})

Remember(s, record) ==
  IF Len(s) < RecordsPerTest THEN Append(s, record) ELSE Append(Tail(s), record)

\* Mutant: one flaky event more is needed.
PutsIn_OneMore(s) == FlakyEvents(s) > FlakyEventsToEnter
PutsIn(s) == FlakyEvents(s) >= FlakyEventsToEnter
\* Mutant: a longer streak does not let it out.
LetsOut_Exactly(s) == PassStreak(s) = PassesToLeave
LetsOut(s) == PassStreak(s) >= PassesToLeave

\* Mutant: only a failure is worth a replay, not a flaky result.
Replay_NotFlaky(record, before) ==
  IF IsFailure(record) THEN TRUE
  ELSE IF record.outcome = "passed" THEN FALSE ELSE before
Replay(record, before) ==
  IF IsFailure(record) \/ record.flaky THEN TRUE
  ELSE IF record.outcome = "passed" THEN FALSE ELSE before

\* History::Apply, for one test.
Apply(record) ==
  /\ records' = Remember(records, record)
  /\ lastFailure' = Replay(record, lastFailure)
  /\ quarantined' = IF quarantined THEN ~LetsOut(records') ELSE PutsIn(records')
  /\ lastReal' = IF Counts(record) THEN record ELSE lastReal
-----------------------------------------------------------------------------
\* Mutant: an earlier result stands although it was flaky.
Keeps_Flaky(quarantineOff) ==
  /\ HasLast(records) /\ LastOf(records).outcome = "passed" /\ LastOf(records).fingerprint = binary
  /\ quarantined => quarantineOff

\* MakePlan, with --incremental: the earlier result stands.
Keeps(quarantineOff) ==
  /\ HasLast(records)
  /\ CleanPass(LastOf(records)) /\ LastOf(records).fingerprint = binary
  /\ quarantined => quarantineOff

\* A run plans, with --incremental or without, --quarantine=off or not.
Plan ==
  /\ plan = "none"
  /\ plan' \in {"run"} \cup {IF Keeps(off) THEN "keep" ELSE "run" : off \in BOOLEAN}
  /\ UNCHANGED <<records, quarantined, lastFailure, binary, lastReal>>

\* What a run may find: flaky means that it passed in the end.
Results ==
  {Record(outcome, FALSE, binary) : outcome \in Tried \cup {"blocked"}}
    \cup {Record("passed", TRUE, binary)}

\* The run is over and is committed; a test that was not reached leaves no
\* record.
Commit ==
  /\ plan # "none"
  /\ plan' = "none"
  /\ \/ plan = "keep" /\ Apply(Record("up-to-date", FALSE, binary))
     \/ plan = "run" /\ \E record \in Results : Apply(record)
     \/ UNCHANGED <<records, quarantined, lastFailure, lastReal>>
  /\ UNCHANGED binary

\* Another run commits while this one is under way.
OtherCommits ==
  /\ plan # "none"
  /\ \E record \in Results : Apply(record)
  /\ UNCHANGED <<binary, plan>>

Rebuild ==
  /\ plan = "none"
  /\ binary' \in Binaries \ {binary}
  /\ UNCHANGED <<records, quarantined, lastFailure, plan, lastReal>>

Next == Plan \/ Commit \/ OtherCommits \/ Rebuild

Spec == Init /\ [][Next]_vars
-----------------------------------------------------------------------------
(***************************************************************************)
(* Properties.                                                             *)
(***************************************************************************)

\* A test whose remembered results are flaky is in quarantine, unless they
\* end with the passes that let it out (History::Apply): what a record does
\* to the events, to the streak and to the quarantine fits together, also
\* when it does not count or drives an old one out.
FlakyIsQuarantined ==
  FlakyEvents(records) >= FlakyEventsToEnter =>
    quarantined \/ PassStreak(records) >= PassesToLeave

\* A test that has passed cleanly through a whole window is out of quarantine.
PassesRelease ==
  PassStreak(records) >= Window => ~quarantined

\* --replay finds a failure, or a flaky result, exactly until the test passes
\* cleanly: also when records are forgotten or the test is not reached.
ReplayFitsLast ==
  lastReal # NoRecord =>
    /\ IsFailure(lastReal) \/ lastReal.flaky => lastFailure
    /\ CleanPass(lastReal) => ~lastFailure

\* A test is reported as up to date only if the latest result of it that is
\* known was a clean pass of this very binary (--incremental).
KeptOnlyIfPassed ==
  [][plan = "none" /\ plan' = "keep" =>
       lastReal # NoRecord /\ CleanPass(lastReal) /\ lastReal.fingerprint = binary]_vars

\* "Ten clean passes in a row release it." (docs/progmasoft-runner.md): a test
\* that is released and then passes again stays out.
ReleasedStaysOut ==
  [][~quarantined /\ PassStreak(records) >= PassesToLeave
       /\ PassStreak(records') > PassStreak(records) => ~quarantined']_vars
=============================================================================
