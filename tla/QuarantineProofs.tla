-------------------------- MODULE QuarantineProofs --------------------------
(***************************************************************************)
(* What is remembered of a test fits what happened to it, for every policy *)
(* and any number of runs.                                                 *)
(***************************************************************************)
EXTENDS Quarantine, FiniteSetTheorems, WellFoundedInduction, TLAPS

\* A set of naturals has a least element.
LEMMA LeastExists ==
  ASSUME NEW S \in SUBSET Nat, S # {}
  PROVE  \E i \in S : \A k \in S : i <= k
<1>1. PICK i \in S : \A k \in S : <<k, i>> \notin OpToRel(<, Nat)
  BY NatLessThanWellFounded, WFMin
<1>2. \A k \in S : ~(k < i)
  BY <1>1 DEF OpToRel
<1> QED
  BY <1>2

\* A set of positions of a sequence has a greatest element.
LEMMA GreatestExists ==
  ASSUME NEW n \in Nat, NEW S \in SUBSET (1..n), S # {}
  PROVE  \E i \in S : \A k \in S : k <= i
<1> DEFINE Bounds == {m \in Nat : \A k \in S : k <= m}
<1>1. n \in Bounds
  OBVIOUS
<1>2. PICK m \in Bounds : \A b \in Bounds : m <= b
  BY <1>1, LeastExists
<1>3. SUFFICES ASSUME m \notin S PROVE FALSE
  BY <1>2
<1>4. \A k \in S : k \in Nat /\ 1 <= k /\ k <= m - 1
  BY <1>3
<1>5. m - 1 \in Nat
  <2>1. PICK k : k \in S
    OBVIOUS
  <2>2. k \in Nat /\ 1 <= k /\ k <= m - 1 /\ m \in Nat
    BY <1>4, <2>1
  <2> QED
    BY <2>2
<1>6. m - 1 \in Bounds
  BY <1>4, <1>5
<1> QED
  BY <1>2, <1>6

\* The latest result that is still remembered is the latest there was.
LastIsReal == HasLast(records) => LastOf(records) = lastReal

MemoryInv == QuarantineTypeOK /\ LastIsReal

\* What Apply is called with: only what counts can be flaky.
Applicable(record) == record \in Records /\ (Counts(record) \/ ~record.flaky)

\* What is remembered is a sequence of records that ends in the new one, and
\* no longer than allowed.
LEMMA RememberType ==
  ASSUME NEW s \in Seq(Records), Len(s) <= RecordsPerTest, NEW record \in Records
  PROVE  /\ Remember(s, record) \in Seq(Records)
         /\ Len(Remember(s, record)) \in 1..RecordsPerTest
         /\ Remember(s, record)[Len(Remember(s, record))] = record
<1>1. CASE Len(s) < RecordsPerTest
  BY <1>1, PolicyAssumption DEF Remember
<1>2. CASE ~(Len(s) < RecordsPerTest)
  <2>1. s # <<>> /\ Len(s) = RecordsPerTest
    BY <1>2, PolicyAssumption
  <2>2. Tail(s) \in Seq(Records) /\ Len(Tail(s)) = Len(s) - 1
    BY <2>1
  <2> QED BY <1>2, <2>1, <2>2, PolicyAssumption DEF Remember
<1> QED BY <1>1, <1>2

\* A position that is the greatest of those that count is the last one.
LEMMA LastIsGreatest ==
  ASSUME NEW s \in Seq(Records), NEW i \in Counted(s), \A k \in Counted(s) : k <= i
  PROVE  HasLast(s) /\ LastOf(s) = s[i]
<1>1. \A k \in Counted(s) : k \in Int
  BY DEF Counted
<1>2. \A l \in Counted(s) : (\A k \in Counted(s) : k <= l) => l = i
  BY <1>1
<1> QED BY <1>2 DEF HasLast, LastOf

\* There is such a position.
LEMMA LastExists ==
  ASSUME NEW s \in Seq(Records), HasLast(s)
  PROVE  \E i \in Counted(s) : \A k \in Counted(s) : k <= i
<1>1. Len(s) \in Nat /\ Counted(s) \in SUBSET (1..Len(s)) /\ Counted(s) # {}
  BY DEF Counted, HasLast
<1> QED BY <1>1, GreatestExists

\* A result that counts is the latest one; others leave it as it was, or
\* push it out.
LEMMA RememberLast ==
  ASSUME NEW s \in Seq(Records), Len(s) <= RecordsPerTest, NEW record \in Records
  PROVE  LET t == Remember(s, record)
         IN /\ Counts(record) => HasLast(t) /\ LastOf(t) = record
            /\ ~Counts(record) /\ HasLast(t) => HasLast(s) /\ LastOf(s) = LastOf(t)
<1> DEFINE t == Remember(s, record)
<1>1. t \in Seq(Records) /\ Len(t) \in 1..RecordsPerTest /\ t[Len(t)] = record
  BY RememberType
<1>2. ASSUME Counts(record) PROVE HasLast(t) /\ LastOf(t) = record
  <2>1. Len(t) \in Counted(t) /\ \A k \in Counted(t) : k <= Len(t)
    BY <1>1, <1>2 DEF Counted
  <2> HIDE DEF t
  <2> QED BY <1>1, <2>1, LastIsGreatest
<1>3. ASSUME ~Counts(record), HasLast(t) PROVE HasLast(s) /\ LastOf(s) = LastOf(t)
  <2>1. PICK i \in Counted(t) : \A k \in Counted(t) : k <= i
    <3> HIDE DEF t
    <3> QED BY <1>1, <1>3, LastExists
  <2>2. LastOf(t) = t[i]
    <3> HIDE DEF t
    <3> QED BY <1>1, <2>1, LastIsGreatest
  <2>3. i \in 1..Len(t) /\ Counts(t[i]) /\ i # Len(t)
    BY <1>1, <1>3, <2>1 DEF Counted
  <2>4. CASE Len(s) < RecordsPerTest
    <3>1. t = Append(s, record)
      BY <2>4 DEF Remember
    <3>2. i \in 1..Len(s) /\ t[i] = s[i]
      BY <2>3, <3>1
    <3>3. i \in Counted(s)
      BY <2>3, <3>2 DEF Counted
    <3>4. \A k \in Counted(s) : k <= i
      <4>1. SUFFICES ASSUME NEW k \in Counted(s) PROVE k \in Counted(t)
        BY <2>1
      <4>2. k \in 1..Len(s) /\ Counts(s[k])
        BY DEF Counted
      <4>3. k \in 1..Len(t) /\ t[k] = s[k]
        BY <3>1, <4>2
      <4> QED BY <1>1, <4>2, <4>3 DEF Counted
    <3> QED BY <2>2, <3>2, <3>3, <3>4, LastIsGreatest
  <2>5. CASE ~(Len(s) < RecordsPerTest)
    <3>1. s # <<>> /\ Len(s) = RecordsPerTest /\ Len(s) > 0
      BY <2>5, PolicyAssumption
    <3>2. t = Append(Tail(s), record)
      BY <2>5 DEF Remember
    <3>3. /\ Tail(s) \in Seq(Records) /\ Len(Tail(s)) = Len(s) - 1
          /\ \A k \in 1..(Len(s) - 1) : Tail(s)[k] = s[k + 1]
      BY <3>1
    <3>4. Len(t) = Len(s) /\ \A k \in 1..(Len(s) - 1) : t[k] = s[k + 1]
      BY <3>1, <3>2, <3>3
    <3>5. i + 1 \in 1..Len(s) /\ t[i] = s[i + 1]
      BY <2>3, <3>4
    <3>6. i + 1 \in Counted(s)
      BY <2>3, <3>5 DEF Counted
    <3>7. \A k \in Counted(s) : k <= i + 1
      <4>1. SUFFICES ASSUME NEW k \in Counted(s), k > i + 1 PROVE FALSE
        BY <2>3, <3>1 DEF Counted
      <4>2. k \in 1..Len(s) /\ Counts(s[k])
        BY DEF Counted
      <4>3. k - 1 \in 1..(Len(s) - 1) /\ k - 1 > i
        BY <2>3, <4>1, <4>2
      <4>4. t[k - 1] = s[k]
        BY <3>4, <4>2, <4>3
      <4>5. k - 1 \in Counted(t)
        BY <1>1, <3>4, <4>2, <4>3, <4>4 DEF Counted
      <4> QED BY <2>1, <2>3, <4>3, <4>5
    <3> QED BY <2>2, <3>5, <3>6, <3>7, LastIsGreatest
  <2> QED BY <2>4, <2>5
<1> QED BY <1>2, <1>3

-----------------------------------------------------------------------------
\* What a run commits for a test is what Apply may be called with.
LEMMA ResultsApply ==
  ASSUME QuarantineTypeOK
  PROVE  /\ \A record \in Results : Applicable(record)
         /\ Applicable(Record("up-to-date", FALSE, binary))
<1> SUFFICES ASSUME NEW outcome \in Recorded, NEW flaky \in BOOLEAN, outcome \in Tried \/ ~flaky
    PROVE  Applicable(Record(outcome, flaky, binary))
  BY DEF Results, Record, Recorded, Tried
<1>1. Record(outcome, flaky, binary) \in Records
  BY DEF QuarantineTypeOK, Record, Records
<1> QED BY <1>1 DEF Applicable, Record, Counts

\* Each step of Next remembers one more result, or leaves the memory alone.
LEMMA StepsApply ==
  ASSUME QuarantineTypeOK, [Next]_vars
  PROVE  \/ \E record : Applicable(record) /\ Apply(record)
         \/ UNCHANGED <<records, quarantined, lastFailure, lastReal>>
<1>1. CASE Plan
  BY <1>1 DEF Plan
<1>2. CASE Commit
  BY <1>2, ResultsApply DEF Commit
<1>3. CASE OtherCommits
  BY <1>3, ResultsApply DEF OtherCommits
<1>4. CASE Rebuild
  BY <1>4 DEF Rebuild
<1>5. CASE UNCHANGED vars
  BY <1>5 DEF vars
<1> QED BY <1>1, <1>2, <1>3, <1>4, <1>5 DEF Next

LEMMA MemoryInit == Init => MemoryInv
<1> SUFFICES ASSUME Init PROVE MemoryInv
  OBVIOUS
<1>1. <<>> \in Seq(Records) /\ Len(<<>>) = 0
  OBVIOUS
<1>2. QuarantineTypeOK
  <2>1. records \in Seq(Records) /\ Len(records) <= RecordsPerTest
    BY <1>1, PolicyAssumption DEF Init
  <2> QED BY <2>1 DEF Init, QuarantineTypeOK, Plans
<1>3. LastIsReal
  BY DEF Init, LastIsReal, HasLast, Counted
<1> QED BY <1>2, <1>3 DEF MemoryInv

\* Apply keeps the types of what it changes.
LEMMA ApplyType ==
  ASSUME QuarantineTypeOK, NEW record, Applicable(record), Apply(record)
  PROVE  /\ records' \in Seq(Records) /\ Len(records') <= RecordsPerTest
         /\ quarantined' \in BOOLEAN /\ lastFailure' \in BOOLEAN
         /\ lastReal' \in Records \cup {NoRecord}
<1>1. records' \in Seq(Records) /\ Len(records') \in 1..RecordsPerTest
  BY RememberType DEF QuarantineTypeOK, Applicable, Apply
<1>2. Len(records') <= RecordsPerTest
  BY <1>1, PolicyAssumption
<1>3. lastFailure' \in BOOLEAN
  BY DEF QuarantineTypeOK, Apply, Replay
<1>4. quarantined' \in BOOLEAN
  <2>1. LetsOut(records') \in BOOLEAN /\ PutsIn(records') \in BOOLEAN
    BY DEF LetsOut, PutsIn
  <2> QED BY <2>1 DEF Apply
<1>5. lastReal' \in Records \cup {NoRecord}
  BY DEF QuarantineTypeOK, Applicable, Apply
<1> QED BY <1>1, <1>2, <1>3, <1>4, <1>5

LEMMA MemoryStep == MemoryInv /\ [Next]_vars => MemoryInv'
<1> SUFFICES ASSUME MemoryInv, [Next]_vars PROVE MemoryInv'
  OBVIOUS
<1> USE DEF MemoryInv
<1>1. binary' \in Binaries /\ plan' \in Plans
  <2>1. CASE Plan
    BY <2>1 DEF Plan, QuarantineTypeOK, Plans
  <2>2. CASE Commit \/ OtherCommits
    BY <2>2 DEF Commit, OtherCommits, QuarantineTypeOK, Plans
  <2>3. CASE Rebuild \/ UNCHANGED vars
    BY <2>3 DEF Rebuild, vars, QuarantineTypeOK
  <2> QED BY <2>1, <2>2, <2>3 DEF Next
<1>2. CASE \E record : Applicable(record) /\ Apply(record)
  <2>1. PICK record : Applicable(record) /\ Apply(record)
    BY <1>2
  <2>2. QuarantineTypeOK'
    BY <1>1, <2>1, ApplyType DEF QuarantineTypeOK
  <2>3. LastIsReal'
    <3>1. /\ Counts(record) => HasLast(records') /\ LastOf(records') = record
          /\ ~Counts(record) /\ HasLast(records') =>
               HasLast(records) /\ LastOf(records) = LastOf(records')
      BY <2>1, RememberLast DEF Applicable, Apply, QuarantineTypeOK
    <3> QED BY <2>1, <3>1 DEF LastIsReal, Apply
  <2> QED BY <2>2, <2>3
<1>3. CASE UNCHANGED <<records, quarantined, lastFailure, lastReal>>
  <2>1. QuarantineTypeOK'
    BY <1>1, <1>3 DEF QuarantineTypeOK
  <2>2. LastIsReal'
    BY <1>3 DEF LastIsReal
  <2> QED BY <2>1, <2>2
<1> QED BY <1>2, <1>3, StepsApply

\* Every variable keeps its type, and the latest result that is remembered is
\* the latest there was (History::Apply, TestHistory::Last).
THEOREM MemoryFits == Spec => []MemoryInv
<1> QED BY MemoryInit, MemoryStep, PTL DEF Spec

-----------------------------------------------------------------------------
\* A result is kept only when the latest one was a clean pass of this binary
\* (MakePlan with --incremental).
THEOREM KeptResultsPassed == Spec => KeptOnlyIfPassed
<1>1. MemoryInv /\ [Next]_vars =>
        [plan = "none" /\ plan' = "keep" =>
           lastReal # NoRecord /\ CleanPass(lastReal) /\ lastReal.fingerprint = binary]_vars
  <2> SUFFICES ASSUME MemoryInv, Next, plan = "none", plan' = "keep"
      PROVE  lastReal # NoRecord /\ CleanPass(lastReal) /\ lastReal.fingerprint = binary
    OBVIOUS
  <2>1. Plan
    BY DEF Next, Commit, OtherCommits, Rebuild
  <2>2. PICK off \in BOOLEAN : Keeps(off)
    BY <2>1 DEF Plan
  <2>3. HasLast(records) /\ CleanPass(LastOf(records)) /\ LastOf(records).fingerprint = binary
    BY <2>2 DEF Keeps
  <2>4. CleanPass(lastReal) /\ lastReal.fingerprint = binary
    BY <2>3 DEF MemoryInv, LastIsReal
  <2>5. ~CleanPass(NoRecord)
    BY DEF CleanPass, NoRecord, Record
  <2> QED BY <2>4, <2>5
<1> QED BY <1>1, MemoryFits, PTL DEF Spec, KeptOnlyIfPassed

\* The replay record is that of the latest result that failed or was flaky,
\* until a clean pass (History::Apply).
THEOREM ReplaysFit == Spec => []ReplayFitsLast
<1>1. Init => ReplayFitsLast
  BY DEF Init, ReplayFitsLast
<1>2. MemoryInv /\ ReplayFitsLast /\ [Next]_vars => ReplayFitsLast'
  <2> SUFFICES ASSUME MemoryInv, ReplayFitsLast, [Next]_vars PROVE ReplayFitsLast'
    OBVIOUS
  <2>1. CASE UNCHANGED <<records, quarantined, lastFailure, lastReal>>
    BY <2>1 DEF ReplayFitsLast
  <2>2. ASSUME NEW record, Applicable(record), Apply(record) PROVE ReplayFitsLast'
    <3>1. CASE Counts(record)
      BY <2>2, <3>1 DEF Apply, Replay, ReplayFitsLast, IsFailure, CleanPass
    <3>2. CASE ~Counts(record)
      <4>1. lastFailure' = lastFailure /\ lastReal' = lastReal
        BY <2>2, <3>2 DEF Apply, Replay, Applicable, Counts, Tried, IsFailure
      <4> QED BY <4>1 DEF ReplayFitsLast
    <3> QED BY <3>1, <3>2
  <2> QED BY <2>1, <2>2, StepsApply DEF MemoryInv
<1> QED BY <1>1, <1>2, MemoryFits, PTL DEF Spec

\* A test with enough flaky events is in quarantine, unless its passes have
\* let it out (History::Apply).
THEOREM FlakyTestsAreIn == Spec => []FlakyIsQuarantined
<1>1. Init => FlakyIsQuarantined
  <2> SUFFICES ASSUME Init PROVE ~(FlakyEvents(records) >= FlakyEventsToEnter)
    BY DEF FlakyIsQuarantined
  <2>1. {i \in Counted(records) :
           Cardinality(Later(records, i)) < Window /\ IsFlakyEvent(records, i)} = {}
    BY DEF Init, Counted
  <2> QED BY <2>1, FS_EmptySet, PolicyAssumption DEF FlakyEvents
<1>2. MemoryInv /\ FlakyIsQuarantined /\ [Next]_vars => FlakyIsQuarantined'
  <2> SUFFICES ASSUME MemoryInv, FlakyIsQuarantined, [Next]_vars PROVE FlakyIsQuarantined'
    OBVIOUS
  <2>1. CASE UNCHANGED <<records, quarantined, lastFailure, lastReal>>
    BY <2>1 DEF FlakyIsQuarantined
  <2>2. ASSUME NEW record, Applicable(record), Apply(record) PROVE FlakyIsQuarantined'
    BY <2>2 DEF Apply, FlakyIsQuarantined, PutsIn, LetsOut
  <2> QED BY <2>1, <2>2, StepsApply DEF MemoryInv
<1> QED BY <1>1, <1>2, MemoryFits, PTL DEF Spec

-----------------------------------------------------------------------------
\* The positions that count, and those after one of them, are finitely many.
LEMMA CountedFinite ==
  ASSUME NEW s \in Seq(Records), NEW S \in SUBSET Counted(s)
  PROVE  IsFiniteSet(S) /\ Cardinality(S) \in Nat
<1>1. S \in SUBSET (1..Len(s)) /\ Len(s) \in Nat
  BY DEF Counted
<1>2. IsFiniteSet(1..Len(s))
  BY <1>1, FS_Interval
<1> QED BY <1>1, <1>2, FS_Subset, FS_CardinalityType

\* The result that counts next after a position comes after it.
LEMMA NewerType ==
  ASSUME NEW s \in Seq(Records), NEW i \in Counted(s), Later(s, i) # {}
  PROVE  Newer(s, i) \in Later(s, i)
<1>1. Later(s, i) \in SUBSET Nat
  BY DEF Later, Counted
<1>2. \E k \in Later(s, i) : \A l \in Later(s, i) : k <= l
  BY <1>1, LeastExists
<1> QED BY <1>2 DEF Newer

\* A window of clean passes has no flaky event in it.
LEMMA StreakIsNotFlaky ==
  ASSUME NEW s \in Seq(Records), PassStreak(s) >= Window
  PROVE  FlakyEvents(s) = 0
<1> DEFINE Streak == {i \in Counted(s) : \A k \in {i} \cup Later(s, i) : CleanPass(s[k])}
           Events == {i \in Counted(s) :
                        Cardinality(Later(s, i)) < Window /\ IsFlakyEvent(s, i)}
<1>1. SUFFICES ASSUME NEW i \in Counted(s), Cardinality(Later(s, i)) < Window, IsFlakyEvent(s, i)
      PROVE  FALSE
  <2>1. Events = {}
    BY <1>1
  <2> QED BY <2>1, FS_EmptySet DEF FlakyEvents
<1>2. Streak \in SUBSET Counted(s) /\ Later(s, i) \in SUBSET Counted(s)
  BY DEF Later
<1>3. Cardinality(Streak) >= Window
  BY DEF PassStreak
<1>4. i \in Streak
  <2>1. ASSUME i \notin Streak PROVE Streak \in SUBSET Later(s, i)
    <3>1. SUFFICES ASSUME NEW p \in Streak, ~(p > i) PROVE FALSE
      BY <1>2 DEF Later
    <3>2. p \in Int /\ i \in Int /\ p <= i
      BY <1>2, <3>1 DEF Counted
    <3>3. {i} \cup Later(s, i) \subseteq {p} \cup Later(s, p)
      BY <3>2 DEF Later, Counted
    <3>4. \A k \in {i} \cup Later(s, i) : CleanPass(s[k])
      BY <3>3
    <3> QED BY <2>1, <3>4
  <2>2. ASSUME Streak \in SUBSET Later(s, i) PROVE FALSE
    <3>1. IsFiniteSet(Later(s, i))
      BY <1>2, CountedFinite
    <3>2. Cardinality(Streak) \in Nat /\ Cardinality(Later(s, i)) \in Nat /\ Window \in Nat
      <4> HIDE DEF Streak
      <4> QED BY <1>2, CountedFinite, PolicyAssumption
    <3> HIDE DEF Streak
    <3>3. Cardinality(Streak) <= Cardinality(Later(s, i))
      BY <2>2, <3>1, FS_Subset
    <3> QED BY <1>1, <1>3, <3>2, <3>3
  <2> QED BY <2>1, <2>2
<1>5. CleanPass(s[i]) /\ \A k \in Later(s, i) : CleanPass(s[k])
  BY <1>4
<1>6. ~s[i].flaky /\ ~IsFailure(s[i])
  BY <1>5 DEF CleanPass, IsFailure
<1>7. CASE Later(s, i) = {}
  BY <1>1, <1>6, <1>7 DEF IsFlakyEvent
<1>8. CASE Later(s, i) # {}
  <2>1. CleanPass(s[Newer(s, i)])
    BY <1>5, <1>8, NewerType
  <2>2. ~IsFailure(s[Newer(s, i)])
    BY <2>1 DEF CleanPass, IsFailure
  <2> QED BY <1>1, <1>6, <1>8, <2>2 DEF IsFlakyEvent, IsFailure
<1> QED BY <1>7, <1>8

\* A window of clean passes lets a test out, and keeps it out
\* (History::Apply).
THEOREM PassesLetOut == Spec => []PassesRelease
<1>1. Init => PassesRelease
  BY DEF Init, PassesRelease
<1>2. MemoryInv /\ PassesRelease /\ [Next]_vars => PassesRelease'
  <2> SUFFICES ASSUME MemoryInv, PassesRelease, [Next]_vars PROVE PassesRelease'
    OBVIOUS
  <2>1. CASE UNCHANGED <<records, quarantined, lastFailure, lastReal>>
    BY <2>1 DEF PassesRelease
  <2>2. ASSUME NEW record, Applicable(record), Apply(record), PassStreak(records') >= Window
        PROVE  ~quarantined'
    <3>1. records' \in Seq(Records)
      BY <2>2, ApplyType DEF MemoryInv
    <3>2. ~PutsIn(records')
      BY <2>2, <3>1, StreakIsNotFlaky, PolicyAssumption DEF PutsIn
    <3>3. LetsOut(records')
      <4>1. PassStreak(records') \in Nat
        BY <3>1, CountedFinite DEF PassStreak
      <4> QED BY <2>2, <4>1, PolicyAssumption DEF LetsOut
    <3> QED BY <2>2, <3>2, <3>3 DEF Apply
  <2> QED BY <2>1, <2>2, StepsApply DEF MemoryInv, PassesRelease
<1> QED BY <1>1, <1>2, MemoryFits, PTL DEF Spec
=============================================================================
