--------------------------- MODULE HistoryProofs ----------------------------
(***************************************************************************)
(* The lock is exclusive and the history keeps the promise of the ledger,  *)
(* for any number of runs and whatever befalls them.                       *)
(***************************************************************************)
EXTENDS HistoryStore, TLAPS

\* The lock file is that of the run that holds the lock.
OwnersHold == ~stolen => \A r \in Runs : Holds(r) => lock.owner = r

\* What a run is about to write holds what the file lists now, unless the
\* file cannot be read.
CopyIsCurrent(r) ==
  /\ pc[r] = "aside" => file.state = "damaged" /\ copy[r] = <<>>
  /\ pc[r] \in {"write", "replace"} =>
       copy[r] = file.listed \/ (file.state = "damaged" /\ copy[r] = <<>>)
CopiesAreCurrent == ~stolen => \A r \in Runs : CopyIsCurrent(r)

\* A run has its answer once it is done with the file, and not before.
Unanswered == Waiting \cup {"load", "aside", "write", "replace"}
AnswersInTime == \A r \in Runs :
  /\ pc[r] \in Unanswered => result[r] = "none"
  /\ pc[r] = "release" => result[r] \in {"saved", "failed"}

StoreInv == StoreTypeOK /\ OwnersHold /\ CopiesAreCurrent /\ AnswersInTime

LEMMA NewestType == ASSUME NEW s \in Seq(Runs) PROVE Newest(s) \in Seq(Runs)
  BY KeptAssumption DEF Newest

LEMMA InitStore == Init => StoreInv
<1> SUFFICES ASSUME Init PROVE StoreInv
  OBVIOUS
<1>1. <<>> \in Seq(Runs)
  OBVIOUS
<1>2. LockTypeOK
  BY DEF Init, LockInit, LockTypeOK, NoLock, Waiting
<1>3. StoreTypeOK
  BY <1>1, <1>2 DEF Init, StoreTypeOK, NoFile
<1>4. OwnersHold /\ CopiesAreCurrent /\ AnswersInTime
  BY DEF Init, LockInit, OwnersHold, CopiesAreCurrent, CopyIsCurrent, AnswersInTime, Unanswered,
    Waiting, Holding, Holds
<1> QED BY <1>3, <1>4 DEF StoreInv

\* The steps of taking the lock touch nothing else, and only an exclusive
\* creation makes a run a holder.
LEMMA LockStepInv ==
  ASSUME StoreInv, NEW r \in Runs, LockStep(r)
  PROVE  StoreInv'
<1> USE DEF StoreInv, StoreTypeOK, LockTypeOK, LockStep, fileVars, At, Goes
<1>1. CASE TryCreate(r)
  <2>1. StoreTypeOK'
    <3>1. lock' \in {NoLock} \cup [owner : Runs, stale : BOOLEAN]
      <4>1. [owner |-> r, stale |-> FALSE] \in [owner : Runs, stale : BOOLEAN]
        OBVIOUS
      <4>2. lock' = [owner |-> r, stale |-> FALSE] \/ lock' = lock
        BY <1>1 DEF TryCreate
      <4> QED BY <4>1, <4>2
    <3>2. pc' \in [Runs -> Waiting \cup Holding \cup Ended]
      BY <1>1, ZenonT(60) DEF TryCreate, Waiting, Holding
    <3> QED BY <1>1, <3>1, <3>2 DEF TryCreate
  <2>2. OwnersHold'
    BY <1>1, OwnerAssumption DEF TryCreate, OwnersHold, Holds, NoLock, Holding, Waiting
  <2>3. CopiesAreCurrent' /\ AnswersInTime'
    BY <1>1 DEF TryCreate, CopiesAreCurrent, CopyIsCurrent, AnswersInTime, Unanswered, Waiting
  <2> QED BY <2>1, <2>2, <2>3
<1>2. CASE LookAtAge(r)
  BY <1>2 DEF LookAtAge, OwnersHold, Holds, CopiesAreCurrent, CopyIsCurrent, AnswersInTime,
    Unanswered, Waiting, Holding
<1>3. CASE BreakLock(r)
  <2>1. StoreTypeOK'
    BY <1>3 DEF BreakLock, RemoveLock, NoLock, Waiting, Holding
  <2>2. OwnersHold'
    BY <1>3 DEF BreakLock, RemoveLock, OwnersHold, Holds, Holding, Waiting
  <2>3. CopiesAreCurrent' /\ AnswersInTime'
    BY <1>3 DEF BreakLock, RemoveLock, CopiesAreCurrent, CopyIsCurrent, AnswersInTime,
      Unanswered, Waiting
  <2> QED BY <2>1, <2>2, <2>3
<1>4. CASE TryAgain(r)
  BY <1>4 DEF TryAgain, OwnersHold, Holds, CopiesAreCurrent, CopyIsCurrent, AnswersInTime,
    Unanswered, Waiting, Holding
<1>5. CASE WaitEnds(r)
  BY <1>5 DEF WaitEnds, OwnersHold, Holds, CopiesAreCurrent, CopyIsCurrent, AnswersInTime
<1> QED BY <1>1, <1>2, <1>3, <1>4, <1>5

\* Only the holder of the lock reads and writes the file; no other run holds
\* it at the same time.
LEMMA HoldersAreOne ==
  ASSUME StoreInv, ~stolen, NEW r \in Runs, NEW q \in Runs, Holds(r), Holds(q)
  PROVE  r = q
  BY DEF StoreInv, OwnersHold

LEMMA CommitStepInv ==
  ASSUME StoreInv, NEW r \in Runs,
         LoadHistory(r) \/ SetsAside(r) \/ WritesTemporary(r) \/ Replaces(r)
  PROVE  StoreInv'
<1> USE DEF StoreInv, StoreTypeOK, LockTypeOK, At, Goes
<1>a. Holds(r) /\ Holds(r)'
  BY DEF LoadHistory, SetsAside, WritesTemporary, Replaces, Holds, Holding, Waiting, Ended
<1>b. /\ lock' = lock /\ stolen' = stolen /\ late' = late
      /\ \A q \in Runs : q # r => pc'[q] = pc[q] /\ copy'[q] = copy[q] /\ result'[q] = result[q]
  BY DEF LoadHistory, SetsAside, WritesTemporary, Replaces, Returns
<1>1. StoreTypeOK'
  <2>e. <<>> \in Seq(Runs) /\ file.listed \in Seq(Runs)
    OBVIOUS
  <2>1. CASE LoadHistory(r)
    <3>1. copy' \in [Runs -> Seq(Runs)]
      BY <2>e, <2>1 DEF LoadHistory
    <3>2. pc' \in [Runs -> Waiting \cup Holding \cup Ended]
      BY <2>1 DEF LoadHistory, Holding
    <3> QED BY <3>1, <3>2, <2>1 DEF LoadHistory
  <2>2. CASE SetsAside(r)
    <3>1. NoFile \in [state : {"absent", "intact", "damaged"}, listed : Seq(Runs)]
      BY <2>e DEF NoFile
    <3>2. pc' \in [Runs -> Waiting \cup Holding \cup Ended]
      BY <2>2 DEF SetsAside, Holding
    <3> QED BY <3>1, <3>2, <2>2 DEF SetsAside
  <2>3. CASE WritesTemporary(r)
    BY <2>3 DEF WritesTemporary, Holding, Returns
  <2>4. CASE Replaces(r)
    <3>1. Append(copy[r], r) \in Seq(Runs)
      OBVIOUS
    <3>2. Newest(Append(copy[r], r)) \in Seq(Runs)
      BY <3>1, NewestType
    <3>3. file' \in [state : {"absent", "intact", "damaged"}, listed : Seq(Runs)]
      BY <3>2, <2>4 DEF Replaces, Intact
    <3>4. pc' \in [Runs -> Waiting \cup Holding \cup Ended]
      BY <2>4 DEF Replaces, Holding
    <3>5. result' \in [Runs -> {"none", "saved", "failed"}]
      BY <2>4 DEF Replaces, Returns
    <3> QED BY <3>3, <3>4, <3>5, <2>4 DEF Replaces
  <2> QED BY <2>1, <2>2, <2>3, <2>4
<1>2. OwnersHold'
  BY <1>a, <1>b DEF OwnersHold, Holds
<1>3. CopiesAreCurrent'
  <2> SUFFICES ASSUME ~stolen, NEW q \in Runs
               PROVE  CopyIsCurrent(q)'
    BY <1>b DEF CopiesAreCurrent
  <2>1. CASE q # r
    <3>1. ~Holds(q)
      BY <2>1, <1>a, HoldersAreOne
    <3> QED BY <3>1, <2>1, <1>b DEF CopyIsCurrent, Holds, Holding
  <2>2. CASE q = r
    <3>1. CopyIsCurrent(r)
      BY DEF CopiesAreCurrent
    <3> QED BY <2>2, <3>1 DEF LoadHistory, SetsAside, WritesTemporary, Replaces, CopyIsCurrent,
              NoFile
  <2> QED BY <2>1, <2>2
<1>4. AnswersInTime'
  BY <1>b DEF LoadHistory, SetsAside, WritesTemporary, Replaces, AnswersInTime, Unanswered,
    Waiting, Returns
<1> QED BY <1>1, <1>2, <1>3, <1>4

LEMMA GivesUpInv == ASSUME StoreInv, NEW r \in Runs, GivesUp(r) PROVE StoreInv'
  BY DEF GivesUp, Returns, StoreInv, StoreTypeOK, LockTypeOK, At, Goes, OwnersHold, Holds,
    Holding, Ended, CopiesAreCurrent, CopyIsCurrent, AnswersInTime, Unanswered, Waiting

LEMMA ReleasesInv == ASSUME StoreInv, NEW r \in Runs, Releases(r) PROVE StoreInv'
<1> USE DEF StoreInv, StoreTypeOK, LockTypeOK, At, Goes, Releases, Release, RemoveLock, fileVars
<1>0. result[r] \in {"saved", "failed"}
  BY DEF AnswersInTime
<1>1. StoreTypeOK'
  BY <1>0 DEF Ended, NoLock
<1>2. OwnersHold'
  BY <1>0 DEF OwnersHold, Holds, Holding
<1>3. CopiesAreCurrent' /\ AnswersInTime'
  BY <1>0 DEF CopiesAreCurrent, CopyIsCurrent, AnswersInTime, Unanswered, Waiting
<1> QED BY <1>1, <1>2, <1>3

LEMMA EnvironmentInv ==
  ASSUME StoreInv, Damage \/ Ages \/ \E r \in Runs : Crash(r)
  PROVE  StoreInv'
<1> USE DEF StoreInv, StoreTypeOK, LockTypeOK, fileVars, lockVars
<1>1. CASE Damage
  BY <1>1 DEF Damage, OwnersHold, Holds, CopiesAreCurrent, CopyIsCurrent, AnswersInTime
<1>2. CASE Ages
  BY <1>2 DEF Ages, LockAges, OwnersHold, Holds, CopiesAreCurrent, CopyIsCurrent, AnswersInTime
<1>3. ASSUME NEW r \in Runs, Crash(r) PROVE StoreInv'
  BY <1>3 DEF Crash, Dies, Goes, Ended, OwnersHold, Holds, Holding, CopiesAreCurrent,
    CopyIsCurrent, AnswersInTime, Unanswered, Waiting
<1> QED BY <1>1, <1>2, <1>3

LEMMA StutterInv == ASSUME StoreInv, UNCHANGED vars PROVE StoreInv'
  BY DEF vars, lockVars, fileVars, StoreInv, StoreTypeOK, LockTypeOK, OwnersHold, Holds,
    CopiesAreCurrent, CopyIsCurrent, AnswersInTime

LEMMA NextStore == StoreInv /\ [Next]_vars => StoreInv'
<1> SUFFICES ASSUME StoreInv, [Next]_vars PROVE StoreInv'
  OBVIOUS
<1>1. ASSUME NEW r \in Runs, RunStep(r) PROVE StoreInv'
  BY <1>1, LockStepInv, CommitStepInv, GivesUpInv, ReleasesInv DEF RunStep
<1> QED BY <1>1, EnvironmentInv, StutterInv DEF Next, Terminated

THEOREM StoreInvariant == Spec => []StoreInv
  BY InitStore, NextStore, PTL DEF Spec

\* Two runs hold the lock of the history at the same time only after the lock
\* file of one that lives was removed as stale (FileLock).
THEOREM LockIsExclusive == Spec => []OneHolder
<1>1. StoreInv => OneHolder
  BY DEF StoreInv, OwnersHold, OneHolder
<1> QED BY <1>1, StoreInvariant, PTL
-----------------------------------------------------------------------------
\* What makes a lock look old has happened as soon as one does, or is taken
\* for old by a run that is about to break it.
Cause == "slow" \in Faults \/ \E r \in Runs : pc[r] = "crashed"
StaleHasCause == lock.stale \/ stolen \/ (\E r \in Runs : pc[r] = "break") => Cause

LeftBehind == LockHasOwner /\ StaleHasCause

LEMMA CauseStays == ASSUME StoreInv, Cause, [Next]_vars PROVE Cause'
<1>1. CASE "slow" \in Faults
  BY <1>1 DEF Cause
<1>2. ASSUME NEW q \in Runs, pc[q] = "crashed" PROVE pc'[q] = "crashed"
  BY <1>2 DEF StoreInv, StoreTypeOK, LockTypeOK, Next, RunStep, LockStep, TryCreate, LookAtAge,
    BreakLock, TryAgain, WaitEnds, GivesUp, LoadHistory, SetsAside, WritesTemporary, Replaces,
    Releases, Release, Crash, Dies, Damage, Ages, LockAges, Terminated, At, Goes, vars,
    lockVars, Waiting, Ended
<1> QED BY <1>1, <1>2 DEF Cause

\* Only five kinds of steps touch the lock file, or make a run break it.
LEMMA LeftBehindStep == ASSUME StoreInv, LeftBehind, [Next]_vars PROVE LeftBehind'
<1> USE DEF StoreInv, StoreTypeOK, LockTypeOK
<1>1. ASSUME NEW r \in Runs, TryCreate(r) PROVE LeftBehind'
  <2>1. LockHasOwner'
    <3>1. CASE lock = NoLock
      BY <1>1, <3>1 DEF LockHasOwner, TryCreate, Holds, At, Goes, Holding
    <3>2. CASE lock # NoLock
      <4>1. UNCHANGED lock /\ pc' = [pc EXCEPT ![r] = "stat"] /\ lock.owner \in Runs
        BY <1>1, <3>2 DEF TryCreate, At, Goes
      <4>2. pc[r] = "create" /\ (Holds(lock.owner) \/ pc[lock.owner] = "crashed")
        BY <1>1, <3>2 DEF TryCreate, At, LeftBehind, LockHasOwner
      <4>3. pc'[lock.owner] = pc[lock.owner]
        BY <4>1, <4>2 DEF Holds, Holding
      <4> QED BY <4>1, <4>2, <4>3 DEF LockHasOwner, Holds
    <3> QED BY <3>1, <3>2
  <2>2. StaleHasCause \/ Cause => StaleHasCause'
    BY <1>1 DEF StaleHasCause, Cause, TryCreate, At, Goes
  <2> QED BY <2>1, <2>2 DEF LeftBehind
<1>2. ASSUME NEW r \in Runs, LookAtAge(r) PROVE LeftBehind'
  BY <1>2 DEF LeftBehind, LockHasOwner, StaleHasCause, Cause, LookAtAge, Holds, At, Goes, Holding
<1>3. ASSUME NEW r \in Runs, BreakLock(r) PROVE LeftBehind'
  BY <1>3 DEF LeftBehind, LockHasOwner, StaleHasCause, Cause, BreakLock, RemoveLock, NoLock, At, Goes
<1>4. ASSUME NEW r \in Runs, Releases(r) PROVE LeftBehind'
  <2>1. LockHasOwner'
    BY <1>4 DEF LockHasOwner, Releases, Release, RemoveLock
  <2>2. stolen' => stolen \/ (lock # NoLock /\ lock.owner # r /\ Holds(lock.owner) /\ Holds(r))
    BY <1>4, OwnerAssumption DEF Releases, Release, RemoveLock, NoLock, Holds, At, Holding
  <2>3. stolen' => stolen
    BY <2>2 DEF OwnersHold
  <2>4. StaleHasCause'
    <3>1. result[r] \in {"saved", "failed"}
      BY <1>4 DEF Releases, Release, At, AnswersInTime
    <3> QED BY <1>4, <2>3, <3>1, CauseStays
            DEF LeftBehind, StaleHasCause, Cause, Releases, Release, RemoveLock, NoLock, At, Goes
  <2> QED BY <2>1, <2>4 DEF LeftBehind
<1>5. CASE Ages
  <2>1. /\ lock.owner \in Runs /\ UNCHANGED <<pc, stolen>>
        /\ lock'.owner = lock.owner /\ (Holds(lock.owner) => "slow" \in Faults)
    BY <1>5, OwnerAssumption DEF Ages, LockAges
  <2>2. LockHasOwner'
    BY <1>5, <2>1 DEF LeftBehind, LockHasOwner, Ages, LockAges, Holds
  <2>3. Cause'
    BY <1>5, <2>1 DEF LeftBehind, LockHasOwner, Cause, Ages, LockAges
  <2> QED BY <2>2, <2>3 DEF LeftBehind, StaleHasCause
<1>6. ASSUME NEW r \in Runs, Crash(r) PROVE LeftBehind'
  BY <1>6 DEF LeftBehind, LockHasOwner, StaleHasCause, Cause, Crash, Dies, Goes, Holds
<1>7. ASSUME NEW r \in Runs,
             TryAgain(r) \/ WaitEnds(r) \/ GivesUp(r) \/ LoadHistory(r) \/ SetsAside(r)
               \/ WritesTemporary(r) \/ Replaces(r)
      PROVE  LeftBehind'
  <2>1. /\ UNCHANGED <<lock, stolen>>
        /\ \A q \in Runs : Holds(q) => Holds(q)'
        /\ \A q \in Runs : pc'[q] = "break" => pc[q] = "break"
        /\ \A q \in Runs : pc[q] = "crashed" => pc'[q] = "crashed"
    BY <1>7 DEF TryAgain, WaitEnds, GivesUp, LoadHistory, SetsAside, WritesTemporary, Replaces,
      At, Goes, Holds, Holding, Waiting
  <2>2. lock # NoLock => lock.owner \in Runs
    OBVIOUS
  <2>3. LockHasOwner'
    BY <2>1, <2>2 DEF LeftBehind, LockHasOwner
  <2>4. StaleHasCause'
    BY <2>1, <2>2 DEF LeftBehind, StaleHasCause, Cause
  <2> QED BY <2>3, <2>4 DEF LeftBehind
<1>8. CASE Damage \/ UNCHANGED vars
  BY <1>8 DEF LeftBehind, LockHasOwner, StaleHasCause, Cause, Damage, vars, lockVars, Holds
<1> QED BY <1>1, <1>2, <1>3, <1>4, <1>5, <1>6, <1>7, <1>8
        DEF Next, RunStep, LockStep, Terminated

LEMMA InitLeftBehind == Init => LeftBehind
  BY DEF Init, LockInit, LeftBehind, LockHasOwner, StaleHasCause, NoLock

\* A lock file belongs to a run that holds the lock, or to one that died.
THEOREM LockFilesHaveOwners == Spec => []LockHasOwner
<1>1. LeftBehind => LockHasOwner
  BY DEF LeftBehind
<1> QED BY <1>1, StoreInvariant, InitLeftBehind, LeftBehindStep, PTL DEF Spec

\* As long as no run died with the lock and none is slow, none loses its lock.
THEOREM NoStealWithoutCause == Spec => []StealNeedsStale
<1>1. LeftBehind => StealNeedsStale
  BY DEF LeftBehind, StaleHasCause, Cause, StealNeedsStale
<1> QED BY <1>1, StoreInvariant, InitLeftBehind, LeftBehindStep, PTL DEF Spec
-----------------------------------------------------------------------------
\* A step of the commit is one of the ledger, or changes nothing it sees.
LEMMA LockStepRefines ==
  ASSUME StoreInv, NEW r \in Runs, LockStep(r) \/ LoadHistory(r) \/ Releases(r)
  PROVE  [Ledger!Next]_(Ledger!vars)
<1>1. UNCHANGED <<file, result>>
  BY DEF LockStep, LoadHistory, Releases, fileVars
<1>2. CASE stolen' = stolen
  BY <1>1, <1>2 DEF Ledger!vars
<1>3. CASE stolen' # stolen
  <2>1. stolen'
    BY <1>3 DEF StoreInv, StoreTypeOK, LockTypeOK, LockStep, TryCreate, LookAtAge, BreakLock,
      TryAgain, WaitEnds, LoadHistory, Releases, Release, RemoveLock
  <2>2. Ledger!LoseLock
    BY <1>1, <2>1 DEF Ledger!LoseLock
  <2> QED BY <2>2 DEF Ledger!Next, Ledger!Kept
<1> QED BY <1>2, <1>3

LEMMA AnswerRefines ==
  ASSUME StoreInv, NEW r \in Runs, GivesUp(r) \/ WritesTemporary(r)
  PROVE  [Ledger!Next]_(Ledger!vars)
<1>1. UNCHANGED <<file, stolen>> /\ result[r] = "none"
  BY DEF GivesUp, WritesTemporary, At, StoreInv, AnswersInTime, Unanswered, Waiting
<1>2. CASE UNCHANGED result
  BY <1>1, <1>2 DEF Ledger!vars
<1>3. CASE Returns(r, "failed")
  <2>1. Ledger!Refuse(r)
    BY <1>1, <1>3 DEF Ledger!Refuse, Ledger!Answers, Returns
  <2> QED BY <2>1 DEF Ledger!Next, Ledger!Kept
<1> QED BY <1>2, <1>3 DEF GivesUp, WritesTemporary

LEMMA ReplaceRefines ==
  ASSUME StoreInv, NEW r \in Runs, Replaces(r)
  PROVE  [Ledger!Next]_(Ledger!vars)
<1>1. result[r] = "none" /\ UNCHANGED stolen
  BY DEF Replaces, At, StoreInv, AnswersInTime, Unanswered
<1>2. CASE stolen
  BY <1>1, <1>2 DEF Ledger!Next, Ledger!Unkept
<1>3. CASE ~stolen /\ UNCHANGED file /\ Returns(r, "failed")
  <2>1. Ledger!Refuse(r)
    BY <1>1, <1>3 DEF Ledger!Refuse, Ledger!Answers, Returns
  <2> QED BY <2>1 DEF Ledger!Next, Ledger!Kept
<1>4. CASE ~stolen /\ file' = Intact(Newest(Append(copy[r], r))) /\ Returns(r, "saved")
  <2>1. copy[r] = file.listed \/ (file.state = "damaged" /\ copy[r] = <<>>)
    BY <1>4 DEF Replaces, At, StoreInv, CopiesAreCurrent, CopyIsCurrent
  <2>2. /\ file'.listed = Newest(Append(copy[r], r)) /\ file'.state = "intact"
        /\ \A s : Newest(s) = Ledger!Newest(s)
    BY <1>4 DEF Intact, Newest, Ledger!Newest
  <2>3. Append(<<>>, r) = <<r>>
    OBVIOUS
  <2>4. Ledger!Record(r)
    BY <1>1, <1>4, <2>1, <2>2, <2>3 DEF Ledger!Record, Ledger!Answers, Returns
  <2> QED BY <2>4 DEF Ledger!Next, Ledger!Kept
<1> QED BY <1>2, <1>3, <1>4 DEF Replaces

LEMMA FileStepRefines ==
  ASSUME StoreInv, Damage \/ \E r \in Runs : SetsAside(r)
  PROVE  [Ledger!Next]_(Ledger!vars)
<1>1. CASE Damage
  <2>1. Ledger!Damage
    BY <1>1 DEF Damage, Ledger!Damage, lockVars
  <2> QED BY <2>1 DEF Ledger!Next, Ledger!Kept
<1>2. ASSUME NEW r \in Runs, SetsAside(r) PROVE [Ledger!Next]_(Ledger!vars)
  <2>1. UNCHANGED <<stolen, result>>
    BY <1>2 DEF SetsAside
  <2>2. CASE UNCHANGED file
    BY <2>1, <2>2 DEF Ledger!vars
  <2>3. CASE stolen
    BY <2>1, <2>3 DEF Ledger!Next, Ledger!Unkept
  <2>4. CASE ~stolen /\ file' = NoFile
    <3>1. file.state = "damaged"
      BY <1>2, <2>4 DEF SetsAside, At, StoreInv, CopiesAreCurrent, CopyIsCurrent
    <3>2. Ledger!SetAside
      BY <2>1, <2>4, <3>1 DEF Ledger!SetAside, NoFile
    <3> QED BY <3>2 DEF Ledger!Next, Ledger!Kept
  <2> QED BY <1>2, <2>2, <2>3, <2>4 DEF SetsAside
<1> QED BY <1>1, <1>2

LEMMA StepRefines == StoreInv /\ [Next]_vars => [Ledger!Next]_(Ledger!vars)
<1> SUFFICES ASSUME StoreInv, [Next]_vars PROVE [Ledger!Next]_(Ledger!vars)
  OBVIOUS
<1>1. ASSUME NEW r \in Runs, RunStep(r) PROVE [Ledger!Next]_(Ledger!vars)
  BY <1>1, LockStepRefines, AnswerRefines, ReplaceRefines, FileStepRefines DEF RunStep
<1>2. CASE Ages \/ \E r \in Runs : Crash(r)
  BY <1>2 DEF Ages, LockAges, Crash, Dies, fileVars, Ledger!vars
<1>3. CASE UNCHANGED vars
  BY <1>3 DEF vars, lockVars, fileVars, Ledger!vars
<1> QED BY <1>1, <1>2, <1>3, FileStepRefines DEF Next, Terminated

LEMMA InitRefines == Init => Ledger!Init
  BY DEF Init, LockInit, NoFile, Ledger!Init

\* History::Commit keeps the ledger's promise: while no run loses its lock, no
\* run is lost, doubled or put before an older one, whatever dies in between.
THEOREM StoreKeepsLedger == Spec => KeepsLedger
  BY StoreInvariant, InitRefines, StepRefines, PTL DEF Spec, KeepsLedger, Ledger!Spec
=============================================================================
