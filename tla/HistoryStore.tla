---------------------------- MODULE HistoryStore ----------------------------
(***************************************************************************)
(* The history file of a binary and the runs that commit to it             *)
(* (History::Commit): each takes the lock, reads the file again, adds its  *)
(* run and replaces the file by a rename.  A run may die between any two   *)
(* steps.                                                                  *)
(*                                                                         *)
(* Of a history, the runs it lists are kept.  Where a file is damaged, by  *)
(* another program or a loss of power, `listed' is what it held before.    *)
(* Temporary files have names of their own and are not modelled.           *)
(***************************************************************************)
EXTENDS FileLock

CONSTANT RunsKept     \* 100
ASSUME KeptAssumption == RunsKept \in Nat \ {0}

VARIABLES
  file,      \* the history file
  copy,      \* the runs each run has read
  result     \* what Commit returned, or is about to

fileVars == <<file, copy, result>>
vars == <<lockVars, fileVars>>

NoFile == [state |-> "absent", listed |-> <<>>]
Intact(listed) == [state |-> "intact", listed |-> listed]

\* The type of the lock, of the file and of what the runs know.
StoreTypeOK ==
  /\ LockTypeOK
  /\ file \in [state : {"absent", "intact", "damaged"}, listed : Seq(Runs)]
  /\ copy \in [Runs -> Seq(Runs)]
  /\ result \in [Runs -> {"none", "saved", "failed"}]

Init ==
  /\ LockInit
  /\ file = NoFile
  /\ copy = [r \in Runs |-> <<>>]
  /\ result = [r \in Runs |-> "none"]

Returns(r, what) == result' = [result EXCEPT ![r] = what]

LockStep(r) ==
  /\ TryCreate(r) \/ LookAtAge(r) \/ BreakLock(r) \/ TryAgain(r) \/ WaitEnds(r)
  /\ UNCHANGED fileVars

\* Commit without the lock: the run is not written.
GivesUp(r) ==
  /\ At(r, "pause") /\ r \in late
  /\ Goes(r, "failed") /\ Returns(r, "failed")
  /\ UNCHANGED <<lock, late, stolen, file, copy>>

\* Mutant: what was read before the lock was taken is used.
LoadHistory_Early(r) ==
  /\ At(r, "load")
  /\ Goes(r, "write")
  /\ UNCHANGED <<lock, late, stolen, file, copy, result>>

\* History::Load, under the lock.  A file that cannot be read is an empty
\* history.
LoadHistory(r) ==
  /\ At(r, "load")
  /\ IF file.state = "damaged"
     THEN copy' = [copy EXCEPT ![r] = <<>>] /\ Goes(r, "aside")
     ELSE copy' = [copy EXCEPT ![r] = file.listed] /\ Goes(r, "write")
  /\ UNCHANGED <<lock, late, stolen, file, result>>

\* ... and set aside; whether that succeeds is not looked at.
SetsAside(r) ==
  /\ At(r, "aside")
  /\ \/ file' = NoFile
     \/ "aside" \in Faults /\ UNCHANGED file
  /\ Goes(r, "write")
  /\ UNCHANGED <<lock, late, stolen, copy, result>>

Newest(s) == IF Len(s) > RunsKept THEN SubSeq(s, Len(s) - RunsKept + 1, Len(s)) ELSE s

\* WriteFileAtomically: a temporary file beside it, ...
WritesTemporary(r) ==
  /\ At(r, "write")
  /\ \/ Goes(r, "replace") /\ UNCHANGED result
     \/ "disk" \in Faults /\ Goes(r, "release") /\ Returns(r, "failed")
  /\ UNCHANGED <<lock, late, stolen, file, copy>>

\* ... and the rename.
Replaces(r) ==
  /\ At(r, "replace")
  /\ \/ file' = Intact(Newest(Append(copy[r], r))) /\ Returns(r, "saved")
     \/ "disk" \in Faults /\ UNCHANGED file /\ Returns(r, "failed")
  /\ Goes(r, "release")
  /\ UNCHANGED <<lock, late, stolen, copy>>

\* Mutant: the lock stays.
Releases_Forgets(r) ==
  /\ At(r, "release") /\ Goes(r, result[r])
  /\ UNCHANGED <<lock, late, stolen, fileVars>>

Releases(r) == Release(r, result[r]) /\ UNCHANGED fileVars

\* Another program, or a loss of power.
Damage ==
  /\ "damage" \in Faults
  /\ file.state = "intact"
  /\ file' = [file EXCEPT !.state = "damaged"]
  /\ UNCHANGED <<lockVars, copy, result>>

Ages == LockAges /\ UNCHANGED fileVars
Crash(r) == Dies(r) /\ UNCHANGED fileVars

RunStep(r) ==
  \/ LockStep(r) \/ GivesUp(r)
  \/ LoadHistory(r) \/ SetsAside(r) \/ WritesTemporary(r) \/ Replaces(r) \/ Releases(r)

Terminated == (\A r \in Runs : pc[r] \in Ended) /\ UNCHANGED vars

Next ==
  \/ \E r \in Runs : RunStep(r) \/ Crash(r)
  \/ Damage \/ Ages
  \/ Terminated

Spec == Init /\ [][Next]_vars

\* A run that lives goes on, and its wait ends.
FairSpec ==
  /\ Spec
  /\ \A r \in Runs : WF_vars(RunStep(r)) /\ WF_vars(WaitEnds(r) /\ UNCHANGED fileVars)
-----------------------------------------------------------------------------
(***************************************************************************)
(* Properties.                                                             *)
(***************************************************************************)

\* Two runs are never between taking and releasing the lock at the same time,
\* unless the lock file of a run that lives was removed as a stale one.
OneHolder ==
  ~stolen => \A r, q \in Runs : Holds(r) /\ Holds(q) => r = q

\* The store keeps the promise of the ledger.
Ledger == INSTANCE RunLedger WITH
  recorded <- file.listed, intact <- (file.state # "damaged"),
  answer <- result, exclusive <- ~stolen
KeepsLedger == Ledger!Spec

\* The lock file of a run that lives is removed by others only if a lock that
\* was really left behind, or a slow run, made it look old.
StealNeedsStale ==
  stolen => "slow" \in Faults \/ \E r \in Runs : pc[r] = "crashed"

\* A lock file does not outlive the commit that made it, unless its run died.
LockHasOwner ==
  lock # NoLock => Holds(lock.owner) \/ pc[lock.owner] = "crashed"

\* A run that lives comes to an end with an answer.
CommitEnds ==
  \A r \in Runs : <>(pc[r] \in Ended)

\* "Runs that finish at the same time all reach the file"
\* (docs/progmasoft-runner.md): those that were saved are in it.
AllReachTheFile ==
  file.state = "intact" =>
    \A r \in Runs : result[r] = "saved" => \E i \in DOMAIN file.listed : file.listed[i] = r
=============================================================================
