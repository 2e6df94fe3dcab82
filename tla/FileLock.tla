------------------------------ MODULE FileLock ------------------------------
(***************************************************************************)
(* The lock between runs (FileLock of Runner/Files.cpp): a file created    *)
(* exclusively beside the one it protects.  Every call of the file system  *)
(* is a step of its own; other runs take theirs in between.                *)
(*                                                                         *)
(* Time is not counted.  A lock file becomes `stale' when it is older than *)
(* 30 seconds, which a run that is not slow never lets happen while it     *)
(* lives; the wait of a run ends when it is `late'.                        *)
(***************************************************************************)
EXTENDS Naturals, Sequences, FiniteSets

CONSTANTS
  Runs,      \* the runs that finish at about the same time
  Faults     \* what may befall them

FaultKinds == {"crash", "slow", "disk", "aside", "damage"}
ASSUME FaultAssumption == Faults \subseteq FaultKinds

NoLock == [owner |-> "nobody", stale |-> FALSE]
ASSUME OwnerAssumption == "nobody" \notin Runs

VARIABLES
  pc,        \* where each run is
  lock,      \* the lock file: whose it is, and whether it is old
  late,      \* the runs whose wait is over
  stolen     \* whether the lock file of a run that holds it was removed

lockVars == <<pc, lock, late, stolen>>

Waiting == {"create", "stat", "break", "pause"}
Holding == {"load", "aside", "write", "replace", "release"}
Ended == {"saved", "failed", "crashed"}
Holds(r) == pc[r] \in Holding

LockTypeOK ==
  /\ pc \in [Runs -> Waiting \cup Holding \cup Ended]
  /\ lock \in {NoLock} \cup [owner : Runs, stale : BOOLEAN]
  /\ late \subseteq Runs /\ stolen \in BOOLEAN

LockInit ==
  /\ pc = [r \in Runs |-> "create"]
  /\ lock = NoLock /\ late = {} /\ stolen = FALSE

At(r, from) == pc[r] = from
Goes(r, to) == pc' = [pc EXCEPT ![r] = to]

\* The lock file is removed, whosever it is by now.
RemoveLock(r) ==
  /\ lock' = NoLock
  /\ stolen' = (stolen \/ lock.owner \in {q \in Runs \ {r} : Holds(q)})

\* Mutant: the file is created whether it exists or not.
TryCreate_NotExclusive(r) ==
  /\ At(r, "create")
  /\ lock' = [owner |-> r, stale |-> FALSE] /\ Goes(r, "load")
  /\ UNCHANGED <<late, stolen>>

\* CreateExclusively.
TryCreate(r) ==
  /\ At(r, "create")
  /\ IF lock = NoLock
     THEN lock' = [owner |-> r, stale |-> FALSE] /\ Goes(r, "load")
     ELSE UNCHANGED lock /\ Goes(r, "stat")
  /\ UNCHANGED <<late, stolen>>

\* Its age decides; a file that is gone by now has none.
LookAtAge(r) ==
  /\ At(r, "stat")
  /\ Goes(r, IF lock # NoLock /\ lock.stale THEN "break" ELSE "pause")
  /\ UNCHANGED <<lock, late, stolen>>

\* A lock that was old is removed by its name.
BreakLock(r) ==
  /\ At(r, "break")
  /\ RemoveLock(r)
  /\ Goes(r, "create")
  /\ UNCHANGED late

\* Mutant: the wait starts anew with every turn.
TryAgain_Anew(r) ==
  /\ At(r, "pause")
  /\ Goes(r, "create")
  /\ late' = late \ {r}
  /\ UNCHANGED <<lock, stolen>>

\* Ten milliseconds later the run tries again, unless its wait is over.
TryAgain(r) ==
  /\ At(r, "pause") /\ r \notin late
  /\ Goes(r, "create")
  /\ UNCHANGED <<lock, late, stolen>>

WaitEnds(r) ==
  /\ pc[r] \in Waiting /\ r \notin late
  /\ late' = late \cup {r}
  /\ UNCHANGED <<pc, lock, stolen>>

\* Time: the lock file of a run that died, or that is slow, gets old.
LockAges ==
  /\ lock # NoLock /\ ~lock.stale
  /\ Holds(lock.owner) => "slow" \in Faults
  /\ lock' = [lock EXCEPT !.stale = TRUE]
  /\ UNCHANGED <<pc, late, stolen>>

\* ~FileLock of a run that took the lock: the file is removed by its name.
Release(r, to) ==
  /\ At(r, "release")
  /\ RemoveLock(r)
  /\ Goes(r, to)
  /\ UNCHANGED late

\* The run dies, and leaves the lock file behind.
Dies(r) ==
  /\ "crash" \in Faults
  /\ pc[r] \notin Ended
  /\ Goes(r, "crashed")
  /\ UNCHANGED <<lock, late, stolen>>
=============================================================================
