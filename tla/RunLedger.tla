----------------------------- MODULE RunLedger ------------------------------
(***************************************************************************)
(* What the history promises runs that finish at the same time: each run   *)
(* is added once, after those that are there, or is told that it was not;  *)
(* none takes another's place.  The promise holds as long as no run loses  *)
(* its lock; what a damaged file held is not part of it.                   *)
(***************************************************************************)
EXTENDS Naturals, Sequences

CONSTANTS
  Runs,
  RunsKept     \* how many runs the history keeps

VARIABLES
  recorded,    \* the runs in the history
  intact,      \* whether its file can be read
  answer,      \* what each run was told
  exclusive    \* whether no run has lost its lock

vars == <<recorded, intact, answer, exclusive>>

Newest(s) == IF Len(s) > RunsKept THEN SubSeq(s, Len(s) - RunsKept + 1, Len(s)) ELSE s

Init ==
  /\ recorded = <<>> /\ intact = TRUE
  /\ answer = [r \in Runs |-> "none"]
  /\ exclusive = TRUE

Answers(r, what) ==
  /\ answer[r] = "none"
  /\ answer' = [answer EXCEPT ![r] = what]

\* A run is added.  What could not be read may be gone then.
Record(r) ==
  /\ Answers(r, "saved")
  /\ \/ recorded' = Newest(Append(recorded, r))
     \/ ~intact /\ recorded' = Newest(<<r>>)
  /\ intact' = TRUE
  /\ UNCHANGED exclusive

Refuse(r) ==
  /\ Answers(r, "failed")
  /\ UNCHANGED <<recorded, intact, exclusive>>

Damage ==
  /\ intact' = FALSE
  /\ UNCHANGED <<recorded, answer, exclusive>>

\* A file that cannot be read is put out of the way.
SetAside ==
  /\ ~intact
  /\ recorded' = <<>> /\ intact' = TRUE
  /\ UNCHANGED <<answer, exclusive>>

LoseLock ==
  /\ exclusive' = FALSE
  /\ UNCHANGED <<recorded, intact, answer>>

Kept ==
  \/ \E r \in Runs : Record(r) \/ Refuse(r)
  \/ Damage \/ SetAside \/ LoseLock
Unkept == ~exclusive /\ ~exclusive'

Next == Kept \/ Unkept

Spec == Init /\ [][Next]_vars
=============================================================================
