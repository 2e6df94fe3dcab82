------------------------------- MODULE Worker -------------------------------
(***************************************************************************)
(* The worker processes: the loop of RunWorker (Runner/Execution.cpp) that *)
(* greets, reads commands and runs tests, and the ways a process can fail  *)
(* the runner.  A slot stands for one process; it is reused once the       *)
(* process has been reaped, when no message of it can be left.             *)
(*                                                                         *)
(* `output' is what the process has pushed to the runner through its       *)
(* reader threads and the runner has not taken yet.  "closed" stands for   *)
(* the later of the two events that say a stream ended.  Messages that     *)
(* only describe a test (sections, assertions, output) are left out.       *)
(***************************************************************************)
EXTENDS Naturals, Sequences, SequencesExt

CONSTANTS
  Slots,          \* room for processes that exist at the same time
  Catalog,        \* the tests of the binary
  Polluters,      \* the tests that leave state behind which a test sees
  EndsAlone,      \* how a test may end in a process without a polluter
  EndsPolluted,   \* how it may end after a polluter in the same process
  Faults          \* the faults of processes the environment may show

Reported == {"passed", "failed", "failed-as-expected", "skipped"}
Endings == Reported \cup {"crash", "fatal", "hang"}
FaultKinds == {"spawn", "start", "slow", "mismatch", "idle", "exit"}

ASSUME CatalogAssumption ==
  /\ Polluters \in [Catalog -> SUBSET Catalog]
  /\ EndsAlone \in [Catalog -> SUBSET Endings]
  /\ EndsPolluted \in [Catalog -> SUBSET Endings]
  /\ Faults \subseteq FaultKinds

NoTest == "no test"
Quit == "quit"
ASSUME NoTestAssumption == NoTest \notin Catalog /\ Quit \notin Catalog

VARIABLES
  process,    \* the state of the process in a slot
  current,    \* the test it is inside
  commands,   \* what the runner wrote and it has not read: tests, "quit"
  output,     \* what it sent and the runner has not taken
  ran         \* the tests it has run to their end, in order

processVars == <<process, current, commands, output, ran>>

ProcessStates ==
  {"none", "starting", "idle", "running", "raising", "hung", "killed", "gone"}
Message(kind, is) == [kind |-> kind, is |-> is]
Messages ==
  [kind : {"hello"}, is : {"same", "other"}] \cup [kind : {"end"}, is : Reported]
    \cup [kind : {"fatal", "closed"}, is : {""}]
Closed == Message("closed", "")

ProcessTypeOK ==
  /\ process \in [Slots -> ProcessStates]
  /\ current \in [Slots -> Catalog \cup {NoTest}]
  /\ commands \in [Slots -> Seq(Catalog \cup {Quit})]
  /\ output \in [Slots -> Seq(Messages)]
  /\ ran \in [Slots -> Seq(Catalog)]

ProcessInit ==
  /\ process = [w \in Slots |-> "none"]
  /\ current = [w \in Slots |-> NoTest]
  /\ commands = [w \in Slots |-> <<>>]
  /\ output = [w \in Slots |-> <<>>]
  /\ ran = [w \in Slots |-> <<>>]

(***************************************************************************)
(* Steps of a process.                                                     *)
(***************************************************************************)
Sends(w, messages) == output' = [output EXCEPT ![w] = @ \o messages]
Becomes(w, state) == process' = [process EXCEPT ![w] = state]
Dies(w) == Becomes(w, "gone") /\ Sends(w, <<Closed>>)

\* The greeting carries the identity of the tests the process sees; it
\* differs when the binary changed during the run.
Greets(w) ==
  /\ process[w] = "starting"
  /\ Becomes(w, "idle")
  /\ \E identity \in IF "mismatch" \in Faults THEN {"same", "other"} ELSE {"same"} :
       Sends(w, <<Message("hello", identity)>>)
  /\ UNCHANGED <<current, commands, ran>>

\* No stream, no catalog, or a crash or a hang before the greeting.
FailsToStart(w) ==
  /\ "start" \in Faults
  /\ process[w] = "starting"
  /\ \/ Dies(w)
     \/ Becomes(w, "hung") /\ UNCHANGED output
  /\ UNCHANGED <<current, commands, ran>>

TakesRun(w) ==
  /\ process[w] = "idle"
  /\ commands[w] # <<>> /\ Head(commands[w]) # Quit
  /\ Becomes(w, "running")
  /\ current' = [current EXCEPT ![w] = Head(commands[w])]
  /\ commands' = [commands EXCEPT ![w] = Tail(@)]
  /\ UNCHANGED <<output, ran>>

\* Leaving the loop ends the process, unless something keeps it from ending:
\* a thread, an exit handler, a child that holds its streams.
TakesQuit(w) ==
  /\ process[w] = "idle"
  /\ commands[w] # <<>> /\ Head(commands[w]) = Quit
  /\ commands' = [commands EXCEPT ![w] = Tail(@)]
  /\ \/ Dies(w)
     \/ "exit" \in Faults /\ Becomes(w, "hung") /\ UNCHANGED output
  /\ UNCHANGED <<current, ran>>

EndsOf(w) ==
  IF Polluters[current[w]] \cap Range(ran[w]) # {}
  THEN EndsPolluted[current[w]]
  ELSE EndsAlone[current[w]]

EndsTest(w) ==
  /\ process[w] = "running"
  /\ \E outcome \in EndsOf(w) \cap Reported : Sends(w, <<Message("end", outcome)>>)
  /\ Becomes(w, "idle")
  /\ ran' = [ran EXCEPT ![w] = Append(@, current[w])]
  /\ current' = [current EXCEPT ![w] = NoTest]
  /\ UNCHANGED commands

\* It dies without a word: exit, abort, a signal nothing can handle.
Crashes(w) ==
  /\ process[w] = "running"
  /\ "crash" \in EndsOf(w)
  /\ Dies(w)
  /\ UNCHANGED <<current, commands, ran>>

\* A signal that is handled: the engine reports it, closes the test case and
\* raises the signal again.
ReportsFatal(w) ==
  /\ process[w] = "running"
  /\ "fatal" \in EndsOf(w)
  /\ Becomes(w, "raising")
  /\ Sends(w, <<Message("fatal", ""), Message("end", "failed")>>)
  /\ UNCHANGED <<current, commands, ran>>

Raises(w) ==
  /\ process[w] = "raising"
  /\ Dies(w)
  /\ UNCHANGED <<current, commands, ran>>

Hangs(w) ==
  /\ process[w] = "running"
  /\ "hang" \in EndsOf(w)
  /\ Becomes(w, "hung")
  /\ UNCHANGED <<current, commands, output, ran>>

\* What a test left behind, a thread for example, ends the process later.
DiesIdle(w) ==
  /\ "idle" \in Faults
  /\ process[w] = "idle"
  /\ Dies(w)
  /\ UNCHANGED <<current, commands, ran>>

\* The streams of a killed process close some time after the signal.
StreamsClose(w) ==
  /\ process[w] = "killed"
  /\ Dies(w)
  /\ UNCHANGED <<current, commands, ran>>

ProcessStep(w) ==
  \/ Greets(w) \/ FailsToStart(w) \/ TakesRun(w) \/ TakesQuit(w)
  \/ EndsTest(w) \/ Crashes(w) \/ ReportsFatal(w) \/ Raises(w) \/ Hangs(w)
  \/ DiesIdle(w) \/ StreamsClose(w)
=============================================================================
