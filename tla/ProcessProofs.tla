---------------------------- MODULE ProcessProofs -----------------------------
(***************************************************************************)
(* What the runner believes of its processes, for every plan: which test a *)
(* process is inside and what it ran before, however the messages, the     *)
(* deaths and the time limits of the processes interleave with the loop,   *)
(* and what follows for exclusion, for --jobs, for the verdicts and for    *)
(* the search for the test that breaks another.                            *)
(***************************************************************************)
EXTENDS SchedulerProofs, SequenceTheorems

-----------------------------------------------------------------------------
(***************************************************************************)
(* What a process has sent and the runner has not handled: some messages,  *)
(* and the end of its streams when it is gone.                             *)
(***************************************************************************)
Pipe(w) == batch[w] \o output[w]
Said(w, messages) == Pipe(w) = messages \/ Pipe(w) = Append(messages, Closed)

Hello(identity) == Message("hello", identity)
End(outcome) == Message("end", outcome)
Fatal == Message("fatal", "")
Identities == {"same", "other"}

\* The messages are different ones.
LEMMA MessageKinds ==
  /\ \A i \in Identities : Hello(i) \in Messages /\ Hello(i).kind = "hello" /\ Hello(i).is = i
  /\ \A x \in Reported : End(x) \in Messages /\ End(x).kind = "end" /\ End(x).is = x
  /\ Fatal \in Messages /\ Fatal.kind = "fatal" /\ Closed \in Messages /\ Closed.kind = "closed"
  /\ "failed" \in Reported
  BY DEF Hello, End, Fatal, Closed, Message, Messages, Identities, Reported

\* The first message of a pipe is taken.
LEMMA PipeTaken ==
  ASSUME NEW M, NEW b \in Seq(M), NEW o \in Seq(M), b # <<>>
  PROVE  b \o o \in Seq(M) /\ b \o o # <<>> /\ Head(b \o o) = Head(b) /\ Tail(b \o o) = Tail(b) \o o
  OBVIOUS

\* What is left of what was said.
LEMMA SaidTaken ==
  ASSUME NEW M, NEW last \in M, NEW s \in Seq(M), NEW p \in Seq(M), p # <<>>,
         p = s \/ p = Append(s, last)
  PROVE  IF s = <<>> THEN Head(p) = last /\ Tail(p) = <<>>
         ELSE Head(p) = Head(s) /\ (Tail(p) = Tail(s) \/ Tail(p) = Append(Tail(s), last))
  OBVIOUS

\* A message is added to a pipe.
LEMMA PipeSent ==
  ASSUME NEW M, NEW b \in Seq(M), NEW o \in Seq(M), NEW s \in Seq(M)
  PROVE  b \o (o \o s) = (b \o o) \o s
  BY ConcatAssociative, SMTT(60)

\* What the next message of a worker is, and what remains.
LEMMA NextMessage ==
  ASSUME TypeInv, NEW w \in Slots, batch[w] # <<>>,
         batch' = [batch EXCEPT ![w] = Tail(@)], output' = output
  PROVE  /\ \A v \in Slots \ {w} : Pipe(v)' = Pipe(v)
         /\ Said(w, <<>>) => Head(batch[w]) = Closed /\ Said(w, <<>>)'
         /\ \A m \in Messages : Said(w, <<m>>) => Head(batch[w]) = m /\ Said(w, <<>>)'
         /\ \A m, n \in Messages : Said(w, <<m, n>>) => Head(batch[w]) = m /\ Said(w, <<n>>)'
<1>1. batch \in [Slots -> Seq(Messages)] /\ output \in [Slots -> Seq(Messages)]
  BY DEF TypeInv, TypeOK, LoopTypeOK, ProcessTypeOK
<1>2. /\ Pipe(w) \in Seq(Messages) /\ Pipe(w) # <<>>
      /\ Head(Pipe(w)) = Head(batch[w]) /\ Pipe(w)' = Tail(Pipe(w))
  BY <1>1, PipeTaken, SMTT(60) DEF Pipe
<1>3. \A v \in Slots \ {w} : Pipe(v)' = Pipe(v)
  BY <1>1 DEF Pipe
<1>4. ASSUME NEW s \in Seq(Messages), Said(w, s)
      PROVE  IF s = <<>> THEN Head(batch[w]) = Closed /\ Said(w, <<>>)'
             ELSE Head(batch[w]) = Head(s) /\ Said(w, Tail(s))'
  <2>1. IF s = <<>> THEN Head(Pipe(w)) = Closed /\ Tail(Pipe(w)) = <<>>
        ELSE Head(Pipe(w)) = Head(s)
               /\ (Tail(Pipe(w)) = Tail(s) \/ Tail(Pipe(w)) = Append(Tail(s), Closed))
    BY <1>2, <1>4, SaidTaken, MessageKinds DEF Said
  <2> QED
    BY <1>2, <2>1 DEF Said
<1>5. Said(w, <<>>) => Head(batch[w]) = Closed /\ Said(w, <<>>)'
  <2>1. <<>> \in Seq(Messages)
    OBVIOUS
  <2> QED
    BY <1>4, <2>1
<1>6. \A m \in Messages : Said(w, <<m>>) => Head(batch[w]) = m /\ Said(w, <<>>)'
  <2>1. \A m \in Messages : <<m>> \in Seq(Messages) /\ <<m>> # <<>>
                              /\ Head(<<m>>) = m /\ Tail(<<m>>) = <<>>
    OBVIOUS
  <2> QED
    BY <1>4, <2>1
<1>7. \A m, n \in Messages : Said(w, <<m, n>>) => Head(batch[w]) = m /\ Said(w, <<n>>)'
  <2>1. \A m, n \in Messages : <<m, n>> \in Seq(Messages) /\ <<m, n>> # <<>>
                                 /\ Head(<<m, n>>) = m /\ Tail(<<m, n>>) = <<n>>
    OBVIOUS
  <2> QED
    BY <1>4, <2>1
<1> QED
  BY <1>3, <1>5, <1>6, <1>7

\* A process says something, or its streams close.
LEMMA SaysMore ==
  ASSUME TypeInv, NEW w \in Slots, process[w] # "gone",
         NEW more \in Seq(Messages), Sends(w, more), batch' = batch
  PROVE  /\ \A v \in Slots \ {w} : Pipe(v)' = Pipe(v)
         /\ Said(w, <<>>) => Said(w, more)'
         /\ more = <<Closed>> => \A s \in Seq(Messages) : Said(w, s) => Said(w, s)'
<1>1. batch \in [Slots -> Seq(Messages)] /\ output \in [Slots -> Seq(Messages)]
  BY DEF TypeInv, TypeOK, LoopTypeOK, ProcessTypeOK
<1>2. output' = [output EXCEPT ![w] = @ \o more]
  BY DEF Sends
<1>3. Pipe(w) \in Seq(Messages) /\ Pipe(w)' = Pipe(w) \o more
  BY <1>1, <1>2, PipeSent, SMTT(60) DEF Pipe
<1>4. \A v \in Slots \ {w} : Pipe(v)' = Pipe(v)
  BY <1>1, <1>2 DEF Pipe
<1>5. ASSUME NEW s \in Seq(Messages), Said(w, s) PROVE Pipe(w) = s
  <2>1. SUFFICES ASSUME Pipe(w) = Append(s, Closed) PROVE FALSE
    BY <1>5 DEF Said
  <2> DEFINE b == batch[w]
             o == output[w]
  <2>2. /\ \A i \in DOMAIN b : b[i] # Closed
        /\ \A i \in DOMAIN o : o[i] # Closed
    BY DEF TypeInv, ClosedIsLast
  <2>3. b \in Seq(Messages) /\ o \in Seq(Messages) /\ b \o o = Append(s, Closed)
    BY <1>1, <2>1 DEF Pipe
  <2> HIDE DEF b, o
  <2>4. Len(b) + Len(o) = Len(s) + 1 /\ (b \o o)[Len(s) + 1] = Closed
    <3>1. Len(b \o o) = Len(s) + 1 /\ Append(s, Closed)[Len(s) + 1] = Closed
      BY <2>3, MessageKinds
    <3> QED
      BY <2>3, <3>1
  <2>5. (b \o o)[Len(s) + 1] = IF Len(s) + 1 <= Len(b) THEN b[Len(s) + 1]
                               ELSE o[Len(s) + 1 - Len(b)]
    BY <2>3, <2>4
  <2> QED
    BY <2>2, <2>3, <2>4, <2>5
<1>6. Said(w, <<>>) => Said(w, more)'
  <2>1. ASSUME Said(w, <<>>) PROVE Pipe(w)' = more
    <3>1. <<>> \in Seq(Messages)
      OBVIOUS
    <3>2. Pipe(w) = <<>>
      BY <1>5, <2>1, <3>1
    <3> QED
      BY <1>3, <3>2
  <2> QED
    BY <2>1 DEF Said
<1>7. ASSUME more = <<Closed>>, NEW s \in Seq(Messages), Said(w, s) PROVE Said(w, s)'
  <2>1. Pipe(w)' = s \o <<Closed>>
    BY <1>3, <1>5, <1>7
  <2>2. s \o <<Closed>> = Append(s, Closed)
    BY MessageKinds
  <2> QED
    BY <2>1, <2>2 DEF Said
<1> QED
  BY <1>4, <1>6, <1>7
-----------------------------------------------------------------------------
(***************************************************************************)
(* The course of a process.                                                *)
(***************************************************************************)
Over == {"killed", "gone"}

\* It is in no test, and has run what the runner believes.
Outside(w) == current[w] = NoTest /\ history[w] = ran[w]

\* It has not greeted, or the greeting is on its way.
Unstarted(w) ==
  /\ w \notin ready /\ ~IsRunning(w) /\ Outside(w) /\ ran[w] = <<>> /\ commands[w] = <<>>
  /\ \/ Said(w, <<>>) /\ process[w] \in {"starting", "hung"} \cup Over
     \/ /\ \E i \in Identities : Said(w, <<Hello(i)>>)
        /\ process[w] \in {"idle"} \cup Over

\* It waits for a command, or was told to quit, which happens without a job.
Waiting(w) ==
  /\ w \in ready /\ ~IsRunning(w) /\ Outside(w) /\ Said(w, <<>>)
  /\ \/ commands[w] = <<>> /\ process[w] \in {"idle"} \cup Over
     \/ /\ w \in quitting /\ job[w] = NoJob
        /\ commands[w] \in {<<>>, <<Quit>>} /\ process[w] \in {"idle", "hung"} \cup Over

\* The test it is to run is on its way.
Sent(w) ==
  /\ w \in ready /\ IsRunning(w) /\ ~running[w].fatal /\ Outside(w) /\ Said(w, <<>>)
  /\ commands[w] = <<running[w].test>>
  /\ process[w] \in {"idle"} \cup Over

\* It is inside that test; a signal was reported or not, handled or not.
Inside(w) ==
  /\ w \in ready /\ IsRunning(w) /\ history[w] = ran[w]
  /\ current[w] = running[w].test /\ commands[w] = <<>>
  /\ \/ Said(w, <<>>) /\ ~running[w].fatal /\ process[w] \in {"running", "hung"} \cup Over
     \/ /\ process[w] \in {"raising"} \cup Over
        /\ \/ ~running[w].fatal /\ Said(w, <<Fatal, End("failed")>>)
           \/ running[w].fatal /\ (Said(w, <<End("failed")>>) \/ Said(w, <<>>))

\* It has run the test; the runner does not know yet.
Ended(w) ==
  /\ w \in ready /\ IsRunning(w) /\ ~running[w].fatal /\ current[w] = NoTest /\ commands[w] = <<>>
  /\ ran[w] = Append(history[w], running[w].test)
  /\ \E x \in Reported : Said(w, <<End(x)>>)
  /\ process[w] \in {"idle"} \cup Over

Moment(w) == Unstarted(w) \/ Waiting(w) \/ Sent(w) \/ Inside(w) \/ Ended(w)

\* A job waits for the greeting or is under way; who has none has greeted; who
\* is to quit with a job has been killed.
JobGoesOn(w) ==
  /\ IF job[w] = NoJob THEN w \in ready ELSE IsRunning(w) \/ w \in pendingStart
  /\ w \in quitting /\ job[w] # NoJob => process[w] \in Over

\* What runs is the current step of the job.
RunsItsStep(w) ==
  IsRunning(w) => /\ running[w].test = StepTest(job[w], step[w])
                  /\ running[w].target = (step[w] >= Len(job[w].before))

\* A job that needs a fresh process has a worker to itself, which has run the
\* tests of the job up to the current step and no other.
RunsAlone(w) ==
  job[w] # NoJob =>
    /\ NeedsFresh(job[w]) => w \in dedicated
    /\ w \in dedicated => /\ step[w] <= Len(job[w].before)
                          /\ history[w] = SubSeq(job[w].before, 1, step[w])

\* A free slot is blank.
Blank(w) ==
  /\ ran[w] = <<>> /\ history[w] = <<>> /\ current[w] = NoTest /\ commands[w] = <<>>
  /\ step[w] = 0 /\ process[w] = "none"

SlotInv(w) ==
  IF w \in workers THEN Moment(w) /\ JobGoesOn(w) /\ RunsItsStep(w) /\ RunsAlone(w) ELSE Blank(w)
SlotsInv == \A w \in Slots : SlotInv(w)

\* Events are handled before the next are taken.
BatchHandled == pc # "handle" => \A w \in Slots : batch[w] = <<>>

\* Not more workers are live than --jobs allows.
LiveLimit == IsFiniteSet(workers) /\ Cardinality(Live) <= MaximumWorkers

ProcessInv == TypeInv /\ BatchHandled /\ SlotsInv /\ LiveLimit

\* What concerns slot w does not change, but that its process may be killed.
Stays(w) ==
  /\ w \in workers' <=> w \in workers
  /\ w \in ready' <=> w \in ready
  /\ w \in dedicated' <=> w \in dedicated
  /\ w \in pendingStart' <=> w \in pendingStart
  /\ w \in quitting => w \in quitting'
  /\ w \in quitting' => w \in quitting \/ job[w] = NoJob \/ process'[w] \in Over
  /\ job'[w] = job[w] /\ step'[w] = step[w] /\ running'[w] = running[w]
  /\ history'[w] = history[w] /\ ran'[w] = ran[w] /\ current'[w] = current[w]
  /\ commands'[w] = commands[w] /\ Pipe(w)' = Pipe(w)
  /\ process'[w] = process[w] \/ (w \in workers /\ process'[w] = "killed")

\* A slot that stays as it is keeps its moment.
LEMMA StaysFits ==
  ASSUME NEW w \in Slots, SlotInv(w), Stays(w)
  PROVE  SlotInv(w)'
<1>1. \A s : Said(w, s)' <=> Said(w, s)
  BY DEF Said, Stays
<1>2. IsRunning(w)' <=> IsRunning(w)
  BY DEF Stays, IsRunning
<1>3. CASE w \notin workers
  BY <1>3 DEF Stays, SlotInv, Blank
<1>4. CASE w \in workers
  <2>1. process'[w] = process[w] \/ process'[w] \in Over
    BY DEF Stays, Over
  <2>2. Outside(w)' <=> Outside(w)
    BY DEF Stays, Outside
  <2>3. Unstarted(w) => Unstarted(w)'
    BY <1>1, <1>2, <2>1, <2>2 DEF Unstarted, Stays
  <2>4. Waiting(w) => Waiting(w)'
    BY <1>1, <1>2, <2>1, <2>2 DEF Waiting, Stays
  <2>5. Sent(w) => Sent(w)'
    BY <1>1, <1>2, <2>1, <2>2 DEF Sent, Stays
  <2>6. Inside(w) => Inside(w)'
    BY <1>1, <1>2, <2>1 DEF Inside, Stays
  <2>7. Ended(w) => Ended(w)'
    BY <1>1, <1>2, <2>1 DEF Ended, Stays
  <2>8. JobGoesOn(w) => JobGoesOn(w)'
    BY <1>2, <2>1 DEF JobGoesOn, Stays, Over
  <2>9. RunsItsStep(w) => RunsItsStep(w)'
    BY <1>2 DEF RunsItsStep, Stays
  <2>10. RunsAlone(w) => RunsAlone(w)'
    BY DEF RunsAlone, Stays
  <2> QED
    BY <1>4, <2>3, <2>4, <2>5, <2>6, <2>7, <2>8, <2>9, <2>10 DEF SlotInv, Moment, Stays
<1> QED
  BY <1>3, <1>4

\* The types these are about.
LEMMA SlotTypes ==
  ASSUME TypeInv
  PROVE  /\ process \in [Slots -> ProcessStates] /\ current \in [Slots -> Catalog \cup {NoTest}]
         /\ commands \in [Slots -> Seq(Catalog \cup {Quit})] /\ ran \in [Slots -> Seq(Catalog)]
         /\ output \in [Slots -> Seq(Messages)] /\ batch \in [Slots -> Seq(Messages)]
         /\ job \in [Slots -> Jobs \cup {NoJob}] /\ step \in [Slots -> Nat]
         /\ running \in [Slots -> [test : Catalog \cup {NoTest}, target : BOOLEAN, fatal : BOOLEAN]]
         /\ history \in [Slots -> Seq(Catalog)] /\ workers \subseteq Slots /\ NoJob \notin Jobs
         /\ \A w \in Slots : IsRunning(w) =>
              job[w] \in Jobs /\ job[w] # NoJob /\ running[w].test \in Catalog
                /\ running[w].test # NoTest /\ running[w].test # Quit
         /\ \A w \in Slots : w \in pendingStart => job[w] \in Jobs /\ ~IsRunning(w)
<1>1. NoJob \notin Jobs
  BY DEF NoJob, Jobs, Job
<1> QED
  BY <1>1, NoTestAssumption
     DEF TypeInv, TypeOK, ProcessTypeOK, LoopTypeOK, WorkerTypeOK, JobsUnderWay

\* Where a worker is in its course.
LEMMA Phase ==
  ASSUME TypeInv, NEW w \in Slots, w \in workers, SlotInv(w)
  PROVE  /\ w \notin ready => Unstarted(w)
         /\ w \in ready /\ ~IsRunning(w) => Waiting(w)
         /\ IsRunning(w) => w \in ready /\ (Sent(w) \/ Inside(w) \/ Ended(w))
         /\ JobGoesOn(w) /\ RunsItsStep(w) /\ RunsAlone(w) /\ process[w] # "none"
<1>1. Moment(w)
  BY DEF SlotInv
<1>2. process[w] # "none"
  BY <1>1 DEF Moment, Unstarted, Waiting, Sent, Inside, Ended, Over
<1> QED
  BY <1>1, <1>2 DEF SlotInv, Moment, Unstarted, Waiting, Sent, Inside, Ended

\* Steps that leave the slots alone.
LEMMA SlotsStay ==
  ASSUME ProcessInv,
         UNCHANGED <<workers, ready, dedicated, quitting, pendingStart, job, step, running,
                     history, batch, process, current, commands, output, ran>>
  PROVE  SlotsInv'
<1>1. \A w \in Slots : Stays(w)
  BY DEF Stays, Pipe
<1> QED
  BY <1>1, StaysFits DEF ProcessInv, SlotsInv

\* Workers without a job are told to quit.
LEMMA SendQuitFits ==
  ASSUME ProcessInv, NEW some \in SUBSET Jobless, SendQuit(some),
         UNCHANGED <<workers, ready, dedicated, pendingStart, job, step, running,
                     history, batch, process, current, output, ran>>
  PROVE  SlotsInv'
<1>1. SUFFICES ASSUME NEW w \in Slots PROVE SlotInv(w)'
  BY DEF SlotsInv
<1>2. SlotInv(w) /\ TypeInv
  BY DEF ProcessInv, SlotsInv
<1>3. quitting' = quitting \cup some
  BY DEF SendQuit
<1>4. CASE w \in some \ quitting
  <2>1. w \in workers /\ job[w] = NoJob /\ ~IsRunning(w)
    BY <1>2, <1>4, SlotTypes DEF Jobless
  <2>2. Waiting(w) /\ JobGoesOn(w) /\ RunsItsStep(w) /\ RunsAlone(w)
    BY <1>2, <2>1, Phase DEF JobGoesOn
  <2>3. commands[w] = <<>> /\ commands'[w] = Append(commands[w], Quit)
    BY <1>4, <2>2 DEF Waiting, SendQuit
  <2>4. commands'[w] = <<Quit>>
    BY <2>3
  <2>5. Waiting(w)'
    BY <1>3, <1>4, <2>1, <2>2, <2>4 DEF Waiting, Outside, Said, Pipe, IsRunning
  <2>6. JobGoesOn(w)' /\ RunsItsStep(w)' /\ RunsAlone(w)'
    BY <2>1, <2>2 DEF JobGoesOn, RunsItsStep, RunsAlone, IsRunning
  <2> QED
    BY <2>1, <2>5, <2>6 DEF SlotInv, Moment
<1>5. CASE w \notin some \ quitting
  <2>1. commands'[w] = commands[w]
    BY <1>5 DEF SendQuit
  <2>2. Stays(w)
    BY <1>3, <2>1 DEF Stays, Pipe, Jobless
  <2> QED
    BY <1>2, <2>2, StaysFits
<1> QED
  BY <1>4, <1>5

\* A test is sent to a worker that has run what the runner believes.
LEMMA StartStepFits ==
  ASSUME TypeInv, NEW w \in Slots, NEW j \in Jobs, NEW s \in Nat, StartStep(w, j, s),
         w \in ready', commands[w] = <<>>, process'[w] \in {"idle"} \cup Over,
         Said(w, <<>>)', Outside(w)', job'[w] = j, step'[w] = s
  PROVE  Sent(w)' /\ RunsItsStep(w)' /\ IsRunning(w)'
         /\ running'[w].test = StepTest(j, s) /\ running'[w].target = (s >= Len(j.before))
<1>1. running'[w] = Running(StepTest(j, s), s >= Len(j.before))
  BY SlotTypes DEF StartStep
<1>2. running'[w].test \in Catalog
  BY StartStepType
<1>3. /\ running'[w].test = StepTest(j, s) /\ ~running'[w].fatal
      /\ running'[w].target = (s >= Len(j.before))
  BY <1>1 DEF Running
<1>4. IsRunning(w)'
  BY <1>2, NoTestAssumption DEF IsRunning, NotRunning, Running
<1>5. commands'[w] = <<running'[w].test>>
  BY <1>3, SlotTypes DEF StartStep
<1>6. RunsItsStep(w)'
  BY <1>3 DEF RunsItsStep
<1> QED
  BY <1>3, <1>4, <1>5, <1>6 DEF Sent

\* When one slot moves, only its moment is to be shown.
LEMMA OneSlotMoves ==
  ASSUME ProcessInv, NEW w \in Slots, \A v \in Slots \ {w} : Stays(v), SlotInv(w)'
  PROVE  SlotsInv'
  BY StaysFits DEF ProcessInv, SlotsInv
-----------------------------------------------------------------------------
(***************************************************************************)
(* The steps of the loop.                                                  *)
(***************************************************************************)

\* An idle worker is sent the first test of its new job.
LEMMA AssignFits ==
  ASSUME ProcessInv, Assign
  PROVE  SlotsInv'
<1>1. PICK i \in DOMAIN queue, w \in Idle :
        /\ CanShare(queue[i])
        /\ job' = [job EXCEPT ![w] = queue[i]] /\ step' = [step EXCEPT ![w] = 0]
        /\ StartStep(w, queue[i], 0)
  BY DEF Assign
<1>2. UNCHANGED <<pc, batch, workers, ready, dedicated, quitting, history, pendingStart,
                  process, current, output, ran>>
  BY DEF Assign, flagVars
<1>3. TypeInv /\ SlotsInv
  BY DEF ProcessInv
<1>4. w \in Slots /\ w \in workers /\ w \in ready /\ w \notin dedicated /\ w \notin quitting
      /\ job[w] = NoJob
  BY <1>3, SlotTypes DEF Idle, Live
<1>5. queue[i] \in Jobs /\ queue[i] # NoJob
  BY <1>3, TakenJobType, SlotTypes
<1>6. Waiting(w) /\ commands[w] = <<>> /\ process[w] \in {"idle"} \cup Over
  BY <1>3, <1>4, Phase, SlotTypes DEF SlotsInv, Waiting
<1>7. job'[w] = queue[i] /\ step'[w] = 0
  BY <1>1, <1>3, <1>4, SlotTypes
<1>8. Said(w, <<>>)' /\ Outside(w)'
  BY <1>2, <1>6 DEF Waiting, Said, Pipe, Outside
<1>9. Sent(w)' /\ RunsItsStep(w)' /\ IsRunning(w)'
  BY <1>1, <1>2, <1>3, <1>4, <1>5, <1>6, <1>7, <1>8, StartStepFits
<1>10. JobGoesOn(w)' /\ RunsAlone(w)'
  BY <1>1, <1>2, <1>4, <1>5, <1>7, <1>9 DEF JobGoesOn, RunsAlone, CanShare
<1>11. \A v \in Slots \ {w} : Stays(v)
  BY <1>1, <1>2, <1>3, SlotTypes DEF Stays, Pipe, StartStep
<1> QED
  BY <1>2, <1>4, <1>9, <1>10, <1>11, OneSlotMoves DEF SlotInv, Moment

\* A new process waits to greet before its job starts.
LEMMA SpawnFits ==
  ASSUME ProcessInv, Spawn
  PROVE  SlotsInv'
<1>1. PICK i \in DOMAIN queue, w \in Slots \ workers :
        /\ workers' = workers \cup {w} /\ pendingStart' = pendingStart \cup {w}
        /\ dedicated' = IF NeedsFresh(queue[i]) THEN dedicated \cup {w} ELSE dedicated
        /\ job' = [job EXCEPT ![w] = queue[i]] /\ Becomes(w, "starting")
  BY DEF Spawn
<1>2. UNCHANGED <<batch, ready, quitting, step, running, history, current, commands, output, ran>>
  BY DEF Spawn
<1>3. TypeInv /\ SlotsInv
  BY DEF ProcessInv
<1>4. queue[i] \in Jobs /\ queue[i] # NoJob /\ queue[i].before \in Seq(Catalog)
  BY <1>3, TakenJobType, SlotTypes DEF Jobs
<1>5. /\ w \notin ready /\ w \notin quitting /\ w \notin dedicated /\ w \in workers'
      /\ job'[w] = queue[i] /\ process'[w] = "starting" /\ w \in pendingStart'
  BY <1>1, <1>3, SlotTypes DEF TypeInv, TypeOK, WorkerTypeOK, Becomes
<1>6. /\ Blank(w) /\ running[w] = NotRunning /\ batch[w] = <<>> /\ output[w] = <<>>
  BY <1>3 DEF SlotsInv, SlotInv, TypeInv, VacantSlots
<1>7. Unstarted(w)'
  <2>1. Said(w, <<>>)'
    BY <1>2, <1>6 DEF Said, Pipe
  <2> QED
    BY <1>2, <1>5, <1>6, <2>1 DEF Unstarted, Outside, Blank, IsRunning
<1>8. JobGoesOn(w)' /\ RunsItsStep(w)'
  BY <1>2, <1>4, <1>5, <1>6 DEF JobGoesOn, RunsItsStep, IsRunning
<1>9. RunsAlone(w)'
  <2>1. SubSeq(queue[i].before, 1, 0) = <<>> /\ 0 <= Len(queue[i].before)
    BY <1>4
  <2> QED
    BY <1>1, <1>2, <1>5, <1>6, <2>1 DEF RunsAlone, Blank
<1>10. \A v \in Slots \ {w} : Stays(v)
  BY <1>1, <1>2, <1>3, SlotTypes DEF Stays, Pipe, Becomes
<1> QED
  BY <1>5, <1>7, <1>8, <1>9, <1>10, OneSlotMoves DEF SlotInv, Moment

\* A worker that has greeted is sent the first test of its job.
LEMMA StartPendingFits ==
  ASSUME ProcessInv, StartPending
  PROVE  SlotsInv'
<1>1. PICK w \in Startable :
        pendingStart' = pendingStart \ {w} /\ StartStep(w, job[w], step[w])
  BY DEF StartPending
<1>2. UNCHANGED <<batch, workers, ready, dedicated, quitting, job, step, history,
                  process, current, output, ran>>
  BY DEF StartPending, flagVars
<1>3. TypeInv /\ SlotsInv
  BY DEF ProcessInv
<1>4. w \in Slots /\ w \in workers /\ w \in ready /\ w \in pendingStart
      /\ job[w] \in Jobs /\ job[w] # NoJob /\ ~IsRunning(w) /\ step[w] \in Nat
  BY <1>3, SlotTypes DEF Startable, TypeInv, TypeOK, WorkerTypeOK
<1>5. Waiting(w) /\ JobGoesOn(w) /\ RunsAlone(w)
  BY <1>3, <1>4, Phase DEF SlotsInv
<1>6. commands[w] = <<>> /\ process[w] \in {"idle"} \cup Over
  BY <1>4, <1>5 DEF Waiting
<1>7. Said(w, <<>>)' /\ Outside(w)'
  BY <1>2, <1>5 DEF Waiting, Said, Pipe, Outside
<1>8. Sent(w)' /\ RunsItsStep(w)' /\ IsRunning(w)'
  BY <1>1, <1>2, <1>3, <1>4, <1>6, <1>7, StartStepFits
<1>9. JobGoesOn(w)' /\ RunsAlone(w)'
  BY <1>2, <1>4, <1>5, <1>8 DEF JobGoesOn, RunsAlone
<1>10. \A v \in Slots \ {w} : Stays(v)
  BY <1>1, <1>2, <1>3, SlotTypes DEF Stays, Pipe, StartStep
<1> QED
  BY <1>2, <1>4, <1>8, <1>9, <1>10, OneSlotMoves DEF SlotInv, Moment

\* Messages that are taken from the pipe are still to be handled.
LEMMA TakeEventsFits ==
  ASSUME ProcessInv, TakeEvents
  PROVE  SlotsInv'
<1>1. /\ batch' = output /\ output' = [w \in Slots |-> <<>>] /\ pc = "wait"
      /\ UNCHANGED <<workers, ready, dedicated, quitting, pendingStart, job, step, running,
                     history, process, current, commands, ran>>
  BY DEF TakeEvents, workerVars, flagVars
<1>2. output \in [Slots -> Seq(Messages)]
  BY SlotTypes DEF ProcessInv
<1>3. \A w \in Slots : Pipe(w)' = Pipe(w)
  BY <1>1, <1>2 DEF Pipe, ProcessInv, BatchHandled
<1>4. \A w \in Slots : Stays(w)
  BY <1>1, <1>3 DEF Stays
<1> QED
  BY <1>4, StaysFits DEF ProcessInv, SlotsInv

\* The steps that tell workers to quit.
LEMMA QuitStepsFit ==
  ASSUME ProcessInv, DrainQueue \/ MakeRoom \/ SendHome
  PROVE  SlotsInv'
<1>1. UNCHANGED <<workers, ready, dedicated, pendingStart, job, step, running,
                  history, batch, process, current, output, ran>>
  BY DEF DrainQueue, MakeRoom, SendHome
<1>2. \/ \E some \in SUBSET Jobless : SendQuit(some)
      \/ UNCHANGED <<quitting, commands>>
  <2>1. CASE DrainQueue
    BY <2>1 DEF DrainQueue
  <2>2. CASE MakeRoom
    BY <2>2 DEF MakeRoom, Idle, Live, Jobless
  <2>3. CASE SendHome
    BY <2>3 DEF SendHome
  <2> QED
    BY <2>1, <2>2, <2>3
<1> QED
  BY <1>1, <1>2, SendQuitFits, SlotsStay
-----------------------------------------------------------------------------
(***************************************************************************)
(* The steps of the processes.                                             *)
(***************************************************************************)

\* What a process may have said is made of messages.
LEMMA SaidTypes ==
  /\ <<>> \in Seq(Messages) /\ <<Closed>> \in Seq(Messages)
  /\ \A i \in Identities : <<Hello(i)>> \in Seq(Messages)
  /\ \A x \in Reported : <<End(x)>> \in Seq(Messages) /\ <<Fatal, End(x)>> \in Seq(Messages)
<1>1. \A m, n \in Messages : <<m>> \in Seq(Messages) /\ <<m, n>> \in Seq(Messages)
  OBVIOUS
<1> QED
  BY <1>1, MessageKinds

\* The death of a process changes no belief of the runner.
LEMMA DeathFits ==
  ASSUME TypeInv, NEW w \in Slots, Moment(w), process[w] # "gone", Dies(w),
         UNCHANGED <<batch, workers, ready, quitting, job, running, history,
                     current, commands, ran>>
  PROVE  Moment(w)'
<1>1. process'[w] = "gone" /\ process'[w] \in Over
  BY SlotTypes DEF Dies, Becomes, Over
<1>2. \A s \in Seq(Messages) : Said(w, s) => Said(w, s)'
  BY SaysMore, SaidTypes DEF Dies
<1>3. /\ Said(w, <<>>) => Said(w, <<>>)'
      /\ \A i \in Identities : Said(w, <<Hello(i)>>) => Said(w, <<Hello(i)>>)'
      /\ \A x \in Reported : Said(w, <<End(x)>>) => Said(w, <<End(x)>>)'
      /\ \A x \in Reported : Said(w, <<Fatal, End(x)>>) => Said(w, <<Fatal, End(x)>>)'
  BY <1>2, SaidTypes
<1>4. (Outside(w)' <=> Outside(w)) /\ (IsRunning(w)' <=> IsRunning(w))
  BY DEF Outside, IsRunning
<1>5. Unstarted(w) => Unstarted(w)'
  BY <1>1, <1>3, <1>4 DEF Unstarted
<1>6. Waiting(w) => Waiting(w)'
  BY <1>1, <1>3, <1>4 DEF Waiting
<1>7. Sent(w) => Sent(w)'
  BY <1>1, <1>3, <1>4 DEF Sent
<1>8. Inside(w) => Inside(w)'
  BY <1>1, <1>3, <1>4, MessageKinds DEF Inside
<1>9. Ended(w) => Ended(w)'
  BY <1>1, <1>3, <1>4 DEF Ended
<1> QED
  BY <1>5, <1>6, <1>7, <1>8, <1>9 DEF Moment

\* A process that has not greeted.
LEMMA StartingMoves ==
  ASSUME TypeInv, NEW w \in Slots, Moment(w), Greets(w) \/ FailsToStart(w),
         UNCHANGED <<batch, workers, ready, quitting, job, running, history>>
  PROVE  Moment(w)'
<1>1. Unstarted(w) /\ Said(w, <<>>) /\ process[w] = "starting"
  BY DEF Moment, Unstarted, Waiting, Sent, Inside, Ended, Over, Greets, FailsToStart
<1>2. UNCHANGED <<current, commands, ran>>
  BY DEF Greets, FailsToStart
<1>3. (Outside(w)' <=> Outside(w)) /\ (IsRunning(w)' <=> IsRunning(w))
  BY <1>2 DEF Outside, IsRunning
<1>4. CASE Greets(w)
  <2>1. process'[w] = "idle"
    BY <1>4, SlotTypes DEF Greets, Becomes
  <2>2. PICK i \in Identities : Sends(w, <<Hello(i)>>)
    BY <1>4 DEF Greets, Identities, Hello
  <2>3. Said(w, <<Hello(i)>>)'
    BY <1>1, <2>2, SaidTypes, SaysMore
  <2> QED
    BY <1>1, <1>2, <1>3, <2>1, <2>3 DEF Moment, Unstarted
<1>5. CASE Dies(w)
  BY <1>1, <1>2, <1>5, DeathFits
<1>6. CASE Becomes(w, "hung") /\ UNCHANGED output
  <2>1. process'[w] = "hung" /\ Said(w, <<>>)'
    BY <1>1, <1>6, SlotTypes DEF Becomes, Said, Pipe
  <2> QED
    BY <1>1, <1>2, <1>3, <2>1 DEF Moment, Unstarted
<1> QED
  BY <1>4, <1>5, <1>6 DEF FailsToStart

\* A process that reads a command.
LEMMA ReadingMoves ==
  ASSUME TypeInv, NEW w \in Slots, Moment(w), TakesRun(w) \/ TakesQuit(w),
         UNCHANGED <<batch, workers, ready, quitting, job, running, history>>
  PROVE  Moment(w)'
<1>1. process[w] = "idle" /\ commands[w] # <<>> /\ UNCHANGED ran
  BY DEF TakesRun, TakesQuit
<1>2. IsRunning(w)' <=> IsRunning(w)
  BY DEF IsRunning
<1>3. commands' = [commands EXCEPT ![w] = Tail(@)]
  BY DEF TakesRun, TakesQuit
<1>4. Said(w, <<>>)
  BY <1>1 DEF Moment, Unstarted, Waiting, Sent, Inside, Ended, Over
<1>5. CASE TakesRun(w)
  <2>1. Sent(w)
    BY <1>1, <1>5 DEF Moment, Unstarted, Waiting, Sent, Inside, Ended, Over, TakesRun
  <2>2. current'[w] = running[w].test /\ commands'[w] = <<>>
    BY <1>3, <1>5, <2>1, SlotTypes DEF TakesRun, Sent
  <2>3. process'[w] = "running" /\ Said(w, <<>>)'
    BY <1>4, <1>5, SlotTypes DEF TakesRun, Becomes, Said, Pipe
  <2> QED
    BY <1>1, <1>2, <2>1, <2>2, <2>3 DEF Moment, Inside, Sent, Outside
<1>6. CASE TakesQuit(w)
  <2>1. Waiting(w) /\ commands[w] = <<Quit>> /\ w \in quitting /\ job[w] = NoJob
    <3>1. ~Sent(w)
      BY <1>6, SlotTypes DEF TakesQuit, Sent
    <3> QED
      BY <1>1, <3>1 DEF Moment, Unstarted, Waiting, Inside, Ended, Over
  <2>2. commands'[w] = <<>> /\ UNCHANGED current
    BY <1>3, <1>6, <2>1, SlotTypes DEF TakesQuit
  <2>3. process'[w] \in {"hung"} \cup Over
    BY <1>6, SlotTypes DEF TakesQuit, Dies, Becomes, Over
  <2>4. Said(w, <<>>)'
    <3>1. CASE Dies(w)
      BY <1>1, <1>4, <3>1, SaysMore, SaidTypes DEF Dies
    <3>2. CASE UNCHANGED output
      BY <1>4, <3>2 DEF Said, Pipe
    <3> QED
      BY <1>6, <3>1, <3>2 DEF TakesQuit
  <2> QED
    BY <1>1, <1>2, <2>1, <2>2, <2>3, <2>4 DEF Moment, Waiting, Outside
<1> QED
  BY <1>5, <1>6

\* A process inside a test.
LEMMA TestingMoves ==
  ASSUME TypeInv, NEW w \in Slots, Moment(w),
         EndsTest(w) \/ Crashes(w) \/ ReportsFatal(w) \/ Hangs(w),
         UNCHANGED <<batch, workers, ready, quitting, job, running, history>>
  PROVE  Moment(w)'
<1>1. process[w] = "running"
  BY DEF EndsTest, Crashes, ReportsFatal, Hangs
<1>2. Inside(w) /\ Said(w, <<>>) /\ ~running[w].fatal
  BY <1>1 DEF Moment, Unstarted, Waiting, Sent, Inside, Ended, Over
<1>3. (IsRunning(w)' <=> IsRunning(w)) /\ UNCHANGED commands
  BY DEF IsRunning, EndsTest, Crashes, ReportsFatal, Hangs
<1>4. CASE EndsTest(w)
  <2>1. PICK x \in Reported : Sends(w, <<End(x)>>)
    BY <1>4 DEF EndsTest, End
  <2>2. Said(w, <<End(x)>>)'
    BY <1>1, <1>2, <2>1, SaidTypes, SaysMore
  <2>3. process'[w] = "idle" /\ current'[w] = NoTest /\ ran'[w] = Append(ran[w], current[w])
    BY <1>4, SlotTypes DEF EndsTest, Becomes
  <2>4. ran'[w] = Append(history[w], running[w].test)
    BY <1>2, <2>3 DEF Inside
  <2> QED
    BY <1>2, <1>3, <2>2, <2>3, <2>4 DEF Moment, Ended, Inside
<1>5. CASE Crashes(w)
  BY <1>1, <1>5, DeathFits DEF Crashes
<1>6. CASE ReportsFatal(w)
  <2>1. process'[w] = "raising" /\ UNCHANGED <<current, ran>>
    BY <1>6, SlotTypes DEF ReportsFatal, Becomes
  <2>2. Sends(w, <<Fatal, End("failed")>>)
    BY <1>6 DEF ReportsFatal, Fatal, End
  <2>3. Said(w, <<Fatal, End("failed")>>)'
    BY <1>1, <1>2, <2>2, SaidTypes, SaysMore, MessageKinds
  <2> QED
    BY <1>2, <1>3, <2>1, <2>3 DEF Moment, Inside
<1>7. CASE Hangs(w)
  <2>1. process'[w] = "hung" /\ UNCHANGED <<current, ran>>
    BY <1>7, SlotTypes DEF Hangs, Becomes
  <2>2. Said(w, <<>>)'
    BY <1>2, <1>7 DEF Said, Pipe, Hangs
  <2> QED
    BY <1>2, <1>3, <2>1, <2>2 DEF Moment, Inside
<1> QED
  BY <1>4, <1>5, <1>6, <1>7

\* A step of one process leaves the others alone.
LEMMA OthersStay ==
  ASSUME TypeInv, NEW w \in Slots, WorkerStep(w)
  PROVE  \A v \in Slots \ {w} : Stays(v)
<1>1. UNCHANGED <<batch, workers, ready, dedicated, quitting, pendingStart, job, step, running,
                  history>>
  BY DEF WorkerStep, workerVars, flagVars
<1>2. \A v \in Slots \ {w} : /\ process'[v] = process[v] /\ current'[v] = current[v]
                             /\ commands'[v] = commands[v] /\ output'[v] = output[v]
                             /\ ran'[v] = ran[v]
  <2> USE DEF Becomes, Sends, Dies
  <2>1. CASE Greets(w) \/ FailsToStart(w)
    BY <2>1, SlotTypes, ZenonT(60) DEF Greets, FailsToStart
  <2>2. CASE TakesRun(w) \/ TakesQuit(w)
    BY <2>2, SlotTypes DEF TakesRun, TakesQuit
  <2>3. CASE EndsTest(w)
    BY <2>3, SlotTypes DEF EndsTest
  <2>4. CASE Crashes(w) \/ Hangs(w) \/ ReportsFatal(w)
    BY <2>4, SlotTypes DEF Crashes, Hangs, ReportsFatal
  <2>5. CASE Raises(w) \/ DiesIdle(w) \/ StreamsClose(w)
    BY <2>5, SlotTypes DEF Raises, DiesIdle, StreamsClose
  <2> QED
    BY <2>1, <2>2, <2>3, <2>4, <2>5 DEF WorkerStep, ProcessStep
<1> QED
  BY <1>1, <1>2 DEF Stays, Pipe

\* A process goes from one moment to the next, or dies in it.
LEMMA WorkerStepFits ==
  ASSUME ProcessInv, NEW w \in Slots, WorkerStep(w)
  PROVE  SlotsInv'
<1>1. TypeInv /\ SlotInv(w)
  BY DEF ProcessInv, SlotsInv
<1>2. process[w] \notin {"none", "gone"}
  BY DEF WorkerStep, ProcessStep, Greets, FailsToStart, TakesRun, TakesQuit, EndsTest, Crashes,
         ReportsFatal, Raises, Hangs, DiesIdle, StreamsClose
<1>3. w \in workers
  BY <1>1, <1>2 DEF TypeInv, VacantSlots
<1>4. Moment(w) /\ JobGoesOn(w) /\ RunsItsStep(w) /\ RunsAlone(w)
  BY <1>1, <1>3 DEF SlotInv
<1>5. UNCHANGED <<batch, workers, ready, dedicated, quitting, pendingStart, job, step, running,
                  history>>
  BY DEF WorkerStep, workerVars, flagVars
<1>6. Moment(w)'
  <2>1. CASE Raises(w) \/ DiesIdle(w) \/ StreamsClose(w)
    BY <1>1, <1>2, <1>4, <1>5, <2>1, DeathFits DEF Raises, DiesIdle, StreamsClose
  <2> QED
    BY <1>1, <1>4, <1>5, <2>1, StartingMoves, ReadingMoves, TestingMoves
       DEF WorkerStep, ProcessStep
<1>7. JobGoesOn(w)'
  <2>1. process[w] = "killed" => process'[w] = "gone"
    BY <1>1, SlotTypes
       DEF WorkerStep, ProcessStep, Greets, FailsToStart, TakesRun, TakesQuit, EndsTest, Crashes,
           ReportsFatal, Raises, Hangs, DiesIdle, StreamsClose, Dies, Becomes
  <2> QED
    BY <1>2, <1>4, <1>5, <2>1 DEF JobGoesOn, IsRunning, Over
<1>8. RunsItsStep(w)' /\ RunsAlone(w)'
  BY <1>4, <1>5 DEF RunsItsStep, RunsAlone, IsRunning
<1>9. SlotInv(w)'
  BY <1>3, <1>5, <1>6, <1>7, <1>8 DEF SlotInv
<1> QED
  BY <1>1, <1>9, OthersStay, OneSlotMoves
-----------------------------------------------------------------------------
(***************************************************************************)
(* The messages of the processes.                                          *)
(***************************************************************************)

\* What a message means when it is handled.
LEMMA EventMeans ==
  ASSUME TypeInv, NEW w \in Slots, SlotInv(w), NEW kind, NextEvent(w, kind), DropEvent(w),
         output' = output
  PROVE  /\ w \in workers /\ \A v \in Slots \ {w} : Pipe(v)' = Pipe(v)
         /\ kind = "hello" =>
              Unstarted(w) /\ process[w] \in {"idle"} \cup Over /\ Said(w, <<>>)'
         /\ kind = "fatal" =>
              /\ Inside(w) /\ ~running[w].fatal /\ process[w] \in {"raising"} \cup Over
              /\ Said(w, <<End("failed")>>)'
         /\ kind = "end" =>
              /\ Said(w, <<>>)'
              /\ \/ Inside(w) /\ running[w].fatal /\ process[w] \in {"raising"} \cup Over
                 \/ Ended(w)
         /\ kind = "closed" =>
              /\ Said(w, <<>>) /\ Said(w, <<>>)'
              /\ \A m \in Messages : m # Closed => ~Said(w, <<m>>)
              /\ \A m, n \in Messages : m # Closed => ~Said(w, <<m, n>>)
<1>1. batch[w] # <<>> /\ Head(batch[w]).kind = kind
      /\ batch' = [batch EXCEPT ![w] = Tail(@)]
  BY DEF NextEvent, DropEvent
<1>2. w \in workers
  BY <1>1 DEF TypeInv, VacantSlots
<1>3. Moment(w)
  BY <1>2 DEF SlotInv
<1>4. /\ \A v \in Slots \ {w} : Pipe(v)' = Pipe(v)
      /\ Said(w, <<>>) => Head(batch[w]) = Closed /\ Said(w, <<>>)'
      /\ \A m \in Messages : Said(w, <<m>>) => Head(batch[w]) = m /\ Said(w, <<>>)'
      /\ \A m, n \in Messages : Said(w, <<m, n>>) => Head(batch[w]) = m /\ Said(w, <<n>>)'
  BY <1>1, NextMessage
<1>5. Said(w, <<>>) => kind = "closed" /\ Said(w, <<>>)'
  BY <1>1, <1>4, MessageKinds
<1>6. \A i \in Identities : Said(w, <<Hello(i)>>) => kind = "hello" /\ Said(w, <<>>)'
  BY <1>1, <1>4, MessageKinds
<1>7. \A x \in Reported : Said(w, <<End(x)>>) => kind = "end" /\ Said(w, <<>>)'
  BY <1>1, <1>4, MessageKinds
<1>8. Said(w, <<Fatal, End("failed")>>) => kind = "fatal" /\ Said(w, <<End("failed")>>)'
  BY <1>1, <1>4, MessageKinds
<1>9. "failed" \in Reported
  BY MessageKinds
<1>10. ASSUME kind = "hello"
       PROVE  Unstarted(w) /\ process[w] \in {"idle"} \cup Over /\ Said(w, <<>>)'
  BY <1>3, <1>5, <1>6, <1>7, <1>8, <1>9, <1>10
     DEF Moment, Unstarted, Waiting, Sent, Inside, Ended
<1>11. ASSUME kind = "fatal"
       PROVE  /\ Inside(w) /\ ~running[w].fatal /\ process[w] \in {"raising"} \cup Over
              /\ Said(w, <<End("failed")>>)'
  BY <1>3, <1>5, <1>6, <1>7, <1>8, <1>9, <1>11
     DEF Moment, Unstarted, Waiting, Sent, Inside, Ended
<1>12. ASSUME kind = "end"
       PROVE  /\ Said(w, <<>>)'
              /\ \/ Inside(w) /\ running[w].fatal /\ process[w] \in {"raising"} \cup Over
                 \/ Ended(w)
  BY <1>3, <1>5, <1>6, <1>7, <1>8, <1>9, <1>12
     DEF Moment, Unstarted, Waiting, Sent, Inside, Ended
<1>13. ASSUME kind = "closed"
       PROVE  /\ Said(w, <<>>) /\ Said(w, <<>>)'
              /\ \A m \in Messages : m # Closed => ~Said(w, <<m>>)
              /\ \A m, n \in Messages : m # Closed => ~Said(w, <<m, n>>)
  <2>1. Said(w, <<>>) /\ Said(w, <<>>)'
    BY <1>3, <1>5, <1>6, <1>7, <1>8, <1>9, <1>13
       DEF Moment, Unstarted, Waiting, Sent, Inside, Ended
  <2> QED
    BY <1>4, <2>1
<1> QED
  BY <1>2, <1>4, <1>10, <1>11, <1>12, <1>13

\* A greeting that is handled leaves a process that waits, or is killed.
LEMMA HandleHelloFits ==
  ASSUME ProcessInv, NEW w \in Slots, HandleHello(w)
  PROVE  SlotsInv'
<1>1. TypeInv /\ SlotInv(w) /\ NextEvent(w, "hello") /\ DropEvent(w)
  BY DEF ProcessInv, SlotsInv, HandleHello
<1>2. UNCHANGED <<workers, dedicated, job, step, running, history, pendingStart, current,
                  commands, output, ran>>
  BY DEF HandleHello
<1>3. /\ w \in workers /\ \A v \in Slots \ {w} : Pipe(v)' = Pipe(v)
      /\ Unstarted(w) /\ process[w] \in {"idle"} \cup Over /\ Said(w, <<>>)'
  BY <1>1, <1>2, EventMeans
<1>4. JobGoesOn(w) /\ RunsItsStep(w) /\ RunsAlone(w)
  BY <1>1, <1>3 DEF SlotInv
<1>5. RunsItsStep(w)' /\ RunsAlone(w)' /\ (IsRunning(w)' <=> IsRunning(w))
  BY <1>2, <1>4 DEF RunsItsStep, RunsAlone, IsRunning
<1>6. CASE Head(batch[w]).is = "same"
  <2>1. ready' = ready \cup {w} /\ UNCHANGED <<quitting, process>>
    BY <1>6 DEF HandleHello
  <2>2. Waiting(w)'
    BY <1>2, <1>3, <1>5, <2>1 DEF Waiting, Unstarted, Outside
  <2>3. JobGoesOn(w)'
    BY <1>2, <1>3, <1>4, <1>5, <2>1 DEF JobGoesOn
  <2>4. \A v \in Slots \ {w} : Stays(v)
    BY <1>2, <1>3, <2>1 DEF Stays
  <2> QED
    BY <1>2, <1>3, <1>5, <2>2, <2>3, <2>4, OneSlotMoves DEF SlotInv, Moment
<1>7. CASE Head(batch[w]).is # "same"
  <2>1. quitting' = quitting \cup {w} /\ Kill({w}) /\ UNCHANGED ready
    BY <1>7 DEF HandleHello
  <2>2. process'[w] \in Over /\ \A v \in Slots \ {w} : process'[v] = process[v]
    BY <1>3, <2>1 DEF Kill, Over
  <2>3. Unstarted(w)'
    BY <1>2, <1>3, <1>5, <2>1, <2>2 DEF Unstarted, Outside
  <2>4. JobGoesOn(w)'
    BY <1>2, <1>3, <1>4, <1>5, <2>1, <2>2 DEF JobGoesOn
  <2>5. \A v \in Slots \ {w} : Stays(v)
    BY <1>2, <1>3, <2>1, <2>2 DEF Stays
  <2> QED
    BY <1>2, <1>3, <1>5, <2>3, <2>4, <2>5, OneSlotMoves DEF SlotInv, Moment
<1> QED
  BY <1>6, <1>7

\* The report of a signal is about the test the process is inside of.
LEMMA HandleFatalFits ==
  ASSUME ProcessInv, NEW w \in Slots, HandleFatal(w)
  PROVE  SlotsInv'
<1>1. TypeInv /\ SlotInv(w) /\ NextEvent(w, "fatal") /\ DropEvent(w)
  BY DEF ProcessInv, SlotsInv, HandleFatal
<1>2. UNCHANGED <<workers, ready, dedicated, quitting, job, step, history, pendingStart, process,
                  current, commands, output, ran>>
  BY DEF HandleFatal, flagVars, processVars
<1>3. /\ w \in workers /\ \A v \in Slots \ {w} : Pipe(v)' = Pipe(v)
      /\ Inside(w) /\ process[w] \in {"raising"} \cup Over /\ Said(w, <<End("failed")>>)'
  BY <1>1, <1>2, EventMeans
<1>4. JobGoesOn(w) /\ RunsItsStep(w) /\ RunsAlone(w) /\ IsRunning(w)
  BY <1>1, <1>3 DEF SlotInv, Inside
<1>5. running' = [running EXCEPT ![w].fatal = TRUE]
  BY <1>4 DEF HandleFatal
<1>6. /\ running'[w].test = running[w].test /\ running'[w].target = running[w].target
      /\ running'[w].fatal /\ \A v \in Slots \ {w} : running'[v] = running[v]
  BY <1>1, <1>5, SlotTypes
<1>7. IsRunning(w)'
  BY <1>1, <1>4, <1>6, SlotTypes DEF IsRunning, NotRunning, Running
<1>8. Inside(w)'
  BY <1>2, <1>3, <1>6, <1>7 DEF Inside
<1>9. JobGoesOn(w)' /\ RunsItsStep(w)' /\ RunsAlone(w)'
  BY <1>2, <1>4, <1>6, <1>7 DEF JobGoesOn, RunsItsStep, RunsAlone
<1>10. \A v \in Slots \ {w} : Stays(v)
  BY <1>2, <1>3, <1>6 DEF Stays
<1> QED
  BY <1>2, <1>3, <1>8, <1>9, <1>10, OneSlotMoves DEF SlotInv, Moment

\* The end that a dying process reports after a signal changes nothing.
LEMMA IgnoreEndFits ==
  ASSUME ProcessInv, NEW w \in Slots, IgnoreEnd(w)
  PROVE  SlotsInv'
<1>1. TypeInv /\ SlotInv(w) /\ NextEvent(w, "end") /\ DropEvent(w)
  BY DEF ProcessInv, SlotsInv, IgnoreEnd
<1>2. UNCHANGED <<workers, ready, dedicated, quitting, job, step, running, history, pendingStart,
                  process, current, commands, output, ran>>
  BY DEF IgnoreEnd, workerVars, flagVars, processVars
<1>3. /\ w \in workers /\ \A v \in Slots \ {w} : Pipe(v)' = Pipe(v)
      /\ Said(w, <<>>)'
      /\ \/ Inside(w) /\ running[w].fatal /\ process[w] \in {"raising"} \cup Over
         \/ Ended(w)
  BY <1>1, <1>2, EventMeans
<1>4. Inside(w) /\ running[w].fatal /\ process[w] \in {"raising"} \cup Over
  BY <1>3 DEF IgnoreEnd, Ended
<1>5. JobGoesOn(w) /\ RunsItsStep(w) /\ RunsAlone(w)
  BY <1>1, <1>3 DEF SlotInv
<1>6. JobGoesOn(w)' /\ RunsItsStep(w)' /\ RunsAlone(w)' /\ (IsRunning(w)' <=> IsRunning(w))
  BY <1>2, <1>5 DEF JobGoesOn, RunsItsStep, RunsAlone, IsRunning
<1>7. Inside(w)'
  BY <1>2, <1>3, <1>4, <1>6 DEF Inside
<1>8. \A v \in Slots \ {w} : Stays(v)
  BY <1>2, <1>3 DEF Stays
<1> QED
  BY <1>2, <1>3, <1>6, <1>7, <1>8, OneSlotMoves DEF SlotInv, Moment

\* The end of the streams leaves a process that is gone.
LEMMA HandleClosedFits ==
  ASSUME ProcessInv, NEW w \in Slots, HandleClosed(w)
  PROVE  SlotsInv'
<1>1. TypeInv /\ SlotInv(w) /\ NextEvent(w, "closed") /\ DropEvent(w)
  BY DEF ProcessInv, SlotsInv, HandleClosed
<1>2. UNCHANGED <<workers, ready, dedicated, quitting, job, step, running, history, pendingStart,
                  process, current, commands, output, ran>>
  BY DEF HandleClosed, flagVars, processVars
<1>3. /\ w \in workers /\ \A v \in Slots \ {w} : Pipe(v)' = Pipe(v)
      /\ Said(w, <<>>) /\ Said(w, <<>>)'
      /\ \A m \in Messages : m # Closed => ~Said(w, <<m>>)
      /\ \A m, n \in Messages : m # Closed => ~Said(w, <<m, n>>)
  BY <1>1, <1>2, EventMeans
<1>4. Moment(w) /\ JobGoesOn(w) /\ RunsItsStep(w) /\ RunsAlone(w)
  BY <1>1, <1>3 DEF SlotInv
<1>5. /\ JobGoesOn(w)' /\ RunsItsStep(w)' /\ RunsAlone(w)'
      /\ (IsRunning(w)' <=> IsRunning(w)) /\ (Outside(w)' <=> Outside(w))
  BY <1>2, <1>4 DEF JobGoesOn, RunsItsStep, RunsAlone, IsRunning, Outside
<1>6. /\ \A i \in Identities : ~Said(w, <<Hello(i)>>)
      /\ \A x \in Reported : ~Said(w, <<End(x)>>)
      /\ ~Said(w, <<Fatal, End("failed")>>) /\ ~Said(w, <<End("failed")>>)
  <2>1. "closed" # "hello" /\ "closed" # "end" /\ "closed" # "fatal"
    OBVIOUS
  <2> QED
    BY <1>3, <2>1, MessageKinds
<1>7. Moment(w)'
  <2>1. Unstarted(w) => Unstarted(w)'
    BY <1>2, <1>3, <1>5, <1>6 DEF Unstarted
  <2>2. Waiting(w) => Waiting(w)'
    BY <1>2, <1>3, <1>5 DEF Waiting
  <2>3. Sent(w) => Sent(w)'
    BY <1>2, <1>3, <1>5 DEF Sent
  <2>4. Inside(w) => Inside(w)'
    BY <1>2, <1>3, <1>5, <1>6 DEF Inside
  <2>5. ~Ended(w)
    BY <1>6 DEF Ended
  <2> QED
    BY <1>4, <2>1, <2>2, <2>3, <2>4, <2>5 DEF Moment
<1>8. \A v \in Slots \ {w} : Stays(v)
  BY <1>2, <1>3 DEF Stays
<1> QED
  BY <1>2, <1>3, <1>5, <1>7, <1>8, OneSlotMoves DEF SlotInv

\* One more test of the sequence has run.
LEMMA OneMore ==
  ASSUME NEW S, NEW s \in Seq(S), NEW n \in Nat, n < Len(s)
  PROVE  Append(SubSeq(s, 1, n), s[n + 1]) = SubSeq(s, 1, n + 1)
<1>1. /\ SubSeq(s, 1, n) \in Seq(S) /\ Len(SubSeq(s, 1, n)) = n
      /\ \A i \in 1..n : SubSeq(s, 1, n)[i] = s[i]
  BY SubSeqProperties
<1>2. /\ SubSeq(s, 1, n + 1) \in Seq(S) /\ Len(SubSeq(s, 1, n + 1)) = n + 1
      /\ \A i \in 1..(n + 1) : SubSeq(s, 1, n + 1)[i] = s[i]
  BY SubSeqProperties
<1> DEFINE p == SubSeq(s, 1, n)
           q == SubSeq(s, 1, n + 1)
<1>3. s[n + 1] \in S
  OBVIOUS
<1> HIDE DEF p, q
<1>4. p \in Seq(S) /\ q \in Seq(S) /\ Len(p) = n /\ Len(q) = n + 1
      /\ (\A i \in 1..n : p[i] = s[i]) /\ (\A i \in 1..(n + 1) : q[i] = s[i])
  BY <1>1, <1>2 DEF p, q
<1>5. /\ Append(p, s[n + 1]) \in Seq(S) /\ Len(Append(p, s[n + 1])) = n + 1
      /\ \A i \in 1..(n + 1) : Append(p, s[n + 1])[i] = q[i]
  BY <1>3, <1>4
<1>6. Append(p, s[n + 1]) = q
  BY <1>4, <1>5, SeqEqual
<1> QED
  BY <1>6 DEF p, q

\* After a test before the target comes the next one of the job.
LEMMA HandleStepEndFits ==
  ASSUME ProcessInv, NEW w \in Slots, HandleStepEnd(w)
  PROVE  SlotsInv'
<1>1. /\ TypeInv /\ SlotInv(w) /\ NextEvent(w, "end") /\ DropEvent(w)
      /\ IsRunning(w) /\ ~running[w].fatal /\ ~running[w].target
      /\ StartStep(w, job[w], step[w] + 1)
  BY DEF ProcessInv, SlotsInv, HandleStepEnd
<1>2. UNCHANGED <<workers, ready, dedicated, quitting, job, pendingStart, process, current, output,
                  ran>>
  BY DEF HandleStepEnd, flagVars
<1>3. w \in workers /\ (\A v \in Slots \ {w} : Pipe(v)' = Pipe(v)) /\ Said(w, <<>>)' /\ Ended(w)
  BY <1>1, <1>2, EventMeans
<1>4. JobGoesOn(w) /\ RunsItsStep(w) /\ RunsAlone(w)
  BY <1>1, <1>3 DEF SlotInv
<1>5. history'[w] = Append(history[w], running[w].test) /\ step'[w] = step[w] + 1
      /\ \A v \in Slots \ {w} : history'[v] = history[v] /\ step'[v] = step[v]
  BY <1>1, SlotTypes DEF HandleStepEnd
<1>6. job[w] \in Jobs /\ job[w] # NoJob /\ step[w] \in Nat /\ step[w] + 1 \in Nat
  BY <1>1, SlotTypes
<1>7. Outside(w)'
  BY <1>2, <1>3, <1>5 DEF Ended, Outside
<1>8. Sent(w)' /\ RunsItsStep(w)' /\ IsRunning(w)'
  BY <1>1, <1>2, <1>3, <1>5, <1>6, <1>7, StartStepFits DEF Ended
<1>9. JobGoesOn(w)'
  BY <1>2, <1>4, <1>6, <1>8 DEF JobGoesOn
<1>10. RunsAlone(w)'
  <2>1. job[w].before \in Seq(Catalog)
    BY <1>6 DEF Jobs
  <2>2. step[w] < Len(job[w].before) /\ running[w].test = job[w].before[step[w] + 1]
    <3>1. ~(step[w] >= Len(job[w].before))
      BY <1>1, <1>4, Zenon DEF RunsItsStep
    <3>2. Len(job[w].before) \in Nat
      BY <2>1
    <3> QED
      BY <1>1, <1>4, <1>6, <3>1, <3>2 DEF RunsItsStep, StepTest
  <2>3. Append(SubSeq(job[w].before, 1, step[w]), job[w].before[step[w] + 1])
          = SubSeq(job[w].before, 1, step[w] + 1)
    BY <1>6, <2>1, <2>2, OneMore
  <2>4. step[w] + 1 <= Len(job[w].before)
    BY <1>6, <2>1, <2>2
  <2> QED
    BY <1>2, <1>4, <1>5, <1>6, <2>2, <2>3, <2>4 DEF RunsAlone
<1>11. \A v \in Slots \ {w} : Stays(v)
  BY <1>1, <1>2, <1>3, <1>5, SlotTypes DEF Stays, StartStep
<1> QED
  BY <1>2, <1>3, <1>8, <1>9, <1>10, <1>11, OneSlotMoves DEF SlotInv, Moment

\* After its target a worker waits, or is told to quit.
LEMMA HandleTargetEndFits ==
  ASSUME ProcessInv, NEW w \in Slots, HandleTargetEnd(w)
  PROVE  SlotsInv'
<1>1. /\ TypeInv /\ SlotInv(w) /\ NextEvent(w, "end") /\ DropEvent(w)
      /\ IsRunning(w) /\ ~running[w].fatal
      /\ job' = [job EXCEPT ![w] = NoJob] /\ running' = [running EXCEPT ![w] = NotRunning]
      /\ history' = [history EXCEPT ![w] = Append(@, running[w].test)]
      /\ SendQuit({w} \cap dedicated)
  BY DEF ProcessInv, SlotsInv, HandleTargetEnd
<1>2. UNCHANGED <<workers, ready, dedicated, step, pendingStart, process, current, output, ran>>
  BY DEF HandleTargetEnd
<1>3. w \in workers /\ (\A v \in Slots \ {w} : Pipe(v)' = Pipe(v)) /\ Said(w, <<>>)' /\ Ended(w)
  BY <1>1, <1>2, EventMeans
<1>4. /\ job'[w] = NoJob /\ ~IsRunning(w)' /\ history'[w] = Append(history[w], running[w].test)
      /\ \A v \in Slots \ {w} : /\ job'[v] = job[v] /\ running'[v] = running[v]
                                /\ history'[v] = history[v]
  BY <1>1, SlotTypes DEF IsRunning
<1>5. /\ quitting' = quitting \cup ({w} \cap dedicated)
      /\ commands'[w] \in {<<>>, <<Quit>>} /\ (commands'[w] = <<>> \/ w \in quitting')
      /\ \A v \in Slots \ {w} : commands'[v] = commands[v]
  <2>1. commands[w] = <<>> /\ Append(<<>>, Quit) = <<Quit>>
    BY <1>3 DEF Ended
  <2> QED
    BY <1>1, <2>1 DEF SendQuit
<1>6. Waiting(w)'
  BY <1>2, <1>3, <1>4, <1>5 DEF Waiting, Outside, Ended
<1>7. JobGoesOn(w)' /\ RunsItsStep(w)' /\ RunsAlone(w)'
  BY <1>2, <1>3, <1>4 DEF JobGoesOn, RunsItsStep, RunsAlone, Ended
<1>8. \A v \in Slots \ {w} : Stays(v)
  BY <1>2, <1>3, <1>4, <1>5 DEF Stays
<1> QED
  BY <1>2, <1>3, <1>6, <1>7, <1>8, OneSlotMoves DEF SlotInv, Moment

\* Time limits.
LEMMA CheckDeadlinesFits ==
  ASSUME ProcessInv, CheckDeadlines
  PROVE  SlotsInv'
<1>1. PICK late \in SUBSET workers : quitting' = quitting \cup late /\ Kill(late)
  <2> DEFINE timedOut == {w \in overdue : IsRunning(w) /\ w \notin killedForTimeout}
             silent == {w \in overdue \ timedOut : w \notin ready /\ w \notin quitting}
  <2>1. quitting' = quitting \cup timedOut \cup silent /\ Kill(timedOut \cup silent)
    BY DEF CheckDeadlines
  <2>2. timedOut \cup silent \in SUBSET workers
    BY DEF ProcessInv, TypeInv, TypeOK, WorkerTypeOK
  <2>3. quitting \cup timedOut \cup silent = quitting \cup (timedOut \cup silent)
    OBVIOUS
  <2> HIDE DEF timedOut, silent
  <2> QED
    BY <2>1, <2>2, <2>3
<1>2. UNCHANGED <<workers, ready, dedicated, pendingStart, job, step, running, history, batch,
                  current, commands, output, ran>>
  BY DEF CheckDeadlines
<1>3. TypeInv /\ SlotsInv
  BY DEF ProcessInv
<1>4. ASSUME NEW w \in Slots PROVE Stays(w)
  <2>1. w \in late => process[w] # "none"
    BY <1>3, Phase DEF SlotsInv
  <2>2. /\ process'[w] = process[w] \/ (w \in workers /\ process'[w] = "killed")
        /\ w \in late => process'[w] \in Over
    BY <1>1, <2>1 DEF Kill, Over
  <2>3. /\ w \in quitting => w \in quitting'
        /\ w \in quitting' => w \in quitting \/ process'[w] \in Over
    BY <1>1, <2>2
  <2> QED
    BY <1>2, <2>2, <2>3 DEF Stays, Pipe
<1> QED
  BY <1>3, <1>4, StaysFits DEF SlotsInv

\* A worker that ended.
LEMMA WorkerEndedFits ==
  ASSUME ProcessInv, NEW w \in Slots, WorkerEnded(w)
  PROVE  SlotsInv'
<1>1. Vacate(w) /\ UNCHANGED <<batch, output>> /\ TypeInv
  BY DEF WorkerEnded, ProcessInv
<1>2. SlotInv(w)'
  BY <1>1, SlotTypes DEF Vacate, SlotInv, Blank, Becomes
<1>3. \A v \in Slots \ {w} : Stays(v)
  BY <1>1, SlotTypes DEF Vacate, Stays, Pipe, Becomes
<1> QED
  BY <1>2, <1>3, OneSlotMoves
-----------------------------------------------------------------------------
(***************************************************************************)
(* Every step keeps the invariant.                                         *)
(***************************************************************************)
LEMMA NextSlots == ProcessInv /\ [Next]_vars => SlotsInv'
<1> SUFFICES ASSUME ProcessInv, [Next]_vars PROVE SlotsInv'
  OBVIOUS
<1>1. CASE EnqueuePlanned \/ StartLoop \/ SettleBlocked \/ SpawnFails \/ DispatchEnds \/ EndTurn
  BY <1>1, SlotsStay DEF EnqueuePlanned, StartLoop, SettleBlocked, SpawnFails, DispatchEnds,
                         EndTurn, workerVars, flagVars, processVars
<1>2. CASE DrainQueue \/ MakeRoom \/ SendHome
  BY <1>2, QuitStepsFit
<1>3. CASE Assign \/ Spawn \/ StartPending \/ TakeEvents \/ CheckDeadlines
  BY <1>3, AssignFits, SpawnFits, StartPendingFits, TakeEventsFits, CheckDeadlinesFits
<1>4. CASE \E w \in Slots : Handle(w)
  BY <1>4, HandleHelloFits, HandleFatalFits, IgnoreEndFits, HandleStepEndFits,
     HandleTargetEndFits, HandleClosedFits DEF Handle
<1>5. CASE \E w \in Slots : WorkerEnded(w)
  BY <1>5, WorkerEndedFits
<1>6. CASE \E w \in Slots : WorkerStep(w)
  BY <1>6, WorkerStepFits
<1>7. CASE \E w \in Slots : LimitPasses(w)
  BY <1>7, SlotsStay DEF LimitPasses, flagVars, processVars
<1>8. CASE UNCHANGED vars
  BY <1>8, SlotsStay DEF vars, workerVars, flagVars, processVars
<1> QED
  BY <1>1, <1>2, <1>3, <1>4, <1>5, <1>6, <1>7, <1>8 DEF Next, LoopStep, Terminated

\* The next events are taken when all before are handled.
LEMMA NextBatchHandled == TypeInv /\ BatchHandled /\ [Next]_vars => BatchHandled'
<1> SUFFICES ASSUME TypeInv, BatchHandled, [Next]_vars PROVE BatchHandled'
  OBVIOUS
<1> USE DEF BatchHandled
<1>1. CASE EnqueuePlanned \/ StartLoop \/ SettleBlocked \/ DrainQueue
  BY <1>1 DEF EnqueuePlanned, StartLoop, SettleBlocked, DrainQueue
<1>2. CASE Assign \/ MakeRoom \/ Spawn \/ SpawnFails \/ DispatchEnds
  BY <1>2 DEF Assign, MakeRoom, Spawn, SpawnFails, DispatchEnds
<1>3. CASE StartPending \/ SendHome \/ TakeEvents \/ CheckDeadlines \/ EndTurn
  BY <1>3 DEF StartPending, SendHome, TakeEvents, CheckDeadlines, EndTurn
<1>4. CASE \E w \in Slots : Handle(w)
  BY <1>4 DEF Handle, HandleHello, HandleFatal, IgnoreEnd, HandleStepEnd, HandleTargetEnd,
              HandleClosed, NextEvent
<1>5. CASE \E w \in Slots : WorkerEnded(w) \/ WorkerStep(w) \/ LimitPasses(w)
  BY <1>5 DEF WorkerEnded, WorkerStep, LimitPasses
<1>6. CASE UNCHANGED vars
  BY <1>6 DEF vars
<1> QED
  BY <1>1, <1>2, <1>3, <1>4, <1>5, <1>6 DEF Next, LoopStep, Terminated

\* A worker is started only if there are fewer than --jobs allows.
LEMMA NextLiveLimit == TypeInv /\ LiveLimit /\ [Next]_vars => LiveLimit'
<1> SUFFICES ASSUME TypeInv, LiveLimit, [Next]_vars PROVE LiveLimit'
  OBVIOUS
<1>1. IsFiniteSet(workers) /\ IsFiniteSet(Live) /\ Cardinality(Live) \in Nat
  BY FS_Subset, FS_CardinalityType DEF LiveLimit, Live
<1>2. ASSUME workers' \subseteq workers, Live' \subseteq Live PROVE LiveLimit'
  <2>1. IsFiniteSet(workers') /\ IsFiniteSet(Live') /\ Cardinality(Live') <= Cardinality(Live)
    BY <1>1, <1>2, FS_Subset
  <2>2. Cardinality(Live') \in Nat /\ Cardinality(Live') = Cardinality(Live)'
    BY <2>1, FS_CardinalityType
  <2> QED
    BY <1>1, <2>1, <2>2, SchedulerAssumption DEF LiveLimit, OptionAssumption
<1>3. CASE Spawn
  <2>1. PICK w \in Slots \ workers : workers' = workers \cup {w}
    BY <1>3 DEF Spawn
  <2>2. quitting' = quitting /\ Room /\ quitting \subseteq workers
    BY <1>3 DEF Spawn, TypeInv, TypeOK, WorkerTypeOK
  <2>3. Live' = Live \cup {w} /\ w \notin Live
    BY <2>1, <2>2 DEF Live
  <2>4. IsFiniteSet(workers') /\ Cardinality(Live \cup {w}) = Cardinality(Live) + 1
    BY <1>1, <2>1, <2>3, FS_AddElement
  <2>5. Cardinality(Live)' = Cardinality(Live) + 1
    BY <2>3, <2>4
  <2> QED
    BY <1>1, <2>2, <2>4, <2>5, SchedulerAssumption DEF LiveLimit, Room, OptionAssumption
<1>4. CASE EnqueuePlanned \/ StartLoop \/ SettleBlocked \/ DrainQueue
  BY <1>2, <1>4 DEF EnqueuePlanned, StartLoop, SettleBlocked, DrainQueue, SendQuit, Live,
                    workerVars, flagVars
<1>5. CASE Assign \/ MakeRoom \/ SpawnFails \/ DispatchEnds
  BY <1>2, <1>5 DEF Assign, MakeRoom, SpawnFails, DispatchEnds, SendQuit, Live,
                    workerVars, flagVars
<1>6. CASE StartPending \/ SendHome \/ TakeEvents \/ CheckDeadlines \/ EndTurn
  BY <1>2, <1>6 DEF StartPending, SendHome, TakeEvents, CheckDeadlines, EndTurn, SendQuit, Live,
                    workerVars, flagVars
<1>7. CASE \E w \in Slots : Handle(w)
  BY <1>2, <1>7 DEF Handle, HandleHello, HandleFatal, IgnoreEnd, HandleStepEnd, HandleTargetEnd,
                    HandleClosed, SendQuit, Live, workerVars, flagVars
<1>8. CASE \E w \in Slots : WorkerEnded(w) \/ WorkerStep(w) \/ LimitPasses(w)
  BY <1>2, <1>8 DEF WorkerEnded, Vacate, WorkerStep, LimitPasses, Live, workerVars, flagVars
<1>9. CASE UNCHANGED vars
  BY <1>2, <1>9 DEF vars, Live, workerVars, flagVars
<1> QED
  BY <1>3, <1>4, <1>5, <1>6, <1>7, <1>8, <1>9 DEF Next, LoopStep, Terminated

\* At first there are no processes.
LEMMA InitProcessInv == Init => ProcessInv
<1> SUFFICES ASSUME Init PROVE ProcessInv
  OBVIOUS
<1>1. TypeInv
  BY InitTypeInv
<1>2. BatchHandled
  BY DEF Init, BatchHandled
<1>3. SlotsInv
  BY DEF Init, ProcessInit, SlotsInv, SlotInv, Blank
<1>4. LiveLimit
  <2>1. workers = {} /\ Live = {}
    BY DEF Init, Live
  <2> QED
    BY <2>1, FS_EmptySet, SchedulerAssumption DEF LiveLimit, OptionAssumption
<1> QED
  BY <1>1, <1>2, <1>3, <1>4 DEF ProcessInv

\* Every step keeps the moment of every process.
LEMMA NextProcessInv == ProcessInv /\ [Next]_vars => ProcessInv'
  BY NextTypeInv, NextSlots, NextBatchHandled, NextLiveLimit DEF ProcessInv
-----------------------------------------------------------------------------
(***************************************************************************)
(* What follows.                                                           *)
(***************************************************************************)

\* A process that is inside a test is inside the one its worker runs.
LEMMA InsideItsTest ==
  ASSUME ProcessInv, NEW w \in Slots, InTest(w)
  PROVE  /\ w \in workers /\ Inside(w) /\ RunsItsStep(w) /\ RunsAlone(w)
         /\ job[w] \in Jobs /\ job[w] # NoJob
         /\ w \in quitting => process[w] = "killed"
<1>1. TypeInv /\ SlotInv(w)
  BY DEF ProcessInv, SlotsInv
<1>2. w \in workers
  BY <1>1 DEF SlotInv, Blank, InTest
<1>3. Inside(w)
  BY <1>1, <1>2 DEF SlotInv, Moment, Unstarted, Waiting, Sent, Ended, Outside, InTest
<1>4. job[w] \in Jobs /\ job[w] # NoJob
  BY <1>1, <1>3, SlotTypes DEF Inside
<1>5. w \in quitting => process[w] = "killed"
  BY <1>1, <1>2, <1>4 DEF SlotInv, JobGoesOn, Over, InTest
<1> QED
  BY <1>1, <1>2, <1>3, <1>4, <1>5 DEF SlotInv

\* Whatever a process is inside of, the runner charges to the right test, and
\* what it believes to have run before is what has.
THEOREM BeliefsAreTrue == Spec => []BeliefIsTrue
<1>1. ProcessInv => BeliefIsTrue
  BY InsideItsTest DEF BeliefIsTrue, Inside
<1> QED
  BY <1>1, InitProcessInv, NextProcessInv, PTL DEF Spec

\* Tests that are isolated, and retries, probes and replays, which ask for a
\* fresh process, run after the tests of their job and nothing else.
THEOREM IsolatedRunAlone == Spec => []IsolatedAlone
<1>1. ProcessInv => IsolatedAlone
  <2> SUFFICES ASSUME ProcessInv, NEW w \in Slots, InTest(w), running[w].target,
                      job[w].test \in Isolated \/ Isolate \/ job[w].fresh
               PROVE  ran[w] = job[w].before
    BY DEF IsolatedAlone
  <2>1. Inside(w) /\ RunsItsStep(w) /\ RunsAlone(w) /\ job[w] \in Jobs /\ job[w] # NoJob
    BY InsideItsTest
  <2>2. NeedsFresh(job[w])
    BY DEF NeedsFresh
  <2>3. step[w] >= Len(job[w].before)
    BY <2>1, Zenon DEF RunsItsStep, Inside
  <2>4. step[w] <= Len(job[w].before) /\ history[w] = SubSeq(job[w].before, 1, step[w])
    BY <2>1, <2>2 DEF RunsAlone
  <2>5. step[w] \in Nat /\ job[w].before \in Seq(Catalog)
    BY <2>1, SlotTypes DEF ProcessInv, Jobs
  <2>6. step[w] = Len(job[w].before)
    BY <2>3, <2>4, <2>5
  <2>7. \A s \in Seq(Catalog) : SubSeq(s, 1, Len(s)) = s
    OBVIOUS
  <2> QED
    BY <2>1, <2>4, <2>5, <2>6, <2>7 DEF Inside
<1> QED
  BY <1>1, InitProcessInv, NextProcessInv, PTL DEF Spec

\* As many tests as --jobs allows are being run, and no more.
THEOREM JobsAreLimited == Spec => []JobsLimit
<1>1. ProcessInv => JobsLimit
  <2> SUFFICES ASSUME ProcessInv PROVE JobsLimit
    OBVIOUS
  <2> DEFINE testing == {w \in Slots : InTest(w) /\ process[w] # "killed"}
  <2>1. testing \subseteq Live
    BY InsideItsTest DEF Live
  <2>2. IsFiniteSet(Live)
    BY FS_Subset DEF ProcessInv, LiveLimit, Live
  <2>3. Cardinality(testing) <= Cardinality(Live)
    BY <2>1, <2>2, FS_Subset
  <2>4. Cardinality(testing) \in Nat /\ Cardinality(Live) \in Nat
    BY <2>1, <2>2, FS_Subset, FS_CardinalityType
  <2> HIDE DEF testing
  <2>5. Cardinality(testing) <= MaximumWorkers
    BY <2>3, <2>4, SchedulerAssumption DEF ProcessInv, LiveLimit, OptionAssumption
  <2> QED
    BY <2>5 DEF JobsLimit, testing
<1> QED
  BY <1>1, InitProcessInv, NextProcessInv, PTL DEF Spec

\* While processes are inside the targets of their jobs, no two of these tests
\* share a resource, and a serial one is alone.
TargetsExclusive ==
  \A w, v \in Slots :
    w # v /\ InTest(w) /\ InTest(v) /\ running[w].target /\ running[v].target =>
      /\ Resources[current[w]] \cap Resources[current[v]] = {}
      /\ current[w] \notin Serial

\* A process in the target of its job is inside the test of the job.
LEMMA InsideItsTarget ==
  ASSUME ProcessInv, NEW w \in Slots, InTest(w), running[w].target
  PROVE  w \in Busy /\ current[w] = job[w].test
<1>1. w \in workers /\ Inside(w) /\ RunsItsStep(w) /\ job[w] # NoJob
  BY InsideItsTest
<1>2. step[w] >= Len(job[w].before)
  BY <1>1, Zenon DEF RunsItsStep, Inside
<1> QED
  BY <1>1, <1>2 DEF RunsItsStep, Inside, StepTest, Busy

\* Targets never run next to tests they exclude, whatever is killed, hangs or
\* ends late: a job keeps its locks until its process is gone.
THEOREM TargetsAreExclusive == Spec => []TargetsExclusive
<1>1. ProcessInv /\ LocksInv => TargetsExclusive
  BY InsideItsTarget DEF LocksInv, JobsExclusive, TargetsExclusive
<1> QED
  BY <1>1, InitProcessInv, NextProcessInv, InitLocksInv, NextLocksInv, PTL DEF Spec

\* No job runs another test before its own.
AllPlain == \A j \in TheJobs : j.kind = "attempt" /\ j.before = <<>>

\* Without probes and replays no such job comes.
LEMMA NextAllPlain ==
  ASSUME JobsInv, TypeInv', AllPlain, [Next]_vars, ~BisectOrder, Replayed = {}
  PROVE  AllPlain'
<1>1. TypeInv /\ JobsApart
  BY DEF JobsInv
<1>2. \A j \in TheJobs : j.kind = "attempt" /\ j.before = <<>>
  BY DEF AllPlain
<1>3. CASE HandsOut \/ PutsBack \/ JobsStay
  <2>1. TheJobs' = TheJobs
    BY <1>1, <1>3, JobsChange
  <2> QED
    BY <1>2, <2>1 DEF AllPlain
<1>4. CASE EnqueuePlanned
  <2>1. enqueued + 1 \in DOMAIN PlanOrder
    BY <1>1, <1>4, SchedulerAssumption
       DEF EnqueuePlanned, PlanAssumption, TypeInv, TypeOK, LoopTypeOK
  <2>2. PICK t \in Tests : t = PlanOrder[enqueued + 1]
    BY <2>1, SchedulerAssumption DEF PlanAssumption
  <2> DEFINE j == Job("attempt", t, <<>>, FALSE)
  <2>3. j \in Jobs /\ j.kind = "attempt" /\ j.before = <<>>
    BY DEF Job, Jobs
  <2>4. Comes(j) /\ job' = job
    BY <1>4, <2>2 DEF EnqueuePlanned, PlannedJob, Enqueue, Comes, workerVars
  <2> HIDE DEF j
  <2>5. TheJobs' = TheJobs \cup {j}
    BY <1>1, <2>3, <2>4, JobsChange
  <2> QED
    BY <1>2, <2>3, <2>5 DEF AllPlain
<1>5. CASE SettleBlocked
  <2>1. PICK i \in DOMAIN queue : queue' = RemoveAt(queue, i)
    BY <1>5, BlockedFinishes
  <2>2. TheJobs' = TheJobs \ {queue[i]}
    BY <1>1, <1>5, <2>1, JobsChange DEF SettleBlocked, workerVars
  <2> QED
    BY <1>2, <2>2 DEF AllPlain
<1>6. CASE DrainQueue
  <2>1. job' = job /\ (queue' = queue \/ queue' = <<>>)
    BY <1>6 DEF DrainQueue, queueVars
  <2>2. CASE queue' = <<>>
    BY <1>1, <1>2, <2>1, <2>2, JobsChange DEF AllPlain
  <2>3. CASE queue' = queue
    <3>1. TheJobs' = TheJobs
      BY <1>1, <2>1, <2>3, BusyIsHanded DEF TheJobs
    <3> QED
      BY <1>2, <3>1 DEF AllPlain
  <2> QED
    BY <2>1, <2>2, <2>3
<1>7. ASSUME NEW w \in Slots, job[w] \in Jobs, job' = [job EXCEPT ![w] = NoJob],
             Tried(w) \/ ProbeOver(w) \/ StartsOver(w) \/ GivenUp
      PROVE  AllPlain'
  <2>1. /\ job[w] \in TheJobs
        /\ queue' = queue => TheJobs' = TheJobs \ {job[w]}
        /\ \A j \in Jobs : Comes(j) => TheJobs' = (TheJobs \ {job[w]}) \cup {j}
    BY <1>1, <1>7, JobsChange
  <2>2. ASSUME NEW j \in Jobs, Comes(j), j.kind = "attempt", j.before = <<>>
        PROVE  AllPlain'
    BY <1>2, <2>1, <2>2 DEF AllPlain
  <2>3. CASE queue' = queue
    BY <1>2, <2>1, <2>3 DEF AllPlain
  <2>4. job[w].kind = "attempt" /\ job[w].before = <<>>
    BY <1>2, <2>1
  <2>5. \A fresh \in BOOLEAN :
          LET j == Job("attempt", job[w].test, <<>>, fresh)
          IN j \in Jobs /\ j.kind = "attempt" /\ j.before = <<>>
    BY <1>7 DEF Job, Jobs
  <2>6. \/ queue' = queue \/ Comes(job[w])
        \/ \E fresh \in BOOLEAN : Comes(Job("attempt", job[w].test, <<>>, fresh))
    BY <1>7, <2>4 DEF Tried, ProbeOver, StartsOver, GivenUp, Again, Retried, Closes
  <2> QED
    BY <1>7, <2>2, <2>3, <2>4, <2>5, <2>6
<1> QED
  BY <1>1, <1>3, <1>4, <1>5, <1>6, <1>7, CountMoves

\* Without probes and replays, which run other tests before the one that has
\* the locks, tests that share a resource are never inside their processes at
\* the same time, and next to a serial test there is no other.
THEOREM TestsAreExclusive ==
  ASSUME ~BisectOrder, Replayed = {}
  PROVE  Spec => []Exclusion
<1>1. ProcessInv /\ LocksInv /\ AllPlain => Exclusion
  <2> SUFFICES ASSUME ProcessInv, LocksInv, AllPlain PROVE Exclusion
    OBVIOUS
  <2>1. ASSUME NEW w \in Slots, InTest(w) PROVE running[w].target
    <3>1. w \in workers /\ Inside(w) /\ RunsItsStep(w) /\ job[w] # NoJob
      BY <2>1, InsideItsTest
    <3>2. job[w] \in TheJobs
      BY <3>1 DEF TheJobs, Busy
    <3>3. Len(job[w].before) = 0
      BY <3>2 DEF AllPlain
    <3>4. step[w] >= 0
      BY SlotTypes DEF ProcessInv
    <3> QED
      BY <3>1, <3>3, <3>4 DEF RunsItsStep, Inside
  <2> QED
    BY <2>1, InsideItsTarget DEF LocksInv, JobsExclusive, Exclusion
<1>2. Init => AllPlain
  BY DEF Init, AllPlain, TheJobs, Busy, Range
<1>3. JobsInv /\ AllPlain /\ [Next]_vars => AllPlain'
  BY NextAllPlain, NextTypeInv DEF JobsInv
<1> QED
  BY <1>1, <1>2, <1>3, InitProcessInv, NextProcessInv, InitLocksInv, NextLocksInv,
     InitJobsInv, NextJobsInv, PTL DEF Spec
-----------------------------------------------------------------------------
(***************************************************************************)
(* Verdicts are true: why a process is dead, hangs or has run out of time. *)
(***************************************************************************)
Ends(t) == EndsAlone[t] \cup EndsPolluted[t]
Polluted(t, before) == Polluters[t] \cap Range(before) # {}
EndsAfter(t, before) == IF Polluted(t, before) THEN EndsPolluted[t] ELSE EndsAlone[t]
\* It may take its process with it, or be killed for its time limit.
CanDie(t) == Ends(t) \ Reported # {} \/ t \in Limited \cap Slow
CanFail(t) == Ends(t) \cap Failing # {} \/ t \in Limited \cap Slow
CanPass(t) == Ends(t) \ Failing # {}
IsTrue(t, outcome) == (IsFailure(outcome) => CanFail(t)) /\ (Passing(outcome) => CanPass(t))

\* A process that is dead was killed for the time limit of its target, died of
\* the test it is in, was told to quit, or never greeted.
DeadForCause(w) ==
  process[w] \in Over =>
    \/ IsRunning(w) /\ w \in killedForTimeout
    \/ IsRunning(w) /\ current[w] # NoTest /\ CanDie(current[w])
    \/ ~IsRunning(w) /\ job[w] = NoJob /\ w \in quitting
    \/ w \notin ready /\ Said(w, <<>>)
StuckForCause(w) ==
  /\ process[w] = "raising" => "fatal" \in Ends(current[w])
  /\ process[w] = "hung" => ~IsRunning(w) \/ "hang" \in Ends(current[w])
\* Only targets that may are killed for their time limit; a limit that has
\* passed is that of such a target or of a process that does not greet any more.
KilledForCause(w) ==
  w \in killedForTimeout =>
    /\ w \in quitting /\ process[w] \in Over
    /\ IsRunning(w) => running[w].target /\ CanDie(running[w].test)
LateForCause(w) ==
  w \in overdue =>
    IF IsRunning(w) THEN running[w].target /\ CanDie(running[w].test)
    ELSE w \notin ready /\ process[w] \notin {"starting", "idle"}
\* The end that is on its way is one the test can have after those before it.
EndIsTrue(w) ==
  IsRunning(w) /\ ran[w] # history[w] =>
    \E x \in Reported \cap EndsAfter(running[w].test, history[w]) : Said(w, <<End(x)>>)

Caused(w) ==
  /\ DeadForCause(w) /\ StuckForCause(w) /\ KilledForCause(w) /\ LateForCause(w) /\ EndIsTrue(w)
CausesInv == \A w \in workers : Caused(w)

\* What these speak of does not change for slot w, but that it may be told to quit.
Same(w) ==
  /\ w \in workers' => w \in workers
  /\ w \in ready' <=> w \in ready
  /\ w \in quitting => w \in quitting'
  /\ w \in killedForTimeout' <=> w \in killedForTimeout
  /\ w \in overdue' => w \in overdue
  /\ job'[w] = job[w] /\ running'[w] = running[w] /\ history'[w] = history[w]
  /\ ran'[w] = ran[w] /\ current'[w] = current[w] /\ process'[w] = process[w]
  /\ Pipe(w)' = Pipe(w)

\* A slot of which these do not change keeps its causes.
LEMMA SameFits ==
  ASSUME NEW w, w \in workers => Caused(w), Same(w), w \in workers'
  PROVE  Caused(w)'
<1>1. \A s : Said(w, s)' <=> Said(w, s)
  BY DEF Said, Same
<1>2. Caused(w) /\ (IsRunning(w)' <=> IsRunning(w))
  BY DEF Same, IsRunning
<1>3. DeadForCause(w)' /\ StuckForCause(w)'
  BY <1>1, <1>2 DEF Same, Caused, DeadForCause, StuckForCause
<1>4. KilledForCause(w)' /\ LateForCause(w)'
  BY <1>2 DEF Same, Caused, KilledForCause, LateForCause
<1>5. EndIsTrue(w)'
  BY <1>1, <1>2 DEF Same, Caused, EndIsTrue
<1> QED
  BY <1>3, <1>4, <1>5 DEF Caused

\* When one slot moves, only its causes are to be shown.
LEMMA OneCauseMoves ==
  ASSUME CausesInv, NEW w, \A v \in workers' \ {w} : Same(v), w \in workers' => Caused(w)'
  PROVE  CausesInv'
<1> SUFFICES ASSUME NEW v \in workers' PROVE Caused(v)'
  BY DEF CausesInv
<1>1. CASE v = w
  BY <1>1
<1>2. CASE v # w
  BY <1>2, SameFits DEF CausesInv
<1> QED
  BY <1>1, <1>2

\* A worker whose process is idle and whose limit has not passed.
LEMMA IdleFits ==
  ASSUME NEW w, process'[w] = "idle", w \notin killedForTimeout', w \notin overdue',
         ran'[w] = history'[w]
  PROVE  Caused(w)'
  BY DEF Caused, DeadForCause, StuckForCause, KilledForCause, LateForCause, EndIsTrue, Over

\* A worker that has a job, has greeted and is in no test is idle.
LEMMA JobMeansIdle ==
  ASSUME TypeInv, NEW w \in workers, SlotInv(w), Caused(w), w \in ready, ~IsRunning(w),
         job[w] # NoJob \/ w \notin quitting
  PROVE  process[w] = "idle" /\ w \notin killedForTimeout
<1>1. w \in Slots /\ Waiting(w)
  BY Phase, SlotTypes
<1>2. process[w] \notin Over
  BY DEF Caused, DeadForCause
<1> QED
  BY <1>1, <1>2 DEF Waiting, Caused, KilledForCause

\* One that is on its way to a test before its target is idle, too.
LEMMA StepMeansIdle ==
  ASSUME NEW w, Ended(w), Caused(w)
  PROVE  process[w] = "idle" \/ (w \in killedForTimeout /\ running[w].target)
  BY DEF Ended, Caused, DeadForCause, KilledForCause

\* The steps of the loop that leave the processes alone.
LEMMA LoopCauses ==
  ASSUME ProcessInv, CausesInv,
         \/ EnqueuePlanned \/ StartLoop \/ SettleBlocked \/ DrainQueue \/ MakeRoom \/ SpawnFails
         \/ DispatchEnds \/ SendHome \/ TakeEvents \/ EndTurn \/ UNCHANGED vars
  PROVE  CausesInv'
<1>1. /\ UNCHANGED <<workers, ready, killedForTimeout, overdue, job, running, history, ran,
                     current, process>>
      /\ quitting \subseteq quitting'
  <2>1. CASE EnqueuePlanned \/ StartLoop \/ SettleBlocked \/ DrainQueue
    BY <2>1 DEF EnqueuePlanned, StartLoop, SettleBlocked, DrainQueue, SendQuit, workerVars,
                flagVars, processVars
  <2>2. CASE MakeRoom \/ SpawnFails \/ DispatchEnds
    BY <2>2 DEF MakeRoom, SpawnFails, DispatchEnds, SendQuit, workerVars, flagVars, processVars
  <2>3. CASE SendHome \/ TakeEvents \/ EndTurn
    BY <2>3 DEF SendHome, TakeEvents, EndTurn, SendQuit, workerVars, flagVars, processVars
  <2>4. CASE UNCHANGED vars
    BY <2>4 DEF vars, workerVars, flagVars, processVars
  <2> QED
    BY <2>1, <2>2, <2>3, <2>4
<1>2. \A w \in Slots : Pipe(w)' = Pipe(w)
  <2>1. CASE TakeEvents
    <3>1. output \in [Slots -> Seq(Messages)] /\ \A w \in Slots : batch[w] = <<>>
      BY <2>1, SlotTypes DEF ProcessInv, BatchHandled, TakeEvents
    <3>2. batch' = output /\ output' = [w \in Slots |-> <<>>]
      BY <2>1 DEF TakeEvents
    <3> QED
      BY <3>1, <3>2 DEF Pipe
  <2>2. CASE ~TakeEvents
    <3>1. UNCHANGED <<batch, output>>
      BY <2>2 DEF EnqueuePlanned, StartLoop, SettleBlocked, DrainQueue, MakeRoom, SpawnFails,
                  DispatchEnds, SendHome, EndTurn, vars, processVars
    <3> QED
      BY <3>1 DEF Pipe
  <2> QED
    BY <2>1, <2>2
<1>3. workers \subseteq Slots
  BY SlotTypes DEF ProcessInv
<1>4. \A w \in workers' : Same(w)
  BY <1>1, <1>2, <1>3 DEF Same
<1> QED
  BY <1>4, SameFits DEF CausesInv

\* The steps that start a test, or a process.
LEMMA StartCauses ==
  ASSUME ProcessInv, ProcessInv', CausesInv, Assign \/ Spawn \/ StartPending
  PROVE  CausesInv'
<1>1. TypeInv /\ SlotsInv /\ UNCHANGED <<batch, output, current, ran, history, killedForTimeout,
                                         ready, quitting>>
  BY DEF ProcessInv, Assign, Spawn, StartPending, flagVars
<1>2. CASE Assign \/ StartPending
  <2>1. UNCHANGED <<workers, process>>
    BY <1>2 DEF Assign, StartPending
  <2>2. PICK w \in workers, j \in Jobs, s \in Nat :
          /\ w \in ready /\ ~IsRunning(w) /\ (job[w] # NoJob \/ w \notin quitting)
          /\ StartStep(w, j, s)
          /\ \A v \in Slots \ {w} : job'[v] = job[v]
    <3>1. CASE Assign
      <4>1. PICK i \in DOMAIN queue, w \in Idle :
              job' = [job EXCEPT ![w] = queue[i]] /\ StartStep(w, queue[i], 0)
        BY <3>1 DEF Assign
      <4>2. queue[i] \in Jobs /\ 0 \in Nat
        BY <1>1, TakenJobType
      <4>3. /\ w \in workers /\ w \in ready /\ ~IsRunning(w) /\ w \notin quitting
            /\ \A v \in Slots \ {w} : job'[v] = job[v]
        BY <1>1, <4>1, SlotTypes DEF Idle, Live
      <4> QED
        BY <4>1, <4>2, <4>3
    <3>2. CASE StartPending
      <4>1. PICK w \in Startable : StartStep(w, job[w], step[w]) /\ UNCHANGED job
        BY <3>2 DEF StartPending
      <4>2. /\ w \in workers /\ w \in ready /\ ~IsRunning(w) /\ job[w] \in Jobs /\ job[w] # NoJob
            /\ step[w] \in Nat
        BY <1>1, <4>1, SlotTypes DEF Startable, TypeInv, TypeOK, WorkerTypeOK
      <4> QED
        BY <4>1, <4>2
    <3> QED
      BY <1>2, <3>1, <3>2
  <2>3. w \in Slots /\ SlotInv(w) /\ Caused(w)
    BY <1>1, <2>2, SlotTypes DEF SlotsInv, CausesInv
  <2>4. process[w] = "idle" /\ w \notin killedForTimeout /\ ran[w] = history[w]
    BY <1>1, <2>2, <2>3, JobMeansIdle, Phase DEF Waiting, Outside
  <2>5. overdue' = overdue \ {w} /\ \A v \in Slots \ {w} : running'[v] = running[v]
    BY <1>1, <2>2, SlotTypes DEF StartStep
  <2>6. Caused(w)'
    BY <1>1, <2>1, <2>4, <2>5, IdleFits
  <2>7. \A v \in workers' \ {w} : Same(v)
    BY <1>1, <2>1, <2>2, <2>5, SlotTypes DEF Same, Pipe
  <2> QED
    BY <2>6, <2>7, OneCauseMoves
<1>3. CASE Spawn
  <2>1. PICK i \in DOMAIN queue, w \in Slots \ workers :
          /\ workers' = workers \cup {w} /\ job' = [job EXCEPT ![w] = queue[i]]
          /\ Becomes(w, "starting") /\ UNCHANGED <<running, overdue>>
    BY <1>3 DEF Spawn
  <2>2. process'[w] = "starting" /\ \A v \in Slots \ {w} : process'[v] = process[v]
    BY <1>1, <2>1, SlotTypes DEF Becomes
  <2>3. w \notin killedForTimeout' /\ w \notin overdue' /\ ~IsRunning(w)'
    BY <1>1, <2>1 DEF TypeInv, TypeOK, WorkerTypeOK, VacantSlots, IsRunning
  <2>4. Caused(w)'
    BY <2>2, <2>3
       DEF Caused, DeadForCause, StuckForCause, KilledForCause, LateForCause, EndIsTrue, Over
  <2>5. \A v \in Slots \ {w} : job'[v] = job[v]
    BY <1>1, <2>1, SlotTypes
  <2>6. \A v \in workers' \ {w} : Same(v)
    BY <1>1, <2>1, <2>2, <2>5, SlotTypes DEF Same, Pipe
  <2> QED
    BY <2>4, <2>6, OneCauseMoves
<1> QED
  BY <1>2, <1>3

\* A limit passes, because the process hangs or the test is slow.
LEMMA LimitCauses ==
  ASSUME ProcessInv, CausesInv, "slow" \notin Faults, NEW w \in Slots, LimitPasses(w)
  PROVE  CausesInv'
<1>1. /\ w \in workers /\ overdue' = overdue \cup {w}
      /\ UNCHANGED <<batch, workers, ready, quitting, killedForTimeout, job, running, history,
                     process, current, output, ran>>
  BY DEF LimitPasses, flagVars, processVars
<1>2. TypeInv /\ SlotInv(w) /\ Caused(w)
  BY <1>1 DEF ProcessInv, SlotsInv, CausesInv
<1>3. LateForCause(w)'
  <2>1. CASE /\ running[w].target /\ running[w].test \in Limited
             /\ (running[w].test \in Slow \/ process[w] = "hung")
    <3>1. IsRunning(w)
      BY <2>1 DEF IsRunning, NotRunning, Running
    <3>2. process[w] = "hung" => current[w] = running[w].test
      BY <1>1, <1>2, <3>1, Phase DEF Sent, Inside, Ended, Over
    <3>3. process[w] = "hung" => "hang" \in Ends(running[w].test)
      BY <1>2, <3>1, <3>2 DEF Caused, StuckForCause
    <3>4. CanDie(running[w].test)
      BY <2>1, <3>3 DEF CanDie, Reported
    <3> QED
      BY <1>1, <2>1, <3>1, <3>4 DEF LateForCause, IsRunning
  <2>2. CASE w \notin ready /\ process[w] = "hung"
    <3>1. ~IsRunning(w)
      BY <1>1, <1>2, <2>2, Phase
    <3> QED
      BY <1>1, <2>2, <3>1 DEF LateForCause, IsRunning
  <2> QED
    BY <2>1, <2>2 DEF LimitPasses
<1>4. Caused(w)'
  BY <1>1, <1>2, <1>3
     DEF Caused, DeadForCause, StuckForCause, KilledForCause, EndIsTrue, IsRunning, Said, Pipe
<1>5. \A v \in workers' \ {w} : Same(v)
  BY <1>1 DEF Same, Pipe
<1> QED
  BY <1>4, <1>5, OneCauseMoves

\* The time limits are checked.
LEMMA DeadlineCauses ==
  ASSUME ProcessInv, CausesInv, CheckDeadlines
  PROVE  CausesInv'
<1> DEFINE timedOut == {w \in overdue : IsRunning(w) /\ w \notin killedForTimeout}
           silent == {w \in overdue \ timedOut : w \notin ready /\ w \notin quitting}
<1>1. /\ killedForTimeout' = killedForTimeout \cup timedOut
      /\ quitting' = quitting \cup timedOut \cup silent
      /\ Kill(timedOut \cup silent) /\ overdue' = {}
      /\ UNCHANGED <<batch, workers, ready, job, running, history, current, output, ran>>
  BY DEF CheckDeadlines
<1> SUFFICES ASSUME NEW w \in workers PROVE Caused(w)'
  BY <1>1 DEF CausesInv
<1>2. TypeInv /\ w \in Slots /\ SlotInv(w) /\ Caused(w)
  BY SlotTypes DEF ProcessInv, SlotsInv, CausesInv
<1>3. (IsRunning(w)' <=> IsRunning(w)) /\ \A s : Said(w, s)' <=> Said(w, s)
  BY <1>1 DEF IsRunning, Said, Pipe
<1>4. LateForCause(w)' /\ EndIsTrue(w)'
  BY <1>1, <1>2, <1>3 DEF LateForCause, Caused, EndIsTrue
<1>5. process[w] # "none"
  BY <1>2, Phase
<1>6. CASE w \in timedOut \cup silent
  <2>1. process'[w] \in Over
    BY <1>1, <1>2, <1>5, <1>6 DEF Kill, Over
  <2>2. StuckForCause(w)'
    BY <2>1 DEF StuckForCause, Over
  <2>3. CASE w \in timedOut
    <3>1. IsRunning(w) /\ running[w].target /\ CanDie(running[w].test)
      BY <1>2, <2>3 DEF Caused, LateForCause
    <3>2. KilledForCause(w)' /\ DeadForCause(w)'
      BY <1>1, <1>3, <2>1, <2>3, <3>1 DEF KilledForCause, DeadForCause
    <3> QED
      BY <1>4, <2>2, <3>2 DEF Caused
  <2>4. CASE w \in silent
    <3>1. w \notin ready /\ process[w] \notin {"starting", "idle"} /\ ~IsRunning(w)
      BY <1>2, <2>4, Phase DEF Caused, LateForCause
    <3>2. Unstarted(w) /\ w \notin killedForTimeout /\ w \notin timedOut
      BY <1>2, <2>4, <3>1, Phase DEF Caused, KilledForCause, TypeInv, TypeOK
    <3>3. Said(w, <<>>)
      BY <1>2, <3>1, <3>2, Phase DEF Unstarted, Caused, DeadForCause, JobGoesOn
    <3>4. KilledForCause(w)' /\ DeadForCause(w)'
      BY <1>1, <1>3, <3>1, <3>2, <3>3 DEF KilledForCause, DeadForCause
    <3> QED
      BY <1>4, <2>2, <3>4 DEF Caused
  <2> QED
    BY <1>6, <2>3, <2>4
<1>7. CASE w \notin timedOut \cup silent
  <2>1. process'[w] = process[w]
    BY <1>1, <1>2, <1>7 DEF Kill
  <2>2. DeadForCause(w)' /\ StuckForCause(w)' /\ KilledForCause(w)'
    BY <1>1, <1>2, <1>3, <1>7, <2>1 DEF Caused, DeadForCause, StuckForCause, KilledForCause
  <2> QED
    BY <1>4, <2>2 DEF Caused
<1> QED
  BY <1>6, <1>7

\* The steps of the processes.
LEMMA StepCauses ==
  ASSUME ProcessInv, CausesInv, "idle" \notin Faults, NEW w \in Slots, WorkerStep(w)
  PROVE  CausesInv'
<1>2. /\ UNCHANGED <<batch, workers, ready, quitting, killedForTimeout, overdue, job, running,
                     history>>
      /\ \A v \in workers' \ {w} : Same(v)
  <2>1. UNCHANGED <<batch, workers, ready, quitting, killedForTimeout, overdue, job, running,
                    history>>
    BY DEF WorkerStep, workerVars, flagVars
  <2>2. \A v \in Slots \ {w} : Stays(v) /\ process'[v] = process[v]
    <3>1. \A v \in Slots \ {w} : process'[v] = process[v]
      BY SlotTypes
         DEF ProcessInv, WorkerStep, ProcessStep, Greets, FailsToStart, TakesRun, TakesQuit,
             EndsTest, Crashes, ReportsFatal, Raises, Hangs, DiesIdle, StreamsClose, Dies, Becomes
    <3> QED
      BY <3>1, OthersStay DEF ProcessInv
  <2> QED
    BY <2>1, <2>2, SlotTypes DEF Same, Stays, ProcessInv
<1>3. TypeInv /\ SlotInv(w) /\ process[w] \notin {"none", "gone"}
  BY DEF ProcessInv, SlotsInv, WorkerStep, ProcessStep, Greets, FailsToStart, TakesRun, TakesQuit,
         EndsTest, Crashes, ReportsFatal, Raises, Hangs, DiesIdle, StreamsClose
<1>4. w \in workers /\ Moment(w) /\ Caused(w) /\ (IsRunning(w)' <=> IsRunning(w))
  BY <1>2, <1>3 DEF TypeInv, VacantSlots, SlotInv, CausesInv, IsRunning
<1>5. Caused(w)'
  <2> USE DEF Caused, DeadForCause, StuckForCause, KilledForCause, LateForCause, EndIsTrue
  <2>1. CASE Greets(w)
    <3>1. process[w] = "starting" /\ process'[w] = "idle" /\ ran'[w] = ran[w]
      BY <1>3, <2>1, SlotTypes DEF Greets, Becomes
    <3>2. Unstarted(w)
      BY <1>4, <3>1 DEF Moment, Unstarted, Waiting, Sent, Inside, Ended, Over
    <3> QED
      BY <1>2, <1>4, <3>1, <3>2 DEF Unstarted, Outside, Over
  <2>2. CASE FailsToStart(w)
    <3>1. process[w] = "starting" /\ process'[w] \in {"gone", "hung"} /\ ran'[w] = ran[w]
      BY <1>3, <2>2, SlotTypes DEF FailsToStart, Dies, Becomes
    <3>2. Unstarted(w) /\ Said(w, <<>>)
      BY <1>4, <3>1 DEF Moment, Unstarted, Waiting, Sent, Inside, Ended, Over
    <3>3. Said(w, <<>>)'
      BY <1>2, <1>3, <2>2, <3>2, SaysMore, SaidTypes DEF FailsToStart, Dies, Said, Pipe
    <3> QED
      BY <1>2, <1>4, <3>1, <3>2, <3>3 DEF Unstarted, Outside, Over
  <2>3. CASE TakesRun(w)
    <3>1. process[w] = "idle" /\ process'[w] = "running" /\ ran'[w] = ran[w]
      BY <1>3, <2>3, SlotTypes DEF TakesRun, Becomes
    <3>2. Sent(w)
      BY <1>4, <2>3 DEF Moment, Unstarted, Waiting, Sent, Inside, Ended, Over, TakesRun
    <3> QED
      BY <1>2, <1>4, <3>1, <3>2 DEF Sent, Outside, Over
  <2>4. CASE TakesQuit(w)
    <3>1. process[w] = "idle" /\ process'[w] \in {"gone", "hung"} /\ ran'[w] = ran[w]
      BY <1>3, <2>4, SlotTypes DEF TakesQuit, Dies, Becomes
    <3>2. Waiting(w) /\ w \in quitting /\ job[w] = NoJob
      <4>1. ~Sent(w)
        BY <1>3, <2>4, SlotTypes DEF TakesQuit, Sent
      <4> QED
        BY <1>4, <2>4, <3>1, <4>1
           DEF TakesQuit, Moment, Unstarted, Waiting, Inside, Ended, Over
    <3> QED
      BY <1>2, <1>4, <3>1, <3>2 DEF Waiting, Outside, Over
  <2>5. CASE EndsTest(w)
    <3>1. /\ process[w] = "running" /\ process'[w] = "idle"
          /\ \E x \in EndsOf(w) \cap Reported : Sends(w, <<End(x)>>)
      BY <1>3, <2>5, SlotTypes DEF EndsTest, Becomes, End
    <3>2. Inside(w) /\ Said(w, <<>>)
      BY <1>4, <3>1 DEF Moment, Unstarted, Waiting, Sent, Inside, Ended, Over
    <3>3. PICK x \in Reported \cap EndsAfter(running[w].test, history[w]) :
            Sends(w, <<End(x)>>)
      BY <3>1, <3>2 DEF EndsOf, EndsAfter, Polluted, Inside
    <3>4. Said(w, <<End(x)>>)'
      BY <1>2, <1>3, <3>1, <3>2, <3>3, SaysMore, SaidTypes
    <3>5. EndIsTrue(w)'
      BY <1>2, <3>4
    <3> QED
      BY <1>2, <1>4, <3>1, <3>2, <3>5 DEF Inside, Over
  <2>6. CASE Crashes(w) \/ ReportsFatal(w) \/ Hangs(w)
    <3>1. /\ process[w] = "running" /\ UNCHANGED <<current, ran>>
          /\ \/ process'[w] = "gone" /\ "crash" \in EndsOf(w)
             \/ process'[w] = "raising" /\ "fatal" \in EndsOf(w)
             \/ process'[w] = "hung" /\ "hang" \in EndsOf(w)
      BY <1>3, <2>6, SlotTypes DEF Crashes, ReportsFatal, Hangs, Dies, Becomes
    <3>2. Inside(w)
      BY <1>4, <3>1 DEF Moment, Unstarted, Waiting, Sent, Inside, Ended, Over
    <3>3. EndsOf(w) \subseteq Ends(current[w])
      BY DEF EndsOf, Ends
    <3>4. IsRunning(w) /\ current[w] # NoTest
      BY <1>3, <3>2, SlotTypes DEF Inside
    <3> QED
      BY <1>2, <1>4, <3>1, <3>2, <3>3, <3>4 DEF Inside, Over, CanDie, Reported
  <2>7. CASE Raises(w)
    <3>1. /\ process[w] = "raising" /\ process'[w] = "gone" /\ UNCHANGED <<current, ran>>
      BY <1>3, <2>7, SlotTypes DEF Raises, Dies, Becomes
    <3>2. Inside(w)
      BY <1>4, <3>1 DEF Moment, Unstarted, Waiting, Sent, Inside, Ended, Over
    <3>3. IsRunning(w) /\ current[w] # NoTest
      BY <1>3, <3>2, SlotTypes DEF Inside
    <3> QED
      BY <1>2, <1>4, <3>1, <3>2, <3>3 DEF Inside, Over, CanDie, Reported
  <2>8. CASE StreamsClose(w)
    <3>1. /\ process[w] = "killed" /\ process'[w] = "gone" /\ UNCHANGED <<current, ran>>
          /\ Sends(w, <<Closed>>)
      BY <1>3, <2>8, SlotTypes DEF StreamsClose, Dies, Becomes
    <3>2. /\ Said(w, <<>>) => Said(w, <<>>)'
          /\ \A x \in Reported : Said(w, <<End(x)>>) => Said(w, <<End(x)>>)'
      BY <1>2, <1>3, <3>1, SaysMore, SaidTypes
    <3>3. EndIsTrue(w)'
      BY <1>2, <1>4, <3>1, <3>2
    <3> QED
      BY <1>2, <1>4, <3>1, <3>2, <3>3 DEF Over
  <2> QED
    BY <2>1, <2>2, <2>3, <2>4, <2>5, <2>6, <2>7, <2>8 DEF WorkerStep, ProcessStep, DiesIdle
<1> QED
  BY <1>2, <1>5, OneCauseMoves

\* The messages.
LEMMA HelloCauses ==
  ASSUME ProcessInv, ProcessInv', CausesInv, NEW w \in Slots, HandleHello(w)
  PROVE  CausesInv'
<1>1. TypeInv /\ SlotInv(w) /\ NextEvent(w, "hello") /\ DropEvent(w)
  BY DEF ProcessInv, SlotsInv, HandleHello
<1>2. UNCHANGED <<workers, killedForTimeout, job, running, history, current, output, ran>>
  BY DEF HandleHello
<1>3. /\ w \in workers /\ \A v \in Slots \ {w} : Pipe(v)' = Pipe(v)
      /\ Unstarted(w) /\ process[w] \in {"idle"} \cup Over /\ Said(w, <<>>)'
  BY <1>1, <1>2, EventMeans DEF HandleHello
<1>4. ~Said(w, <<>>) /\ Caused(w) /\ ~IsRunning(w) /\ ~IsRunning(w)'
  <2>1. Said(w, <<>>) => Head(batch[w]) = Closed
    BY <1>1, <1>2, NextMessage DEF NextEvent, DropEvent, HandleHello
  <2> QED
    BY <1>1, <1>2, <1>3, <2>1, MessageKinds DEF NextEvent, CausesInv, Unstarted, IsRunning
<1>5. process[w] = "idle"
  <2>1. job[w] # NoJob
    BY <1>1, <1>3, Phase DEF JobGoesOn, Unstarted
  <2> QED
    BY <1>3, <1>4, <2>1 DEF Caused, DeadForCause
<1>6. w \notin killedForTimeout /\ w \notin overdue
  BY <1>4, <1>5 DEF Caused, KilledForCause, LateForCause, Over
<1>7. CASE Head(batch[w]).is = "same"
  <2>1. ready' = ready \cup {w} /\ overdue' = overdue \ {w} /\ UNCHANGED <<quitting, process>>
    BY <1>7 DEF HandleHello
  <2>2. Caused(w)'
    BY <1>2, <1>3, <1>5, <1>6, <2>1, IdleFits DEF Unstarted, Outside
  <2>3. \A v \in workers' \ {w} : Same(v)
    BY <1>1, <1>2, <1>3, <2>1, SlotTypes DEF Same
  <2> QED
    BY <2>2, <2>3, OneCauseMoves
<1>8. CASE Head(batch[w]).is # "same"
  <2>1. quitting' = quitting \cup {w} /\ Kill({w}) /\ UNCHANGED <<ready, overdue>>
    BY <1>8 DEF HandleHello
  <2>2. process'[w] = "killed" /\ \A v \in Slots \ {w} : process'[v] = process[v]
    BY <1>5, <2>1 DEF Kill
  <2>3. Caused(w)'
    BY <1>2, <1>3, <1>4, <1>6, <2>1, <2>2
       DEF Caused, DeadForCause, StuckForCause, KilledForCause, LateForCause, EndIsTrue, Over,
           Unstarted
  <2>4. \A v \in workers' \ {w} : Same(v)
    BY <1>1, <1>2, <1>3, <2>1, <2>2, SlotTypes DEF Same
  <2> QED
    BY <2>3, <2>4, OneCauseMoves
<1> QED
  BY <1>7, <1>8

\* Messages that are no end of a test leave the causes as they are.
LEMMA MessageCauses ==
  ASSUME ProcessInv, CausesInv, NEW w \in Slots, HandleFatal(w) \/ IgnoreEnd(w) \/ HandleClosed(w)
  PROVE  CausesInv'
<1>1. TypeInv /\ SlotInv(w) /\ DropEvent(w)
  BY DEF ProcessInv, SlotsInv, HandleFatal, IgnoreEnd, HandleClosed
<1>2. UNCHANGED <<workers, ready, quitting, killedForTimeout, overdue, job, history, process,
                  current, output, ran>>
  BY DEF HandleFatal, IgnoreEnd, HandleClosed, workerVars, flagVars, processVars
<1>3. /\ running'[w].test = running[w].test /\ running'[w].target = running[w].target
      /\ IsRunning(w)' => IsRunning(w)
      /\ running[w].fatal \/ running'[w].fatal \/ running' = running
      /\ \A v \in Slots \ {w} : running'[v] = running[v]
  <2>1. running' = running \/ (IsRunning(w) /\ running' = [running EXCEPT ![w].fatal = TRUE])
    BY DEF HandleFatal, IgnoreEnd, HandleClosed, workerVars
  <2> QED
    BY <1>1, <2>1, SlotTypes DEF IsRunning
<1>4. w \in workers /\ \A v \in Slots \ {w} : Pipe(v)' = Pipe(v)
  BY <1>1, <1>2, EventMeans DEF HandleFatal, IgnoreEnd, HandleClosed
<1>5. Caused(w) /\ w \in workers'
  BY <1>2, <1>4 DEF CausesInv
<1>6. ASSUME HandleFatal(w) \/ IgnoreEnd(w) PROVE Caused(w)'
  <2>1. Inside(w) /\ w \in ready
    BY <1>1, <1>2, <1>6, EventMeans DEF HandleFatal, IgnoreEnd, Inside, Ended
  <2>2. IsRunning(w)'
    <3>1. running[w].test # NoTest
      BY <1>1, <2>1, SlotTypes DEF Inside
    <3> QED
      BY <1>3, <3>1 DEF IsRunning, NotRunning, Running
  <2> QED
    BY <1>2, <1>3, <1>5, <2>1, <2>2
       DEF Caused, DeadForCause, StuckForCause, KilledForCause, LateForCause, EndIsTrue, Inside
<1>7. ASSUME HandleClosed(w) PROVE Caused(w)'
  <2>1. /\ Said(w, <<>>) /\ Said(w, <<>>)'
        /\ \A m \in Messages : m # Closed => ~Said(w, <<m>>)
    BY <1>1, <1>2, <1>7, EventMeans DEF HandleClosed
  <2>2. \A x \in Reported : End(x) \in Messages /\ End(x) # Closed
    BY MessageKinds
  <2>3. ~(IsRunning(w) /\ ran[w] # history[w])
    BY <1>5, <2>1, <2>2 DEF Caused, EndIsTrue
  <2>4. running' = running
    BY <1>7 DEF HandleClosed
  <2> QED
    BY <1>2, <1>5, <2>1, <2>3, <2>4
       DEF Caused, DeadForCause, StuckForCause, KilledForCause, LateForCause, EndIsTrue, IsRunning
<1>8. Caused(w)'
  BY <1>6, <1>7
<1>9. \A v \in workers' \ {w} : Same(v)
  BY <1>1, <1>2, <1>3, <1>4, SlotTypes DEF Same
<1> QED
  BY <1>8, <1>9, OneCauseMoves

\* The end of a test that is handled leaves a process without a test.
LEMMA EndCauses ==
  ASSUME ProcessInv, CausesInv, NEW w \in Slots, HandleStepEnd(w) \/ HandleTargetEnd(w)
  PROVE  CausesInv'
<1>1. TypeInv /\ SlotInv(w) /\ NextEvent(w, "end") /\ DropEvent(w) /\ ~running[w].fatal
  BY DEF ProcessInv, SlotsInv, HandleStepEnd, HandleTargetEnd
<1>2. UNCHANGED <<workers, ready, killedForTimeout, process, current, output, ran>>
  BY DEF HandleStepEnd, HandleTargetEnd, flagVars
<1>3. /\ w \in workers /\ \A v \in Slots \ {w} : Pipe(v)' = Pipe(v)
      /\ Ended(w)
  BY <1>1, <1>2, EventMeans DEF HandleStepEnd, HandleTargetEnd
<1>4. Caused(w)
  BY <1>3 DEF CausesInv
<1>5. /\ history'[w] = ran[w] /\ overdue' = overdue \ {w} /\ quitting \subseteq quitting'
      /\ \A v \in Slots \ {w} : /\ history'[v] = history[v] /\ running'[v] = running[v]
                                /\ job'[v] = job[v]
  <2>1. history' = [history EXCEPT ![w] = Append(@, running[w].test)]
    BY DEF HandleStepEnd, HandleTargetEnd
  <2>2. \/ running' = [running EXCEPT ![w] = NotRunning]
        \/ \E r : running' = [running EXCEPT ![w] = r]
    BY DEF HandleStepEnd, HandleTargetEnd, StartStep
  <2>3. job' = job \/ job' = [job EXCEPT ![w] = NoJob]
    BY DEF HandleStepEnd, HandleTargetEnd
  <2>4. overdue' = overdue \ {w} /\ quitting \subseteq quitting'
    BY DEF HandleStepEnd, HandleTargetEnd, StartStep, SendQuit, flagVars
  <2> QED
    BY <1>1, <1>3, <2>1, <2>2, <2>3, <2>4, SlotTypes DEF Ended
<1>6. ASSUME HandleStepEnd(w) PROVE Caused(w)'
  <2>1. process[w] = "idle" /\ w \notin killedForTimeout
    BY <1>3, <1>4, <1>6, StepMeansIdle DEF HandleStepEnd, Caused, KilledForCause, Ended
  <2> QED
    BY <1>2, <1>5, <2>1, IdleFits
<1>7. ASSUME HandleTargetEnd(w) PROVE Caused(w)'
  <2>1. job'[w] = NoJob /\ ~IsRunning(w)'
    BY <1>1, <1>7, SlotTypes DEF HandleTargetEnd, IsRunning
  <2>2. process[w] = "idle" \/ (process[w] \in Over /\ w \in killedForTimeout)
    BY <1>3, <1>4, StepMeansIdle DEF Ended
  <2>3. w \in killedForTimeout => w \in quitting /\ process[w] \in Over
    BY <1>4 DEF Caused, KilledForCause
  <2> QED
    BY <1>2, <1>5, <2>1, <2>2, <2>3
       DEF Caused, DeadForCause, StuckForCause, KilledForCause, LateForCause, EndIsTrue, Over
<1>8. Caused(w)'
  BY <1>6, <1>7
<1>9. \A v \in workers' \ {w} : Same(v)
  BY <1>1, <1>2, <1>3, <1>5, SlotTypes DEF Same
<1> QED
  BY <1>8, <1>9, OneCauseMoves

\* Every step has its causes, if none dies idle and none greets late.
LEMMA NextCauses ==
  ASSUME ProcessInv, ProcessInv', CausesInv, [Next]_vars, {"idle", "slow"} \cap Faults = {}
  PROVE  CausesInv'
<1>1. ASSUME NEW w \in Slots, WorkerEnded(w) PROVE CausesInv'
  <2>1. Vacate(w) /\ UNCHANGED <<batch, output>> /\ TypeInv
    BY <1>1 DEF WorkerEnded, ProcessInv
  <2>2. w \notin workers' /\ \A v \in workers' \ {w} : Same(v)
    BY <2>1, SlotTypes DEF Vacate, Same, Pipe, Becomes
  <2> QED
    BY <2>2, OneCauseMoves
<1>2. "idle" \notin Faults /\ "slow" \notin Faults
  OBVIOUS
<1> QED
  BY <1>1, <1>2, LoopCauses, StartCauses, LimitCauses, DeadlineCauses, StepCauses, HelloCauses,
     MessageCauses, EndCauses
     DEF Next, LoopStep, Handle, Terminated
-----------------------------------------------------------------------------
\* The attempts of a test have outcomes it can have.
TrueAttempts(t) == {a \in Attempts : IsTrue(t, a.outcome)}
AttemptsTrue == \A t \in Tests : attempts[t] \in Seq(TrueAttempts(t))
VerdictsTrue == \A t \in Tests : IsTrue(t, verdict[t])

\* A target whose end is handled has run after what the runner believes, and
\* its test ended as it may after that.
LEMMA EndOfTarget ==
  ASSUME ProcessInv, CausesInv, NEW w \in Slots, HandleTargetEnd(w)
  PROVE  /\ w \in workers /\ job[w] \in Jobs /\ running[w].test = job[w].test /\ Ended(w)
         /\ Head(batch[w]).is \in Reported \cap EndsAfter(job[w].test, history[w])
         /\ step[w] >= Len(job[w].before) /\ RunsAlone(w)
<1>1. TypeInv /\ SlotInv(w) /\ IsRunning(w) /\ running[w].target
  BY DEF ProcessInv, SlotsInv, HandleTargetEnd
<1>2. w \in workers /\ job[w] \in Jobs /\ RunsAlone(w)
  BY <1>1, SlotTypes DEF TypeInv, VacantSlots, IsRunning, SlotInv
<1>3. running[w].test = StepTest(job[w], step[w]) /\ step[w] >= Len(job[w].before)
  BY <1>1, <1>2, Phase, Zenon DEF RunsItsStep
<1>4. running[w].test = job[w].test
  BY <1>3 DEF StepTest
<1>5. Ended(w)
  BY <1>1, EventMeans DEF HandleTargetEnd
<1>6. ran[w] # history[w]
  <2>1. history[w] \in Seq(Catalog) /\ running[w].test \in Catalog
    BY <1>1, SlotTypes
  <2>2. \A s \in Seq(Catalog), c \in Catalog : Append(s, c) # s
    <3>1. \A s \in Seq(Catalog), c \in Catalog : Len(Append(s, c)) = Len(s) + 1 /\ Len(s) \in Nat
      OBVIOUS
    <3>2. TAKE s \in Seq(Catalog), c \in Catalog
    <3>3. Len(Append(s, c)) # Len(s)
      BY <3>1
    <3> QED
      BY <3>3
  <2> QED
    BY <1>5, <2>1, <2>2 DEF Ended
<1>7. PICK x \in Reported \cap EndsAfter(running[w].test, history[w]) : Said(w, <<End(x)>>)
  BY <1>1, <1>2, <1>6 DEF CausesInv, Caused, EndIsTrue
<1>8. Head(batch[w]) = End(x)
  BY <1>1, <1>7, NextMessage, MessageKinds DEF HandleTargetEnd, NextEvent, DropEvent
<1>9. Head(batch[w]).is = x
  BY <1>8, MessageKinds
<1> QED
  BY <1>2, <1>3, <1>4, <1>5, <1>7, <1>9

\* A test that is running when its process ends is one that may end it.
LEMMA EndOfProcess ==
  ASSUME ProcessInv, CausesInv, NEW w \in Slots, WorkerEnded(w), IsRunning(w)
  PROVE  /\ w \in workers /\ job[w] \in Jobs /\ running[w].test \in Catalog
         /\ CanDie(running[w].test)
         /\ running[w].target => running[w].test = job[w].test
<1>1. TypeInv /\ SlotInv(w)
  BY DEF ProcessInv, SlotsInv
<1>2. w \in workers /\ job[w] \in Jobs /\ running[w].test \in Catalog
  BY <1>1, SlotTypes DEF TypeInv, VacantSlots, IsRunning
<1>3. Caused(w) /\ (Sent(w) \/ Inside(w) \/ Ended(w))
  BY <1>1, <1>2, Phase DEF CausesInv
<1>4. running[w].target => running[w].test = job[w].test
  <2>1. /\ running[w].test = StepTest(job[w], step[w])
        /\ running[w].target => step[w] >= Len(job[w].before)
    BY <1>1, <1>2, Phase, Zenon DEF RunsItsStep
  <2> QED
    BY <2>1 DEF StepTest
<1>5. process[w] \in Over /\ w \in ready
  BY <1>1, <1>2, Phase DEF WorkerEnded, TypeInv, ClosedIsLast, Over
<1>6. CASE w \in killedForTimeout
  BY <1>2, <1>3, <1>4, <1>6 DEF Caused, KilledForCause
<1>7. CASE w \notin killedForTimeout
  <2>1. current[w] # NoTest /\ CanDie(current[w])
    BY <1>3, <1>5, <1>7 DEF Caused, DeadForCause
  <2> QED
    BY <1>2, <1>3, <1>4, <2>1 DEF Sent, Inside, Ended, Outside
<1> QED
  BY <1>6, <1>7

\* What ends as it says, is killed or dies says so of its target.
LEMMA OutcomeIsTrue ==
  ASSUME ProcessInv, CausesInv, NEW w \in Slots, NEW outcome,
         \/ HandleTargetEnd(w) /\ outcome = Head(batch[w]).is
         \/ /\ WorkerEnded(w) /\ running[w].target
            /\ outcome = (IF w \in killedForTimeout THEN "timed-out" ELSE "crashed")
  PROVE  job[w] \in Jobs /\ outcome \in Made /\ IsTrue(job[w].test, outcome)
<1>1. CASE HandleTargetEnd(w) /\ outcome = Head(batch[w]).is
  <2>1. job[w] \in Jobs /\ outcome \in Reported \cap EndsAfter(job[w].test, history[w])
    BY <1>1, EndOfTarget
  <2>2. outcome \in Ends(job[w].test)
    BY <2>1 DEF EndsAfter, Ends
  <2> QED
    BY <2>1, <2>2 DEF IsTrue, CanFail, CanPass, IsFailure, Passing, Failing, Reported, Made
<1>2. CASE /\ WorkerEnded(w) /\ running[w].target
           /\ outcome = (IF w \in killedForTimeout THEN "timed-out" ELSE "crashed")
  <2>1. IsRunning(w)
    BY <1>2 DEF IsRunning, NotRunning, Running
  <2>2. job[w] \in Jobs /\ job[w].test \in Catalog /\ CanDie(job[w].test)
    BY <1>2, <2>1, EndOfProcess
  <2>3. Ends(job[w].test) \subseteq Endings
    BY <2>2, CatalogAssumption DEF Ends
  <2>4. CanFail(job[w].test)
    BY <2>2, <2>3 DEF CanDie, CanFail, Failing, Reported, Endings
  <2> QED
    BY <1>2, <2>2, <2>4 DEF IsTrue, IsFailure, Passing, Made
<1> QED
  BY <1>1, <1>2

\* An attempt is added with an outcome its test can have.
LEMMA NextAttemptsTrue ==
  ASSUME ProcessInv, CausesInv, AttemptsTrue, [Next]_vars
  PROVE  AttemptsTrue'
<1>1. CASE UNCHANGED attempts
  BY <1>1 DEF AttemptsTrue
<1>2. ASSUME NEW w \in Slots, NEW outcome, Complete(w, outcome),
             \/ HandleTargetEnd(w) /\ outcome = Head(batch[w]).is
             \/ /\ WorkerEnded(w) /\ running[w].target
                /\ outcome = (IF w \in killedForTimeout THEN "timed-out" ELSE "crashed")
      PROVE  AttemptsTrue'
  <2> DEFINE a == [outcome |-> outcome, precededBy |-> history[w]]
  <2>1. job[w] \in Jobs /\ outcome \in Made /\ IsTrue(job[w].test, outcome)
    BY <1>2, OutcomeIsTrue
  <2>2. PICK t \in Tests : t = job[w].test
    BY <2>1 DEF Jobs
  <2>3. a \in TrueAttempts(t) /\ a.outcome = outcome
    BY <2>1, <2>2, SlotTypes DEF ProcessInv, TrueAttempts, Attempts, Made, Reported, Outcome
  <2>4. attempts' = attempts \/ attempts' = [attempts EXCEPT ![t] = Append(attempts[t], a)]
    BY <1>2, <2>2 DEF Complete
  <2>5. attempts \in [Tests -> Seq(Attempts)]
    BY DEF ProcessInv, TypeInv, TypeOK, TestTypeOK
  <2> HIDE DEF a
  <2>6. Append(attempts[t], a) \in Seq(TrueAttempts(t))
    BY <2>2, <2>3 DEF AttemptsTrue
  <2>7. \A u \in Tests \ {t} : attempts'[u] = attempts[u]
    BY <2>4, <2>5
  <2>8. attempts'[t] \in Seq(TrueAttempts(t))
    BY <2>2, <2>4, <2>5, <2>6 DEF AttemptsTrue
  <2> QED
    BY <2>7, <2>8 DEF AttemptsTrue
<1>3. ASSUME NEW w \in Slots, HandleTargetEnd(w) PROVE AttemptsTrue'
  BY <1>2, <1>3 DEF HandleTargetEnd
<1>4. ASSUME NEW w \in Slots, WorkerEnded(w) PROVE AttemptsTrue'
  <2>1. UNCHANGED attempts
          \/ /\ running[w].target
             /\ Complete(w, IF w \in killedForTimeout THEN "timed-out" ELSE "crashed")
    BY <1>4 DEF WorkerEnded, testVars
  <2> QED
    BY <1>1, <1>2, <1>4, <2>1
<1>5. CASE \A w \in Slots : ~HandleTargetEnd(w) /\ ~WorkerEnded(w)
  <2>1. EnqueuePlanned \/ SettleBlocked \/ DrainQueue \/ HandsOut \/ PutsBack \/ JobsStay
    BY <1>5, OtherMoves DEF ProcessInv
  <2>2. UNCHANGED attempts
    BY <2>1 DEF EnqueuePlanned, SettleBlocked, DrainQueue, HandsOut, PutsBack, JobsStay, testVars
  <2> QED
    BY <1>1, <2>2
<1> QED
  BY <1>3, <1>4, <1>5

\* The verdict of true attempts is true.
LEMMA NextVerdictsTrue ==
  ASSUME TypeInv, TypeInv', AttemptsTrue', VerdictsTrue, [Next]_vars
  PROVE  VerdictsTrue'
<1>1. VerdictTypeOK
  BY DEF TypeInv, TypeOK
<1>2. CASE Unresolved
  BY <1>2 DEF Unresolved, VerdictsTrue
<1>3. ASSUME NEW t \in Tests, NEW outcome, NEW isFlaky, Finish(t, outcome, isFlaky),
             IsTrue(t, outcome)
      PROVE  VerdictsTrue'
  <2>1. \A u \in Tests : verdict'[u] = verdict[u] \/ (u = t /\ verdict'[u] = outcome)
    BY <1>1, <1>3 DEF Finish, VerdictTypeOK
  <2> QED
    BY <1>3, <2>1 DEF VerdictsTrue
<1>4. ASSUME NEW t \in Tests, Finish(t, "blocked", FALSE) PROVE VerdictsTrue'
  BY <1>3, <1>4 DEF IsTrue, IsFailure, Passing
<1>5. ASSUME NEW t \in Tests, NEW reproduced \in BOOLEAN, attempts'[t] # <<>>,
             FinishTried(t, attempts'[t], reproduced)
      PROVE  VerdictsTrue'
  <2>1. attempts'[t] \in Seq(TrueAttempts(t))
    BY DEF AttemptsTrue
  <2>2. \A a \in TrueAttempts(t) : a.outcome \in {x \in Outcome : IsTrue(t, x)}
    BY DEF TrueAttempts, Attempts
  <2>3. Verdict(attempts'[t], reproduced) \in {x \in Outcome : IsTrue(t, x)}
    BY <1>5, <2>1, <2>2, VerdictIsAnAttempts
  <2> QED
    BY <1>3, <1>5, <2>3 DEF FinishTried
<1> QED
  BY <1>2, <1>4, <1>5, VerdictMoves

\* Verdicts are true, if no process dies while it is idle and none is too slow
\* to greet: a test is said to have failed, crashed or timed out only if it can,
\* and to have passed only if it can, whatever other processes and messages do.
THEOREM VerdictsAreTrue ==
  ASSUME {"idle", "slow"} \cap Faults = {}
  PROVE  Spec => []VerdictIsTrue
<1>1. VerdictsTrue => VerdictIsTrue
  BY DEF VerdictsTrue, VerdictIsTrue, IsTrue, CanFail, CanPass, Ends
<1>2. Init => CausesInv /\ AttemptsTrue /\ VerdictsTrue
  <2> SUFFICES ASSUME Init PROVE CausesInv /\ AttemptsTrue /\ VerdictsTrue
    OBVIOUS
  <2>1. CausesInv
    BY DEF Init, CausesInv
  <2>2. AttemptsTrue
    BY DEF Init, AttemptsTrue
  <2>3. VerdictsTrue
    BY DEF Init, VerdictsTrue, IsTrue, IsFailure, Passing
  <2> QED
    BY <2>1, <2>2, <2>3
<1>3. ProcessInv /\ ProcessInv' /\ CausesInv /\ AttemptsTrue /\ VerdictsTrue /\ [Next]_vars
        => (CausesInv /\ AttemptsTrue /\ VerdictsTrue)'
  BY NextCauses, NextAttemptsTrue, NextVerdictsTrue DEF ProcessInv
<1> QED
  BY <1>1, <1>2, <1>3, InitProcessInv, NextProcessInv, PTL DEF Spec
-----------------------------------------------------------------------------
(***************************************************************************)
(* The search for the test that breaks another.                            *)
(***************************************************************************)
\* No test takes its process with it or exceeds its time.
NoneDies == {"idle", "slow"} \cap Faults = {} /\ \A t \in Catalog : ~CanDie(t)

OrderBug(t) == EndsAlone[t] = {"passed"} /\ EndsPolluted[t] = {"failed"}

\* Attempts ended as the tests before them let them.
AttemptsTell ==
  \A t \in Tests : \A i \in DOMAIN attempts[t] :
    attempts[t][i].outcome \in EndsAfter(t, attempts[t][i].precededBy)

\* A probe runs what the search is to try next, in a process of its own.
ProbesFollow ==
  \A j \in TheJobs : j.kind = "probe" =>
    /\ j.fresh /\ j.before = bisection[j.test].probing
    /\ bisection[j.test].stage \in {"confirming", "searching"}

\* A test that breaks t is among the candidates; the first probe tries them
\* all; what is confirmed stays so; the last candidate is the culprit.
SearchFits(t, search) ==
  /\ search.stage \in {"confirming", "searching"} => Polluted(t, search.candidates)
  /\ search.stage = "confirming" => search.probing = search.candidates
  /\ search.stage \in {"searching", "done"} => search.reproduced
  /\ search.stage = "done" =>
       \/ search.culprit \in Polluters[t]
       \/ search.culprit = NoTest /\ search.probes >= MaximumProbes

SearchInv ==
  /\ AttemptsTell /\ ProbesFollow
  /\ \A t \in Tests : OrderBug(t) => SearchFits(t, bisection[t])

\* Of a finite set of positions no two are the n-th.
LEMMA NthIsOne ==
  ASSUME NEW len \in Nat, NEW S \in SUBSET (1..len), NEW i \in S, NEW j \in S,
         Cardinality({k \in S : k <= i}) = Cardinality({k \in S : k <= j})
  PROVE  i = j
<1>1. \A k \in S : k \in Nat
  OBVIOUS
<1>2. IsFiniteSet(S)
  <2>1. IsFiniteSet(1..len)
    BY FS_Interval
  <2> QED
    BY <2>1, FS_Subset
<1>3. \A m, n \in S : m < n => Cardinality({k \in S : k <= m}) # Cardinality({k \in S : k <= n})
  <2>1. TAKE m, n \in S
  <2>2. HAVE m < n
  <2> DEFINE M == {k \in S : k <= m}
             N == {k \in S : k <= n}
  <2>3. M \subseteq N /\ n \in N /\ n \notin M
    <3>1. m \in Nat /\ n \in Nat
      BY <1>1
    <3>2. \A k \in S : k <= m => k <= n
      BY <1>1, <2>2, <3>1
    <3>3. n <= n /\ ~(n <= m)
      BY <2>2, <3>1
    <3> QED
      BY <3>2, <3>3
  <2>4. IsFiniteSet(N)
    BY <1>2, FS_Subset
  <2> HIDE DEF M, N
  <2>5. Cardinality(M) # Cardinality(N)
    BY <2>3, <2>4, FS_Subset
  <2> QED
    BY <2>5 DEF M, N
<1>4. i < j \/ j < i \/ i = j
  BY <1>1
<1> QED
  BY <1>3, <1>4

\* What is left of a sequence has all elements of it that were not taken away.
LEMMA WithoutKeeps ==
  ASSUME NEW S, NEW s \in Seq(S), NEW t, NEW c \in Range(s), c \notin Range(t)
  PROVE  c \in Range(Without(s, t))
<1> DEFINE kept == {i \in DOMAIN s : s[i] \notin Range(t)}
           Nth(n) == CHOOSE i \in kept : Cardinality({k \in kept : k <= i}) = n
<1>1. kept \in SUBSET (1..Len(s)) /\ Len(s) \in Nat
  OBVIOUS
<1>2. PICK i \in kept : s[i] = c
  BY DEF Range
<1> DEFINE n == Cardinality({k \in kept : k <= i})
<1>3. n \in 1..Cardinality(kept)
  <2> DEFINE upto == {k \in kept : k <= i}
  <2>1. upto \subseteq kept /\ i \in upto
    BY <1>1, <1>2
  <2> HIDE DEF kept, upto
  <2>2. IsFiniteSet(kept)
    <3>1. IsFiniteSet(1..Len(s))
      BY <1>1, FS_Interval
    <3> QED
      BY <1>1, <3>1, FS_Subset
  <2>3. IsFiniteSet(upto) /\ Cardinality(upto) <= Cardinality(kept)
    BY <2>1, <2>2, FS_Subset
  <2>4. Cardinality(upto) \in Nat /\ Cardinality(kept) \in Nat /\ Cardinality(upto) # 0
    BY <2>1, <2>2, <2>3, FS_CardinalityType, FS_EmptySet
  <2> DEFINE all == Cardinality(kept)
             some == Cardinality(upto)
  <2>5. some \in 1..all
    <3> HIDE DEF all, some
    <3> QED
      BY <2>3, <2>4 DEF all, some
  <2> QED
    BY <2>5 DEF upto
<1>4. Nth(n) = i
  <2>1. \E m \in kept : Cardinality({k \in kept : k <= m}) = n
    BY <1>2
  <2> HIDE DEF kept, n
  <2>2. Nth(n) \in kept /\ Cardinality({k \in kept : k <= Nth(n)}) = n
    BY <2>1
  <2> HIDE DEF Nth
  <2> QED
    BY <1>1, <1>2, <2>2, NthIsOne, ZenonT(60) DEF n
<1>5. Without(s, t) = [m \in 1..Cardinality(kept) |-> s[Nth(m)]]
  BY DEF Without
<1> HIDE DEF kept, Nth, n
<1>6. n \in DOMAIN Without(s, t) /\ Without(s, t)[n] = c
  BY <1>2, <1>3, <1>4, <1>5
<1> QED
  BY <1>6 DEF Range

\* What a probe leaves of the candidates has a test that breaks t.
LEMMA NarrowedFits ==
  ASSUME NEW t, NEW search \in Searches, search.stage \in {"confirming", "searching"},
         SearchFits(t, search), NEW failed \in BOOLEAN,
         failed <=> Polluted(t, search.probing)
  PROVE  /\ ~(search.stage = "confirming" /\ ~failed)
         /\ LET narrowed == Narrowed(search, failed)
            IN /\ narrowed \in Searches /\ narrowed.stage = "searching" /\ narrowed.reproduced
               /\ Polluted(t, narrowed.candidates)
<1>1. Narrowed(search, failed) \in Searches
  BY NarrowedType
<1>2. search.candidates \in Seq(Catalog) /\ search.probing \in Seq(Catalog)
  BY DEF Searches
<1>3. CASE search.stage = "confirming"
  BY <1>1, <1>3 DEF SearchFits, Narrowed, Searches
<1>4. CASE search.stage = "searching" /\ failed
  BY <1>1, <1>4 DEF SearchFits, Narrowed, Searches
<1>5. CASE search.stage = "searching" /\ ~failed
  <2>1. PICK c \in Polluters[t] \cap Range(search.candidates) : c \notin Range(search.probing)
    BY <1>5 DEF SearchFits, Polluted
  <2>2. c \in Range(Without(search.candidates, search.probing))
    BY <1>2, <2>1, WithoutKeeps
  <2>3. Polluted(t, Without(search.candidates, search.probing))
    BY <2>1, <2>2 DEF Polluted
  <2> QED
    BY <1>1, <1>5, <2>3 DEF SearchFits, Narrowed, Searches
<1> QED
  BY <1>3, <1>4, <1>5

\* When no test dies, all that is decided is decided at the end of a target:
\* other steps add only jobs of the plan.
LEMMA QuietSteps ==
  ASSUME JobsInv, ProcessInv, CausesInv, TypeInv', NoneDies, [Next]_vars,
         \A w \in Slots : ~HandleTargetEnd(w)
  PROVE  /\ UNCHANGED <<attempts, bisection, repeatsLeft>>
         /\ \A t \in Tests : flaky'[t] => flaky[t]
         /\ \/ TheJobs' \subseteq TheJobs
            \/ /\ enqueued + 1 \in DOMAIN PlanOrder
               /\ LET j == PlannedJob(PlanOrder[enqueued + 1])
                  IN j \in Jobs /\ TheJobs' = TheJobs \cup {j}
<1>1. TypeInv /\ JobsApart /\ VerdictTypeOK
  BY DEF JobsInv, TypeInv, TypeOK
<1>2. CASE HandsOut \/ PutsBack \/ JobsStay
  <2>1. TheJobs' = TheJobs
    BY <1>1, <1>2, JobsChange
  <2> QED
    BY <1>2, <2>1 DEF HandsOut, PutsBack, JobsStay, testVars
<1>3. CASE EnqueuePlanned
  <2>1. enqueued + 1 \in DOMAIN PlanOrder
    BY <1>1, <1>3, SchedulerAssumption
       DEF EnqueuePlanned, PlanAssumption, TypeInv, TypeOK, LoopTypeOK
  <2>2. PICK t \in Tests : t = PlanOrder[enqueued + 1]
    BY <2>1, SchedulerAssumption DEF PlanAssumption
  <2> DEFINE j == PlannedJob(t)
  <2>3. j \in Jobs
    BY SchedulerAssumption DEF PlannedJob, Job, Jobs, PlanAssumption
  <2>4. Comes(j) /\ job' = job /\ UNCHANGED testVars
    BY <1>3, <2>2 DEF EnqueuePlanned, Enqueue, Comes, workerVars
  <2> HIDE DEF j
  <2>5. TheJobs' = TheJobs \cup {j}
    BY <1>1, <2>3, <2>4, JobsChange
  <2> QED
    BY <2>1, <2>2, <2>3, <2>4, <2>5 DEF testVars, j
<1>4. CASE SettleBlocked
  <2>1. PICK i \in DOMAIN queue :
          queue' = RemoveAt(queue, i) /\ queue[i].test \in Tests /\ Finish(queue[i].test, "blocked", FALSE)
    BY <1>4, BlockedFinishes
  <2>2. job' = job /\ UNCHANGED <<attempts, bisection, repeatsLeft>>
    BY <1>4 DEF SettleBlocked, workerVars
  <2>3. TheJobs' \subseteq TheJobs
    BY <1>1, <2>1, <2>2, JobsChange
  <2>4. \A t \in Tests : flaky'[t] => flaky[t]
    BY <1>1, <2>1 DEF Finish, VerdictTypeOK
  <2> QED
    BY <2>2, <2>3, <2>4
<1>5. CASE DrainQueue
  <2>1. job' = job /\ (queue' = queue \/ queue' = <<>>) /\ UNCHANGED testVars
    BY <1>5 DEF DrainQueue, queueVars
  <2>2. CASE queue' = <<>>
    BY <1>1, <2>1, <2>2, JobsChange DEF testVars
  <2>3. CASE queue' = queue
    <3>1. TheJobs' = TheJobs
      BY <1>1, <2>1, <2>3, BusyIsHanded DEF TheJobs
    <3> QED
      BY <2>1, <3>1 DEF testVars
  <2> QED
    BY <2>1, <2>2, <2>3
<1>6. ASSUME NEW w \in Slots, WorkerEnded(w)
      PROVE  UNCHANGED testVars /\ TheJobs' \subseteq TheJobs
  <2>1. ~IsRunning(w)
    BY <1>6, EndOfProcess DEF NoneDies
  <2>2. ~running[w].target
    BY <1>1, <2>1 DEF IsRunning, NotRunning, Running
  <2>3. job' = [job EXCEPT ![w] = NoJob] /\ job[w] \in Jobs \cup {NoJob}
    BY <1>1, <1>6, SlotTypes DEF WorkerEnded, Vacate
  <2>4. \/ job[w] # NoJob /\ Comes(job[w]) /\ UNCHANGED testVars
        \/ job[w] # NoJob /\ UNCHANGED <<queue, testVars>>
        \/ job[w] = NoJob /\ UNCHANGED <<queueVars, testVars>>
    BY <1>6, <2>1, <2>2 DEF WorkerEnded, Enqueue, Comes
  <2>5. CASE job[w] # NoJob
    BY <1>1, <2>3, <2>4, <2>5, JobsChange
  <2>6. CASE job[w] = NoJob
    <3>1. job' = job /\ queue' = queue
      BY <1>1, <2>3, <2>4, <2>6, SlotTypes DEF queueVars
    <3>2. TheJobs' = TheJobs
      BY <1>1, <3>1, BusyIsHanded DEF TheJobs
    <3> QED
      BY <2>4, <2>6, <3>2
  <2> QED
    BY <2>5, <2>6
<1> QED
  BY <1>1, <1>2, <1>3, <1>4, <1>5, <1>6, OtherMoves DEF testVars

\* The target of a job that needs a fresh process has run after the tests of
\* its job.
LEMMA FreshHistory ==
  ASSUME ProcessInv, CausesInv, NEW w \in Slots, HandleTargetEnd(w), NeedsFresh(job[w])
  PROVE  history[w] = job[w].before
<1>1. job[w] \in Jobs /\ job[w] # NoJob /\ step[w] \in Nat /\ job[w].before \in Seq(Catalog)
  BY EndOfTarget, SlotTypes DEF ProcessInv, Jobs
<1>2. step[w] >= Len(job[w].before) /\ RunsAlone(w)
  BY EndOfTarget
<1>3. step[w] <= Len(job[w].before) /\ history[w] = SubSeq(job[w].before, 1, step[w])
  BY <1>1, <1>2 DEF RunsAlone
<1>4. step[w] = Len(job[w].before)
  BY <1>1, <1>2, <1>3
<1>5. \A s \in Seq(Catalog) : SubSeq(s, 1, Len(s)) = s
  OBVIOUS
<1> QED
  BY <1>1, <1>3, <1>4, <1>5

\* The failure of a test that fails exactly after a test that breaks it.
LEMMA FailsIfPolluted ==
  ASSUME NEW t, OrderBug(t), NEW before, NEW outcome \in EndsAfter(t, before)
  PROVE  IsFailure(outcome) <=> Polluted(t, before)
  BY DEF OrderBug, EndsAfter, IsFailure

\* What the end of an attempt says of the search: nothing, or it starts one
\* with a probe.
LEMMA AttemptSearch ==
  ASSUME TypeInv, TypeInv', JobsApart, SearchInv, NEW w \in Slots, job[w] \in Jobs,
         job' = [job EXCEPT ![w] = NoJob], job[w].kind # "probe",
         NEW outcome \in Made, outcome \in EndsAfter(job[w].test, history[w]),
         Complete(w, outcome)
  PROVE  SearchInv'
<1> DEFINE t == job[w].test
           pending == [pendingJobs EXCEPT ![t] = @ - 1]
           new == [outcome |-> outcome, precededBy |-> history[w]]
           tried == Append(attempts[t], new)
<1>1. /\ t \in Tests /\ TestTypeOK /\ new \in Attempts
      /\ attempts' = [attempts EXCEPT ![t] = tried] /\ Decide(t, tried, pending)
  BY SlotTypes DEF Complete, Jobs, TypeInv, TypeOK, Attempts, Made, Reported, Outcome
<1>2. tried \in Seq(Attempts) /\ attempts'[t] = tried
  BY <1>1 DEF TestTypeOK
<1>3. \A i \in DOMAIN tried : tried[i].outcome \in EndsAfter(t, tried[i].precededBy)
  <2>1. \A i \in DOMAIN tried : tried[i] = new \/ (i \in DOMAIN attempts[t] /\ tried[i] = attempts[t][i])
    <3>1. \A s \in Seq(Attempts), a \in Attempts : \A i \in DOMAIN Append(s, a) :
            Append(s, a)[i] = a \/ (i \in DOMAIN s /\ Append(s, a)[i] = s[i])
      OBVIOUS
    <3>2. attempts[t] \in Seq(Attempts)
      BY <1>1 DEF TestTypeOK
    <3> HIDE DEF new
    <3> QED
      BY <1>1, <3>1, <3>2
  <2>2. new.outcome \in EndsAfter(t, new.precededBy)
    OBVIOUS
  <2>3. \A i \in DOMAIN attempts[t] : attempts[t][i].outcome \in EndsAfter(t, attempts[t][i].precededBy)
    BY <1>1 DEF SearchInv, AttemptsTell
  <2> HIDE DEF new, tried
  <2> QED
    BY <2>1, <2>2, <2>3
<1>4. AttemptsTell'
  <2>1. \A u \in Tests \ {t} : attempts'[u] = attempts[u]
    BY <1>1 DEF TestTypeOK
  <2>2. \A u, before : EndsAfter(u, before)' = EndsAfter(u, before)
    BY DEF EndsAfter, Polluted
  <2> HIDE DEF tried, t
  <2> SUFFICES ASSUME NEW u \in Tests, NEW i \in DOMAIN attempts'[u]
               PROVE  attempts'[u][i].outcome \in EndsAfter(u, attempts'[u][i].precededBy)
    BY DEF AttemptsTell, EndsAfter, Polluted
  <2>3. CASE u = t
    BY <1>2, <1>3, <2>3
  <2>4. CASE u # t
    BY <2>1, <2>4 DEF SearchInv, AttemptsTell
  <2> QED
    BY <2>3, <2>4
<1>5. /\ job[w] \in TheJobs /\ \A j \in TheJobs \ {job[w]} : j.test # t
      /\ queue' = queue => TheJobs' = TheJobs \ {job[w]}
      /\ \A j \in Jobs : Comes(j) => TheJobs' = (TheJobs \ {job[w]}) \cup {j}
  BY JobsChange, TheJobsApart
<1>6. CASE bisection' = bisection /\ \A j \in TheJobs' : j \in TheJobs \/ j.kind # "probe"
  BY <1>4, <1>6 DEF SearchInv, ProbesFollow, SearchFits, Polluted, OrderBug
<1>7. CASE Repeats(t)
  <2>1. bisection' = bisection /\ Comes(Job("attempt", t, <<>>, FALSE))
    BY <1>1, <1>7 DEF Decide, Repeats, Retries, Confirms, Enqueue, Comes
  <2>2. Job("attempt", t, <<>>, FALSE) \in Jobs /\ Job("attempt", t, <<>>, FALSE).kind # "probe"
    BY <1>1 DEF Job, Jobs
  <2> QED
    BY <1>5, <1>6, <2>1, <2>2
<1>8. CASE Retries(t, tried)
  <2>1. bisection' = bisection /\ Comes(Job("attempt", t, <<>>, TRUE))
    BY <1>1, <1>8 DEF Decide, Retries, Confirms, Enqueue, Comes
  <2>2. Job("attempt", t, <<>>, TRUE) \in Jobs /\ Job("attempt", t, <<>>, TRUE).kind # "probe"
    BY <1>1 DEF Job, Jobs
  <2> QED
    BY <1>5, <1>6, <2>1, <2>2
<1>9. CASE ~Repeats(t) /\ ~Retries(t, tried) /\ ~Confirms(t, tried)
  BY <1>1, <1>5, <1>6, <1>9 DEF Decide
<1>10. CASE Confirms(t, tried)
  <2> DEFINE first == CHOOSE i \in SharedFailures(tried) : \A k \in SharedFailures(tried) : i <= k
             sequence == tried[first].precededBy
             search == [bisection[t] EXCEPT !.stage = "confirming", !.candidates = sequence,
                                            !.probes = @ + 1, !.probing = sequence]
             probe == Job("probe", t, sequence, TRUE)
  <2>1. StartProbe(t, [bisection[t] EXCEPT !.stage = "confirming", !.candidates = sequence],
                   sequence, pending)
    BY <1>1, <1>10 DEF Decide, Confirms
  <2>2. bisection \in [Tests -> Searches]
    BY <1>1 DEF TestTypeOK
  <2>3. bisection' = [bisection EXCEPT ![t] = search] /\ Comes(probe)
    <3> HIDE DEF sequence
    <3>1. bisection[t] \in Searches
      BY <1>1, <2>2
    <3>2. Comes(probe)
      BY <2>1 DEF StartProbe, Enqueue, Comes
    <3> QED
      BY <2>1, <3>1, <3>2 DEF StartProbe, Searches
  <2>4. first \in SharedFailures(tried) /\ sequence \in Seq(Catalog)
    BY <1>1, <1>2, <1>10, ProbeSequenceType DEF Confirms
  <2>5. first \in DOMAIN tried /\ IsFailure(tried[first].outcome)
    BY <2>4 DEF SharedFailures, Failures
  <2>6. OrderBug(t) => Polluted(t, sequence)
    BY <1>3, <2>5, FailsIfPolluted
  <2>7. /\ search.stage = "confirming" /\ search.candidates = sequence /\ search.probing = sequence
        /\ bisection'[t] = search /\ \A u \in Tests \ {t} : bisection'[u] = bisection[u]
    BY <1>1, <2>2, <2>3 DEF Searches
  <2>8. probe \in Jobs /\ probe.test = t /\ probe.fresh /\ probe.before = sequence
    BY <1>1, <2>4 DEF Job, Jobs
  <2>9. TheJobs' = (TheJobs \ {job[w]}) \cup {probe} /\ TheJobs \subseteq Jobs
    BY <1>5, <2>3, <2>8, TheJobsApart
  <2> HIDE DEF t, first, sequence, search, probe
  <2>10. ProbesFollow'
    <3> SUFFICES ASSUME NEW j \in TheJobs', j.kind = "probe"
                 PROVE  /\ j.fresh /\ j.before = bisection'[j.test].probing
                        /\ bisection'[j.test].stage \in {"confirming", "searching"}
      BY DEF ProbesFollow
    <3>1. CASE j = probe
      BY <2>7, <2>8, <3>1
    <3>2. CASE j # probe
      <4>1. j \in TheJobs /\ j.test # t /\ j.test \in Tests
        BY <1>5, <2>9, <3>2 DEF Jobs
      <4> QED
        BY <2>7, <4>1 DEF SearchInv, ProbesFollow
    <3> QED
      BY <3>1, <3>2
  <2>11. OrderBug(t) => SearchFits(t, bisection'[t])
    BY <2>6, <2>7 DEF SearchFits
  <2>12. \A u \in Tests : OrderBug(u) => SearchFits(u, bisection'[u])
    BY <2>7, <2>11 DEF SearchInv
  <2> QED
    BY <1>4, <2>10, <2>12 DEF SearchInv, OrderBug, SearchFits, Polluted
<1> QED
  BY <1>7, <1>8, <1>9, <1>10

\* Of a test with an order bug a probe fails exactly if it ran one that breaks
\* it.
LEMMA ProbeTells ==
  ASSUME TypeInv, SearchInv, NEW w \in Slots, job[w] \in TheJobs, job[w] \in Jobs,
         job[w].kind = "probe", history[w] = job[w].before, OrderBug(job[w].test),
         NEW outcome \in EndsAfter(job[w].test, history[w])
  PROVE  LET search == bisection[job[w].test]
             narrowed == Narrowed(search, IsFailure(outcome))
         IN /\ ~(search.stage = "confirming" /\ ~IsFailure(outcome))
            /\ narrowed.stage = "searching" /\ narrowed.reproduced
            /\ Polluted(job[w].test, narrowed.candidates)
<1> DEFINE t == job[w].test
           search == bisection[t]
           failed == IsFailure(outcome)
<1>1. t \in Tests /\ search \in Searches
  BY DEF Jobs, TypeInv, TypeOK, TestTypeOK
<1>2. failed \in BOOLEAN
  BY DEF IsFailure
<1>3. search.stage \in {"confirming", "searching"} /\ history[w] = search.probing
  BY DEF SearchInv, ProbesFollow
<1>4. SearchFits(t, search) /\ (failed <=> Polluted(t, search.probing))
  BY <1>1, <1>3, FailsIfPolluted DEF SearchInv
<1> HIDE DEF search, failed
<1>5. /\ ~(search.stage = "confirming" /\ ~failed)
      /\ LET narrowed == Narrowed(search, failed)
         IN narrowed.stage = "searching" /\ narrowed.reproduced /\ Polluted(t, narrowed.candidates)
  BY <1>1, <1>2, <1>3, <1>4, NarrowedFits
<1> QED
  BY <1>5 DEF search, failed

\* What the end of a probe says: the search goes on with what is left of the
\* candidates, or ends with the last of them, or for want of probes.
LEMMA ProbeSearch ==
  ASSUME TypeInv, TypeInv', JobsApart, SearchInv, NEW w \in Slots, job[w] \in Jobs,
         job' = [job EXCEPT ![w] = NoJob], job[w].kind = "probe", history[w] = job[w].before,
         NEW outcome \in EndsAfter(job[w].test, history[w]),
         Complete(w, outcome)
  PROVE  SearchInv'
<1> DEFINE t == job[w].test
           pending == [pendingJobs EXCEPT ![t] = @ - 1]
           search == bisection[t]
           failed == IsFailure(outcome)
           narrowed == Narrowed(search, failed)
<1>1. t \in Tests /\ bisection \in [Tests -> Searches] /\ search \in Searches
  BY DEF Jobs, TypeInv, TypeOK, TestTypeOK
<1>2. attempts' = attempts /\ ProbeEnded(t, failed, pending)
  BY DEF Complete
<1>3. failed \in BOOLEAN
  BY DEF IsFailure
<1>4. /\ job[w] \in TheJobs /\ \A j \in TheJobs \ {job[w]} : j.test # t
      /\ queue' = queue => TheJobs' = TheJobs \ {job[w]}
      /\ \A j \in Jobs : Comes(j) => TheJobs' = (TheJobs \ {job[w]}) \cup {j}
      /\ TheJobs \subseteq Jobs
  BY JobsChange, TheJobsApart
<1>5. search.stage \in {"confirming", "searching"} /\ history[w] = search.probing
  BY <1>4 DEF SearchInv, ProbesFollow
<1>6. narrowed \in Searches
  BY <1>1, <1>3, NarrowedType
<1>7. OrderBug(t) =>
        /\ ~(search.stage = "confirming" /\ ~failed)
        /\ narrowed.stage = "searching" /\ narrowed.reproduced /\ Polluted(t, narrowed.candidates)
  BY <1>4, ProbeTells
\* What is left to show: of the search that follows.
<1>8. ASSUME NEW next, bisection' = [bisection EXCEPT ![t] = next],
             OrderBug(t) => SearchFits(t, next),
             \/ queue' = queue
             \/ /\ Comes(Job("probe", t, next.probing, TRUE))
                /\ Job("probe", t, next.probing, TRUE) \in Jobs
                /\ next.stage \in {"confirming", "searching"}
      PROVE  SearchInv'
  <2>1. bisection'[t] = next /\ \A u \in Tests \ {t} : bisection'[u] = bisection[u]
    BY <1>1, <1>8
  <2>2. \A u \in Tests : OrderBug(u) => SearchFits(u, bisection'[u])
    BY <1>8, <2>1 DEF SearchInv
  <2>3. \A j \in TheJobs' :
          \/ j \in TheJobs \ {job[w]}
          \/ /\ j.test = t /\ j.fresh /\ j.before = next.probing
             /\ next.stage \in {"confirming", "searching"}
    BY <1>4, <1>8 DEF Job
  <2> HIDE DEF t
  <2>4. ProbesFollow'
    <3> SUFFICES ASSUME NEW j \in TheJobs', j.kind = "probe"
                 PROVE  /\ j.fresh /\ j.before = bisection'[j.test].probing
                        /\ bisection'[j.test].stage \in {"confirming", "searching"}
      BY DEF ProbesFollow
    <3>1. CASE j \in TheJobs \ {job[w]}
      <4>1. j.test # t /\ j.test \in Tests
        BY <1>4, <3>1 DEF Jobs
      <4> QED
        BY <2>1, <3>1, <4>1 DEF SearchInv, ProbesFollow
    <3>2. CASE j \notin TheJobs \ {job[w]}
      BY <2>1, <2>3, <3>2
    <3> QED
      BY <3>1, <3>2
  <2> QED
    BY <1>2, <2>2, <2>4
       DEF SearchInv, AttemptsTell, EndsAfter, OrderBug, SearchFits, Polluted
<1>9. CASE search.stage = "confirming" /\ ~failed
  <2>1. ~OrderBug(t)
    BY <1>7, <1>9
  <2>2. queue' = queue /\ bisection' = [bisection EXCEPT ![t].stage = "done"]
    BY <1>2, <1>9 DEF ProbeEnded
  <2>3. bisection' = [bisection EXCEPT ![t] = [search EXCEPT !.stage = "done"]]
    BY <2>2
  <2> QED
    BY <1>8, <2>1, <2>2, <2>3
<1>10. CASE ~(search.stage = "confirming" /\ ~failed) /\ SearchEnds(narrowed)
  <2> DEFINE ended == [narrowed EXCEPT !.stage = "done",
                         !.culprit = IF Len(narrowed.candidates) = 1
                                     THEN narrowed.candidates[1] ELSE NoTest]
  <2>1. queue' = queue /\ bisection' = [bisection EXCEPT ![t] = ended]
    BY <1>2, <1>10 DEF ProbeEnded
  <2>2. ASSUME OrderBug(t) PROVE SearchFits(t, ended)
    <3> HIDE DEF narrowed, t
    <3>1. /\ ended.stage = "done" /\ ended.reproduced = narrowed.reproduced
          /\ ended.probes = narrowed.probes
          /\ ended.culprit = IF Len(narrowed.candidates) = 1
                             THEN narrowed.candidates[1] ELSE NoTest
          /\ narrowed.candidates \in Seq(Catalog)
      BY <1>6 DEF Searches
    <3>2. PICK c \in Polluters[t] : \E i \in 1..Len(narrowed.candidates) : c = narrowed.candidates[i]
      BY <1>7, <2>2, <3>1 DEF Polluted, Range
    <3>3. CASE Len(narrowed.candidates) = 1
      BY <1>7, <2>2, <3>1, <3>2, <3>3 DEF SearchFits
    <3>4. CASE Len(narrowed.candidates) # 1
      <4>1. ~(Len(narrowed.candidates) <= 1)
        <5>1. \A n \in Nat : \A i \in 1..n : n # 1 => ~(n <= 1)
          OBVIOUS
        <5>2. Len(narrowed.candidates) \in Nat
          BY <3>1
        <5> QED
          BY <3>2, <3>4, <5>1, <5>2
      <4>2. narrowed.probes >= MaximumProbes
        BY <1>10, <4>1 DEF SearchEnds
      <4> HIDE DEF ended
      <4> QED
        BY <1>7, <2>2, <3>1, <3>4, <4>2 DEF SearchFits
    <3> QED
      BY <3>3, <3>4
  <2> HIDE DEF t, ended
  <2> QED
    BY <1>8, <2>1, <2>2
<1>11. CASE ~(search.stage = "confirming" /\ ~failed) /\ ~SearchEnds(narrowed)
  <2> DEFINE half == Half(narrowed.candidates)
             next == [narrowed EXCEPT !.probes = @ + 1, !.probing = half]
  <2>1. StartProbe(t, narrowed, half, pending)
    BY <1>2, <1>11 DEF ProbeEnded
  <2>2. bisection' = [bisection EXCEPT ![t] = next] /\ Comes(Job("probe", t, half, TRUE))
    BY <2>1 DEF StartProbe, Enqueue, Comes
  <2>3. narrowed.candidates \in Seq(Catalog)
    <3> HIDE DEF narrowed
    <3> QED
      BY <1>6 DEF Searches
  <2>4. Job("probe", t, half, TRUE) \in Jobs
    <3>1. half \in Seq(Catalog)
      <4> HIDE DEF narrowed
      <4> QED
        BY <2>3, HalfType
    <3> HIDE DEF half
    <3> QED
      BY <1>1, <3>1 DEF Job, Jobs
  <2>5. narrowed.stage = "searching"
    <3> HIDE DEF failed, t
    <3> QED
      BY <1>1, <1>3, <1>5, <1>6 DEF Narrowed, Searches
  <2>6. /\ next.stage = "searching" /\ next.probing = half /\ next.candidates = narrowed.candidates
        /\ next.reproduced = narrowed.reproduced
    <3> HIDE DEF narrowed, half
    <3> QED
      BY <1>6, <2>5 DEF Searches
  <2> HIDE DEF t, narrowed, half, next
  <2>7. OrderBug(t) => SearchFits(t, next)
    BY <1>7, <2>6 DEF SearchFits
  <2> QED
    BY <1>8, <2>2, <2>4, <2>6, <2>7
<1> QED
  BY <1>9, <1>10, <1>11

\* Every step keeps the searches what they are.
LEMMA NextSearchInv ==
  ASSUME JobsInv, ProcessInv, CausesInv, TypeInv', NoneDies, SearchInv, [Next]_vars
  PROVE  SearchInv'
<1>1. TypeInv /\ JobsApart
  BY DEF JobsInv
<1>2. CASE \A w \in Slots : ~HandleTargetEnd(w)
  <2>1. UNCHANGED <<attempts, bisection>>
    BY <1>2, QuietSteps
  <2>2. \A t \in Tests : PlannedJob(t).kind = "attempt"
    BY DEF PlannedJob, Job
  <2>3. \A i \in DOMAIN PlanOrder : PlanOrder[i] \in Tests
    BY SchedulerAssumption DEF PlanAssumption
  <2>4. \A j \in TheJobs' : j \in TheJobs \/ j.kind # "probe"
    BY <1>2, <2>2, <2>3, QuietSteps
  <2> QED
    BY <2>1, <2>4
       DEF SearchInv, AttemptsTell, ProbesFollow, EndsAfter, OrderBug, SearchFits, Polluted
<1>3. ASSUME NEW w \in Slots, HandleTargetEnd(w) PROVE SearchInv'
  <2> DEFINE outcome == Head(batch[w]).is
  <2>1. /\ job[w] \in Jobs /\ job' = [job EXCEPT ![w] = NoJob] /\ Complete(w, outcome)
        /\ outcome \in Reported \cap EndsAfter(job[w].test, history[w])
    BY <1>3, EndOfTarget DEF HandleTargetEnd
  <2>2. outcome \in Made
    BY <2>1 DEF Made
  <2> HIDE DEF outcome
  <2>3. CASE job[w].kind # "probe"
    BY <1>1, <2>1, <2>2, <2>3, AttemptSearch
  <2>4. CASE job[w].kind = "probe"
    <3>1. job[w] \in TheJobs
      BY <1>1, <2>1, JobsChange
    <3>2. history[w] = job[w].before
      BY <1>3, <2>4, <3>1, FreshHistory DEF SearchInv, ProbesFollow, NeedsFresh
    <3> QED
      BY <1>1, <2>1, <2>4, <3>2, ProbeSearch
  <2> QED
    BY <2>3, <2>4
<1> QED
  BY <1>2, <1>3

\* The searches start with nothing.
LEMMA InitSearchInv == Init => SearchInv
<1> SUFFICES ASSUME Init PROVE SearchInv
  OBVIOUS
<1>1. AttemptsTell
  BY DEF Init, AttemptsTell
<1>2. ProbesFollow
  BY DEF Init, ProbesFollow, TheJobs, Busy, Range
<1>3. \A t \in Tests : SearchFits(t, bisection[t])
  BY DEF Init, SearchFits, NoBisection
<1> QED
  BY <1>1, <1>2, <1>3 DEF SearchInv

\* What a bisection names is what leaves the state behind that the test trips
\* over, if no process dies or is killed for its time in the middle: a probe
\* that dies counts as one that did not fail.
THEOREM CulpritsAreTrue ==
  ASSUME NoneDies
  PROVE  Spec => []CulpritIsPolluter
<1>1. SearchInv => CulpritIsPolluter
  BY DEF SearchInv, SearchFits, OrderBug, CulpritIsPolluter
<1>2. {"idle", "slow"} \cap Faults = {}
  BY DEF NoneDies
<1>3. Init => CausesInv
  BY DEF Init, CausesInv
<1>4. ProcessInv /\ ProcessInv' /\ CausesInv /\ [Next]_vars => CausesInv'
  BY <1>2, NextCauses
<1>5. JobsInv /\ ProcessInv /\ ProcessInv' /\ CausesInv /\ SearchInv /\ [Next]_vars => SearchInv'
  BY NextSearchInv DEF ProcessInv
<1> QED
  BY <1>1, <1>3, <1>4, <1>5, InitProcessInv, NextProcessInv, InitJobsInv, NextJobsInv,
     InitSearchInv, NextSearchInv, PTL DEF Spec
-----------------------------------------------------------------------------
(***************************************************************************)
(* The search settles what the attempts leave open: an order bug is not    *)
(* called flaky.                                                           *)
(***************************************************************************)
\* Only the first attempt of a test runs after other tests, unless it repeats;
\* a test is searched after its last attempt.
RetriesAlone ==
  /\ \A t \in Tests : repeatsLeft[t] = 0 /\ (attempts[t] = <<>> => bisection[t].stage = "none")
  /\ \A j \in TheJobs : j.kind = "attempt" =>
       /\ bisection[j.test].stage = "none"
       /\ attempts[j.test] = <<>> \/ (j.fresh /\ j.before = <<>>)
  /\ \A t \in Tests : \A i \in DOMAIN attempts[t] : i > 1 => attempts[t][i].precededBy = <<>>
BugsNotFlaky == \A t \in Tests : OrderBug(t) => ~flaky[t]

\* Attempts of a test with an order bug that seem flaky are to be confirmed.
LEMMA SeemsFlaky ==
  ASSUME NEW t, OrderBug(t), NEW tried \in Seq(Attempts), NEW reproduced,
         Flaky(tried, reproduced),
         \A i \in DOMAIN tried : tried[i].outcome \in EndsAfter(t, tried[i].precededBy),
         \A i \in DOMAIN tried : i > 1 => tried[i].precededBy = <<>>
  PROVE  /\ SharedFailures(tried) # {}
         /\ ~IsFailure(Last(tried).outcome) /\ Last(tried).precededBy = <<>>
<1>1. \A i \in DOMAIN tried : IsFailure(tried[i].outcome) <=> Polluted(t, tried[i].precededBy)
  BY FailsIfPolluted
<1>2. ~Polluted(t, <<>>)
  BY DEF Polluted, Range
<1>3. PICK i \in DOMAIN tried : IsFailure(tried[i].outcome)
  BY DEF Flaky, Failures
<1>4. PICK k \in DOMAIN tried : Passing(tried[k].outcome)
  BY DEF Flaky, Passes
<1>5. i # k
  BY <1>3, <1>4 DEF IsFailure, Passing
<1>6. tried[i].precededBy # <<>> /\ ~(i > 1)
  BY <1>1, <1>2, <1>3
<1>7. tried[i].outcome = "failed"
  BY <1>1, <1>3 DEF OrderBug, EndsAfter
<1>8. Len(tried) \in DOMAIN tried /\ Len(tried) > 1
  <2>1. Len(tried) \in Nat /\ i \in 1..Len(tried) /\ k \in 1..Len(tried)
    OBVIOUS
  <2> QED
    BY <1>5, <1>6, <2>1
<1>9. ~IsFailure(tried[Len(tried)].outcome) /\ tried[Len(tried)].precededBy = <<>>
  BY <1>1, <1>2, <1>8
<1> QED
  BY <1>3, <1>6, <1>7, <1>9 DEF SharedFailures, Failures, Last

\* The end of an attempt: a retry in a process of its own, or a search, or the
\* verdict.
LEMMA AttemptAlone ==
  ASSUME TypeInv, TypeInv', JobsApart, AttemptsTell', RetriesAlone, BugsNotFlaky,
         BisectOrder, ~stopping,
         NEW w \in Slots, job[w] \in Jobs, job' = [job EXCEPT ![w] = NoJob],
         job[w].kind # "probe", attempts[job[w].test] # <<>> => history[w] = <<>>,
         NEW outcome \in Made, Complete(w, outcome)
  PROVE  RetriesAlone' /\ BugsNotFlaky'
<1> DEFINE t == job[w].test
           pending == [pendingJobs EXCEPT ![t] = @ - 1]
           new == [outcome |-> outcome, precededBy |-> history[w]]
           tried == Append(attempts[t], new)
<1>1. /\ t \in Tests /\ TestTypeOK /\ new \in Attempts /\ job[w].kind = "attempt"
      /\ attempts' = [attempts EXCEPT ![t] = tried] /\ Decide(t, tried, pending)
  BY SlotTypes DEF Complete, Jobs, TypeInv, TypeOK, Attempts, Made, Reported, Outcome
<1>2. attempts[t] \in Seq(Attempts) /\ tried \in Seq(Attempts) /\ tried # <<>>
  <2>1. attempts[t] \in Seq(Attempts) /\ new \in Attempts
    BY <1>1 DEF TestTypeOK
  <2>2. \A s \in Seq(Attempts), a \in Attempts : Append(s, a) \in Seq(Attempts) /\ Append(s, a) # <<>>
    BY SMTT(60)
  <2> QED
    BY <2>1, <2>2
<1>3. attempts'[t] = tried /\ \A u \in Tests \ {t} : attempts'[u] = attempts[u]
  BY <1>1 DEF TestTypeOK
<1>4. \A i \in DOMAIN tried : i > 1 => tried[i].precededBy = <<>>
  <2> SUFFICES ASSUME NEW i \in DOMAIN tried, i > 1 PROVE tried[i].precededBy = <<>>
    OBVIOUS
  <2>1. \A s \in Seq(Attempts), a \in Attempts : \A k \in DOMAIN Append(s, a) :
          \/ Append(s, a)[k] = a /\ (k > 1 => s # <<>>)
          \/ k \in DOMAIN s /\ Append(s, a)[k] = s[k]
    OBVIOUS
  <2>2. new.precededBy = history[w]
    OBVIOUS
  <2>3. \A k \in DOMAIN attempts[t] : k > 1 => attempts[t][k].precededBy = <<>>
    BY <1>1 DEF RetriesAlone
  <2> HIDE DEF new, t
  <2>4. (tried[i] = new /\ attempts[t] # <<>>) \/ (i \in DOMAIN attempts[t] /\ tried[i] = attempts[t][i])
    BY <1>1, <1>2, <2>1
  <2> QED
    BY <2>2, <2>3, <2>4 DEF t
<1>5. \A i \in DOMAIN tried : tried[i].outcome \in EndsAfter(t, tried[i].precededBy)
  BY <1>1, <1>3 DEF AttemptsTell, EndsAfter, Polluted
<1>6. /\ job[w] \in TheJobs /\ \A j \in TheJobs \ {job[w]} : j.test # t
      /\ queue' = queue => TheJobs' = TheJobs \ {job[w]}
      /\ \A j \in Jobs : Comes(j) => TheJobs' = (TheJobs \ {job[w]}) \cup {j}
      /\ TheJobs \subseteq Jobs
  BY JobsChange, TheJobsApart
<1>7. bisection[t].stage = "none"
  BY <1>1, <1>6 DEF RetriesAlone
<1>8. ~Repeats(t)
  BY <1>1 DEF Repeats, RetriesAlone
\* What is left to show: of the jobs.
<1>9. ASSUME repeatsLeft' = repeatsLeft,
             \A u \in Tests \ {t} : bisection'[u] = bisection[u],
             \A j \in TheJobs' :
               \/ j \in TheJobs \ {job[w]}
               \/ j.kind # "attempt"
               \/ j.test = t /\ j.fresh /\ j.before = <<>> /\ bisection' = bisection
      PROVE  RetriesAlone'
  <2> HIDE DEF t, tried, new, pending
  <2>1. \A u \in Tests : repeatsLeft'[u] = 0 /\ (attempts'[u] = <<>> => bisection'[u].stage = "none")
    BY <1>2, <1>3, <1>9 DEF RetriesAlone
  <2>2. \A u \in Tests : \A i \in DOMAIN attempts'[u] : i > 1 => attempts'[u][i].precededBy = <<>>
    <3> SUFFICES ASSUME NEW u \in Tests, NEW i \in DOMAIN attempts'[u], i > 1
                 PROVE  attempts'[u][i].precededBy = <<>>
      OBVIOUS
    <3> QED
      BY <1>3, <1>4 DEF RetriesAlone
  <2>3. ASSUME NEW j \in TheJobs', j.kind = "attempt"
        PROVE  /\ bisection'[j.test].stage = "none"
               /\ attempts'[j.test] = <<>> \/ (j.fresh /\ j.before = <<>>)
    <3>1. CASE j \in TheJobs \ {job[w]}
      <4>1. j.test # t /\ j.test \in Tests
        BY <1>6, <3>1 DEF Jobs
      <4> QED
        BY <1>3, <1>9, <2>3, <3>1, <4>1 DEF RetriesAlone
    <3>2. CASE j \notin TheJobs \ {job[w]}
      BY <1>7, <1>9, <2>3, <3>2
    <3> QED
      BY <3>1, <3>2
  <2> QED
    BY <2>1, <2>2, <2>3 DEF RetriesAlone
<1>10. CASE Retries(t, tried)
  <2> DEFINE j == Job("attempt", t, <<>>, TRUE)
  <2>1. bisection' = bisection /\ repeatsLeft' = repeatsLeft /\ flaky' = flaky /\ Comes(j)
    BY <1>1, <1>10 DEF Decide, Repeats, Retries, Confirms, Enqueue, Comes, Unresolved
  <2>2. j \in Jobs /\ j.test = t /\ j.fresh /\ j.before = <<>>
    BY <1>1 DEF Job, Jobs
  <2> HIDE DEF j, t, tried
  <2>3. \A k \in TheJobs' : k \in TheJobs \ {job[w]} \/ k = j
    BY <1>6, <2>1, <2>2
  <2> QED
    BY <1>9, <2>1, <2>2, <2>3 DEF BugsNotFlaky, OrderBug
<1>11. CASE Confirms(t, tried)
  <2>1. PICK sequence \in Seq(Catalog) :
          /\ Comes(Job("probe", t, sequence, TRUE))
          /\ \A u \in Tests \ {t} : bisection'[u] = bisection[u]
          /\ repeatsLeft' = repeatsLeft /\ flaky' = flaky
    <3> DEFINE first == CHOOSE i \in SharedFailures(tried) : \A k \in SharedFailures(tried) : i <= k
               sequence == tried[first].precededBy
               search == [bisection[t] EXCEPT !.stage = "confirming", !.candidates = sequence]
    <3>1. StartProbe(t, search, sequence, pending) /\ repeatsLeft' = repeatsLeft /\ flaky' = flaky
      BY <1>1, <1>11 DEF Decide, Confirms, Unresolved
    <3>2. sequence \in Seq(Catalog)
      BY <1>2, <1>11, ProbeSequenceType DEF Confirms
    <3> HIDE DEF sequence, search, t
    <3> DEFINE started == [search EXCEPT !.probes = @ + 1, !.probing = sequence]
    <3>3. bisection' = [bisection EXCEPT ![t] = started] /\ Comes(Job("probe", t, sequence, TRUE))
      BY <3>1 DEF StartProbe, Enqueue, Comes
    <3> HIDE DEF started
    <3>4. \A u \in Tests \ {t} : bisection'[u] = bisection[u]
      BY <1>1, <3>3 DEF TestTypeOK
    <3> QED
      BY <3>1, <3>2, <3>3, <3>4
  <2>2. Job("probe", t, sequence, TRUE) \in Jobs /\ Job("probe", t, sequence, TRUE).kind # "attempt"
    BY <1>1 DEF Job, Jobs
  <2> HIDE DEF t, tried
  <2>3. \A j \in TheJobs' : j \in TheJobs \ {job[w]} \/ j.kind # "attempt"
    BY <1>6, <2>1, <2>2
  <2> QED
    BY <1>9, <2>1, <2>3 DEF BugsNotFlaky, OrderBug
<1>12. CASE ~Retries(t, tried) /\ ~Confirms(t, tried)
  <2>1. /\ FinishTried(t, tried, bisection[t].reproduced) /\ queue' = queue
        /\ bisection' = bisection /\ repeatsLeft' = repeatsLeft
    BY <1>1, <1>8, <1>12 DEF Decide
  <2>2. OrderBug(t) => ~Flaky(tried, bisection[t].reproduced)
    BY <1>2, <1>4, <1>5, <1>7, <1>8, <1>12, SeemsFlaky DEF Confirms
  <2>3. flaky \in [Tests -> BOOLEAN]
    BY DEF TypeInv, TypeOK, VerdictTypeOK
  <2> HIDE DEF t, tried
  <2>4. flaky' = flaky \/ flaky' = [flaky EXCEPT ![t] = Flaky(tried, bisection[t].reproduced)]
    BY <2>1 DEF FinishTried, Finish
  <2>5. BugsNotFlaky'
    BY <2>2, <2>3, <2>4 DEF BugsNotFlaky, OrderBug
  <2>6. \A j \in TheJobs' : j \in TheJobs \ {job[w]}
    BY <1>6, <2>1
  <2> QED
    BY <1>9, <2>1, <2>5, <2>6
<1> QED
  BY <1>8, <1>10, <1>11, <1>12

\* The end of a probe: the next one, or the verdict, which is the failure that
\* the probes reproduced.
LEMMA ProbeAlone ==
  ASSUME TypeInv, TypeInv', JobsApart, SearchInv, RetriesAlone, BugsNotFlaky,
         NEW w \in Slots, job[w] \in Jobs, job' = [job EXCEPT ![w] = NoJob],
         job[w].kind = "probe", history[w] = job[w].before,
         NEW outcome \in EndsAfter(job[w].test, history[w]),
         Complete(w, outcome)
  PROVE  RetriesAlone' /\ BugsNotFlaky'
<1> DEFINE t == job[w].test
           pending == [pendingJobs EXCEPT ![t] = @ - 1]
           search == bisection[t]
           failed == IsFailure(outcome)
           narrowed == Narrowed(search, failed)
<1>1. /\ t \in Tests /\ bisection \in [Tests -> Searches] /\ flaky \in [Tests -> BOOLEAN]
      /\ attempts[t] # <<>> /\ TestTypeOK
  BY DEF Jobs, TypeInv, TypeOK, TestTypeOK, VerdictTypeOK, ProbesTried, HandedProbesTried
<1>2. UNCHANGED <<attempts, repeatsLeft>> /\ ProbeEnded(t, failed, pending)
  BY DEF Complete
<1>3. /\ job[w] \in TheJobs /\ \A j \in TheJobs \ {job[w]} : j.test # t
      /\ queue' = queue => TheJobs' = TheJobs \ {job[w]}
      /\ \A j \in Jobs : Comes(j) => TheJobs' = (TheJobs \ {job[w]}) \cup {j}
      /\ TheJobs \subseteq Jobs
  BY JobsChange, TheJobsApart
<1>4. failed \in BOOLEAN
  BY DEF IsFailure
<1>5. narrowed \in Searches
  BY <1>1, <1>4, NarrowedType
<1>6. \A u \in Tests \ {t} : bisection'[u] = bisection[u]
  <2> HIDE DEF t, search, failed
  <2> QED
    BY <1>1, <1>2 DEF ProbeEnded, StartProbe
<1>7. \A j \in TheJobs' : j \in TheJobs \ {job[w]} \/ j.kind # "attempt"
  <2> DEFINE j == Job("probe", t, Half(narrowed.candidates), TRUE)
  <2>1. narrowed.candidates \in Seq(Catalog)
    <3> HIDE DEF narrowed
    <3> QED
      BY <1>5 DEF Searches
  <2>2. Half(narrowed.candidates) \in Seq(Catalog)
    <3> HIDE DEF narrowed
    <3> QED
      BY <2>1, HalfType
  <2>3. j \in Jobs /\ j.kind # "attempt"
    <3> HIDE DEF narrowed
    <3> QED
      BY <1>1, <2>2 DEF Job, Jobs
  <2>4. queue' = queue \/ Comes(j)
    BY <1>2 DEF ProbeEnded, StartProbe, Enqueue, Comes
  <2> HIDE DEF j
  <2> QED
    BY <1>3, <2>3, <2>4
<1>8. RetriesAlone'
  <2> HIDE DEF t
  <2>1. \A u \in Tests : repeatsLeft'[u] = 0 /\ (attempts'[u] = <<>> => bisection'[u].stage = "none")
    BY <1>1, <1>2, <1>6 DEF RetriesAlone
  <2>2. ASSUME NEW j \in TheJobs', j.kind = "attempt"
        PROVE  /\ bisection'[j.test].stage = "none"
               /\ attempts'[j.test] = <<>> \/ (j.fresh /\ j.before = <<>>)
    <3>1. j \in TheJobs /\ j.test # t /\ j.test \in Tests
      BY <1>3, <1>7, <2>2 DEF Jobs
    <3> QED
      BY <1>2, <1>6, <2>2, <3>1 DEF RetriesAlone
  <2> QED
    BY <1>2, <2>1, <2>2 DEF RetriesAlone
<1>9. ASSUME OrderBug(t) PROVE ~flaky'[t]
  <2>1. ~(search.stage = "confirming" /\ ~failed) /\ narrowed.reproduced
    BY <1>3, <1>9, ProbeTells
  <2>2. FinishTried(t, attempts[t], narrowed.reproduced) \/ Unresolved
    BY <1>2, <2>1 DEF ProbeEnded
  <2>3. ~Flaky(attempts[t], narrowed.reproduced)
    BY <2>1 DEF Flaky
  <2> HIDE DEF t, narrowed
  <2>4. ~flaky[t]
    BY <1>1, <1>9 DEF BugsNotFlaky
  <2> QED
    BY <1>1, <2>2, <2>3, <2>4 DEF FinishTried, Finish, Unresolved
<1>10. \A u \in Tests \ {t} : flaky'[u] = flaky[u]
  <2>1. \/ Unresolved
        \/ \E reproduced : FinishTried(t, attempts[t], reproduced)
    BY <1>2 DEF ProbeEnded
  <2> HIDE DEF t
  <2> QED
    BY <1>1, <2>1 DEF FinishTried, Finish, Unresolved
<1>11. BugsNotFlaky'
  <2> HIDE DEF t
  <2> QED
    BY <1>9, <1>10 DEF BugsNotFlaky, OrderBug
<1> QED
  BY <1>8, <1>11

\* Every step keeps retries alone and order bugs from being called flaky.
LEMMA NextRetriesAlone ==
  ASSUME AccountInv, ProcessInv, CausesInv, TypeInv', NoneDies, SearchInv, SearchInv',
         RetriesAlone, BugsNotFlaky, BisectOrder, FailFast = 0, [Next]_vars
  PROVE  RetriesAlone' /\ BugsNotFlaky'
<1>1. TypeInv /\ JobsInv /\ JobsApart /\ ~stopping
  BY DEF AccountInv, VerdictInv, JobsInv, FailuresCounted
<1>2. CASE \A w \in Slots : ~HandleTargetEnd(w)
  <2>1. UNCHANGED <<attempts, bisection, repeatsLeft>> /\ \A t \in Tests : flaky'[t] => flaky[t]
    BY <1>1, <1>2, QuietSteps
  <2>2. BugsNotFlaky'
    BY <2>1 DEF BugsNotFlaky, OrderBug
  <2>3. ASSUME NEW j \in TheJobs', j.kind = "attempt"
        PROVE  /\ bisection[j.test].stage = "none"
               /\ attempts[j.test] = <<>> \/ (j.fresh /\ j.before = <<>>)
    <3>1. CASE j \in TheJobs
      BY <2>3, <3>1 DEF RetriesAlone
    <3>2. CASE j \notin TheJobs
      <4>1. enqueued + 1 \in DOMAIN PlanOrder /\ j = PlannedJob(PlanOrder[enqueued + 1])
        BY <1>1, <1>2, <2>3, <3>2, QuietSteps
      <4>2. j.test = PlanOrder[enqueued + 1] /\ j.test \in Tests
        BY <4>1, SchedulerAssumption DEF PlannedJob, Job, PlanAssumption
      <4>3. enqueued + 1 \in (enqueued + 1)..Len(PlanOrder)
        BY <1>1, <4>1, SchedulerAssumption
           DEF TypeInv, TypeOK, LoopTypeOK, PlanAssumption
      <4>4. Len(attempts[j.test]) = 0
        BY <4>2, <4>3 DEF AccountInv, NotYetTried
      <4>5. attempts[j.test] = <<>>
        BY <1>1, <4>2, <4>4 DEF TypeInv, TypeOK, TestTypeOK
      <4> QED
        BY <4>2, <4>5 DEF RetriesAlone
    <3> QED
      BY <3>1, <3>2
  <2> QED
    BY <2>1, <2>2, <2>3 DEF RetriesAlone
<1>3. ASSUME NEW w \in Slots, HandleTargetEnd(w) PROVE RetriesAlone' /\ BugsNotFlaky'
  <2> DEFINE outcome == Head(batch[w]).is
  <2>1. /\ job[w] \in Jobs /\ job' = [job EXCEPT ![w] = NoJob] /\ Complete(w, outcome)
        /\ outcome \in Reported \cap EndsAfter(job[w].test, history[w])
    BY <1>3, EndOfTarget DEF HandleTargetEnd
  <2>2. outcome \in Made /\ job[w] \in TheJobs
    BY <1>1, <2>1, JobsChange DEF Made
  <2> HIDE DEF outcome
  <2>3. CASE job[w].kind # "probe"
    <3>1. attempts[job[w].test] # <<>> => history[w] = <<>>
      BY <1>3, <2>1, <2>2, <2>3, FreshHistory DEF RetriesAlone, NeedsFresh, Jobs
    <3>2. AttemptsTell'
      BY DEF SearchInv
    <3> QED
      BY <1>1, <2>1, <2>2, <2>3, <3>1, <3>2, AttemptAlone
  <2>4. CASE job[w].kind = "probe"
    <3>1. history[w] = job[w].before
      BY <1>3, <2>2, <2>4, FreshHistory DEF SearchInv, ProbesFollow, NeedsFresh
    <3> QED
      BY <1>1, <2>1, <2>4, <3>1, ProbeAlone
  <2> QED
    BY <2>3, <2>4
<1> QED
  BY <1>2, <1>3

\* A test that fails exactly after certain others is not called flaky, if no
\* process dies or is killed for its time in the middle: the retry that passes
\* alone is followed by a search, whose first probe fails.
THEOREM OrderBugsAreNotFlaky ==
  ASSUME NoneDies
  PROVE  Spec => []OrderBugIsNotFlaky
<1>1. CASE ~(BisectOrder /\ FailFast = 0 /\ Repeat = 1)
  <2>1. OrderBugIsNotFlaky
    BY <1>1 DEF OrderBugIsNotFlaky
  <2> QED
    BY <2>1, PTL
<1>2. CASE BisectOrder /\ FailFast = 0 /\ Repeat = 1
  <2>1. BugsNotFlaky => OrderBugIsNotFlaky
    BY DEF BugsNotFlaky, OrderBug, OrderBugIsNotFlaky
  <2>2. {"idle", "slow"} \cap Faults = {}
    BY DEF NoneDies
  <2>3. Init => CausesInv /\ RetriesAlone /\ BugsNotFlaky
    <3> SUFFICES ASSUME Init PROVE CausesInv /\ RetriesAlone /\ BugsNotFlaky
      OBVIOUS
    <3>1. TheJobs = {}
      BY DEF Init, TheJobs, Busy, Range
    <3>2. RetriesAlone
      BY <1>2, <3>1 DEF Init, RetriesAlone, NoBisection
    <3> QED
      BY <3>2 DEF Init, CausesInv, BugsNotFlaky
  <2>4. ProcessInv /\ ProcessInv' /\ CausesInv /\ [Next]_vars => CausesInv'
    BY <2>2, NextCauses
  <2>5. AccountInv /\ ProcessInv /\ ProcessInv' /\ CausesInv /\ SearchInv /\ [Next]_vars => SearchInv'
    BY NextSearchInv DEF ProcessInv, AccountInv, VerdictInv
  <2>6. AccountInv /\ ProcessInv /\ ProcessInv' /\ CausesInv /\ SearchInv /\ SearchInv'
          /\ RetriesAlone /\ BugsNotFlaky /\ [Next]_vars
        => RetriesAlone' /\ BugsNotFlaky'
    BY <1>2, NextRetriesAlone DEF ProcessInv
  <2> QED
    BY <2>1, <2>3, <2>4, <2>5, <2>6, InitProcessInv, NextProcessInv, InitAccountInv,
       NextAccountInv, InitSearchInv, PTL DEF Spec
<1> QED
  BY <1>1, <1>2
=============================================================================
