------------------------------ MODULE Shrinker ------------------------------
(***************************************************************************)
(* How the input of a property that failed is made simpler: class Shrinker *)
(* of ChoiceShrinker.cpp, over the recorded choices of a trial, with what  *)
(* a replay of choices means (Strategy/ChoiceSource.hpp).                  *)
(*                                                                         *)
(* Whether the property fails for the choices a replay consumed is found   *)
(* out by running it; `verdicts' remembers what was found, so that the     *)
(* same choices have the same verdict.  One step per candidate.            *)
(***************************************************************************)
EXTENDS Integers, SequencesExt, FiniteSetsExt

CONSTANTS
  Length,       \* bound: choices a trial draws at most
  MaxChoice,    \* the maximum the strategies draw with
  MaxValue,     \* UINT64_MAX
  BlockSizes,   \* kBlockSizes
  SingleSteps,  \* single steps below the result of a search
  Reach,        \* how far a unit is moved
  Budget        \* MaxShrinkSteps

ASSUME ShrinkerAssumption ==
  /\ {Length, MaxChoice, MaxValue, SingleSteps, Reach, Budget} \subseteq Nat
  /\ Length > 0 /\ MaxChoice <= MaxValue
  /\ BlockSizes \in Seq(Nat \ {0})

Values == 0..MaxValue
Strategies == {"fixed", "counted"}

VARIABLES
  strategy,     \* how the trial draws its choices
  current,      \* current_, the simplest failing choices so far
  calls,        \* calls_
  improved,     \* whether a pass of this round helped
  pass,         \* the pass at work, or "done"
  at,           \* its index, from 0
  part,         \* its block size, offset or step, by number
  search,       \* MinimizeChoices: "start", "middle", "next" or "steps"
  low, high,    \* its binary search
  verdicts      \* choices consumed so far -> whether the property failed

cursor == <<pass, at, part, search, low, high>>
vars == <<strategy, current, calls, improved, cursor, verdicts>>

-----------------------------------------------------------------------------
\* Simpler is shorter, or smaller at the first difference.
IsSimpler(s, t) ==
  \/ Len(s) < Len(t)
  \/ /\ Len(s) = Len(t)
     /\ \E i \in DOMAIN s : s[i] < t[i] /\ \A k \in 1..(i - 1) : s[k] = t[k]

\* ReadReplay: past the end 0, and never more than the strategy asks for.
Read(s, i, maximum) ==
  IF i > Len(s) THEN 0 ELSE IF s[i] > maximum THEN maximum ELSE s[i]

\* What a replay of s records: a fixed number of choices, or a first one that
\* says how many follow.
Consumed(s) ==
  IF strategy = "fixed" THEN [i \in 1..Length |-> Read(s, i, MaxChoice)]
  ELSE LET count == Read(s, 1, Length - 1)
       IN <<count>> \o [i \in 1..count |-> Read(s, i + 1, MaxChoice)]

Init ==
  /\ strategy \in Strategies
  /\ \E s \in [1..Length -> 0..MaxChoice] : current = Consumed(s)
  /\ verdicts = [s \in {current} |-> TRUE]
  /\ calls = 0 /\ improved = FALSE
  /\ pass = "delete" /\ at = Len(current) /\ part = 1
  /\ search = "start" /\ low = 0 /\ high = 0

-----------------------------------------------------------------------------
Spent == calls >= Budget
Value(i) == current[i + 1]

\* What is known of the property, and what may be found out next.
Learned(s, fails) ==
  [t \in {s} \cup DOMAIN verdicts |-> IF t = s THEN fails ELSE verdicts[t]]
MayFail(s) == IF s \in DOMAIN verdicts THEN {verdicts[s]} ELSE BOOLEAN

\* Mutant: only the loops look at the budget.
Try_Unbudgeted(s, found, missed) ==
  IF ~IsSimpler(s, current)
  THEN missed /\ UNCHANGED <<current, calls, improved, verdicts>>
  ELSE /\ calls' = calls + 1
       /\ \E fails \in MayFail(Consumed(s)) :
            /\ verdicts' = Learned(Consumed(s), fails)
            /\ IF fails /\ IsSimpler(Consumed(s), current)
               THEN current' = Consumed(s) /\ improved' = TRUE /\ found
               ELSE UNCHANGED <<current, improved>> /\ missed

\* Mutant: the candidate is kept, not what its replay consumed.
Try_Candidate(s, found, missed) ==
  IF Spent \/ ~IsSimpler(s, current)
  THEN missed /\ UNCHANGED <<current, calls, improved, verdicts>>
  ELSE /\ calls' = calls + 1
       /\ \E fails \in MayFail(Consumed(s)) :
            /\ verdicts' = Learned(Consumed(s), fails)
            /\ IF fails THEN current' = s /\ improved' = TRUE /\ found
                        ELSE UNCHANGED <<current, improved>> /\ missed

\* Try: a candidate that fails and consumes something simpler is the new
\* current one.
Try(s, found, missed) ==
  IF Spent \/ ~IsSimpler(s, current)
  THEN missed /\ UNCHANGED <<current, calls, improved, verdicts>>
  ELSE /\ calls' = calls + 1
       /\ \E fails \in MayFail(Consumed(s)) :
            /\ verdicts' = Learned(Consumed(s), fails)
            /\ IF fails /\ IsSimpler(Consumed(s), current)
               THEN current' = Consumed(s) /\ improved' = TRUE /\ found
               ELSE UNCHANGED <<current, improved>> /\ missed

NothingTried == UNCHANGED <<current, calls, improved, verdicts>>
Goes(p, i, k) ==
  pass' = p /\ at' = i /\ part' = k /\ search' = "start" /\ UNCHANGED <<low, high>>
Moves(i, k) == Goes(pass, i, k)

-----------------------------------------------------------------------------
\* Blocks of choices are left out, from the end.
WithoutBlock(i, size) == SubSeq(current, 1, i) \o SubSeq(current, i + size + 1, Len(current))

DeleteBlocks ==
  LET size == BlockSizes[part] IN
  /\ pass = "delete" /\ part <= Len(BlockSizes)
  /\ IF at = 0 \/ Spent THEN Moves(Len(current), part + 1) /\ NothingTried
     ELSE IF at - 1 + size > Len(current) THEN Moves(at - 1, part) /\ NothingTried
     ELSE Try(WithoutBlock(at - 1, size), Moves(at - 1, part), Moves(at - 1, part))
  /\ UNCHANGED strategy

DeleteBlocksEnds ==
  /\ pass = "delete" /\ part > Len(BlockSizes)
  /\ Goes("zero", 0, 1) /\ NothingTried
  /\ UNCHANGED strategy

\* Blocks of choices are set to zero.
ZeroBlocks ==
  LET size == BlockSizes[part]
      block == (at + 1)..(at + size)
  IN
  /\ pass = "zero" /\ part <= Len(BlockSizes)
  /\ IF at + size > Len(current) \/ Spent THEN Moves(0, part + 1) /\ NothingTried
     ELSE IF \A i \in block : current[i] = 0 THEN Moves(at + 1, part) /\ NothingTried
     ELSE Try([i \in DOMAIN current |-> IF i \in block THEN 0 ELSE current[i]],
              Moves(at + 1, part), Moves(at + 1, part))
  /\ UNCHANGED strategy

ZeroBlocksEnds ==
  /\ pass = "zero" /\ part > Len(BlockSizes)
  /\ Goes("minimize", 0, 1) /\ NothingTried
  /\ UNCHANGED strategy

-----------------------------------------------------------------------------
\* Each choice is lowered: to zero, by binary search, by single steps.
Lowers(stage, l, h) ==
  search' = stage /\ low' = l /\ high' = h /\ part' = 1 /\ UNCHANGED <<pass, at>>

TryValue(value, found, missed) ==
  IF at >= Len(current) \/ Value(at) <= value THEN missed /\ NothingTried
  ELSE Try([current EXCEPT ![at + 1] = value], found, missed)

MinimizeStarts ==
  /\ pass = "minimize" /\ search = "start"
  /\ IF at >= Len(current) \/ Spent THEN Goes("sort", 0, 1) /\ NothingTried
     ELSE IF Value(at) = 0 THEN Moves(at + 1, 1) /\ NothingTried
     ELSE TryValue(0, Moves(at + 1, 1), Lowers("middle", 0, Value(at)))
  /\ UNCHANGED strategy

Middle == low + (high - low) \div 2
Searches == low + 1 < high /\ ~Spent /\ at < Len(current)

TriesMiddle ==
  /\ pass = "minimize" /\ search = "middle"
  /\ IF ~Searches THEN Lowers("steps", low, high) /\ NothingTried
     ELSE TryValue(Middle, Lowers("middle", low, Middle),
                   IF Middle + 1 < high THEN Lowers("next", low, high)
                   ELSE Lowers("middle", Middle + 1, high))
  /\ UNCHANGED strategy

\* A middle that passed may be a value a filter rejects.
TriesNextToMiddle ==
  /\ pass = "minimize" /\ search = "next"
  /\ TryValue(Middle + 1, Lowers("middle", low, Middle + 1),
              Lowers("middle", Middle + 1, high))
  /\ UNCHANGED strategy

SingleStep ==
  /\ pass = "minimize" /\ search = "steps"
  /\ IF part > SingleSteps \/ Spent \/ at >= Len(current)
     THEN Moves(at + 1, 1) /\ NothingTried
     ELSE IF Value(at) < part THEN Moves(at + 1, 1) /\ NothingTried
     ELSE TryValue(Value(at) - part, Moves(at + 1, 1),
                   /\ part' = part + 1
                   /\ UNCHANGED <<pass, at, search, low, high>>)
  /\ UNCHANGED strategy

-----------------------------------------------------------------------------
Swapped(i) == [current EXCEPT ![i + 1] = current[i + 2], ![i + 2] = current[i + 1]]

SortNeighbours ==
  /\ pass = "sort"
  /\ IF at + 1 >= Len(current) \/ Spent THEN Goes("move", 0, 1) /\ NothingTried
     ELSE IF Value(at) <= Value(at + 1) THEN Moves(at + 1, 1) /\ NothingTried
     ELSE Try(Swapped(at), Moves(at + 1, 1), Moves(at + 1, 1))
  /\ UNCHANGED strategy

\* One unit goes from a choice to one of the next few.
Moved(i, offset) == [current EXCEPT ![i + 1] = @ - 1, ![i + offset + 1] = @ + 1]

MoveBetweenNeighbours ==
  /\ pass = "move" /\ at < Len(current) /\ ~Spent
  /\ IF part > Reach \/ at + part >= Len(current) THEN Moves(at + 1, 1) /\ NothingTried
     ELSE IF Value(at) = 0 \/ Value(at + part) = MaxValue
          THEN Moves(at + 1, 1) /\ NothingTried
     ELSE Try(Moved(at, part), Moves(at, part + 1), Moves(at, part + 1))
  /\ UNCHANGED strategy

\* Mutant: one round is enough.
RoundEnds_Once ==
  /\ pass = "move" /\ (at >= Len(current) \/ Spent)
  /\ Goes("done", 0, 1) /\ NothingTried
  /\ UNCHANGED strategy

\* The loop of Run: another round as long as a pass helped.
RoundEnds ==
  /\ pass = "move" /\ (at >= Len(current) \/ Spent)
  /\ IF improved /\ ~Spent THEN Goes("delete", Len(current), 1) ELSE Goes("done", 0, 1)
  /\ improved' = FALSE
  /\ UNCHANGED <<strategy, current, calls, verdicts>>

Terminated == pass = "done" /\ UNCHANGED vars

Step == \/ DeleteBlocks \/ DeleteBlocksEnds \/ ZeroBlocks \/ ZeroBlocksEnds
        \/ MinimizeStarts \/ TriesMiddle \/ TriesNextToMiddle \/ SingleStep
        \/ SortNeighbours \/ MoveBetweenNeighbours \/ RoundEnds

Next == Step \/ Terminated

Spec == Init /\ [][Next]_vars
FairSpec == Spec /\ WF_vars(Step)
-----------------------------------------------------------------------------
(* Properties. *)

\* What the shrinker holds, and so what is reported with its replay token, is
\* exactly what a replay of it consumes, and it fails.
ShrunkFails ==
  /\ Consumed(current) = current
  /\ current \in DOMAIN verdicts /\ verdicts[current]

\* The values a choice is lowered to in any case: zero, and the next below it.
LowerValues(i) == {v \in 0..current[i] : v = 0 \/ current[i] - v \in 1..SingleSteps}

\* The candidates that are one step away: a block left out, a choice lowered,
\* neighbours swapped, a unit moved.
Neighbours ==
  {WithoutBlock(b[1], b[2]) :
     b \in {c \in (0..Len(current)) \X ToSet(BlockSizes) : c[1] + c[2] <= Len(current)}}
    \cup {Swapped(i - 1) : i \in 1..(Len(current) - 1)}
    \cup {Moved(m[1] - 1, m[2]) :
            m \in {c \in (DOMAIN current) \X (1..Reach) :
                     /\ c[1] + c[2] \in DOMAIN current /\ current[c[1]] > 0
                     /\ \A k \in 1..c[2] : current[c[1] + k] < MaxValue}}
    \cup UNION {{[current EXCEPT ![i] = v] : v \in LowerValues(i)} : i \in DOMAIN current}

\* What is known of a candidate: its replay passes, or is not simpler.
NoHelp(s) ==
  IsSimpler(s, current) =>
    /\ Consumed(s) \in DOMAIN verdicts
    /\ ~(verdicts[Consumed(s)] /\ IsSimpler(Consumed(s), current))

\* "Five passes repeat until none helps": a shrinker that ends within its
\* budget has tried every candidate that is one step from what it returns,
\* and none of them was a simpler failure.
NothingHelps == pass = "done" /\ ~Spent => \A s \in Neighbours : NoHelp(s)

\* Its loops end, the binary search and the rounds, and no replay exceeds the
\* budget, also where it is spent between two tries of one step.
ShrinkEnds == <>(pass = "done" /\ calls <= Budget)
=============================================================================
