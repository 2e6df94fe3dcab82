--------------------------- MODULE ShrinkerProofs ---------------------------
(***************************************************************************)
(* Whatever the property and the budget, what the shrinker holds fails and *)
(* is what its replay consumes; and when it ends within the budget, no     *)
(* candidate that is one step away is a simpler failure.                   *)
(***************************************************************************)
EXTENDS Shrinker, TLAPS

\* The places of the passes, and of the binary search.
CursorOK ==
  /\ at \in Nat /\ part \in Nat \ {0}
  /\ low \in Nat /\ high \in Nat /\ low <= high
  /\ search = "next" => Middle + 1 < high

ShrinkInv ==
  /\ strategy \in Strategies
  /\ current \in Seq(Nat)
  /\ ShrunkFails
  /\ CursorOK

\* What a replay reads is no more than the strategy asks for.
LEMMA ReadType ==
  ASSUME NEW s \in Seq(Nat), NEW i \in Nat \ {0}, NEW maximum \in Nat
  PROVE  Read(s, i, maximum) \in 0..maximum
<1>1. CASE i > Len(s)
  BY <1>1 DEF Read
<1>2. CASE ~(i > Len(s))
  <2>1. i \in 1..Len(s) /\ s[i] \in Nat
    BY <1>2
  <2> QED BY <1>2, <2>1 DEF Read
<1> QED BY <1>1, <1>2

\* A replay of what a replay consumed consumes the same.
LEMMA ReplayRepeats ==
  ASSUME NEW s \in Seq(Nat), strategy \in Strategies
  PROVE  Consumed(s) \in Seq(Nat) /\ Consumed(Consumed(s)) = Consumed(s)
<1> DEFINE c == Consumed(s)
<1>1. CASE strategy = "fixed"
  <2>1. c = [i \in 1..Length |-> Read(s, i, MaxChoice)]
    BY <1>1 DEF Consumed
  <2>2. \A i \in 1..Length : c[i] \in 0..MaxChoice
    BY <2>1, ReadType, ShrinkerAssumption
  <2>3. c \in Seq(Nat) /\ Len(c) = Length
    <3> HIDE DEF c
    <3>1. c \in [1..Length -> Nat]
      BY <2>1, <2>2, ShrinkerAssumption
    <3> QED BY <3>1, ShrinkerAssumption, SMTT(60)
  <2>4. \A i \in 1..Length : Read(c, i, MaxChoice) = c[i]
    <3> HIDE DEF c
    <3> QED BY <2>2, <2>3, ShrinkerAssumption DEF Read
  <2>5. Consumed(c) = [i \in 1..Length |-> Read(c, i, MaxChoice)]
    BY <1>1 DEF Consumed
  <2>6. Consumed(c) = c
    <3> HIDE DEF c
    <3> QED BY <2>1, <2>4, <2>5
  <2> QED BY <2>3, <2>6
<1>2. CASE strategy # "fixed"
  <2> DEFINE count == Read(s, 1, Length - 1)
             rest == [i \in 1..count |-> Read(s, i + 1, MaxChoice)]
  <2>1. c = <<count>> \o rest
    BY <1>2 DEF Consumed
  <2>2. Length - 1 \in Nat /\ count \in 0..(Length - 1) /\ count \in Nat
    <3>1. Length - 1 \in Nat
      BY ShrinkerAssumption
    <3>2. count \in 0..(Length - 1)
      BY <3>1, ReadType
    <3> QED BY <3>1, <3>2
  <2>3. \A i \in 1..count : rest[i] \in 0..MaxChoice
    <3>1. \A i \in 1..count : i + 1 \in Nat \ {0}
      BY <2>2
    <3> QED BY <3>1, ReadType, ShrinkerAssumption
  <2>4. rest \in Seq(Nat) /\ Len(rest) = count
    <3>1. rest \in [1..count -> Nat]
      BY <2>3, ShrinkerAssumption
    <3> HIDE DEF rest, count
    <3> QED BY <2>2, <3>1
  <2>5. /\ c \in Seq(Nat) /\ Len(c) = count + 1 /\ c[1] = count
        /\ \A i \in 1..count : c[i + 1] = rest[i]
    <3> HIDE DEF c, rest, count
    <3> QED BY <2>1, <2>2, <2>4
  <2>6. Read(c, 1, Length - 1) = count
    <3> HIDE DEF c, rest, count
    <3> QED BY <2>2, <2>5 DEF Read
  <2>7. \A i \in 1..count : Read(c, i + 1, MaxChoice) = rest[i]
    <3> SUFFICES ASSUME NEW i \in 1..count PROVE Read(c, i + 1, MaxChoice) = rest[i]
      OBVIOUS
    <3>1. rest[i] \in 0..MaxChoice /\ c[i + 1] = rest[i] /\ i + 1 <= Len(c) /\ i + 1 \in Nat
      <4> HIDE DEF c, rest, count
      <4> QED BY <2>2, <2>3, <2>5
    <3> HIDE DEF c, rest, count
    <3> QED BY <2>5, <3>1, ShrinkerAssumption, SMTT(60) DEF Read
  <2>8. Consumed(c) = <<count>> \o [i \in 1..count |-> Read(c, i + 1, MaxChoice)]
    <3> HIDE DEF c, count
    <3> QED BY <1>2, <2>6 DEF Consumed
  <2>9. [i \in 1..count |-> Read(c, i + 1, MaxChoice)] = rest
    <3> HIDE DEF c
    <3> QED BY <2>7
  <2>10. Consumed(c) = c
    BY <2>1, <2>8, <2>9
  <2> QED BY <2>5, <2>10
<1> QED BY <1>1, <1>2

\* What the passes do to the cursor is apart from what a try does.
TriesOf(s) == Try(s, TRUE, TRUE) \/ NothingTried

LEMMA TryKeepsFailing ==
  ASSUME ShrinkInv, NEW s \in Seq(Nat), TriesOf(s), strategy' = strategy
  PROVE  current' \in Seq(Nat) /\ ShrunkFails'
<1>1. CASE UNCHANGED <<current, calls, improved, verdicts>>
  BY <1>1 DEF ShrinkInv, ShrunkFails, Consumed
<1>2. ASSUME NEW fails \in MayFail(Consumed(s)),
             verdicts' = Learned(Consumed(s), fails),
             IF fails /\ IsSimpler(Consumed(s), current)
             THEN current' = Consumed(s) /\ improved' = TRUE
             ELSE UNCHANGED <<current, improved>>
      PROVE  current' \in Seq(Nat) /\ ShrunkFails'
  <2>1. /\ DOMAIN verdicts' = {Consumed(s)} \cup DOMAIN verdicts
        /\ \A t \in DOMAIN verdicts' : verdicts'[t] = IF t = Consumed(s) THEN fails ELSE verdicts[t]
    BY <1>2 DEF Learned
  <2>2. Consumed(s) \in Seq(Nat) /\ Consumed(Consumed(s)) = Consumed(s)
    BY ReplayRepeats DEF ShrinkInv
  <2>3. CASE fails /\ IsSimpler(Consumed(s), current)
    <3>1. current' = Consumed(s)
      BY <1>2, <2>3
    <3>2. Consumed(current)' = Consumed(Consumed(s))
      BY <3>1 DEF Consumed
    <3> QED BY <2>1, <2>2, <2>3, <3>1, <3>2 DEF ShrunkFails
  <2>4. CASE ~(fails /\ IsSimpler(Consumed(s), current))
    <3>1. current' = current
      BY <1>2, <2>4
    <3>2. Consumed(current)' = Consumed(current)
      BY <3>1 DEF Consumed
    <3>3. current = Consumed(s) => fails
      BY <1>2 DEF MayFail, ShrinkInv, ShrunkFails
    <3> QED BY <2>1, <3>1, <3>2, <3>3 DEF ShrunkFails, ShrinkInv
  <2> QED BY <2>3, <2>4
<1> QED BY <1>1, <1>2 DEF TriesOf, Try, NothingTried

-----------------------------------------------------------------------------
(* The candidates are sequences of choices. *)

LEMMA BlockLeftOut ==
  ASSUME current \in Seq(Nat), NEW i \in Nat, NEW size \in Nat, i + size <= Len(current)
  PROVE  WithoutBlock(i, size) \in Seq(Nat)
<1>1. SubSeq(current, 1, i) \in Seq(Nat)
  OBVIOUS
<1>2. SubSeq(current, i + size + 1, Len(current)) \in Seq(Nat)
  OBVIOUS
<1> QED BY <1>1, <1>2 DEF WithoutBlock

LEMMA ChoiceReplaced ==
  ASSUME current \in Seq(Nat), NEW i \in 1..Len(current), NEW v \in Nat
  PROVE  [current EXCEPT ![i] = v] \in Seq(Nat)
OBVIOUS

LEMMA BlockZeroed ==
  ASSUME current \in Seq(Nat), NEW block
  PROVE  [i \in DOMAIN current |-> IF i \in block THEN 0 ELSE current[i]] \in Seq(Nat)
<1>1. [i \in DOMAIN current |-> IF i \in block THEN 0 ELSE current[i]]
        \in [1..Len(current) -> Nat]
  OBVIOUS
<1> QED BY <1>1

LEMMA NeighboursSwapped ==
  ASSUME current \in Seq(Nat), NEW i \in Nat, i + 1 < Len(current)
  PROVE  Swapped(i) \in Seq(Nat)
BY SMTT(60) DEF Swapped

LEMMA UnitMoved ==
  ASSUME current \in Seq(Nat), NEW i \in Nat, NEW offset \in Nat \ {0},
         i + offset < Len(current), Value(i) # 0
  PROVE  Moved(i, offset) \in Seq(Nat)
<1>1. current[i + 1] - 1 \in Nat
  BY DEF Value
<1>2. [current EXCEPT ![i + 1] = @ - 1] \in Seq(Nat)
  BY <1>1
<1> QED BY <1>1, <1>2, SMTT(60) DEF Moved

LEMMA MiddleBetween ==
  ASSUME low \in Nat, high \in Nat, low <= high
  PROVE  Middle \in low..high /\ (low < high => Middle < high)
BY DEF Middle

-----------------------------------------------------------------------------
(* What a step tries, and that the cursor stays in place. *)

\* A step that goes on to another place.
LEMMA MovesOn ==
  ASSUME CursorOK, NEW p, NEW i \in Nat, NEW k \in Nat \ {0}, Goes(p, i, k)
  PROVE  CursorOK'
BY DEF CursorOK, Goes

LEMMA LowersOn ==
  ASSUME CursorOK, NEW stage, NEW l \in Nat, NEW h \in Nat, l <= h, Lowers(stage, l, h),
         stage = "next" => l + (h - l) \div 2 + 1 < h
  PROVE  CursorOK'
BY DEF CursorOK, Lowers, Middle

LEMMA DeleteStep ==
  ASSUME ShrinkInv, DeleteBlocks
  PROVE  CursorOK' /\ \E s \in Seq(Nat) : TriesOf(s)
<1> DEFINE size == BlockSizes[part]
<1>1. /\ at \in Nat /\ part \in Nat \ {0} /\ Len(current) \in Nat /\ size \in Nat \ {0}
      /\ current \in Seq(Nat) /\ CursorOK
  BY ShrinkerAssumption, SMTT(60) DEF ShrinkInv, CursorOK, DeleteBlocks
<1>2. CASE at = 0 \/ Spent
  <2>1. Goes(pass, Len(current), part + 1) /\ NothingTried
    BY <1>2 DEF DeleteBlocks, Moves
  <2> QED BY <1>1, <2>1, MovesOn DEF TriesOf
<1>3. CASE ~(at = 0 \/ Spent) /\ at - 1 + size > Len(current)
  <2>1. Goes(pass, at - 1, part) /\ NothingTried
    BY <1>3 DEF DeleteBlocks, Moves
  <2>2. at - 1 \in Nat
    BY <1>1, <1>3
  <2> QED BY <1>1, <2>1, <2>2, MovesOn DEF TriesOf
<1>4. CASE ~(at = 0 \/ Spent) /\ ~(at - 1 + size > Len(current))
  <2>1. at - 1 \in Nat
    BY <1>1, <1>4
  <2>2. WithoutBlock(at - 1, size) \in Seq(Nat)
    BY <1>1, <1>4, <2>1, BlockLeftOut
  <2>3. Try(WithoutBlock(at - 1, size), Moves(at - 1, part), Moves(at - 1, part))
    BY <1>4 DEF DeleteBlocks
  <2>4. Goes(pass, at - 1, part) /\ TriesOf(WithoutBlock(at - 1, size))
    BY <2>3 DEF Try, Moves, TriesOf
  <2> QED BY <1>1, <2>1, <2>2, <2>4, MovesOn
<1> QED BY <1>2, <1>3, <1>4

LEMMA ZeroStep ==
  ASSUME ShrinkInv, ZeroBlocks
  PROVE  CursorOK' /\ \E s \in Seq(Nat) : TriesOf(s)
<1> DEFINE size == BlockSizes[part]
           block == (at + 1)..(at + size)
           zeroed == [i \in DOMAIN current |-> IF i \in block THEN 0 ELSE current[i]]
<1>1. at + 1 \in Nat /\ part \in Nat \ {0} /\ part + 1 \in Nat \ {0} /\ CursorOK
  BY DEF ShrinkInv, CursorOK
<1>2. zeroed \in Seq(Nat)
  BY BlockZeroed DEF ShrinkInv
<1>3. /\ Goes(pass, 0, part + 1) \/ Goes(pass, at + 1, part)
      /\ TriesOf(zeroed)
  BY DEF ZeroBlocks, Try, Moves, TriesOf, NothingTried
<1>4. CursorOK'
  BY <1>1, <1>3, MovesOn
<1> QED BY <1>2, <1>3, <1>4

LEMMA PassesFollow ==
  ASSUME ShrinkInv, DeleteBlocksEnds \/ ZeroBlocksEnds
  PROVE  CursorOK' /\ \E s \in Seq(Nat) : TriesOf(s)
<1>1. CursorOK'
  BY MovesOn DEF ShrinkInv, DeleteBlocksEnds, ZeroBlocksEnds
<1> QED BY <1>1 DEF DeleteBlocksEnds, ZeroBlocksEnds, TriesOf, ShrinkInv

\* One choice is replaced by a smaller one, or nothing is tried.
LEMMA OneLower ==
  ASSUME ShrinkInv, NEW value \in Nat, TryValue(value, TRUE, TRUE)
  PROVE  \E s \in Seq(Nat) : TriesOf(s)
<1>1. CASE at >= Len(current) \/ Value(at) <= value
  BY <1>1 DEF TryValue, TriesOf, ShrinkInv
<1>2. CASE ~(at >= Len(current) \/ Value(at) <= value)
  <2>1. at + 1 \in 1..Len(current)
    BY <1>2 DEF ShrinkInv, CursorOK
  <2>2. [current EXCEPT ![at + 1] = value] \in Seq(Nat)
    BY <2>1, ChoiceReplaced DEF ShrinkInv
  <2>3. Try([current EXCEPT ![at + 1] = value], TRUE, TRUE)
    BY <1>2 DEF TryValue
  <2> QED BY <2>2, <2>3 DEF TriesOf
<1> QED BY <1>1, <1>2

LEMMA MinimizeStep ==
  ASSUME ShrinkInv, MinimizeStarts
  PROVE  CursorOK' /\ \E s \in Seq(Nat) : TriesOf(s)
<1>1. at + 1 \in Nat /\ CursorOK /\ current \in Seq(Nat)
  BY DEF ShrinkInv, CursorOK
<1>2. CASE at >= Len(current) \/ Spent
  <2>1. Goes("sort", 0, 1) /\ NothingTried
    BY <1>2 DEF MinimizeStarts
  <2> QED BY <1>1, <2>1, MovesOn DEF TriesOf
<1>3. CASE ~(at >= Len(current) \/ Spent) /\ Value(at) = 0
  <2>1. Goes(pass, at + 1, 1) /\ NothingTried
    BY <1>3 DEF MinimizeStarts, Moves
  <2> QED BY <1>1, <2>1, MovesOn DEF TriesOf
<1>4. CASE ~(at >= Len(current) \/ Spent) /\ Value(at) # 0
  <2>1. Value(at) \in Nat
    BY <1>1, <1>4 DEF Value, CursorOK
  <2>2. TryValue(0, Moves(at + 1, 1), Lowers("middle", 0, Value(at)))
    BY <1>4 DEF MinimizeStarts
  <2>3. Goes(pass, at + 1, 1) \/ Lowers("middle", 0, Value(at))
    BY <2>2 DEF TryValue, Try, Moves
  <2>4. TryValue(0, TRUE, TRUE)
    BY <2>2 DEF TryValue, Try
  <2>5. CursorOK'
    BY <1>1, <2>1, <2>3, MovesOn, LowersOn
  <2> QED BY <2>4, <2>5, OneLower
<1> QED BY <1>2, <1>3, <1>4

LEMMA MiddleStep ==
  ASSUME ShrinkInv, TriesMiddle
  PROVE  CursorOK' /\ \E s \in Seq(Nat) : TriesOf(s)
<1>1. low \in Nat /\ high \in Nat /\ low <= high /\ CursorOK /\ current \in Seq(Nat)
  BY DEF ShrinkInv, CursorOK
<1>2. CASE ~Searches
  <2>1. Lowers("steps", low, high) /\ NothingTried
    BY <1>2 DEF TriesMiddle
  <2> QED BY <1>1, <2>1, LowersOn DEF TriesOf
<1>3. CASE Searches
  <2>1. Middle \in Nat /\ low <= Middle /\ Middle < high /\ Middle + 1 \in Nat
    BY <1>1, <1>3, MiddleBetween DEF Searches
  <2>2. TryValue(Middle, Lowers("middle", low, Middle),
                 IF Middle + 1 < high THEN Lowers("next", low, high)
                 ELSE Lowers("middle", Middle + 1, high))
    BY <1>3 DEF TriesMiddle
  <2>3. \/ Lowers("middle", low, Middle)
        \/ Middle + 1 < high /\ Lowers("next", low, high)
        \/ ~(Middle + 1 < high) /\ Lowers("middle", Middle + 1, high)
    BY <2>2 DEF TryValue, Try
  <2>4. TryValue(Middle, TRUE, TRUE)
    BY <2>2 DEF TryValue, Try
  <2>5. ASSUME Lowers("middle", low, Middle) PROVE CursorOK'
    BY <1>1, <2>1, <2>5, LowersOn
  <2>6. ASSUME Middle + 1 < high /\ Lowers("next", low, high) PROVE CursorOK'
    <3>1. low + (high - low) \div 2 + 1 < high
      BY <2>6 DEF Middle
    <3> QED BY <1>1, <2>6, <3>1, LowersOn
  <2>7. ASSUME ~(Middle + 1 < high) /\ Lowers("middle", Middle + 1, high) PROVE CursorOK'
    BY <1>1, <2>1, <2>7, LowersOn
  <2>8. CursorOK'
    BY <2>3, <2>5, <2>6, <2>7
  <2> QED BY <2>1, <2>4, <2>8, OneLower
<1> QED BY <1>2, <1>3

LEMMA NextToMiddleStep ==
  ASSUME ShrinkInv, TriesNextToMiddle
  PROVE  CursorOK' /\ \E s \in Seq(Nat) : TriesOf(s)
<1>1. low \in Nat /\ high \in Nat /\ low <= high /\ Middle + 1 < high /\ CursorOK
  BY DEF ShrinkInv, CursorOK, TriesNextToMiddle
<1>2. Middle + 1 \in Nat /\ low <= Middle + 1
  BY <1>1, MiddleBetween
<1>3. TryValue(Middle + 1, Lowers("middle", low, Middle + 1), Lowers("middle", Middle + 1, high))
  BY DEF TriesNextToMiddle
<1>4. Lowers("middle", low, Middle + 1) \/ Lowers("middle", Middle + 1, high)
  BY <1>3 DEF TryValue, Try
<1>5. TryValue(Middle + 1, TRUE, TRUE)
  BY <1>3 DEF TryValue, Try
<1>6. ASSUME Lowers("middle", low, Middle + 1) PROVE CursorOK'
  BY <1>1, <1>2, <1>6, LowersOn
<1>7. ASSUME Lowers("middle", Middle + 1, high) PROVE CursorOK'
  BY <1>1, <1>2, <1>7, LowersOn
<1> QED BY <1>2, <1>4, <1>5, <1>6, <1>7, OneLower

LEMMA SingleStepStep ==
  ASSUME ShrinkInv, SingleStep
  PROVE  CursorOK' /\ \E s \in Seq(Nat) : TriesOf(s)
<1> DEFINE Another == part' = part + 1 /\ UNCHANGED <<pass, at, search, low, high>>
<1>1. at + 1 \in Nat /\ part \in Nat \ {0} /\ CursorOK /\ current \in Seq(Nat)
  BY DEF ShrinkInv, CursorOK
<1>2. CASE part > SingleSteps \/ Spent \/ at >= Len(current) \/ Value(at) < part
  <2>1. Goes(pass, at + 1, 1) /\ NothingTried
    BY <1>2 DEF SingleStep, Moves
  <2> QED BY <1>1, <2>1, MovesOn DEF TriesOf
<1>3. CASE ~(part > SingleSteps \/ Spent \/ at >= Len(current) \/ Value(at) < part)
  <2>1. Value(at) - part \in Nat
    BY <1>1, <1>3 DEF Value, CursorOK
  <2>2. TryValue(Value(at) - part, Moves(at + 1, 1), Another)
    BY <1>3 DEF SingleStep
  <2>3. Goes(pass, at + 1, 1) \/ Another
    BY <2>2 DEF TryValue, Try, Moves
  <2>4. TryValue(Value(at) - part, TRUE, TRUE)
    BY <2>2 DEF TryValue, Try
  <2>5. Another => CursorOK'
    BY <1>1 DEF CursorOK, Middle
  <2>6. CursorOK'
    BY <1>1, <2>3, <2>5, MovesOn
  <2> QED BY <2>1, <2>4, <2>6, OneLower
<1> QED BY <1>2, <1>3

LEMMA SortStep ==
  ASSUME ShrinkInv, SortNeighbours
  PROVE  CursorOK' /\ \E s \in Seq(Nat) : TriesOf(s)
<1>1. at \in Nat /\ at + 1 \in Nat /\ CursorOK /\ current \in Seq(Nat)
  BY DEF ShrinkInv, CursorOK
<1>2. /\ Goes("move", 0, 1) \/ Goes(pass, at + 1, 1)
      /\ NothingTried \/ (at + 1 < Len(current) /\ TriesOf(Swapped(at)))
  BY <1>1 DEF SortNeighbours, Try, Moves, TriesOf
<1>3. CursorOK'
  BY <1>1, <1>2, MovesOn
<1>4. at + 1 < Len(current) => Swapped(at) \in Seq(Nat)
  BY <1>1, NeighboursSwapped
<1> QED BY <1>1, <1>2, <1>3, <1>4 DEF TriesOf

LEMMA MoveStep ==
  ASSUME ShrinkInv, MoveBetweenNeighbours
  PROVE  CursorOK' /\ \E s \in Seq(Nat) : TriesOf(s)
<1>1. /\ at \in Nat /\ at + 1 \in Nat /\ part \in Nat \ {0} /\ part + 1 \in Nat \ {0}
      /\ CursorOK /\ current \in Seq(Nat)
  BY DEF ShrinkInv, CursorOK
<1>2. /\ Goes(pass, at + 1, 1) \/ Goes(pass, at, part + 1)
      /\ \/ NothingTried
         \/ at + part < Len(current) /\ Value(at) # 0 /\ TriesOf(Moved(at, part))
  BY <1>1, SMTT(60) DEF MoveBetweenNeighbours, Try, Moves, TriesOf
<1>3. CursorOK'
  BY <1>1, <1>2, MovesOn
<1>4. at + part < Len(current) /\ Value(at) # 0 => Moved(at, part) \in Seq(Nat)
  BY <1>1, UnitMoved
<1> QED BY <1>1, <1>2, <1>3, <1>4 DEF TriesOf

LEMMA RoundStep ==
  ASSUME ShrinkInv, RoundEnds
  PROVE  ShrinkInv'
<1>1. CursorOK'
  BY MovesOn DEF ShrinkInv, RoundEnds
<1> QED BY <1>1 DEF ShrinkInv, RoundEnds, ShrunkFails, Consumed

-----------------------------------------------------------------------------
LEMMA InitShrink == Init => ShrinkInv
<1> SUFFICES ASSUME Init PROVE ShrinkInv
  OBVIOUS
<1>1. PICK s \in [1..Length -> 0..MaxChoice] : current = Consumed(s)
  BY DEF Init
<1>2. s \in Seq(Nat)
  <2>1. s \in [1..Length -> Nat]
    BY ShrinkerAssumption
  <2> QED BY <2>1, ShrinkerAssumption, SMTT(60)
<1>3. strategy \in Strategies
  BY DEF Init
<1>4. current \in Seq(Nat) /\ Consumed(current) = current
  BY <1>1, <1>2, <1>3, ReplayRepeats
<1>5. ShrunkFails
  BY <1>4 DEF Init, ShrunkFails
<1>6. CursorOK
  BY <1>4 DEF Init, CursorOK
<1> QED BY <1>3, <1>4, <1>5, <1>6 DEF ShrinkInv

LEMMA StepShrink == ShrinkInv /\ [Next]_vars => ShrinkInv'
<1> SUFFICES ASSUME ShrinkInv, [Next]_vars PROVE ShrinkInv'
  OBVIOUS
<1>1. CASE UNCHANGED vars
  BY <1>1 DEF vars, cursor, ShrinkInv, ShrunkFails, Consumed, CursorOK, Middle
<1>2. CASE Step /\ ~RoundEnds
  <2>1. CursorOK' /\ \E s \in Seq(Nat) : TriesOf(s)
    BY <1>2, DeleteStep, ZeroStep, PassesFollow, MinimizeStep, MiddleStep, NextToMiddleStep,
       SingleStepStep, SortStep, MoveStep DEF Step
  <2>2. strategy' = strategy
    BY <1>2 DEF Step, DeleteBlocks, DeleteBlocksEnds, ZeroBlocks, ZeroBlocksEnds,
       MinimizeStarts, TriesMiddle, TriesNextToMiddle, SingleStep, SortNeighbours,
       MoveBetweenNeighbours
  <2>3. current' \in Seq(Nat) /\ ShrunkFails'
    BY <2>1, <2>2, TryKeepsFailing
  <2> QED BY <2>1, <2>2, <2>3 DEF ShrinkInv
<1>3. CASE RoundEnds
  BY <1>3, RoundStep
<1> QED BY <1>1, <1>2, <1>3 DEF Next, Terminated

\* Whatever the property, the strategies and the budget: what the shrinker
\* holds at any time, and so what Run returns, is exactly what a replay of it
\* consumes, and it is known to fail.
THEOREM ShrunkFailsAlways == Spec => []ShrunkFails
<1>1. ShrinkInv => ShrunkFails
  BY DEF ShrinkInv
<1> QED BY InitShrink, StepShrink, <1>1, PTL DEF Spec

-----------------------------------------------------------------------------
(* Why nothing helps any more: a round that has improved nothing has tried *)
(* every candidate that is behind its cursor, and `current' is the same.   *)

\* A block left out: of the sizes before the p-th, or of the p-th from i on.
Deletion(u, p, i) ==
  \E q \in DOMAIN BlockSizes : \E j \in 0..Len(current) :
    /\ j + BlockSizes[q] <= Len(current)
    /\ q < p \/ (q = p /\ j >= i)
    /\ u = WithoutBlock(j, BlockSizes[q])

\* A choice before the i-th lowered, counting from 0.
WithValue(j, v) == [current EXCEPT ![j + 1] = v]
Lowering(u, i) ==
  \E j \in 0..(Len(current) - 1) : \E v \in LowerValues(j + 1) : j < i /\ u = WithValue(j, v)

\* What has been tried of the choice that is being lowered.
LoweringHere(u) ==
  /\ search # "start"
  /\ \/ u = WithValue(at, 0)
     \/ /\ search = "steps"
        /\ \E k \in 1..(part - 1) : k <= Value(at) /\ u = WithValue(at, Value(at) - k)

\* Neighbours before i swapped.
Swapping(u, i) == \E j \in 0..(Len(current) - 2) : j < i /\ u = Swapped(j)

\* A unit moved from before i, or from i to less than k further.
CanMove(j, o) ==
  /\ j + o < Len(current) /\ Value(j) > 0
  /\ \A m \in 1..o : Value(j + m) < MaxValue
Moving(u, i, k) ==
  \E j \in 0..(Len(current) - 1) : \E o \in 1..Reach :
    CanMove(j, o) /\ (j < i \/ (j = i /\ o < k)) /\ u = Moved(j, o)

Behind(u) ==
  \/ pass = "delete" /\ Deletion(u, part, at)
  \/ pass # "delete" /\ Deletion(u, Len(BlockSizes) + 1, 0)
  \/ pass = "minimize" /\ (Lowering(u, at) \/ LoweringHere(u))
  \/ pass \in {"sort", "move", "done"} /\ Lowering(u, Len(current))
  \/ pass = "sort" /\ Swapping(u, at)
  \/ pass \in {"move", "done"} /\ Swapping(u, Len(current))
  \/ pass = "move" /\ Moving(u, at, part)
  \/ pass = "done" /\ Moving(u, Len(current), 1)

RoundInv ==
  /\ calls \in Nat
  /\ pass = "done" => ~improved
  /\ ~improved /\ ~Spent => \A u \in Neighbours : Behind(u) => NoHelp(u)

-----------------------------------------------------------------------------
(* What a step adds to what is behind the cursor. *)

\* A step that improves nothing and leaves budget leaves the rest alone.
Idle ==
  /\ ~improved /\ ~Spent
  /\ current' = current /\ strategy' = strategy /\ ~improved'

\* What the step settles: a candidate it tried, or one that is not simpler.
Settled(u) == Try(u, TRUE, TRUE) \/ ~IsSimpler(u, current)

LEMMA NotSimplerThanItself ==
  ASSUME NEW s \in Seq(Nat)
  PROVE  ~IsSimpler(s, s)
BY DEF IsSimpler

LEMMA UnimprovedIsIdle ==
  ASSUME NEW s, TriesOf(s), strategy' = strategy, calls \in Nat,
         ~improved', ~Spent'
  PROVE  Idle /\ calls' \in Nat
<1>1. calls' \in Nat /\ calls <= calls' /\ current' = current /\ improved' = improved
  BY DEF TriesOf, Try, NothingTried
<1>2. ~Spent
  BY <1>1, ShrinkerAssumption DEF Spent
<1> QED BY <1>1, <1>2 DEF Idle

\* What is known of a candidate stays known.
LEMMA KnownStays ==
  ASSUME NEW s, TriesOf(s), Idle, NEW u, NoHelp(u)
  PROVE  NoHelp(u)'
<1>1. Consumed(u)' = Consumed(u)
  BY DEF Idle, Consumed
<1>2. IsSimpler(u, current)' <=> IsSimpler(u, current)
  BY DEF Idle
<1>3. IsSimpler(Consumed(u), current)' <=> IsSimpler(Consumed(u), current)
  BY <1>1 DEF Idle
<1>4. Consumed(u) \in DOMAIN verdicts =>
        Consumed(u) \in DOMAIN verdicts' /\ verdicts'[Consumed(u)] = verdicts[Consumed(u)]
  BY DEF TriesOf, Try, NothingTried, Learned, MayFail
<1> QED BY <1>1, <1>2, <1>3, <1>4 DEF NoHelp

\* A candidate that was tried and did not help is known not to.
LEMMA TriedIsKnown ==
  ASSUME Idle, NEW u, Settled(u)
  PROVE  NoHelp(u)'
<1>1. Consumed(u)' = Consumed(u)
  BY DEF Idle, Consumed
<1>2. IsSimpler(u, current)' <=> IsSimpler(u, current)
  BY DEF Idle
<1>3. IsSimpler(Consumed(u), current)' <=> IsSimpler(Consumed(u), current)
  BY <1>1 DEF Idle
<1>4. IsSimpler(u, current) =>
        /\ Consumed(u) \in DOMAIN verdicts'
        /\ ~(verdicts'[Consumed(u)] /\ IsSimpler(Consumed(u), current))
  BY DEF Settled, Try, Learned, Idle
<1> QED BY <1>1, <1>2, <1>3, <1>4 DEF NoHelp

LEMMA DeleteGoesOn ==
  ASSUME ShrinkInv, DeleteBlocks, Idle, NEW u, Behind(u)'
  PROVE  Behind(u) \/ Settled(u)
<1> DEFINE size == BlockSizes[part]
<1>1. /\ at \in Nat /\ part \in Nat \ {0} /\ Len(current) \in Nat /\ size \in Nat \ {0}
      /\ DOMAIN BlockSizes = 1..Len(BlockSizes) /\ Len(BlockSizes) \in Nat
      /\ \A q \in DOMAIN BlockSizes : BlockSizes[q] \in Nat \ {0}
  BY ShrinkerAssumption, SMTT(60) DEF ShrinkInv, CursorOK, DeleteBlocks
<1>2. pass = "delete" /\ pass' = pass
  BY DEF DeleteBlocks, Moves, Goes, Try
<1>3. PICK q \in DOMAIN BlockSizes : \E j \in 0..Len(current) :
        /\ j + BlockSizes[q] <= Len(current)
        /\ q < part' \/ (q = part' /\ j >= at')
        /\ u = WithoutBlock(j, BlockSizes[q])
  BY <1>2 DEF Behind, Deletion, WithoutBlock, Idle
<1>4. PICK j \in 0..Len(current) :
        /\ j + BlockSizes[q] <= Len(current)
        /\ q < part' \/ (q = part' /\ j >= at')
        /\ u = WithoutBlock(j, BlockSizes[q])
  BY <1>3
<1>5. q < part \/ (q = part /\ j >= at) => Behind(u)
  BY <1>2, <1>4 DEF Behind, Deletion
<1>6. CASE at = 0
  <2>1. part' = part + 1 /\ at' = Len(current)
    BY <1>6 DEF DeleteBlocks, Moves, Goes
  <2> QED BY <1>1, <1>4, <1>5, <1>6, <2>1
<1>7. CASE at # 0
  <2>1. part' = part /\ at' = at - 1
    BY <1>7 DEF DeleteBlocks, Moves, Goes, Try, Idle
  <2>2. ~(q < part \/ (q = part /\ j >= at)) => q = part /\ j = at - 1
    BY <1>1, <1>4, <2>1
  <2>3. ~(at - 1 + size > Len(current)) => Try(WithoutBlock(at - 1, size), TRUE, TRUE)
    BY <1>7 DEF DeleteBlocks, Try, Idle
  <2>4. CASE q = part /\ j = at - 1
    <3>1. at - 1 + size <= Len(current) /\ u = WithoutBlock(at - 1, size)
      BY <1>4, <2>4
    <3>2. ~(at - 1 + size > Len(current))
      BY <1>1, <3>1
    <3> QED BY <2>3, <3>1, <3>2 DEF Settled
  <2> QED BY <1>5, <2>2, <2>4
<1> QED BY <1>6, <1>7

\* Blocks of zeros are not the candidates of one step.
LEMMA ZeroGoesOn ==
  ASSUME ShrinkInv, DeleteBlocksEnds \/ ZeroBlocks \/ ZeroBlocksEnds, Idle, NEW u, Behind(u)'
  PROVE  Behind(u)
<1>1. Len(BlockSizes) \in Nat /\ Len(current) \in Nat /\ part \in Nat
  BY ShrinkerAssumption DEF ShrinkInv, CursorOK
<1>2. pass' \in {"zero", "minimize"}
  BY DEF DeleteBlocksEnds, ZeroBlocks, ZeroBlocksEnds, Goes, Moves, Try
<1>3. ~(pass' = "minimize" /\ (Lowering(u, at)' \/ LoweringHere(u)'))
  <2>1. pass' = "minimize" => at' = 0 /\ search' = "start"
    BY DEF DeleteBlocksEnds, ZeroBlocks, ZeroBlocksEnds, Goes, Moves, Try
  <2> QED BY <1>1, <2>1 DEF Lowering, LoweringHere, Idle
<1>4. Deletion(u, Len(BlockSizes) + 1, 0)'
  BY <1>2, <1>3 DEF Behind
<1>5. Deletion(u, Len(BlockSizes) + 1, 0)
  BY <1>4 DEF Idle, Deletion, WithoutBlock
<1>6. CASE pass = "delete"
  <2>1. part > Len(BlockSizes)
    BY <1>6 DEF DeleteBlocksEnds, ZeroBlocks, ZeroBlocksEnds
  <2>2. Deletion(u, part, at)
    <3>1. \A q \in DOMAIN BlockSizes : q \in Nat /\ q < part
      BY <1>1, <2>1, ShrinkerAssumption
    <3> QED BY <1>5, <3>1 DEF Deletion
  <2> QED BY <1>6, <2>2 DEF Behind
<1> QED BY <1>5, <1>6 DEF Behind

\* What is behind the cursor of a later pass, when the step stays in its kind.
LEMMA EarlierStays ==
  ASSUME Idle, NEW u
  PROVE  /\ Deletion(u, Len(BlockSizes) + 1, 0)' => Deletion(u, Len(BlockSizes) + 1, 0)
         /\ Lowering(u, Len(current))' => Lowering(u, Len(current))
         /\ Swapping(u, Len(current))' => Swapping(u, Len(current))
<1>1. Deletion(u, Len(BlockSizes) + 1, 0)' => Deletion(u, Len(BlockSizes) + 1, 0)
  BY DEF Idle, Deletion, WithoutBlock
<1>2. Lowering(u, Len(current))' => Lowering(u, Len(current))
  BY DEF Idle, Lowering, LowerValues, WithValue
<1>3. Swapping(u, Len(current))' => Swapping(u, Len(current))
  BY DEF Idle, Swapping, Swapped
<1> QED BY <1>1, <1>2, <1>3

\* All that the choice at the cursor is lowered to in any case.
LEMMA NextChoice ==
  ASSUME ShrinkInv, Idle, at' = at + 1, search' = "start", NEW u, Lowering(u, at)',
         \A v \in LowerValues(at + 1) : at < Len(current) =>
           LoweringHere(WithValue(at, v)) \/ ~IsSimpler(WithValue(at, v), current)
  PROVE  Lowering(u, at) \/ LoweringHere(u) \/ ~IsSimpler(u, current)
<1>1. at \in Nat /\ Len(current) \in Nat
  BY DEF ShrinkInv, CursorOK
<1>2. PICK j \in 0..(Len(current) - 1) : \E v \in LowerValues(j + 1) :
        j < at + 1 /\ u = WithValue(j, v)
  BY DEF Lowering, LowerValues, WithValue, Idle
<1>3. PICK v \in LowerValues(j + 1) : j < at + 1 /\ u = WithValue(j, v)
  BY <1>2
<1>4. CASE j < at
  BY <1>3, <1>4 DEF Lowering
<1>5. CASE j = at
  BY <1>1, <1>3, <1>5
<1> QED BY <1>1, <1>3, <1>4, <1>5

LEMMA MinimizeGoesOn ==
  ASSUME ShrinkInv, MinimizeStarts, Idle, NEW u, Behind(u)'
  PROVE  Behind(u) \/ Settled(u)
<1>1. at \in Nat /\ Len(current) \in Nat /\ current \in Seq(Nat)
  BY DEF ShrinkInv, CursorOK
<1>2. pass = "minimize" /\ search = "start"
  BY DEF MinimizeStarts
<1>3. CASE at >= Len(current)
  <2>1. pass' = "sort" /\ at' = 0
    BY <1>3 DEF MinimizeStarts, Goes
  <2>2. ~Swapping(u, at)'
    BY <1>1, <2>1 DEF Swapping, Idle
  <2>3. Lowering(u, Len(current)) => Lowering(u, at)
    BY <1>1, <1>3 DEF Lowering
  <2> QED BY <1>2, <2>1, <2>2, <2>3, EarlierStays DEF Behind
<1>4. CASE at < Len(current) /\ Value(at) = 0
  <2>1. pass' = pass /\ at' = at + 1 /\ search' = "start"
    BY <1>1, <1>4 DEF MinimizeStarts, Moves, Goes, Idle
  <2>2. \A v \in LowerValues(at + 1) : ~IsSimpler(WithValue(at, v), current)
    <3> SUFFICES ASSUME NEW v \in LowerValues(at + 1)
                 PROVE  ~IsSimpler(WithValue(at, v), current)
      OBVIOUS
    <3>1. v = 0 /\ current[at + 1] = 0 /\ at + 1 \in 1..Len(current)
      BY <1>1, <1>4 DEF LowerValues, Value
    <3>2. WithValue(at, v) = current
      BY <1>1, <3>1 DEF WithValue
    <3> QED BY <1>1, <3>2, NotSimplerThanItself
  <2>3. Lowering(u, at)' => Lowering(u, at) \/ LoweringHere(u) \/ ~IsSimpler(u, current)
    BY <2>1, <2>2, NextChoice
  <2>4. ~LoweringHere(u)'
    BY <2>1 DEF LoweringHere
  <2> QED BY <1>2, <2>1, <2>3, <2>4, EarlierStays DEF Behind, Settled
<1>5. CASE at < Len(current) /\ Value(at) # 0
  <2>1. Value(at) \in Nat /\ ~(Value(at) <= 0) /\ ~(at >= Len(current))
    BY <1>1, <1>5 DEF Value
  <2>2. TryValue(0, Moves(at + 1, 1), Lowers("middle", 0, Value(at)))
    BY <1>5, <2>1 DEF MinimizeStarts, Idle
  <2>3. Try(WithValue(at, 0), FALSE, Lowers("middle", 0, Value(at)))
    BY <2>1, <2>2 DEF TryValue, Try, Idle, WithValue
  <2>4. Settled(WithValue(at, 0)) /\ Lowers("middle", 0, Value(at))
    BY <2>3 DEF Try, Settled
  <2>5. pass' = pass /\ at' = at /\ search' = "middle"
    BY <2>4 DEF Lowers
  <2>6. Lowering(u, at)' => Lowering(u, at)
    BY <2>5 DEF Lowering, LowerValues, WithValue, Idle
  <2>7. LoweringHere(u)' => u = WithValue(at, 0)
    BY <2>5 DEF LoweringHere, WithValue, Idle
  <2> QED BY <1>2, <2>4, <2>5, <2>6, <2>7, EarlierStays DEF Behind
<1> QED BY <1>1, <1>3, <1>4, <1>5

\* The binary search tries values beyond those that are tried in any case.
LEMMA SearchGoesOn ==
  ASSUME ShrinkInv, TriesMiddle \/ TriesNextToMiddle, Idle, NEW u, Behind(u)'
  PROVE  Behind(u)
<1>1. /\ pass = "minimize" /\ search # "start" /\ pass' = pass /\ at' = at
      /\ search' # "start" /\ (search' = "steps" => part' = 1)
  BY DEF TriesMiddle, TriesNextToMiddle, TryValue, Try, Lowers
<1>2. Lowering(u, at)' => Lowering(u, at)
  BY <1>1 DEF Lowering, LowerValues, WithValue, Idle
<1>3. LoweringHere(u)' => u = WithValue(at, 0)
  BY <1>1 DEF LoweringHere, WithValue, Idle
<1> QED BY <1>1, <1>2, <1>3, EarlierStays DEF Behind, LoweringHere

LEMMA SingleStepGoesOn ==
  ASSUME ShrinkInv, SingleStep, Idle, NEW u, Behind(u)'
  PROVE  Behind(u) \/ Settled(u)
<1>1. at \in Nat /\ Len(current) \in Nat /\ current \in Seq(Nat) /\ part \in Nat \ {0}
  BY DEF ShrinkInv, CursorOK
<1>2. pass = "minimize" /\ search = "steps"
  BY DEF SingleStep
<1>3. CASE part > SingleSteps \/ at >= Len(current) \/ Value(at) < part
  <2>1. pass' = pass /\ at' = at + 1 /\ search' = "start"
    BY <1>3 DEF SingleStep, Moves, Goes
  <2>2. \A v \in LowerValues(at + 1) : at < Len(current) => LoweringHere(WithValue(at, v))
    <3> SUFFICES ASSUME NEW v \in LowerValues(at + 1), at < Len(current), v # 0
                 PROVE  LoweringHere(WithValue(at, v))
      BY <1>2 DEF LoweringHere
    <3>1. Value(at) \in Nat /\ v \in 0..Value(at) /\ Value(at) - v \in 1..SingleSteps
      BY <1>1 DEF LowerValues, Value
    <3>2. part > SingleSteps \/ Value(at) < part
      BY <1>1, <1>3
    <3>3. SingleSteps \in Nat
      BY ShrinkerAssumption
    <3>4. /\ Value(at) - v \in 1..(part - 1) /\ Value(at) - v <= Value(at)
          /\ v = Value(at) - (Value(at) - v)
      BY <1>1, <3>1, <3>2, <3>3, SMTT(60)
    <3> QED BY <1>2, <3>4 DEF LoweringHere
  <2>3. Lowering(u, at)' => Lowering(u, at) \/ LoweringHere(u) \/ ~IsSimpler(u, current)
    BY <2>1, <2>2, NextChoice
  <2>4. ~LoweringHere(u)'
    BY <2>1 DEF LoweringHere
  <2> QED BY <1>2, <2>1, <2>3, <2>4, EarlierStays DEF Behind, Settled
<1>4. CASE ~(part > SingleSteps \/ at >= Len(current) \/ Value(at) < part)
  <2> DEFINE lower == Value(at) - part
  <2>1. Value(at) \in Nat /\ ~(Value(at) <= lower)
    BY <1>1, <1>4 DEF Value
  <2>2. /\ Try(WithValue(at, lower), TRUE, TRUE)
        /\ part' = part + 1 /\ UNCHANGED <<pass, at, search, low, high>>
    BY <1>4, <2>1 DEF SingleStep, TryValue, Try, Idle, WithValue
  <2>3. Lowering(u, at)' => Lowering(u, at)
    BY <2>2 DEF Lowering, LowerValues, WithValue, Idle
  <2>4. LoweringHere(u)' => LoweringHere(u) \/ u = WithValue(at, lower)
    <3>1. \A k \in 1..(part' - 1) : k \in 1..(part - 1) \/ k = part
      BY <1>1, <2>2
    <3>2. at' = at /\ current' = current
      BY <2>2 DEF Idle
    <3>3. \A v : WithValue(at, v)' = WithValue(at, v)
      BY <3>2 DEF WithValue
    <3>4. LoweringHere(u)' =>
            \/ u = WithValue(at, 0)
            \/ \E k \in 1..(part' - 1) : k <= Value(at) /\ u = WithValue(at, Value(at) - k)
      BY <3>2, <3>3 DEF LoweringHere, WithValue, Value
    <3> QED BY <1>2, <3>1, <3>4 DEF LoweringHere
  <2> QED BY <1>2, <2>2, <2>3, <2>4, EarlierStays DEF Behind, Settled
<1> QED BY <1>3, <1>4

\* Neighbours in order are not swapped: that is not simpler.
LEMMA InOrderNotSimpler ==
  ASSUME current \in Seq(Nat), NEW i \in Nat, i + 1 < Len(current), Value(i) <= Value(i + 1)
  PROVE  ~IsSimpler(Swapped(i), current)
<1> DEFINE s == Swapped(i)
<1>1. /\ s \in Seq(Nat) /\ Len(s) = Len(current)
      /\ s[i + 1] = current[i + 2] /\ s[i + 2] = current[i + 1]
      /\ \A k \in 1..Len(current) : k # i + 1 /\ k # i + 2 => s[k] = current[k]
  BY SMTT(60) DEF Swapped
<1>2. current[i + 1] <= current[i + 2]
  BY DEF Value
<1>3. \A k \in DOMAIN current : current[k] \in Nat
  OBVIOUS
<1> HIDE DEF s
<1>4. i + 1 \in DOMAIN current /\ i + 2 \in DOMAIN current /\ DOMAIN s = 1..Len(current)
  BY <1>1
<1>5. ASSUME NEW k \in DOMAIN s, s[k] < current[k],
             \A m \in 1..(k - 1) : s[m] = current[m]
      PROVE  FALSE
  <2>1. k = i + 2
    BY <1>1, <1>2, <1>3, <1>4, <1>5, SMTT(60)
  <2>2. s[i + 1] = current[i + 1]
    BY <1>4, <1>5, <2>1
  <2> QED BY <1>1, <1>3, <1>4, <1>5, <2>1, <2>2
<1>6. ~IsSimpler(s, current)
  BY <1>1, <1>5, SMTT(60) DEF IsSimpler
<1> QED BY <1>6 DEF s

LEMMA SortGoesOn ==
  ASSUME ShrinkInv, SortNeighbours, Idle, NEW u, Behind(u)'
  PROVE  Behind(u) \/ Settled(u)
<1>1. at \in Nat /\ Len(current) \in Nat /\ current \in Seq(Nat)
  BY DEF ShrinkInv, CursorOK
<1>2. pass = "sort"
  BY DEF SortNeighbours
<1>3. CASE at + 1 >= Len(current)
  <2>1. pass' = "move" /\ at' = 0 /\ part' = 1
    BY <1>3 DEF SortNeighbours, Goes
  <2>2. ~Moving(u, at, part)'
    BY <1>1, <2>1 DEF Moving, Idle
  <2>3. Swapping(u, Len(current)) => Swapping(u, at)
    BY <1>1, <1>3 DEF Swapping
  <2> QED BY <1>2, <2>1, <2>2, <2>3, EarlierStays DEF Behind
<1>4. CASE ~(at + 1 >= Len(current))
  <2>1. pass' = pass /\ at' = at + 1
    BY <1>4 DEF SortNeighbours, Moves, Goes, Try, Idle
  <2>2. Swapping(u, at)' => Swapping(u, at) \/ u = Swapped(at)
    <3>1. \A j \in 0..(Len(current) - 2) : j < at + 1 => j < at \/ j = at
      BY <1>1
    <3> QED BY <2>1, <3>1 DEF Swapping, Swapped, Idle
  <2>3. Settled(Swapped(at))
    <3>1. CASE Value(at) <= Value(at + 1)
      <4>1. at + 1 < Len(current)
        BY <1>1, <1>4
      <4> QED BY <1>1, <3>1, <4>1, InOrderNotSimpler DEF Settled
    <3>2. CASE ~(Value(at) <= Value(at + 1))
      BY <1>4, <3>2 DEF SortNeighbours, Try, Idle, Settled
    <3> QED BY <3>1, <3>2
  <2> QED BY <1>2, <2>1, <2>2, <2>3, EarlierStays DEF Behind
<1> QED BY <1>3, <1>4

LEMMA MoveGoesOn ==
  ASSUME ShrinkInv, MoveBetweenNeighbours, Idle, NEW u, Behind(u)'
  PROVE  Behind(u) \/ Settled(u)
<1>1. /\ at \in Nat /\ Len(current) \in Nat /\ part \in Nat \ {0} /\ Reach \in Nat
      /\ MaxValue \in Nat
  BY ShrinkerAssumption DEF ShrinkInv, CursorOK
<1>2. pass = "move" /\ pass' = pass
  BY DEF MoveBetweenNeighbours, Moves, Goes, Try
<1>3. \A j, o : CanMove(j, o)' <=> CanMove(j, o)
  BY DEF CanMove, Value, Idle
<1>4. \A j, o : Moved(j, o)' = Moved(j, o)
  BY DEF Moved, Idle
<1>5. Moving(u, at, part)' =>
        \E j \in 0..(Len(current) - 1) : \E o \in 1..Reach :
          CanMove(j, o) /\ (j < at' \/ (j = at' /\ o < part')) /\ u = Moved(j, o)
  BY <1>3, <1>4 DEF Moving, Idle
<1>6. CASE \/ part > Reach \/ at + part >= Len(current)
           \/ Value(at) = 0 \/ Value(at + part) = MaxValue
  <2>1. at' = at + 1 /\ part' = 1
    BY <1>6 DEF MoveBetweenNeighbours, Moves, Goes
  <2>2. \A o \in 1..Reach : CanMove(at, o) => o < part
    <3> SUFFICES ASSUME NEW o \in 1..Reach, CanMove(at, o), ~(o < part) PROVE FALSE
      OBVIOUS
    <3>1. at + o < Len(current) /\ Value(at) > 0 /\ Value(at + part) < MaxValue
      BY <1>1 DEF CanMove
    <3> QED BY <1>1, <1>6, <3>1
  <2>3. \A j \in 0..(Len(current) - 1), o \in 1..Reach :
          j < at + 1 \/ (j = at + 1 /\ o < 1) => j < at \/ j = at
    BY <1>1
  <2>4. Moving(u, at, part)' => Moving(u, at, part)
    BY <1>5, <2>1, <2>2, <2>3 DEF Moving
  <2> QED BY <1>2, <2>4, EarlierStays DEF Behind
<1>7. CASE ~(\/ part > Reach \/ at + part >= Len(current)
             \/ Value(at) = 0 \/ Value(at + part) = MaxValue)
  <2>1. at' = at /\ part' = part + 1 /\ Try(Moved(at, part), TRUE, TRUE)
    BY <1>7 DEF MoveBetweenNeighbours, Moves, Goes, Try
  <2>2. \A o \in 1..Reach : o < part + 1 => o < part \/ o = part
    BY <1>1
  <2>3. Moving(u, at, part)' => Moving(u, at, part) \/ u = Moved(at, part)
    BY <1>5, <2>1, <2>2 DEF Moving
  <2> QED BY <1>2, <2>1, <2>3, EarlierStays DEF Behind, Settled
<1> QED BY <1>6, <1>7

\* Another try is of the same choices: its candidates are the same.
LEMMA NeighboursStay ==
  ASSUME current' = current
  PROVE  Neighbours' = Neighbours
<1>1. \A i, size : WithoutBlock(i, size)' = WithoutBlock(i, size)
  BY DEF WithoutBlock
<1>2. \A i : Swapped(i)' = Swapped(i)
  BY DEF Swapped
<1>3. \A i, o : Moved(i, o)' = Moved(i, o)
  BY DEF Moved
<1>4. \A i : LowerValues(i)' = LowerValues(i)
  BY DEF LowerValues
<1> QED BY <1>1, <1>2, <1>3, <1>4 DEF Neighbours

LEMMA RoundGoesOn ==
  ASSUME ShrinkInv, RoundInv, RoundEnds
  PROVE  RoundInv'
<1>1. /\ at \in Nat /\ Len(current) \in Nat
      /\ pass = "move" /\ (at >= Len(current) \/ Spent) /\ improved' = FALSE
      /\ UNCHANGED <<strategy, current, calls, verdicts>>
      /\ \A q \in DOMAIN BlockSizes : BlockSizes[q] \in Nat \ {0} /\ q \in Nat \ {0}
  BY ShrinkerAssumption, SMTT(60) DEF ShrinkInv, CursorOK, RoundEnds
<1> SUFFICES ASSUME ~Spent', NEW u \in Neighbours', Behind(u)'
             PROVE  NoHelp(u)'
  BY <1>1 DEF RoundInv
<1>2. ~Spent /\ at >= Len(current)
  BY <1>1 DEF Spent
<1>3. CASE improved
  <2>1. pass' = "delete" /\ at' = Len(current) /\ part' = 1
    BY <1>2, <1>3 DEF RoundEnds, Goes
  <2>2. ~Deletion(u, part, at)'
    BY <1>1, <2>1 DEF Deletion
  <2> QED BY <2>1, <2>2 DEF Behind
<1>4. CASE ~improved
  <2>1. pass' = "done"
    BY <1>4 DEF RoundEnds, Goes
  <2>2. u \in Neighbours
    BY <1>1, NeighboursStay
  <2>3. /\ Deletion(u, Len(BlockSizes) + 1, 0)' => Deletion(u, Len(BlockSizes) + 1, 0)
        /\ Lowering(u, Len(current))' => Lowering(u, Len(current))
        /\ Swapping(u, Len(current))' => Swapping(u, Len(current))
    BY <1>1 DEF Deletion, WithoutBlock, Lowering, LowerValues, WithValue, Swapping, Swapped
  <2>4. Moving(u, Len(current), 1)' => Moving(u, at, part)
    <3>1. \A j, o : CanMove(j, o)' <=> CanMove(j, o)
      BY <1>1 DEF CanMove, Value
    <3>2. \A j, o : Moved(j, o)' = Moved(j, o)
      BY <1>1 DEF Moved
    <3>3. \A j \in 0..(Len(current) - 1) : j < at
      BY <1>1, <1>2
    <3>4. Moving(u, Len(current), 1)' =>
            \E j \in 0..(Len(current) - 1) : \E o \in 1..Reach :
              CanMove(j, o) /\ u = Moved(j, o)
      BY <1>1, <3>1, <3>2 DEF Moving
    <3> QED BY <3>3, <3>4 DEF Moving
  <2>5. Behind(u)
    BY <1>1, <2>1, <2>3, <2>4 DEF Behind
  <2>6. NoHelp(u)
    BY <1>2, <1>4, <2>2, <2>5 DEF RoundInv
  <2> QED BY <1>1, <2>6 DEF NoHelp, Consumed
<1> QED BY <1>3, <1>4

LEMMA InitRound == Init => RoundInv
<1> SUFFICES ASSUME Init PROVE RoundInv
  OBVIOUS
<1>1. pass = "delete" /\ at = Len(current) /\ part = 1 /\ calls = 0
  BY DEF Init
<1>2. Len(current) \in Nat
  BY InitShrink DEF ShrinkInv
<1>3. \A u : ~Deletion(u, part, at)
  BY <1>1, <1>2, ShrinkerAssumption, SMTT(60) DEF Deletion
<1> QED BY <1>1, <1>3 DEF RoundInv, Behind

LEMMA StepRound == ShrinkInv /\ RoundInv /\ [Next]_vars => RoundInv'
<1> SUFFICES ASSUME ShrinkInv, RoundInv, [Next]_vars PROVE RoundInv'
  OBVIOUS
<1>1. CASE UNCHANGED vars
  <2>1. /\ UNCHANGED <<strategy, current, calls, improved, verdicts>>
        /\ UNCHANGED <<pass, at, part, search>>
    BY <1>1 DEF vars, cursor
  <2>2. \A u : NoHelp(u)' <=> NoHelp(u)
    BY <2>1 DEF NoHelp, Consumed
  <2>3. \A u : Behind(u)' => Behind(u)
    <3>1. \A u : Moving(u, at, part)' => Moving(u, at, part)
      BY <2>1 DEF Moving, Moved, CanMove, Value
    <3>2. \A u : Moving(u, Len(current), 1)' => Moving(u, Len(current), 1)
      BY <2>1 DEF Moving, Moved, CanMove, Value
    <3>3. \A u : Deletion(u, part, at)' => Deletion(u, part, at)
      BY <2>1 DEF Deletion, WithoutBlock
    <3>4. \A u : LoweringHere(u)' => LoweringHere(u)
      BY <2>1 DEF LoweringHere, WithValue, Value
    <3>5. \A u : Lowering(u, at)' => Lowering(u, at)
      BY <2>1 DEF Lowering, LowerValues, WithValue
    <3>6. \A u : Swapping(u, at)' => Swapping(u, at)
      BY <2>1 DEF Swapping, Swapped
    <3>7. \A u : /\ Deletion(u, Len(BlockSizes) + 1, 0)' => Deletion(u, Len(BlockSizes) + 1, 0)
                 /\ Lowering(u, Len(current))' => Lowering(u, Len(current))
                 /\ Swapping(u, Len(current))' => Swapping(u, Len(current))
      BY <2>1 DEF Deletion, WithoutBlock, Lowering, LowerValues, WithValue, Swapping, Swapped
    <3> QED BY <2>1, <3>1, <3>2, <3>3, <3>4, <3>5, <3>6, <3>7 DEF Behind
  <2> QED BY <2>1, <2>2, <2>3, NeighboursStay DEF RoundInv, Spent
<1>2. CASE RoundEnds
  BY <1>2, RoundGoesOn
<1>3. CASE Step /\ ~RoundEnds
  <2>1. PICK s \in Seq(Nat) : TriesOf(s)
    BY <1>3, DeleteStep, ZeroStep, PassesFollow, MinimizeStep, MiddleStep, NextToMiddleStep,
       SingleStepStep, SortStep, MoveStep DEF Step
  <2>2. strategy' = strategy /\ pass' # "done"
    BY <1>3 DEF Step, DeleteBlocks, DeleteBlocksEnds, ZeroBlocks, ZeroBlocksEnds,
       MinimizeStarts, TriesMiddle, TriesNextToMiddle, SingleStep, SortNeighbours,
       MoveBetweenNeighbours, TryValue, Try, Moves, Goes, Lowers
  <2>3. calls' \in Nat
    BY <2>1 DEF RoundInv, TriesOf, Try, NothingTried
  <2> SUFFICES ASSUME ~improved', ~Spent', NEW u \in Neighbours', Behind(u)'
               PROVE  NoHelp(u)'
    BY <2>2, <2>3 DEF RoundInv
  <2>4. Idle
    BY <2>1, <2>2, UnimprovedIsIdle DEF RoundInv
  <2>5. u \in Neighbours
    BY <2>4, NeighboursStay DEF Idle
  <2>6. Behind(u) \/ Settled(u)
    BY <1>3, <2>4, DeleteGoesOn, ZeroGoesOn, MinimizeGoesOn, SearchGoesOn, SingleStepGoesOn,
       SortGoesOn, MoveGoesOn DEF Step
  <2>7. Behind(u) => NoHelp(u)
    BY <2>4, <2>5 DEF RoundInv, Idle
  <2> QED BY <2>1, <2>4, <2>6, <2>7, KnownStays, TriedIsKnown
<1> QED BY <1>1, <1>2, <1>3 DEF Next, Terminated

\* At the end everything that is one step away is behind the cursor.
LEMMA AllBehindAtTheEnd ==
  ASSUME ShrinkInv, pass = "done", NEW u \in Neighbours
  PROVE  Behind(u)
<1>1. /\ current \in Seq(Nat) /\ Len(current) \in Nat /\ DOMAIN current = 1..Len(current)
      /\ Len(BlockSizes) \in Nat /\ DOMAIN BlockSizes = 1..Len(BlockSizes)
      /\ Reach \in Nat
  BY ShrinkerAssumption DEF ShrinkInv
<1>2. CASE \E b \in {c \in (0..Len(current)) \X ToSet(BlockSizes) : c[1] + c[2] <= Len(current)} :
             u = WithoutBlock(b[1], b[2])
  <2>1. PICK j \in 0..Len(current), size \in ToSet(BlockSizes) :
          j + size <= Len(current) /\ u = WithoutBlock(j, size)
    BY <1>2
  <2>2. PICK q \in DOMAIN BlockSizes : size = BlockSizes[q]
    BY <2>1 DEF ToSet
  <2>3. q < Len(BlockSizes) + 1
    BY <1>1
  <2>4. Deletion(u, Len(BlockSizes) + 1, 0)
    BY <2>1, <2>2, <2>3 DEF Deletion
  <2> QED BY <2>4 DEF Behind
<1>3. CASE \E i \in DOMAIN current : u \in {[current EXCEPT ![i] = v] : v \in LowerValues(i)}
  <2>1. PICK i \in DOMAIN current : \E v \in LowerValues(i) : u = [current EXCEPT ![i] = v]
    BY <1>3
  <2>2. i - 1 \in 0..(Len(current) - 1) /\ i - 1 < Len(current) /\ (i - 1) + 1 = i
    BY <1>1
  <2>3. Lowering(u, Len(current))
    BY <2>1, <2>2 DEF Lowering, WithValue
  <2> QED BY <2>3 DEF Behind
<1>4. CASE \E i \in 1..(Len(current) - 1) : u = Swapped(i - 1)
  <2>1. PICK i \in 1..(Len(current) - 1) : u = Swapped(i - 1)
    BY <1>4
  <2>2. i - 1 \in 0..(Len(current) - 2) /\ i - 1 < Len(current)
    BY <1>1
  <2>3. Swapping(u, Len(current))
    BY <2>1, <2>2 DEF Swapping
  <2> QED BY <2>3 DEF Behind
<1>5. CASE \E m \in {c \in (DOMAIN current) \X (1..Reach) :
                       /\ c[1] + c[2] \in DOMAIN current /\ current[c[1]] > 0
                       /\ \A k \in 1..c[2] : current[c[1] + k] < MaxValue} :
             u = Moved(m[1] - 1, m[2])
  <2>1. PICK i \in DOMAIN current, o \in 1..Reach :
          /\ i + o \in DOMAIN current /\ current[i] > 0
          /\ \A k \in 1..o : current[i + k] < MaxValue
          /\ u = Moved(i - 1, o)
    BY <1>5
  <2>2. /\ i - 1 \in 0..(Len(current) - 1) /\ i - 1 < Len(current) /\ (i - 1) + 1 = i
        /\ (i - 1) + o < Len(current)
    <3>1. i \in 1..Len(current) /\ o \in Nat /\ i + o \in 1..Len(current)
      BY <1>1, <2>1
    <3> QED BY ONLY Len(current) \in Nat, <3>1
  <2>3. \A k \in 1..o : (i - 1) + k + 1 = i + k
    BY <1>1
  <2>4. CanMove(i - 1, o)
    BY <2>1, <2>2, <2>3 DEF CanMove, Value
  <2>5. Moving(u, Len(current), 1)
    BY <2>1, <2>2, <2>4 DEF Moving
  <2> QED BY <2>5 DEF Behind
<1> QED BY <1>2, <1>3, <1>4, <1>5 DEF Neighbours

\* "Five passes repeat until none helps": whatever the property, the block
\* sizes and the budget, a shrinker that ends before its budget is spent has
\* tried every candidate that is one step from what it returns, and none of
\* them was a simpler failure.
THEOREM NothingHelpsAtTheEnd == Spec => []NothingHelps
<1>1. ShrinkInv /\ RoundInv => NothingHelps
  BY AllBehindAtTheEnd DEF NothingHelps, RoundInv
<1> QED BY InitShrink, InitRound, StepShrink, StepRound, <1>1, PTL DEF Spec
=============================================================================
