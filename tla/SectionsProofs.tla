--------------------------- MODULE SectionsProofs ---------------------------
(***************************************************************************)
(* Whatever is thrown where, however the sections and generators of a test *)
(* case are nested and whatever is filtered: no tracker is ever closed in  *)
(* a state that TrackerBase::close calls illogical.  This is for programs  *)
(* without GENERATE in a loop, where the trackers on the way to a          *)
(* statement follow the order of the text.                                 *)
(***************************************************************************)
EXTENDS Sections, FiniteSetTheorems, WellFoundedInduction, TLAPS

-----------------------------------------------------------------------------
(* The inductive invariant. *)

\* The first i nodes of a path.
UpTo(q, i) == SubSeq(q, 1, i)

\* The scope whose statements are executed while c is the current tracker,
\* and the node they come after.
ScopeOf(c) ==
  IF c = <<>> THEN Test ELSE IF IsSection(Last(c)) THEN Last(c) ELSE program.scope[Last(c)]
EndOf(c) == IF c = <<>> THEN Test ELSE Last(c)
Follows(c, n) == n \in Nodes /\ program.scope[n] = ScopeOf(c) /\ n > EndOf(c)

LiveStates == {"Executing", "ExecutingChildren", "NeedsAnotherRun"}
Live(q) == trackers[q].run \in LiveStates
Done(q) == Exists(q) /\ HasCompleted(trackers, q)

\* Of the statements that can follow c, those before x are done with.
Passed(c, x) == \A n \in Nodes : Follows(c, n) /\ n < x => Done(Append(c, n))
PassedAlong(q) == \A i \in 0..(Len(q) - 1) : Passed(UpTo(q, i), q[i + 1])

\* A section that is left to be entered again, and nothing around it is done.
Pending(q) ==
  /\ q # <<>> /\ IsSection(Last(q)) /\ IsOpen(trackers, q)
  /\ \A i \in 0..(Len(q) - 1) : ~HasCompleted(trackers, UpTo(q, i))

TreeOK ==
  /\ Exists(<<>>)
  /\ \A q \in DOMAIN trackers :
       /\ q \in Seq(Nodes)
       /\ "run" \in DOMAIN trackers[q]
       /\ \A i \in 0..Len(q) : Exists(UpTo(q, i))
       /\ q # <<>> => Follows(Front(q), Last(q))

\* The trackers on the way to the current one can be closed.
PathOK ==
  /\ Exists(current)
  /\ \A i \in 0..Len(current) : Live(UpTo(current, i)) /\ ~IsFilteredOut(UpTo(current, i))

\* The sections that are being executed are on that way, with nothing but
\* generators in between.
Outside(k) == IF k = 1 THEN <<>> ELSE active[k - 1]
Layer(k) ==
  /\ active[k] # <<>> /\ IsSection(Last(active[k]))
  /\ Len(active[k]) <= Len(current) /\ active[k] = UpTo(current, Len(active[k]))
  /\ program.scope[Last(active[k])] = EndOf(Outside(k))
  /\ \A j \in 1..(k - 1) : Len(active[j]) < Len(active[k])
  /\ \A i \in (Len(Outside(k)) + 1)..(Len(active[k]) - 1) : ~IsSection(active[k][i])
  /\ place[k] = Last(active[k]) + 1
StackOK ==
  /\ active \in Seq(Seq(Nodes))
  /\ place \in Seq(Nat) /\ Len(place) = Len(active) + 1
  /\ \A k \in DOMAIN active : Layer(k)

\* The body of a section: behind it come only generators, in its scope.
ScopeOK ==
  /\ ScopeOf(current) = Scope /\ \A n \in Ahead : n > EndOf(current)
  /\ \A i \in (Len(Closing) + 1)..Len(current) : ~IsSection(current[i])

\* Before a section of this cycle is left, what was passed is done with; and
\* afterwards, what is pending was passed.
WayOK ==
  /\ ~completed => PassedAlong(current) /\ Passed(current, Here)
  /\ completed =>
       \A q \in DOMAIN trackers :
         /\ Pending(q) /\ Len(q) > Len(current) /\ UpTo(q, Len(current)) = current
         => q[Len(current) + 1] < Here

\* Nothing that is pending was overtaken.
PendingOK == \A q \in DOMAIN trackers : Pending(q) => PassedAlong(q)

SectionsInv ==
  /\ program \in Programs /\ completed \in BOOLEAN
  /\ pc \in {"loop", "body", "unwinding", "ended"}
  /\ TreeOK /\ PendingOK
  /\ pc \in {"body", "unwinding"} => PathOK /\ StackOK
  /\ pc = "body" => ScopeOK /\ WayOK
  /\ pc = "loop" => active = <<>> /\ ~HasCompleted(trackers, <<>>)
  /\ ~illogical

-----------------------------------------------------------------------------
(* Lemmas about paths. *)

LEMMA NodesArePositive == Nodes \subseteq Nat \ {0}
<1>1. Cardinality(Nodes) \in Nat
  BY ProgramAssumption, FS_CardinalityType
<1> QED BY <1>1, ProgramAssumption

LEMMA UpToIs ==
  ASSUME NEW q \in Seq(Nodes), NEW i \in 0..Len(q)
  PROVE  /\ UpTo(q, i) \in Seq(Nodes) /\ Len(UpTo(q, i)) = i
         /\ \A k \in 1..i : UpTo(q, i)[k] = q[k]
         /\ \A j \in 0..i : UpTo(UpTo(q, i), j) = UpTo(q, j)
<1>1. /\ UpTo(q, i) \in Seq(Nodes) /\ Len(UpTo(q, i)) = i
      /\ \A k \in 1..i : UpTo(q, i)[k] = q[k]
  BY DEF UpTo
<1>2. ASSUME NEW j \in 0..i PROVE UpTo(UpTo(q, i), j) = UpTo(q, j)
  BY DEF UpTo
<1> QED BY <1>1, <1>2

\* The beginning of a beginning.
LEMMA UpToWithin ==
  ASSUME NEW q \in Seq(Nodes), NEW i \in 0..Len(q), NEW j \in 0..i
  PROVE  UpTo(UpTo(q, i), j) = UpTo(q, j)
BY UpToIs

LEMMA UpToAll ==
  ASSUME NEW q \in Seq(Nodes)
  PROVE  UpTo(q, Len(q)) = q
BY DEF UpTo

LEMMA UpToNone ==
  ASSUME NEW q \in Seq(Nodes)
  PROVE  UpTo(q, 0) = <<>>
BY DEF UpTo

LEMMA EmptyPath ==
  /\ <<>> \in Seq(Nodes) /\ Len(<<>>) = 0
  /\ \A i \in 0..Len(<<>>) : UpTo(<<>>, i) = <<>>
<1>1. <<>> \in Seq(Nodes) /\ Len(<<>>) = 0
  OBVIOUS
<1>2. UpTo(<<>>, 0) = <<>>
  BY <1>1, UpToNone
<1> QED BY <1>1, <1>2

LEMMA FrontIs ==
  ASSUME NEW q \in Seq(Nodes), q # <<>>
  PROVE  /\ Len(q) \in Nat \ {0} /\ Last(q) = q[Len(q)] /\ Last(q) \in Nodes
         /\ Front(q) = UpTo(q, Len(q) - 1) /\ Front(q) \in Seq(Nodes)
         /\ Len(Front(q)) = Len(q) - 1
         /\ Append(Front(q), Last(q)) = q
<1>1. Len(q) \in Nat \ {0} /\ q[Len(q)] \in Nodes
  OBVIOUS
<1>2. Front(q) \in Seq(Nodes) /\ Len(Front(q)) = Len(q) - 1
  <2>1. Len(q) - 1 \in 0..Len(q)
    BY <1>1
  <2> QED BY <2>1, UpToIs DEF Front, UpTo
<1>3. Append(Front(q), Last(q)) = q
  BY <1>1, <1>2 DEF Front, Last
<1> QED BY <1>1, <1>2, <1>3 DEF Front, Last, UpTo

LEMMA AppendIs ==
  ASSUME NEW c \in Seq(Nodes), NEW n \in Nodes
  PROVE  LET p == Append(c, n)
         IN  /\ p \in Seq(Nodes) /\ Len(p) = Len(c) + 1 /\ p # <<>>
             /\ Front(p) = c /\ Last(p) = n /\ p[Len(c) + 1] = n
             /\ UpTo(p, Len(c) + 1) = p
             /\ \A i \in 0..Len(c) : UpTo(p, i) = UpTo(c, i)
             /\ \A i \in 1..Len(c) : p[i] = c[i]
<1> DEFINE p == Append(c, n)
<1>1. /\ p \in Seq(Nodes) /\ Len(p) = Len(c) + 1 /\ p # <<>>
      /\ Front(p) = c /\ Last(p) = n /\ p[Len(c) + 1] = n
  BY DEF Front, Last
<1>2. UpTo(p, Len(c) + 1) = p
  BY <1>1, UpToAll
<1>3. \A i \in 1..Len(c) : p[i] = c[i]
  OBVIOUS
<1>4. ASSUME NEW i \in 0..Len(c) PROVE UpTo(p, i) = UpTo(c, i)
  BY DEF UpTo
<1> QED BY <1>1, <1>2, <1>3, <1>4

LEMMA PrefixIs ==
  ASSUME NEW s \in Seq(Nodes), NEW q \in Seq(Nodes)
  PROVE  /\ IsPrefix(s, q) <=> Len(s) <= Len(q) /\ s = UpTo(q, Len(s))
         /\ IsStrictPrefix(s, q) <=> Len(s) < Len(q) /\ s = UpTo(q, Len(s))
<1>1. SubSeq(s, 1, Len(s)) = s
  OBVIOUS
<1>2. Len(s) = Len(q) /\ s = UpTo(q, Len(s)) => s = q
  BY UpToAll
<1>3. Len(s) \in Nat /\ Len(q) \in Nat
  OBVIOUS
<1> QED BY <1>1, <1>2, <1>3 DEF IsPrefix, IsStrictPrefix, UpTo

\* The least of some numbers.
LEMMA MinIs ==
  ASSUME NEW S \in SUBSET Nat, S # {}
  PROVE  Min(S) \in S /\ \A k \in S : Min(S) <= k
<1>1. PICK i \in S : \A k \in S : <<k, i>> \notin OpToRel(<, Nat)
  BY NatLessThanWellFounded, WFMin
<1>2. \A k \in S : i <= k
  <2>1. \A k \in S : ~(k < i)
    BY <1>1 DEF OpToRel
  <2> QED BY <2>1
<1>3. \E m \in S : \A k \in S : m <= k
  BY <1>2
<1> QED BY <1>3 DEF Min

-----------------------------------------------------------------------------
(* Lemmas about the tree. *)

\* What does not change with the tree.
LEMMA ProgramStays ==
  ASSUME program' = program
  PROVE  /\ \A q : IsFilteredOut(q)' <=> IsFilteredOut(q)
         /\ \A n : IsSection(n)' <=> IsSection(n)
         /\ \A c : ScopeOf(c)' = ScopeOf(c)
         /\ \A c, n : Follows(c, n)' <=> Follows(c, n)
<1>1. \A n : IsSection(n)' <=> IsSection(n)
  BY DEF IsSection
<1>2. \A q : SectionsOf(q)' = SectionsOf(q)
  BY DEF SectionsOf, IsSection
<1>3. \A q : Depth(q)' = Depth(q)
  BY <1>2 DEF Depth
<1>4. \A d : (HasFilter(d)' <=> HasFilter(d)) /\ Filter(d)' = Filter(d)
  BY DEF HasFilter, Filter
<1>5. \A q : IsFilteredOut(q)' <=> IsFilteredOut(q)
  BY <1>1, <1>3, <1>4 DEF IsFilteredOut
<1>6. \A c : ScopeOf(c)' = ScopeOf(c)
  BY <1>1 DEF ScopeOf
<1>7. \A c, n : Follows(c, n)' <=> Follows(c, n)
  BY <1>6 DEF Follows, EndOf
<1> QED BY <1>1, <1>5, <1>6, <1>7

\* Nothing that is done is undone, and nothing of the tree goes.
Grows ==
  /\ program' = program
  /\ DOMAIN trackers \subseteq DOMAIN trackers'
  /\ \A q \in DOMAIN trackers : HasCompleted(trackers, q) => HasCompleted(trackers, q)'

\* What a step leaves of the tree it leaves with all that came before it.
KeepsEarlier ==
  \A q \in DOMAIN trackers' : \A i \in 0..(Len(q) - 1) : \A n \in Nodes :
    /\ Done(Append(UpTo(q, i), n))
    => Done(Append(UpTo(q, i), n))'

LEMMA GrowsKeeps ==
  ASSUME Grows
  PROVE  KeepsEarlier /\ \A q : Done(q) => Done(q)'
BY DEF Grows, KeepsEarlier, Done, Exists

\* Nothing that is pending is overtaken by a step that opens one section, new,
\* at most.
LEMMA PendingStays ==
  ASSUME TreeOK, TreeOK', PendingOK, program' = program, KeepsEarlier, NEW CONSTANT new,
         \A q \in DOMAIN trackers' :
           Exists(q) /\ HasCompleted(trackers, q) => HasCompleted(trackers, q)',
         \A q \in DOMAIN trackers' :
           q # <<>> /\ IsSection(Last(q)) /\ IsOpen(trackers, q)' /\ q # new
           => Exists(q) /\ IsOpen(trackers, q),
         Exists(new)' /\ Pending(new)' => PassedAlong(new)'
  PROVE  PendingOK'
<1> SUFFICES ASSUME NEW q \in DOMAIN trackers', Pending(q)', q # new
             PROVE  PassedAlong(q)'
  BY DEF PendingOK, Exists
<1>1. q # <<>> /\ IsSection(Last(q)) /\ Exists(q) /\ IsOpen(trackers, q)
  BY ProgramStays DEF Pending
<1>2. q \in Seq(Nodes) /\ Len(q) \in Nat
  BY DEF TreeOK
<1>3. Pending(q)
  <2> SUFFICES ASSUME NEW i \in 0..(Len(q) - 1), HasCompleted(trackers, UpTo(q, i))
               PROVE  FALSE
    BY <1>1 DEF Pending
  <2>1. i \in 0..Len(q)
    BY <1>2
  <2>2. UpTo(q, i) \in DOMAIN trackers' /\ Exists(UpTo(q, i))
    BY <1>1, <2>1 DEF TreeOK, Exists, UpTo
  <2>3. HasCompleted(trackers, UpTo(q, i))'
    BY <2>2 DEF UpTo
  <2> QED BY <2>3 DEF Pending, UpTo
<1>4. PassedAlong(q)
  BY <1>1, <1>3 DEF PendingOK, Exists
<1> QED BY <1>2, <1>4, ProgramStays DEF PassedAlong, Passed, KeepsEarlier, UpTo

\* A tracker that is opened where everything on the way to it can be closed.
LEMMA OpenIs ==
  ASSUME TreeOK, program' = program,
         NEW CONSTANT p \in Seq(Nodes),
         p # <<>> => Follows(Front(p), Last(p)),
         \A i \in 0..(Len(p) - 1) : Exists(UpTo(p, i)) /\ Live(UpTo(p, i)),
         Exists(p) => ~HasCompleted(trackers, p),
         NEW t, DOMAIN t = {p} \cup DOMAIN trackers, "run" \in DOMAIN t[p],
         \A q \in DOMAIN trackers : t[q] = trackers[q],
         trackers' = Open(t, p)
  PROVE  /\ TreeOK' /\ Grows
         /\ DOMAIN trackers' = {p} \cup DOMAIN trackers
         /\ trackers'[p].run = "Executing"
         /\ \A i \in 0..Len(p) : Live(UpTo(p, i))'
         /\ \A q \in DOMAIN trackers' :
              q # <<>> /\ IsSection(Last(q)) /\ IsOpen(trackers, q)' /\ q # p
              => Exists(q) /\ IsOpen(trackers, q)
<1>1. DOMAIN trackers' = {p} \cup DOMAIN trackers
  BY DEF Open
<1>2. "run" \in DOMAIN trackers'[p] /\ trackers'[p].run = "Executing"
  BY DEF Open
<1>3. \A q \in DOMAIN trackers : q # p =>
        /\ "run" \in DOMAIN trackers'[q]
        /\ \/ trackers'[q].run = trackers[q].run
           \/ Live(q) /\ trackers'[q].run = "ExecutingChildren"
  <2> SUFFICES ASSUME NEW q \in DOMAIN trackers, q # p
               PROVE  /\ "run" \in DOMAIN trackers'[q]
                      /\ \/ trackers'[q].run = trackers[q].run
                         \/ Live(q) /\ trackers'[q].run = "ExecutingChildren"
    OBVIOUS
  <2>1. "run" \in DOMAIN trackers[q] /\ q \in Seq(Nodes)
    BY DEF TreeOK
  <2>2. CASE q \in OpenedAbove(t, p)
    <3>1. trackers'[q] = [t[q] EXCEPT !.run = "ExecutingChildren"]
      BY <2>2 DEF Open
    <3>2. Len(q) < Len(p) /\ q = UpTo(p, Len(q))
      BY <2>1, <2>2, PrefixIs DEF OpenedAbove
    <3>3. Len(q) \in 0..(Len(p) - 1)
      BY <2>1, <3>2
    <3>4. Live(q)
      BY <3>2, <3>3
    <3> QED BY <2>1, <3>1, <3>4
  <2>3. CASE q \notin OpenedAbove(t, p)
    <3>1. trackers'[q] = trackers[q]
      BY <2>3 DEF Open
    <3> QED BY <2>1, <3>1
  <2> QED BY <2>2, <2>3
<1>4. \A q \in DOMAIN trackers : HasCompleted(trackers, q) => HasCompleted(trackers, q)'
  BY <1>3, ProgramStays DEF HasCompleted, Live, LiveStates, Exists
<1>5. Grows
  BY <1>1, <1>4 DEF Grows
<1>6. \A q \in DOMAIN trackers : q # p =>
        (IsOpen(trackers, q)' => IsOpen(trackers, q))
  BY <1>3, ProgramStays DEF IsOpen, HasCompleted, Live, LiveStates
<1>7. \A q \in DOMAIN trackers' :
        q # <<>> /\ IsSection(Last(q)) /\ IsOpen(trackers, q)' /\ q # p
        => Exists(q) /\ IsOpen(trackers, q)
  BY <1>1, <1>6 DEF Exists
<1>8. \A i \in 0..Len(p) : UpTo(p, i) \in DOMAIN trackers'
  <2> SUFFICES ASSUME NEW i \in 0..Len(p) PROVE UpTo(p, i) \in DOMAIN trackers'
    OBVIOUS
  <2>1. i = Len(p) \/ i \in 0..(Len(p) - 1)
    OBVIOUS
  <2> QED BY <1>1, <2>1, UpToAll DEF Exists
<1>9. \A i \in 0..Len(p) : Live(UpTo(p, i))'
  <2> SUFFICES ASSUME NEW i \in 0..Len(p) PROVE trackers'[UpTo(p, i)].run \in LiveStates
    BY DEF Live, LiveStates, UpTo
  <2>1. i = Len(p) \/ i \in 0..(Len(p) - 1)
    OBVIOUS
  <2> QED BY <1>2, <1>3, <2>1, UpToAll DEF Live, LiveStates, Exists
<1>10. TreeOK'
  <2> SUFFICES ASSUME NEW q \in DOMAIN trackers'
               PROVE  /\ q \in Seq(Nodes)
                      /\ "run" \in DOMAIN trackers'[q]
                      /\ \A i \in 0..Len(q) : UpTo(q, i) \in DOMAIN trackers'
                      /\ q # <<>> => Follows(Front(q), Last(q))
    BY <1>1, ProgramStays DEF TreeOK, Exists, UpTo
  <2> QED BY <1>1, <1>2, <1>3, <1>8 DEF TreeOK, Exists
<1> QED BY <1>1, <1>2, <1>5, <1>7, <1>9, <1>10

\* The current tracker is closed: it goes on as it is, is done, or starts
\* again with nothing below it.
LEMMA CloseIs ==
  ASSUME TreeOK, PathOK, program' = program, trackers' = Close(trackers, current)
  PROVE  /\ TreeOK' /\ KeepsEarlier
         /\ \A q \in DOMAIN trackers' :
              /\ Exists(q)
              /\ HasCompleted(trackers, q) => HasCompleted(trackers, q)'
              /\ IsOpen(trackers, q)' => IsOpen(trackers, q)
         /\ \A i \in 0..(Len(current) - 1) :
              /\ UpTo(current, i) \in DOMAIN trackers'
              /\ trackers'[UpTo(current, i)].run \in LiveStates
         /\ current \in DOMAIN trackers'
         /\ trackers'[current].run # "Failed"
<1> DEFINE t == trackers'
           run == RunStateOnClose(trackers, current)
           closed == [trackers EXCEPT ![current].run = run]
<1>1. /\ current \in DOMAIN trackers /\ current \in Seq(Nodes) /\ Len(current) \in Nat
      /\ "run" \in DOMAIN trackers[current] /\ Live(current)
  <2>1. current \in DOMAIN trackers /\ current \in Seq(Nodes) /\ Len(current) \in Nat
        /\ "run" \in DOMAIN trackers[current]
    BY DEF PathOK, TreeOK, Exists
  <2> QED BY <2>1, UpToAll DEF PathOK
<1>2. run = "CompletedSuccessfully" \/ run = trackers[current].run
  BY DEF RunStateOnClose
<1>3. /\ DOMAIN closed = DOMAIN trackers
      /\ "run" \in DOMAIN closed[current] /\ closed[current].run = run
      /\ \A q \in DOMAIN trackers : q # current => closed[q] = trackers[q]
  BY <1>1
<1>4. \/ t = closed
      \/ \E e : t = Restarted(closed, current, e)
  BY DEF Close
<1>5. /\ DOMAIN t \subseteq DOMAIN trackers /\ current \in DOMAIN t
      /\ \A q \in DOMAIN trackers : ~IsStrictPrefix(current, q) => q \in DOMAIN t
      /\ \/ DOMAIN t = DOMAIN trackers
         \/ \A q \in DOMAIN t : ~IsStrictPrefix(current, q)
      /\ \A q \in DOMAIN t : q # current => t[q] = trackers[q]
      /\ "run" \in DOMAIN t[current]
      /\ t[current].run = run \/ t[current].run = "Executing"
  <2>1. CASE t = closed
    <3> HIDE DEF run
    <3> QED BY <1>1, <1>3, <2>1
  <2>2. ASSUME NEW e, t = Restarted(closed, current, e)
        PROVE  /\ DOMAIN t = {q \in DOMAIN trackers : ~IsStrictPrefix(current, q)}
               /\ current \in DOMAIN t
               /\ \A q \in DOMAIN t : q # current => t[q] = trackers[q]
               /\ "run" \in DOMAIN t[current]
               /\ t[current].run = "Executing"
    <3>1. ~IsStrictPrefix(current, current)
      BY DEF IsStrictPrefix
    <3>2. /\ DOMAIN t = {q \in DOMAIN trackers : ~IsStrictPrefix(current, q)}
          /\ \A q \in DOMAIN t : t[q] = IF q = current THEN [run |-> "Executing", at |-> e]
                                        ELSE closed[q]
      BY <1>3, <2>2 DEF Restarted
    <3>3. current \in DOMAIN t /\ t[current] = [run |-> "Executing", at |-> e]
      BY <1>1, <3>1, <3>2
    <3> HIDE DEF closed
    <3> QED BY <1>1, <1>3, <3>1, <3>2, <3>3
  <2> HIDE DEF t, closed
  <2> QED BY <1>4, <2>1, <2>2
<1>6. \A q \in DOMAIN t :
        /\ HasCompleted(trackers, q) => HasCompleted(trackers, q)'
        /\ IsOpen(trackers, q)' => IsOpen(trackers, q)
  <2>1. t[current].run # "NotStarted" /\ Live(current)
    BY <1>1, <1>2, <1>5 DEF Live, LiveStates
  <2> QED BY <1>5, <2>1, ProgramStays DEF HasCompleted, IsOpen, Live, LiveStates
<1>7. \A q \in Seq(Nodes) : \A i \in 0..Len(q) :
        q \in DOMAIN t => UpTo(q, i) \in DOMAIN t
  <2> SUFFICES ASSUME NEW q \in Seq(Nodes), NEW i \in 0..Len(q), q \in DOMAIN t,
                      UpTo(q, i) \notin DOMAIN t
               PROVE  FALSE
    OBVIOUS
  <2>1. UpTo(q, i) \in DOMAIN trackers
    BY <1>5 DEF TreeOK, Exists
  <2>2. IsStrictPrefix(current, UpTo(q, i)) /\ ~IsStrictPrefix(current, q)
    BY <1>5, <2>1
  <2>3. UpTo(q, i) \in Seq(Nodes) /\ Len(UpTo(q, i)) = i
    BY UpToIs
  <2>4. Len(current) < i /\ current = UpTo(UpTo(q, i), Len(current))
    BY <1>1, <2>2, <2>3, PrefixIs
  <2>5. Len(current) \in 0..i /\ Len(current) < Len(q)
    BY <1>1, <2>4
  <2>6. current = UpTo(q, Len(current))
    BY <2>4, <2>5, UpToIs
  <2> QED BY <1>1, <2>2, <2>5, <2>6, PrefixIs
<1>8. TreeOK'
  <2>1. <<>> \in DOMAIN t
    <3>1. 0 \in 0..Len(current)
      BY <1>1
    <3> QED BY <1>1, <1>5, <1>7, <3>1, UpToNone
  <2> SUFFICES ASSUME NEW q \in DOMAIN t
               PROVE  /\ q \in Seq(Nodes)
                      /\ "run" \in DOMAIN t[q]
                      /\ \A i \in 0..Len(q) : UpTo(q, i) \in DOMAIN t
                      /\ q # <<>> => Follows(Front(q), Last(q))
    BY <2>1, ProgramStays DEF TreeOK, Exists, UpTo
  <2> QED BY <1>5, <1>7 DEF TreeOK, Exists
<1>9. KeepsEarlier
  <2> SUFFICES ASSUME NEW q \in DOMAIN t, NEW i \in 0..(Len(q) - 1), NEW n \in Nodes,
                      Done(Append(UpTo(q, i), n)), Append(UpTo(q, i), n) \notin DOMAIN t
               PROVE  FALSE
    BY <1>6 DEF KeepsEarlier, Done, Exists, UpTo
  <2> DEFINE p == Append(UpTo(q, i), n)
  <2>1. q \in Seq(Nodes) /\ i \in 0..Len(q) /\ Len(q) \in Nat
    BY <1>5 DEF TreeOK
  <2>2. UpTo(q, i) \in Seq(Nodes) /\ Len(UpTo(q, i)) = i
    BY <2>1, UpToIs
  <2>3. p \in Seq(Nodes) /\ Len(p) = i + 1 /\ \A j \in 0..i : UpTo(p, j) = UpTo(UpTo(q, i), j)
    BY <2>2, AppendIs
  <2>4. IsStrictPrefix(current, p) /\ ~IsStrictPrefix(current, q)
    BY <1>5 DEF Done, Exists
  <2> HIDE DEF p
  <2>5. Len(current) < i + 1 /\ current = UpTo(p, Len(current))
    BY <1>1, <2>3, <2>4, PrefixIs
  <2>6. Len(current) \in 0..i
    BY <1>1, <2>1, <2>5
  <2>7. current = UpTo(q, Len(current))
    BY <2>1, <2>3, <2>5, <2>6, UpToIs
  <2>8. Len(current) < Len(q)
    BY <2>1, <2>6
  <2> QED BY <1>1, <2>1, <2>4, <2>7, <2>8, PrefixIs
<1>10. \A i \in 0..(Len(current) - 1) :
         UpTo(current, i) \in DOMAIN t /\ t[UpTo(current, i)].run \in LiveStates
  <2> SUFFICES ASSUME NEW i \in 0..(Len(current) - 1)
               PROVE  UpTo(current, i) \in DOMAIN t /\ t[UpTo(current, i)].run \in LiveStates
    OBVIOUS
  <2>1. i \in 0..Len(current) /\ i < Len(current)
    BY <1>1
  <2>2. UpTo(current, i) \in DOMAIN t /\ Live(UpTo(current, i)) /\ UpTo(current, i) # current
    BY <1>1, <1>5, <1>7, <2>1, UpToIs DEF PathOK
  <2> QED BY <1>5, <2>2 DEF Live, LiveStates
<1>11. t[current].run # "Failed"
  BY <1>1, <1>2, <1>5 DEF Live, LiveStates
<1> QED BY <1>5, <1>6, <1>8, <1>9, <1>10, <1>11 DEF Exists

\* The innermost section fails, and what is around it runs once more.
LEMMA FailIs ==
  ASSUME TreeOK, program' = program, NEW CONSTANT p \in Seq(Nodes), p # <<>>,
         \A i \in 0..Len(p) : Exists(UpTo(p, i)) /\ Live(UpTo(p, i)),
         trackers' = Fail(trackers, p)
  PROVE  /\ TreeOK' /\ Grows
         /\ DOMAIN trackers' = DOMAIN trackers
         /\ \A q \in DOMAIN trackers' : IsOpen(trackers, q)' => IsOpen(trackers, q)
         /\ \A i \in 0..(Len(p) - 1) : trackers'[UpTo(p, i)].run \in LiveStates
<1>1. /\ p \in DOMAIN trackers /\ Live(p)
      /\ Front(p) \in DOMAIN trackers /\ Live(Front(p))
      /\ Front(p) # p /\ Len(p) \in Nat \ {0}
  <2>1. /\ Len(p) \in Nat \ {0} /\ Front(p) = UpTo(p, Len(p) - 1)
        /\ Len(Front(p)) = Len(p) - 1
    BY FrontIs
  <2>2. Len(p) \in 0..Len(p) /\ (Len(p) - 1) \in 0..Len(p)
    BY <2>1
  <2> QED BY <2>1, <2>2, UpToAll DEF Exists
<1>2. /\ DOMAIN trackers' = DOMAIN trackers
      /\ "run" \in DOMAIN trackers'[p] /\ trackers'[p].run = "Failed"
      /\ "run" \in DOMAIN trackers'[Front(p)] /\ trackers'[Front(p)].run = "NeedsAnotherRun"
      /\ \A q \in DOMAIN trackers : q # p /\ q # Front(p) => trackers'[q] = trackers[q]
  <2>1. "run" \in DOMAIN trackers[p] /\ "run" \in DOMAIN trackers[Front(p)]
    BY <1>1 DEF TreeOK
  <2>2. trackers' = [trackers EXCEPT ![p].run = "Failed", ![Front(p)].run = "NeedsAnotherRun"]
    BY DEF Fail
  <2> QED BY <1>1, <2>1, <2>2
<1>3. \A q \in DOMAIN trackers : HasCompleted(trackers, q) => HasCompleted(trackers, q)'
  BY <1>1, <1>2, ProgramStays DEF HasCompleted, Live, LiveStates
<1>4. \A q \in DOMAIN trackers : IsOpen(trackers, q)' => IsOpen(trackers, q)
  BY <1>1, <1>2, ProgramStays DEF HasCompleted, IsOpen, Live, LiveStates
<1>5. TreeOK'
  <2> SUFFICES ASSUME NEW q \in DOMAIN trackers'
               PROVE  /\ q \in Seq(Nodes)
                      /\ "run" \in DOMAIN trackers'[q]
                      /\ \A i \in 0..Len(q) : UpTo(q, i) \in DOMAIN trackers'
                      /\ q # <<>> => Follows(Front(q), Last(q))
    BY <1>2, ProgramStays DEF TreeOK, Exists, UpTo
  <2> QED BY <1>2 DEF TreeOK, Exists
<1>6. ASSUME NEW i \in 0..(Len(p) - 1) PROVE trackers'[UpTo(p, i)].run \in LiveStates
  <2>1. i \in 0..Len(p) /\ i # Len(p)
    BY <1>1
  <2>2. UpTo(p, i) \in DOMAIN trackers /\ Live(UpTo(p, i)) /\ UpTo(p, i) # p
    BY <2>1, UpToIs DEF Exists
  <2> QED BY <1>2, <2>2 DEF Live, LiveStates
<1> QED BY <1>2, <1>3, <1>4, <1>5, <1>6 DEF Grows

\* A section that is looked at gets a tracker.
LEMMA AcquireIs ==
  ASSUME TreeOK, program' = program, NEW CONSTANT p \in Seq(Nodes),
         p # <<>>, Exists(Front(p)), Follows(Front(p), Last(p)), trackers' = Acquired(p)
  PROVE  /\ TreeOK' /\ Grows
         /\ DOMAIN trackers' = {p} \cup DOMAIN trackers
         /\ \A q \in DOMAIN trackers : trackers'[q] = trackers[q]
         /\ \A q \in DOMAIN trackers' :
              IsOpen(trackers, q)' => Exists(q) /\ IsOpen(trackers, q)
<1>1. /\ DOMAIN trackers' = {p} \cup DOMAIN trackers
      /\ \A q \in DOMAIN trackers : trackers'[q] = trackers[q]
      /\ ~Exists(p) => trackers'[p] = NewTracker(0)
  BY DEF Acquired, AddTracker, Exists
<1>2. \A q \in DOMAIN trackers : HasCompleted(trackers, q) => HasCompleted(trackers, q)'
  BY <1>1, ProgramStays DEF HasCompleted
<1>3. \A q \in DOMAIN trackers' :
        IsOpen(trackers, q)' => Exists(q) /\ IsOpen(trackers, q)
  BY <1>1, ProgramStays DEF HasCompleted, IsOpen, NewTracker, Exists
<1>4. \A i \in 0..Len(p) : UpTo(p, i) \in DOMAIN trackers'
  <2> SUFFICES ASSUME NEW i \in 0..Len(p) PROVE UpTo(p, i) \in DOMAIN trackers'
    OBVIOUS
  <2>1. CASE i = Len(p)
    BY <1>1, <2>1, UpToAll
  <2>2. CASE i # Len(p)
    <3>1. /\ Front(p) = UpTo(p, Len(p) - 1) /\ Front(p) \in Seq(Nodes)
          /\ Len(Front(p)) = Len(p) - 1 /\ Len(p) \in Nat \ {0}
      BY FrontIs
    <3>2. i \in 0..(Len(p) - 1) /\ (Len(p) - 1) \in 0..Len(p)
      BY <2>2, <3>1
    <3>3. UpTo(UpTo(p, Len(p) - 1), i) = UpTo(p, i)
      BY ONLY p \in Seq(Nodes), <3>2, UpToWithin
    <3>4. UpTo(Front(p), i) \in DOMAIN trackers
      BY <3>1, <3>2 DEF TreeOK, Exists
    <3> QED BY <1>1, <3>1, <3>3, <3>4
  <2> QED BY <2>1, <2>2
<1>5. TreeOK'
  <2> SUFFICES ASSUME NEW q \in DOMAIN trackers'
               PROVE  /\ q \in Seq(Nodes)
                      /\ "run" \in DOMAIN trackers'[q]
                      /\ \A i \in 0..Len(q) : UpTo(q, i) \in DOMAIN trackers'
                      /\ q # <<>> => Follows(Front(q), Last(q))
    BY <1>1, ProgramStays DEF TreeOK, Exists, UpTo
  <2> QED BY <1>1, <1>4 DEF TreeOK, Exists, NewTracker
<1> QED BY <1>1, <1>2, <1>3, <1>5 DEF Grows

\* What is pending after a step that did not open it was so before.
LEMMA PendingBack ==
  ASSUME TreeOK, TreeOK', program' = program,
         NEW CONSTANT q \in DOMAIN trackers', Pending(q)', Exists(q), IsOpen(trackers, q),
         \A r \in DOMAIN trackers' :
           Exists(r) /\ HasCompleted(trackers, r) => HasCompleted(trackers, r)'
  PROVE  Pending(q)
<1>1. q # <<>> /\ IsSection(Last(q)) /\ q \in Seq(Nodes) /\ Len(q) \in Nat
  BY ProgramStays DEF Pending, TreeOK, Exists
<1> SUFFICES ASSUME NEW i \in 0..(Len(q) - 1), HasCompleted(trackers, UpTo(q, i))
             PROVE  FALSE
  BY <1>1 DEF Pending
<1>2. i \in 0..Len(q)
  BY <1>1
<1>3. UpTo(q, i) \in DOMAIN trackers' /\ Exists(UpTo(q, i))
  BY <1>2 DEF TreeOK, Exists, UpTo
<1>4. HasCompleted(trackers, UpTo(q, i))'
  BY <1>3 DEF UpTo
<1> QED BY <1>4 DEF Pending, UpTo

\* The sections that are being executed are paths.
LEMMA LayersArePaths ==
  ASSUME StackOK
  PROVE  /\ Len(active) \in Nat /\ DOMAIN active = 1..Len(active)
         /\ \A k \in 1..Len(active) :
              active[k] \in Seq(Nodes) /\ Len(active[k]) \in Nat /\ Layer(k)
<1>1. active \in Seq(Seq(Nodes))
  BY DEF StackOK
<1>2. Len(active) \in Nat /\ DOMAIN active = 1..Len(active)
  BY ONLY <1>1
<1>3. \A k \in 1..Len(active) : active[k] \in Seq(Nodes)
  BY ONLY <1>1
<1>4. \A k \in 1..Len(active) : Len(active[k]) \in Nat
  BY ONLY <1>3
<1>5. \A k \in 1..Len(active) : Layer(k)
  BY <1>2 DEF StackOK
<1> QED BY <1>2, <1>3, <1>4, <1>5

\* The innermost section that is being executed.
LEMMA ClosingIs ==
  ASSUME StackOK
  PROVE  /\ Len(active) \in Nat /\ Closing \in Seq(Nodes) /\ Len(Closing) \in Nat
         /\ Closing = Outside(Len(active) + 1) /\ Scope = EndOf(Closing)
         /\ active = <<>> => Closing = <<>>
         /\ active # <<>> => /\ Len(active) \in DOMAIN active /\ Closing # <<>>
                             /\ Closing = active[Len(active)] /\ Layer(Len(active))
<1>1. active \in Seq(Seq(Nodes)) /\ Len(active) \in Nat
  BY DEF StackOK
<1>2. CASE active = <<>>
  <2>1. Len(active) = 0 /\ Closing = <<>>
    BY <1>2 DEF Closing
  <2> QED BY <1>2, <2>1 DEF Scope, EndOf, Outside
<1>3. CASE active # <<>>
  <2>1. Len(active) \in DOMAIN active /\ Len(active) # 0
    BY <1>1, <1>3
  <2>2. Closing = active[Len(active)]
    BY <1>3 DEF Closing, Last
  <2>3. Closing # <<>> /\ Closing \in Seq(Nodes) /\ Layer(Len(active))
    BY <2>1, <2>2, LayersArePaths DEF Layer
  <2>4. Scope = EndOf(Closing)
    BY <1>3, <2>3 DEF Scope, Closing, EndOf
  <2>5. Len(active) + 1 # 1 /\ (Len(active) + 1) - 1 = Len(active)
    BY <1>1, <2>1
  <2>6. Closing = Outside(Len(active) + 1)
    BY <2>2, <2>5 DEF Outside
  <2>7. Len(Closing) \in Nat
    BY <2>3
  <2> QED BY <1>1, <1>3, <2>1, <2>2, <2>3, <2>4, <2>6, <2>7
<1> QED BY <1>2, <1>3

\* A section that goes on being executed.
LEMMA LayerStays ==
  ASSUME StackOK, program' = program, NEW CONSTANT k \in DOMAIN active,
         \A j \in 1..k : active'[j] = active[j],
         Len(active[k]) <= Len(current'), active[k] = UpTo(current', Len(active[k])),
         place'[k] = place[k]
  PROVE  Layer(k)'
<1>1. k \in Nat \ {0} /\ k \in 1..k /\ Layer(k)
  BY DEF StackOK
<1>2. k # 1 => k - 1 \in 1..k
  BY <1>1
<1>3. Outside(k)' = Outside(k)
  BY <1>2 DEF Outside
<1>4. EndOf(Outside(k))' = EndOf(Outside(k))
  BY <1>3 DEF EndOf
<1>5. \A j \in 1..(k - 1) : active'[j] = active[j]
  BY <1>1
<1>6. active'[k] = active[k]
  BY <1>1
<1>7. \A i \in (Len(Outside(k)) + 1)..(Len(active[k]) - 1) : ~IsSection(active[k][i])'
  BY <1>1, ProgramStays DEF Layer
<1> QED BY <1>1, <1>3, <1>4, <1>5, <1>6, <1>7, ProgramStays DEF Layer, UpTo

-----------------------------------------------------------------------------
(* Lemmas about the statement that is next. *)

LEMMA StatementIs ==
  ASSUME SectionsInv, AtStatement
  PROVE  /\ pc = "body" /\ PathOK /\ StackOK /\ ScopeOK /\ WayOK /\ TreeOK /\ PendingOK
         /\ current \in Seq(Nodes) /\ Len(current) \in Nat
         /\ Here \in Nat /\ Statement \in Nat /\ Statement \in Nodes /\ Here <= Statement
         /\ Follows(current, Statement) /\ program.scope[Statement] = Scope
         /\ \A n : Follows(current, n) /\ n >= Here => Statement <= n
<1>1. pc = "body" /\ PathOK /\ StackOK /\ ScopeOK /\ WayOK /\ TreeOK /\ PendingOK
  BY DEF SectionsInv, AtStatement
<1>2. current \in Seq(Nodes) /\ Len(current) \in Nat
  <2>1. current \in Seq(Nodes)
    BY <1>1 DEF PathOK, TreeOK, Exists
  <2> QED BY <2>1
<1>3. Here \in Nat
  <2>1. place \in Seq(Nat) /\ Len(place) = Len(active) + 1 /\ Len(active) \in Nat
    BY <1>1 DEF StackOK
  <2> QED BY <2>1 DEF Here, Last
<1>4. Ahead \subseteq Nat /\ Ahead # {}
  BY NodesArePositive DEF Ahead, AtStatement
<1>5. Statement \in Ahead /\ \A n \in Ahead : Statement <= n
  BY <1>4, MinIs DEF Statement
<1>6. /\ Statement \in Nat /\ Statement \in Nodes /\ Here <= Statement
      /\ program.scope[Statement] = Scope
  BY <1>3, <1>4, <1>5 DEF Ahead
<1>7. Follows(current, Statement)
  BY <1>1, <1>5, <1>6 DEF ScopeOK, Follows
<1>8. \A n : Follows(current, n) /\ n >= Here => Statement <= n
  BY <1>1, <1>5 DEF ScopeOK, Follows, Ahead
<1> QED BY <1>1, <1>2, <1>3, <1>6, <1>7, <1>8

\* The tracker of the next statement: all that leads to it is open, what
\* comes before it was passed, and nothing below it is pending any more
\* when no section is to open in this cycle.
LEMMA WayIs ==
  ASSUME SectionsInv, AtStatement, NEW p, p = Append(current, Statement)
  PROVE  /\ p \in Seq(Nodes) /\ p # <<>> /\ Len(p) = Len(current) + 1
         /\ Front(p) = current /\ Last(p) = Statement /\ Follows(Front(p), Last(p))
         /\ UpTo(p, Len(p)) = p
         /\ \A i \in 0..(Len(p) - 1) :
              /\ UpTo(p, i) = UpTo(current, i)
              /\ Exists(UpTo(p, i)) /\ Live(UpTo(p, i)) /\ ~IsFilteredOut(UpTo(p, i))
         /\ ~completed => PassedAlong(p)
         /\ completed => \A q \in DOMAIN trackers :
              Pending(q) => ~(Len(q) >= Len(p) /\ UpTo(q, Len(p)) = p)
<1>1. /\ PathOK /\ WayOK /\ TreeOK /\ Statement \in Nodes /\ Statement \in Nat
      /\ current \in Seq(Nodes) /\ Len(current) \in Nat /\ Here \in Nat
      /\ Follows(current, Statement) /\ Here <= Statement
      /\ \A n : Follows(current, n) /\ n >= Here => Statement <= n
  BY StatementIs
<1>2. /\ p \in Seq(Nodes) /\ Len(p) = Len(current) + 1 /\ p # <<>>
      /\ Front(p) = current /\ Last(p) = Statement /\ p[Len(current) + 1] = Statement
      /\ UpTo(p, Len(current) + 1) = p
      /\ \A i \in 0..Len(current) : UpTo(p, i) = UpTo(current, i)
      /\ \A i \in 1..Len(current) : p[i] = current[i]
  BY <1>1, AppendIs
<1>3. ASSUME NEW i \in 0..(Len(p) - 1)
      PROVE  /\ UpTo(p, i) = UpTo(current, i)
             /\ Exists(UpTo(p, i)) /\ Live(UpTo(p, i)) /\ ~IsFilteredOut(UpTo(p, i))
  <2>1. i \in 0..Len(current)
    BY <1>1, <1>2
  <2>2. Exists(UpTo(current, i)) /\ Live(UpTo(current, i)) /\ ~IsFilteredOut(UpTo(current, i))
    BY <1>1, <2>1 DEF PathOK, TreeOK, Exists
  <2> QED BY <1>2, <2>1, <2>2
<1>4. ASSUME ~completed PROVE PassedAlong(p)
  <2>1. PassedAlong(current) /\ Passed(current, Here)
    BY <1>1, <1>4 DEF WayOK
  <2>2. Passed(current, Statement)
    <3> SUFFICES ASSUME NEW n \in Nodes, Follows(current, n), n < Statement
                 PROVE  n < Here
      BY <2>1 DEF Passed
    <3> QED BY <1>1, NodesArePositive
  <2>3. UpTo(current, Len(current)) = current
    BY <1>1, UpToAll
  <2> SUFFICES ASSUME NEW i \in 0..(Len(p) - 1) PROVE Passed(UpTo(p, i), p[i + 1])
    BY DEF PassedAlong
  <2>4. CASE i = Len(current)
    BY <1>2, <1>3, <2>2, <2>3, <2>4
  <2>5. CASE i # Len(current)
    <3>1. i \in 0..(Len(current) - 1) /\ i + 1 \in 1..Len(current)
      BY <1>1, <1>2, <2>5
    <3> QED BY <1>2, <1>3, <2>1, <3>1 DEF PassedAlong
  <2> QED BY <2>4, <2>5
<1>5. ASSUME completed, NEW q \in DOMAIN trackers, Pending(q),
             Len(q) >= Len(p), UpTo(q, Len(p)) = p
      PROVE  FALSE
  <2>1. q \in Seq(Nodes) /\ Len(q) \in Nat
    BY <1>1 DEF TreeOK
  <2>2. Len(p) \in 0..Len(q) /\ Len(current) \in 0..Len(p) /\ Len(current) + 1 \in 1..Len(p)
    BY <1>1, <1>2, <1>5, <2>1
  <2>3. UpTo(q, Len(current)) = UpTo(p, Len(current))
    BY <1>5, <2>1, <2>2, UpToIs
  <2>4. UpTo(p, Len(current)) = current
    BY <1>1, <1>2, UpToAll
  <2>5. q[Len(current) + 1] = Statement
    BY <1>2, <1>5, <2>1, <2>2, UpToIs, SMTT(60)
  <2>6. Len(q) > Len(current)
    BY <1>1, <1>2, <1>5, <2>1
  <2>7. q[Len(current) + 1] < Here
    BY <1>1, <1>5, <2>3, <2>4, <2>6 DEF WayOK
  <2> QED BY <1>1, <2>5, <2>7
<1> QED BY <1>1, <1>2, <1>3, <1>4, <1>5

\* Without loops, a GENERATE that is next is its own tracker's.
LEMMA GeneratorIs ==
  ASSUME "again" \notin Kinds, SectionsInv, AtStatement, ~IsSection(Statement)
  PROVE  /\ GeneratorHere = Statement
         /\ GeneratorPath(GeneratorHere) = Append(current, Statement)
<1>1. /\ Statement \in Nat /\ Statement \in Nodes /\ program.scope[Statement] = Scope
      /\ Follows(current, Statement) /\ TreeOK /\ PathOK /\ current \in Seq(Nodes)
  BY StatementIs
<1>2. program.kind[Statement] = "generator"
  <2>1. program.kind \in [Nodes -> Kinds]
    BY DEF SectionsInv, Programs
  <2> QED BY <1>1, <2>1, ProgramAssumption DEF IsSection
<1> DEFINE G == {g \in Nodes : /\ g <= Statement /\ program.scope[g] = Scope
                               /\ program.kind[g] = "generator"}
<1>3. Statement \in G /\ \A g \in G : g \in Nat /\ Statement >= g
  BY <1>1, <1>2, NodesArePositive
<1>4. GeneratorHere = Statement
  <2>1. \A m \in G : (\A g \in G : m >= g) => m = Statement
    BY <1>3
  <2>2. GeneratorHere = CHOOSE m \in G : \A g \in G : m >= g
    BY DEF GeneratorHere, Max
  <2> HIDE DEF G
  <2> QED BY <1>3, <2>1, <2>2
<1>5. current # <<>> => Last(current) # Statement
  <2> SUFFICES ASSUME current # <<>> PROVE Last(current) # Statement
    OBVIOUS
  <2>1. Last(current) \in Nat
    BY <1>1, FrontIs, NodesArePositive
  <2> QED BY <1>1, <2>1 DEF Follows, EndOf
<1> QED BY <1>4, <1>5 DEF GeneratorPath

\* A section is entered.
LEMMA SectionIsEntered ==
  ASSUME SectionsInv, AtStatement, IsSection(Statement), ~completed,
         NEW CONSTANT p, p = Append(current, Statement), ~HasCompleted(Acquired(p), p),
         trackers' = Open(Acquired(p), p), current' = p, active' = Append(active, p),
         place' = Append([place EXCEPT ![Len(place)] = Statement + 1], 1),
         UNCHANGED <<program, completed, pc, illogical>>
  PROVE  SectionsInv'
<1>1. /\ pc = "body" /\ PathOK /\ StackOK /\ ScopeOK /\ WayOK /\ TreeOK /\ PendingOK
      /\ current \in Seq(Nodes) /\ Len(current) \in Nat
      /\ Statement \in Nat /\ Statement \in Nodes /\ program.scope[Statement] = Scope
  BY StatementIs
<1>2. /\ p \in Seq(Nodes) /\ p # <<>> /\ Len(p) = Len(current) + 1
      /\ Front(p) = current /\ Last(p) = Statement /\ Follows(Front(p), Last(p))
      /\ UpTo(p, Len(p)) = p
      /\ \A i \in 0..(Len(p) - 1) :
           /\ UpTo(p, i) = UpTo(current, i)
           /\ Exists(UpTo(p, i)) /\ Live(UpTo(p, i)) /\ ~IsFilteredOut(UpTo(p, i))
      /\ PassedAlong(p)
  BY WayIs
<1> DEFINE t == Acquired(p)
<1>3. /\ DOMAIN t = {p} \cup DOMAIN trackers /\ "run" \in DOMAIN t[p]
      /\ \A q \in DOMAIN trackers : t[q] = trackers[q]
      /\ Exists(p) => t = trackers
  BY <1>1 DEF Acquired, AddTracker, NewTracker, Exists, TreeOK
<1>4. Exists(p) => ~HasCompleted(trackers, p)
  BY <1>3
<1>5. /\ TreeOK' /\ Grows
      /\ DOMAIN trackers' = {p} \cup DOMAIN trackers
      /\ \A i \in 0..Len(p) : Live(UpTo(p, i))'
      /\ \A q \in DOMAIN trackers' :
           q # <<>> /\ IsSection(Last(q)) /\ IsOpen(trackers, q)' /\ q # p
           => Exists(q) /\ IsOpen(trackers, q)
  <2> HIDE DEF t
  <2>1. trackers' = Open(t, p)
    BY DEF t
  <2> QED BY <1>1, <1>2, <1>3, <1>4, <2>1, OpenIs
<1>6. KeepsEarlier /\ \A q : Done(q) => Done(q)'
  BY <1>5, GrowsKeeps
<1>7. PassedAlong(p)'
  BY <1>2, <1>6, ProgramStays DEF PassedAlong, Passed, UpTo
<1>8. PendingOK'
  BY <1>1, <1>5, <1>6, <1>7, PendingStays DEF Grows, Exists
<1>9. PathOK'
  <2>1. Exists(p)'
    BY <1>5 DEF Exists
  <2>2. ~IsFilteredOut(p)
    BY DEF HasCompleted
  <2>3. ASSUME NEW i \in 0..Len(p) PROVE ~IsFilteredOut(UpTo(p, i))
    <3>1. i = Len(p) \/ i \in 0..(Len(p) - 1)
      BY <1>1, <1>2
    <3> QED BY <1>2, <2>2, <3>1
  <2> QED BY <1>5, <2>1, <2>3, ProgramStays DEF PathOK, UpTo
<1>10. /\ active \in Seq(Seq(Nodes)) /\ active' \in Seq(Seq(Nodes))
       /\ Len(active) \in Nat /\ Len(active') = Len(active) + 1
       /\ active'[Len(active) + 1] = p
       /\ \A k \in 1..Len(active) : active'[k] = active[k]
       /\ place' \in Seq(Nat) /\ Len(place') = Len(active') + 1
       /\ \A k \in 1..Len(active) : place'[k] = place[k]
       /\ place'[Len(active) + 1] = Statement + 1
       /\ place'[Len(active) + 2] = 1
  BY <1>1, <1>2, SMTT(60) DEF StackOK
<1>11. Scope' = Statement /\ Closing' = p /\ Here' = 1
  BY <1>2, <1>10, SMTT(60) DEF Scope, Closing, Here, Last
<1>12. Closing = Outside(Len(active) + 1) /\ Scope = EndOf(Closing)
  BY <1>1, ClosingIs
<1>13. StackOK'
  <2>1. \A k \in 1..Len(active) : Layer(k) /\ Len(active[k]) \in Nat
    BY <1>1, LayersArePaths
  <2>2. ASSUME NEW k \in 1..Len(active) PROVE Layer(k)'
    <3>1. Len(active[k]) <= Len(current) /\ active[k] = UpTo(current, Len(active[k]))
      BY <2>1 DEF Layer
    <3>2. Len(active[k]) \in 0..(Len(p) - 1) /\ Len(active[k]) <= Len(p)
      BY <1>1, <1>2, <2>1, <3>1
    <3>3. k \in DOMAIN active /\ \A j \in 1..k : active'[j] = active[j]
      <4>1. k \in DOMAIN active
        BY <1>1, LayersArePaths
      <4>2. \A j \in 1..k : j \in 1..Len(active)
        BY <1>10
      <4> QED BY <1>10, <4>1, <4>2
    <3>4. active[k] = UpTo(p, Len(active[k]))
      BY <1>2, <3>1, <3>2
    <3> QED BY <1>1, <1>10, <3>2, <3>3, <3>4, LayerStays
  <2>3. ASSUME NEW k \in Nat, k = Len(active) + 1 PROVE Layer(k)'
    <3>1. active'[k] = p /\ place'[k] = Statement + 1
      BY <1>10, <2>3
    <3>2. Outside(k)' = Closing /\ Len(Closing) \in Nat
      <4>1. k # 1 => k - 1 \in 1..Len(active)
        BY <1>10, <2>3
      <4>2. k # 1 => active'[k - 1] = active[k - 1]
        BY <1>10, <4>1
      <4>3. Outside(k)' = Outside(k)
        BY <4>2 DEF Outside
      <4> QED BY <1>1, <2>3, <4>3, ClosingIs
    <3>3. program.scope[Last(p)] = EndOf(Closing) /\ EndOf(Outside(k))' = EndOf(Closing)
      BY <1>1, <1>2, <1>12, <3>2 DEF EndOf
    <3>4. \A j \in 1..(k - 1) : Len(active'[j]) < Len(p)
      <4> SUFFICES ASSUME NEW j \in 1..(k - 1) PROVE Len(active'[j]) < Len(p)
        OBVIOUS
      <4>1. j \in 1..Len(active)
        BY <1>10, <2>3
      <4>2. active'[j] = active[j] /\ Len(active[j]) <= Len(current) /\ Len(active[j]) \in Nat
        BY <1>10, <2>1, <4>1 DEF Layer
      <4> QED BY <1>1, <1>2, <4>2
    <3>5. ASSUME NEW i \in (Len(Closing) + 1)..(Len(p) - 1) PROVE ~IsSection(p[i])
      <4>1. i \in 1..Len(current) /\ i \in (Len(Closing) + 1)..Len(current)
        BY <1>1, <1>2, <3>2
      <4>2. p[i] = current[i]
        BY <1>1, <4>1, AppendIs
      <4> QED BY <1>1, <4>1, <4>2 DEF ScopeOK
    <3>6. p # <<>> /\ IsSection(Last(p)) /\ Len(p) <= Len(p) /\ p = UpTo(p, Len(p))
          /\ Last(p) = Statement
      BY <1>1, <1>2
    <3> QED BY <3>1, <3>2, <3>3, <3>4, <3>5, <3>6, ProgramStays DEF Layer, UpTo
  <2>4. DOMAIN active' = 1..(Len(active) + 1)
    BY <1>10
  <2> QED BY <1>10, <2>2, <2>3, <2>4 DEF StackOK
<1>14. ScopeOK'
  <2>1. ScopeOf(p) = Statement /\ EndOf(p) = Statement
    BY <1>2 DEF ScopeOf, EndOf
  <2>2. \A n \in Nodes : program.scope[n] = Statement => n > Statement
    <3> SUFFICES ASSUME NEW n \in Nodes, program.scope[n] = Statement
                 PROVE  n > Statement
      OBVIOUS
    <3>1. program.scope[n] < n
      BY DEF SectionsInv, Programs
    <3> QED BY <1>1, <3>1, NodesArePositive
  <2>3. \A n \in Ahead' : n > Statement
    BY <1>11, <2>2 DEF Ahead
  <2>4. ScopeOf(p)' = Scope' /\ EndOf(p)' = Statement
    BY <1>11, <2>1, ProgramStays DEF EndOf
  <2>5. \A i \in (Len(p) + 1)..Len(p) : FALSE
    BY <1>1, <1>2
  <2> QED BY <1>11, <2>3, <2>4, <2>5 DEF ScopeOK
<1>15. WayOK'
  <2>1. Passed(p, 1)'
    BY NodesArePositive DEF Passed
  <2> QED BY <1>7, <1>11, <2>1 DEF WayOK
<1> QED BY <1>1, <1>5, <1>8, <1>9, <1>13, <1>14, <1>15 DEF SectionsInv

\* The scope that is executed moves on.
LEMMA StepsOverIs ==
  ASSUME StackOK, StepsOver, Statement \in Nat, UNCHANGED <<program, active>>,
         \A k \in DOMAIN active :
           Len(active[k]) <= Len(current') /\ active[k] = UpTo(current', Len(active[k]))
  PROVE  /\ StackOK' /\ Here' = Statement + 1
         /\ Scope' = Scope /\ Closing' = Closing
<1>1. /\ active \in Seq(Seq(Nodes)) /\ Len(active) \in Nat
      /\ place \in Seq(Nat) /\ Len(place) = Len(active) + 1
  BY DEF StackOK
<1>2. /\ place' \in Seq(Nat) /\ Len(place') = Len(active) + 1
      /\ place'[Len(active) + 1] = Statement + 1
      /\ \A k \in 1..Len(active) : place'[k] = place[k]
  BY <1>1 DEF StepsOver
<1>3. ASSUME NEW k \in DOMAIN active PROVE Layer(k)'
  <2>1. k \in 1..Len(active)
    BY <1>1
  <2>2. place'[k] = place[k]
    BY <1>2, <2>1
  <2>3. \A j \in 1..k : active'[j] = active[j]
    OBVIOUS
  <2> QED BY <2>2, <2>3, LayerStays
<1>4. StackOK'
  BY <1>1, <1>2, <1>3 DEF StackOK
<1>5. Here' = Statement + 1
  BY <1>2 DEF Here, Last
<1> QED BY <1>4, <1>5 DEF Scope, Closing

\* The test goes on behind a statement that opened nothing.
LEMMA NothingIsEntered ==
  ASSUME SectionsInv, AtStatement, NEW CONSTANT p, p = Append(current, Statement),
         trackers' = Acquired(p), StepsOver,
         UNCHANGED <<program, current, completed, active, pc, illogical>>,
         ~completed => HasCompleted(Acquired(p), p)
  PROVE  SectionsInv'
<1>1. /\ pc = "body" /\ PathOK /\ StackOK /\ ScopeOK /\ WayOK /\ TreeOK /\ PendingOK
      /\ current \in Seq(Nodes) /\ Len(current) \in Nat
      /\ Here \in Nat /\ Statement \in Nat /\ Statement \in Nodes /\ Here <= Statement
      /\ Follows(current, Statement)
      /\ \A n : Follows(current, n) /\ n >= Here => Statement <= n
  BY StatementIs
<1>2. /\ p \in Seq(Nodes) /\ p # <<>>
      /\ Front(p) = current /\ Last(p) = Statement /\ Follows(Front(p), Last(p))
  BY WayIs
<1>3. Exists(Front(p))
  BY <1>1, <1>2 DEF PathOK
<1>4. /\ TreeOK' /\ Grows
      /\ DOMAIN trackers' = {p} \cup DOMAIN trackers
      /\ \A q \in DOMAIN trackers : trackers'[q] = trackers[q]
      /\ \A q \in DOMAIN trackers' :
           IsOpen(trackers, q)' => Exists(q) /\ IsOpen(trackers, q)
  BY <1>1, <1>2, <1>3, AcquireIs
<1>5. KeepsEarlier /\ \A q : Done(q) => Done(q)'
  BY <1>4, GrowsKeeps
<1>6. PendingOK'
  <2>1. ~Pending(<<>>)'
    BY DEF Pending
  <2> QED BY <1>1, <1>4, <1>5, <2>1, PendingStays DEF Grows, Exists
<1>7. PathOK'
  <2> SUFFICES ASSUME NEW i \in 0..Len(current)
               PROVE  trackers'[UpTo(current, i)].run \in LiveStates
                      /\ ~IsFilteredOut(UpTo(current, i))
    BY <1>1, <1>4, ProgramStays DEF PathOK, Exists, Live, LiveStates, UpTo
  <2>1. UpTo(current, i) \in DOMAIN trackers
    BY <1>1 DEF PathOK, TreeOK, Exists
  <2> QED BY <1>1, <1>4, <2>1 DEF PathOK, Live
<1>8. StackOK' /\ Here' = Statement + 1 /\ Scope' = Scope /\ Closing' = Closing
  <2>1. \A k \in DOMAIN active :
          Len(active[k]) <= Len(current) /\ active[k] = UpTo(current, Len(active[k]))
    BY <1>1 DEF StackOK, Layer
  <2> QED BY <1>1, <2>1, StepsOverIs
<1>9. ScopeOK'
  <2>1. \A n \in Ahead' : n \in Ahead
    <3> SUFFICES ASSUME NEW n \in Nodes, n >= Statement + 1 PROVE n >= Here
      BY <1>8 DEF Ahead
    <3> QED BY <1>1, NodesArePositive
  <2> QED BY <1>1, <1>8, <2>1, ProgramStays DEF ScopeOK, EndOf
<1>10. WayOK'
  <2>1. ASSUME ~completed PROVE PassedAlong(current)' /\ Passed(current, Here)'
    <3>1. PassedAlong(current) /\ Passed(current, Here)
      BY <1>1, <2>1 DEF WayOK
    <3>2. PassedAlong(current)'
      BY <1>5, <3>1, ProgramStays DEF PassedAlong, Passed, UpTo
    <3>3. Done(p)'
      BY <1>4, <2>1, ProgramStays DEF Done, Exists, HasCompleted
    <3>4. ASSUME NEW n \in Nodes, Follows(current, n), n < Statement + 1
          PROVE  Done(Append(current, n))'
      <4>1. n < Here \/ n = Statement
        BY <1>1, <3>4, NodesArePositive
      <4>2. CASE n < Here
        BY <1>5, <3>1, <3>4, <4>2 DEF Passed
      <4>3. CASE n = Statement
        BY <3>3, <4>3
      <4> QED BY <4>1, <4>2, <4>3
    <3>5. Passed(current, Here)'
      BY <1>8, <3>4, ProgramStays DEF Passed
    <3> QED BY <3>2, <3>5
  <2>2. ASSUME completed, NEW q \in DOMAIN trackers', Pending(q)',
               Len(q) > Len(current), UpTo(q, Len(current)) = current
        PROVE  q[Len(current) + 1] < Statement + 1
    <3>1. Exists(q) /\ IsOpen(trackers, q)
      BY <1>4, <2>2 DEF Pending
    <3>2. Pending(q)
      BY <1>1, <1>4, <2>2, <3>1, PendingBack DEF Grows, Exists
    <3>3. q[Len(current) + 1] < Here
      BY <1>1, <2>2, <3>1, <3>2 DEF WayOK, Exists
    <3>4. q[Len(current) + 1] \in Nat
      <4>1. q \in Seq(Nodes)
        BY <1>1, <3>1 DEF TreeOK, Exists
      <4>2. Len(current) + 1 \in 1..Len(q)
        BY <1>1, <2>2, <4>1
      <4>3. q[Len(current) + 1] \in Nodes
        BY <4>1, <4>2
      <4> QED BY <4>3, NodesArePositive
    <3> QED BY <1>1, <3>3, <3>4
  <2> QED BY <1>8, <2>1, <2>2 DEF WayOK, UpTo
<1> QED BY <1>1, <1>4, <1>6, <1>7, <1>8, <1>9, <1>10 DEF SectionsInv

\* A generator becomes the current tracker.
LEMMA GeneratorIsEntered ==
  ASSUME SectionsInv, AtStatement, ~IsSection(Statement),
         NEW CONSTANT p, p = Append(current, Statement), Exists(p) => ~HasCompleted(trackers, p),
         NEW t, DOMAIN t = {p} \cup DOMAIN trackers, "run" \in DOMAIN t[p],
         \A q \in DOMAIN trackers : t[q] = trackers[q],
         trackers' = Open(t, p), current' = p, StepsOver,
         UNCHANGED <<program, completed, active, pc, illogical>>
  PROVE  SectionsInv'
<1>1. /\ pc = "body" /\ PathOK /\ StackOK /\ ScopeOK /\ WayOK /\ TreeOK /\ PendingOK
      /\ current \in Seq(Nodes) /\ Len(current) \in Nat
      /\ Statement \in Nat /\ Statement \in Nodes /\ program.scope[Statement] = Scope
  BY StatementIs
<1>2. /\ p \in Seq(Nodes) /\ p # <<>> /\ Len(p) = Len(current) + 1
      /\ Front(p) = current /\ Last(p) = Statement /\ Follows(Front(p), Last(p))
      /\ UpTo(p, Len(p)) = p
      /\ \A i \in 0..(Len(p) - 1) :
           /\ UpTo(p, i) = UpTo(current, i)
           /\ Exists(UpTo(p, i)) /\ Live(UpTo(p, i)) /\ ~IsFilteredOut(UpTo(p, i))
      /\ ~completed => PassedAlong(p)
      /\ completed => \A q \in DOMAIN trackers :
           Pending(q) => ~(Len(q) >= Len(p) /\ UpTo(q, Len(p)) = p)
  BY WayIs, ZenonT(60)
<1>3. /\ TreeOK' /\ Grows
      /\ DOMAIN trackers' = {p} \cup DOMAIN trackers
      /\ \A i \in 0..Len(p) : Live(UpTo(p, i))'
      /\ \A q \in DOMAIN trackers' :
           q # <<>> /\ IsSection(Last(q)) /\ IsOpen(trackers, q)' /\ q # p
           => Exists(q) /\ IsOpen(trackers, q)
  BY <1>1, <1>2, OpenIs, ZenonT(60)
<1>4. KeepsEarlier /\ \A q : Done(q) => Done(q)'
  BY <1>3, GrowsKeeps
<1>5. ~Pending(p)'
  BY <1>2, ProgramStays DEF Pending
<1>6. PendingOK'
  BY <1>1, <1>3, <1>4, <1>5, PendingStays DEF Grows, Exists
<1>7. PathOK'
  <2>1. Exists(p)'
    BY <1>3 DEF Exists
  <2>2. ~IsFilteredOut(p)
    BY <1>2 DEF IsFilteredOut
  <2>3. ASSUME NEW i \in 0..Len(p) PROVE ~IsFilteredOut(UpTo(p, i))
    <3>1. i = Len(p) \/ i \in 0..(Len(p) - 1)
      BY <1>1, <1>2
    <3> QED BY <1>2, <2>2, <3>1
  <2> QED BY <1>3, <2>1, <2>3, ProgramStays DEF PathOK, UpTo
<1>8. StackOK' /\ Here' = Statement + 1 /\ Scope' = Scope /\ Closing' = Closing
  <2>1. ASSUME NEW k \in DOMAIN active
        PROVE  Len(active[k]) <= Len(p) /\ active[k] = UpTo(p, Len(active[k]))
    <3>1. /\ Len(active[k]) \in Nat /\ Len(active[k]) <= Len(current)
          /\ active[k] = UpTo(current, Len(active[k]))
      BY <1>1 DEF StackOK, Layer
    <3>2. Len(active[k]) \in 0..(Len(p) - 1) /\ Len(active[k]) <= Len(p)
      BY <1>1, <1>2, <3>1
    <3> QED BY <1>2, <3>1, <3>2
  <2> QED BY <1>1, <2>1, StepsOverIs
<1>9. ScopeOK'
  <2>1. ScopeOf(p) = Scope /\ EndOf(p) = Statement
    BY <1>1, <1>2 DEF ScopeOf, EndOf
  <2>2. \A n \in Ahead' : n > Statement
    <3> SUFFICES ASSUME NEW n \in Nodes, n >= Statement + 1 PROVE n > Statement
      BY <1>8 DEF Ahead
    <3> QED BY <1>1, NodesArePositive
  <2>3. ASSUME NEW i \in (Len(Closing) + 1)..Len(p) PROVE ~IsSection(p[i])
    <3>1. Len(Closing) \in Nat
      BY <1>1, ClosingIs
    <3>2. CASE i = Len(p)
      BY <1>1, <1>2, <3>2, AppendIs
    <3>3. CASE i # Len(p)
      <4>1. i \in 1..Len(current) /\ i \in (Len(Closing) + 1)..Len(current)
        BY <1>1, <1>2, <3>1, <3>3
      <4>2. p[i] = current[i]
        BY <1>1, <4>1, AppendIs
      <4> QED BY <1>1, <4>1, <4>2 DEF ScopeOK
    <3> QED BY <3>2, <3>3
  <2>4. ScopeOf(p)' = Scope' /\ EndOf(p)' = Statement
    BY <1>8, <2>1, ProgramStays DEF EndOf
  <2> QED BY <1>8, <2>2, <2>3, <2>4, ProgramStays DEF ScopeOK
<1>10. WayOK'
  <2>1. ASSUME ~completed PROVE PassedAlong(p)' /\ Passed(p, Here)'
    <3>1. PassedAlong(p)'
      BY <1>2, <1>4, <2>1, ProgramStays DEF PassedAlong, Passed, UpTo
    <3>2. ASSUME NEW n \in Nodes, Follows(p, n), n < Statement + 1 PROVE FALSE
      <4>1. n \in Nat /\ n > Statement
        BY <1>2, <3>2, NodesArePositive DEF Follows, EndOf
      <4> QED BY <1>1, <3>2, <4>1
    <3>3. Passed(p, Here)'
      BY <1>8, <3>2, ProgramStays DEF Passed
    <3> QED BY <3>1, <3>3
  <2>2. ASSUME completed, NEW q \in DOMAIN trackers', Pending(q)',
               Len(q) > Len(p), UpTo(q, Len(p)) = p
        PROVE  FALSE
    <3>1. q # p /\ q # <<>> /\ IsSection(Last(q)) /\ IsOpen(trackers, q)'
      BY <1>5, <2>2, ProgramStays DEF Pending
    <3>2. Exists(q) /\ IsOpen(trackers, q)
      BY <1>3, <3>1
    <3>3. Pending(q)
      BY <1>1, <1>3, <2>2, <3>2, PendingBack DEF Grows, Exists
    <3>4. Len(q) \in Nat
      BY <1>1, <3>2 DEF TreeOK, Exists
    <3> QED BY <1>1, <1>2, <2>2, <3>2, <3>3, <3>4 DEF Exists
  <2> QED BY <1>8, <2>1, <2>2 DEF WayOK, UpTo
<1> QED BY <1>1, <1>3, <1>6, <1>7, <1>8, <1>9, <1>10 DEF SectionsInv

-----------------------------------------------------------------------------
(* The steps. *)

LEMMA Initially ==
  ASSUME Init
  PROVE  SectionsInv
<1>1. DOMAIN trackers = {<<>>} /\ trackers[<<>>] = NewTracker(0)
  BY DEF Init
<1>2. TreeOK
  <2> QED BY <1>1, EmptyPath DEF TreeOK, Exists, NewTracker
<1>3. PendingOK
  BY <1>1 DEF PendingOK, Pending
<1>4. ~HasCompleted(trackers, <<>>)
  BY <1>1 DEF HasCompleted, IsFilteredOut, NewTracker
<1> QED BY <1>2, <1>3, <1>4 DEF SectionsInv, Init

LEMMA StartCycleKeeps ==
  ASSUME SectionsInv, StartCycle
  PROVE  SectionsInv'
<1>1. /\ TreeOK /\ PendingOK /\ active = <<>> /\ active' = <<>>
      /\ ~HasCompleted(trackers, <<>>) /\ Exists(<<>>)
      /\ trackers' = Open(trackers, <<>>) /\ program' = program
      /\ current' = <<>> /\ completed' = FALSE /\ place' = <<1>> /\ pc' = "body"
      /\ illogical' = illogical
  BY DEF SectionsInv, StartCycle, TreeOK
<1>2. <<>> \in Seq(Nodes) /\ Len(<<>>) = 0 /\ UpTo(<<>>, 0) = <<>>
  BY EmptyPath
<1>3. /\ TreeOK' /\ Grows
      /\ DOMAIN trackers' = {<<>>} \cup DOMAIN trackers
      /\ trackers'[<<>>].run = "Executing"
      /\ \A q \in DOMAIN trackers' :
           q # <<>> /\ IsSection(Last(q)) /\ IsOpen(trackers, q)' /\ q # <<>>
           => Exists(q) /\ IsOpen(trackers, q)
  <2>1. "run" \in DOMAIN trackers[<<>>] /\ DOMAIN trackers = {<<>>} \cup DOMAIN trackers
    BY <1>1 DEF TreeOK, Exists
  <2>2. \A i \in 0..(Len(<<>>) - 1) : Exists(UpTo(<<>>, i)) /\ Live(UpTo(<<>>, i))
    BY <1>2
  <2> QED BY <1>1, <1>2, <2>1, <2>2, OpenIs
<1>4. KeepsEarlier
  BY <1>3, GrowsKeeps
<1>5. PendingOK'
  <2>1. ~Pending(<<>>)'
    BY DEF Pending
  <2> QED BY <1>1, <1>3, <1>4, <2>1, PendingStays DEF Grows, Exists
<1>6. PathOK'
  <2>1. Live(<<>>)'
    BY <1>3 DEF Live, LiveStates
  <2>2. Exists(<<>>)' /\ ~IsFilteredOut(<<>>)'
    BY <1>3 DEF Exists, IsFilteredOut
  <2>3. \A i \in 0..Len(<<>>) : (UpTo(<<>>, i) = <<>>)'
    BY EmptyPath DEF UpTo
  <2> QED BY <1>1, <2>1, <2>2, <2>3 DEF PathOK
<1>7. StackOK'
  BY <1>1 DEF StackOK
<1>8. ScopeOK' /\ Here' = 1
  <2>1. Here' = 1 /\ Scope' = Test /\ Closing' = <<>>
    BY <1>1 DEF Here, Scope, Closing, Last
  <2>2. \A n \in Nodes : n > Test
    BY NodesArePositive DEF Test
  <2> QED BY <1>1, <1>2, <2>1, <2>2 DEF ScopeOK, ScopeOf, EndOf, Ahead
<1>9. WayOK'
  <2>1. \A n \in Nodes : ~(n < 1)
    BY NodesArePositive
  <2>2. Passed(<<>>, 1)' /\ PassedAlong(<<>>)'
    BY <1>2, <2>1 DEF Passed, PassedAlong
  <2> QED BY <1>1, <1>8, <2>2 DEF WayOK
<1> QED BY <1>1, <1>3, <1>5, <1>6, <1>7, <1>8, <1>9 DEF SectionsInv

LEMMA EnterSectionKeeps ==
  ASSUME SectionsInv, EnterSection
  PROVE  SectionsInv'
<1>1. PICK p : p = Append(current, Statement)
  OBVIOUS
<1>2. /\ AtStatement /\ IsSection(Statement)
      /\ Opens(p) \/ IsOpen(Acquired(p), p)
      /\ Opens(p) => trackers' = Open(Acquired(p), p) /\ current' = p
      /\ active' = Append(active, p)
      /\ place' = Append([place EXCEPT ![Len(place)] = Statement + 1], 1)
      /\ UNCHANGED <<program, completed, pc, illogical>>
  BY <1>1 DEF EnterSection
<1>3. completed \in BOOLEAN
  BY DEF SectionsInv
<1>4. Opens(p)
  <2> SUFFICES ASSUME ~Opens(p) PROVE FALSE
    OBVIOUS
  <2>1. IsOpen(Acquired(p), p)
    BY <1>2
  <2>2. Exists(p) /\ Acquired(p) = trackers
    BY <2>1 DEF Acquired, AddTracker, NewTracker, IsOpen
  <2>3. completed
    BY <1>3, <2>1 DEF Opens, IsOpen
  <2>4. /\ p \in Seq(Nodes) /\ p # <<>> /\ Last(p) = Statement /\ UpTo(p, Len(p)) = p
        /\ \A i \in 0..(Len(p) - 1) : Live(UpTo(p, i)) /\ ~IsFilteredOut(UpTo(p, i))
        /\ \A q \in DOMAIN trackers :
             Pending(q) => ~(Len(q) >= Len(p) /\ UpTo(q, Len(p)) = p)
    BY <1>1, <1>2, <2>3, WayIs
  <2>5. Pending(p)
    BY <1>2, <2>1, <2>2, <2>4 DEF Pending, HasCompleted, Live, LiveStates
  <2>6. Len(p) \in Nat
    BY <2>4
  <2> QED BY <2>2, <2>4, <2>5, <2>6 DEF Exists
<1>5. ~completed /\ ~HasCompleted(Acquired(p), p)
  BY <1>4 DEF Opens
<1> QED BY <1>1, <1>2, <1>4, <1>5, SectionIsEntered

LEMMA SkipSectionKeeps ==
  ASSUME SectionsInv, SkipSection
  PROVE  SectionsInv'
<1>1. PICK p : p = Append(current, Statement)
  OBVIOUS
<1>2. /\ AtStatement /\ ~Opens(p) /\ trackers' = Acquired(p) /\ StepsOver
      /\ UNCHANGED <<program, current, completed, active, pc, illogical>>
  BY <1>1 DEF SkipSection
<1>3. ~completed => HasCompleted(Acquired(p), p)
  BY <1>2 DEF Opens
<1> QED BY <1>1, <1>2, <1>3, NothingIsEntered

LEMMA AcquireGeneratorKeeps ==
  ASSUME "again" \notin Kinds, SectionsInv, AcquireGenerator
  PROVE  SectionsInv'
<1>1. AtStatement /\ ~IsSection(Statement)
  BY DEF AcquireGenerator
<1>2. PICK p : p = Append(current, Statement)
  OBVIOUS
<1>3. p = GeneratorPath(GeneratorHere)
  BY <1>1, <1>2, GeneratorIs
<1>4. /\ Exists(p) /\ StepsOver
      /\ IF HasCompleted(trackers, p) THEN UNCHANGED <<trackers, current>>
         ELSE trackers' = Open(trackers, p) /\ current' = p
      /\ UNCHANGED <<program, completed, active, pc, illogical>>
  BY <1>3 DEF AcquireGenerator, Returns
<1>5. CASE HasCompleted(trackers, p)
  <2>1. Acquired(p) = trackers
    BY <1>4 DEF Acquired
  <2> QED BY <1>1, <1>2, <1>4, <1>5, <2>1, NothingIsEntered
<1>6. CASE ~HasCompleted(trackers, p)
  <2>1. DOMAIN trackers = {p} \cup DOMAIN trackers /\ "run" \in DOMAIN trackers[p]
    BY <1>4 DEF SectionsInv, TreeOK, Exists
  <2> QED BY <1>1, <1>2, <1>4, <1>6, <2>1, GeneratorIsEntered
<1> QED BY <1>5, <1>6

LEMMA CreateGeneratorKeeps ==
  ASSUME "again" \notin Kinds, SectionsInv, CreateGenerator
  PROVE  SectionsInv'
<1>1. AtStatement /\ ~IsSection(Statement)
  BY DEF CreateGenerator
<1>2. PICK p : p = Append(current, Statement)
  OBVIOUS
<1>3. p = GeneratorPath(GeneratorHere)
  BY <1>1, <1>2, GeneratorIs
<1>4. PICK first : /\ ~Exists(p) /\ StepsOver
                   /\ trackers' = Open(AddTracker(p, first), p) /\ current' = p
                   /\ UNCHANGED <<program, completed, active, pc, illogical>>
  BY <1>3 DEF CreateGenerator, Returns
<1> DEFINE t == AddTracker(p, first)
<1>5. /\ DOMAIN t = {p} \cup DOMAIN trackers /\ "run" \in DOMAIN t[p]
      /\ \A q \in DOMAIN trackers : t[q] = trackers[q]
  BY <1>4 DEF AddTracker, NewTracker, Exists
<1>6. trackers' = Open(t, p)
  BY <1>4
<1> HIDE DEF t
<1> QED BY <1>1, <1>2, <1>4, <1>5, <1>6, GeneratorIsEntered

\* The trackers and the sections stay as they are.
LEMMA NothingMoves ==
  ASSUME TreeOK, PendingOK, UNCHANGED <<program, trackers, current, active, place>>
  PROVE  /\ TreeOK' /\ PendingOK' /\ (PathOK => PathOK') /\ (StackOK => StackOK')
         /\ \A q : Done(q) => Done(q)'
         /\ \A q \in DOMAIN trackers : Pending(q)' => Pending(q)
<1>1. TreeOK'
  BY ProgramStays DEF TreeOK, Exists, UpTo
<1>2. \A q \in DOMAIN trackers : HasCompleted(trackers, q)' <=> HasCompleted(trackers, q)
  BY ProgramStays DEF HasCompleted
<1>3. Grows
  BY <1>2 DEF Grows
<1>4. \A q \in DOMAIN trackers : IsOpen(trackers, q)' => IsOpen(trackers, q)
  BY <1>2 DEF IsOpen
<1>5. KeepsEarlier /\ \A q : Done(q) => Done(q)'
  BY <1>3, GrowsKeeps
<1>6. PendingOK'
  <2>1. ~Pending(<<>>)'
    BY DEF Pending
  <2> QED BY <1>1, <1>3, <1>4, <1>5, <2>1, PendingStays DEF Grows, Exists
<1>7. PathOK => PathOK'
  BY ProgramStays DEF PathOK, Exists, Live, LiveStates, UpTo
<1>8. StackOK => StackOK'
  <2>1. ASSUME StackOK, NEW k \in DOMAIN active PROVE Layer(k)'
    <3>1. /\ \A j \in 1..k : active'[j] = active[j]
          /\ Len(active[k]) <= Len(current') /\ active[k] = UpTo(current', Len(active[k]))
          /\ place'[k] = place[k]
      BY <2>1 DEF StackOK, Layer
    <3> QED BY <2>1, <3>1, LayerStays
  <2> QED BY <2>1 DEF StackOK
<1>9. ASSUME NEW q \in DOMAIN trackers, Pending(q)' PROVE Pending(q)
  <2>1. IsOpen(trackers, q)
    BY <1>4, <1>9 DEF Pending
  <2> QED BY <1>1, <1>2, <1>9, <2>1, PendingBack DEF Exists
<1> QED BY <1>1, <1>5, <1>6, <1>7, <1>8, <1>9

\* Something is thrown.
LEMMA ThrowKeeps ==
  ASSUME SectionsInv, pc = "body", pc' = "unwinding",
         UNCHANGED <<program, treeVars, stackVars, illogical>>
  PROVE  SectionsInv'
<1>1. /\ TreeOK /\ PendingOK /\ PathOK /\ StackOK /\ completed \in BOOLEAN
      /\ program \in Programs /\ ~illogical
  BY DEF SectionsInv
<1>2. UNCHANGED <<program, trackers, current, completed, active, place, illogical>>
  BY DEF treeVars, stackVars
<1>3. TreeOK' /\ PendingOK' /\ PathOK' /\ StackOK'
  BY <1>1, <1>2, NothingMoves
<1> QED BY <1>1, <1>2, <1>3 DEF SectionsInv

LEMMA NothingChanges ==
  ASSUME SectionsInv, UNCHANGED vars
  PROVE  SectionsInv'
<1>1. UNCHANGED <<program, trackers, current, completed, active, place, pc, illogical>>
  BY DEF vars, treeVars, stackVars
<1>2. /\ TreeOK' /\ PendingOK' /\ (PathOK => PathOK') /\ (StackOK => StackOK')
      /\ \A q : Done(q) => Done(q)'
      /\ \A q \in DOMAIN trackers : Pending(q)' => Pending(q)
  BY <1>1, NothingMoves DEF SectionsInv
<1>3. Scope' = Scope /\ Closing' = Closing /\ Here' = Here /\ Ahead' = Ahead
  BY <1>1 DEF Scope, Closing, Here, Ahead
<1>4. ScopeOK => ScopeOK'
  BY <1>1, <1>3, ProgramStays DEF ScopeOK, EndOf
<1>5. WayOK => WayOK'
  <2>1. PassedAlong(current) => PassedAlong(current)'
    BY <1>1, <1>2, ProgramStays DEF PassedAlong, Passed, UpTo
  <2>2. Passed(current, Here) => Passed(current, Here)'
    BY <1>1, <1>2, <1>3, ProgramStays DEF Passed
  <2> QED BY <1>1, <1>2, <1>3, <2>1, <2>2 DEF WayOK, UpTo
<1>6. ~HasCompleted(trackers, <<>>) => ~HasCompleted(trackers, <<>>)'
  BY <1>1, ProgramStays DEF HasCompleted
<1> QED BY <1>1, <1>2, <1>4, <1>5, <1>6 DEF SectionsInv

\* No tracker that is closed on the way is closed illogically.
LEMMA ClosesLive ==
  ASSUME TreeOK, PathOK, ~illogical, CloseTracker(current)
  PROVE  /\ ~illogical' /\ completed' = TRUE /\ trackers' = Close(trackers, current)
         /\ current \in Seq(Nodes) /\ Len(current) \in Nat /\ Exists(current)
         /\ \A i \in 0..Len(current) :
              Exists(UpTo(current, i)) /\ Live(UpTo(current, i)) /\ ~IsFilteredOut(UpTo(current, i))
         /\ ~Done(current)
<1>1. current \in Seq(Nodes) /\ Exists(current)
  BY DEF TreeOK, PathOK, Exists
<1>2. Len(current) \in Nat /\ UpTo(current, Len(current)) = current
  BY <1>1, UpToAll
<1>3. Live(current) /\ ~IsFilteredOut(current)
  BY <1>2 DEF PathOK
<1>4. \A i \in 0..Len(current) :
        Exists(UpTo(current, i)) /\ Live(UpTo(current, i)) /\ ~IsFilteredOut(UpTo(current, i))
  BY <1>1 DEF PathOK, TreeOK, Exists
<1> QED BY <1>1, <1>2, <1>3, <1>4 DEF CloseTracker, Live, LiveStates, Done, HasCompleted

\* Closing the current tracker overtakes nothing that is pending.
LEMMA CloseKeepsTree ==
  ASSUME TreeOK, PathOK, PendingOK, program' = program, trackers' = Close(trackers, current)
  PROVE  /\ TreeOK' /\ PendingOK'
         /\ \A q \in DOMAIN trackers' : Pending(q)' => Exists(q) /\ Pending(q)
<1>1. /\ TreeOK' /\ KeepsEarlier
      /\ \A q \in DOMAIN trackers' :
           /\ Exists(q)
           /\ HasCompleted(trackers, q) => HasCompleted(trackers, q)'
           /\ IsOpen(trackers, q)' => IsOpen(trackers, q)
  BY CloseIs
<1>2. PendingOK'
  <2>1. ~Pending(<<>>)'
    BY DEF Pending
  <2> QED BY <1>1, <2>1, PendingStays
<1>3. ASSUME NEW q \in DOMAIN trackers', Pending(q)' PROVE Exists(q) /\ Pending(q)
  <2>1. Exists(q) /\ IsOpen(trackers, q)
    BY <1>1, <1>3 DEF Pending
  <2> QED BY <1>1, <1>3, <2>1, PendingBack
<1> QED BY <1>1, <1>2, <1>3

\* The current tracker is the one before.
LEMMA PathGetsShorter ==
  ASSUME NEW c \in Seq(Nodes), c # <<>>, program' = program, current' = Front(c),
         \A i \in 0..(Len(c) - 1) :
           /\ UpTo(c, i) \in DOMAIN trackers' /\ trackers'[UpTo(c, i)].run \in LiveStates
           /\ ~IsFilteredOut(UpTo(c, i))
  PROVE  PathOK'
<1>1. /\ Len(c) \in Nat \ {0} /\ Front(c) = UpTo(c, Len(c) - 1) /\ Front(c) \in Seq(Nodes)
      /\ Len(Front(c)) = Len(c) - 1
  BY FrontIs
<1>2. Len(c) - 1 \in 0..(Len(c) - 1) /\ Len(c) - 1 \in 0..Len(c)
  BY <1>1
<1>3. \A i \in 0..(Len(c) - 1) : UpTo(Front(c), i) = UpTo(c, i)
  <2>1. \A i \in 0..(Len(c) - 1) : UpTo(UpTo(c, Len(c) - 1), i) = UpTo(c, i)
    BY ONLY c \in Seq(Nodes), <1>2, UpToWithin
  <2> QED BY ONLY <1>1, <2>1
<1>4. Exists(current)'
  BY <1>1, <1>2 DEF Exists
<1>5. \A i \in 0..Len(current') :
        trackers'[UpTo(current', i)].run \in LiveStates /\ ~IsFilteredOut(UpTo(current', i))
  BY <1>1, <1>3
<1> QED BY <1>4, <1>5, ProgramStays DEF PathOK, Live, LiveStates, UpTo

\* The sections that are longer than the path no more are left.
LEMMA StackGetsShorter ==
  ASSUME StackOK, program' = program, NEW CONSTANT c \in Seq(Nodes), c # <<>>, current' = Front(c),
         NEW CONSTANT m \in 0..Len(active),
         active' = SubSeq(active, 1, m), place' = SubSeq(place, 1, m + 1),
         \A k \in 1..m : Len(active[k]) < Len(c) /\ active[k] = UpTo(c, Len(active[k]))
  PROVE  StackOK'
<1>1. /\ active \in Seq(Seq(Nodes)) /\ Len(active) \in Nat /\ m \in Nat /\ m <= Len(active)
      /\ place \in Seq(Nat) /\ Len(place) = Len(active) + 1
  BY DEF StackOK
<1>2. /\ active' \in Seq(Seq(Nodes)) /\ Len(active') = m
      /\ \A k \in 1..m : active'[k] = active[k]
  BY <1>1, SMTT(60)
<1>3. /\ place' \in Seq(Nat) /\ Len(place') = m + 1
      /\ \A k \in 1..m : place'[k] = place[k]
  <2>1. PICK l \in Nat : l = m + 1
    BY <1>1
  <2>2. l <= Len(place) /\ 1..m \subseteq 1..l /\ place' = SubSeq(place, 1, l)
    BY <1>1, <2>1
  <2>3. place' \in Seq(Nat) /\ Len(place') = l /\ \A k \in 1..l : place'[k] = place[k]
    BY <1>1, <2>2, SMTT(60)
  <2> QED BY <2>1, <2>2, <2>3
<1>4. /\ Len(c) \in Nat \ {0} /\ Front(c) = UpTo(c, Len(c) - 1) /\ Len(Front(c)) = Len(c) - 1
  BY FrontIs
<1>5. ASSUME NEW k \in 1..m PROVE Layer(k)'
  <2>1. k \in DOMAIN active /\ active[k] \in Seq(Nodes)
    BY <1>1, LayersArePaths
  <2>2. Len(active[k]) \in 0..(Len(c) - 1) /\ Len(c) - 1 \in 0..Len(c)
    BY <1>4, <2>1
  <2>3. active[k] = UpTo(Front(c), Len(active[k]))
    <3>1. UpTo(UpTo(c, Len(c) - 1), Len(active[k])) = UpTo(c, Len(active[k]))
      BY <2>2, UpToIs
    <3> QED BY <1>4, <3>1
  <2>4. \A j \in 1..k : active'[j] = active[j]
    BY <1>2
  <2>5. Len(active[k]) <= Len(current') /\ active[k] = UpTo(current', Len(active[k]))
    BY <1>4, <2>2, <2>3
  <2>6. place'[k] = place[k]
    BY <1>3
  <2> QED BY <2>1, <2>4, <2>5, <2>6, LayerStays
<1>6. \A k \in DOMAIN active' : Layer(k)'
  BY <1>2, <1>5
<1> QED BY <1>2, <1>3, <1>6 DEF StackOK

\* The sections around the innermost one lead to it.
LEMMA SectionsGetLonger ==
  ASSUME StackOK, active # <<>>, current \in Seq(Nodes)
  PROVE  \A k \in 1..(Len(active) - 1) :
           Len(active[k]) < Len(Closing) /\ active[k] = UpTo(Closing, Len(active[k]))
<1>1. /\ Len(active) \in Nat /\ Len(active) \in DOMAIN active /\ Layer(Len(active))
      /\ Closing = active[Len(active)] /\ Closing \in Seq(Nodes) /\ Len(Closing) \in Nat
  BY ClosingIs
<1> SUFFICES ASSUME NEW k \in 1..(Len(active) - 1)
             PROVE  Len(active[k]) < Len(Closing) /\ active[k] = UpTo(Closing, Len(active[k]))
  OBVIOUS
<1>2. k \in DOMAIN active
  BY <1>1
<1>3. Layer(k) /\ active[k] \in Seq(Nodes)
  BY <1>2 DEF StackOK
<1>4. Len(active[k]) < Len(active[Len(active)])
  BY <1>1 DEF Layer
<1>5. Len(active[k]) < Len(Closing) /\ Len(active[k]) \in Nat
  BY <1>1, <1>3, <1>4
<1>6. Closing = UpTo(current, Len(Closing)) /\ Len(Closing) <= Len(current)
  BY <1>1 DEF Layer
<1>7. Len(Closing) \in 0..Len(current) /\ Len(active[k]) \in 0..Len(Closing)
  BY <1>1, <1>5, <1>6
<1>8. UpTo(UpTo(current, Len(Closing)), Len(active[k])) = UpTo(current, Len(active[k]))
  BY <1>7, UpToIs
<1>9. active[k] = UpTo(current, Len(active[k]))
  BY <1>3 DEF Layer
<1> QED BY <1>5, <1>6, <1>8, <1>9

LEMMA CloseOpenChildKeeps ==
  ASSUME SectionsInv, CloseOpenChild
  PROVE  SectionsInv'
<1>1. /\ pc \in {"body", "unwinding"} /\ TreeOK /\ PendingOK /\ PathOK /\ StackOK
      /\ program \in Programs /\ ~illogical
      /\ current # Closing /\ CloseTracker(current) /\ current' = Front(current)
      /\ UNCHANGED <<program, active, place, pc>>
  BY DEF SectionsInv, CloseOpenChild, Closes, BlockEnded, stackVars
<1>2. /\ ~illogical' /\ completed' = TRUE /\ trackers' = Close(trackers, current)
      /\ current \in Seq(Nodes) /\ Len(current) \in Nat /\ Exists(current)
      /\ \A i \in 0..Len(current) :
           Exists(UpTo(current, i)) /\ Live(UpTo(current, i)) /\ ~IsFilteredOut(UpTo(current, i))
  BY <1>1, ClosesLive
<1>3. /\ TreeOK' /\ PendingOK'
      /\ \A q \in DOMAIN trackers' : Pending(q)' => Exists(q) /\ Pending(q)
  BY <1>1, <1>2, CloseKeepsTree
<1>4. /\ active \in Seq(Seq(Nodes)) /\ Len(active) \in Nat
      /\ place \in Seq(Nat) /\ Len(place) = Len(active) + 1
      /\ Closing \in Seq(Nodes) /\ Len(Closing) \in Nat
      /\ active = <<>> => Closing = <<>>
      /\ active # <<>> => /\ Len(active) \in DOMAIN active
                          /\ Closing = active[Len(active)] /\ Layer(Len(active))
  BY <1>1, ClosingIs DEF StackOK
<1>5. Len(Closing) < Len(current) /\ current # <<>>
  <2>1. CASE active = <<>>
    BY <1>1, <1>2, <1>4, <2>1
  <2>2. CASE active # <<>>
    <3>1. Len(Closing) <= Len(current) /\ Closing = UpTo(current, Len(Closing))
      BY <1>4, <2>2 DEF Layer
    <3>2. Len(Closing) # Len(current)
      BY <1>1, <1>2, <3>1, UpToAll
    <3>3. Len(Closing) < Len(current)
      BY <1>2, <1>4, <3>1, <3>2
    <3> QED BY <1>2, <1>4, <3>3
  <2> QED BY <2>1, <2>2
<1>6. \A k \in 1..Len(active) :
        Len(active[k]) < Len(current) /\ active[k] = UpTo(current, Len(active[k]))
  <2> SUFFICES ASSUME NEW k \in 1..Len(active)
               PROVE  Len(active[k]) < Len(current) /\ active[k] = UpTo(current, Len(active[k]))
    OBVIOUS
  <2>1. k \in DOMAIN active /\ active # <<>> /\ Len(active[k]) \in Nat
    BY <1>4
  <2>2. Layer(k) /\ Layer(Len(active))
    BY <1>1, <1>4, <2>1 DEF StackOK
  <2>3. k = Len(active) \/ k \in 1..(Len(active) - 1)
    BY <1>4
  <2>4. Len(active[k]) <= Len(Closing)
    <3>1. k \in 1..(Len(active) - 1) => Len(active[k]) < Len(Closing)
      BY <1>1, <1>2, <2>1, SectionsGetLonger
    <3> QED BY <1>4, <2>1, <2>3, <3>1
  <2> QED BY <1>2, <1>4, <1>5, <2>1, <2>2, <2>4 DEF Layer
<1>7. /\ Len(current) \in Nat \ {0} /\ Last(current) = current[Len(current)]
      /\ Front(current) = UpTo(current, Len(current) - 1) /\ Front(current) \in Seq(Nodes)
      /\ Len(Front(current)) = Len(current) - 1 /\ Last(current) \in Nodes
  BY <1>2, <1>5, FrontIs
<1>8. PathOK'
  <2>1. PICK c \in Seq(Nodes) : c = current
    BY <1>2
  <2>2. ASSUME NEW i \in 0..(Len(c) - 1)
        PROVE  /\ UpTo(c, i) \in DOMAIN trackers' /\ trackers'[UpTo(c, i)].run \in LiveStates
               /\ ~IsFilteredOut(UpTo(c, i))
    <3>1. i \in 0..Len(c)
      BY <1>2, <2>1
    <3> QED BY <1>1, <1>2, <2>1, <3>1, CloseIs
  <2> QED BY <1>1, <1>5, <2>1, <2>2, PathGetsShorter
<1>9. StackOK'
  <2>1. PICK c \in Seq(Nodes), m \in 0..Len(active) : c = current /\ m = Len(active)
    BY <1>2, <1>4
  <2>2. active' = SubSeq(active, 1, m) /\ place' = SubSeq(place, 1, m + 1)
    BY <1>1, <1>4, <2>1
  <2> QED BY <1>1, <1>5, <1>6, <2>1, <2>2, StackGetsShorter
<1>10. ASSUME pc = "body" PROVE ScopeOK' /\ WayOK'
  <2>1. ScopeOK /\ Ahead = {}
    BY <1>1, <1>10 DEF SectionsInv, CloseOpenChild, Closes, BlockEnded
  <2>2. ~IsSection(Last(current))
    <3>1. Len(current) \in (Len(Closing) + 1)..Len(current)
      BY <1>4, <1>5, <1>7
    <3> QED BY <1>7, <2>1, <3>1 DEF ScopeOK
  <2>3. ScopeOf(Front(current)) = Scope
    <3>1. Follows(Front(current), Last(current))
      BY <1>1, <1>2, <1>5 DEF TreeOK, Exists
    <3>2. ScopeOf(current) = program.scope[Last(current)]
      BY <1>5, <2>2 DEF ScopeOf
    <3> QED BY <2>1, <3>1, <3>2 DEF ScopeOK, Follows
  <2>4. Scope' = Scope /\ Closing' = Closing /\ Here' = Here /\ Ahead' = {}
    BY <1>1, <2>1 DEF Scope, Closing, Here, Ahead
  <2>5. ScopeOK'
    <3>2. ScopeOf(current') = Scope
      BY <1>1, <2>3
    <3>3. \A i \in (Len(Closing) + 1)..Len(current') : ~IsSection(current'[i])
      <4> SUFFICES ASSUME NEW i \in (Len(Closing) + 1)..(Len(current) - 1)
                   PROVE  ~IsSection(Front(current)[i])
        BY <1>1, <1>7
      <4>1. i \in (Len(Closing) + 1)..Len(current) /\ i \in 1..(Len(current) - 1)
            /\ Len(current) - 1 \in 0..Len(current)
        BY <1>4, <1>7
      <4>2. Front(current)[i] = current[i]
        <5>1. \A k \in 1..(Len(current) - 1) : UpTo(current, Len(current) - 1)[k] = current[k]
          BY <1>2, <4>1, UpToIs
        <5> QED BY <1>7, <4>1, <5>1
      <4> QED BY <2>1, <4>1, <4>2 DEF ScopeOK
    <3> QED BY <1>1, <2>4, <3>2, <3>3, ProgramStays DEF ScopeOK
  <2>6. ASSUME NEW q \in DOMAIN trackers', Pending(q)', Len(q) > Len(current'),
               UpTo(q, Len(current')) = current'
        PROVE  q[Len(current') + 1] < Here
    <3> DEFINE l == Len(current)
    <3>1. Exists(q) /\ q \in Seq(Nodes) /\ Len(q) \in Nat
      BY <1>1, <1>3, <2>6 DEF TreeOK, Exists
    <3>2. l \in 1..Len(q) /\ l \in 0..Len(q) /\ l \in 1..l /\ l - 1 \in 0..l /\ l # 0
      BY <1>1, <1>7, <2>6, <3>1
    <3>3. PICK r \in Seq(Nodes) : r = UpTo(q, l) /\ Len(r) = l /\ r[l] = q[l]
      BY <3>1, <3>2, UpToIs
    <3>4. Exists(r) /\ r # <<>>
      BY <1>1, <3>1, <3>2, <3>3 DEF TreeOK, Exists
    <3>5. Front(r) = Front(current) /\ Last(r) = q[l]
      <4>1. Front(r) = UpTo(r, l - 1) /\ Last(r) = r[l]
        BY <3>3, <3>4, FrontIs
      <4>2. UpTo(r, l - 1) = UpTo(q, l - 1)
        BY <3>1, <3>2, <3>3, UpToIs
      <4> QED BY <1>1, <1>7, <2>6, <3>3, <4>1, <4>2
    <3>6. Follows(Front(current), q[l])
      BY <1>1, <3>4, <3>5 DEF TreeOK, Exists
    <3>7. q[l] \in Nodes /\ program.scope[q[l]] = Scope
      BY <2>3, <3>6 DEF Follows
    <3>8. ~(q[l] >= Here) /\ q[l] \in Nat
      BY <2>1, <3>7, NodesArePositive DEF Ahead
    <3>9. Here \in Nat
      BY <1>4 DEF Here, Last
    <3>10. Len(current') + 1 = l
      BY <1>1, <1>7
    <3> QED BY <3>8, <3>9, <3>10
  <2>7. WayOK'
    BY <1>2, <2>4, <2>6 DEF WayOK, UpTo
  <2> QED BY <2>5, <2>7
<1> QED BY <1>1, <1>2, <1>3, <1>8, <1>9, <1>10 DEF SectionsInv

LEMMA LeaveSectionKeeps ==
  ASSUME SectionsInv, LeaveSection
  PROVE  SectionsInv'
<1>1. /\ pc = "body" /\ TreeOK /\ PendingOK /\ PathOK /\ StackOK
      /\ program \in Programs /\ ~illogical
      /\ active # <<>> /\ current = Closing /\ CloseTracker(current) /\ current' = Front(current)
      /\ active' = Front(active) /\ place' = Front(place)
      /\ program' = program /\ pc' = pc
  BY DEF SectionsInv, LeaveSection, BlockEnded
<1>2. /\ ~illogical' /\ completed' = TRUE /\ trackers' = Close(trackers, current)
      /\ current \in Seq(Nodes) /\ Len(current) \in Nat /\ Exists(current)
      /\ \A i \in 0..Len(current) :
           Exists(UpTo(current, i)) /\ Live(UpTo(current, i)) /\ ~IsFilteredOut(UpTo(current, i))
      /\ ~Done(current)
  BY <1>1, ClosesLive
<1>3. /\ TreeOK' /\ PendingOK'
      /\ \A q \in DOMAIN trackers' : Pending(q)' => Exists(q) /\ Pending(q)
  BY <1>1, <1>2, CloseKeepsTree
<1>4. /\ active \in Seq(Seq(Nodes)) /\ Len(active) \in Nat
      /\ place \in Seq(Nat) /\ Len(place) = Len(active) + 1
      /\ Len(active) \in DOMAIN active /\ current # <<>>
      /\ current = active[Len(active)] /\ Layer(Len(active))
  BY <1>1, ClosingIs DEF StackOK
<1>5. /\ Len(current) \in Nat \ {0} /\ Last(current) = current[Len(current)]
      /\ Front(current) = UpTo(current, Len(current) - 1) /\ Front(current) \in Seq(Nodes)
      /\ Len(Front(current)) = Len(current) - 1 /\ Last(current) \in Nodes
      /\ Append(Front(current), Last(current)) = current
      /\ Follows(Front(current), Last(current))
  BY <1>1, <1>2, <1>4, FrontIs DEF TreeOK, Exists
<1>6. PathOK'
  <2>1. PICK c \in Seq(Nodes) : c = current
    BY <1>2
  <2>2. ASSUME NEW i \in 0..(Len(c) - 1)
        PROVE  /\ UpTo(c, i) \in DOMAIN trackers' /\ trackers'[UpTo(c, i)].run \in LiveStates
               /\ ~IsFilteredOut(UpTo(c, i))
    <3>1. i \in 0..Len(c)
      BY <1>2, <2>1
    <3> QED BY <1>1, <1>2, <2>1, <3>1, CloseIs
  <2> QED BY <1>1, <1>4, <2>1, <2>2, PathGetsShorter
<1>7. StackOK'
  <2>1. PICK c \in Seq(Nodes), m \in 0..Len(active) : c = current /\ m = Len(active) - 1
    <3>1. Len(active) - 1 \in 0..Len(active)
      BY <1>4
    <3> QED BY <1>2, <3>1
  <2>2. active' = SubSeq(active, 1, m) /\ place' = SubSeq(place, 1, m + 1)
    BY <1>1, <1>4, <2>1 DEF Front
  <2>3. \A k \in 1..m : Len(active[k]) < Len(c) /\ active[k] = UpTo(c, Len(active[k]))
    BY <1>1, <1>2, <2>1, SectionsGetLonger
  <2> QED BY <1>1, <1>4, <2>1, <2>2, <2>3, StackGetsShorter
<1>8. Closing' = Outside(Len(active)) /\ Scope' = EndOf(Outside(Len(active)))
  <2>1. PICK m \in Nat : m = Len(active)
    BY <1>4
  <2>2. Len(active') = m - 1 /\ \A k \in 1..(m - 1) : active'[k] = active[k]
    BY <1>1, <1>4, <2>1 DEF Front
  <2>3. active' \in Seq(Seq(Nodes)) /\ m # 0
    BY <1>4, <1>7, <2>1 DEF StackOK
  <2>4. Closing' = Outside(m)' /\ Scope' = EndOf(Outside(m)')
    <3>1. CASE m = 1
      <4>1. active' = <<>>
        BY <2>2, <2>3, <3>1
      <4> QED BY <3>1, <4>1 DEF Closing, Scope, Outside, EndOf
    <3>2. CASE m # 1
      <4>1. m - 1 \in DOMAIN active' /\ m - 1 \in DOMAIN active /\ Len(active') # 0
        <5>1. m - 1 \in 1..(m - 1) /\ m - 1 \in 1..m
          BY <2>1, <3>2, <2>3
        <5>2. m - 1 \in DOMAIN active
          BY <1>1, <2>1, <5>1, LayersArePaths
        <5>3. DOMAIN active' = 1..(m - 1)
          BY <2>2, <2>3
        <5> QED BY <2>2, <3>2, <5>1, <5>2, <5>3
      <4>2. active' # <<>> /\ Last(active') = active[m - 1]
        BY <2>1, <2>2, <4>1 DEF Last
      <4>3. active[m - 1] # <<>>
        BY <1>1, <4>1 DEF StackOK, Layer
      <4>4. Closing' = active[m - 1] /\ Outside(m)' = active[m - 1]
        BY <2>1, <2>2, <3>2, <4>1, <4>2 DEF Closing, Outside
      <4> QED BY <4>2, <4>3, <4>4 DEF Scope, EndOf
    <3> QED BY <3>1, <3>2
  <2>5. Outside(m)' = Outside(m)
    <3>1. m # 1 => m - 1 \in 1..(m - 1)
      BY <1>4, <2>1
    <3> QED BY <2>2, <3>1 DEF Outside
  <2> QED BY <2>1, <2>4, <2>5
<1>9. Here' = Last(current) + 1
  <2>1. Len(place') = Len(active) /\ place'[Len(active)] = place[Len(active)]
    BY <1>1, <1>4 DEF Front
  <2> QED BY <1>4, <2>1 DEF Here, Last, Layer
<1>10. ScopeOf(Front(current)) = Scope'
  BY <1>4, <1>5, <1>8 DEF Follows, Layer
<1>11. ScopeOK'
  <2>1. ScopeOf(current') = Scope' /\ EndOf(current') = EndOf(Front(current))
    BY <1>1, <1>10
  <2>2. \A n \in Ahead' : n > EndOf(Front(current))
    <3> SUFFICES ASSUME NEW n \in Nodes, n >= Last(current) + 1
                 PROVE  n > EndOf(Front(current))
      BY <1>9 DEF Ahead
    <3>1. EndOf(Front(current)) \in Nat /\ Last(current) \in Nat /\ n \in Nat
      <4>1. Front(current) # <<>> => Last(Front(current)) \in Nodes
        BY <1>5, FrontIs
      <4> QED BY <1>5, <4>1, NodesArePositive DEF EndOf, Test
    <3> QED BY <1>5, <3>1 DEF Follows
  <2>3. ASSUME NEW i \in (Len(Outside(Len(active))) + 1)..(Len(current) - 1)
        PROVE  ~IsSection(Front(current)[i])
    <3>1. Len(Outside(Len(active))) \in Nat
      <4>1. PICK m \in Nat : m = Len(active) /\ DOMAIN active = 1..m
        BY <1>4
      <4>2. Len(active) # 1 => Len(active) - 1 \in DOMAIN active
        <5>1. m \in 1..m /\ (m # 1 => m - 1 \in 1..m)
          BY <1>4, <4>1
        <5> QED BY <4>1, <5>1
      <4>3. Outside(Len(active)) \in Seq(Nodes)
        BY <1>4, <4>2 DEF Outside
      <4> QED BY <4>3
    <3>2. i \in 1..(Len(current) - 1) /\ Len(current) - 1 \in 0..Len(current)
      BY <1>5, <3>1
    <3>3. Front(current)[i] = current[i]
      <4>1. \A k \in 1..(Len(current) - 1) : UpTo(current, Len(current) - 1)[k] = current[k]
        BY <1>2, <3>2, UpToIs
      <4> QED BY <1>5, <3>2, <4>1
    <3>4. ~IsSection(current[i])
      BY <1>4 DEF Layer
    <3> QED BY <3>3, <3>4
  <2>4. Len(current') = Len(current) - 1
    BY <1>1, <1>5
  <2> QED BY <1>1, <1>8, <2>1, <2>2, <2>3, <2>4, ProgramStays DEF ScopeOK, EndOf
<1>12. WayOK'
  <2>1. ASSUME NEW q \in DOMAIN trackers', Pending(q)', Len(q) > Len(current'),
               UpTo(q, Len(current')) = current', ~(q[Len(current') + 1] < Here')
        PROVE  FALSE
    <3> DEFINE l == Len(current)
    <3>1. Exists(q) /\ Pending(q) /\ PassedAlong(q) /\ q \in Seq(Nodes) /\ Len(q) \in Nat
      BY <1>1, <1>3, <2>1 DEF TreeOK, PendingOK, Exists
    <3>2. Len(current') = l - 1 /\ Len(current') + 1 = l
      BY <1>1, <1>5
    <3>3. l \in 1..Len(q) /\ l - 1 \in 0..(Len(q) - 1) /\ (l - 1) + 1 = l
      BY <1>5, <2>1, <3>1, <3>2
    <3>4. q[l] \in Nodes /\ q[l] \in Nat /\ Last(current) \in Nat
      <4>1. q[l] \in Nodes
        BY <3>1, <3>3
      <4> QED BY <1>5, <4>1, NodesArePositive
    <3>5. Last(current) < q[l]
      BY <1>9, <2>1, <3>2, <3>4
    <3>6. UpTo(q, l - 1) = Front(current)
      BY <1>1, <2>1, <3>2
    <3>7. Passed(Front(current), q[l])
      BY <3>1, <3>3, <3>6 DEF PassedAlong
    <3>8. Done(current)
      BY <1>5, <3>5, <3>7 DEF Passed
    <3> QED BY <1>2, <3>8
  <2> QED BY <1>2, <2>1 DEF WayOK, UpTo
<1> QED BY <1>1, <1>2, <1>3, <1>6, <1>7, <1>11, <1>12 DEF SectionsInv

LEMMA SectionEndedEarlyKeeps ==
  ASSUME SectionsInv, SectionEndedEarly
  PROVE  SectionsInv'
<1>1. PICK p : p = Last(active)
  OBVIOUS
<1>2. /\ pc = "unwinding" /\ TreeOK /\ PendingOK /\ PathOK /\ StackOK
      /\ program \in Programs /\ ~illogical /\ active # <<>>
      /\ IF unfinished THEN current = p /\ CloseTracker(p)
         ELSE trackers' = Fail(trackers, p) /\ completed' = TRUE /\ UNCHANGED illogical
      /\ current' = Front(p) /\ active' = Front(active) /\ place' = Front(place)
      /\ program' = program /\ pc' = pc
  BY <1>1 DEF SectionsInv, SectionEndedEarly
<1>3. /\ active \in Seq(Seq(Nodes)) /\ Len(active) \in Nat
      /\ place \in Seq(Nat) /\ Len(place) = Len(active) + 1
      /\ Len(active) \in DOMAIN active /\ Layer(Len(active))
      /\ p = Closing /\ p = active[Len(active)] /\ p \in Seq(Nodes) /\ p # <<>> /\ Len(p) \in Nat
  BY <1>1, <1>2, ClosingIs DEF StackOK, Last
<1>4. current \in Seq(Nodes) /\ Len(current) \in Nat /\ UpTo(current, Len(current)) = current
  <2>1. current \in Seq(Nodes)
    BY <1>2 DEF PathOK, TreeOK, Exists
  <2> QED BY <2>1, UpToAll
<1>5. \A i \in 0..Len(p) :
        Exists(UpTo(p, i)) /\ Live(UpTo(p, i)) /\ ~IsFilteredOut(UpTo(p, i))
  <2>1. p = UpTo(current, Len(p)) /\ Len(p) <= Len(current)
    BY <1>3 DEF Layer
  <2> SUFFICES ASSUME NEW i \in 0..Len(p)
               PROVE  Exists(UpTo(p, i)) /\ Live(UpTo(p, i)) /\ ~IsFilteredOut(UpTo(p, i))
    OBVIOUS
  <2>2. Len(p) \in 0..Len(current) /\ i \in 0..Len(current)
    BY <1>3, <1>4, <2>1
  <2>3. UpTo(UpTo(current, Len(p)), i) = UpTo(current, i)
    BY <1>4, <2>2, UpToIs
  <2>4. Exists(UpTo(current, i)) /\ Live(UpTo(current, i)) /\ ~IsFilteredOut(UpTo(current, i))
    BY <1>2, <1>4, <2>2 DEF PathOK, TreeOK, Exists
  <2> QED BY <2>1, <2>3, <2>4
<1>6. /\ TreeOK' /\ PendingOK' /\ ~illogical' /\ completed' = TRUE
      /\ \A i \in 0..(Len(p) - 1) :
           UpTo(p, i) \in DOMAIN trackers' /\ trackers'[UpTo(p, i)].run \in LiveStates
  <2>1. CASE unfinished
    <3>1. current = p /\ CloseTracker(current)
      BY <1>2, <2>1
    <3>2. ~illogical' /\ completed' = TRUE /\ trackers' = Close(trackers, current)
      BY <1>2, <3>1, ClosesLive
    <3>3. TreeOK' /\ PendingOK'
      BY <1>2, <3>2, CloseKeepsTree
    <3>4. \A i \in 0..(Len(current) - 1) :
            UpTo(current, i) \in DOMAIN trackers' /\ trackers'[UpTo(current, i)].run \in LiveStates
      BY <1>2, <3>2, CloseIs
    <3> QED BY <3>1, <3>2, <3>3, <3>4
  <2>2. CASE ~unfinished
    <3>1. /\ TreeOK' /\ Grows /\ DOMAIN trackers' = DOMAIN trackers
          /\ \A q \in DOMAIN trackers' : IsOpen(trackers, q)' => IsOpen(trackers, q)
          /\ \A i \in 0..(Len(p) - 1) : trackers'[UpTo(p, i)].run \in LiveStates
      BY <1>2, <1>3, <1>5, <2>2, FailIs
    <3>2. PendingOK'
      <4>1. ~Pending(<<>>)'
        BY DEF Pending
      <4> QED BY <1>2, <3>1, <4>1, GrowsKeeps, PendingStays DEF Grows, Exists
    <3>3. \A i \in 0..(Len(p) - 1) : UpTo(p, i) \in DOMAIN trackers'
      BY <1>3, <1>5, <3>1 DEF Exists
    <3> QED BY <1>2, <2>2, <3>1, <3>2, <3>3
  <2> QED BY <2>1, <2>2
<1>7. PathOK'
  <2>1. \A i \in 0..(Len(p) - 1) : ~IsFilteredOut(UpTo(p, i))
    BY <1>3, <1>5
  <2> QED BY <1>2, <1>3, <1>6, <2>1, PathGetsShorter
<1>8. StackOK'
  <2>1. PICK m \in 0..Len(active) : m = Len(active) - 1
    <3>1. Len(active) - 1 \in 0..Len(active)
      BY <1>3
    <3> QED BY <3>1
  <2>2. active' = SubSeq(active, 1, m) /\ place' = SubSeq(place, 1, m + 1)
    BY <1>2, <1>3, <2>1 DEF Front
  <2>3. \A k \in 1..m : Len(active[k]) < Len(p) /\ active[k] = UpTo(p, Len(active[k]))
    BY <1>2, <1>3, <1>4, <2>1, SectionsGetLonger
  <2> QED BY <1>2, <1>3, <2>1, <2>2, <2>3, StackGetsShorter
<1> QED BY <1>2, <1>6, <1>7, <1>8 DEF SectionsInv

LEMMA EndCycleKeeps ==
  ASSUME SectionsInv, EndCycle
  PROVE  SectionsInv'
<1>1. /\ TreeOK /\ PendingOK /\ PathOK /\ program \in Programs /\ ~illogical
      /\ active' = <<>> /\ current = <<>> /\ CloseTracker(current)
      /\ pc' = IF trackers'[<<>>].run = "CompletedSuccessfully" \/ failures >= AbortAfter
               THEN "ended" ELSE "loop"
      /\ program' = program
  BY DEF SectionsInv, EndCycle, Closes, BlockEnded
<1>2. ~illogical' /\ completed' = TRUE /\ trackers' = Close(trackers, current)
  BY <1>1, ClosesLive
<1>3. TreeOK' /\ PendingOK'
  BY <1>1, <1>2, CloseKeepsTree
<1>4. trackers'[<<>>].run # "Failed"
  BY <1>1, <1>2, CloseIs
<1>5. pc' = "loop" => ~HasCompleted(trackers, <<>>)'
  BY <1>1, <1>4 DEF HasCompleted, IsFilteredOut
<1> QED BY <1>1, <1>2, <1>3, <1>5 DEF SectionsInv

\* As long as no loop draws from a generator, the invariant holds.
THEOREM SectionsInvariant ==
  ASSUME "again" \notin Kinds
  PROVE  Spec => []SectionsInv
<1>1. Init => SectionsInv
  BY Initially
<1>2. SectionsInv /\ [Next]_vars => SectionsInv'
  <2> SUFFICES ASSUME SectionsInv, [Next]_vars PROVE SectionsInv'
    OBVIOUS
  <2>1. CASE StartCycle
    BY <2>1, StartCycleKeeps
  <2>2. CASE EnterSection
    BY <2>2, EnterSectionKeeps
  <2>3. CASE SkipSection
    BY <2>3, SkipSectionKeeps
  <2>4. CASE LeaveSection
    BY <2>4, LeaveSectionKeeps
  <2>5. CASE AcquireGenerator
    BY <2>5, AcquireGeneratorKeeps
  <2>6. CASE CreateGenerator
    BY <2>6, CreateGeneratorKeeps
  <2>7. CASE RejectGenerator
    BY <2>7, ThrowKeeps DEF RejectGenerator, Throws, AtStatement
  <2>8. CASE CloseOpenChild
    BY <2>8, CloseOpenChildKeeps
  <2>9. CASE SectionEndedEarly
    BY <2>9, SectionEndedEarlyKeeps
  <2>10. CASE EndCycle
    BY <2>10, EndCycleKeeps
  <2>11. CASE FailsRequirement
    BY <2>11, ThrowKeeps DEF FailsRequirement, Throws
  <2>12. CASE UNCHANGED vars
    BY <2>12, NothingChanges
  <2> QED BY <2>1, <2>2, <2>3, <2>4, <2>5, <2>6, <2>7, <2>8, <2>9, <2>10, <2>11, <2>12
          DEF Next, Advance, Terminated
<1> QED BY <1>1, <1>2, PTL DEF Spec

\* No tracker is closed in a state that close() calls illogical, whatever is
\* thrown where and whatever the filters keep out.
THEOREM NeverClosedIllogically ==
  ASSUME "again" \notin Kinds
  PROVE  Spec => []NoIllogicalClose
<1>1. SectionsInv => NoIllogicalClose
  BY DEF SectionsInv, NoIllogicalClose
<1> QED BY <1>1, SectionsInvariant, PTL
=============================================================================
