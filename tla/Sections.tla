------------------------------ MODULE Sections ------------------------------
(***************************************************************************)
(* How a test case with sections and generators is run again and again    *)
(* until every path through it was taken: the trackers of                  *)
(* Internal/TestCaseTracker.cpp and the part of RunContext that drives     *)
(* them.  A tracker is named by the path of nodes from the test case to    *)
(* it, so the domain of `trackers` is the tree the code builds; <<>> is    *)
(* the test case itself.  The test program is drawn in the initial state   *)
(* and never changes.                                                      *)
(***************************************************************************)
EXTENDS Integers, SequencesExt, FiniteSetsExt

CONSTANTS
  Nodes,        \* places of the source: a prefix of the positive numbers
  Values,       \* elements of a generator
  Kinds,        \* kinds of statements programs are made of
  Filters,      \* path filters of the command line
  MaxThrows,    \* bound: exceptions and failed REQUIREs of one test case
  AbortAfter    \* failed assertions that end the run (--abortx)

ASSUME ProgramAssumption ==
  /\ IsFiniteSet(Nodes) /\ Nodes = 1..Cardinality(Nodes)
  /\ {Values, AbortAfter} \subseteq Nat \ {0}
  /\ Kinds \subseteq {"section", "generator", "again"}
  /\ MaxThrows \in Nat

Test == 0
Scopes == {Test} \cup Nodes
RunStates == {"NotStarted", "Executing", "ExecutingChildren",
              "NeedsAnotherRun", "CompletedSuccessfully", "Failed"}

VARIABLES
  program,      \* kind and enclosing scope of every node, and the filters
  trackers,     \* path -> run state and, of a generator, its current element
  current,      \* TrackerContext::m_currentTracker
  completed,    \* TrackerContext: the cycle is complete, no section opens
  active,       \* m_activeSections
  unfinished,   \* m_unfinishedSections is not empty
  place,        \* how far every scope that is being executed has come
  pc,           \* "loop" | "body" | "unwinding" | "ended"
  failures,     \* failed assertions
  seen,         \* elements the generators returned in this cycle
  walk,         \* leaf sections left so far, each with what was seen
  taken,        \* elements of generators, each with what was seen before
  cut,          \* scopes an exception was thrown in
  illogical     \* a tracker was closed in a state close() rejects

treeVars == <<trackers, current, completed>>
stackVars == <<active, unfinished, place>>
history == <<walk, taken, cut>>
vars == <<program, treeVars, stackVars, pc, failures, seen, history, illogical>>

-----------------------------------------------------------------------------
(* Test programs, as trees numbered in the order of their text.  A loop is  *)
(* written out: its sections have a name of their own in every iteration  *)
(* (DYNAMIC_SECTION), and its GENERATE comes "again".                     *)
IsSection(n) == program.kind[n] = "section"

\* The loop whose body is g..n-1 comes to its GENERATE g for the second time.
NextIteration(p, g, n) ==
  /\ g < n /\ p.kind[g] = "generator" /\ 2 * n - g - 1 \in Nodes
  /\ \A i \in 0..(n - g - 1) : p.scope[g + i] = p.scope[g] /\ p.scope[n + i] = p.scope[g]
  /\ \A i \in 1..(n - g - 1) : p.kind[n + i] = p.kind[g + i]

Programs ==
  {p \in [kind: [Nodes -> Kinds], scope: [Nodes -> Scopes],
          filter: Filters] :
     \A n \in Nodes :
       /\ p.scope[n] < n
       /\ p.scope[n] # Test => p.kind[p.scope[n]] = "section"
       \* in the order of the text, no scope is entered again once it is left
       /\ \A m \in Nodes : ~(p.scope[n] < m /\ m < n /\ p.scope[m] < p.scope[n])
       /\ p.kind[n] = "again" => \E g \in Nodes : NextIteration(p, g, n)}

Scope == IF active = <<>> THEN Test ELSE Last(Last(active))
Here == Last(place)
Ahead == {n \in Nodes : program.scope[n] = Scope /\ n >= Here}
AtStatement == pc = "body" /\ Ahead # {}
Statement == Min(Ahead)
GeneratorHere == Max({g \in Nodes : /\ g <= Statement /\ program.scope[g] = Scope
                                   /\ program.kind[g] = "generator"})
StepsOver == place' = [place EXCEPT ![Len(place)] = Statement + 1]

-----------------------------------------------------------------------------
(* Path filters: filter.path[i] applies to depth i.  In the old style only *)
(* sections count for the depth and generators are never filtered.        *)
SectionsOf(p) == Cardinality({i \in DOMAIN p : IsSection(p[i])})
Depth(p) == IF program.filter.new THEN Len(p) ELSE SectionsOf(p)
Filter(d) == program.filter.path[d]
HasFilter(d) == d \in DOMAIN program.filter.path

\* Mutant: the number of an element is taken for the name of a section.
IsFilteredOut_NameOnly(p) ==
  /\ p # <<>> /\ IsSection(Last(p)) /\ HasFilter(Depth(p))
  /\ Filter(Depth(p)).what # Last(p)

IsFilteredOut(p) ==
  /\ p # <<>> /\ IsSection(Last(p)) /\ HasFilter(Depth(p))
  /\ \/ program.filter.new /\ Filter(Depth(p)).for # "section"
     \/ Filter(Depth(p)).what # Last(p)

GeneratorFilter(p) == program.filter.new /\ HasFilter(Len(p))
AnyElement == 0 - 1
IsPinned(p) == GeneratorFilter(p) /\ Filter(Len(p)).what # AnyElement

-----------------------------------------------------------------------------
(* The tracker tree. *)
NewTracker(element) == [run |-> "NotStarted", at |-> element]

Exists(p) == p \in DOMAIN trackers
AddTracker(p, element) ==
  [q \in {p} \cup DOMAIN trackers |-> IF q = p THEN NewTracker(element) ELSE trackers[q]]
IsGenerator(p) == p # <<>> /\ ~IsSection(Last(p))
ChildrenOf(t, p) == {q \in DOMAIN t : q # <<>> /\ Front(q) = p}

HasCompleted(t, p) ==
  IsFilteredOut(p) \/ t[p].run \in {"CompletedSuccessfully", "Failed"}
IsOpen(t, p) == t[p].run # "NotStarted" /\ ~HasCompleted(t, p)

\* openChild goes up until a parent already executes its children.
OpenedAbove(t, p) ==
  {q \in DOMAIN t : /\ IsStrictPrefix(q, p)
                    /\ \A r \in DOMAIN t : IsPrefix(q, r) /\ IsStrictPrefix(r, p)
                                             => t[r].run # "ExecutingChildren"}
Open(t, p) == [q \in DOMAIN t |->
                 IF q = p THEN [t[q] EXCEPT !.run = "Executing"]
                 ELSE IF q \in OpenedAbove(t, p)
                      THEN [t[q] EXCEPT !.run = "ExecutingChildren"]
                 ELSE t[q]]

RunStateOnClose(t, p) ==
  IF \/ t[p].run = "Executing"
     \/ t[p].run = "ExecutingChildren" /\ \A q \in ChildrenOf(t, p) : HasCompleted(t, q)
  THEN "CompletedSuccessfully" ELSE t[p].run

\* Mutant: a generator moves on although no section after it ran yet.
ShouldWaitForChild_Never(t, p) == FALSE

\* Mutant: it also waits for sections the filters keep out for ever.
ShouldWaitForChild_Filtered(t, p) ==
  /\ ChildrenOf(t, p) # {}
  /\ \A q \in ChildrenOf(t, p) : t[q].run = "NotStarted"

\* A generator whose sections were all skipped so far keeps its element,
\* unless the filters never let one of them start.
ShouldWaitForChild(t, p) ==
  LET depth == 1 + Depth(p) IN
  /\ ChildrenOf(t, p) # {}
  /\ \A q \in ChildrenOf(t, p) : t[q].run = "NotStarted"
  /\ HasFilter(depth) =>
       /\ program.filter.new => Filter(depth).for = "section"
       /\ \E q \in ChildrenOf(t, p) : IsSection(Last(q)) /\ Filter(depth).what = Last(q)

Restarted(t, p, element) ==
  [q \in {r \in DOMAIN t : ~IsStrictPrefix(p, r)} |->
     IF q = p THEN [run |-> "Executing", at |-> element] ELSE t[q]]

\* TrackerBase::close of one tracker, and GeneratorTracker::close.
Close(t, p) ==
  LET run == RunStateOnClose(t, p)
      closed == [t EXCEPT ![p].run = run]
  IN IF ~IsGenerator(p) THEN closed
     ELSE IF ShouldWaitForChild(t, p) THEN Restarted(closed, p, t[p].at)
     ELSE IF run = "CompletedSuccessfully" /\ ~IsPinned(p) /\ t[p].at < Values
          THEN Restarted(closed, p, t[p].at + 1)
     ELSE closed

\* Mutant: the parent of a failed section is not entered again.
Fail_NoOtherRun(t, p) == [t EXCEPT ![p].run = "Failed"]

Fail(t, p) == [t EXCEPT ![p].run = "Failed", ![Front(p)].run = "NeedsAnotherRun"]

CloseTracker(p) ==
  /\ illogical' = (illogical \/ trackers[p].run \in
                     {"NotStarted", "CompletedSuccessfully", "Failed"})
  /\ trackers' = Close(trackers, p)
  /\ completed' = TRUE

-----------------------------------------------------------------------------
Init ==
  /\ program \in Programs
  /\ trackers = [p \in {<<>>} |-> NewTracker(0)]
  /\ current = <<>> /\ completed = FALSE
  /\ active = <<>> /\ unfinished = FALSE /\ place = <<1>>
  /\ pc = "loop" /\ failures = 0
  /\ seen = <<>> /\ walk = <<>> /\ taken = {} /\ cut = {}
  /\ illogical = FALSE

\* One more time through the test case: startCycle and acquire its tracker.
StartCycle ==
  /\ pc = "loop"
  /\ trackers' = IF HasCompleted(trackers, <<>>) THEN trackers ELSE Open(trackers, <<>>)
  /\ current' = <<>> /\ completed' = FALSE
  /\ place' = <<1>> /\ seen' = <<>> /\ pc' = "body"
  /\ UNCHANGED <<program, active, unfinished, failures, history, illogical>>

\* The tracker a section is acquired as, made when it is not there.
Acquired(p) == IF Exists(p) THEN trackers ELSE AddTracker(p, 0)
Opens(p) == ~completed /\ ~HasCompleted(Acquired(p), p)

\* SECTION: entered when it opens, skipped otherwise.
EnterSection ==
  LET p == Append(current, Statement) IN
  /\ AtStatement /\ IsSection(Statement)
  /\ Opens(p) \/ IsOpen(Acquired(p), p)
  /\ IF Opens(p)
     THEN trackers' = Open(Acquired(p), p) /\ current' = p
     ELSE trackers' = Acquired(p) /\ UNCHANGED current
  /\ active' = Append(active, p)
  /\ place' = Append([place EXCEPT ![Len(place)] = Statement + 1], 1)
  /\ UNCHANGED <<program, completed, unfinished, pc, failures, seen, history, illogical>>

SkipSection ==
  LET p == Append(current, Statement) IN
  /\ AtStatement /\ IsSection(Statement)
  /\ ~Opens(p) /\ ~IsOpen(Acquired(p), p)
  /\ trackers' = Acquired(p)
  /\ StepsOver
  /\ UNCHANGED <<program, current, completed, active, unfinished, pc, failures,
                 seen, history, illogical>>

IsLeaf(n) == IsSection(n) /\ \A m \in Nodes : program.scope[m] = n => ~IsSection(m)
Leaves(n) == IF n # Test /\ IsLeaf(n) THEN <<[leaf |-> n, seen |-> seen]>> ELSE <<>>

\* Whose close() runs: the innermost section's, or the test case's, at the
\* end of its block or on the way out behind a section that failed.
BlockEnded == pc = "body" /\ Ahead = {}
Closing == IF active = <<>> THEN <<>> ELSE Last(active)
Closes == BlockEnded \/ (pc = "unwinding" /\ (unfinished \/ active = <<>>))

\* The loop of close() over the trackers still open below.
CloseOpenChild ==
  /\ Closes /\ current # Closing
  /\ CloseTracker(current)
  /\ current' = Front(current)
  /\ UNCHANGED <<program, stackVars, pc, failures, seen, history>>

\* The end of a section's block: sectionEnded.
LeaveSection ==
  /\ BlockEnded /\ active # <<>> /\ current = Closing
  /\ CloseTracker(current)
  /\ current' = Front(current)
  /\ walk' = walk \o Leaves(Scope)
  /\ active' = Front(active) /\ place' = Front(place)
  /\ UNCHANGED <<program, unfinished, pc, failures, seen, taken, cut>>

Throws(isFailure) ==
  /\ pc' = "unwinding"
  /\ failures' = failures + (IF isFailure THEN 1 ELSE 0)
  /\ cut' = cut \cup {Scope}

\* The tracker a generator is acquired as; a loop finds itself again.
GeneratorPath(g) == IF current # <<>> /\ Last(current) = g THEN current
                    ELSE Append(current, g)
Returns(g, element) ==
  /\ seen' = (g :> element) @@ seen
  /\ taken' = taken \cup {[generator |-> g, seen |-> (g :> element) @@ seen]}
  /\ StepsOver

\* Mutant: a generator that is used up becomes the current tracker again.
AcquireGenerator_MovesAnyway ==
  LET p == GeneratorPath(GeneratorHere) IN
  /\ AtStatement /\ ~IsSection(Statement) /\ Exists(p)
  /\ trackers' = IF HasCompleted(trackers, p) THEN trackers ELSE Open(trackers, p)
  /\ current' = p
  /\ Returns(GeneratorHere, trackers[p].at)
  /\ UNCHANGED <<program, completed, active, unfinished, pc, failures, walk, cut, illogical>>

\* GENERATE with a tracker: it opens again unless it is used up.
AcquireGenerator ==
  LET p == GeneratorPath(GeneratorHere) IN
  /\ AtStatement /\ ~IsSection(Statement) /\ Exists(p)
  /\ IF HasCompleted(trackers, p)
     THEN UNCHANGED <<trackers, current>>
     ELSE trackers' = Open(trackers, p) /\ current' = p
  /\ Returns(GeneratorHere, trackers[p].at)
  /\ UNCHANGED <<program, completed, active, unfinished, pc, failures, walk, cut, illogical>>

\* The first GENERATE of a place: its tracker is made and opened, on the
\* element a filter asks for.
CreateGenerator ==
  LET p == GeneratorPath(GeneratorHere)
      first == IF IsPinned(p) THEN Filter(Len(p)).what + 1 ELSE 1
  IN
  /\ AtStatement /\ ~IsSection(Statement) /\ ~Exists(p)
  /\ GeneratorFilter(p) => Filter(Len(p)).for = "generator" /\ first <= Values
  /\ trackers' = Open(AddTracker(p, first), p)
  /\ current' = p
  /\ Returns(GeneratorHere, first)
  /\ UNCHANGED <<program, completed, active, unfinished, pc, failures, walk, cut, illogical>>

\* A generator a filter does not fit skips the test case; an element it
\* does not have is a failure.
RejectGenerator ==
  LET p == GeneratorPath(GeneratorHere) IN
  /\ AtStatement /\ ~IsSection(Statement) /\ ~Exists(p) /\ GeneratorFilter(p)
  /\ \/ Filter(Len(p)).for = "section" /\ Throws(FALSE)
     \/ /\ Filter(Len(p)).for = "generator"
        /\ IsPinned(p) /\ Filter(Len(p)).what + 1 > Values
        /\ Throws(TRUE)
  /\ UNCHANGED <<program, treeVars, stackVars, seen, walk, taken, illogical>>

\* A REQUIRE fails, or the code of the test throws.
FailsRequirement ==
  /\ pc = "body" /\ failures < MaxThrows
  /\ Throws(TRUE)
  /\ UNCHANGED <<program, treeVars, stackVars, seen, walk, taken, illogical>>

\* A section destroyed while an exception is in flight: the innermost one
\* fails, those around it are closed.
SectionEndedEarly ==
  LET p == Last(active) IN
  /\ pc = "unwinding" /\ active # <<>>
  /\ IF unfinished THEN current = p /\ CloseTracker(p)
     ELSE trackers' = Fail(trackers, p) /\ completed' = TRUE /\ UNCHANGED illogical
  /\ current' = Front(p)
  /\ unfinished' = TRUE
  /\ walk' = walk \o Leaves(Scope)
  /\ active' = Front(active) /\ place' = Front(place)
  /\ UNCHANGED <<program, pc, failures, seen, taken, cut>>

\* The test case returned or threw: its tracker is closed and the loop of
\* runTest decides whether to go through it again.
EndCycle ==
  /\ active = <<>> /\ Closes /\ current = <<>>
  /\ CloseTracker(<<>>)
  /\ unfinished' = FALSE
  /\ pc' = IF trackers'[<<>>].run = "CompletedSuccessfully" \/ failures >= AbortAfter
           THEN "ended" ELSE "loop"
  /\ UNCHANGED <<program, current, active, place, failures, seen, history>>

Terminated == pc = "ended" /\ UNCHANGED vars

Advance == \/ StartCycle \/ EnterSection \/ SkipSection \/ LeaveSection
           \/ AcquireGenerator \/ CreateGenerator \/ RejectGenerator
           \/ CloseOpenChild \/ SectionEndedEarly \/ EndCycle

Next == Advance \/ FailsRequirement \/ Terminated

Spec == Init /\ [][Next]_vars
FairSpec == Spec /\ WF_vars(Advance)
-----------------------------------------------------------------------------
(* What a run through a test case promises. *)

Generators == {g \in Nodes : program.kind[g] = "generator"}
Enclosing(n) == {Test} \cup {m \in Nodes : /\ m < n /\ IsSection(m)
                                          /\ \A k \in m+1..n : program.scope[k] >= m}
\* The generators whose elements a leaf, or a generator, is combined with.
Around(n) == {g \in Generators : g < n /\ program.scope[g] \in Enclosing(n)}
Own(n) == {g \in Generators : program.scope[g] = n}
Combinations(G) == [G -> 1..Values]
Filtered == program.filter.path # <<>>

\* No tracker is closed in a state that close() calls illogical, whatever
\* is thrown where.
NoIllogicalClose == ~illogical

\* No leaf section is entered twice with the same elements of the generators
\* around it; and when nothing was thrown, each was entered with every
\* combination of the generators around it and in it, and every generator
\* gave every element for every combination of the generators before it.
EveryPathOnce ==
  /\ IsInjective(walk)
  /\ pc = "ended" /\ cut = {} /\ ~Filtered =>
       /\ \A n \in Nodes : IsSection(n) /\ IsLeaf(n) =>
            \A c \in Combinations(Around(n) \cup Own(n)) :
              [leaf |-> n, seen |-> c] \in ToSet(walk)
       /\ \A g \in Generators : \A c \in Combinations(Around(g) \cup {g}) :
            \E t \in taken : t.generator = g /\ Restrict(t.seen, DOMAIN c) = c

\* The sections and generators a leaf is reached through, and its own.
Route(n) == SelectSeq([m \in Nodes |-> m],
                      LAMBDA m : /\ m \in Enclosing(n) \cup {n} \cup Around(n) \cup Own(n)
                                 /\ program.filter.new \/ IsSection(m))
Fits(n, c) ==
  \A i \in DOMAIN Route(n) : HasFilter(i) =>
    IF IsSection(Route(n)[i])
    THEN Filter(i).for = "section" /\ Filter(i).what = Route(n)[i]
    ELSE /\ Filter(i).for = "generator"
         /\ Filter(i).what \in {AnyElement, c[Route(n)[i]] - 1}

\* With path filters, and when nothing was skipped or thrown, exactly those
\* leaf sections and elements are taken whose whole route fits them.
FollowsFilter ==
  pc = "ended" /\ cut = {} =>
    \A n \in Nodes : IsSection(n) /\ IsLeaf(n) =>
      \A c \in Combinations(Around(n) \cup Own(n)) :
        [leaf |-> n, seen |-> c] \in ToSet(walk) <=> Fits(n, c)

\* An exception stays in the section it was thrown in: every other leaf
\* that is not inside of it is entered with all combinations all the same.
FailureStaysLocal ==
  pc = "ended" /\ ~Filtered /\ failures < AbortAfter /\ Test \notin cut =>
    \A n \in Nodes : IsSection(n) /\ IsLeaf(n) /\ (Enclosing(n) \cup {n}) \cap cut = {} =>
      \A c \in Combinations(Around(n) \cup Own(n)) :
        [leaf |-> n, seen |-> c] \in ToSet(walk)

\* The loop of runTest comes to its end.
TestCaseEnds == <>(pc = "ended")
=============================================================================
