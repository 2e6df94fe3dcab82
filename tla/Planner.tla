------------------------------ MODULE Planner -------------------------------
(***************************************************************************)
(* MakePlan (Runner/Planner.cpp): from the tests that were selected to the *)
(* plan of the scheduler.  Dependencies come along, a cycle is refused,    *)
(* tests linked by dependencies stay in one shard, results that stand are  *)
(* kept, and the rest is put in order.  One step per iteration of a loop.  *)
(*                                                                         *)
(* A test is its index in the catalog.  The work list and the edges of the *)
(* groups are taken in any order: it changes nothing but wording.  The     *)
(* forest of the groups is the function `root' its look-up computes.       *)
(***************************************************************************)
EXTENDS Integers, Sequences, FiniteSets, FiniteSetsExt

CONSTANTS
  Tests,        \* the catalog, in registration order
  Catalogs,     \* what its tests may depend on
  Rank,         \* the order of the tests' keys
  Duration,     \* the duration of each test, known or assumed
  Hash,         \* the shard of each test's key (StableShard)
  ShardCount,
  Standing      \* the sets of tests whose earlier result may stand

Unknown == 0    \* a name that is not a test of the binary
Shards == 0..(ShardCount - 1)

ASSUME CatalogAssumption ==
  /\ Tests \subseteq Nat \ {Unknown} /\ IsFiniteSet(Tests)
  /\ Catalogs \subseteq [Tests -> SUBSET (Tests \cup {Unknown})]
  /\ Rank \in [Tests -> Nat] /\ \A s, t \in Tests : Rank[s] = Rank[t] => s = t
  /\ Duration \in [Tests -> Nat]
  /\ ShardCount \in Nat \ {0} /\ Hash \in [Tests -> Shards]
  /\ Standing \subseteq SUBSET Tests

VARIABLES
  dependsOn,    \* the catalog at hand
  roots,        \* the tests that were selected
  phase,        \* what MakePlan is at
  error,        \* why it gave up
  selected, pending,      \* step 2
  state, path,            \* step 3: 0 new, 1 on the path, 2 done
  edges, root, placed, load, shardOf,    \* step 4
  kept, order             \* steps 5 to 7

inputVars == <<dependsOn, roots>>
closeVars == <<selected, pending>>
cycleVars == <<state, path>>
shardVars == <<edges, root, placed, load, shardOf>>
planVars == <<kept, order>>
vars == <<inputVars, phase, error, closeVars, cycleVars, shardVars, planVars>>

Init ==
  /\ dependsOn \in Catalogs /\ roots \in SUBSET Tests
  /\ phase = "close" /\ error = "none"
  /\ selected = roots /\ pending = roots
  /\ state = [t \in Tests |-> 0] /\ path = <<>>
  /\ edges = {} /\ root = [t \in Tests |-> t] /\ placed = {}
  /\ load = [s \in Shards |-> 0] /\ shardOf = [t \in Tests |-> 0]
  /\ kept = {} /\ order = <<>>
-----------------------------------------------------------------------------
\* 2. Dependencies come along, whatever selected the test.
\* Mutant: what a dependency depends on does not.
TakesDependencies_OneLevel(t) ==
  /\ selected' = selected \cup dependsOn[t]
  /\ pending' = pending \ {t}
TakesDependencies(t) ==
  /\ selected' = selected \cup dependsOn[t]
  /\ pending' = (pending \ {t}) \cup (dependsOn[t] \ selected)

Close ==
  /\ phase = "close"
  /\ \E t \in pending :
       IF Unknown \in dependsOn[t]
       THEN phase' = "refused" /\ error' = "unknown" /\ UNCHANGED closeVars
       ELSE TakesDependencies(t) /\ UNCHANGED <<phase, error>>
  /\ UNCHANGED <<inputVars, cycleVars, shardVars, planVars>>

Closed ==
  /\ phase = "close" /\ pending = {}
  /\ phase' = "cycle"
  /\ UNCHANGED <<inputVars, error, closeVars, cycleVars, shardVars, planVars>>
-----------------------------------------------------------------------------
\* 3. A cycle can never run: depth first, with the path.
Top == path[Len(path)]
Push(t) ==
  /\ path' = Append(path, t)
  /\ state' = [state EXCEPT ![t] = 1]

\* The visit of a test starts, from the outside or from one that needs it.
Visit ==
  /\ phase = "cycle" /\ path = <<>>
  /\ \E t \in selected :
       /\ state[t] = 0 /\ \A s \in selected : state[s] = 0 => t <= s
       /\ Push(t)
  /\ UNCHANGED <<inputVars, phase, error, closeVars, shardVars, planVars>>

Descend ==
  /\ phase = "cycle" /\ path # <<>>
  /\ \E t \in dependsOn[Top] : state[t] = 0 /\ Push(t)
  /\ UNCHANGED <<inputVars, phase, error, closeVars, shardVars, planVars>>

\* Mutant: a test that is done is taken for one on the path.
OnPath_Done(t) == state[t] > 0
OnPath(t) == state[t] = 1

FindCycle ==
  /\ phase = "cycle" /\ path # <<>>
  /\ \E t \in dependsOn[Top] : OnPath(t)
  /\ phase' = "refused" /\ error' = "cycle"
  /\ UNCHANGED <<inputVars, closeVars, cycleVars, shardVars, planVars>>

Return ==
  /\ phase = "cycle" /\ path # <<>>
  /\ \A t \in dependsOn[Top] : state[t] = 2
  /\ state' = [state EXCEPT ![Top] = 2]
  /\ path' = SubSeq(path, 1, Len(path) - 1)
  /\ UNCHANGED <<inputVars, phase, error, closeVars, shardVars, planVars>>

Accept ==
  /\ phase = "cycle" /\ path = <<>> /\ \A t \in selected : state[t] = 2
  /\ phase' = IF ShardCount > 1 THEN "link" ELSE "plan"
  /\ edges' = {e \in Tests \X Tests : e[1] \in selected /\ e[2] \in dependsOn[e[1]]}
  /\ UNCHANGED <<inputVars, error, closeVars, cycleVars, root, placed, load, shardOf, planVars>>
-----------------------------------------------------------------------------
\* 4. Sharding.  The group of a test takes the root of what it depends on.
\* Mutant: only the test itself does.
Joined_TestOnly(s, d) == [root EXCEPT ![s] = root[d]]
Joined(s, d) == [t \in Tests |-> IF root[t] = root[s] THEN root[d] ELSE root[t]]

Link ==
  /\ phase = "link"
  /\ \E e \in edges :
       /\ root' = Joined(e[1], e[2])
       /\ edges' = edges \ {e}
  /\ UNCHANGED <<inputVars, phase, error, closeVars, cycleVars, placed, load, shardOf, planVars>>

Groups == {root[t] : t \in selected}
Members(g) == {t \in selected : root[t] = g}
GroupDuration(g) == FoldSet(LAMBDA t, sum : Duration[t] + sum, 0, Members(g))
First(g) == CHOOSE t \in Members(g) : \A s \in Members(g) : t <= s

\* By the hash of a group's first key, when no durations are given ...
PlaceByHash ==
  /\ phase = "link" /\ edges = {}
  /\ shardOf' = [t \in Tests |-> IF t \in selected THEN Hash[First(root[t])] ELSE 0]
  /\ phase' = "take"
  /\ UNCHANGED <<inputVars, error, closeVars, cycleVars, edges, root, placed, load, planVars>>

\* ... or the longest group into the least loaded shard.
GoesBefore(g, h) ==
  \/ GroupDuration(g) > GroupDuration(h)
  \/ GroupDuration(g) = GroupDuration(h) /\ Rank[First(g)] <= Rank[First(h)]

StartPlacing ==
  /\ phase = "link" /\ edges = {}
  /\ phase' = "place"
  /\ UNCHANGED <<inputVars, error, closeVars, cycleVars, shardVars, planVars>>

\* The durations cannot be read: there is no plan.
RefuseDurations ==
  /\ phase = "link" /\ edges = {}
  /\ phase' = "refused" /\ error' = "durations"
  /\ UNCHANGED <<inputVars, closeVars, cycleVars, shardVars, planVars>>

\* Mutant: the first shard, always.
LeastLoaded_First(s) == s = 0
LeastLoaded(s) == \A q \in Shards : load[s] < load[q] \/ (load[s] = load[q] /\ s <= q)

Place ==
  /\ phase = "place"
  /\ \E g \in Groups \ placed, s \in Shards :
       /\ \A h \in Groups \ placed : GoesBefore(g, h)
       /\ LeastLoaded(s)
       /\ load' = [load EXCEPT ![s] = @ + GroupDuration(g)]
       /\ shardOf' = [t \in Tests |-> IF t \in Members(g) THEN s ELSE shardOf[t]]
       /\ placed' = placed \cup {g}
  /\ UNCHANGED <<inputVars, phase, error, closeVars, cycleVars, edges, root, planVars>>

Placed ==
  /\ phase = "place" /\ placed = Groups
  /\ phase' = "take"
  /\ UNCHANGED <<inputVars, error, closeVars, cycleVars, shardVars, planVars>>

\* Each machine keeps the tests of its shard.
Take ==
  /\ phase = "take"
  /\ \E s \in Shards : selected' = {t \in selected : shardOf[t] = s}
  /\ phase' = "plan"
  /\ UNCHANGED <<inputVars, error, pending, cycleVars, shardVars, planVars>>
-----------------------------------------------------------------------------
\* 5. to 7.  What stands is kept; the rest is put in an order: as declared, by
\* name, by chance, or by what is likely to fail.
Orders(tests) ==
  {o \in [1..Cardinality(tests) -> tests] :
     \A i, k \in 1..Cardinality(tests) : o[i] = o[k] => i = k}

\* Mutant: what stands is taken from all tests, not only from the selected.
Keep_Any(stands) == stands
Keep(stands) == selected \cap stands

MakeOrder ==
  /\ phase = "plan"
  /\ \E stands \in Standing :
       /\ kept' = Keep(stands)
       /\ order' \in Orders(selected \ kept')
  /\ phase' = "done"
  /\ UNCHANGED <<inputVars, error, closeVars, cycleVars, shardVars>>

\* The positions in the plan a test waits for.
DependencyPositions(i) == {k \in DOMAIN order : order[k] \in dependsOn[order[i]]}

Terminated == phase \in {"done", "refused"} /\ UNCHANGED vars

Next ==
  \/ Close \/ Closed \/ Visit \/ Descend \/ FindCycle \/ Return \/ Accept
  \/ Link \/ PlaceByHash \/ StartPlacing \/ RefuseDurations \/ Place \/ Placed \/ Take \/ MakeOrder
  \/ Terminated

Spec == Init /\ [][Next]_vars
-----------------------------------------------------------------------------
(***************************************************************************)
(* Properties.                                                             *)
(***************************************************************************)
PastClose == {"cycle", "link", "place", "take"}
PastShards == {"plan", "done"}

\* The tests that are needed, by definition: those of every set that has the
\* selected ones and what its members depend on.
HoldsNeeds(S) == roots \subseteq S /\ \A t \in S \ {Unknown} : dependsOn[t] \subseteq S
Needed == {t \in Tests \cup {Unknown} : \A S \in SUBSET (Tests \cup {Unknown}) :
             HoldsNeeds(S) => t \in S}

\* The plan starts from exactly the tests that are needed, and a name that is
\* no test is found if one of them has it.
SelectsWhatIsNeeded ==
  /\ phase \in PastClose => selected = Needed
  /\ error = "unknown" => Unknown \in Needed

\* Tests that wait for each other in a circle are among S.
Circular(S) == \E R \in SUBSET S : R # {} /\ \A t \in R : dependsOn[t] \cap R # {}

\* A plan is refused for a cycle exactly when it has one.
RefusesExactlyCycles ==
  /\ phase \in {"link", "place", "take", "plan", "done"} => ~Circular(selected)
  /\ error = "cycle" => Circular(Needed \ {Unknown})

\* Whichever way tests are put into shards, a test and all it depends on are
\* in the same one, so the plan of a shard lacks nothing.
ShardsHoldDependencies ==
  /\ phase = "take" => \A t \in selected : \A d \in dependsOn[t] : shardOf[d] = shardOf[t]
  /\ phase \in PastShards => \A t \in selected : dependsOn[t] \subseteq selected

\* Longest first is at most a sixth worse than the best way to share the work
\* among two shards (Planner.cpp, "balances the shards").
BestLoad ==
  LET LoadOf(G) == FoldSet(LAMBDA g, sum : GroupDuration(g) + sum, 0, G)
      Longer(G) == IF LoadOf(G) > LoadOf(Groups \ G) THEN LoadOf(G) ELSE LoadOf(Groups \ G)
  IN CHOOSE best \in {Longer(G) : G \in SUBSET Groups} :
       \A G \in SUBSET Groups : best <= Longer(G)
NearBest ==
  phase = "place" /\ placed = Groups /\ ShardCount = 2 =>
    \A s \in Shards : 6 * load[s] <= 7 * BestLoad

\* What the scheduler assumes of its plan: each test once, and what a test
\* waits for is planned, too, or has passed before.
PlanStands ==
  phase = "done" =>
    /\ \A i, k \in DOMAIN order : order[i] = order[k] => i = k
    /\ {order[i] : i \in DOMAIN order} = selected \ kept /\ kept \subseteq selected
    /\ \A i \in DOMAIN order :
         dependsOn[order[i]] \subseteq kept \cup {order[k] : k \in DependencyPositions(i)}
=============================================================================
