---------------------------- MODULE PlannerProofs ----------------------------
(***************************************************************************)
(* For every catalog and every selection: the plan has the tests that are  *)
(* needed and no others, it is refused for a cycle exactly when it has one, *)
(* however tests are put into shards none is parted from what it depends   *)
(* on, and what the scheduler assumes of its plan holds.                   *)
(***************************************************************************)
EXTENDS Planner, FiniteSetTheorems, TLAPS

WithNames == Tests \cup {Unknown}
Done == {t \in Tests : state[t] = 2}

TypesInv ==
  /\ dependsOn \in [Tests -> SUBSET WithNames] /\ roots \subseteq Tests
  /\ selected \subseteq Tests /\ pending \subseteq Tests
  /\ state \in [Tests -> 0..2] /\ path \in Seq(Tests)

\* What the work list has taken in so far.
CloseInv ==
  /\ \A S \in SUBSET WithNames : HoldsNeeds(S) => selected \subseteq S
  /\ phase \in PastClose \cup {"close"} => roots \subseteq selected
  /\ phase = "close" =>
       /\ pending \subseteq selected
       /\ \A t \in selected \ pending : dependsOn[t] \subseteq selected
  /\ phase \in PastClose => \A t \in selected : dependsOn[t] \subseteq selected
  /\ error = "unknown" => Unknown \in Needed

\* The search for cycles: the path is a chain of dependencies, and what is
\* done has only dependencies that are done.
CycleInv ==
  /\ phase = "cycle" =>
       /\ \A i \in DOMAIN path : path[i] \in selected
       /\ \A t \in Tests : state[t] = 1 <=> \E i \in DOMAIN path : path[i] = t
       /\ \A i, k \in DOMAIN path : path[i] = path[k] => i = k
       /\ \A i \in 1..(Len(path) - 1) : path[i + 1] \in dependsOn[path[i]]
  /\ phase \in {"close", "cycle"} =>
       /\ \A t \in Done : dependsOn[t] \subseteq Done
       /\ ~Circular(Done)
  /\ phase = "close" => path = <<>> /\ \A t \in Tests : state[t] = 0
  /\ phase \in {"link", "place", "take", "plan", "done"} => ~Circular(selected)
  /\ error = "cycle" => Circular(Needed \ {Unknown})

\* A test and what it depends on get the same root, and tests of one root the
\* same shard.
ShardInv ==
  /\ phase \in {"link", "place", "take"} =>
       \A t \in selected : \A d \in dependsOn[t] : <<t, d>> \in edges \/ root[t] = root[d]
  /\ phase \in {"close", "cycle", "link"} => placed = {}
  /\ phase = "place" =>
       /\ edges = {}
       /\ \A s, t \in selected : root[s] = root[t] /\ root[s] \in placed => shardOf[s] = shardOf[t]
  /\ phase = "take" =>
       /\ edges = {}
       /\ \A s, t \in selected : root[s] = root[t] => shardOf[s] = shardOf[t]
  /\ phase \in PastShards => \A t \in selected : dependsOn[t] \subseteq selected

OrderInv == phase = "done" => kept \subseteq selected /\ order \in Orders(selected \ kept)

PlanInv == TypesInv /\ CloseInv /\ CycleInv /\ ShardInv /\ OrderInv

-----------------------------------------------------------------------------
LEMMA InitPlan == Init => PlanInv
<1> SUFFICES ASSUME Init PROVE PlanInv
  OBVIOUS
<1>1. TypesInv
  <2>1. <<>> \in Seq(Tests)
    OBVIOUS
  <2>2. dependsOn \in [Tests -> SUBSET WithNames]
    BY CatalogAssumption DEF Init, WithNames
  <2> QED BY <2>1, <2>2 DEF Init, TypesInv
<1>2. CloseInv
  BY DEF Init, CloseInv, HoldsNeeds, PastClose
<1>3. CycleInv
  <2>1. Done = {}
    BY DEF Init, Done
  <2>2. ~Circular({})
    BY DEF Circular
  <2> QED BY <2>1, <2>2 DEF Init, CycleInv
<1>4. ShardInv /\ OrderInv
  BY DEF Init, ShardInv, OrderInv, PastShards
<1> QED BY <1>1, <1>2, <1>3, <1>4 DEF PlanInv

\* What the plan is made for stays, and so does what is needed for it.
LEMMA InputsStay ==
  ASSUME [Next]_vars
  PROVE  /\ dependsOn' = dependsOn /\ roots' = roots
         /\ \A S : HoldsNeeds(S)' <=> HoldsNeeds(S)
         /\ \A S : Circular(S)' <=> Circular(S)
         /\ Needed' = Needed
<1>1. dependsOn' = dependsOn /\ roots' = roots
  BY DEF Next, vars, inputVars, Close, Closed, Visit, Descend, FindCycle, Return, Accept, Link,
     PlaceByHash, StartPlacing, RefuseDurations, Place, Placed, Take, MakeOrder, Terminated
<1>2. \A S : HoldsNeeds(S)' <=> HoldsNeeds(S)
  BY <1>1 DEF HoldsNeeds
<1>3. \A S : Circular(S)' <=> Circular(S)
  BY <1>1 DEF Circular
<1>4. Needed' = Needed
  BY <1>2 DEF Needed
<1> QED BY <1>1, <1>2, <1>3, <1>4

LEMMA KeepsTypes ==
  ASSUME PlanInv, [Next]_vars
  PROVE  TypesInv'
<1>1. dependsOn' \in [Tests -> SUBSET WithNames] /\ roots' \subseteq Tests
  BY InputsStay DEF PlanInv, TypesInv
<1>2. ASSUME NEW t \in Tests, Push(t) PROVE state' \in [Tests -> 0..2] /\ path' \in Seq(Tests)
  BY <1>2 DEF PlanInv, TypesInv, Push
<1>3. CASE Close
  <2>1. PICK t \in pending :
          IF Unknown \in dependsOn[t] THEN UNCHANGED closeVars ELSE TakesDependencies(t)
    BY <1>3 DEF Close
  <2>2. dependsOn[t] \subseteq WithNames
    BY <2>1 DEF PlanInv, TypesInv
  <2>3. selected' \subseteq Tests /\ pending' \subseteq Tests
    BY <2>1, <2>2 DEF PlanInv, TypesInv, closeVars, TakesDependencies, WithNames
  <2> QED BY <1>1, <1>3, <2>3 DEF PlanInv, TypesInv, Close, cycleVars
<1>4. CASE Visit
  <2>1. \E t \in selected : Push(t)
    BY <1>4 DEF Visit
  <2> QED BY <1>1, <1>2, <1>4, <2>1 DEF PlanInv, TypesInv, Visit, closeVars
<1>5. CASE Descend
  <2>1. path \in Seq(Tests) /\ path # <<>>
    BY <1>5 DEF Descend, PlanInv, TypesInv
  <2>2. Len(path) \in DOMAIN path
    BY <2>1
  <2>3. Top \in selected
    BY <1>5, <2>2 DEF Descend, PlanInv, CycleInv, Top
  <2>4. dependsOn[Top] \subseteq Tests
    BY <1>5, <2>3 DEF Descend, PlanInv, CloseInv, TypesInv, PastClose
  <2>5. \E t \in Tests : Push(t)
    BY <1>5, <2>4 DEF Descend
  <2> QED BY <1>1, <1>2, <1>5, <2>5 DEF PlanInv, TypesInv, Descend, closeVars
<1>6. CASE Return
  <2>1. state' \in [Tests -> 0..2]
    <3>1. state \in [Tests -> 0..2] /\ state' = [state EXCEPT ![Top] = 2]
      BY <1>6 DEF Return, PlanInv, TypesInv
    <3>2. \A t \in Tests : [state EXCEPT ![Top] = 2][t] \in 0..2
      BY <3>1
    <3>3. [state EXCEPT ![Top] = 2] \in [Tests -> 0..2]
      BY <3>1, <3>2, Zenon
    <3> QED BY <3>1, <3>3
  <2>2. SubSeq(path, 1, Len(path) - 1) \in Seq(Tests)
    BY <1>6 DEF Return, PlanInv, TypesInv
  <2> QED BY <1>1, <1>6, <2>1, <2>2 DEF PlanInv, TypesInv, Return, closeVars
<1>7. CASE Take
  BY <1>1, <1>7 DEF Take, PlanInv, TypesInv, cycleVars
<1>8. CASE Closed \/ FindCycle \/ Accept \/ Link \/ PlaceByHash \/ StartPlacing
           \/ RefuseDurations \/ Place \/ Placed \/ MakeOrder \/ Terminated \/ UNCHANGED vars
  <2>1. UNCHANGED <<closeVars, cycleVars>>
    BY <1>8 DEF Closed, FindCycle, Accept, Link, PlaceByHash, StartPlacing, RefuseDurations, Place, Placed,
       MakeOrder, Terminated, vars
  <2> QED BY <1>1, <2>1 DEF PlanInv, TypesInv, closeVars, cycleVars
<1> QED BY <1>3, <1>4, <1>5, <1>6, <1>7, <1>8 DEF Next

-----------------------------------------------------------------------------
LEMMA KeepsClose ==
  ASSUME PlanInv, [Next]_vars
  PROVE  CloseInv'
<1>1. CASE Close
  <2>1. PICK t \in pending :
          IF Unknown \in dependsOn[t]
          THEN phase' = "refused" /\ error' = "unknown" /\ UNCHANGED closeVars
          ELSE TakesDependencies(t) /\ UNCHANGED <<phase, error>>
    BY <1>1 DEF Close
  <2>2. phase = "close" /\ t \in selected /\ t \in Tests /\ t # Unknown
    BY <1>1, <2>1, CatalogAssumption DEF Close, PlanInv, CloseInv, TypesInv
  <2>3. ASSUME NEW S \in SUBSET WithNames, HoldsNeeds(S) PROVE dependsOn[t] \subseteq S
    BY <2>2, <2>3 DEF PlanInv, CloseInv, HoldsNeeds
  <2>4. CASE Unknown \in dependsOn[t]
    <3>1. Unknown \in Needed
      BY <2>3, <2>4 DEF Needed, WithNames
    <3> QED BY <2>1, <2>4, <3>1, InputsStay DEF PlanInv, CloseInv, closeVars, PastClose
  <2>5. CASE Unknown \notin dependsOn[t]
    <3>1. TakesDependencies(t) /\ phase' = "close" /\ error' = error
      BY <2>1, <2>2, <2>5
    <3>2. \A S \in SUBSET WithNames : HoldsNeeds(S) => selected' \subseteq S
      BY <2>3, <3>1 DEF PlanInv, CloseInv, TakesDependencies
    <3>3. roots \subseteq selected' /\ pending' \subseteq selected'
      BY <2>2, <3>1 DEF PlanInv, CloseInv, TakesDependencies
    <3>4. \A u \in selected' \ pending' : dependsOn[u] \subseteq selected'
      BY <2>2, <3>1 DEF PlanInv, CloseInv, TakesDependencies
    <3> QED BY <3>1, <3>2, <3>3, <3>4, InputsStay DEF CloseInv, PlanInv, PastClose
  <2> QED BY <2>4, <2>5
<1>2. CASE Closed
  <2>1. phase = "close" /\ pending = {} /\ phase' = "cycle" /\ error' = error /\ selected' = selected
    BY <1>2 DEF Closed, closeVars
  <2> QED BY <2>1, InputsStay DEF CloseInv, PlanInv, PastClose
<1>3. CASE Take
  <2>1. selected' \subseteq selected /\ phase' = "plan" /\ error' = error
    BY <1>3 DEF Take
  <2> QED BY <2>1, InputsStay DEF CloseInv, PlanInv, PastClose
<1>4. CASE FindCycle \/ RefuseDurations
  <2>1. selected' = selected /\ phase' = "refused" /\ error' \in {"cycle", "durations"}
    BY <1>4 DEF FindCycle, RefuseDurations, closeVars
  <2> QED BY <2>1, InputsStay DEF CloseInv, PlanInv, PastClose
<1>5. CASE Visit \/ Descend \/ Return \/ Accept \/ Link \/ PlaceByHash \/ StartPlacing \/ Place \/ Placed
  <2>1. selected' = selected /\ error' = error /\ phase \in PastClose /\ phase' # "close"
    BY <1>5 DEF Visit, Descend, Return, Accept, Link, PlaceByHash, StartPlacing, Place, Placed,
       closeVars, PastClose
  <2> QED BY <2>1, InputsStay DEF CloseInv, PlanInv
<1>6. CASE MakeOrder
  <2>1. selected' = selected /\ error' = error /\ phase' = "done"
    BY <1>6 DEF MakeOrder, closeVars
  <2> QED BY <2>1, InputsStay DEF CloseInv, PlanInv, PastClose
<1>7. CASE Terminated \/ UNCHANGED vars
  BY <1>7, InputsStay DEF Terminated, vars, closeVars, CloseInv, PlanInv
<1> QED BY <1>1, <1>2, <1>3, <1>4, <1>5, <1>6, <1>7 DEF Next

-----------------------------------------------------------------------------
\* One more test that is done closes no circle.
LEMMA OneMoreDone ==
  ASSUME NEW S, NEW t, t \notin S, ~Circular(S), \A s \in S : dependsOn[s] \subseteq S,
         dependsOn[t] \subseteq S
  PROVE  ~Circular(S \cup {t})
<1> SUFFICES ASSUME NEW R \in SUBSET (S \cup {t}), R # {}, \A r \in R : dependsOn[r] \cap R # {}
             PROVE  FALSE
  BY DEF Circular
<1>1. R \ {t} # {}
  OBVIOUS
<1>2. \A r \in R \ {t} : dependsOn[r] \cap (R \ {t}) # {}
  OBVIOUS
<1>3. R \ {t} \in SUBSET S
  OBVIOUS
<1> QED BY <1>1, <1>2, <1>3 DEF Circular

LEMMA SmallerNotCircular ==
  ASSUME NEW S, NEW R \in SUBSET S, ~Circular(S)
  PROVE  ~Circular(R)
BY DEF Circular

\* Once the work list is empty, what is selected is what is needed.
LEMMA SelectedIsNeeded ==
  ASSUME PlanInv, phase \in PastClose
  PROVE  selected = Needed /\ Unknown \notin selected
<1>1. HoldsNeeds(selected)
  BY DEF PlanInv, CloseInv, HoldsNeeds
<1>2. selected \in SUBSET WithNames /\ Unknown \notin selected
  BY CatalogAssumption DEF PlanInv, TypesInv, WithNames
<1>3. Needed \subseteq selected
  BY <1>1, <1>2 DEF Needed, WithNames
<1>4. selected \subseteq Needed
  BY <1>2 DEF Needed, PlanInv, CloseInv, WithNames
<1> QED BY <1>2, <1>3, <1>4

\* A test that is found on the path of the search closes a circle.
LEMMA PathCloses ==
  ASSUME PlanInv, FindCycle
  PROVE  Circular(Needed \ {Unknown})
<1>1. PICK t \in dependsOn[Top] : OnPath(t)
  BY DEF FindCycle
<1>2. path \in Seq(Tests) /\ path # <<>> /\ Len(path) \in Nat /\ Len(path) > 0
  BY DEF PlanInv, TypesInv, FindCycle
<1>3. phase = "cycle" /\ \A i \in DOMAIN path : path[i] \in selected
  BY DEF FindCycle, PlanInv, CycleInv
<1>4. Top \in selected /\ t \in Tests
  BY <1>1, <1>2, <1>3 DEF Top, PlanInv, CloseInv, TypesInv, PastClose
<1>5. PICK j \in 1..Len(path) : path[j] = t
  BY <1>1, <1>2, <1>3, <1>4 DEF OnPath, PlanInv, CycleInv
<1> DEFINE R == {path[k] : k \in j..Len(path)}
<1>6. R \in SUBSET (Needed \ {Unknown})
  BY <1>2, <1>3, <1>5, SelectedIsNeeded DEF PastClose
<1>7. t \in R
  BY <1>2, <1>5
<1>8. ASSUME NEW k \in j..Len(path) PROVE dependsOn[path[k]] \cap R # {}
  <2>1. CASE k = Len(path)
    BY <1>1, <1>7, <2>1 DEF Top
  <2>2. CASE k # Len(path)
    <3>1. k \in 1..(Len(path) - 1) /\ k + 1 \in j..Len(path)
      BY <1>2, <2>2
    <3>2. path[k + 1] \in dependsOn[path[k]]
      BY <1>3, <3>1 DEF PlanInv, CycleInv
    <3> QED BY <3>1, <3>2
  <2> QED BY <2>1, <2>2
<1>9. R # {} /\ \A r \in R : dependsOn[r] \cap R # {}
  BY <1>7, <1>8
<1> HIDE DEF R
<1> QED BY <1>6, <1>9 DEF Circular

\* A test that is new goes on the path, after one that needs it.
LEMMA PushKeepsPath ==
  ASSUME PlanInv, phase = "cycle", phase' = "cycle", error' = error, selected' = selected,
         dependsOn' = dependsOn, [Next]_vars,
         NEW t \in selected, state[t] = 0, Push(t), path = <<>> \/ t \in dependsOn[Top]
  PROVE  CycleInv'
<1>1. /\ path \in Seq(Tests) /\ Len(path) \in Nat /\ t \in Tests
      /\ state \in [Tests -> 0..2] /\ path' = Append(path, t)
      /\ state' = [state EXCEPT ![t] = 1]
  BY DEF PlanInv, TypesInv, Push
<1>2. /\ Len(path') = Len(path) + 1 /\ DOMAIN path' = 1..(Len(path) + 1)
      /\ \A i \in 1..Len(path) : path'[i] = path[i]
      /\ path'[Len(path) + 1] = t /\ DOMAIN path = 1..Len(path)
  BY <1>1
<1>3. \A i \in 1..Len(path) : path[i] \in Tests /\ path[i] \in selected /\ path[i] # t
  BY <1>1, <1>2 DEF PlanInv, CycleInv
<1>4. \A i \in DOMAIN path' : path'[i] \in selected
  BY <1>1, <1>2, <1>3
<1>5. \A u \in Tests : state'[u] = 1 <=> \E i \in DOMAIN path' : path'[i] = u
  <2>1. \A u \in Tests : state[u] = 1 <=> \E i \in 1..Len(path) : path[i] = u
    BY <1>2 DEF PlanInv, CycleInv
  <2>2. \A u \in Tests : (\E i \in DOMAIN path' : path'[i] = u)
          <=> (u = t \/ \E i \in 1..Len(path) : path[i] = u)
    BY <1>1, <1>2
  <2> QED BY <1>1, <2>1, <2>2
<1>6. \A i, k \in DOMAIN path' : path'[i] = path'[k] => i = k
  <2>1. \A i, k \in 1..Len(path) : path[i] = path[k] => i = k
    BY <1>2 DEF PlanInv, CycleInv
  <2> QED BY <1>1, <1>2, <1>3, <2>1
<1>7. \A i \in 1..(Len(path') - 1) : path'[i + 1] \in dependsOn[path'[i]]
  <2> SUFFICES ASSUME NEW i \in 1..Len(path) PROVE path'[i + 1] \in dependsOn[path'[i]]
    BY <1>1, <1>2
  <2>1. CASE i = Len(path)
    <3>1. path # <<>>
      BY <2>1
    <3>2. t \in dependsOn[path[i]]
      BY <2>1, <3>1 DEF Top
    <3> QED BY <1>2, <2>1, <3>2
  <2>2. CASE i # Len(path)
    <3>1. i \in 1..(Len(path) - 1) /\ i + 1 \in 1..Len(path)
      BY <1>1, <2>2
    <3>2. path[i + 1] \in dependsOn[path[i]]
      BY <3>1 DEF PlanInv, CycleInv
    <3> QED BY <1>2, <3>1, <3>2
  <2> QED BY <2>1, <2>2
<1>8. Done' = Done
  BY <1>1 DEF Done
<1>9. (\A u \in Done : dependsOn[u] \subseteq Done) /\ ~Circular(Done)
  BY DEF PlanInv, CycleInv
<1>10. (\A u \in Done : dependsOn[u] \subseteq Done)' /\ ~Circular(Done)'
  <2>1. ~Circular(Done)'
    BY <1>8, <1>9 DEF Circular
  <2> QED BY <1>8, <1>9, <2>1
<1> QED BY <1>4, <1>5, <1>6, <1>7, <1>10, InputsStay DEF CycleInv, PlanInv

LEMMA KeepsCycle ==
  ASSUME PlanInv, [Next]_vars
  PROVE  CycleInv'
<1>1. CASE Close
  <2>1. UNCHANGED <<state, path>> /\ phase = "close" /\ phase' \in {"close", "refused"}
    BY <1>1 DEF Close, cycleVars
  <2>2. Done' = Done
    BY <2>1 DEF Done
  <2>3. (~Circular(Done))' <=> ~Circular(Done)
    BY <2>2, InputsStay DEF Circular
  <2>4. error' = "unknown" \/ error' = error
    BY <1>1 DEF Close
  <2> QED BY <2>1, <2>2, <2>3, <2>4, InputsStay DEF CycleInv, PlanInv
<1>2. CASE Closed
  <2>1. /\ UNCHANGED <<state, path, selected>> /\ phase = "close" /\ phase' = "cycle"
        /\ error' = error
    BY <1>2 DEF Closed, cycleVars, closeVars
  <2>2. Done' = Done
    BY <2>1 DEF Done
  <2>3. (~Circular(Done))' <=> ~Circular(Done)
    BY <2>2, InputsStay DEF Circular
  <2>4. path' = <<>> /\ DOMAIN path' = {} /\ Len(path') = 0
    BY <2>1 DEF PlanInv, CycleInv
  <2>5. \A t \in Tests : state'[t] = 0
    BY <2>1 DEF PlanInv, CycleInv
  <2>6. \A t \in Tests : state'[t] = 1 <=> \E i \in DOMAIN path' : path'[i] = t
    BY <2>4, <2>5
  <2>7. \A i \in 1..(Len(path') - 1) : path'[i + 1] \in dependsOn'[path'[i]]
    BY <2>4
  <2> QED BY <2>1, <2>2, <2>3, <2>4, <2>6, <2>7, InputsStay DEF CycleInv, PlanInv
<1>3. CASE Visit
  <2>1. PICK t \in selected : state[t] = 0 /\ Push(t)
    BY <1>3 DEF Visit
  <2> QED BY <1>3, <2>1, PushKeepsPath DEF Visit, inputVars, closeVars
<1>4. CASE Descend
  <2>1. PICK t \in dependsOn[Top] : state[t] = 0 /\ Push(t)
    BY <1>4 DEF Descend
  <2>2. path \in Seq(Tests) /\ path # <<>> /\ phase = "cycle"
    BY <1>4 DEF Descend, PlanInv, TypesInv
  <2>3. Len(path) \in DOMAIN path
    BY <2>2
  <2>4. t \in selected
    BY <2>1, <2>2, <2>3 DEF PlanInv, CycleInv, CloseInv, Top, PastClose
  <2> QED BY <1>4, <2>1, <2>2, <2>4, PushKeepsPath DEF Descend, inputVars, closeVars
<1>5. CASE Return
  <2>1. /\ phase = "cycle" /\ phase' = "cycle" /\ error' = error /\ selected' = selected
        /\ path \in Seq(Tests) /\ path # <<>> /\ Len(path) \in Nat \ {0}
        /\ state \in [Tests -> 0..2] /\ state' = [state EXCEPT ![Top] = 2]
        /\ path' = SubSeq(path, 1, Len(path) - 1)
        /\ \A t \in dependsOn[Top] : state[t] = 2
    BY <1>5 DEF Return, PlanInv, TypesInv, closeVars
  <2>2. /\ Len(path') = Len(path) - 1 /\ DOMAIN path' = 1..(Len(path) - 1)
        /\ \A i \in 1..(Len(path) - 1) : path'[i] = path[i]
        /\ DOMAIN path = 1..Len(path)
    <3>1. Len(path) - 1 \in Nat /\ Len(path) - 1 <= Len(path)
      BY <2>1
    <3>2. \A n \in Nat : n <= Len(path) =>
            /\ Len(SubSeq(path, 1, n)) = n /\ DOMAIN SubSeq(path, 1, n) = 1..n
            /\ \A i \in 1..n : SubSeq(path, 1, n)[i] = path[i]
      BY <2>1
    <3>3. /\ Len(path') = Len(path) - 1 /\ DOMAIN path' = 1..(Len(path) - 1)
          /\ \A i \in 1..(Len(path) - 1) : path'[i] = path[i]
      BY <2>1, <3>1, <3>2, Zenon
    <3> QED BY <2>1, <3>3
  <2>3. /\ \A i \in 1..Len(path) : path[i] \in selected
        /\ \A t \in Tests : state[t] = 1 <=> \E i \in 1..Len(path) : path[i] = t
        /\ \A i, k \in 1..Len(path) : path[i] = path[k] => i = k
        /\ \A i \in 1..(Len(path) - 1) : path[i + 1] \in dependsOn[path[i]]
        /\ \A t \in Done : dependsOn[t] \subseteq Done
        /\ ~Circular(Done)
    BY <2>1, <2>2 DEF PlanInv, CycleInv
  <2>4. Top = path[Len(path)] /\ Top \in Tests /\ Top \in selected /\ state[Top] = 1
    BY <2>1, <2>2, <2>3 DEF Top, PlanInv, TypesInv
  <2>5. \A i \in DOMAIN path' : path'[i] \in selected
    BY <2>1, <2>2, <2>3
  <2>6. \A t \in Tests : state'[t] = 1 <=> \E i \in DOMAIN path' : path'[i] = t
    <3>1. \A t \in Tests : (\E i \in DOMAIN path' : path'[i] = t)
            <=> (t # Top /\ \E i \in 1..Len(path) : path[i] = t)
      <4> SUFFICES ASSUME NEW t \in Tests
                   PROVE  (\E i \in 1..(Len(path) - 1) : path[i] = t)
                            <=> (t # Top /\ \E i \in 1..Len(path) : path[i] = t)
        BY <2>2
      <4>1. ASSUME NEW i \in 1..(Len(path) - 1), path[i] = t
            PROVE  t # Top /\ \E k \in 1..Len(path) : path[k] = t
        <5>1. i \in 1..Len(path) /\ Len(path) \in 1..Len(path) /\ i # Len(path)
          BY <2>1
        <5> QED BY <2>3, <2>4, <4>1, <5>1
      <4>2. ASSUME t # Top, NEW i \in 1..Len(path), path[i] = t
            PROVE  \E k \in 1..(Len(path) - 1) : path[k] = t
        <5>1. i # Len(path)
          BY <2>4, <4>2
        <5>2. i \in 1..(Len(path) - 1)
          BY <2>1, <5>1
        <5> QED BY <4>2, <5>2
      <4> QED BY <4>1, <4>2
    <3>2. \A t \in Tests : state'[t] = IF t = Top THEN 2 ELSE state[t]
      BY <2>1, <2>4
    <3> QED BY <2>3, <3>1, <3>2
  <2>7. \A i, k \in DOMAIN path' : path'[i] = path'[k] => i = k
    BY <2>1, <2>2, <2>3
  <2>8. \A i \in 1..(Len(path') - 1) : path'[i + 1] \in dependsOn[path'[i]]
    BY <2>1, <2>2, <2>3
  <2>9. Done' = Done \cup {Top} /\ Top \notin Done
    BY <2>1, <2>4 DEF Done
  <2>10. dependsOn[Top] \subseteq Done
    <3>1. dependsOn[Top] \subseteq Tests
      BY <2>1, <2>4 DEF PlanInv, CloseInv, TypesInv, PastClose
    <3> QED BY <2>1, <3>1 DEF Done
  <2>11. ~Circular(Done \cup {Top})
    BY <2>3, <2>9, <2>10, OneMoreDone
  <2>12. (~Circular(Done))'
    BY <2>9, <2>11, InputsStay DEF Circular
  <2>13. \A t \in Done' : dependsOn[t] \subseteq Done'
    BY <2>3, <2>9, <2>10
  <2> QED BY <2>1, <2>5, <2>6, <2>7, <2>8, <2>12, <2>13, InputsStay DEF CycleInv, PlanInv
<1>6. CASE FindCycle
  <2>1. phase' = "refused" /\ Circular(Needed \ {Unknown})
    BY <1>6, PathCloses DEF FindCycle
  <2> QED BY <2>1, InputsStay DEF CycleInv
<1>7. CASE Accept
  <2>1. phase = "cycle" /\ phase' \in {"link", "plan"} /\ error' = error /\ selected' = selected
    BY <1>7 DEF Accept, closeVars
  <2>2. selected \in SUBSET Done
    BY <1>7 DEF Accept, Done, PlanInv, TypesInv
  <2>3. ~Circular(selected)
    BY <2>1, <2>2, SmallerNotCircular DEF PlanInv, CycleInv
  <2>4. ~Circular(selected)'
    BY <2>1, <2>3, InputsStay DEF Circular
  <2> QED BY <2>1, <2>4, InputsStay DEF CycleInv, PlanInv
<1>8. CASE Take
  <2>1. selected' \in SUBSET selected /\ phase = "take" /\ phase' = "plan" /\ error' = error
    BY <1>8 DEF Take
  <2>2. ~Circular(selected')
    BY <2>1, SmallerNotCircular DEF PlanInv, CycleInv
  <2>3. (~Circular(selected))'
    BY <2>2, InputsStay DEF Circular
  <2> QED BY <2>1, <2>3, InputsStay DEF CycleInv, PlanInv
<1>9. CASE Link \/ PlaceByHash \/ StartPlacing \/ Place \/ Placed \/ MakeOrder
  <2>1. /\ selected' = selected /\ error' = error
        /\ phase \in {"link", "place", "take", "plan", "done"}
        /\ phase' \in {"link", "place", "take", "plan", "done"}
    BY <1>9 DEF Link, PlaceByHash, StartPlacing, Place, Placed, MakeOrder, closeVars
  <2>2. (~Circular(selected))'
    BY <2>1, InputsStay DEF PlanInv, CycleInv, Circular
  <2> QED BY <2>1, <2>2, InputsStay DEF CycleInv, PlanInv
<1>10. CASE Terminated \/ UNCHANGED vars
  <2>1. UNCHANGED <<phase, error, selected, state, path>>
    BY <1>10 DEF Terminated, vars, closeVars, cycleVars
  <2>2. Done' = Done
    BY <2>1 DEF Done
  <2>3. ((~Circular(Done))' <=> ~Circular(Done)) /\ ((~Circular(selected))' <=> ~Circular(selected))
    BY <2>1, <2>2, InputsStay DEF Circular
  <2> QED BY <2>1, <2>2, <2>3, InputsStay DEF CycleInv, PlanInv
<1>11. CASE RefuseDurations
  <2>1. phase' = "refused" /\ error' = "durations"
    BY <1>11 DEF RefuseDurations
  <2> QED BY <2>1 DEF CycleInv
<1> QED BY <1>1, <1>2, <1>3, <1>4, <1>5, <1>6, <1>7, <1>8, <1>9, <1>10, <1>11 DEF Next

-----------------------------------------------------------------------------
LEMMA KeepsShards ==
  ASSUME PlanInv, [Next]_vars
  PROVE  ShardInv'
<1>1. \A t \in selected : t \in Tests
  BY DEF PlanInv, TypesInv
<1>2. CASE Accept
  <2>1. phase = "cycle" /\ selected' = selected /\ phase' \in {"link", "plan"}
    BY <1>2 DEF Accept, closeVars
  <2>2. \A t \in selected : dependsOn[t] \subseteq selected
    BY <2>1 DEF PlanInv, CloseInv, PastClose
  <2>3. \A t \in selected : \A d \in dependsOn[t] : <<t, d>> \in edges'
    BY <1>1, <1>2, <2>2 DEF Accept
  <2>4. placed' = {}
    BY <1>2, <2>1 DEF Accept, PlanInv, ShardInv
  <2> QED BY <2>1, <2>2, <2>3, <2>4, InputsStay DEF ShardInv, PastShards
<1>3. CASE Link
  <2>1. /\ phase = "link" /\ phase' = "link" /\ selected' = selected
        /\ \E e \in edges : root' = Joined(e[1], e[2]) /\ edges' = edges \ {e}
    BY <1>3 DEF Link, closeVars
  <2>2. PICK e \in edges : root' = Joined(e[1], e[2]) /\ edges' = edges \ {e}
    BY <2>1
  <2>3. ASSUME NEW t \in selected, NEW d \in dependsOn[t]
        PROVE  <<t, d>> \in edges' \/ root'[t] = root'[d]
    <3>1. t \in Tests /\ d \in Tests
      BY <1>1, <2>1 DEF PlanInv, CloseInv, PastClose
    <3>2. CASE e = <<t, d>>
      BY <2>2, <3>1, <3>2 DEF Joined
    <3>3. CASE e # <<t, d>>
      <4>1. <<t, d>> \in edges' \/ root[t] = root[d]
        BY <2>1, <2>2, <3>3 DEF PlanInv, ShardInv
      <4>2. root[t] = root[d] => root'[t] = root'[d]
        BY <2>2, <3>1 DEF Joined
      <4> QED BY <4>1, <4>2
    <3> QED BY <3>2, <3>3
  <2>4. placed' = {}
    BY <1>3, <2>1 DEF Link, PlanInv, ShardInv
  <2> QED BY <2>1, <2>3, <2>4, InputsStay DEF ShardInv, PastShards
<1>4. CASE PlaceByHash
  <2>1. /\ phase = "link" /\ edges = {} /\ phase' = "take" /\ selected' = selected
        /\ root' = root /\ edges' = edges
        /\ shardOf' = [t \in Tests |-> IF t \in selected THEN Hash[First(root[t])] ELSE 0]
    BY <1>4 DEF PlaceByHash, closeVars
  <2>2. \A s, t \in selected : root[s] = root[t] => shardOf'[s] = shardOf'[t]
    BY <1>1, <2>1
  <2> QED BY <2>1, <2>2, InputsStay DEF ShardInv, PlanInv, PastShards
<1>5. CASE StartPlacing
  <2>1. /\ phase = "link" /\ edges = {} /\ phase' = "place" /\ selected' = selected
        /\ UNCHANGED <<edges, root, placed, shardOf>>
    BY <1>5 DEF StartPlacing, closeVars, shardVars
  <2>2. placed = {}
    BY <2>1 DEF PlanInv, ShardInv
  <2> QED BY <2>1, <2>2, InputsStay DEF ShardInv, PlanInv, PastShards
<1>6. CASE Place
  <2>1. /\ phase = "place" /\ phase' = "place" /\ UNCHANGED <<selected, edges, root>>
        /\ \E g \in Groups \ placed, s \in Shards :
             /\ shardOf' = [t \in Tests |-> IF t \in Members(g) THEN s ELSE shardOf[t]]
             /\ placed' = placed \cup {g}
    BY <1>6 DEF Place, closeVars
  <2>2. PICK g \in Groups \ placed, s \in Shards :
             /\ shardOf' = [t \in Tests |-> IF t \in Members(g) THEN s ELSE shardOf[t]]
             /\ placed' = placed \cup {g}
    BY <2>1
  <2>3. ASSUME NEW a \in selected, NEW b \in selected, root[a] = root[b], root[a] \in placed'
        PROVE  shardOf'[a] = shardOf'[b]
    <3>1. CASE root[a] = g
      BY <1>1, <2>2, <2>3, <3>1 DEF Members
    <3>2. CASE root[a] # g
      <4>1. shardOf[a] = shardOf[b]
        BY <2>1, <2>2, <2>3, <3>2 DEF PlanInv, ShardInv
      <4> QED BY <1>1, <2>2, <2>3, <3>2, <4>1 DEF Members
    <3> QED BY <3>1, <3>2
  <2> QED BY <2>1, <2>3, InputsStay DEF ShardInv, PlanInv, PastShards
<1>7. CASE Placed
  <2>1. /\ phase = "place" /\ phase' = "take" /\ UNCHANGED <<selected, edges, root, shardOf>>
        /\ placed = Groups
    BY <1>7 DEF Placed, closeVars, shardVars
  <2>2. \A s \in selected : root[s] \in placed
    BY <2>1 DEF Groups
  <2> QED BY <2>1, <2>2, InputsStay DEF ShardInv, PlanInv, PastShards
<1>8. CASE Take
  <2>1. /\ phase = "take" /\ phase' = "plan"
        /\ \E s \in Shards : selected' = {t \in selected : shardOf[t] = s}
    BY <1>8 DEF Take
  <2>2. \A t \in selected : \A d \in dependsOn[t] : d \in selected /\ shardOf[d] = shardOf[t]
    BY <2>1 DEF PlanInv, CloseInv, ShardInv, PastClose
  <2>3. \A t \in selected' : dependsOn[t] \subseteq selected'
    BY <2>1, <2>2
  <2> QED BY <2>1, <2>3, InputsStay DEF ShardInv, PastShards
<1>9. CASE MakeOrder
  <2>1. phase = "plan" /\ phase' = "done" /\ selected' = selected
    BY <1>9 DEF MakeOrder, closeVars
  <2> QED BY <2>1, InputsStay DEF ShardInv, PlanInv, PastShards
<1>10. CASE Close \/ Closed \/ Visit \/ Descend \/ FindCycle \/ Return \/ RefuseDurations
  <2>1. phase' \in {"close", "cycle", "refused"}
    BY <1>10 DEF Close, Closed, Visit, Descend, FindCycle, Return, RefuseDurations
  <2>2. placed' = placed /\ phase \in {"close", "cycle", "link"}
    BY <1>10 DEF Close, Closed, Visit, Descend, FindCycle, Return, RefuseDurations, shardVars
  <2> QED BY <2>1, <2>2 DEF ShardInv, PlanInv, PastShards
<1>11. CASE Terminated \/ UNCHANGED vars
  BY <1>11, InputsStay DEF Terminated, vars, closeVars, shardVars, ShardInv, PlanInv, PastShards
<1> QED BY <1>2, <1>3, <1>4, <1>5, <1>6, <1>7, <1>8, <1>9, <1>10, <1>11 DEF Next

LEMMA KeepsOrder ==
  ASSUME PlanInv, [Next]_vars
  PROVE  OrderInv'
<1>1. CASE MakeOrder
  <2>1. kept' \subseteq selected /\ order' \in Orders(selected \ kept') /\ selected' = selected
    BY <1>1 DEF MakeOrder, Keep, closeVars
  <2>2. Orders(selected \ kept)' = Orders(selected' \ kept')
    BY DEF Orders
  <2> QED BY <2>1, <2>2 DEF OrderInv
<1>2. CASE Terminated \/ UNCHANGED vars
  <2>1. UNCHANGED <<phase, selected, kept, order>>
    BY <1>2 DEF Terminated, vars, closeVars, planVars
  <2> QED BY <2>1, ZenonT(60) DEF OrderInv, PlanInv, Orders
<1>3. CASE Close \/ Closed \/ Visit \/ Descend \/ FindCycle \/ Return \/ Accept \/ Link
           \/ PlaceByHash \/ StartPlacing \/ RefuseDurations \/ Place \/ Placed \/ Take
  <2>1. phase' # "done"
    BY <1>3 DEF Close, Closed, Visit, Descend, FindCycle, Return, Accept, Link, PlaceByHash,
       StartPlacing, RefuseDurations, Place, Placed, Take
  <2> QED BY <2>1 DEF OrderInv
<1> QED BY <1>1, <1>2, <1>3 DEF Next

\* The strengthened invariant, which the four theorems below are read from.
THEOREM PlanInvariant == Spec => []PlanInv
<1>1. PlanInv /\ [Next]_vars => PlanInv'
  BY KeepsTypes, KeepsClose, KeepsCycle, KeepsShards, KeepsOrder DEF PlanInv
<1> QED BY InitPlan, <1>1, PTL DEF Spec

\* For every catalog, the tests a plan starts from are exactly those needed by
\* definition, and an unknown name is reported only if a needed test has it.
THEOREM PlanHasWhatIsNeeded == Spec => []SelectsWhatIsNeeded
<1>1. PlanInv => SelectsWhatIsNeeded
  BY SelectedIsNeeded DEF SelectsWhatIsNeeded, PlanInv, CloseInv
<1> QED BY <1>1, PlanInvariant, PTL

\* For every catalog, what passes the search has no circle of dependencies, and
\* what is refused for one has it.
THEOREM CyclesAreRefused == Spec => []RefusesExactlyCycles
<1>1. PlanInv => RefusesExactlyCycles
  BY DEF RefusesExactlyCycles, PlanInv, CycleInv
<1> QED BY <1>1, PlanInvariant, PTL

\* For any number of shards, hashes and durations, by hash or by duration, a
\* test and all it depends on are in the same shard.
THEOREM ShardsAreClosed == Spec => []ShardsHoldDependencies
<1>1. PlanInv => ShardsHoldDependencies
  <2> SUFFICES ASSUME PlanInv PROVE ShardsHoldDependencies
    OBVIOUS
  <2>1. ASSUME phase = "take", NEW t \in selected, NEW d \in dependsOn[t]
        PROVE  shardOf[d] = shardOf[t]
    <3>1. d \in selected /\ root[t] = root[d]
      BY <2>1 DEF PlanInv, CloseInv, ShardInv, PastClose
    <3> QED BY <2>1, <3>1 DEF PlanInv, ShardInv
  <2> QED BY <2>1 DEF ShardsHoldDependencies, PlanInv, ShardInv
<1> QED BY <1>1, PlanInvariant, PTL

-----------------------------------------------------------------------------
\* An order of finitely many tests has all of them.
LEMMA OrdersAreWhole ==
  ASSUME NEW S, IsFiniteSet(S), NEW o \in Orders(S)
  PROVE  /\ \A i, k \in DOMAIN o : o[i] = o[k] => i = k
         /\ {o[i] : i \in DOMAIN o} = S
<1> DEFINE N == 1..Cardinality(S)
<1>1. Cardinality(S) \in Nat
  BY FS_CardinalityType
<1>2. o \in [N -> S] /\ \A i, k \in N : o[i] = o[k] => i = k
  BY DEF Orders
<1>3. o \in Injection(N, S)
  BY <1>2 DEF Injection, IsInjective
<1>4. IsFiniteSet(N) /\ Cardinality(N) = Cardinality(S)
  BY <1>1, FS_Interval
<1>5. o \in Surjection(N, S)
  BY <1>3, <1>4, FS_Injection
<1>6. \A t \in S : \E i \in N : o[i] = t
  BY <1>5 DEF Surjection
<1> QED BY <1>2, <1>6

\* What the scheduler assumes of its plan: each test once, and what a test
\* waits for is planned, too, or stands.
THEOREM PlansAreSound == Spec => []PlanStands
<1>1. PlanInv => PlanStands
  <2> SUFFICES ASSUME PlanInv, phase = "done" PROVE PlanStands
    BY DEF PlanStands
  <2>1. kept \subseteq selected /\ order \in Orders(selected \ kept)
    BY DEF PlanInv, OrderInv
  <2>2. IsFiniteSet(selected \ kept)
    <3>1. selected \ kept \subseteq Tests
      BY DEF PlanInv, TypesInv
    <3> QED BY <3>1, CatalogAssumption, FS_Subset
  <2>3. /\ \A i, k \in DOMAIN order : order[i] = order[k] => i = k
        /\ {order[i] : i \in DOMAIN order} = selected \ kept
    BY <2>1, <2>2, OrdersAreWhole
  <2>4. ASSUME NEW i \in DOMAIN order, NEW d \in dependsOn[order[i]], d \notin kept
        PROVE  d \in {order[k] : k \in DependencyPositions(i)}
    <3>1. d \in selected \ kept
      BY <2>3, <2>4 DEF PlanInv, ShardInv, PastShards
    <3>2. PICK k \in DOMAIN order : order[k] = d
      BY <2>3, <3>1
    <3>3. k \in DependencyPositions(i)
      BY <2>4, <3>2 DEF DependencyPositions
    <3> QED BY <3>2, <3>3
  <2> QED BY <2>1, <2>3, <2>4 DEF PlanStands
<1> QED BY <1>1, PlanInvariant, PTL
=============================================================================
