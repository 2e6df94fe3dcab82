-------------------------- MODULE SchedulerProofs ---------------------------
(***************************************************************************)
(* Theorems about the scheduler, for every plan, every set of options and  *)
(* any number of processes: its types, and what becomes of the jobs of a   *)
(* plan.  The jobs it has handed out may run together, no test ever has    *)
(* two, none is forgotten, a verdict is final and comes after those of the *)
(* tests it depends on, and what the run counts and ends with is right.    *)
(***************************************************************************)
EXTENDS SchedulerProperties, FiniteSetTheorems, WellFoundedInduction, TLAPS

-----------------------------------------------------------------------------
(***************************************************************************)
(* Sets of positions: there is a first, a last and an n-th one.            *)
(***************************************************************************)

\* A set of naturals has a least element.
LEMMA LeastExists ==
  ASSUME NEW S \in SUBSET Nat, S # {}
  PROVE  \E i \in S : \A k \in S : i <= k
<1>1. PICK i \in S : \A k \in S : <<k, i>> \notin OpToRel(<, Nat)
  BY NatLessThanWellFounded, WFMin
<1>2. \A k \in S : ~(k < i)
  BY <1>1 DEF OpToRel
<1> QED
  BY <1>2

\* A set of positions of a sequence has a greatest element.
LEMMA GreatestExists ==
  ASSUME NEW n \in Nat, NEW S \in SUBSET (1..n), S # {}
  PROVE  \E i \in S : \A k \in S : k <= i
<1> DEFINE Bounds == {m \in Nat : \A k \in S : k <= m}
<1>1. n \in Bounds
  OBVIOUS
<1>2. PICK m \in Bounds : \A b \in Bounds : m <= b
  BY <1>1, LeastExists
<1>3. SUFFICES ASSUME m \notin S PROVE FALSE
  BY <1>2
<1>4. \A k \in S : k \in Nat /\ 1 <= k /\ k <= m - 1
  BY <1>3
<1>5. m - 1 \in Nat
  <2>1. PICK k : k \in S
    OBVIOUS
  <2>2. k \in Nat /\ 1 <= k /\ k <= m - 1 /\ m \in Nat
    BY <1>4, <2>1
  <2> QED
    BY <2>2
<1>6. m - 1 \in Bounds
  BY <1>4, <1>5
<1> QED
  BY <1>2, <1>6

\* Of a finite set of positions, there is one that is the n-th.
LEMMA NthExists ==
  ASSUME NEW len \in Nat, NEW S \in SUBSET (1..len), NEW n \in 1..Cardinality(S)
  PROVE  \E i \in S : Cardinality({k \in S : k <= i}) = n
<1> DEFINE UpTo(i) == {k \in S : k <= i}
           Enough == {i \in Nat : Cardinality(UpTo(i)) >= n}
<1>1. \A k \in S : k \in Nat /\ 1 <= k /\ k <= len
  OBVIOUS
<1>2. IsFiniteSet(S) /\ Cardinality(S) \in Nat
  <2>1. IsFiniteSet(1..len)
    BY FS_Interval
  <2> QED
    BY <2>1, FS_Subset, FS_CardinalityType
<1>3. \A i \in Nat : IsFiniteSet(UpTo(i)) /\ Cardinality(UpTo(i)) \in Nat
  <2>1. TAKE i \in Nat
  <2>2. UpTo(i) \in SUBSET S
    OBVIOUS
  <2> QED
    BY <1>2, <2>2, FS_Subset, FS_CardinalityType
<1>4. len \in Enough
  <2>1. UpTo(len) = S
    BY <1>1
  <2> QED
    BY <1>2, <2>1
<1>5. PICK i \in Enough : \A e \in Enough : i <= e
  <2> HIDE DEF UpTo
  <2> QED
    BY <1>4, LeastExists
<1>6. i # 0
  <2>1. UpTo(0) = {}
    <3>1. \A k \in S : ~(k <= 0)
      BY <1>1
    <3> QED
      BY <3>1
  <2>2. Cardinality(UpTo(0)) = 0
    BY <2>1, FS_EmptySet
  <2> QED
    BY <2>2, <1>5
<1>7. i \in Nat /\ i - 1 \in Nat
  BY <1>6
<1>8. UpTo(i) = IF i \in S THEN UpTo(i - 1) \cup {i} ELSE UpTo(i - 1)
  <2>1. \A k \in S : k <= i <=> k = i \/ k <= i - 1
    BY <1>1, <1>7
  <2> QED
    BY <2>1
<1>9. i \notin UpTo(i - 1)
  BY <1>7
<1> HIDE DEF UpTo
<1>10. Cardinality(UpTo(i - 1)) < n
  BY <1>3, <1>5, <1>7
<1>11. Cardinality(UpTo(i)) >= n
  BY <1>5
<1>12. i \in S
  BY <1>8, <1>10, <1>11, <1>3, <1>7
<1>13. Cardinality(UpTo(i)) = Cardinality(UpTo(i - 1)) + 1
  BY <1>3, <1>7, <1>8, <1>9, <1>12, FS_AddElement
<1>14. Cardinality(UpTo(i)) = n
  BY <1>3, <1>7, <1>10, <1>11, <1>13
<1> QED
  BY <1>12, <1>14 DEF UpTo

-----------------------------------------------------------------------------
(***************************************************************************)
(* The inductive invariant: types, and what they rest on.                  *)
(***************************************************************************)

\* A slot that is not in use has no job, no process and no message.
VacantSlots ==
  \A w \in Slots \ workers :
    /\ job[w] = NoJob /\ running[w] = NotRunning
    /\ process[w] = "none" /\ output[w] = <<>> /\ batch[w] = <<>>

\* A worker that runs a test, or is going to when it has greeted, has a job,
\* and does not do both.
JobsUnderWay ==
  \A w \in Slots :
    /\ IsRunning(w) \/ w \in pendingStart => job[w] \in Jobs
    /\ IsRunning(w) => running[w].test \in Catalog /\ w \notin pendingStart

\* A process is inside a test of the catalog.
ProcessesInTests ==
  \A w \in Slots : process[w] \in {"running", "raising"} => current[w] \in Catalog

\* The end of its streams is the last thing a process sends, whether it is
\* still on its way, taken or handled.
ClosedIsLast ==
  \A w \in Slots :
    /\ \A i \in DOMAIN output[w] :
         output[w][i] = Closed => i = Len(output[w]) /\ process[w] = "gone"
    /\ \A i \in DOMAIN batch[w] :
         batch[w][i] = Closed
           => i = Len(batch[w]) /\ output[w] = <<>> /\ process[w] = "gone"
    /\ w \in streamsClosed => batch[w] = <<>> /\ output[w] = <<>> /\ process[w] = "gone"

\* A probe is for a test that was tried.
QueuedProbesTried ==
  \A i \in DOMAIN queue : queue[i].kind = "probe" => attempts[queue[i].test] # <<>>
HandedProbesTried ==
  \A w \in Slots : job[w].kind = "probe" => attempts[job[w].test] # <<>>
ProbesTried == QueuedProbesTried /\ HandedProbesTried

TypeInv ==
  TypeOK /\ VacantSlots /\ JobsUnderWay /\ ProcessesInTests /\ ClosedIsLast /\ ProbesTried
-----------------------------------------------------------------------------
(***************************************************************************)
(* Lemmas about the data.                                                  *)
(***************************************************************************)

\* The verdict over the attempts of a test that was tried is the outcome of
\* one of them.
LEMMA VerdictIsAnAttempts ==
  ASSUME NEW A, NEW O, \A a \in A : a.outcome \in O,
         NEW tried \in Seq(A), tried # <<>>, NEW reproduced \in BOOLEAN
  PROVE  Verdict(tried, reproduced) \in O /\ Flaky(tried, reproduced) \in BOOLEAN
<1>1. Failures(tried) \in SUBSET (1..Len(tried)) /\ Passes(tried) \in SUBSET (1..Len(tried))
  BY DEF Failures, Passes
<1>2. \A i \in 1..Len(tried) : tried[i].outcome \in O
  OBVIOUS
<1>3. CASE Failures(tried) # {} /\ reproduced
  <2>1. \E i \in Failures(tried) : \A k \in Failures(tried) : i <= k
    BY <1>1, <1>3, LeastExists
  <2>2. FirstFailure(tried).outcome \in O
    BY <1>1, <1>2, <2>1 DEF FirstFailure
  <2> QED
    BY <1>3, <2>2 DEF Verdict, Flaky
<1>4. CASE Flaky(tried, reproduced)
  <2>1. \E i \in Passes(tried) : \A k \in Passes(tried) : k <= i
    <3>1. Len(tried) \in Nat /\ Passes(tried) # {}
      BY <1>4 DEF Flaky
    <3> QED
      BY <1>1, <3>1, GreatestExists
  <2>2. LastPass(tried).outcome \in O
    BY <1>1, <1>2, <2>1 DEF LastPass
  <2> QED
    BY <1>4, <2>2 DEF Verdict, Flaky
<1>5. CASE ~Flaky(tried, reproduced) /\ ~(Failures(tried) # {} /\ reproduced)
  <2>1. Len(tried) \in 1..Len(tried)
    OBVIOUS
  <2> QED
    BY <1>2, <1>5, <2>1 DEF Verdict, Flaky
<1> QED
  BY <1>3, <1>4, <1>5

\* What is left of a sequence is a sequence of its elements.
LEMMA WithoutType ==
  ASSUME NEW S, NEW s \in Seq(S), NEW t
  PROVE  Without(s, t) \in Seq(S)
<1> DEFINE kept == {i \in DOMAIN s : s[i] \notin Range(t)}
           Nth(n) == CHOOSE i \in kept : Cardinality({k \in kept : k <= i}) = n
<1>1. kept \in SUBSET (1..Len(s)) /\ Len(s) \in Nat
  OBVIOUS
<1>2. Cardinality(kept) \in Nat
  <2>1. IsFiniteSet(1..Len(s))
    BY <1>1, FS_Interval
  <2> QED
    BY <1>1, <2>1, FS_Subset, FS_CardinalityType
<1>3. ASSUME NEW n \in 1..Cardinality(kept)
      PROVE  Nth(n) \in kept
  <2> HIDE DEF kept
  <2>1. \E i \in kept : Cardinality({k \in kept : k <= i}) = n
    BY <1>1, NthExists
  <2> QED
    BY <2>1
<1>4. \A n \in 1..Cardinality(kept) : s[Nth(n)] \in S
  <2> HIDE DEF Nth
  <2> QED
    BY <1>3
<1>5. Without(s, t) = [n \in 1..Cardinality(kept) |-> s[Nth(n)]]
  BY DEF Without
<1>6. Without(s, t) \in [1..Cardinality(kept) -> S]
  <2> HIDE DEF kept, Nth
  <2> QED
    BY <1>4, <1>5
<1>7. \E n \in Nat : Without(s, t) \in [1..n -> S]
  BY <1>2, <1>6
<1> HIDE DEF kept
<1> QED
  BY <1>7

\* What is left of a sequence without its i-th element, and where.
LEMMA RemoveAtElements ==
  ASSUME NEW S, NEW s \in Seq(S), NEW i \in DOMAIN s
  PROVE  /\ RemoveAt(s, i) \in Seq(S)
         /\ Len(RemoveAt(s, i)) = Len(s) - 1
         /\ DOMAIN RemoveAt(s, i) = 1..(Len(s) - 1)
         /\ \A k \in 1..(Len(s) - 1) : RemoveAt(s, i)[k] = s[IF k < i THEN k ELSE k + 1]
<1> DEFINE r == RemoveAt(s, i)
<1>1. i \in 1..Len(s) /\ Len(s) \in Nat
  OBVIOUS
<1>2. r = SubSeq(s, 1, i - 1) \o SubSeq(s, i + 1, Len(s)) /\ r \in Seq(S)
  BY <1>1 DEF RemoveAt
<1>3. Len(r) = Len(s) - 1
  BY <1>1, <1>2
<1>4. \A k \in 1..Len(r) : r[k] = s[IF k < i THEN k ELSE k + 1]
  <2> DEFINE p == SubSeq(s, 1, i - 1)
             q == SubSeq(s, i + 1, Len(s))
  <2>1. p \in Seq(S) /\ Len(p) = i - 1 /\ \A k \in 1..(i - 1) : p[k] = s[k]
    BY <1>1
  <2>2. q \in Seq(S) /\ Len(q) = Len(s) - i /\ \A k \in 1..(Len(s) - i) : q[k] = s[i + k]
    BY <1>1
  <2> HIDE DEF p, q, r
  <2>3. r = p \o q
    BY <1>2 DEF p, q
  <2>4. \A k \in 1..Len(r) : r[k] = IF k < i THEN p[k] ELSE q[k - (i - 1)]
    BY <1>1, <1>3, <2>1, <2>2, <2>3, SMTT(60)
  <2>5. ASSUME NEW k \in 1..Len(r), ~(k < i)
        PROVE  q[k - (i - 1)] = s[k + 1]
    <3>1. k - (i - 1) \in 1..(Len(s) - i) /\ i + (k - (i - 1)) = k + 1
      BY <1>1, <1>3, <2>5
    <3> QED
      BY <2>2, <3>1
  <2> QED
    BY <1>1, <1>3, <2>1, <2>4, <2>5
<1> HIDE DEF r
<1>5. DOMAIN r = 1..Len(r)
  BY <1>2
<1> QED
  BY <1>2, <1>3, <1>4, <1>5 DEF r

\* An element of what is left is one of the sequence.
LEMMA RemoveAtType ==
  ASSUME NEW S, NEW s \in Seq(S), NEW i \in DOMAIN s
  PROVE  /\ RemoveAt(s, i) \in Seq(S)
         /\ \A k \in DOMAIN RemoveAt(s, i) : \E m \in DOMAIN s : RemoveAt(s, i)[k] = s[m]
<1> DEFINE r == RemoveAt(s, i)
<1>1. /\ r \in Seq(S) /\ DOMAIN r = 1..(Len(s) - 1)
      /\ \A k \in 1..(Len(s) - 1) : r[k] = s[IF k < i THEN k ELSE k + 1]
  BY RemoveAtElements
<1>2. \A k \in 1..(Len(s) - 1) : (IF k < i THEN k ELSE k + 1) \in 1..Len(s)
  OBVIOUS
<1>3. DOMAIN s = 1..Len(s)
  OBVIOUS
<1> HIDE DEF r
<1>4. \A k \in DOMAIN r : \E m \in DOMAIN s : r[k] = s[m]
  BY <1>1, <1>2, <1>3
<1> QED
  BY <1>1, <1>4 DEF r

\* Enqueue adds the job and keeps the others.
LEMMA EnqueueType ==
  ASSUME QueueTypeOK, NEW j \in Jobs, NEW tried, NEW pending \in [Tests -> Int],
         Enqueue(j, tried, pending)
  PROVE  /\ QueueTypeOK'
         /\ \A i \in DOMAIN queue' : queue'[i] = j \/ \E k \in DOMAIN queue : queue'[i] = queue[k]
<1>1. j.test \in Tests
  BY DEF Jobs
<1>2. pendingJobs' \in [Tests -> Int]
  BY <1>1 DEF Enqueue
<1>3. CASE queue' = <<j>> \o queue
  BY <1>2, <1>3 DEF QueueTypeOK
<1>4. CASE queue' = Append(queue, j)
  BY <1>2, <1>4 DEF QueueTypeOK
<1> QED
  BY <1>3, <1>4 DEF Enqueue

\* A verdict keeps the types.
LEMMA FinishType ==
  ASSUME VerdictTypeOK, NEW t \in Tests, NEW outcome \in Outcome, NEW isFlaky \in BOOLEAN,
         Finish(t, outcome, isFlaky)
  PROVE  VerdictTypeOK'
<1>1. CASE finished[t]
  BY <1>1 DEF Finish, VerdictTypeOK
<1>2. CASE ~finished[t]
  <2>1. finished' \in [Tests -> BOOLEAN]
    BY <1>2 DEF Finish, VerdictTypeOK
  <2>2. flaky' \in [Tests -> BOOLEAN]
    BY <1>2 DEF Finish, VerdictTypeOK
  <2>3. verdict' \in [Tests -> Outcome] /\ failedTests' \in Nat
    BY <1>2 DEF Finish, VerdictTypeOK
  <2>4. stopping' \in BOOLEAN
    BY <1>2 DEF Finish
  <2> QED
    BY <2>1, <2>2, <2>3, <2>4 DEF VerdictTypeOK
<1> QED
  BY <1>1, <1>2

\* So does the verdict over the attempts.
LEMMA FinishTriedType ==
  ASSUME VerdictTypeOK, NEW t \in Tests, NEW tried \in Seq(Attempts), tried # <<>>,
         NEW reproduced \in BOOLEAN, FinishTried(t, tried, reproduced)
  PROVE  VerdictTypeOK'
<1>1. \A a \in Attempts : a.outcome \in Outcome
  BY DEF Attempts
<1>2. Verdict(tried, reproduced) \in Outcome /\ Flaky(tried, reproduced) \in BOOLEAN
  BY <1>1, VerdictIsAnAttempts
<1> QED
  BY <1>2, FinishType DEF FinishTried

\* So does a probe that starts; it is for a test that was tried.
LEMMA StartProbeType ==
  ASSUME QueueTypeOK, bisection \in [Tests -> Searches], NEW t \in Tests,
         NEW search \in Searches, NEW sequence \in Seq(Catalog),
         NEW pending \in [Tests -> Int], StartProbe(t, search, sequence, pending)
  PROVE  /\ QueueTypeOK' /\ bisection' \in [Tests -> Searches]
         /\ \A i \in DOMAIN queue' :
              queue'[i].test = t \/ \E k \in DOMAIN queue : queue'[i] = queue[k]
<1> DEFINE j == Job("probe", t, sequence, TRUE)
<1>1. j \in Jobs /\ j.test = t
  BY DEF Job, Jobs
<1>2. Enqueue(j, attempts[t], pending)
  BY DEF StartProbe
<1>3. [search EXCEPT !.probes = @ + 1, !.probing = sequence] \in Searches
  <2>1. \A n \in Nat : [search EXCEPT !.probes = n, !.probing = sequence] \in Searches
    BY DEF Searches
  <2>2. search.probes + 1 \in Nat
    BY DEF Searches
  <2> QED
    BY <2>1, <2>2
<1>4. bisection' \in [Tests -> Searches]
  BY <1>3 DEF StartProbe
<1> HIDE DEF j
<1> QED
  BY <1>1, <1>2, <1>4, EnqueueType

\* The tests before the first failure in a shared process, which Decide probes.
LEMMA ProbeSequenceType ==
  ASSUME NEW tried \in Seq(Attempts), SharedFailures(tried) # {}
  PROVE  LET first == CHOOSE i \in SharedFailures(tried) : \A k \in SharedFailures(tried) : i <= k
         IN first \in SharedFailures(tried) /\ tried[first].precededBy \in Seq(Catalog)
<1> DEFINE first == CHOOSE i \in SharedFailures(tried) :
                      \A k \in SharedFailures(tried) : i <= k
<1>1. SharedFailures(tried) \in SUBSET (1..Len(tried))
  BY DEF SharedFailures, Failures
<1>2. \E i \in SharedFailures(tried) : \A k \in SharedFailures(tried) : i <= k
  <2>1. SharedFailures(tried) \in SUBSET Nat
    BY <1>1
  <2> QED
    BY <2>1, LeastExists
<1>3. first \in SharedFailures(tried) /\ first \in 1..Len(tried)
  BY <1>1, <1>2
<1> HIDE DEF first
<1>4. tried[first] \in Attempts
  BY <1>3
<1>5. tried[first].precededBy \in Seq(Catalog)
  BY <1>4 DEF Attempts
<1> QED
  BY <1>3, <1>5 DEF first

\* Half of the candidates are candidates.
LEMMA HalfType ==
  ASSUME NEW candidates \in Seq(Catalog)
  PROVE  Half(candidates) \in Seq(Catalog)
<1>1. \A n \in Nat : n \div 2 \in 0..n
  OBVIOUS
<1>2. Len(candidates) \in Nat
  OBVIOUS
<1>3. \A m \in 0..Len(candidates) : SubSeq(candidates, 1, m) \in Seq(Catalog)
  OBVIOUS
<1> QED
  BY <1>1, <1>2, <1>3 DEF Half

\* What follows an attempt, of a test that was now tried.
LEMMA DecideType ==
  ASSUME QueueTypeOK, TestTypeOK, VerdictTypeOK, QueuedProbesTried, NEW t \in Tests,
         NEW tried \in Seq(Attempts), tried # <<>>, NEW pending \in [Tests -> Int],
         attempts' = [attempts EXCEPT ![t] = tried], Decide(t, tried, pending)
  PROVE  QueueTypeOK' /\ TestTypeOK' /\ VerdictTypeOK' /\ QueuedProbesTried'
<1> USE DEF TestTypeOK
<1>1. attempts' \in [Tests -> Seq(Attempts)]
  OBVIOUS
<1>2. \A u \in Tests : attempts[u] # <<>> => attempts'[u] # <<>>
  OBVIOUS
<1>3. attempts'[t] # <<>>
  OBVIOUS
<1>4. \A i \in DOMAIN queue : queue[i].test \in Tests
  <2>1. \A j \in Jobs : j.test \in Tests
    BY DEF Jobs
  <2>2. \A i \in DOMAIN queue : queue[i] \in Jobs
    BY DEF QueueTypeOK
  <2> QED
    BY <2>1, <2>2
<1>5. CASE Repeats(t)
  <2> DEFINE j == Job("attempt", t, <<>>, FALSE)
  <2>1. j \in Jobs /\ j.kind # "probe"
    BY DEF Job, Jobs
  <2>2. /\ Enqueue(j, tried, pending) /\ Unresolved
        /\ repeatsLeft' = [repeatsLeft EXCEPT ![t] = @ - 1] /\ repeatsLeft[t] > 0
        /\ UNCHANGED <<retriesUsed, retryBudget, bisection>>
    BY <1>5 DEF Decide, Repeats, Retries, Confirms
  <2> HIDE DEF j
  <2>3. TestTypeOK' /\ VerdictTypeOK'
    BY <1>1, <2>2 DEF VerdictTypeOK, Unresolved
  <2>4. /\ QueueTypeOK'
        /\ \A i \in DOMAIN queue' :
             queue'[i] = j \/ \E k \in DOMAIN queue : queue'[i] = queue[k]
    BY <2>1, <2>2, EnqueueType
  <2>5. QueuedProbesTried'
    <3> SUFFICES ASSUME NEW i \in DOMAIN queue', queue'[i].kind = "probe"
                 PROVE  attempts'[queue'[i].test] # <<>>
      BY DEF QueuedProbesTried
    <3>1. PICK k \in DOMAIN queue : queue'[i] = queue[k]
      BY <2>1, <2>4
    <3>2. queue[k].test \in Tests /\ attempts[queue[k].test] # <<>>
      BY <1>4, <3>1 DEF QueuedProbesTried
    <3> QED
      BY <1>2, <3>1, <3>2
  <2> QED
    BY <2>3, <2>4, <2>5
<1>6. CASE Retries(t, tried)
  <2> DEFINE j == Job("attempt", t, <<>>, TRUE)
  <2>1. j \in Jobs /\ j.kind # "probe"
    BY DEF Job, Jobs
  <2>2. /\ Enqueue(j, tried, pending) /\ Unresolved
        /\ retriesUsed' = [retriesUsed EXCEPT ![t] = @ + 1]
        /\ retryBudget > 0 /\ retryBudget' = retryBudget - 1
        /\ UNCHANGED <<repeatsLeft, bisection>>
    BY <1>6 DEF Decide, Retries, Confirms
  <2> HIDE DEF j
  <2>3. TestTypeOK' /\ VerdictTypeOK'
    BY <1>1, <2>2 DEF VerdictTypeOK, Unresolved
  <2>4. /\ QueueTypeOK'
        /\ \A i \in DOMAIN queue' :
             queue'[i] = j \/ \E k \in DOMAIN queue : queue'[i] = queue[k]
    BY <2>1, <2>2, EnqueueType
  <2>5. QueuedProbesTried'
    <3> SUFFICES ASSUME NEW i \in DOMAIN queue', queue'[i].kind = "probe"
                 PROVE  attempts'[queue'[i].test] # <<>>
      BY DEF QueuedProbesTried
    <3>1. PICK k \in DOMAIN queue : queue'[i] = queue[k]
      BY <2>1, <2>4
    <3>2. queue[k].test \in Tests /\ attempts[queue[k].test] # <<>>
      BY <1>4, <3>1 DEF QueuedProbesTried
    <3> QED
      BY <1>2, <3>1, <3>2
  <2> QED
    BY <2>3, <2>4, <2>5
<1>7. CASE Confirms(t, tried)
  <2> DEFINE first == CHOOSE i \in SharedFailures(tried) :
                        \A k \in SharedFailures(tried) : i <= k
             sequence == tried[first].precededBy
             search == [bisection[t] EXCEPT !.stage = "confirming", !.candidates = sequence]
  <2>4. sequence \in Seq(Catalog)
    BY <1>7, ProbeSequenceType DEF Confirms
  <2>5. /\ StartProbe(t, search, sequence, pending) /\ Unresolved
        /\ UNCHANGED <<repeatsLeft, retriesUsed, retryBudget>>
    BY <1>7 DEF Decide, Confirms, Repeats
  <2> HIDE DEF first, sequence
  <2>6. search \in Searches
    BY <2>4, ZenonT(60) DEF Searches
  <2> HIDE DEF search
  <2>7. /\ QueueTypeOK' /\ bisection' \in [Tests -> Searches]
        /\ \A i \in DOMAIN queue' :
             queue'[i].test = t \/ \E k \in DOMAIN queue : queue'[i] = queue[k]
    BY <2>4, <2>5, <2>6, StartProbeType
  <2>8. TestTypeOK' /\ VerdictTypeOK'
    BY <1>1, <2>5, <2>7 DEF VerdictTypeOK, Unresolved
  <2>9. QueuedProbesTried'
    BY <1>2, <1>3, <1>4, <2>7 DEF QueuedProbesTried
  <2> QED
    BY <2>7, <2>8, <2>9
<1>8. CASE ~Repeats(t) /\ ~Retries(t, tried) /\ ~Confirms(t, tried)
  <2>1. /\ FinishTried(t, tried, bisection[t].reproduced)
        /\ queue' = queue /\ pendingJobs' = pending
        /\ UNCHANGED <<repeatsLeft, retriesUsed, retryBudget, bisection>>
    BY <1>8 DEF Decide
  <2>2. bisection[t].reproduced \in BOOLEAN
    BY DEF Searches
  <2>3. VerdictTypeOK'
    BY <2>1, <2>2, FinishTriedType
  <2> QED
    BY <1>1, <1>2, <1>4, <2>1, <2>3 DEF QueueTypeOK, QueuedProbesTried
<1> QED
  BY <1>5, <1>6, <1>7, <1>8

\* What a probe leaves of a search is a search.
LEMMA NarrowedType ==
  ASSUME NEW search \in Searches, NEW failed \in BOOLEAN
  PROVE  Narrowed(search, failed) \in Searches
<1>1. Without(search.candidates, search.probing) \in Seq(Catalog)
  BY WithoutType DEF Searches
<1> QED
  BY <1>1 DEF Narrowed, Searches

\* What follows a probe.
LEMMA ProbeEndedType ==
  ASSUME QueueTypeOK, TestTypeOK, VerdictTypeOK, QueuedProbesTried, NEW t \in Tests,
         attempts[t] # <<>>, NEW failed \in BOOLEAN, NEW pending \in [Tests -> Int],
         ProbeEnded(t, failed, pending),
         UNCHANGED <<attempts, repeatsLeft, retriesUsed, retryBudget>>
  PROVE  QueueTypeOK' /\ TestTypeOK' /\ VerdictTypeOK' /\ QueuedProbesTried'
<1> DEFINE search == bisection[t]
           flakyAfterAll == search.stage = "confirming" /\ ~failed
           narrowed == Narrowed(search, failed)
           ended == [narrowed EXCEPT !.stage = "done",
                       !.culprit = IF Len(narrowed.candidates) = 1
                                   THEN narrowed.candidates[1] ELSE NoTest]
<1>1. search \in Searches /\ narrowed \in Searches
  BY NarrowedType DEF TestTypeOK
<1>2. attempts[t] \in Seq(Attempts)
  BY DEF TestTypeOK
<1>3. \A u \in Searches : u.reproduced \in BOOLEAN /\ u.candidates \in Seq(Catalog)
  BY DEF Searches
<1>4. CASE flakyAfterAll
  <2>1. /\ bisection' = [bisection EXCEPT ![t].stage = "done"]
        /\ FinishTried(t, attempts[t], search.reproduced)
        /\ queue' = queue /\ pendingJobs' = pending
    BY <1>4 DEF ProbeEnded
  <2>2. VerdictTypeOK'
    BY <1>1, <1>2, <1>3, <2>1, FinishTriedType
  <2>3. bisection' \in [Tests -> Searches]
    BY <2>1, ZenonT(60) DEF TestTypeOK, Searches
  <2> QED
    BY <2>1, <2>2, <2>3 DEF QueueTypeOK, TestTypeOK, QueuedProbesTried
<1>5. CASE ~flakyAfterAll /\ SearchEnds(narrowed)
  <2>1. /\ bisection' = [bisection EXCEPT ![t] = ended]
        /\ FinishTried(t, attempts[t], narrowed.reproduced)
        /\ queue' = queue /\ pendingJobs' = pending
    BY <1>5 DEF ProbeEnded
  <2> HIDE DEF search, narrowed
  <2>2. VerdictTypeOK'
    BY <1>1, <1>2, <1>3, <2>1, FinishTriedType
  <2>3. ended \in Searches
    <3>1. \A x \in Catalog \cup {NoTest} :
            [narrowed EXCEPT !.stage = "done", !.culprit = x] \in Searches
      BY <1>1 DEF Searches
    <3>2. Len(narrowed.candidates) = 1 => narrowed.candidates[1] \in Catalog
      BY <1>1, <1>3
    <3> QED
      BY <3>1, <3>2
  <2>4. bisection' \in [Tests -> Searches]
    BY <2>1, <2>3 DEF TestTypeOK
  <2> QED
    BY <2>1, <2>2, <2>4 DEF QueueTypeOK, TestTypeOK, QueuedProbesTried
<1>6. CASE ~flakyAfterAll /\ ~SearchEnds(narrowed)
  <2>1. StartProbe(t, narrowed, Half(narrowed.candidates), pending) /\ Unresolved
    BY <1>6 DEF ProbeEnded
  <2> HIDE DEF search, narrowed
  <2>2. Half(narrowed.candidates) \in Seq(Catalog)
    BY <1>1, <1>3, HalfType
  <2>3. /\ QueueTypeOK' /\ bisection' \in [Tests -> Searches]
        /\ \A i \in DOMAIN queue' :
             queue'[i].test = t \/ \E k \in DOMAIN queue : queue'[i] = queue[k]
    BY <1>1, <2>1, <2>2, StartProbeType DEF TestTypeOK
  <2> QED
    BY <2>1, <2>3 DEF TestTypeOK, VerdictTypeOK, Unresolved, QueuedProbesTried
<1> QED
  BY <1>4, <1>5, <1>6

\* The end of the target of a job.
LEMMA CompleteType ==
  ASSUME TypeInv, NEW w \in Slots, job[w] \in Jobs, NEW outcome \in Outcome,
         Complete(w, outcome)
  PROVE  /\ QueueTypeOK' /\ TestTypeOK' /\ VerdictTypeOK' /\ QueuedProbesTried'
         /\ \A u \in Tests : attempts[u] # <<>> => attempts'[u] # <<>>
<1> DEFINE t == job[w].test
           pending == [pendingJobs EXCEPT ![t] = @ - 1]
           new == [outcome |-> outcome, precededBy |-> history[w]]
           tried == Append(attempts[t], new)
<1>1. t \in Tests
  BY DEF Jobs
<1>2. pending \in [Tests -> Int]
  BY <1>1 DEF TypeInv, TypeOK, QueueTypeOK
<1>3. IsFailure(outcome) \in BOOLEAN
  BY DEF IsFailure
<1>4. CASE job[w].kind = "probe"
  <2>1. attempts[t] # <<>>
    BY <1>4 DEF TypeInv, ProbesTried, HandedProbesTried
  <2>2. /\ ProbeEnded(t, IsFailure(outcome), pending)
        /\ UNCHANGED <<attempts, repeatsLeft, retriesUsed, retryBudget>>
    BY <1>4 DEF Complete
  <2> HIDE DEF t, pending
  <2> QED
    BY <1>1, <1>2, <1>3, <2>1, <2>2, ProbeEndedType DEF TypeInv, TypeOK, ProbesTried
<1>5. CASE job[w].kind # "probe"
  <2>1. new \in Attempts
    BY DEF TypeInv, TypeOK, WorkerTypeOK, Attempts
  <2>2. attempts \in [Tests -> Seq(Attempts)]
    BY DEF TypeInv, TypeOK, TestTypeOK
  <2> HIDE DEF new
  <2>3. tried \in Seq(Attempts) /\ tried # <<>>
    BY <1>1, <2>1, <2>2
  <2>4. attempts' = [attempts EXCEPT ![t] = tried] /\ Decide(t, tried, pending)
    BY <1>5 DEF Complete, new
  <2> HIDE DEF t, pending, tried
  <2>5. \A u \in Tests : attempts[u] # <<>> => attempts'[u] # <<>>
    BY <2>2, <2>3, <2>4
  <2> QED
    BY <1>1, <1>2, <2>3, <2>4, <2>5, DecideType DEF TypeInv, TypeOK, ProbesTried
<1> QED
  BY <1>4, <1>5

-----------------------------------------------------------------------------
(***************************************************************************)
(* Types.                                                                  *)
(***************************************************************************)

\* The scheduler starts in the invariant.
LEMMA InitTypeInv == Init => TypeInv
<1> SUFFICES ASSUME Init PROVE TypeInv
  OBVIOUS
<1>0. /\ infrastructureFailed = FALSE /\ stopping = FALSE /\ serialRunning = FALSE
      /\ infrastructureFailed \in BOOLEAN /\ stopping \in BOOLEAN /\ serialRunning \in BOOLEAN
  BY DEF Init
<1>1. ProcessTypeOK
  BY DEF Init, ProcessInit, ProcessTypeOK, ProcessStates
<1>2. LoopTypeOK
  <2>1. Len(PlanOrder) \in Nat
    BY SchedulerAssumption DEF PlanAssumption
  <2> QED
    BY <1>0, <2>1 DEF Init, LoopTypeOK, Phases
<1>3. QueueTypeOK /\ LockTypeOK
  BY <1>0 DEF Init, QueueTypeOK, LockTypeOK
<1>4. TestTypeOK /\ VerdictTypeOK
  <2>1. retryBudget \in Nat
    BY SchedulerAssumption DEF PlanAssumption, OptionAssumption, Init
  <2>2. repeatsLeft \in [Tests -> Nat]
    BY SchedulerAssumption DEF OptionAssumption, Init
  <2>3. NoBisection \in Searches
    BY DEF NoBisection, Searches
  <2> QED
    BY <1>0, <2>1, <2>2, <2>3 DEF Init, TestTypeOK, VerdictTypeOK, Outcome
<1>5. WorkerTypeOK
  BY DEF Init, WorkerTypeOK, NotRunning, Running
<1>6. VacantSlots /\ JobsUnderWay /\ ProcessesInTests /\ ClosedIsLast /\ ProbesTried
  BY DEF Init, ProcessInit, VacantSlots, JobsUnderWay, ProcessesInTests, ClosedIsLast,
         ProbesTried, QueuedProbesTried, HandedProbesTried, IsRunning, NoJob, Job
<1> QED
  BY <1>1, <1>2, <1>3, <1>4, <1>5, <1>6 DEF TypeInv, TypeOK

\* A part of the invariant holds on while the variables it is about keep their
\* values.
LEMMA Frames ==
  ASSUME TypeInv
  PROVE  /\ UNCHANGED processVars => ProcessTypeOK' /\ ProcessesInTests'
         /\ UNCHANGED <<pc, enqueued, batch, startVars>> => LoopTypeOK'
         /\ UNCHANGED queueVars => QueueTypeOK'
         /\ UNCHANGED testVars => TestTypeOK' /\ VerdictTypeOK'
         /\ UNCHANGED workerVars => WorkerTypeOK'
         /\ UNCHANGED lockVars => LockTypeOK'
         /\ UNCHANGED <<workers, job, running, process, output, batch>> => VacantSlots'
         /\ UNCHANGED <<job, running, pendingStart>> => JobsUnderWay'
         /\ UNCHANGED <<output, batch, process, streamsClosed>> => ClosedIsLast'
         /\ UNCHANGED <<queue, job, attempts>> => ProbesTried'
<1>1. UNCHANGED processVars => ProcessTypeOK' /\ ProcessesInTests'
  BY DEF TypeInv, TypeOK, ProcessTypeOK, ProcessesInTests, processVars
<1>2. /\ UNCHANGED <<pc, enqueued, batch, startVars>> => LoopTypeOK'
      /\ UNCHANGED queueVars => QueueTypeOK'
      /\ UNCHANGED lockVars => LockTypeOK'
  BY DEF TypeInv, TypeOK, LoopTypeOK, QueueTypeOK, LockTypeOK, startVars, queueVars, lockVars
<1>3. UNCHANGED testVars => TestTypeOK' /\ VerdictTypeOK'
  BY DEF TypeInv, TypeOK, TestTypeOK, VerdictTypeOK, testVars
<1>4. UNCHANGED workerVars => WorkerTypeOK'
  BY DEF TypeInv, TypeOK, WorkerTypeOK, workerVars, flagVars
<1>5. /\ UNCHANGED <<workers, job, running, process, output, batch>> => VacantSlots'
      /\ UNCHANGED <<job, running, pendingStart>> => JobsUnderWay'
      /\ UNCHANGED <<output, batch, process, streamsClosed>> => ClosedIsLast'
      /\ UNCHANGED <<queue, job, attempts>> => ProbesTried'
  BY DEF TypeInv, VacantSlots, JobsUnderWay, ClosedIsLast, ProbesTried, QueuedProbesTried,
         HandedProbesTried, IsRunning
<1> QED
  BY <1>1, <1>2, <1>3, <1>4, <1>5

\* Steps that only change the phase.
LEMMA PhaseTypeInv ==
  ASSUME TypeInv, StartLoop \/ DispatchEnds \/ EndTurn
  PROVE  TypeInv'
<1>1. LoopTypeOK'
  BY DEF TypeInv, TypeOK, LoopTypeOK, Phases, StartLoop, DispatchEnds, EndTurn, startVars
<1> QED
  BY <1>1, Frames DEF TypeInv, TypeOK, StartLoop, DispatchEnds, EndTurn, workerVars, flagVars,
       processVars, queueVars, testVars

\* What SettleBlocked and Dispatch do to the queue.
LEMMA TakenJobType ==
  ASSUME TypeInv, NEW i \in DOMAIN queue
  PROVE  /\ queue[i] \in Jobs /\ queue[i].test \in Tests /\ queue[i].test \in Catalog
         /\ RemoveAt(queue, i) \in Seq(Jobs)
         /\ <<queue[i]>> \o RemoveAt(queue, i) \in Seq(Jobs)
         /\ queue' \in {RemoveAt(queue, i), <<queue[i]>> \o RemoveAt(queue, i)}
              /\ attempts' = attempts => QueuedProbesTried'
<1>1. queue \in Seq(Jobs)
  BY DEF TypeInv, TypeOK, QueueTypeOK
<1>2. queue[i] \in Jobs /\ \A j \in Jobs : j.test \in Tests
  <2>1. queue[i] \in Jobs
    BY <1>1
  <2> QED
    BY <2>1 DEF Jobs
<1>3. Tests \subseteq Catalog
  BY SchedulerAssumption DEF PlanAssumption
<1> DEFINE r == RemoveAt(queue, i)
<1>4. r \in Seq(Jobs) /\ \A k \in DOMAIN r : \E m \in DOMAIN queue : r[k] = queue[m]
  BY <1>1, RemoveAtType
<1> HIDE DEF r
<1>5. <<queue[i]>> \o r \in Seq(Jobs)
  BY <1>2, <1>4
<1>6. \A k \in DOMAIN (<<queue[i]>> \o r) : \E m \in DOMAIN queue : (<<queue[i]>> \o r)[k] = queue[m]
  BY <1>2, <1>4
<1>7. QueuedProbesTried
  BY DEF TypeInv, ProbesTried
<1>8. queue' \in {r, <<queue[i]>> \o r} /\ attempts' = attempts => QueuedProbesTried'
  <2>1. ASSUME attempts' = attempts,
               \A k \in DOMAIN queue' : \E m \in DOMAIN queue : queue'[k] = queue[m]
        PROVE  QueuedProbesTried'
    BY <1>7, <2>1 DEF QueuedProbesTried
  <2> QED
    BY <1>4, <1>6, <2>1
<1> QED
  BY <1>2, <1>3, <1>4, <1>5, <1>8 DEF r

\* Scheduler::Quit.
LEMMA SendQuitType ==
  ASSUME TypeInv, NEW some \in SUBSET workers, SendQuit(some)
  PROVE  quitting' \subseteq workers /\ commands' \in [Slots -> Seq(Catalog \cup {Quit})]
  BY DEF SendQuit, TypeInv, TypeOK, WorkerTypeOK, ProcessTypeOK

\* Scheduler::StartStep.
LEMMA StartStepType ==
  ASSUME TypeInv, NEW w \in Slots, NEW j \in Jobs, NEW s \in Nat, StartStep(w, j, s)
  PROVE  /\ running' \in [Slots -> [test : Catalog \cup {NoTest}, target : BOOLEAN, fatal : BOOLEAN]]
         /\ running'[w].test \in Catalog
         /\ \A v \in Slots \ {w} : running'[v] = running[v]
         /\ overdue' \subseteq overdue
         /\ commands' \in [Slots -> Seq(Catalog \cup {Quit})]
<1>1. j.before \in Seq(Catalog) /\ j.test \in Catalog
  BY SchedulerAssumption DEF PlanAssumption, Jobs
<1>2. StepTest(j, s) \in Catalog
  BY <1>1 DEF StepTest
<1>3. Running(StepTest(j, s), s >= Len(j.before)) \in
        [test : Catalog \cup {NoTest}, target : BOOLEAN, fatal : BOOLEAN]
  BY <1>2 DEF Running
<1>4. Running(StepTest(j, s), s >= Len(j.before)).test \in Catalog
  BY <1>2 DEF Running
<1> DEFINE r == Running(StepTest(j, s), s >= Len(j.before))
<1>5. running' = [running EXCEPT ![w] = r] /\ overdue' = overdue \ {w}
  BY DEF StartStep
<1>6. commands' = [commands EXCEPT ![w] = Append(@, StepTest(j, s))]
  BY DEF StartStep
<1>7. commands' \in [Slots -> Seq(Catalog \cup {Quit})]
  BY <1>2, <1>6 DEF TypeInv, TypeOK, ProcessTypeOK
<1> HIDE DEF r
<1> QED
  BY <1>3, <1>4, <1>5, <1>7 DEF TypeInv, TypeOK, WorkerTypeOK, r

\* Scheduler::Run.
LEMMA EnqueuePlannedTypeInv ==
  ASSUME TypeInv, EnqueuePlanned
  PROVE  TypeInv'
<1> DEFINE t == PlanOrder[enqueued + 1]
<1>1. enqueued \in 0..Len(PlanOrder) /\ PlanOrder \in Seq(Tests)
  BY SchedulerAssumption DEF TypeInv, TypeOK, LoopTypeOK, PlanAssumption
<1>2. t \in Tests /\ enqueued + 1 \in 0..Len(PlanOrder)
  BY <1>1 DEF EnqueuePlanned
<1>3. PlannedJob(t) \in Jobs /\ PlannedJob(t).kind # "probe"
  BY <1>2, SchedulerAssumption DEF PlanAssumption, PlannedJob, Job, Jobs
<1>4. Enqueue(PlannedJob(t), attempts[t], pendingJobs) /\ enqueued' = enqueued + 1
  BY DEF EnqueuePlanned
<1> HIDE DEF t
<1>5. /\ QueueTypeOK'
      /\ \A i \in DOMAIN queue' :
           queue'[i] = PlannedJob(t) \/ \E k \in DOMAIN queue : queue'[i] = queue[k]
  BY <1>3, <1>4, EnqueueType DEF TypeInv, TypeOK, QueueTypeOK
<1>6. UNCHANGED <<pc, batch, testVars, workerVars, lockVars, startVars, processVars>>
  BY DEF EnqueuePlanned
<1>7. LoopTypeOK'
  BY <1>2, <1>4, <1>6 DEF TypeInv, TypeOK, LoopTypeOK, startVars
<1>8. ProbesTried'
  BY <1>3, <1>5, <1>6 DEF TypeInv, ProbesTried, QueuedProbesTried, HandedProbesTried, testVars,
                          workerVars
<1> QED
  BY <1>5, <1>6, <1>7, <1>8, Frames DEF TypeInv, TypeOK, workerVars, processVars

\* Scheduler::SettleBlocked.
LEMMA SettleBlockedTypeInv ==
  ASSUME TypeInv, SettleBlocked
  PROVE  TypeInv'
<1>1. PICK i \in DOMAIN queue :
        LET t == queue[i].test
        IN /\ queue' = RemoveAt(queue, i)
           /\ pendingJobs' = [pendingJobs EXCEPT ![t] = @ - 1]
           /\ IF pendingJobs[t] = 1 /\ ~finished[t] /\ attempts[t] = <<>>
              THEN Finish(t, "blocked", FALSE) ELSE Unresolved
  BY DEF SettleBlocked
<1>2. UNCHANGED <<pc, enqueued, batch, attempts, retriesUsed, repeatsLeft, bisection,
                  retryBudget, workerVars, lockVars, startVars, processVars>>
  BY DEF SettleBlocked
<1>3. VerdictTypeOK'
  <2>1. "blocked" \in Outcome /\ VerdictTypeOK
    BY DEF Outcome, TypeInv, TypeOK
  <2>2. CASE Unresolved
    BY <2>1, <2>2 DEF Unresolved, VerdictTypeOK
  <2>3. CASE Finish(queue[i].test, "blocked", FALSE)
    BY <2>1, <2>3, TakenJobType, FinishType
  <2> QED
    BY <1>1, <2>2, <2>3
<1>4. QueueTypeOK'
  <2>1. queue' \in Seq(Jobs) /\ queue[i].test \in Tests
    BY <1>1, TakenJobType
  <2>2. pendingJobs' = [pendingJobs EXCEPT ![queue[i].test] = @ - 1]
    BY <1>1
  <2> QED
    BY <2>1, <2>2 DEF QueueTypeOK, TypeInv, TypeOK
<1>5. ProbesTried'
  BY <1>1, <1>2, TakenJobType DEF TypeInv, ProbesTried, HandedProbesTried, workerVars
<1>6. TestTypeOK'
  BY <1>2 DEF TypeInv, TypeOK, TestTypeOK
<1> QED
  BY <1>2, <1>3, <1>4, <1>5, <1>6, Frames DEF TypeInv, TypeOK, workerVars, processVars

\* The end of the queue when the run stops.
LEMMA DrainQueueTypeInv ==
  ASSUME TypeInv, DrainQueue
  PROVE  TypeInv'
<1>1. UNCHANGED <<enqueued, batch, testVars, workers, ready, dedicated, killedForTimeout, job,
                  step, running, history, overdue, streamsClosed, pendingStart, lockVars,
                  startVars, process, current, output, ran>> /\ pc' = "dispatch"
  BY DEF DrainQueue
<1>2. /\ QueueTypeOK' /\ ProbesTried'
      /\ quitting' \subseteq workers /\ commands' \in [Slots -> Seq(Catalog \cup {Quit})]
  <2>1. CASE stopping \/ infrastructureFailed
    <3>1. IsFiniteSet(DOMAIN queue)
      <4>1. DOMAIN queue = 1..Len(queue) /\ Len(queue) \in Nat
        BY DEF TypeInv, TypeOK, QueueTypeOK
      <4> QED
        BY <4>1, FS_Interval
    <3>2. \A t \in Tests : Cardinality({i \in DOMAIN queue : queue[i].test = t}) \in Nat
      <4>1. TAKE t \in Tests
      <4>2. {i \in DOMAIN queue : queue[i].test = t} \in SUBSET DOMAIN queue
        OBVIOUS
      <4> QED
        BY <3>1, <4>2, FS_Subset, FS_CardinalityType
    <3>3. pendingJobs' \in [Tests -> Int] /\ queue' = <<>> /\ SendQuit(Jobless)
      <4>1. /\ pendingJobs' = [t \in Tests |->
                    pendingJobs[t] - Cardinality({i \in DOMAIN queue : queue[i].test = t})]
            /\ queue' = <<>> /\ SendQuit(Jobless)
        BY <2>1 DEF DrainQueue
      <4>2. pendingJobs \in [Tests -> Int]
        BY DEF TypeInv, TypeOK, QueueTypeOK
      <4> DEFINE c(t) == Cardinality({i \in DOMAIN queue : queue[i].test = t})
      <4>3. \A t \in Tests : c(t) \in Nat
        BY <3>2
      <4>4. pendingJobs' = [t \in Tests |-> pendingJobs[t] - c(t)]
        BY <4>1
      <4> HIDE DEF c
      <4> QED
        BY <4>1, <4>2, <4>3, <4>4
    <3>4. Jobless \in SUBSET workers
      BY DEF Jobless
    <3> QED
      BY <1>1, <3>3, <3>4, SendQuitType DEF QueueTypeOK, TypeInv, ProbesTried,
           QueuedProbesTried, HandedProbesTried, testVars
  <2>2. CASE ~(stopping \/ infrastructureFailed)
    <3>1. UNCHANGED <<queueVars, quitting, commands>>
      BY <2>2 DEF DrainQueue
    <3> QED
      BY <1>1, <3>1, Frames DEF TypeInv, TypeOK, WorkerTypeOK, ProcessTypeOK, queueVars, testVars
  <2> QED
    BY <2>1, <2>2
<1>3. LoopTypeOK'
  BY <1>1 DEF TypeInv, TypeOK, LoopTypeOK, Phases, startVars
<1>4. WorkerTypeOK' /\ ProcessTypeOK' /\ ProcessesInTests'
  BY <1>1, <1>2 DEF TypeInv, TypeOK, WorkerTypeOK, ProcessTypeOK, ProcessesInTests
<1> QED
  BY <1>1, <1>2, <1>3, <1>4, Frames DEF TypeInv, TypeOK

\* Scheduler::Assign.
LEMMA AssignTypeInv ==
  ASSUME TypeInv, Assign
  PROVE  TypeInv'
<1>1. PICK i \in DOMAIN queue, w \in Idle :
        /\ queue' = RemoveAt(queue, i)
        /\ job' = [job EXCEPT ![w] = queue[i]]
        /\ step' = [step EXCEPT ![w] = 0]
        /\ TakeLocks(queue[i])
        /\ StartStep(w, queue[i], 0)
  BY DEF Assign
<1>2. UNCHANGED <<pc, enqueued, batch, testVars, pendingJobs, workers, flagVars, history,
                  streamsClosed, pendingStart, startVars, process, current, output, ran>>
  BY DEF Assign
<1>3. w \in workers /\ w \in Slots
  BY DEF Idle, Live, TypeInv, TypeOK, WorkerTypeOK
<1>4. queue[i] \in Jobs /\ queue[i].test \in Catalog /\ queue' \in Seq(Jobs) /\ QueuedProbesTried'
  BY <1>1, <1>2, TakenJobType DEF testVars
<1>5. /\ running' \in [Slots -> [test : Catalog \cup {NoTest}, target : BOOLEAN, fatal : BOOLEAN]]
      /\ running'[w].test \in Catalog
      /\ \A v \in Slots \ {w} : running'[v] = running[v]
      /\ overdue' \subseteq overdue
      /\ commands' \in [Slots -> Seq(Catalog \cup {Quit})]
  BY <1>1, <1>3, <1>4, StartStepType
<1>6. QueueTypeOK'
  BY <1>2, <1>4 DEF TypeInv, TypeOK, QueueTypeOK
<1>7. WorkerTypeOK'
  BY <1>1, <1>2, <1>3, <1>4, <1>5 DEF TypeInv, TypeOK, WorkerTypeOK, flagVars
<1>8. LockTypeOK'
  <2>1. heldResources' \subseteq UNION {Resources[t] : t \in Catalog}
    BY <1>1, <1>4 DEF TypeInv, TypeOK, LockTypeOK, TakeLocks
  <2>2. serialRunning' \in BOOLEAN
    BY <1>1 DEF TakeLocks
  <2> QED
    BY <2>1, <2>2 DEF LockTypeOK
<1>9. ProcessTypeOK' /\ ProcessesInTests'
  BY <1>2, <1>5 DEF TypeInv, TypeOK, ProcessTypeOK, ProcessesInTests
<1>10. \A v \in Slots : job'[v] = IF v = w THEN queue[i] ELSE job[v]
  BY <1>1, <1>3 DEF TypeInv, TypeOK, WorkerTypeOK
<1>11. VacantSlots'
  BY <1>2, <1>3, <1>5, <1>10 DEF TypeInv, VacantSlots
<1>12. JobsUnderWay'
  <2>1. job[w] \notin Jobs
    BY DEF Idle, NoJob, Job, Jobs
  <2> QED
    BY <1>2, <1>3, <1>4, <1>5, <1>10, <2>1 DEF TypeInv, JobsUnderWay, IsRunning
<1>13. ProbesTried'
  <2>1. queue[i].kind = "probe" => attempts[queue[i].test] # <<>>
    BY DEF TypeInv, ProbesTried, QueuedProbesTried
  <2> QED
    BY <1>2, <1>4, <1>10, <2>1 DEF TypeInv, ProbesTried, HandedProbesTried, testVars
<1> QED
  BY <1>2, <1>6, <1>7, <1>8, <1>9, <1>11, <1>12, <1>13, Frames DEF TypeInv, TypeOK

\* A job that finds no room.
LEMMA MakeRoomTypeInv ==
  ASSUME TypeInv, MakeRoom
  PROVE  TypeInv'
<1>1. PICK i \in DOMAIN queue : PutBack(i)
  BY DEF MakeRoom
<1>2. \/ \E w \in Idle : SendQuit({w})
      \/ UNCHANGED <<quitting, commands>>
  BY DEF MakeRoom
<1>3. UNCHANGED <<enqueued, batch, testVars, pendingJobs, workers, ready, dedicated,
                  killedForTimeout, job, step, running, history, overdue, streamsClosed,
                  pendingStart, lockVars, startVars, process, current, output, ran>>
      /\ pc' = "start"
  BY DEF MakeRoom
<1>4. quitting' \subseteq workers /\ commands' \in [Slots -> Seq(Catalog \cup {Quit})]
  <2>1. CASE \E w \in Idle : SendQuit({w})
    BY <2>1, SendQuitType DEF Idle, Live
  <2>2. CASE UNCHANGED <<quitting, commands>>
    BY <2>2 DEF TypeInv, TypeOK, WorkerTypeOK, ProcessTypeOK
  <2> QED
    BY <1>2, <2>1, <2>2
<1>5. QueueTypeOK' /\ ProbesTried'
  BY <1>1, <1>3, TakenJobType DEF PutBack, TypeInv, TypeOK, QueueTypeOK, ProbesTried,
                                  HandedProbesTried, testVars
<1>6. LoopTypeOK'
  BY <1>3 DEF TypeInv, TypeOK, LoopTypeOK, Phases, startVars
<1>7. WorkerTypeOK' /\ ProcessTypeOK' /\ ProcessesInTests'
  BY <1>3, <1>4 DEF TypeInv, TypeOK, WorkerTypeOK, ProcessTypeOK, ProcessesInTests
<1> QED
  BY <1>3, <1>5, <1>6, <1>7, Frames DEF TypeInv, TypeOK

\* Scheduler::SpawnWorker.
LEMMA SpawnTypeInv ==
  ASSUME TypeInv, Spawn
  PROVE  TypeInv'
<1>1. PICK i \in DOMAIN queue, w \in Slots \ workers :
        /\ queue' = RemoveAt(queue, i)
        /\ workers' = workers \cup {w}
        /\ dedicated' = IF NeedsFresh(queue[i]) THEN dedicated \cup {w} ELSE dedicated
        /\ job' = [job EXCEPT ![w] = queue[i]]
        /\ pendingStart' = pendingStart \cup {w}
        /\ TakeLocks(queue[i])
        /\ Becomes(w, "starting")
  BY DEF Spawn
<1>2. UNCHANGED <<pc, enqueued, batch, testVars, pendingJobs, ready, quitting, killedForTimeout,
                  step, running, history, overdue, streamsClosed, startVars,
                  current, commands, output, ran>>
  BY DEF Spawn
<1>3. queue[i] \in Jobs /\ queue[i].test \in Catalog /\ queue' \in Seq(Jobs) /\ QueuedProbesTried'
  BY <1>1, <1>2, TakenJobType DEF testVars
<1>4. QueueTypeOK'
  BY <1>2, <1>3 DEF TypeInv, TypeOK, QueueTypeOK
<1>5. WorkerTypeOK'
  BY <1>1, <1>2, <1>3 DEF TypeInv, TypeOK, WorkerTypeOK
<1>6. LockTypeOK'
  <2>1. heldResources' \subseteq UNION {Resources[t] : t \in Catalog}
    BY <1>1, <1>3 DEF TypeInv, TypeOK, LockTypeOK, TakeLocks
  <2>2. serialRunning' \in BOOLEAN
    BY <1>1 DEF TakeLocks
  <2> QED
    BY <2>1, <2>2 DEF LockTypeOK
<1>7. \A v \in Slots : /\ job'[v] = IF v = w THEN queue[i] ELSE job[v]
                       /\ process'[v] = IF v = w THEN "starting" ELSE process[v]
  BY <1>1 DEF TypeInv, TypeOK, WorkerTypeOK, ProcessTypeOK, Becomes
<1>8. ProcessTypeOK' /\ ProcessesInTests'
  BY <1>1, <1>2, <1>7 DEF TypeInv, TypeOK, ProcessTypeOK, ProcessStates, ProcessesInTests, Becomes
<1>9. VacantSlots'
  BY <1>1, <1>2, <1>7 DEF TypeInv, VacantSlots
<1>10. JobsUnderWay'
  <2>1. running[w] = NotRunning
    BY <1>1 DEF TypeInv, VacantSlots
  <2> QED
    BY <1>1, <1>2, <1>3, <1>7, <2>1 DEF TypeInv, JobsUnderWay, IsRunning
<1>11. ClosedIsLast'
  <2>1. process[w] = "none"
    BY <1>1 DEF TypeInv, VacantSlots
  <2> QED
    BY <1>2, <1>7, <2>1 DEF TypeInv, ClosedIsLast
<1>12. ProbesTried'
  <2>1. queue[i].kind = "probe" => attempts[queue[i].test] # <<>>
    BY DEF TypeInv, ProbesTried, QueuedProbesTried
  <2> QED
    BY <1>2, <1>3, <1>7, <2>1 DEF TypeInv, ProbesTried, HandedProbesTried, testVars
<1> QED
  BY <1>2, <1>4, <1>5, <1>6, <1>8, <1>9, <1>10, <1>11, <1>12, Frames DEF TypeInv, TypeOK

\* Scheduler::SpawnWorker, without a process.
LEMMA SpawnFailsTypeInv ==
  ASSUME TypeInv, SpawnFails
  PROVE  TypeInv'
<1>1. PICK i \in DOMAIN queue : PutBack(i)
  BY DEF SpawnFails
<1>2. UNCHANGED <<enqueued, batch, testVars, pendingJobs, workerVars, lockVars, processVars>>
      /\ pc' = "start"
  BY DEF SpawnFails
<1>3. QueueTypeOK' /\ ProbesTried'
  BY <1>1, <1>2, TakenJobType DEF PutBack, TypeInv, TypeOK, QueueTypeOK, ProbesTried,
                                  HandedProbesTried, testVars, workerVars
<1>4. startupFailures' \in Nat /\ infrastructureFailed' \in BOOLEAN
  <2>1. CASE UNCHANGED startVars
    BY <2>1 DEF TypeInv, TypeOK, LoopTypeOK, startVars
  <2>2. CASE /\ startupFailures' = startupFailures + 1
             /\ infrastructureFailed' = (startupFailures + 1 >= StartupFailuresToGiveUp)
    <3>1. startupFailures' \in Nat
      BY <2>2 DEF TypeInv, TypeOK, LoopTypeOK
    <3>2. infrastructureFailed' \in BOOLEAN
      BY <2>2
    <3> QED
      BY <3>1, <3>2
  <2> QED
    BY <2>1, <2>2 DEF SpawnFails
<1>5. LoopTypeOK'
  BY <1>2, <1>4 DEF TypeInv, TypeOK, LoopTypeOK, Phases
<1> QED
  BY <1>2, <1>3, <1>5, Frames DEF TypeInv, TypeOK, workerVars, processVars

\* Scheduler::StartPending.
LEMMA StartPendingTypeInv ==
  ASSUME TypeInv, StartPending
  PROVE  TypeInv'
<1>1. PICK w \in Startable :
        pendingStart' = pendingStart \ {w} /\ StartStep(w, job[w], step[w])
  BY DEF StartPending
<1>2. UNCHANGED <<pc, enqueued, batch, testVars, queueVars, workers, flagVars, job, step, history,
                  streamsClosed, lockVars, startVars, process, current, output, ran>>
  BY DEF StartPending
<1>3. w \in workers /\ w \in Slots /\ w \in pendingStart
  BY DEF Startable, TypeInv, TypeOK, WorkerTypeOK
<1>4. job[w] \in Jobs /\ step[w] \in Nat
  BY <1>3 DEF TypeInv, TypeOK, WorkerTypeOK, JobsUnderWay
<1>5. /\ running' \in [Slots -> [test : Catalog \cup {NoTest}, target : BOOLEAN, fatal : BOOLEAN]]
      /\ running'[w].test \in Catalog
      /\ \A v \in Slots \ {w} : running'[v] = running[v]
      /\ overdue' \subseteq overdue
      /\ commands' \in [Slots -> Seq(Catalog \cup {Quit})]
  BY <1>1, <1>3, <1>4, StartStepType
<1>6. WorkerTypeOK'
  BY <1>1, <1>2, <1>5 DEF TypeInv, TypeOK, WorkerTypeOK, flagVars
<1>7. ProcessTypeOK' /\ ProcessesInTests'
  BY <1>2, <1>5 DEF TypeInv, TypeOK, ProcessTypeOK, ProcessesInTests
<1>8. VacantSlots'
  BY <1>2, <1>3, <1>5 DEF TypeInv, VacantSlots
<1>9. JobsUnderWay'
  BY <1>1, <1>2, <1>4, <1>5 DEF TypeInv, JobsUnderWay, IsRunning
<1> QED
  BY <1>2, <1>6, <1>7, <1>8, <1>9, Frames DEF TypeInv, TypeOK, queueVars, testVars

\* The workers that go home.
LEMMA SendHomeTypeInv ==
  ASSUME TypeInv, SendHome
  PROVE  TypeInv'
<1>1. UNCHANGED <<enqueued, batch, testVars, queueVars, workers, ready, dedicated,
                  killedForTimeout, job, step, running, history, overdue, streamsClosed,
                  pendingStart, lockVars, startVars, process, current, output, ran>>
      /\ pc' \in {"done", "wait"}
  BY DEF SendHome
<1>2. (IF queue = <<>> THEN Jobless \cap ready ELSE {}) \in SUBSET workers
  BY DEF Jobless
<1>3. quitting' \subseteq workers /\ commands' \in [Slots -> Seq(Catalog \cup {Quit})]
  BY <1>2, SendQuitType DEF SendHome
<1>4. LoopTypeOK'
  BY <1>1 DEF TypeInv, TypeOK, LoopTypeOK, Phases, startVars
<1>5. WorkerTypeOK' /\ ProcessTypeOK' /\ ProcessesInTests'
  BY <1>1, <1>3 DEF TypeInv, TypeOK, WorkerTypeOK, ProcessTypeOK, ProcessesInTests
<1> QED
  BY <1>1, <1>4, <1>5, Frames DEF TypeInv, TypeOK, queueVars, testVars

\* The events of a turn.
LEMMA TakeEventsTypeInv ==
  ASSUME TypeInv, TakeEvents
  PROVE  TypeInv'
<1> USE DEF TakeEvents
<1>1. LoopTypeOK' /\ ProcessTypeOK' /\ ProcessesInTests'
  BY DEF TypeInv, TypeOK, LoopTypeOK, ProcessTypeOK, ProcessesInTests, Phases, startVars
<1>2. VacantSlots'
  BY DEF TypeInv, VacantSlots, workerVars
<1>3. ClosedIsLast'
  <2>1. streamsClosed' = streamsClosed
    BY DEF workerVars
  <2> QED
    BY <2>1 DEF TypeInv, TypeOK, ProcessTypeOK, ClosedIsLast
<1> QED
  BY <1>1, <1>2, <1>3, Frames DEF TypeInv, TypeOK, workerVars, queueVars, testVars

\* HandleLine, "fatal".
LEMMA HandleFatalTypeInv ==
  ASSUME TypeInv, NEW w \in Slots, HandleFatal(w)
  PROVE  TypeInv'
<1> USE DEF HandleFatal, NextEvent, DropEvent
<1>1. w \in workers
  BY DEF TypeInv, VacantSlots
<1>2. LoopTypeOK'
  BY DEF TypeInv, TypeOK, LoopTypeOK, startVars
<1>6. WorkerTypeOK'
  <2> DEFINE R == [test : Catalog \cup {NoTest}, target : BOOLEAN, fatal : BOOLEAN]
  <2>1. running \in [Slots -> R]
    BY DEF TypeInv, TypeOK, WorkerTypeOK
  <2>2. \A r \in R : [r EXCEPT !.fatal = TRUE] \in R
    OBVIOUS
  <2> HIDE DEF R
  <2>3. running' \in [Slots -> R]
    BY <2>1, <2>2
  <2> QED
    BY <2>3 DEF TypeInv, TypeOK, WorkerTypeOK, flagVars, R
<1>3. VacantSlots'
  BY <1>1 DEF TypeInv, TypeOK, WorkerTypeOK, VacantSlots, processVars
<1>4. JobsUnderWay'
  BY DEF TypeInv, TypeOK, WorkerTypeOK, JobsUnderWay, IsRunning
<1>5. ClosedIsLast'
  BY DEF TypeInv, TypeOK, LoopTypeOK, ClosedIsLast, processVars
<1> QED
  BY <1>2, <1>3, <1>4, <1>5, <1>6, Frames DEF TypeInv, TypeOK, queueVars, testVars, lockVars,
       processVars

\* HandleLine, "end", when it is ignored.
LEMMA IgnoreEndTypeInv ==
  ASSUME TypeInv, NEW w \in Slots, IgnoreEnd(w)
  PROVE  TypeInv'
<1> USE DEF IgnoreEnd, NextEvent, DropEvent
<1>1. w \in workers
  BY DEF TypeInv, VacantSlots
<1>2. LoopTypeOK'
  BY DEF TypeInv, TypeOK, LoopTypeOK, startVars
<1>3. VacantSlots'
  BY <1>1 DEF TypeInv, VacantSlots, processVars, workerVars
<1>4. ClosedIsLast'
  BY DEF TypeInv, TypeOK, LoopTypeOK, ClosedIsLast, processVars, workerVars
<1> QED
  BY <1>2, <1>3, <1>4, Frames DEF TypeInv, TypeOK, queueVars, testVars, workerVars, processVars

\* StepEnded, before the target.
LEMMA HandleStepEndTypeInv ==
  ASSUME TypeInv, NEW w \in Slots, HandleStepEnd(w)
  PROVE  TypeInv'
<1>1. /\ NextEvent(w, "end") /\ DropEvent(w) /\ IsRunning(w)
      /\ history' = [history EXCEPT ![w] = Append(@, running[w].test)]
      /\ step' = [step EXCEPT ![w] = @ + 1]
      /\ StartStep(w, job[w], step[w] + 1)
  BY DEF HandleStepEnd
<1>2. UNCHANGED <<pc, enqueued, testVars, queueVars, workers, flagVars, job, streamsClosed,
                  pendingStart, lockVars, startVars, process, current, output, ran>>
  BY DEF HandleStepEnd
<1>3. w \in workers
  BY <1>1 DEF TypeInv, VacantSlots, NextEvent
<1>4. job[w] \in Jobs /\ step[w] + 1 \in Nat /\ running[w].test \in Catalog
  BY <1>1 DEF TypeInv, TypeOK, WorkerTypeOK, JobsUnderWay
<1>5. /\ running' \in [Slots -> [test : Catalog \cup {NoTest}, target : BOOLEAN, fatal : BOOLEAN]]
      /\ running'[w].test \in Catalog
      /\ \A v \in Slots \ {w} : running'[v] = running[v]
      /\ overdue' \subseteq overdue
      /\ commands' \in [Slots -> Seq(Catalog \cup {Quit})]
  BY <1>1, <1>4, StartStepType
<1>6. WorkerTypeOK'
  <2>1. history' \in [Slots -> Seq(Catalog)]
    BY <1>1, <1>4 DEF TypeInv, TypeOK, WorkerTypeOK
  <2>2. step' \in [Slots -> Nat]
    BY <1>1, <1>4 DEF TypeInv, TypeOK, WorkerTypeOK
  <2> QED
    BY <1>2, <1>5, <2>1, <2>2 DEF TypeInv, TypeOK, WorkerTypeOK, flagVars
<1>7. LoopTypeOK' /\ ProcessTypeOK' /\ ProcessesInTests'
  <2>1. LoopTypeOK'
    BY <1>1, <1>2 DEF TypeInv, TypeOK, LoopTypeOK, startVars, NextEvent, DropEvent
  <2>2. ProcessTypeOK' /\ ProcessesInTests'
    BY <1>2, <1>5 DEF TypeInv, TypeOK, ProcessTypeOK, ProcessesInTests
  <2> QED
    BY <2>1, <2>2
<1>8. VacantSlots'
  BY <1>1, <1>2, <1>3, <1>5 DEF TypeInv, VacantSlots, DropEvent
<1>9. JobsUnderWay'
  BY <1>1, <1>2, <1>4, <1>5 DEF TypeInv, JobsUnderWay, IsRunning
<1>10. ClosedIsLast'
  BY <1>1, <1>2 DEF TypeInv, TypeOK, LoopTypeOK, ClosedIsLast, NextEvent, DropEvent
<1> QED
  BY <1>2, <1>6, <1>7, <1>8, <1>9, <1>10, Frames DEF TypeInv, TypeOK, queueVars, testVars

\* StepEnded, for the target.
LEMMA HandleTargetEndTypeInv ==
  ASSUME TypeInv, NEW w \in Slots, HandleTargetEnd(w)
  PROVE  TypeInv'
<1>1. /\ NextEvent(w, "end") /\ DropEvent(w) /\ IsRunning(w)
      /\ Complete(w, Head(batch[w]).is) /\ ReleaseLocks(w)
      /\ job' = [job EXCEPT ![w] = NoJob]
      /\ running' = [running EXCEPT ![w] = NotRunning]
      /\ history' = [history EXCEPT ![w] = Append(@, running[w].test)]
      /\ overdue' = overdue \ {w}
      /\ SendQuit({w} \cap dedicated)
  BY DEF HandleTargetEnd
<1>2. UNCHANGED <<pc, enqueued, workers, ready, dedicated, killedForTimeout, step, streamsClosed,
                  pendingStart, startVars, process, current, output, ran>>
  BY DEF HandleTargetEnd
<1>3. w \in workers /\ job[w] \in Jobs /\ running[w].test \in Catalog
  BY <1>1 DEF TypeInv, VacantSlots, JobsUnderWay, NextEvent
<1>4. Head(batch[w]).is \in Outcome
  <2>1. Head(batch[w]) \in Messages /\ Head(batch[w]).kind = "end"
    BY <1>1 DEF NextEvent, TypeInv, TypeOK, LoopTypeOK
  <2>2. \A m \in Messages : m.kind = "end" => m.is \in Reported
    BY DEF Messages
  <2> QED
    BY <2>1, <2>2 DEF Reported, Outcome
<1>5. /\ QueueTypeOK' /\ TestTypeOK' /\ VerdictTypeOK' /\ QueuedProbesTried'
      /\ \A u \in Tests : attempts[u] # <<>> => attempts'[u] # <<>>
  BY <1>1, <1>3, <1>4, CompleteType
<1>6. quitting' \subseteq workers /\ commands' \in [Slots -> Seq(Catalog \cup {Quit})]
  <2>1. {w} \cap dedicated \in SUBSET workers
    BY <1>3
  <2> QED
    BY <1>1, <2>1, SendQuitType
<1>7. \A v \in Slots : /\ job'[v] = IF v = w THEN NoJob ELSE job[v]
                       /\ running'[v] = IF v = w THEN NotRunning ELSE running[v]
  BY <1>1 DEF TypeInv, TypeOK, WorkerTypeOK
<1>8. WorkerTypeOK'
  <2>1. running' \in [Slots -> [test : Catalog \cup {NoTest}, target : BOOLEAN, fatal : BOOLEAN]]
    BY <1>1 DEF TypeInv, TypeOK, WorkerTypeOK, NotRunning, Running
  <2> QED
    BY <1>1, <1>2, <1>3, <1>6, <2>1 DEF TypeInv, TypeOK, WorkerTypeOK
<1>9. LockTypeOK'
  <2>1. heldResources' \subseteq heldResources
    BY <1>1 DEF ReleaseLocks
  <2>2. serialRunning' \in BOOLEAN
    BY <1>1 DEF ReleaseLocks
  <2> QED
    BY <2>1, <2>2 DEF TypeInv, TypeOK, LockTypeOK
<1>10. LoopTypeOK' /\ ProcessTypeOK' /\ ProcessesInTests'
  <2>1. LoopTypeOK'
    BY <1>1, <1>2 DEF TypeInv, TypeOK, LoopTypeOK, startVars, NextEvent, DropEvent
  <2>2. ProcessTypeOK' /\ ProcessesInTests'
    BY <1>2, <1>6 DEF TypeInv, TypeOK, ProcessTypeOK, ProcessesInTests
  <2> QED
    BY <2>1, <2>2
<1>11. VacantSlots'
  BY <1>1, <1>2, <1>3, <1>7 DEF TypeInv, VacantSlots, DropEvent
<1>12. JobsUnderWay'
  <2>1. w \notin pendingStart
    BY <1>1 DEF TypeInv, JobsUnderWay
  <2> QED
    BY <1>2, <1>7, <2>1 DEF TypeInv, JobsUnderWay, IsRunning
<1>13. ClosedIsLast'
  BY <1>1, <1>2, SMTT(60) DEF TypeInv, TypeOK, LoopTypeOK, ClosedIsLast, NextEvent, DropEvent
<1>14. ProbesTried'
  <2>1. \A v \in Slots : job[v].kind = "probe" => job[v].test \in Tests
    BY DEF TypeInv, TypeOK, WorkerTypeOK, Jobs, NoJob, Job
  <2>2. NoJob.kind # "probe"
    BY DEF NoJob, Job
  <2> QED
    BY <1>5, <1>7, <2>1, <2>2 DEF TypeInv, ProbesTried, HandedProbesTried
<1> QED
  BY <1>2, <1>5, <1>8, <1>9, <1>10, <1>11, <1>12, <1>13, <1>14 DEF TypeInv, TypeOK

\* HandleLine, "hello".
LEMMA HandleHelloTypeInv ==
  ASSUME TypeInv, NEW w \in Slots, HandleHello(w)
  PROVE  TypeInv'
<1> USE DEF HandleHello, NextEvent, DropEvent, Kill
<1>1. w \in workers
  BY DEF TypeInv, VacantSlots
<1>2. LoopTypeOK'
  BY DEF TypeInv, TypeOK, LoopTypeOK
<1>3. WorkerTypeOK'
  BY <1>1 DEF TypeInv, TypeOK, WorkerTypeOK
<1>4. ProcessTypeOK' /\ ProcessesInTests'
  BY DEF TypeInv, TypeOK, ProcessTypeOK, ProcessesInTests, ProcessStates
<1>5. VacantSlots'
  BY <1>1 DEF TypeInv, VacantSlots
<1>6. ClosedIsLast'
  <2>1. output' = output /\ streamsClosed' = streamsClosed
    OBVIOUS
  <2>2. \A v \in Slots : process[v] = "gone" => process'[v] = "gone"
    BY DEF TypeInv, TypeOK, ProcessTypeOK
  <2>3. batch \in [Slots -> Seq(Messages)] /\ ClosedIsLast
    BY DEF TypeInv, TypeOK, LoopTypeOK
  <2> QED
    BY <2>1, <2>2, <2>3 DEF ClosedIsLast
<1> QED
  BY <1>2, <1>3, <1>4, <1>5, <1>6, Frames DEF TypeInv, TypeOK, queueVars, testVars, lockVars

\* Scheduler::Handle, the end of the streams.
LEMMA HandleClosedTypeInv ==
  ASSUME TypeInv, NEW w \in Slots, HandleClosed(w)
  PROVE  TypeInv'
<1> USE DEF HandleClosed, NextEvent, DropEvent
<1>1. w \in workers
  BY DEF TypeInv, VacantSlots
<1>2. LoopTypeOK'
  BY DEF TypeInv, TypeOK, LoopTypeOK, startVars
<1>3. WorkerTypeOK'
  BY <1>1 DEF TypeInv, TypeOK, WorkerTypeOK, flagVars
<1>4. VacantSlots'
  BY <1>1 DEF TypeInv, VacantSlots, processVars
<1>5. ClosedIsLast'
  <2>1. batch \in [Slots -> Seq(Messages)]
    BY DEF TypeInv, TypeOK, LoopTypeOK
  <2>2. Head(batch[w]) = Closed
    <3>1. Head(batch[w]) \in Messages /\ Head(batch[w]).kind = "closed"
      BY <2>1
    <3> QED
      BY <3>1 DEF Messages, Closed, Message
  <2>3. 1 = Len(batch[w]) /\ output[w] = <<>> /\ process[w] = "gone"
    <3>1. 1 \in DOMAIN batch[w] /\ batch[w][1] = Closed
      BY <2>1, <2>2
    <3> QED
      BY <3>1 DEF TypeInv, ClosedIsLast
  <2>4. batch'[w] = <<>>
    BY <2>1, <2>3
  <2>5. \A v \in Slots \ {w} : batch'[v] = batch[v]
    BY <2>1
  <2>6. UNCHANGED <<output, process>> /\ streamsClosed' = streamsClosed \cup {w}
    BY DEF processVars
  <2> QED
    BY <2>3, <2>4, <2>5, <2>6 DEF TypeInv, ClosedIsLast
<1> QED
  BY <1>2, <1>3, <1>4, <1>5, Frames DEF TypeInv, TypeOK, queueVars, testVars, lockVars, processVars

\* Scheduler::CheckDeadlines.
LEMMA CheckDeadlinesTypeInv ==
  ASSUME TypeInv, CheckDeadlines
  PROVE  TypeInv'
<1> DEFINE timedOut == {w \in overdue : IsRunning(w) /\ w \notin killedForTimeout}
           silent == {w \in overdue \ timedOut : w \notin ready /\ w \notin quitting}
<1>1. /\ killedForTimeout' = killedForTimeout \cup timedOut
      /\ quitting' = quitting \cup timedOut \cup silent
      /\ Kill(timedOut \cup silent)
      /\ overdue' = {} /\ pc' = "reap"
  BY DEF CheckDeadlines
<1>2. UNCHANGED <<enqueued, batch, testVars, queueVars, workers, ready, dedicated, job, step,
                  running, history, streamsClosed, pendingStart, lockVars, startVars, current,
                  commands, output, ran>>
  BY DEF CheckDeadlines
<1>3. timedOut \subseteq workers /\ silent \subseteq workers
  BY DEF TypeInv, TypeOK, WorkerTypeOK
<1> HIDE DEF timedOut, silent
<1>4. WorkerTypeOK'
  BY <1>1, <1>2, <1>3 DEF TypeInv, TypeOK, WorkerTypeOK
<1>5. LoopTypeOK'
  BY <1>1, <1>2 DEF TypeInv, TypeOK, LoopTypeOK, Phases, startVars
<1>6. /\ process' \in [Slots -> ProcessStates]
      /\ \A w \in Slots : process'[w] \in {process[w], "killed"}
      /\ \A w \in Slots : process[w] \in {"none", "gone"} => process'[w] = process[w]
  BY <1>1 DEF TypeInv, TypeOK, ProcessTypeOK, ProcessStates, Kill
<1>7. ProcessTypeOK' /\ ProcessesInTests'
  BY <1>2, <1>6 DEF TypeInv, TypeOK, ProcessTypeOK, ProcessesInTests
<1>8. VacantSlots'
  BY <1>2, <1>6 DEF TypeInv, VacantSlots
<1>9. ClosedIsLast'
  BY <1>2, <1>6 DEF TypeInv, ClosedIsLast
<1> QED
  BY <1>2, <1>4, <1>5, <1>7, <1>8, <1>9, Frames DEF TypeInv, TypeOK, queueVars, testVars

\* Scheduler::WorkerEnded and Reap.
LEMMA WorkerEndedTypeInv ==
  ASSUME TypeInv, NEW w \in Slots, WorkerEnded(w)
  PROVE  TypeInv'
<1> DEFINE t == job[w].test
           pending == [pendingJobs EXCEPT ![t] = @ - 1]
           startsOver == IF IsRunning(w) THEN job[w].kind # "probe" ELSE ~infrastructureFailed'
           ended == IF w \in killedForTimeout THEN "timed-out" ELSE "crashed"
<1>1. /\ w \in streamsClosed /\ CountStartupFailure(w) /\ Vacate(w)
      /\ UNCHANGED <<pc, enqueued, batch, output>>
  BY DEF WorkerEnded
<1>2. w \in workers /\ batch[w] = <<>> /\ output[w] = <<>>
  BY <1>1 DEF TypeInv, TypeOK, WorkerTypeOK, ClosedIsLast
<1>3. job[w] # NoJob => job[w] \in Jobs /\ t \in Tests /\ pending \in [Tests -> Int]
  BY DEF TypeInv, TypeOK, WorkerTypeOK, QueueTypeOK, Jobs
<1>4. IsRunning(w) => job[w] \in Jobs /\ job[w] # NoJob
  BY DEF TypeInv, JobsUnderWay, Jobs, NoJob, Job
<1>5. running[w].target => IsRunning(w)
  BY DEF IsRunning, NotRunning, Running
<1>6. /\ QueueTypeOK' /\ TestTypeOK' /\ VerdictTypeOK' /\ QueuedProbesTried'
      /\ \A u \in Tests : attempts[u] # <<>> => attempts'[u] # <<>>
  <2> HIDE DEF pending
  <2>1. CASE running[w].target /\ Complete(w, ended)
    <3>1. ended \in Outcome
      BY DEF Outcome
    <3> QED
      BY <1>4, <1>5, <2>1, <3>1, CompleteType
  <2>2. CASE /\ IsRunning(w) /\ job[w].kind = "probe" /\ ProbeEnded(t, FALSE, pending)
             /\ UNCHANGED <<attempts, repeatsLeft, retriesUsed, retryBudget>>
    <3>1. attempts[t] # <<>>
      BY <2>2 DEF TypeInv, ProbesTried, HandedProbesTried
    <3>2. t \in Tests /\ pending \in [Tests -> Int]
      BY <1>3, <1>4, <2>2
    <3> HIDE DEF t
    <3> QED
      BY <2>2, <3>1, <3>2, ProbeEndedType DEF TypeInv, TypeOK, ProbesTried
  <2>3. CASE job[w] # NoJob /\ Enqueue(job[w], attempts[t], pending) /\ UNCHANGED testVars
    <3>1. /\ QueueTypeOK'
          /\ \A i \in DOMAIN queue' :
               queue'[i] = job[w] \/ \E k \in DOMAIN queue : queue'[i] = queue[k]
      BY <1>3, <2>3, EnqueueType DEF TypeInv, TypeOK
    <3> QED
      BY <2>3, <3>1, Frames DEF TypeInv, ProbesTried, QueuedProbesTried, HandedProbesTried, testVars
  <2>4. CASE job[w] # NoJob /\ pendingJobs' = pending /\ UNCHANGED <<queue, testVars>>
    BY <1>3, <2>4, Frames DEF TypeInv, TypeOK, QueueTypeOK, ProbesTried, QueuedProbesTried, testVars
  <2>5. CASE UNCHANGED <<queueVars, testVars>>
    BY <2>5, Frames DEF TypeInv, ProbesTried, QueuedProbesTried, queueVars, testVars
  <2> QED
    BY <2>1, <2>2, <2>3, <2>4, <2>5 DEF WorkerEnded, pending
<1>7. startupFailures' \in Nat /\ infrastructureFailed' \in BOOLEAN
  <2>1. CASE UNCHANGED startVars
    BY <2>1 DEF TypeInv, TypeOK, LoopTypeOK, startVars
  <2>2. CASE /\ startupFailures' = startupFailures + 1
             /\ infrastructureFailed' = (startupFailures' >= StartupFailuresToGiveUp)
    <3>1. startupFailures' \in Nat
      BY <2>2 DEF TypeInv, TypeOK, LoopTypeOK
    <3>2. infrastructureFailed' \in BOOLEAN
      BY <2>2
    <3> QED
      BY <3>1, <3>2
  <2> QED
    BY <1>1, <2>1, <2>2 DEF CountStartupFailure
<1>8. LoopTypeOK'
  BY <1>1, <1>7 DEF TypeInv, TypeOK, LoopTypeOK
<1>9. LockTypeOK'
  <2>1. CASE UNCHANGED lockVars
    BY <2>1, Frames
  <2>2. CASE ReleaseLocks(w)
    <3>1. heldResources' \subseteq heldResources
      BY <2>2 DEF ReleaseLocks
    <3>2. serialRunning' \in BOOLEAN
      BY <2>2 DEF ReleaseLocks
    <3> QED
      BY <3>1, <3>2 DEF TypeInv, TypeOK, LockTypeOK
  <2> QED
    BY <2>1, <2>2 DEF WorkerEnded
<1>10. /\ workers' = workers \ {w} /\ pendingStart' = pendingStart \ {w}
       /\ streamsClosed' = streamsClosed \ {w}
       /\ \A v \in Slots : /\ job'[v] = IF v = w THEN NoJob ELSE job[v]
                           /\ running'[v] = IF v = w THEN NotRunning ELSE running[v]
                           /\ process'[v] = IF v = w THEN "none" ELSE process[v]
                           /\ current'[v] = IF v = w THEN NoTest ELSE current[v]
  BY <1>1 DEF TypeInv, TypeOK, WorkerTypeOK, ProcessTypeOK, Vacate, Becomes
<1>11. WorkerTypeOK'
  <2>1. running' \in [Slots -> [test : Catalog \cup {NoTest}, target : BOOLEAN, fatal : BOOLEAN]]
    BY <1>1 DEF TypeInv, TypeOK, WorkerTypeOK, NotRunning, Running, Vacate
  <2>2. step' \in [Slots -> Nat] /\ history' \in [Slots -> Seq(Catalog)]
    BY <1>1 DEF TypeInv, TypeOK, WorkerTypeOK, Vacate
  <2>3. job' \in [Slots -> Jobs \cup {NoJob}]
    BY <1>1 DEF TypeInv, TypeOK, WorkerTypeOK, Vacate
  <2> QED
    BY <1>1, <2>1, <2>2, <2>3 DEF TypeInv, TypeOK, WorkerTypeOK, Vacate
<1>12. ProcessTypeOK' /\ ProcessesInTests'
  <2>1. ProcessTypeOK'
    BY <1>1 DEF TypeInv, TypeOK, ProcessTypeOK, ProcessStates, Vacate, Becomes
  <2> QED
    BY <1>10, <2>1 DEF TypeInv, ProcessesInTests
<1>13. VacantSlots' /\ JobsUnderWay' /\ ClosedIsLast'
  BY <1>1, <1>2, <1>10 DEF TypeInv, VacantSlots, JobsUnderWay, ClosedIsLast, IsRunning
<1>14. ProbesTried'
  <2>1. \A v \in Slots : job[v].kind = "probe" => job[v].test \in Tests
    BY DEF TypeInv, TypeOK, WorkerTypeOK, Jobs, NoJob, Job
  <2>2. NoJob.kind # "probe"
    BY DEF NoJob, Job
  <2> QED
    BY <1>6, <1>10, <2>1, <2>2 DEF TypeInv, ProbesTried, HandedProbesTried
<1> QED
  BY <1>6, <1>8, <1>9, <1>11, <1>12, <1>13, <1>14 DEF TypeInv, TypeOK

\* The clock.
LEMMA LimitPassesTypeInv ==
  ASSUME TypeInv, NEW w \in Slots, LimitPasses(w)
  PROVE  TypeInv'
<1>1. WorkerTypeOK'
  BY DEF LimitPasses, TypeInv, TypeOK, WorkerTypeOK, flagVars
<1> QED
  BY <1>1, Frames DEF LimitPasses, TypeInv, TypeOK, queueVars, testVars, lockVars, processVars

\* A process that goes on and sends something, or nothing.
LEMMA ProcessMovesTypeInv ==
  ASSUME TypeInv, NEW w \in Slots, process[w] \notin {"none", "gone"},
         NEW state \in ProcessStates, Becomes(w, state),
         NEW sent \in Seq(Messages), output' = [output EXCEPT ![w] = @ \o sent],
         \A i \in DOMAIN sent : sent[i] = Closed => i = Len(sent) /\ state = "gone",
         current' \in [Slots -> Catalog \cup {NoTest}],
         \A v \in Slots \ {w} : current'[v] = current[v],
         state \in {"running", "raising"} => current'[w] \in Catalog,
         commands' \in [Slots -> Seq(Catalog \cup {Quit})], ran' \in [Slots -> Seq(Catalog)],
         UNCHANGED <<pc, enqueued, batch, testVars, queueVars, workerVars, lockVars, startVars>>
  PROVE  TypeInv'
<1>1. output \in [Slots -> Seq(Messages)] /\ process \in [Slots -> ProcessStates]
  BY DEF TypeInv, TypeOK, ProcessTypeOK
<1>2. process' \in [Slots -> ProcessStates] /\ output' \in [Slots -> Seq(Messages)]
  BY <1>1 DEF Becomes
<1>3. /\ process'[w] = state /\ output'[w] = output[w] \o sent
      /\ \A v \in Slots \ {w} : process'[v] = process[v] /\ output'[v] = output[v]
  BY <1>1 DEF Becomes
<1>4. w \in workers
  BY DEF TypeInv, VacantSlots
<1>5. ProcessTypeOK' /\ ProcessesInTests'
  BY <1>2, <1>3 DEF TypeInv, TypeOK, ProcessTypeOK, ProcessesInTests
<1>6. VacantSlots'
  BY <1>3, <1>4 DEF TypeInv, VacantSlots, workerVars
<1>7. ClosedIsLast'
  <2>1. UNCHANGED <<batch, streamsClosed>>
    BY DEF workerVars
  <2>2. \A i \in DOMAIN output[w] : output[w][i] # Closed
    BY DEF TypeInv, ClosedIsLast
  <2>3. \A i \in DOMAIN output'[w] :
          output'[w][i] = Closed => i = Len(output'[w]) /\ state = "gone"
    <3> DEFINE s == output[w]
    <3>1. s \in Seq(Messages) /\ Len(s) \in Nat /\ Len(sent) \in Nat
      BY <1>1
    <3>2. \A i \in 1..Len(s) : s[i] # Closed
      BY <2>2, <3>1
    <3>3. \A i \in 1..Len(sent) : sent[i] = Closed => i = Len(sent) /\ state = "gone"
      OBVIOUS
    <3> HIDE DEF s
    <3>4. /\ DOMAIN (s \o sent) = 1..(Len(s) + Len(sent)) /\ Len(s \o sent) = Len(s) + Len(sent)
          /\ \A i \in DOMAIN (s \o sent) :
               (s \o sent)[i] = IF i <= Len(s) THEN s[i] ELSE sent[i - Len(s)]
      BY <3>1
    <3>5. ASSUME NEW i \in DOMAIN (s \o sent), (s \o sent)[i] = Closed
          PROVE  i = Len(s \o sent) /\ state = "gone"
      <4>1. i \in Nat /\ ~(i <= Len(s))
        BY <3>1, <3>2, <3>4, <3>5
      <4>2. i - Len(s) \in 1..Len(sent) /\ sent[i - Len(s)] = Closed
        BY <3>1, <3>4, <3>5, <4>1
      <4>3. i - Len(s) = Len(sent) /\ state = "gone"
        BY <3>3, <4>2
      <4> QED
        BY <3>1, <3>4, <4>1, <4>3
    <3> QED
      BY <1>3, <3>5 DEF s
  <2>4. (\A i \in DOMAIN batch[w] : batch[w][i] # Closed) /\ w \notin streamsClosed
    BY DEF TypeInv, ClosedIsLast
  <2> DEFINE Ok(v) ==
        /\ \A i \in DOMAIN output'[v] :
             output'[v][i] = Closed => i = Len(output'[v]) /\ process'[v] = "gone"
        /\ \A i \in DOMAIN batch'[v] :
             batch'[v][i] = Closed
               => i = Len(batch'[v]) /\ output'[v] = <<>> /\ process'[v] = "gone"
        /\ v \in streamsClosed' => batch'[v] = <<>> /\ output'[v] = <<>> /\ process'[v] = "gone"
  <2>5. Ok(w)
    BY <1>3, <2>1, <2>3, <2>4
  <2>6. ASSUME NEW v \in Slots \ {w} PROVE Ok(v)
    <3>1. /\ output'[v] = output[v] /\ process'[v] = process[v]
          /\ batch'[v] = batch[v] /\ streamsClosed' = streamsClosed
      BY <1>3, <2>1
    <3>2. ClosedIsLast
      BY DEF TypeInv
    <3> QED
      BY <3>1, <3>2 DEF ClosedIsLast
  <2> QED
    BY <2>5, <2>6 DEF ClosedIsLast
<1> QED
  BY <1>5, <1>6, <1>7, Frames DEF TypeInv, TypeOK, workerVars, queueVars, testVars, startVars

\* A move of a process that writes nothing keeps the invariant.
LEMMA SilentMoveTypeInv ==
  ASSUME TypeInv, NEW w \in Slots, process[w] \notin {"none", "gone"},
         NEW state \in ProcessStates, Becomes(w, state),
         UNCHANGED output,
         current' \in [Slots -> Catalog \cup {NoTest}],
         \A v \in Slots \ {w} : current'[v] = current[v],
         state \in {"running", "raising"} => current'[w] \in Catalog,
         commands' \in [Slots -> Seq(Catalog \cup {Quit})], ran' \in [Slots -> Seq(Catalog)],
         UNCHANGED <<pc, enqueued, batch, testVars, queueVars, workerVars, lockVars, startVars>>
  PROVE  TypeInv'
<1>1. output \in [Slots -> Seq(Messages)] /\ process \in [Slots -> ProcessStates]
  BY DEF TypeInv, TypeOK, ProcessTypeOK
<1>2. process' \in [Slots -> ProcessStates]
  BY <1>1 DEF Becomes
<1>3. process'[w] = state /\ \A v \in Slots \ {w} : process'[v] = process[v]
  BY <1>1 DEF Becomes
<1>4. w \in workers
  BY DEF TypeInv, VacantSlots
<1>5. ProcessTypeOK' /\ ProcessesInTests'
  BY <1>1, <1>2, <1>3 DEF TypeInv, TypeOK, ProcessTypeOK, ProcessesInTests
<1>6. VacantSlots'
  BY <1>3, <1>4 DEF TypeInv, VacantSlots, workerVars
<1>7. ClosedIsLast'
  BY <1>3 DEF TypeInv, ClosedIsLast, workerVars
<1> QED
  BY <1>5, <1>6, <1>7, Frames DEF TypeInv, TypeOK, workerVars, queueVars, testVars, startVars

\* The steps of a process.
LEMMA WorkerStepTypeInv ==
  ASSUME TypeInv, NEW w \in Slots, WorkerStep(w)
  PROVE  TypeInv'
<1>1. /\ output \in [Slots -> Seq(Messages)] /\ commands \in [Slots -> Seq(Catalog \cup {Quit})]
      /\ current \in [Slots -> Catalog \cup {NoTest}] /\ ran \in [Slots -> Seq(Catalog)]
  BY DEF TypeInv, TypeOK, ProcessTypeOK
<1>2. /\ ProcessStep(w)
      /\ UNCHANGED <<pc, enqueued, batch, testVars, queueVars, workerVars, lockVars, startVars>>
  BY DEF WorkerStep
<1>3. <<Closed>> \in Seq(Messages)
  <2>1. Closed \in Messages
    BY DEF Closed, Message, Messages
  <2> QED
    BY <2>1
<1>5. \A i \in DOMAIN <<Closed>> : i = Len(<<Closed>>)
  OBVIOUS
<1>6. {"starting", "idle", "running", "raising", "hung", "killed", "gone"} \subseteq ProcessStates
  BY DEF ProcessStates
<1>7. CASE Greets(w)
  <2>1. PICK identity \in {"same", "other"} :
          output' = [output EXCEPT ![w] = @ \o <<Message("hello", identity)>>]
    BY <1>7 DEF Greets, Sends
  <2> DEFINE m == Message("hello", identity)
  <2>2. m \in Messages /\ m # Closed
    BY DEF Message, Messages, Closed
  <2> HIDE DEF m
  <2>3. <<m>> \in Seq(Messages) /\ \A i \in DOMAIN <<m>> : <<m>>[i] # Closed
    BY <2>2
  <2>4. output' = [output EXCEPT ![w] = @ \o <<m>>]
    BY <2>1 DEF m
  <2>5. process[w] = "starting" /\ Becomes(w, "idle") /\ UNCHANGED <<current, commands, ran>>
    BY <1>7 DEF Greets
  <2> QED
    BY <1>1, <1>2, <1>6, <2>3, <2>4, <2>5, ProcessMovesTypeInv, ZenonT(60)
<1>8. CASE Dies(w) /\ process[w] \notin {"none", "gone"} /\ UNCHANGED <<current, ran>>
           /\ commands' \in [Slots -> Seq(Catalog \cup {Quit})]
  <2>1. Becomes(w, "gone") /\ output' = [output EXCEPT ![w] = @ \o <<Closed>>]
    BY <1>8 DEF Dies, Sends
  <2> QED
    BY <1>1, <1>2, <1>3, <1>5, <1>6, <1>8, <2>1, ProcessMovesTypeInv
<1>9. CASE Becomes(w, "hung") /\ process[w] \notin {"none", "gone"}
           /\ UNCHANGED <<current, ran, output>>
           /\ commands' \in [Slots -> Seq(Catalog \cup {Quit})]
  BY <1>1, <1>2, <1>6, <1>9, SilentMoveTypeInv
<1>10. CASE FailsToStart(w)
  BY <1>1, <1>8, <1>9, <1>10 DEF FailsToStart
<1>11. CASE TakesRun(w)
  <2>1. commands[w] \in Seq(Catalog \cup {Quit}) /\ commands[w] # <<>>
    BY <1>1, <1>11 DEF TakesRun
  <2>2. Head(commands[w]) \in Catalog /\ Tail(commands[w]) \in Seq(Catalog \cup {Quit})
    BY <1>11, <2>1 DEF TakesRun
  <2>3. commands' \in [Slots -> Seq(Catalog \cup {Quit})]
    BY <1>1, <1>11, <2>2 DEF TakesRun
  <2>4. /\ current' \in [Slots -> Catalog \cup {NoTest}] /\ current'[w] \in Catalog
        /\ \A v \in Slots \ {w} : current'[v] = current[v]
    BY <1>1, <1>11, <2>2 DEF TakesRun
  <2>5. process[w] = "idle" /\ Becomes(w, "running") /\ UNCHANGED <<output, ran>>
    BY <1>11 DEF TakesRun
  <2> QED
    BY <1>1, <1>2, <1>6, <2>3, <2>4, <2>5, SilentMoveTypeInv
<1>12. CASE TakesQuit(w)
  <2>1. commands' \in [Slots -> Seq(Catalog \cup {Quit})]
    BY <1>1, <1>12 DEF TakesQuit
  <2> QED
    BY <1>8, <1>9, <1>12, <2>1 DEF TakesQuit
<1>13. CASE EndsTest(w)
  <2>1. current[w] \in Catalog /\ process[w] = "running"
    BY <1>13 DEF EndsTest, TypeInv, ProcessesInTests
  <2>2. PICK outcome \in Reported :
          output' = [output EXCEPT ![w] = @ \o <<Message("end", outcome)>>]
    BY <1>13 DEF EndsTest, Sends
  <2> DEFINE m == Message("end", outcome)
  <2>3. m \in Messages /\ m # Closed
    BY DEF Message, Messages, Closed
  <2> HIDE DEF m
  <2>4. <<m>> \in Seq(Messages) /\ \A i \in DOMAIN <<m>> : <<m>>[i] # Closed
    BY <2>3
  <2>5. output' = [output EXCEPT ![w] = @ \o <<m>>]
    BY <2>2 DEF m
  <2>6. ran' \in [Slots -> Seq(Catalog)]
    BY <1>1, <1>13, <2>1 DEF EndsTest
  <2>7. /\ current' \in [Slots -> Catalog \cup {NoTest}]
        /\ \A v \in Slots \ {w} : current'[v] = current[v]
    BY <1>1, <1>13 DEF EndsTest
  <2>8. Becomes(w, "idle") /\ UNCHANGED commands
    BY <1>13 DEF EndsTest
  <2> QED
    BY <1>1, <1>2, <1>6, <2>1, <2>4, <2>5, <2>6, <2>7, <2>8, ProcessMovesTypeInv, ZenonT(60)
<1>14. CASE Crashes(w) \/ Raises(w) \/ DiesIdle(w) \/ StreamsClose(w)
  BY <1>1, <1>8, <1>14 DEF Crashes, Raises, DiesIdle, StreamsClose
<1>15. CASE ReportsFatal(w)
  <2>1. current[w] \in Catalog /\ process[w] = "running"
    BY <1>15 DEF ReportsFatal, TypeInv, ProcessesInTests
  <2> DEFINE f == Message("fatal", "")
             e == Message("end", "failed")
  <2>2. f \in Messages /\ f # Closed /\ e \in Messages /\ e # Closed
    BY DEF Message, Messages, Closed, Reported
  <2>3. output' = [output EXCEPT ![w] = @ \o <<f, e>>] /\ Becomes(w, "raising")
        /\ UNCHANGED <<current, commands, ran>>
    BY <1>15 DEF ReportsFatal, Sends
  <2> HIDE DEF f, e
  <2>4. <<f, e>> \in Seq(Messages) /\ \A i \in DOMAIN <<f, e>> : <<f, e>>[i] # Closed
    BY <2>2
  <2> QED
    BY <1>1, <1>2, <1>6, <2>1, <2>3, <2>4, ProcessMovesTypeInv
<1>16. CASE Hangs(w)
  BY <1>1, <1>9, <1>16 DEF Hangs
<1> QED
  BY <1>2, <1>7, <1>10, <1>11, <1>12, <1>13, <1>14, <1>15, <1>16 DEF ProcessStep

\* Every step keeps the invariant.
LEMMA NextTypeInv == TypeInv /\ [Next]_vars => TypeInv'
<1> SUFFICES ASSUME TypeInv, [Next]_vars PROVE TypeInv'
  OBVIOUS
<1>1. CASE LoopStep
  <2>1. CASE StartLoop \/ DispatchEnds \/ EndTurn
    BY <2>1, PhaseTypeInv
  <2>2. CASE EnqueuePlanned \/ SettleBlocked \/ DrainQueue
    BY <2>2, EnqueuePlannedTypeInv, SettleBlockedTypeInv, DrainQueueTypeInv
  <2>3. CASE Assign \/ MakeRoom \/ Spawn \/ SpawnFails
    BY <2>3, AssignTypeInv, MakeRoomTypeInv, SpawnTypeInv, SpawnFailsTypeInv
  <2>4. CASE StartPending \/ SendHome \/ TakeEvents \/ CheckDeadlines
    BY <2>4, StartPendingTypeInv, SendHomeTypeInv, TakeEventsTypeInv, CheckDeadlinesTypeInv
  <2>5. ASSUME NEW w \in Slots, Handle(w) PROVE TypeInv'
    BY <2>5, HandleHelloTypeInv, HandleFatalTypeInv, IgnoreEndTypeInv, HandleStepEndTypeInv,
       HandleTargetEndTypeInv, HandleClosedTypeInv DEF Handle
  <2>6. ASSUME NEW w \in Slots, WorkerEnded(w) PROVE TypeInv'
    BY <2>6, WorkerEndedTypeInv
  <2> QED
    BY <1>1, <2>1, <2>2, <2>3, <2>4, <2>5, <2>6 DEF LoopStep
<1>2. ASSUME NEW w \in Slots, WorkerStep(w) \/ LimitPasses(w) PROVE TypeInv'
  BY <1>2, WorkerStepTypeInv, LimitPassesTypeInv
<1>3. CASE UNCHANGED vars
  BY <1>3, Frames DEF TypeInv, TypeOK, vars, queueVars, testVars, workerVars, processVars, startVars
<1> QED
  BY <1>1, <1>2, <1>3 DEF Next, Terminated

\* The variables of the runner and of the processes keep their types in every
\* run of every plan; messages come from workers in use only, and nothing
\* follows the end of a stream.
THEOREM TypeCorrect == Spec => []TypeOK
<1>1. TypeInv => TypeOK
  BY DEF TypeInv
<1> QED
  BY <1>1, InitTypeInv, NextTypeInv, PTL DEF Spec

-----------------------------------------------------------------------------
(***************************************************************************)
(* Locks.                                                                  *)
(***************************************************************************)

LocksInv == TypeInv /\ LocksMatchJobs /\ JobsExclusive

\* Only workers in use have jobs.
LEMMA BusyIsHanded ==
  /\ TypeInv => Busy = {w \in Slots : job[w] # NoJob}
  /\ TypeInv' => Busy' = {w \in Slots : job'[w] # NoJob}
<1>1. ASSUME TypeInv PROVE Busy = {w \in Slots : job[w] # NoJob}
  BY <1>1 DEF TypeInv, TypeOK, WorkerTypeOK, VacantSlots, Busy
<1>2. ASSUME TypeInv' PROVE Busy' = {w \in Slots : job'[w] # NoJob}
  BY <1>2 DEF TypeInv, TypeOK, WorkerTypeOK, VacantSlots, Busy
<1> QED
  BY <1>1, <1>2

\* The locks are right as long as neither they nor the jobs change.
LEMMA LocksStay ==
  ASSUME LocksInv, TypeInv', UNCHANGED <<job, lockVars>>
  PROVE  LocksInv'
<1>1. Busy' = Busy
  BY BusyIsHanded DEF LocksInv
<1> QED
  BY <1>1 DEF LocksInv, LocksMatchJobs, JobsExclusive, lockVars

\* The job that TakeRunnable takes may run next to those handed out.
LEMMA RunnableFits ==
  ASSUME NEW i \in DOMAIN queue, TakesRunnable(i)
  PROVE  /\ ~serialRunning
         /\ queue[i].test \in Serial => Busy = {}
         /\ Resources[queue[i].test] \cap heldResources = {}
  BY DEF TakesRunnable, Passed, Halts

\* Such a job takes its locks.
LEMMA TakeLocksFits ==
  ASSUME LocksInv, TypeInv', NEW w \in Slots, job[w] = NoJob,
         NEW j \in Jobs, job' = [job EXCEPT ![w] = j], TakeLocks(j),
         ~serialRunning, j.test \in Serial => Busy = {},
         Resources[j.test] \cap heldResources = {}
  PROVE  LocksInv'
<1>1. j # NoJob /\ w \notin Busy
  BY DEF Jobs, NoJob, Job, Busy
<1>2. Busy' = Busy \cup {w}
  BY <1>1, BusyIsHanded DEF LocksInv, TypeInv, TypeOK, WorkerTypeOK
<1>3. job'[w] = j /\ \A v \in Busy : job'[v] = job[v]
  BY <1>1, BusyIsHanded DEF LocksInv, TypeInv, TypeOK, WorkerTypeOK
<1>4. LocksMatchJobs'
  <2>1. heldResources' = UNION {Resources[job'[v].test] : v \in Busy'}
    BY <1>2, <1>3 DEF LocksInv, LocksMatchJobs, TakeLocks
  <2>2. serialRunning' <=> \E v \in Busy' : job'[v].test \in Serial
    BY <1>2, <1>3 DEF LocksInv, LocksMatchJobs, TakeLocks
  <2> QED
    BY <2>1, <2>2 DEF LocksMatchJobs
<1>5. JobsExclusive'
  <2>1. ASSUME NEW v \in Busy
        PROVE  /\ Resources[j.test] \cap Resources[job[v].test] = {}
               /\ job[v].test \notin Serial /\ j.test \notin Serial
    BY <2>1 DEF LocksInv, LocksMatchJobs
  <2> QED
    BY <1>2, <1>3, <2>1 DEF LocksInv, JobsExclusive
<1> QED
  BY <1>4, <1>5 DEF LocksInv

\* A job that ends releases its own locks only: no other job has them.
LEMMA ReleaseLocksFits ==
  ASSUME LocksInv, TypeInv', NEW w \in Slots, job[w] # NoJob,
         job' = [job EXCEPT ![w] = NoJob], ReleaseLocks(w)
  PROVE  LocksInv'
<1>1. w \in Busy /\ Busy' = Busy \ {w}
  BY BusyIsHanded DEF LocksInv, TypeInv, TypeOK, WorkerTypeOK
<1>2. \A v \in Busy' : job'[v] = job[v]
  BY <1>1, BusyIsHanded DEF LocksInv, TypeInv, TypeOK, WorkerTypeOK
<1>3. \A v \in Busy' : /\ Resources[job[w].test] \cap Resources[job[v].test] = {}
                       /\ job[w].test \notin Serial /\ job[v].test \notin Serial
  BY <1>1 DEF LocksInv, JobsExclusive
<1>4. LocksMatchJobs'
  <2>1. heldResources' = UNION {Resources[job'[v].test] : v \in Busy'}
    BY <1>1, <1>2, <1>3 DEF LocksInv, LocksMatchJobs, ReleaseLocks
  <2>2. serialRunning' <=> \E v \in Busy' : job'[v].test \in Serial
    BY <1>1, <1>2, <1>3 DEF LocksInv, LocksMatchJobs, ReleaseLocks
  <2> QED
    BY <2>1, <2>2 DEF LocksMatchJobs
<1>5. JobsExclusive'
  BY <1>1, <1>2 DEF LocksInv, JobsExclusive
<1> QED
  BY <1>4, <1>5 DEF LocksInv

\* No action but four changes the jobs that are handed out or the locks.
LEMMA JobsHandedOut ==
  ASSUME TypeInv, [Next]_vars
  PROVE  \/ Assign \/ Spawn
         \/ \E w \in Slots : HandleTargetEnd(w) \/ WorkerEnded(w)
         \/ UNCHANGED <<job, lockVars>>
<1>1. CASE EnqueuePlanned \/ StartLoop \/ SettleBlocked \/ DrainQueue
  BY <1>1 DEF EnqueuePlanned, StartLoop, SettleBlocked, DrainQueue, workerVars
<1>2. CASE MakeRoom \/ SpawnFails \/ DispatchEnds
  BY <1>2 DEF MakeRoom, SpawnFails, DispatchEnds, workerVars
<1>3. CASE StartPending \/ SendHome \/ TakeEvents \/ CheckDeadlines \/ EndTurn
  BY <1>3 DEF StartPending, SendHome, TakeEvents, CheckDeadlines, EndTurn, workerVars
<1>4. ASSUME NEW w \in Slots, HandleHello(w) \/ HandleFatal(w) \/ IgnoreEnd(w)
                              \/ HandleStepEnd(w) \/ HandleClosed(w)
      PROVE  UNCHANGED <<job, lockVars>>
  BY <1>4 DEF HandleHello, HandleFatal, IgnoreEnd, HandleStepEnd, HandleClosed, workerVars
<1>5. ASSUME NEW w \in Slots, WorkerStep(w) \/ LimitPasses(w)
      PROVE  UNCHANGED <<job, lockVars>>
  BY <1>5 DEF WorkerStep, LimitPasses, workerVars
<1>6. CASE UNCHANGED vars
  BY <1>6 DEF vars, workerVars
<1> QED
  BY <1>1, <1>2, <1>3, <1>4, <1>5, <1>6 DEF Next, LoopStep, Handle, Terminated

\* The scheduler starts without jobs and locks.
LEMMA InitLocksInv == Init => LocksInv
<1> SUFFICES ASSUME Init PROVE LocksInv
  OBVIOUS
<1>1. Busy = {} /\ heldResources = {} /\ serialRunning = FALSE
  BY DEF Init, Busy
<1> QED
  BY <1>1, InitTypeInv DEF LocksInv, LocksMatchJobs, JobsExclusive

\* Every step keeps the locks right.
LEMMA NextLocksInv == LocksInv /\ [Next]_vars => LocksInv'
<1> SUFFICES ASSUME LocksInv, [Next]_vars PROVE LocksInv'
  OBVIOUS
<1>0. TypeInv /\ TypeInv'
  BY NextTypeInv DEF LocksInv
<1>1. CASE Assign
  <2>1. PICK i \in DOMAIN queue, w \in Idle :
          /\ TakesRunnable(i) /\ job' = [job EXCEPT ![w] = queue[i]] /\ TakeLocks(queue[i])
    BY <1>1 DEF Assign
  <2>2. w \in Slots /\ job[w] = NoJob
    BY <1>0 DEF Idle, Live, TypeInv, TypeOK, WorkerTypeOK
  <2>3. queue[i] \in Jobs
    BY <1>0, TakenJobType
  <2> QED
    BY <1>0, <2>1, <2>2, <2>3, RunnableFits, TakeLocksFits
<1>2. CASE Spawn
  <2>1. PICK i \in DOMAIN queue, w \in Slots \ workers :
          /\ TakesRunnable(i) /\ job' = [job EXCEPT ![w] = queue[i]] /\ TakeLocks(queue[i])
    BY <1>2 DEF Spawn
  <2>2. job[w] = NoJob
    BY <1>0 DEF TypeInv, VacantSlots
  <2>3. queue[i] \in Jobs
    BY <1>0, TakenJobType
  <2> QED
    BY <1>0, <2>1, <2>2, <2>3, RunnableFits, TakeLocksFits
<1>3. ASSUME NEW w \in Slots, HandleTargetEnd(w) PROVE LocksInv'
  <2>1. IsRunning(w) /\ job' = [job EXCEPT ![w] = NoJob] /\ ReleaseLocks(w)
    BY <1>3 DEF HandleTargetEnd
  <2>2. job[w] # NoJob
    <3>1. job[w] \in Jobs
      BY <1>0, <2>1 DEF TypeInv, JobsUnderWay
    <3> QED
      BY <3>1 DEF Jobs, NoJob, Job
  <2> QED
    BY <1>0, <2>1, <2>2, ReleaseLocksFits
<1>4. ASSUME NEW w \in Slots, WorkerEnded(w) PROVE LocksInv'
  <2>1. /\ job' = [job EXCEPT ![w] = NoJob]
        /\ IF job[w] = NoJob THEN UNCHANGED lockVars ELSE ReleaseLocks(w)
    BY <1>4 DEF WorkerEnded, Vacate
  <2>2. CASE job[w] = NoJob
    <3>1. job' = job /\ UNCHANGED lockVars
      BY <1>0, <2>1, <2>2 DEF TypeInv, TypeOK, WorkerTypeOK
    <3> QED
      BY <1>0, <3>1, LocksStay
  <2>3. CASE job[w] # NoJob
    BY <1>0, <2>1, <2>3, ReleaseLocksFits
  <2> QED
    BY <2>2, <2>3
<1>5. CASE UNCHANGED <<job, lockVars>>
  BY <1>0, <1>5, LocksStay
<1> QED
  BY <1>0, <1>1, <1>2, <1>3, <1>4, <1>5, JobsHandedOut

\* The locks the scheduler holds are always those of the jobs it handed out:
\* none leaks with a worker that dies, and none is released early.
THEOREM LocksAreThoseOfJobs == Spec => []LocksMatchJobs
<1>1. LocksInv => LocksMatchJobs
  BY DEF LocksInv
<1> QED
  BY <1>1, InitLocksInv, NextLocksInv, PTL DEF Spec

\* The jobs it handed out never share a resource, and a serial one is alone.
THEOREM JobsAreExclusive == Spec => []JobsExclusive
<1>1. LocksInv => JobsExclusive
  BY DEF LocksInv
<1> QED
  BY <1>1, InitLocksInv, NextLocksInv, PTL DEF Spec
-----------------------------------------------------------------------------
(***************************************************************************)
(* The stop.                                                               *)
(***************************************************************************)

\* What follows an attempt costs a retry only while the run has not stopped.
LEMMA NoRetryAfterStop ==
  ASSUME stopping, NEW w \in Slots, NEW outcome, Complete(w, outcome)
  PROVE  UNCHANGED retryBudget
<1> DEFINE pending == [pendingJobs EXCEPT ![job[w].test] = @ - 1]
           tried == Append(attempts[job[w].test],
                           [outcome |-> outcome, precededBy |-> history[w]])
<1>1. UNCHANGED retryBudget \/ Decide(job[w].test, tried, pending)
  BY DEF Complete
<1>2. ~Retries(job[w].test, tried)
  BY DEF Retries
<1> QED
  BY <1>1, <1>2 DEF Decide

\* No action hands out a job when the run has stopped, and none spends a retry.
LEMMA StopNext ==
  ASSUME TypeInv, [Next]_vars, stopping
  PROVE  /\ \A w \in Slots : job'[w] \in {job[w], NoJob}
         /\ retryBudget' = retryBudget
<1>1. job \in [Slots -> Jobs \cup {NoJob}]
  BY DEF TypeInv, TypeOK, WorkerTypeOK
<1>2. ~Assign /\ ~Spawn
  BY DEF Assign, Spawn
<1>3. ASSUME NEW w \in Slots, HandleTargetEnd(w) PROVE UNCHANGED retryBudget
  BY <1>3, NoRetryAfterStop DEF HandleTargetEnd
<1>4. ASSUME NEW w \in Slots, WorkerEnded(w) PROVE UNCHANGED retryBudget
  <2>1. \/ \E outcome : Complete(w, outcome)
        \/ UNCHANGED retryBudget
    BY <1>4 DEF WorkerEnded, testVars
  <2> QED
    BY <2>1, NoRetryAfterStop
<1>5. ASSUME NEW w \in Slots, HandleTargetEnd(w) \/ WorkerEnded(w)
      PROVE  job' = [job EXCEPT ![w] = NoJob]
  BY <1>5 DEF HandleTargetEnd, WorkerEnded, Vacate
<1>6. \A v \in Slots : job'[v] \in {job[v], NoJob}
  BY <1>1, <1>2, <1>5, JobsHandedOut
<1>7. \/ \E w \in Slots : HandleTargetEnd(w) \/ WorkerEnded(w)
      \/ UNCHANGED retryBudget
  <2>1. CASE EnqueuePlanned \/ StartLoop \/ SettleBlocked \/ DrainQueue
    BY <2>1 DEF EnqueuePlanned, StartLoop, SettleBlocked, DrainQueue, testVars
  <2>2. CASE MakeRoom \/ SpawnFails \/ DispatchEnds
    BY <2>2 DEF MakeRoom, SpawnFails, DispatchEnds, testVars
  <2>3. CASE StartPending \/ SendHome \/ TakeEvents \/ CheckDeadlines \/ EndTurn
    BY <2>3 DEF StartPending, SendHome, TakeEvents, CheckDeadlines, EndTurn, testVars
  <2>4. ASSUME NEW w \in Slots, HandleHello(w) \/ HandleFatal(w) \/ IgnoreEnd(w)
                                \/ HandleStepEnd(w) \/ HandleClosed(w)
        PROVE  UNCHANGED retryBudget
    BY <2>4 DEF HandleHello, HandleFatal, IgnoreEnd, HandleStepEnd, HandleClosed, testVars
  <2>5. ASSUME NEW w \in Slots, WorkerStep(w) \/ LimitPasses(w)
        PROVE  UNCHANGED retryBudget
    BY <2>5 DEF WorkerStep, LimitPasses, testVars
  <2>6. CASE UNCHANGED vars
    BY <2>6 DEF vars, testVars
  <2> QED
    BY <1>2, <2>1, <2>2, <2>3, <2>4, <2>5, <2>6 DEF Next, LoopStep, Handle, Terminated
<1> QED
  BY <1>3, <1>4, <1>6, <1>7

\* Once the run stops nothing more is handed out and no retry is spent,
\* whatever is still running and however it ends.
THEOREM StopIsFinal == Spec => StopHandsOutNothing
<1>1. TypeInv /\ [Next]_vars
        => [stopping => /\ \A w \in Slots : job'[w] \in {job[w], NoJob}
                        /\ retryBudget' = retryBudget]_vars
  BY StopNext
<1> QED
  BY <1>1, InitTypeInv, NextTypeInv, PTL DEF Spec, StopHandsOutNothing
-----------------------------------------------------------------------------
(***************************************************************************)
(* Jobs in the queue.                                                      *)
(***************************************************************************)
TestsOf(jobs) == {jobs[i].test : i \in DOMAIN jobs}
OnePerTest(jobs) == \A i, k \in DOMAIN jobs : jobs[i].test = jobs[k].test => i = k

\* A job that is taken out of the queue takes its test along.
LEMMA RemoveAtTests ==
  ASSUME NEW jobs \in Seq(Jobs), OnePerTest(jobs), NEW i \in DOMAIN jobs
  PROVE  /\ RemoveAt(jobs, i) \in Seq(Jobs) /\ OnePerTest(RemoveAt(jobs, i))
         /\ TestsOf(RemoveAt(jobs, i)) = TestsOf(jobs) \ {jobs[i].test}
<1> DEFINE r == RemoveAt(jobs, i)
           Old(k) == IF k < i THEN k ELSE k + 1
<1>1. i \in 1..Len(jobs) /\ Len(jobs) \in Nat /\ DOMAIN jobs = 1..Len(jobs)
  OBVIOUS
<1>2. /\ r \in Seq(Jobs) /\ DOMAIN r = 1..(Len(jobs) - 1)
      /\ \A k \in 1..(Len(jobs) - 1) : r[k] = jobs[Old(k)]
  BY RemoveAtElements
<1>3. \A k \in DOMAIN r : Old(k) \in DOMAIN jobs \ {i}
  BY <1>1, <1>2
<1>4. \A k, m \in DOMAIN r : Old(k) = Old(m) => k = m
  BY <1>1, <1>2
<1>5. \A m \in DOMAIN jobs \ {i} : \E k \in DOMAIN r : Old(k) = m
  <2>1. TAKE m \in DOMAIN jobs \ {i}
  <2>2. CASE m < i
    BY <1>1, <1>2, <2>2
  <2>3. CASE m > i
    <3>1. m - 1 \in DOMAIN r /\ Old(m - 1) = m
      BY <1>1, <1>2, <2>3
    <3> QED
      BY <3>1
  <2> QED
    BY <1>1, <2>2, <2>3
<1> HIDE DEF r, Old
<1>6. \A k \in DOMAIN r : r[k] = jobs[Old(k)]
  BY <1>2
<1>7. OnePerTest(r)
  BY <1>3, <1>4, <1>6 DEF OnePerTest
<1>8. TestsOf(r) = {jobs[m].test : m \in DOMAIN jobs \ {i}}
  BY <1>3, <1>5, <1>6 DEF TestsOf
<1>9. TestsOf(r) = TestsOf(jobs) \ {jobs[i].test}
  BY <1>8 DEF TestsOf, OnePerTest
<1> QED
  BY <1>2, <1>7, <1>9 DEF r

\* A job that comes into the queue brings its test.
LEMMA AddedTests ==
  ASSUME NEW jobs \in Seq(Jobs), OnePerTest(jobs), NEW j \in Jobs, j.test \notin TestsOf(jobs),
         NEW more \in {<<j>> \o jobs, Append(jobs, j)}
  PROVE  /\ more \in Seq(Jobs) /\ OnePerTest(more)
         /\ TestsOf(more) = TestsOf(jobs) \cup {j.test}
<1>1. Len(jobs) \in Nat /\ DOMAIN jobs = 1..Len(jobs)
  OBVIOUS
<1>2. CASE more = <<j>> \o jobs
  <2>1. /\ more \in Seq(Jobs) /\ DOMAIN more = 1..(Len(jobs) + 1)
        /\ more[1] = j /\ \A k \in DOMAIN jobs : more[k + 1] = jobs[k]
    BY <1>1, <1>2
  <2>2. \A k \in DOMAIN more : k = 1 \/ (k - 1 \in DOMAIN jobs /\ more[k] = jobs[k - 1])
    <3>1. TAKE k \in DOMAIN more
    <3>2. k # 1 => k - 1 \in DOMAIN jobs /\ (k - 1) + 1 = k
      BY <1>1, <2>1
    <3> QED
      BY <2>1, <3>2
  <2>3. \A k \in DOMAIN jobs : k + 1 \in DOMAIN more
    BY <1>1, <2>1
  <2>4. 1 \in DOMAIN more
    BY <1>1, <2>1
  <2> HIDE <1>2
  <2>5. OnePerTest(more)
    <3>1. SUFFICES ASSUME NEW k \in DOMAIN more, NEW m \in DOMAIN more,
                          more[k].test = more[m].test
                   PROVE  k = m
      BY DEF OnePerTest
    <3>2. CASE k = 1 \/ m = 1
      BY <2>1, <2>2, <3>1, <3>2 DEF TestsOf
    <3>3. CASE k # 1 /\ m # 1
      <4>1. k - 1 = m - 1
        BY <2>2, <3>1, <3>3 DEF OnePerTest
      <4> QED
        BY <2>1, <4>1
    <3> QED
      BY <3>2, <3>3
  <2>6. TestsOf(more) = TestsOf(jobs) \cup {j.test}
    <3>1. \A m \in DOMAIN more : more[m].test \in TestsOf(jobs) \cup {j.test}
      BY <2>1, <2>2 DEF TestsOf
    <3>2. \A k \in DOMAIN jobs : jobs[k].test = more[k + 1].test
      BY <2>1
    <3>3. \A k \in DOMAIN jobs : jobs[k].test \in TestsOf(more)
      BY <2>3, <3>2 DEF TestsOf
    <3>4. j.test \in TestsOf(more)
      BY <2>1, <2>4 DEF TestsOf
    <3> QED
      BY <3>1, <3>3, <3>4 DEF TestsOf
  <2> QED
    BY <2>1, <2>5, <2>6
<1>3. CASE more = Append(jobs, j)
  <2> DEFINE n == Len(jobs) + 1
  <2>1. /\ more \in Seq(Jobs) /\ DOMAIN more = DOMAIN jobs \cup {n} /\ n \notin DOMAIN jobs
        /\ more[n] = j /\ \A k \in DOMAIN jobs : more[k] = jobs[k]
    BY <1>1, <1>3
  <2> HIDE <1>3 DEF n
  <2>2. OnePerTest(more)
    BY <2>1 DEF OnePerTest, TestsOf
  <2>3. TestsOf(more) = TestsOf(jobs) \cup {j.test}
    BY <2>1 DEF TestsOf
  <2> QED
    BY <2>1, <2>2, <2>3
<1> QED
  BY <1>2, <1>3

\* A job that is put back keeps its test in the queue.
LEMMA PutBackTests ==
  ASSUME NEW jobs \in Seq(Jobs), OnePerTest(jobs), NEW i \in DOMAIN jobs
  PROVE  /\ OnePerTest(<<jobs[i]>> \o RemoveAt(jobs, i))
         /\ TestsOf(<<jobs[i]>> \o RemoveAt(jobs, i)) = TestsOf(jobs)
<1> DEFINE r == RemoveAt(jobs, i)
<1>1. /\ r \in Seq(Jobs) /\ OnePerTest(r)
      /\ TestsOf(r) = TestsOf(jobs) \ {jobs[i].test}
  BY RemoveAtTests
<1>2. jobs[i] \in Jobs /\ jobs[i].test \in TestsOf(jobs)
  BY DEF TestsOf
<1> HIDE DEF r
<1>3. OnePerTest(<<jobs[i]>> \o r) /\ TestsOf(<<jobs[i]>> \o r) = TestsOf(r) \cup {jobs[i].test}
  BY <1>1, <1>2, AddedTests
<1> QED
  BY <1>1, <1>2, <1>3 DEF r
-----------------------------------------------------------------------------
(***************************************************************************)
(* What a step does to jobs, attempts and verdicts.                        *)
(***************************************************************************)

\* The outcomes an attempt can have.
Made == Reported \cup {"crashed", "timed-out"}

\* The job of a test goes back to the queue, or another for the same test.
Requeues(t, pending) ==
  /\ \E j \in Jobs : j.test = t /\ queue' \in {<<j>> \o queue, Append(queue, j)}
  /\ pendingJobs' = [pending EXCEPT ![t] = @ + 1]
  /\ Unresolved

\* The test gets its verdict.
Resolves(t, pending) ==
  /\ queue' = queue /\ pendingJobs' = pending
  /\ \E reproduced \in BOOLEAN : FinishTried(t, attempts'[t], reproduced)

\* The job is dropped: the run has given up.
Drops(pending) ==
  /\ infrastructureFailed'
  /\ queue' = queue /\ pendingJobs' = pending
  /\ UNCHANGED testVars

\* The job of worker w is over, whichever way.
Leaves(w) ==
  LET t == job[w].test
      pending == [pendingJobs EXCEPT ![t] = @ - 1]
  IN /\ job[w] \in Jobs /\ job' = [job EXCEPT ![w] = NoJob]
     /\ \/ attempts' = attempts
        \/ \E a \in Attempts :
             a.outcome \in Made /\ attempts' = [attempts EXCEPT ![t] = Append(@, a)]
     /\ Requeues(t, pending) \/ (attempts'[t] # <<>> /\ Resolves(t, pending)) \/ Drops(pending)
     /\ pc # "dispatch" /\ UNCHANGED <<pc, enqueued>>

\* A job of the queue goes to a worker.
HandsOut ==
  /\ pc = "dispatch" /\ ~stopping
  /\ \E i \in DOMAIN queue, w \in Slots :
       /\ TakesRunnable(i) /\ job[w] = NoJob
       /\ job' = [job EXCEPT ![w] = queue[i]] /\ queue' = RemoveAt(queue, i)
  /\ UNCHANGED <<pc, enqueued, pendingJobs, testVars>>

\* A job that was taken goes back to the front.
PutsBack ==
  /\ pc = "dispatch" /\ ~stopping /\ pc' = "start"
  /\ \E i \in DOMAIN queue : PutBack(i)
  /\ UNCHANGED <<enqueued, pendingJobs, testVars, job>>

JobsStay ==
  /\ pc' = "dispatch" => pc = "dispatch"
  /\ UNCHANGED <<queueVars, testVars, job, enqueued>>

\* What follows an attempt is another job for the test or its verdict.
LEMMA DecideFollows ==
  ASSUME NEW t \in Tests, NEW tried \in Seq(Attempts), bisection \in [Tests -> Searches],
         attempts' = [attempts EXCEPT ![t] = tried], attempts \in [Tests -> Seq(Attempts)],
         NEW pending, Decide(t, tried, pending)
  PROVE  Requeues(t, pending) \/ Resolves(t, pending)
<1>1. CASE Repeats(t)
  <2>1. Enqueue(Job("attempt", t, <<>>, FALSE), tried, pending) /\ Unresolved
    BY <1>1 DEF Decide, Repeats, Retries, Confirms
  <2>2. Job("attempt", t, <<>>, FALSE) \in Jobs /\ Job("attempt", t, <<>>, FALSE).test = t
    BY DEF Job, Jobs
  <2> QED
    BY <2>1, <2>2 DEF Enqueue, Requeues
<1>2. CASE Retries(t, tried)
  <2>1. Enqueue(Job("attempt", t, <<>>, TRUE), tried, pending) /\ Unresolved
    BY <1>2 DEF Decide, Retries, Confirms
  <2>2. Job("attempt", t, <<>>, TRUE) \in Jobs /\ Job("attempt", t, <<>>, TRUE).test = t
    BY DEF Job, Jobs
  <2> QED
    BY <2>1, <2>2 DEF Enqueue, Requeues
<1>3. CASE Confirms(t, tried)
  <2>1. PICK sequence \in Seq(Catalog) :
          Enqueue(Job("probe", t, sequence, TRUE), attempts[t], pending) /\ Unresolved
    BY <1>3, ProbeSequenceType DEF Decide, Confirms, StartProbe
  <2>2. Job("probe", t, sequence, TRUE) \in Jobs /\ Job("probe", t, sequence, TRUE).test = t
    BY DEF Job, Jobs
  <2> QED
    BY <2>1, <2>2 DEF Enqueue, Requeues
<1>4. CASE ~Repeats(t) /\ ~Retries(t, tried) /\ ~Confirms(t, tried)
  <2>1. /\ FinishTried(t, tried, bisection[t].reproduced)
        /\ queue' = queue /\ pendingJobs' = pending
    BY <1>4 DEF Decide
  <2>2. bisection[t].reproduced \in BOOLEAN /\ attempts'[t] = tried
    BY DEF Searches
  <2> QED
    BY <2>1, <2>2 DEF Resolves
<1> QED
  BY <1>1, <1>2, <1>3, <1>4

\* So is what follows a probe.
LEMMA ProbeEndedFollows ==
  ASSUME TestTypeOK, NEW t \in Tests, NEW failed \in BOOLEAN, NEW pending,
         ProbeEnded(t, failed, pending), attempts' = attempts
  PROVE  Requeues(t, pending) \/ Resolves(t, pending)
<1> DEFINE search == bisection[t]
           flakyAfterAll == search.stage = "confirming" /\ ~failed
           narrowed == Narrowed(search, failed)
<1>1. search \in Searches /\ narrowed \in Searches
  BY NarrowedType DEF TestTypeOK
<1>2. /\ search.reproduced \in BOOLEAN /\ narrowed.reproduced \in BOOLEAN
      /\ narrowed.candidates \in Seq(Catalog)
  <2> HIDE DEF search, narrowed
  <2> QED
    BY <1>1 DEF Searches
<1>3. CASE flakyAfterAll
  <2>1. /\ FinishTried(t, attempts[t], search.reproduced)
        /\ queue' = queue /\ pendingJobs' = pending
    BY <1>3 DEF ProbeEnded
  <2> QED
    BY <1>2, <2>1 DEF Resolves
<1>4. CASE ~flakyAfterAll /\ SearchEnds(narrowed)
  <2>1. /\ FinishTried(t, attempts[t], narrowed.reproduced)
        /\ queue' = queue /\ pendingJobs' = pending
    BY <1>4 DEF ProbeEnded
  <2> HIDE DEF narrowed
  <2> QED
    BY <1>2, <2>1 DEF Resolves
<1>5. CASE ~flakyAfterAll /\ ~SearchEnds(narrowed)
  <2> DEFINE j == Job("probe", t, Half(narrowed.candidates), TRUE)
  <2>1. Enqueue(j, attempts[t], pending) /\ Unresolved
    BY <1>5 DEF ProbeEnded, StartProbe
  <2>2. Half(narrowed.candidates) \in Seq(Catalog)
    <3> HIDE DEF narrowed
    <3> QED
      BY <1>2, HalfType
  <2>3. j \in Jobs /\ j.test = t
    BY <2>2 DEF Job, Jobs
  <2> HIDE DEF j
  <2> QED
    BY <2>1, <2>3 DEF Enqueue, Requeues
<1> QED
  BY <1>3, <1>4, <1>5

\* So is what follows the end of a target.
LEMMA CompleteFollows ==
  ASSUME TypeInv, NEW w \in Slots, job[w] \in Jobs, NEW outcome \in Made, Complete(w, outcome)
  PROVE  LET t == job[w].test
             pending == [pendingJobs EXCEPT ![t] = @ - 1]
         IN /\ \/ attempts' = attempts
               \/ \E a \in Attempts :
                    a.outcome \in Made /\ attempts' = [attempts EXCEPT ![t] = Append(@, a)]
            /\ attempts'[t] # <<>>
            /\ Requeues(t, pending) \/ Resolves(t, pending)
<1> DEFINE t == job[w].test
           pending == [pendingJobs EXCEPT ![t] = @ - 1]
           new == [outcome |-> outcome, precededBy |-> history[w]]
           tried == Append(attempts[t], new)
<1>1. t \in Tests
  BY DEF Jobs
<1>2. TestTypeOK /\ attempts \in [Tests -> Seq(Attempts)] /\ bisection \in [Tests -> Searches]
  BY DEF TypeInv, TypeOK, TestTypeOK
<1>3. CASE job[w].kind = "probe"
  <2>1. ProbeEnded(t, IsFailure(outcome), pending) /\ attempts' = attempts
    BY <1>3 DEF Complete
  <2>2. attempts[t] # <<>>
    BY <1>3 DEF TypeInv, ProbesTried, HandedProbesTried
  <2>3. IsFailure(outcome) \in BOOLEAN
    BY DEF IsFailure
  <2> HIDE DEF t, pending
  <2>4. Requeues(t, pending) \/ Resolves(t, pending)
    BY <1>1, <1>2, <2>1, <2>3, ProbeEndedFollows
  <2> QED
    BY <2>1, <2>2, <2>4 DEF t, pending
<1>4. CASE job[w].kind # "probe"
  <2>1. new \in Attempts /\ new.outcome \in Made
    BY DEF TypeInv, TypeOK, WorkerTypeOK, Attempts, Made, Reported, Outcome
  <2>2. attempts' = [attempts EXCEPT ![t] = tried] /\ Decide(t, tried, pending)
    BY <1>4 DEF Complete
  <2> HIDE DEF new, t, pending
  <2>3. tried \in Seq(Attempts) /\ tried # <<>>
    <3>1. attempts[t] \in Seq(Attempts)
      BY <1>1, <1>2
    <3> QED
      BY <2>1, <3>1
  <2>4. Requeues(t, pending) \/ Resolves(t, pending)
    <3> HIDE DEF tried
    <3> QED
      BY <1>1, <1>2, <2>2, <2>3, DecideFollows
  <2>5. attempts'[t] # <<>>
    BY <1>1, <1>2, <2>2, <2>3
  <2> QED
    BY <2>1, <2>2, <2>4, <2>5 DEF t, pending
<1> QED
  BY <1>3, <1>4

\* The end of a target, and of a worker, ends its job.
LEMMA HandleTargetEndMoves ==
  ASSUME TypeInv, NEW w \in Slots, HandleTargetEnd(w)
  PROVE  Leaves(w)
<1>1. /\ IsRunning(w) /\ Complete(w, Head(batch[w]).is) /\ job' = [job EXCEPT ![w] = NoJob]
      /\ pc # "dispatch" /\ UNCHANGED <<pc, enqueued>>
  BY DEF HandleTargetEnd, NextEvent
<1>2. job[w] \in Jobs
  BY <1>1 DEF TypeInv, JobsUnderWay
<1>3. Head(batch[w]).is \in Made
  <2>1. batch[w] \in Seq(Messages) /\ batch[w] # <<>> /\ Head(batch[w]).kind = "end"
    BY DEF TypeInv, TypeOK, LoopTypeOK, HandleTargetEnd, NextEvent
  <2>2. Head(batch[w]) \in Messages
    BY <2>1
  <2>3. Head(batch[w]).is \in Reported
    BY <2>1, <2>2 DEF Messages
  <2> QED
    BY <2>3 DEF Made
<1> QED
  BY <1>1, <1>2, <1>3, CompleteFollows DEF Leaves

\* The job of a worker that ended goes on, goes back to the queue, or was none.
LEMMA WorkerEndedMoves ==
  ASSUME TypeInv, NEW w \in Slots, WorkerEnded(w)
  PROVE  Leaves(w) \/ JobsStay
<1> DEFINE t == job[w].test
           pending == [pendingJobs EXCEPT ![t] = @ - 1]
<1>1. job' = [job EXCEPT ![w] = NoJob] /\ pc # "dispatch" /\ UNCHANGED <<pc, enqueued>>
  BY DEF WorkerEnded, Vacate
<1>2. job[w] \in Jobs \cup {NoJob} /\ NoJob \notin Jobs
  BY DEF TypeInv, TypeOK, WorkerTypeOK, NoJob, Jobs, Job
<1>3. job[w] \in Jobs => t \in Tests
  BY DEF Jobs
<1>4. TestTypeOK
  BY DEF TypeInv, TypeOK
<1>5. CASE /\ running[w].target
           /\ Complete(w, IF w \in killedForTimeout THEN "timed-out" ELSE "crashed")
  <2>1. job[w] \in Jobs
    BY <1>5 DEF TypeInv, JobsUnderWay, IsRunning, NotRunning, Running
  <2>2. (IF w \in killedForTimeout THEN "timed-out" ELSE "crashed") \in Made
    BY DEF Made
  <2> QED
    BY <1>1, <1>5, <2>1, <2>2, CompleteFollows DEF Leaves
<1>6. CASE /\ ~running[w].target /\ IsRunning(w) /\ job[w].kind = "probe"
           /\ ProbeEnded(t, FALSE, pending)
           /\ UNCHANGED <<attempts, repeatsLeft, retriesUsed, retryBudget>>
  <2>1. job[w] \in Jobs /\ attempts[t] # <<>>
    BY <1>6 DEF TypeInv, JobsUnderWay, ProbesTried, HandedProbesTried
  <2>2. Requeues(t, pending) \/ Resolves(t, pending)
    <3> HIDE DEF t, pending
    <3> QED
      BY <1>3, <1>4, <1>6, <2>1, ProbeEndedFollows
  <2> QED
    BY <1>1, <1>6, <2>1, <2>2 DEF Leaves
<1>7. CASE /\ job[w] # NoJob
           /\ Enqueue(job[w], attempts[t], pending)
           /\ UNCHANGED testVars
  <2>1. job[w] \in Jobs
    BY <1>2, <1>7
  <2>2. Requeues(t, pending) /\ attempts' = attempts
    BY <1>7, <2>1 DEF Enqueue, Requeues, Unresolved, testVars
  <2> QED
    BY <1>1, <2>1, <2>2 DEF Leaves
<1>8. CASE /\ ~IsRunning(w) /\ job[w] # NoJob
           /\ ~(IF IsRunning(w) THEN job[w].kind # "probe" ELSE ~infrastructureFailed')
           /\ pendingJobs' = pending
           /\ UNCHANGED <<queue, testVars>>
  <2>1. job[w] \in Jobs
    BY <1>2, <1>8
  <2>2. Drops(pending) /\ attempts' = attempts
    BY <1>8 DEF Drops, testVars
  <2> QED
    BY <1>1, <2>1, <2>2 DEF Leaves
<1>9. CASE job[w] = NoJob /\ UNCHANGED <<queueVars, testVars>>
  <2>1. job' = job
    BY <1>1, <1>9 DEF TypeInv, TypeOK, WorkerTypeOK
  <2> QED
    BY <1>1, <1>9, <2>1 DEF JobsStay
<1> QED
  BY <1>5, <1>6, <1>7, <1>8, <1>9 DEF WorkerEnded

\* Dispatch takes jobs out of the queue for workers without one.
LEMMA DispatchMoves ==
  ASSUME TypeInv
  PROVE  /\ Assign \/ Spawn => HandsOut
         /\ MakeRoom \/ SpawnFails => PutsBack
<1>1. ASSUME Assign PROVE HandsOut
  <2>1. PICK i \in DOMAIN queue, w \in Idle :
          /\ TakesRunnable(i)
          /\ job' = [job EXCEPT ![w] = queue[i]] /\ queue' = RemoveAt(queue, i)
    BY <1>1 DEF Assign
  <2>2. w \in Slots /\ job[w] = NoJob
    BY DEF Idle, Live, TypeInv, TypeOK, WorkerTypeOK
  <2>3. pc = "dispatch" /\ ~stopping /\ UNCHANGED <<pc, enqueued, pendingJobs, testVars>>
    BY <1>1 DEF Assign
  <2> QED
    BY <2>1, <2>2, <2>3 DEF HandsOut
<1>2. ASSUME Spawn PROVE HandsOut
  <2>1. PICK i \in DOMAIN queue, w \in Slots \ workers :
          /\ TakesRunnable(i)
          /\ job' = [job EXCEPT ![w] = queue[i]] /\ queue' = RemoveAt(queue, i)
    BY <1>2 DEF Spawn
  <2>2. job[w] = NoJob
    BY DEF TypeInv, VacantSlots
  <2>3. pc = "dispatch" /\ ~stopping /\ UNCHANGED <<pc, enqueued, pendingJobs, testVars>>
    BY <1>2 DEF Spawn
  <2> QED
    BY <2>1, <2>2, <2>3 DEF HandsOut
<1>3. ASSUME MakeRoom PROVE PutsBack
  BY <1>3 DEF MakeRoom, PutsBack
<1>4. ASSUME SpawnFails PROVE PutsBack
  BY <1>4 DEF SpawnFails, PutsBack, workerVars
<1> QED
  BY <1>1, <1>2, <1>3, <1>4

\* What steps that end no job do to jobs, attempts and verdicts.
LEMMA OtherMoves ==
  ASSUME TypeInv, [Next]_vars, \A w \in Slots : ~HandleTargetEnd(w) /\ ~WorkerEnded(w)
  PROVE  EnqueuePlanned \/ SettleBlocked \/ DrainQueue \/ HandsOut \/ PutsBack \/ JobsStay
<1>1. CASE StartLoop \/ DispatchEnds \/ EndTurn
  BY <1>1 DEF StartLoop, DispatchEnds, EndTurn, workerVars, JobsStay
<1>2. CASE StartPending \/ SendHome \/ TakeEvents \/ CheckDeadlines
  BY <1>2 DEF StartPending, SendHome, TakeEvents, CheckDeadlines, workerVars, JobsStay
<1>3. ASSUME NEW w \in Slots, HandleHello(w) \/ HandleFatal(w) \/ IgnoreEnd(w)
                              \/ HandleStepEnd(w) \/ HandleClosed(w)
      PROVE  JobsStay
  BY <1>3 DEF HandleHello, HandleFatal, IgnoreEnd, HandleStepEnd, HandleClosed, workerVars, JobsStay
<1>4. ASSUME NEW w \in Slots, WorkerStep(w) \/ LimitPasses(w)
      PROVE  JobsStay
  BY <1>4 DEF WorkerStep, LimitPasses, workerVars, JobsStay
<1>5. CASE UNCHANGED vars
  BY <1>5 DEF vars, workerVars, JobsStay
<1> QED
  BY <1>1, <1>2, <1>3, <1>4, <1>5, DispatchMoves DEF Next, LoopStep, Handle, Terminated

\* All that can happen to jobs, attempts and verdicts.
LEMMA JobMoves ==
  ASSUME TypeInv, [Next]_vars
  PROVE  \/ EnqueuePlanned \/ SettleBlocked \/ DrainQueue \/ HandsOut \/ PutsBack
         \/ \E w \in Slots : Leaves(w)
         \/ JobsStay
  BY OtherMoves, HandleTargetEndMoves, WorkerEndedMoves
-----------------------------------------------------------------------------
(***************************************************************************)
(* One job per test.                                                       *)
(***************************************************************************)
InHand == {job[w].test : w \in Busy}
\* The tests that have a job.
Undone == TestsOf(queue) \cup InHand

\* No two jobs are for the same test.
JobsApart ==
  /\ OnePerTest(queue)
  /\ \A w, v \in Busy : job[w].test = job[v].test => w = v
  /\ TestsOf(queue) \cap InHand = {}

\* pendingJobs counts them.
JobsCounted == pendingJobs = [t \in Tests |-> IF t \in Undone THEN 1 ELSE 0]

\* A test with a verdict has none, and one that is not enqueued yet has
\* neither.
VerdictsEnd == \A t \in Tests : finished[t] => t \notin Undone
NotYetPlanned ==
  \A i \in (enqueued + 1)..Len(PlanOrder) :
    PlanOrder[i] \notin Undone /\ ~finished[PlanOrder[i]]

\* A test that was enqueued has one or the other, until the run gives up.
NotForgotten ==
  \A i \in 1..enqueued :
    finished[PlanOrder[i]] \/ PlanOrder[i] \in Undone \/ stopping \/ infrastructureFailed

\* A test that was tried, or is with a worker, comes after passes of all the
\* tests it depends on; dispatch starts when no test waits for a failed one.
Cleared(t) == \A d \in Dependencies[t] : finished[d] /\ Satisfies(verdict[d])
Barred(t) == \E d \in Dependencies[t] : finished[d] /\ ~Satisfies(verdict[d])
TriedAfter == \A t \in Tests : attempts[t] # <<>> \/ t \in InHand => Cleared(t)
NoneBlocked == pc = "dispatch" => \A i \in DOMAIN queue : ~IsBlocked(queue[i])

JobsInv ==
  /\ TypeInv /\ JobsApart /\ JobsCounted /\ VerdictsEnd /\ NotYetPlanned /\ NotForgotten
  /\ TriedAfter /\ NoneBlocked

\* The types these are about.
LEMMA JobTypes ==
  ASSUME TypeInv
  PROVE  /\ queue \in Seq(Jobs) /\ job \in [Slots -> Jobs \cup {NoJob}]
         /\ Busy = {w \in Slots : job[w] # NoJob} /\ NoJob \notin Jobs
         /\ \A j \in Jobs : j.test \in Tests
         /\ TestsOf(queue) \subseteq Tests /\ InHand \subseteq Tests
         /\ finished \in [Tests -> BOOLEAN] /\ pendingJobs \in [Tests -> Int]
<1>1. /\ queue \in Seq(Jobs) /\ job \in [Slots -> Jobs \cup {NoJob}]
      /\ finished \in [Tests -> BOOLEAN] /\ pendingJobs \in [Tests -> Int]
  BY DEF TypeInv, TypeOK, QueueTypeOK, WorkerTypeOK, VerdictTypeOK
<1>2. \A j \in Jobs : j.test \in Tests
  BY DEF Jobs
<1>3. Busy = {w \in Slots : job[w] # NoJob}
  BY BusyIsHanded
<1>4. NoJob \notin Jobs
  BY DEF NoJob, Jobs, Job
<1>5. TestsOf(queue) \subseteq Tests
  <2>1. \A i \in DOMAIN queue : queue[i] \in Jobs
    BY <1>1
  <2> QED
    BY <1>2, <2>1 DEF TestsOf
<1>6. InHand \subseteq Tests
  BY <1>1, <1>2, <1>3 DEF InHand
<1> QED
  BY <1>1, <1>2, <1>3, <1>4, <1>5, <1>6

\* The plan has each test once, and some of it is enqueued.
LEMMA PlanTypes ==
  ASSUME TypeInv
  PROVE  /\ Len(PlanOrder) \in Nat /\ enqueued \in 0..Len(PlanOrder)
         /\ \A i \in 1..Len(PlanOrder) : PlanOrder[i] \in Tests
         /\ \A i, k \in 1..Len(PlanOrder) : PlanOrder[i] = PlanOrder[k] => i = k
<1>1. /\ PlanOrder \in Seq(Tests)
      /\ \A i, k \in DOMAIN PlanOrder : PlanOrder[i] = PlanOrder[k] => i = k
  BY SchedulerAssumption DEF PlanAssumption
<1>2. enqueued \in 0..Len(PlanOrder)
  BY DEF TypeInv, TypeOK, LoopTypeOK
<1> QED
  BY <1>1, <1>2

\* Handing out a job moves its test.
LEMMA HandsOutApart ==
  ASSUME TypeInv, TypeInv', JobsApart, HandsOut
  PROVE  JobsApart' /\ Undone' = Undone
<1>1. PICK i \in DOMAIN queue, w \in Slots :
        /\ job[w] = NoJob /\ job' = [job EXCEPT ![w] = queue[i]]
        /\ queue' = RemoveAt(queue, i)
  BY DEF HandsOut
<1> DEFINE t == queue[i].test
<1>2. t \in TestsOf(queue) /\ queue[i] \in Jobs
  BY JobTypes DEF TestsOf
<1>3. OnePerTest(queue') /\ TestsOf(queue') = TestsOf(queue) \ {t}
  BY <1>1, RemoveAtTests, JobTypes DEF JobsApart
<1>4. w \notin Busy /\ Busy' = Busy \cup {w} /\ job'[w] = queue[i]
      /\ \A v \in Busy : job'[v] = job[v]
  BY <1>1, <1>2, JobTypes, BusyIsHanded
<1>5. InHand' = InHand \cup {t}
  BY <1>4 DEF InHand
<1>6. t \notin InHand
  BY <1>2 DEF JobsApart
<1>7. \A v, u \in Busy' : job'[v].test = job'[u].test => v = u
  BY <1>4, <1>6 DEF JobsApart, InHand
<1> HIDE DEF t
<1> QED
  BY <1>2, <1>3, <1>5, <1>6, <1>7 DEF JobsApart, Undone

\* Putting one back changes nothing.
LEMMA PutsBackApart ==
  ASSUME TypeInv, TypeInv', JobsApart, PutsBack
  PROVE  JobsApart' /\ Undone' = Undone
<1>1. PICK i \in DOMAIN queue : queue' = <<queue[i]>> \o RemoveAt(queue, i)
  BY DEF PutsBack, PutBack
<1>2. OnePerTest(queue') /\ TestsOf(queue') = TestsOf(queue)
  BY <1>1, PutBackTests, JobTypes DEF JobsApart
<1>3. job' = job /\ Busy' = Busy /\ InHand' = InHand
  BY BusyIsHanded DEF PutsBack, InHand
<1> QED
  BY <1>2, <1>3 DEF JobsApart, Undone

\* The test of a job that is over is out of hand, and in the queue if there is
\* another job for it.
LEMMA LeavesApart ==
  ASSUME TypeInv, TypeInv', JobsApart, NEW w \in Slots, Leaves(w)
  PROVE  LET t == job[w].test
             pending == [pendingJobs EXCEPT ![t] = @ - 1]
         IN /\ t \in Undone /\ JobsApart'
            /\ Requeues(t, pending) => Undone' = Undone
            /\ Resolves(t, pending) \/ Drops(pending) => Undone' = Undone \ {t}
<1> DEFINE t == job[w].test
           pending == [pendingJobs EXCEPT ![t] = @ - 1]
<1>1. job[w] \in Jobs /\ job' = [job EXCEPT ![w] = NoJob]
  BY DEF Leaves
<1>2. w \in Busy /\ Busy' = Busy \ {w} /\ \A v \in Busy' : job'[v] = job[v]
  BY <1>1, JobTypes, BusyIsHanded
<1>3. t \in InHand
  BY <1>2 DEF InHand
<1>4. InHand' = InHand \ {t} /\ \A v, u \in Busy' : job'[v].test = job'[u].test => v = u
  BY <1>2 DEF InHand, JobsApart
<1>5. t \notin TestsOf(queue)
  BY <1>3 DEF JobsApart
<1> HIDE DEF t, pending
<1>6. CASE Requeues(t, pending)
  <2>1. PICK j \in Jobs : j.test = t /\ queue' \in {<<j>> \o queue, Append(queue, j)}
    BY <1>6 DEF Requeues
  <2>2. OnePerTest(queue') /\ TestsOf(queue') = TestsOf(queue) \cup {t}
    <3>1. queue \in Seq(Jobs) /\ OnePerTest(queue) /\ j.test \notin TestsOf(queue)
      BY <1>5, <2>1, JobTypes DEF JobsApart
    <3> QED
      BY <2>1, <3>1, AddedTests
  <2>3. JobsApart' /\ Undone' = Undone
    BY <1>3, <1>4, <1>5, <2>2 DEF JobsApart, Undone
  <2>4. ~Resolves(t, pending) /\ ~Drops(pending)
    <3>1. TestsOf(queue') # TestsOf(queue)
      BY <1>5, <2>2
    <3> QED
      BY <3>1 DEF Resolves, Drops
  <2> QED
    BY <1>3, <2>3, <2>4 DEF Undone, t, pending
<1>7. CASE queue' = queue
  <2>1. JobsApart' /\ Undone' = Undone \ {t}
    BY <1>4, <1>5, <1>7 DEF JobsApart, Undone
  <2>2. ~Requeues(t, pending)
    <3>1. SUFFICES ASSUME NEW j \in Jobs, queue' \in {<<j>> \o queue, Append(queue, j)}
                   PROVE  FALSE
      BY DEF Requeues
    <3>2. Len(queue') = Len(queue) + 1 /\ Len(queue) \in Nat
      BY <3>1, JobTypes
    <3> QED
      BY <1>7, <3>2
  <2> QED
    BY <1>3, <2>1, <2>2 DEF Undone, t, pending
<1> QED
  BY <1>6, <1>7 DEF Leaves, Resolves, Drops, t, pending

\* A verdict keeps those that were given before.
LEMMA FinishKeeps ==
  ASSUME VerdictTypeOK, NEW t \in Tests, NEW outcome, NEW isFlaky, Finish(t, outcome, isFlaky)
  PROVE  /\ finished' = [finished EXCEPT ![t] = TRUE]
         /\ \A u \in Tests : finished[u] => verdict'[u] = verdict[u] /\ flaky'[u] = flaky[u]
         /\ stopping => stopping'
<1>1. CASE finished[t]
  BY <1>1 DEF Finish, VerdictTypeOK
<1>2. CASE ~finished[t]
  BY <1>2 DEF Finish, VerdictTypeOK
<1> QED
  BY <1>1, <1>2

\* What a step does to verdicts: nothing, or it gives one.
LEMMA VerdictMoves ==
  ASSUME TypeInv, [Next]_vars
  PROVE  \/ Unresolved
         \/ \E t \in Tests : Finish(t, "blocked", FALSE)
         \/ \E t \in Tests, reproduced \in BOOLEAN :
              attempts'[t] # <<>> /\ FinishTried(t, attempts'[t], reproduced)
<1>1. CASE EnqueuePlanned \/ DrainQueue \/ HandsOut \/ PutsBack \/ JobsStay
  BY <1>1 DEF EnqueuePlanned, DrainQueue, HandsOut, PutsBack, JobsStay, Unresolved, testVars
<1>2. CASE SettleBlocked
  <2>1. PICK i \in DOMAIN queue : Finish(queue[i].test, "blocked", FALSE) \/ Unresolved
    BY <1>2 DEF SettleBlocked
  <2>2. queue[i].test \in Tests
    BY JobTypes
  <2> QED
    BY <2>1, <2>2
<1>3. ASSUME NEW w \in Slots, Leaves(w)
      PROVE  \/ Unresolved
             \/ \E t \in Tests, reproduced \in BOOLEAN :
                  attempts'[t] # <<>> /\ FinishTried(t, attempts'[t], reproduced)
  <2> DEFINE t == job[w].test
             pending == [pendingJobs EXCEPT ![t] = @ - 1]
  <2>1. t \in Tests
    BY <1>3, JobTypes DEF Leaves
  <2>2. Requeues(t, pending) \/ (attempts'[t] # <<>> /\ Resolves(t, pending)) \/ Drops(pending)
    BY <1>3 DEF Leaves
  <2> HIDE DEF t, pending
  <2> QED
    BY <2>1, <2>2 DEF Requeues, Resolves, Drops, Unresolved, testVars
<1> QED
  BY <1>1, <1>2, <1>3, JobMoves

\* Verdicts are kept, and so is the decision to stop.
LEMMA VerdictsStay ==
  ASSUME TypeInv, [Next]_vars
  PROVE  /\ \A u \in Tests : finished[u] =>
              finished'[u] /\ verdict'[u] = verdict[u] /\ flaky'[u] = flaky[u]
         /\ stopping => stopping'
<1>1. VerdictTypeOK
  BY DEF TypeInv, TypeOK
<1>2. CASE Unresolved
  BY <1>2 DEF Unresolved
<1>3. ASSUME NEW t \in Tests, NEW outcome, NEW isFlaky, Finish(t, outcome, isFlaky)
      PROVE  /\ \A u \in Tests : finished[u] =>
                  finished'[u] /\ verdict'[u] = verdict[u] /\ flaky'[u] = flaky[u]
             /\ stopping => stopping'
  BY <1>1, <1>3, FinishKeeps DEF VerdictTypeOK
<1> QED
  BY <1>2, <1>3, VerdictMoves DEF FinishTried

\* A run that gave up does not recover.
LEMMA FailureStays ==
  ASSUME [Next]_vars, infrastructureFailed
  PROVE  infrastructureFailed'
<1>1. CASE EnqueuePlanned \/ StartLoop \/ SettleBlocked \/ DrainQueue
  BY <1>1 DEF EnqueuePlanned, StartLoop, SettleBlocked, DrainQueue, startVars
<1>2. CASE Assign \/ MakeRoom \/ Spawn \/ SpawnFails \/ DispatchEnds
  BY <1>2 DEF Assign, MakeRoom, Spawn, SpawnFails, DispatchEnds, startVars
<1>3. CASE StartPending \/ SendHome \/ TakeEvents \/ CheckDeadlines \/ EndTurn
  BY <1>3 DEF StartPending, SendHome, TakeEvents, CheckDeadlines, EndTurn, startVars
<1>4. ASSUME NEW w \in Slots, Handle(w) PROVE infrastructureFailed'
  BY <1>4 DEF Handle, HandleHello, HandleFatal, IgnoreEnd, HandleStepEnd, HandleTargetEnd,
              HandleClosed, startVars
<1>5. ASSUME NEW w \in Slots, WorkerEnded(w) PROVE infrastructureFailed'
  BY <1>5 DEF WorkerEnded, CountStartupFailure, startVars
<1>6. ASSUME NEW w \in Slots, WorkerStep(w) \/ LimitPasses(w) PROVE infrastructureFailed'
  BY <1>6 DEF WorkerStep, LimitPasses, startVars
<1>7. CASE UNCHANGED vars
  BY <1>7 DEF vars, startVars
<1> QED
  BY <1>1, <1>2, <1>3, <1>4, <1>5, <1>6, <1>7 DEF Next, LoopStep, Terminated

\* Who has a job after a step: as before, or a planned test too, or all but
\* one, that got its verdict or was given up, or those in hand.
UndoneMoves ==
  \/ Undone' = Undone /\ finished' = finished /\ enqueued' = enqueued
  \/ /\ enqueued < Len(PlanOrder) /\ enqueued' = enqueued + 1
     /\ Undone' = Undone \cup {PlanOrder[enqueued + 1]} /\ finished' = finished
  \/ \E t \in Undone : /\ Undone' = Undone \ {t} /\ enqueued' = enqueued
                       /\ finished' = [finished EXCEPT ![t] = TRUE]
  \/ /\ infrastructureFailed' \/ stopping
     /\ Undone' \subseteq Undone /\ finished' = finished /\ enqueued' = enqueued

\* Run enqueues a test that had no job.
LEMMA EnqueuePlannedMoves ==
  ASSUME JobsInv, TypeInv', EnqueuePlanned
  PROVE  JobsApart' /\ JobsCounted' /\ UndoneMoves
<1> DEFINE t == PlanOrder[enqueued + 1]
           j == PlannedJob(t)
<1>1. enqueued \in 0..Len(PlanOrder) /\ enqueued < Len(PlanOrder) /\ Len(PlanOrder) \in Nat
  BY SchedulerAssumption DEF PlanAssumption, EnqueuePlanned, JobsInv, TypeInv, TypeOK, LoopTypeOK
<1>2. enqueued + 1 \in (enqueued + 1)..Len(PlanOrder) /\ enqueued + 1 \in 1..Len(PlanOrder)
  BY <1>1
<1>3. t \in Tests
  BY <1>2, SchedulerAssumption DEF PlanAssumption
<1>4. t \notin Undone
  BY <1>2 DEF JobsInv, NotYetPlanned
<1>5. j \in Jobs /\ j.test = t
  BY <1>3, SchedulerAssumption DEF PlanAssumption, PlannedJob, Job, Jobs
<1>6. /\ Enqueue(j, attempts[t], pendingJobs)
      /\ enqueued' = enqueued + 1 /\ UNCHANGED <<job, testVars>>
  BY DEF EnqueuePlanned, workerVars
<1> HIDE DEF t, j
<1>7. /\ queue \in Seq(Jobs) /\ OnePerTest(queue) /\ j.test \notin TestsOf(queue)
      /\ queue' \in {<<j>> \o queue, Append(queue, j)}
  BY <1>4, <1>5, <1>6, JobTypes DEF JobsInv, JobsApart, Undone, Enqueue
<1>8. OnePerTest(queue') /\ TestsOf(queue') = TestsOf(queue) \cup {t}
  BY <1>5, <1>7, AddedTests
<1>9. Busy' = Busy /\ InHand' = InHand
  BY <1>6, BusyIsHanded DEF JobsInv, InHand
<1>10. JobsApart' /\ Undone' = Undone \cup {t}
  BY <1>4, <1>6, <1>8, <1>9 DEF JobsInv, JobsApart, Undone
<1>11. JobsCounted'
  BY <1>3, <1>4, <1>5, <1>6, <1>10 DEF JobsInv, JobsCounted, Enqueue
<1> QED
  BY <1>1, <1>6, <1>10, <1>11 DEF UndoneMoves, testVars, t

\* A blocked test has its only job in the queue, was not tried and has no
\* verdict: it gets one.
LEMMA BlockedFinishes ==
  ASSUME JobsInv, SettleBlocked
  PROVE  \E i \in DOMAIN queue :
           LET t == queue[i].test
           IN /\ t \in Tests /\ t \in Undone /\ attempts[t] = <<>> /\ Barred(t)
              /\ queue' = RemoveAt(queue, i)
              /\ pendingJobs' = [pendingJobs EXCEPT ![t] = @ - 1]
              /\ Finish(t, "blocked", FALSE)
<1>1. PICK i \in DOMAIN queue :
        LET t == queue[i].test
        IN /\ IsBlocked(queue[i])
           /\ queue' = RemoveAt(queue, i)
           /\ pendingJobs' = [pendingJobs EXCEPT ![t] = @ - 1]
           /\ IF pendingJobs[t] = 1 /\ ~finished[t] /\ attempts[t] = <<>>
              THEN Finish(t, "blocked", FALSE)
              ELSE Unresolved
  BY DEF SettleBlocked
<1> DEFINE t == queue[i].test
<1>2. t \in Undone /\ t \in Tests
  BY JobTypes DEF JobsInv, Undone, TestsOf
<1>3. Barred(t)
  BY <1>1 DEF IsBlocked, Barred
<1>4. pendingJobs[t] = 1 /\ ~finished[t] /\ attempts[t] = <<>>
  BY <1>2, <1>3 DEF JobsInv, JobsCounted, VerdictsEnd, TriedAfter, Cleared, Barred
<1> QED
  BY <1>1, <1>2, <1>3, <1>4

\* A job whose test is blocked leaves the queue, and its test gets its verdict.
LEMMA SettleBlockedMoves ==
  ASSUME JobsInv, TypeInv', SettleBlocked
  PROVE  JobsApart' /\ JobsCounted' /\ UndoneMoves
<1>1. PICK i \in DOMAIN queue :
        LET t == queue[i].test
        IN /\ t \in Tests /\ t \in Undone /\ attempts[t] = <<>> /\ Barred(t)
           /\ queue' = RemoveAt(queue, i)
           /\ pendingJobs' = [pendingJobs EXCEPT ![t] = @ - 1]
           /\ Finish(t, "blocked", FALSE)
  BY BlockedFinishes
<1> DEFINE t == queue[i].test
<1>2. UNCHANGED <<job, enqueued>>
  BY DEF SettleBlocked, workerVars
<1>3. OnePerTest(queue') /\ TestsOf(queue') = TestsOf(queue) \ {t}
  BY <1>1, RemoveAtTests, JobTypes DEF JobsInv, JobsApart
<1>4. Busy' = Busy /\ InHand' = InHand /\ t \notin InHand
  <2>1. Busy' = Busy
    BY <1>2, BusyIsHanded DEF JobsInv
  <2>2. InHand' = InHand
    BY <1>2, <2>1 DEF InHand
  <2>3. t \in TestsOf(queue)
    BY <1>1 DEF TestsOf
  <2> QED
    BY <2>1, <2>2, <2>3 DEF JobsInv, JobsApart
<1>5. finished' = [finished EXCEPT ![t] = TRUE]
  <2>1. VerdictTypeOK
    BY DEF JobsInv, TypeInv, TypeOK
  <2> QED
    BY <1>1, <2>1, FinishKeeps
<1> HIDE DEF t
<1>6. JobsApart' /\ Undone' = Undone \ {t}
  BY <1>2, <1>3, <1>4 DEF JobsInv, JobsApart, Undone
<1>7. JobsCounted'
  BY <1>1, <1>6 DEF JobsInv, JobsCounted, t
<1> QED
  BY <1>1, <1>2, <1>5, <1>6, <1>7 DEF UndoneMoves, t

\* A run that stops early leaves the jobs that are in hand.
LEMMA DrainQueueMoves ==
  ASSUME JobsInv, TypeInv', DrainQueue
  PROVE  JobsApart' /\ JobsCounted' /\ UndoneMoves
<1>1. UNCHANGED <<job, finished, enqueued>>
  BY DEF DrainQueue, testVars
<1>2. Busy' = Busy /\ InHand' = InHand
  BY <1>1, BusyIsHanded DEF JobsInv, InHand
<1>3. CASE ~(stopping \/ infrastructureFailed)
  <2>1. UNCHANGED queueVars
    BY <1>3 DEF DrainQueue
  <2>2. JobsApart' /\ Undone' = Undone
    BY <1>1, <1>2, <2>1 DEF JobsInv, JobsApart, Undone, queueVars
  <2> QED
    BY <1>1, <2>1, <2>2 DEF JobsInv, JobsCounted, UndoneMoves, queueVars
<1>4. CASE stopping \/ infrastructureFailed
  <2> DEFINE At(t) == {i \in DOMAIN queue : queue[i].test = t}
  <2>1. /\ pendingJobs' = [t \in Tests |-> pendingJobs[t] - Cardinality(At(t))]
        /\ queue' = <<>> /\ UNCHANGED infrastructureFailed
    BY <1>4 DEF DrainQueue, startVars
  <2>2. TestsOf(queue') = {} /\ OnePerTest(queue')
    BY <2>1 DEF TestsOf, OnePerTest
  <2>3. JobsApart' /\ Undone' = InHand
    BY <1>1, <1>2, <2>2 DEF JobsInv, JobsApart, Undone
  <2>4. ASSUME NEW t \in Tests
        PROVE  pendingJobs[t] - Cardinality(At(t)) = IF t \in InHand THEN 1 ELSE 0
    <3>1. CASE t \in TestsOf(queue)
      <4>1. PICK i \in DOMAIN queue : queue[i].test = t
        BY <3>1 DEF TestsOf
      <4>2. At(t) = {i}
        BY <4>1 DEF JobsInv, JobsApart, OnePerTest
      <4>3. Cardinality(At(t)) = 1
        BY <4>2, FS_Singleton
      <4> QED
        BY <3>1, <4>3 DEF JobsInv, JobsApart, JobsCounted, Undone
    <3>2. CASE t \notin TestsOf(queue)
      <4>1. At(t) = {}
        BY <3>2 DEF TestsOf
      <4>2. Cardinality(At(t)) = 0
        BY <4>1, FS_EmptySet
      <4> QED
        BY <3>2, <4>2 DEF JobsInv, JobsCounted, Undone
    <3> QED
      BY <3>1, <3>2
  <2> HIDE DEF At
  <2>5. JobsCounted'
    BY <2>1, <2>3, <2>4 DEF JobsCounted
  <2> QED
    BY <1>1, <1>4, <2>1, <2>3, <2>5 DEF UndoneMoves, Undone
<1> QED
  BY <1>3, <1>4

\* A job that is over is replaced by another or was the last of its test.
LEMMA LeavesMoves ==
  ASSUME JobsInv, TypeInv', NEW w \in Slots, Leaves(w)
  PROVE  JobsApart' /\ JobsCounted' /\ UndoneMoves
<1> DEFINE t == job[w].test
           pending == [pendingJobs EXCEPT ![t] = @ - 1]
<1>1. /\ t \in Undone /\ JobsApart'
      /\ Requeues(t, pending) => Undone' = Undone
      /\ Resolves(t, pending) \/ Drops(pending) => Undone' = Undone \ {t}
  BY LeavesApart DEF JobsInv
<1>2. t \in Tests /\ enqueued' = enqueued
  BY JobTypes DEF Leaves, JobsInv
<1>3. Requeues(t, pending) \/ Resolves(t, pending) \/ Drops(pending)
  BY DEF Leaves
<1>4. pendingJobs \in [Tests -> Int]
  BY JobTypes DEF JobsInv
<1> HIDE DEF t
<1>5. CASE Requeues(t, pending)
  <2>1. pendingJobs' = pendingJobs
    BY <1>2, <1>4, <1>5 DEF Requeues
  <2> QED
    BY <1>1, <1>2, <1>5, <2>1 DEF JobsInv, JobsCounted, Requeues, Unresolved, UndoneMoves
<1>6. CASE Resolves(t, pending) \/ Drops(pending)
  <2>1. pendingJobs' = pending
    BY <1>6 DEF Resolves, Drops
  <2>2. JobsCounted'
    BY <1>1, <1>2, <1>6, <2>1 DEF JobsInv, JobsCounted
  <2>3. CASE Drops(pending)
    BY <1>1, <1>2, <2>2, <2>3 DEF Drops, testVars, UndoneMoves
  <2>4. CASE Resolves(t, pending)
    <3>1. finished' = [finished EXCEPT ![t] = TRUE]
      BY <1>2, <2>4, FinishKeeps DEF Resolves, FinishTried, JobsInv, TypeInv, TypeOK
    <3> QED
      BY <1>1, <1>2, <2>2, <2>4, <3>1 DEF UndoneMoves
  <2> QED
    BY <1>6, <2>3, <2>4
<1> QED
  BY <1>3, <1>5, <1>6

\* So jobs stay apart and counted.
LEMMA NextApart ==
  ASSUME JobsInv, TypeInv', [Next]_vars
  PROVE  JobsApart' /\ JobsCounted' /\ UndoneMoves
<1>1. ASSUME TypeInv, HandsOut \/ PutsBack
      PROVE  JobsApart' /\ JobsCounted' /\ UndoneMoves
  BY <1>1, HandsOutApart, PutsBackApart
     DEF JobsInv, JobsCounted, HandsOut, PutsBack, testVars, UndoneMoves
<1>2. CASE JobsStay
  <2>1. Busy' = Busy /\ InHand' = InHand
    BY <1>2, BusyIsHanded DEF JobsInv, JobsStay, InHand
  <2> QED
    BY <1>2, <2>1 DEF JobsInv, JobsApart, JobsCounted, JobsStay, Undone, queueVars, testVars,
                      UndoneMoves
<1> QED
  BY <1>1, <1>2, JobMoves, EnqueuePlannedMoves, SettleBlockedMoves, DrainQueueMoves, LeavesMoves
     DEF JobsInv

\* A verdict ends the jobs of a test; tests come in from the plan only, and do
\* not get lost.
LEMMA NextVerdictsEnd ==
  ASSUME JobsInv, UndoneMoves
  PROVE  VerdictsEnd'
<1>0. finished \in [Tests -> BOOLEAN] /\ PlanOrder \in Seq(Tests)
  BY JobTypes, SchedulerAssumption DEF JobsInv, PlanAssumption
<1>1. CASE /\ enqueued < Len(PlanOrder) /\ enqueued' = enqueued + 1
           /\ Undone' = Undone \cup {PlanOrder[enqueued + 1]} /\ finished' = finished
  <2>1. enqueued + 1 \in (enqueued + 1)..Len(PlanOrder)
    BY <1>0, <1>1 DEF JobsInv, TypeInv, TypeOK, LoopTypeOK
  <2> QED
    BY <1>1, <2>1 DEF JobsInv, VerdictsEnd, NotYetPlanned
<1>2. ASSUME NEW t \in Undone, Undone' = Undone \ {t}, finished' = [finished EXCEPT ![t] = TRUE]
      PROVE  VerdictsEnd'
  BY <1>0, <1>2 DEF JobsInv, VerdictsEnd
<1>3. CASE Undone' \subseteq Undone /\ finished' = finished
  BY <1>3 DEF JobsInv, VerdictsEnd
<1> QED
  BY <1>1, <1>2, <1>3 DEF UndoneMoves

\* A test that is enqueued has a job or a verdict from then on.
LEMMA NextPlanned ==
  ASSUME JobsInv, UndoneMoves, stopping => stopping',
         infrastructureFailed => infrastructureFailed'
  PROVE  NotYetPlanned' /\ NotForgotten'
<1>0. /\ finished \in [Tests -> BOOLEAN] /\ Undone \subseteq Tests
      /\ Len(PlanOrder) \in Nat /\ enqueued \in 0..Len(PlanOrder)
      /\ \A i \in 1..Len(PlanOrder) : PlanOrder[i] \in Tests
      /\ \A i, k \in 1..Len(PlanOrder) : PlanOrder[i] = PlanOrder[k] => i = k
  <2>1. TypeInv
    BY DEF JobsInv
  <2> QED
    BY <2>1, JobTypes, PlanTypes DEF Undone
<1>1. CASE Undone' = Undone /\ finished' = finished /\ enqueued' = enqueued
  BY <1>1 DEF JobsInv, NotYetPlanned, NotForgotten
<1>2. CASE /\ enqueued < Len(PlanOrder) /\ enqueued' = enqueued + 1
           /\ Undone' = Undone \cup {PlanOrder[enqueued + 1]} /\ finished' = finished
  <2>1. \A i \in (enqueued' + 1)..Len(PlanOrder) :
          i \in (enqueued + 1)..Len(PlanOrder) /\ PlanOrder[i] # PlanOrder[enqueued + 1]
    <3>1. enqueued + 1 \in 1..Len(PlanOrder)
      BY <1>0, <1>2
    <3>2. \A i \in (enqueued' + 1)..Len(PlanOrder) :
            i \in (enqueued + 1)..Len(PlanOrder) /\ i \in 1..Len(PlanOrder) /\ i # enqueued + 1
      BY <1>0, <1>2
    <3> QED
      BY <1>0, <3>1, <3>2
  <2>2. NotYetPlanned'
    BY <1>2, <2>1 DEF JobsInv, NotYetPlanned
  <2>3. \A i \in 1..enqueued' : i = enqueued + 1 \/ i \in 1..enqueued
    BY <1>0, <1>2
  <2> QED
    BY <1>2, <2>2, <2>3 DEF JobsInv, NotForgotten
<1>3. ASSUME NEW t \in Undone, Undone' = Undone \ {t}, enqueued' = enqueued,
             finished' = [finished EXCEPT ![t] = TRUE]
      PROVE  NotYetPlanned' /\ NotForgotten'
  <2>1. \A i \in 1..Len(PlanOrder) : finished'[PlanOrder[i]] <=>
                                       finished[PlanOrder[i]] \/ PlanOrder[i] = t
    BY <1>0, <1>3
  <2>2. \A i \in 1..enqueued : i \in 1..Len(PlanOrder)
    BY <1>0
  <2>3. \A i \in (enqueued + 1)..Len(PlanOrder) : i \in 1..Len(PlanOrder)
    BY <1>0
  <2> QED
    BY <1>3, <2>1, <2>2, <2>3 DEF JobsInv, NotYetPlanned, NotForgotten
<1>4. CASE /\ infrastructureFailed' \/ stopping
           /\ Undone' \subseteq Undone /\ finished' = finished /\ enqueued' = enqueued
  BY <1>4 DEF JobsInv, NotYetPlanned, NotForgotten
<1> QED
  BY <1>1, <1>2, <1>3, <1>4 DEF UndoneMoves

\* A job is handed out for a test that is not blocked and not waiting.
LEMMA TakenIsCleared ==
  ASSUME JobsInv, pc = "dispatch", NEW i \in DOMAIN queue, TakesRunnable(i)
  PROVE  Cleared(queue[i].test)
<1> DEFINE j == queue[i]
<1>1. j \in Jobs /\ j.test \in Tests
  BY JobTypes DEF JobsInv
<1>2. CASE j.kind = "probe"
  BY <1>1, <1>2 DEF JobsInv, TypeInv, ProbesTried, QueuedProbesTried, TriedAfter
<1>3. CASE j.kind # "probe"
  <2>1. j.kind = "attempt"
    BY <1>1, <1>3 DEF Jobs
  <2>2. \A d \in Dependencies[j.test] : finished[d]
    BY <1>3 DEF TakesRunnable, Passed, Settled
  <2>3. ~IsBlocked(j)
    BY DEF JobsInv, NoneBlocked
  <2> QED
    BY <2>1, <2>2, <2>3 DEF IsBlocked, Cleared
<1> QED
  BY <1>2, <1>3

\* Attempts and jobs in hand are those of tests whose dependencies passed.
LEMMA NextTriedAfter ==
  ASSUME JobsInv, TypeInv', [Next]_vars
  PROVE  TriedAfter'
<1>1. \A t \in Tests : Cleared(t) => Cleared(t)'
  <2>1. \A t \in Tests : Dependencies[t] \subseteq Tests
    BY SchedulerAssumption DEF PlanAssumption
  <2> QED
    BY <2>1, VerdictsStay DEF JobsInv, Cleared
<1>2. SUFFICES ASSUME NEW t \in Tests, attempts'[t] # <<>> \/ t \in InHand'
               PROVE  Cleared(t)
  BY <1>1 DEF TriedAfter
<1>3. SUFFICES ASSUME attempts[t] = <<>> /\ t \notin InHand PROVE Cleared(t)
  BY DEF JobsInv, TriedAfter
<1>4. CASE UNCHANGED <<attempts, job>>
  <2>1. InHand' = InHand
    BY <1>4, BusyIsHanded DEF JobsInv, InHand
  <2> QED
    BY <1>2, <1>3, <1>4, <2>1
<1>5. CASE HandsOut
  <2>1. PICK i \in DOMAIN queue, w \in Slots :
          TakesRunnable(i) /\ job[w] = NoJob /\ job' = [job EXCEPT ![w] = queue[i]]
    BY <1>5 DEF HandsOut
  <2>2. attempts' = attempts /\ pc = "dispatch"
    BY <1>5 DEF HandsOut, testVars
  <2>3. \A v \in Busy' : v = w \/ (v \in Busy /\ job'[v] = job[v])
    BY <2>1, BusyIsHanded, JobTypes DEF JobsInv
  <2>4. w \in Slots /\ job'[w] = queue[i]
    BY <2>1, JobTypes DEF JobsInv
  <2>5. t = queue[i].test
    BY <1>2, <1>3, <2>2, <2>3, <2>4 DEF InHand
  <2> QED
    BY <2>1, <2>2, <2>5, TakenIsCleared
<1>6. ASSUME NEW w \in Slots, Leaves(w) PROVE Cleared(t)
  <2>1. /\ job[w] \in Jobs /\ job' = [job EXCEPT ![w] = NoJob]
        /\ \/ attempts' = attempts
           \/ \E a \in Attempts : attempts' = [attempts EXCEPT ![job[w].test] = Append(@, a)]
    BY <1>6 DEF Leaves
  <2>2. w \in Busy /\ job[w].test \in InHand
    BY <2>1, JobTypes DEF JobsInv, InHand
  <2>3. \A v \in Busy' : v \in Busy /\ job'[v] = job[v]
    BY <2>1, BusyIsHanded, JobTypes DEF JobsInv
  <2>4. InHand' \subseteq InHand
    BY <2>3 DEF InHand
  <2>5. attempts \in [Tests -> Seq(Attempts)]
    BY DEF JobsInv, TypeInv, TypeOK, TestTypeOK
  <2>6. attempts'[t] = attempts[t]
    BY <1>3, <2>1, <2>2, <2>5
  <2> QED
    BY <1>2, <1>3, <2>4, <2>6
<1>7. EnqueuePlanned \/ SettleBlocked \/ DrainQueue \/ PutsBack \/ JobsStay
        => UNCHANGED <<attempts, job>>
  BY DEF EnqueuePlanned, SettleBlocked, DrainQueue, PutsBack, JobsStay, testVars, workerVars
<1> QED
  BY <1>4, <1>5, <1>6, <1>7, JobMoves DEF JobsInv

\* Dispatch starts when no job is blocked, and gives no verdict.
LEMMA NextNoneBlocked ==
  ASSUME JobsInv, [Next]_vars
  PROVE  NoneBlocked'
<1>1. SUFFICES ASSUME pc' = "dispatch"
               PROVE  \A i \in DOMAIN queue' : ~IsBlocked(queue[i])'
  BY DEF NoneBlocked
<1>2. CASE DrainQueue
  BY <1>2 DEF DrainQueue, IsBlocked, queueVars, testVars
<1>3. CASE HandsOut
  <2>1. UNCHANGED <<finished, verdict>> /\ pc = "dispatch"
    BY <1>3 DEF HandsOut, testVars
  <2>2. \A i \in DOMAIN queue' : \E k \in DOMAIN queue : queue'[i] = queue[k]
    BY <1>3, RemoveAtType, JobTypes DEF HandsOut, JobsInv
  <2> QED
    BY <2>1, <2>2 DEF JobsInv, NoneBlocked, IsBlocked
<1>4. CASE JobsStay
  BY <1>1, <1>4 DEF JobsStay, JobsInv, NoneBlocked, IsBlocked, queueVars, testVars
<1>5. ~EnqueuePlanned /\ ~SettleBlocked /\ ~PutsBack /\ \A w \in Slots : ~Leaves(w)
  BY <1>1 DEF EnqueuePlanned, SettleBlocked, PutsBack, Leaves
<1> QED
  BY <1>2, <1>3, <1>4, <1>5, JobMoves DEF JobsInv

\* At first nothing is enqueued.
LEMMA InitJobsInv == Init => JobsInv
<1> SUFFICES ASSUME Init PROVE JobsInv
  OBVIOUS
<1>1. TypeInv
  BY InitTypeInv
<1>2. /\ queue = <<>> /\ workers = {} /\ enqueued = 0 /\ pc = "enqueue"
      /\ \A t \in Tests : ~finished[t] /\ attempts[t] = <<>>
      /\ pendingJobs = [t \in Tests |-> 0]
  BY DEF Init
<1>3. Undone = {} /\ TestsOf(queue) = {} /\ Busy = {} /\ InHand = {} /\ OnePerTest(queue)
  BY <1>2 DEF Undone, TestsOf, Busy, InHand, OnePerTest
<1>4. \A i \in 1..Len(PlanOrder) : PlanOrder[i] \in Tests
  BY SchedulerAssumption DEF PlanAssumption
<1>5. NotYetPlanned /\ NotForgotten
  BY <1>2, <1>3, <1>4 DEF NotYetPlanned, NotForgotten
<1> QED
  BY <1>1, <1>2, <1>3, <1>5
     DEF JobsInv, JobsApart, JobsCounted, VerdictsEnd, TriedAfter, NoneBlocked

\* Every step keeps the jobs of different tests apart, and counted.
LEMMA NextJobsInv == JobsInv /\ [Next]_vars => JobsInv'
<1> SUFFICES ASSUME JobsInv, [Next]_vars PROVE JobsInv'
  OBVIOUS
<1>1. TypeInv /\ TypeInv'
  BY NextTypeInv DEF JobsInv
<1>2. JobsApart' /\ JobsCounted' /\ UndoneMoves
  BY <1>1, NextApart
<1>3. VerdictsEnd'
  BY <1>2, NextVerdictsEnd
<1>4. NotYetPlanned' /\ NotForgotten'
  BY <1>1, <1>2, NextPlanned, VerdictsStay, FailureStays
<1>5. TriedAfter' /\ NoneBlocked'
  BY <1>1, NextTriedAfter, NextNoneBlocked
<1> QED
  BY <1>1, <1>2, <1>3, <1>4, <1>5 DEF JobsInv

\* In terms of slots and positions.
LEMMA JobsOfTest ==
  ASSUME TypeInv, NEW t \in Tests
  PROVE  /\ Handed(t) = {w \in Busy : job[w].test = t}
         /\ Queued(t) # {} <=> t \in TestsOf(queue)
         /\ Handed(t) # {} <=> t \in InHand
         /\ HasJob(t) <=> t \in Undone
<1>1. t # NoJob.test
  BY NoTestAssumption, SchedulerAssumption DEF PlanAssumption, NoJob, Job
<1>2. Handed(t) = {w \in Busy : job[w].test = t}
  BY <1>1 DEF Handed, Busy
<1>3. Queued(t) # {} <=> t \in TestsOf(queue)
  BY DEF Queued, TestsOf
<1>4. Handed(t) # {} <=> t \in InHand
  BY <1>2 DEF InHand
<1> QED
  BY <1>2, <1>3, <1>4 DEF HasJob, Undone

\* No mix of repeats, retries, probes and jobs that start over after a crash, a
\* timeout or a failed start gives a test two jobs, and pendingJobs counts them.
THEOREM EachTestHasOneJob == Spec => []OneJobPerTest
<1>1. JobsInv => OneJobPerTest
  <2> SUFFICES ASSUME JobsInv, NEW t \in Tests
               PROVE  /\ \A i, k \in Queued(t) : i = k
                      /\ \A w, v \in Handed(t) : w = v
                      /\ Queued(t) = {} \/ Handed(t) = {}
                      /\ pendingJobs[t] = IF HasJob(t) THEN 1 ELSE 0
    BY DEF OneJobPerTest
  <2>1. TypeInv
    BY DEF JobsInv
  <2>2. \A i, k \in Queued(t) : i = k
    BY DEF Queued, JobsInv, JobsApart, OnePerTest
  <2>3. \A w, v \in Handed(t) : w = v
    BY <2>1, JobsOfTest DEF JobsInv, JobsApart
  <2>4. Queued(t) = {} \/ Handed(t) = {}
    BY <2>1, JobsOfTest DEF JobsInv, JobsApart
  <2>5. pendingJobs[t] = IF HasJob(t) THEN 1 ELSE 0
    BY <2>1, JobsOfTest DEF JobsInv, JobsCounted
  <2> QED
    BY <2>2, <2>3, <2>4, <2>5
<1> QED
  BY <1>1, InitJobsInv, NextJobsInv, PTL DEF Spec

\* A test that was enqueued has a job until it has its verdict, and none after,
\* unless the run stopped or gave up.
THEOREM NothingIsForgotten == Spec => []NoTestForgotten
<1>1. JobsInv => NoTestForgotten
  <2> SUFFICES ASSUME JobsInv, NEW i \in 1..enqueued
               PROVE  IF finished[PlanOrder[i]] THEN ~HasJob(PlanOrder[i])
                      ELSE HasJob(PlanOrder[i]) \/ stopping \/ infrastructureFailed
    BY DEF NoTestForgotten, EnqueuedTests
  <2>1. PlanOrder[i] \in Tests
    <3>1. PlanOrder \in Seq(Tests) /\ enqueued \in 0..Len(PlanOrder)
      BY SchedulerAssumption DEF PlanAssumption, JobsInv, TypeInv, TypeOK, LoopTypeOK
    <3> QED
      BY <3>1
  <2>2. HasJob(PlanOrder[i]) <=> PlanOrder[i] \in Undone
    BY <2>1, JobsOfTest DEF JobsInv
  <2> QED
    BY <2>1, <2>2 DEF JobsInv, VerdictsEnd, NotForgotten
<1> QED
  BY <1>1, InitJobsInv, NextJobsInv, PTL DEF Spec
-----------------------------------------------------------------------------
(***************************************************************************)
(* Verdicts.                                                               *)
(***************************************************************************)

\* A test with a verdict has no job in hand whose end could add an attempt.
LEMMA NextFinal ==
  ASSUME JobsInv, [Next]_vars, NEW t \in Tests, finished[t]
  PROVE  finished'[t] /\ verdict'[t] = verdict[t] /\ flaky'[t] = flaky[t]
         /\ attempts'[t] = attempts[t]
<1>1. finished'[t] /\ verdict'[t] = verdict[t] /\ flaky'[t] = flaky[t]
  BY VerdictsStay DEF JobsInv
<1>2. CASE UNCHANGED attempts
  BY <1>1, <1>2
<1>3. ASSUME NEW w \in Slots, Leaves(w) PROVE attempts'[t] = attempts[t]
  <2>1. /\ job[w] \in Jobs
        /\ \/ attempts' = attempts
           \/ \E a \in Attempts : attempts' = [attempts EXCEPT ![job[w].test] = Append(@, a)]
    BY <1>3 DEF Leaves
  <2>2. job[w].test \in Undone
    BY <2>1, JobTypes DEF JobsInv, InHand, Undone
  <2>3. job[w].test # t
    BY <2>2 DEF JobsInv, VerdictsEnd
  <2>4. attempts \in [Tests -> Seq(Attempts)]
    BY DEF JobsInv, TypeInv, TypeOK, TestTypeOK
  <2> QED
    BY <2>1, <2>3, <2>4
<1>4. EnqueuePlanned \/ SettleBlocked \/ DrainQueue \/ HandsOut \/ PutsBack \/ JobsStay
        => UNCHANGED attempts
  BY DEF EnqueuePlanned, SettleBlocked, DrainQueue, HandsOut, PutsBack, JobsStay, testVars
<1> QED
  BY <1>1, <1>2, <1>3, <1>4, JobMoves DEF JobsInv

\* Nothing that arrives or ends later changes the verdict of a test or adds an
\* attempt to it.
THEOREM VerdictStays == Spec => VerdictIsFinal
<1>1. JobsInv /\ [Next]_vars
        => [\A t \in Tests : finished[t] =>
              /\ finished'[t] /\ verdict'[t] = verdict[t] /\ flaky'[t] = flaky[t]
              /\ attempts'[t] = attempts[t]]_vars
  BY NextFinal
<1> QED
  BY <1>1, InitJobsInv, NextJobsInv, PTL DEF Spec, VerdictIsFinal

\* A test without a verdict is not run; attempts have the outcomes of attempts;
\* the verdict of a test that was tried is one of those, any other test is
\* blocked by a dependency.
NoVerdictYet == \A t \in Tests : ~finished[t] => verdict[t] = "not-run" /\ ~flaky[t]
MadeAttempts == [outcome : Made, precededBy : Seq(Catalog)]
AttemptsMade == attempts \in [Tests -> Seq(MadeAttempts)]
VerdictFits ==
  \A t \in Tests : finished[t] =>
    IF attempts[t] = <<>> THEN verdict[t] = "blocked" /\ Barred(t) ELSE verdict[t] \in Made

\* The failures that count are counted, and decide whether to stop.
FailedRun == {t \in Tests \ Quarantined : IsFailure(verdict[t]) \/ verdict[t] = "blocked"}
FailuresCounted ==
  /\ failedTests = Cardinality(FailedRun)
  /\ stopping <=> FailFast > 0 /\ failedTests >= FailFast

VerdictInv == JobsInv /\ NoVerdictYet /\ AttemptsMade /\ VerdictFits /\ FailuresCounted

\* The attempts stay attempts.
LEMMA NextAttemptsMade ==
  ASSUME VerdictInv, [Next]_vars
  PROVE  AttemptsMade'
<1>1. EnqueuePlanned \/ SettleBlocked \/ DrainQueue \/ HandsOut \/ PutsBack \/ JobsStay
        => UNCHANGED attempts
  BY DEF EnqueuePlanned, SettleBlocked, DrainQueue, HandsOut, PutsBack, JobsStay, testVars
<1>2. ASSUME NEW w \in Slots, Leaves(w) PROVE AttemptsMade'
  <2>1. CASE attempts' = attempts
    BY <2>1 DEF VerdictInv, AttemptsMade
  <2>2. ASSUME NEW a \in Attempts, a.outcome \in Made,
               attempts' = [attempts EXCEPT ![job[w].test] = Append(@, a)]
        PROVE  AttemptsMade'
    <3>1. a \in MadeAttempts
      BY <2>2 DEF Attempts, MadeAttempts
    <3>2. job[w].test \in Tests
      BY <1>2, JobTypes DEF Leaves, VerdictInv, JobsInv
    <3>3. Append(attempts[job[w].test], a) \in Seq(MadeAttempts)
      BY <3>1, <3>2 DEF VerdictInv, AttemptsMade
    <3> QED
      BY <2>2, <3>2, <3>3 DEF VerdictInv, AttemptsMade
  <2> QED
    BY <1>2, <2>1, <2>2 DEF Leaves
<1> QED
  BY <1>1, <1>2, JobMoves DEF VerdictInv, JobsInv, AttemptsMade

\* A test gets its verdict once, and the one that fits.
LEMMA VerdictGiven ==
  ASSUME VerdictInv, AttemptsMade', [Next]_vars
  PROVE  \/ Unresolved
         \/ \E t \in Tests, outcome \in Outcome, isFlaky \in BOOLEAN :
              /\ Finish(t, outcome, isFlaky)
              /\ IF attempts'[t] = <<>> THEN outcome = "blocked" /\ Barred(t)
                 ELSE outcome \in Made
<1>1. CASE SettleBlocked
  <2>1. PICK i \in DOMAIN queue :
          LET t == queue[i].test
          IN /\ t \in Tests /\ attempts[t] = <<>> /\ Barred(t)
             /\ Finish(t, "blocked", FALSE)
    BY <1>1, BlockedFinishes DEF VerdictInv
  <2>2. attempts' = attempts
    BY <1>1 DEF SettleBlocked
  <2> QED
    BY <2>1, <2>2 DEF Outcome
<1>2. ASSUME NEW w \in Slots, Leaves(w)
      PROVE  \/ Unresolved
             \/ \E t \in Tests, outcome \in Made, isFlaky \in BOOLEAN :
                  Finish(t, outcome, isFlaky) /\ attempts'[t] # <<>>
  <2> DEFINE t == job[w].test
             pending == [pendingJobs EXCEPT ![t] = @ - 1]
  <2>1. t \in Tests
    BY <1>2, JobTypes DEF Leaves, VerdictInv, JobsInv
  <2>2. Requeues(t, pending) \/ (attempts'[t] # <<>> /\ Resolves(t, pending)) \/ Drops(pending)
    BY <1>2 DEF Leaves
  <2> HIDE DEF t, pending
  <2>3. ASSUME attempts'[t] # <<>>, Resolves(t, pending)
        PROVE  \E outcome \in Made, isFlaky \in BOOLEAN : Finish(t, outcome, isFlaky)
    <3>1. PICK reproduced \in BOOLEAN : FinishTried(t, attempts'[t], reproduced)
      BY <2>3 DEF Resolves
    <3>2. attempts'[t] \in Seq(MadeAttempts)
      BY <2>1 DEF AttemptsMade
    <3>3. \A a \in MadeAttempts : a.outcome \in Made
      BY DEF MadeAttempts
    <3>4. /\ Verdict(attempts'[t], reproduced) \in Made
          /\ Flaky(attempts'[t], reproduced) \in BOOLEAN
      BY <2>3, <3>2, <3>3, VerdictIsAnAttempts
    <3> QED
      BY <3>1, <3>4 DEF FinishTried
  <2> QED
    BY <2>1, <2>2, <2>3 DEF Requeues, Drops, Unresolved, testVars
<1>3. EnqueuePlanned \/ DrainQueue \/ HandsOut \/ PutsBack \/ JobsStay => Unresolved
  BY DEF EnqueuePlanned, DrainQueue, HandsOut, PutsBack, JobsStay, testVars, Unresolved
<1>4. Made \subseteq Outcome
  BY DEF Made, Reported, Outcome
<1> QED
  BY <1>1, <1>2, <1>3, <1>4, JobMoves DEF VerdictInv, JobsInv

\* A verdict that is given counts when it fails the run.
LEMMA FinishCounts ==
  ASSUME VerdictInv, VerdictTypeOK', NEW t \in Tests, NEW outcome \in Outcome, NEW isFlaky \in BOOLEAN,
         ~finished[t], Finish(t, outcome, isFlaky)
  PROVE  NoVerdictYet' /\ FailuresCounted'
<1>1. /\ finished \in [Tests -> BOOLEAN] /\ flaky \in [Tests -> BOOLEAN]
      /\ verdict \in [Tests -> Outcome] /\ failedTests \in Nat
  BY DEF VerdictInv, JobsInv, TypeInv, TypeOK, VerdictTypeOK
<1>2. /\ finished' = [finished EXCEPT ![t] = TRUE] /\ verdict' = [verdict EXCEPT ![t] = outcome]
      /\ flaky' = [flaky EXCEPT ![t] = isFlaky]
      /\ failedTests' = failedTests + (IF FailsRun(outcome, t \in Quarantined) THEN 1 ELSE 0)
      /\ stopping' = (stopping \/ /\ FailsRun(outcome, t \in Quarantined)
                                  /\ FailFast > 0 /\ failedTests' >= FailFast)
  BY DEF Finish
<1>3. NoVerdictYet'
  BY <1>1, <1>2 DEF VerdictInv, NoVerdictYet
<1>4. verdict[t] = "not-run" /\ t \notin FailedRun
  BY DEF VerdictInv, NoVerdictYet, FailedRun, IsFailure
<1>5. FailsRun(outcome, t \in Quarantined)
        <=> t \notin Quarantined /\ (IsFailure(outcome) \/ outcome = "blocked")
  BY DEF FailsRun, IsFailure
<1>6. FailedRun' = IF FailsRun(outcome, t \in Quarantined) THEN FailedRun \cup {t} ELSE FailedRun
  <2>1. \A u \in Tests : verdict'[u] = IF u = t THEN outcome ELSE verdict[u]
    BY <1>1, <1>2
  <2> QED
    BY <1>4, <1>5, <2>1 DEF FailedRun
<1>7. IsFiniteSet(FailedRun)
  <2>1. IsFiniteSet(Tests)
    <3>1. PlanOrder \in Seq(Tests) /\ \A u \in Tests : \E i \in DOMAIN PlanOrder : PlanOrder[i] = u
      BY SchedulerAssumption DEF PlanAssumption
    <3>2. Len(PlanOrder) \in Nat /\ DOMAIN PlanOrder = 1..Len(PlanOrder)
      BY <3>1
    <3>3. IsFiniteSet(1..Len(PlanOrder))
      BY <3>2, FS_Interval
    <3>4. PlanOrder \in Surjection(1..Len(PlanOrder), Tests)
      BY <3>1, <3>2 DEF Surjection
    <3> QED
      BY <3>3, <3>4, FS_Surjection
  <2> QED
    BY <2>1, FS_Subset DEF FailedRun
<1>8. /\ Cardinality(FailedRun) \in Nat
      /\ Cardinality(FailedRun \cup {t}) = Cardinality(FailedRun) + 1
  BY <1>4, <1>7, FS_CardinalityType, FS_AddElement
<1>9. failedTests' = Cardinality(FailedRun')
  BY <1>1, <1>2, <1>6, <1>8 DEF VerdictInv, FailuresCounted
<1>10. FailFast \in Nat
  BY SchedulerAssumption DEF OptionAssumption
<1>11. stopping' <=> FailFast > 0 /\ failedTests' >= FailFast
  <2>1. CASE FailsRun(outcome, t \in Quarantined)
    <3>1. failedTests' = failedTests + 1
      BY <1>2, <2>1
    <3>2. failedTests >= FailFast => failedTests' >= FailFast
      BY <1>1, <1>10, <3>1
    <3> QED
      BY <1>2, <2>1, <3>2 DEF VerdictInv, FailuresCounted
  <2>2. CASE ~FailsRun(outcome, t \in Quarantined)
    <3>1. failedTests' = failedTests
      BY <1>1, <1>2, <2>2
    <3> QED
      BY <1>2, <2>2, <3>1 DEF VerdictInv, FailuresCounted
  <2> QED
    BY <2>1, <2>2
<1> QED
  BY <1>3, <1>9, <1>11 DEF FailuresCounted

\* The verdicts fit: the attempts of a test with a verdict do not change, nor
\* do the verdicts it depends on.
LEMMA NextVerdictFits ==
  ASSUME VerdictInv, AttemptsMade', TypeInv', [Next]_vars
  PROVE  VerdictFits'
<1>1. ASSUME NEW t \in Tests, Barred(t) PROVE Barred(t)'
  <2>1. Dependencies[t] \subseteq Tests
    BY SchedulerAssumption DEF PlanAssumption
  <2> QED
    BY <1>1, <2>1, VerdictsStay DEF VerdictInv, JobsInv, Barred
<1>2. ASSUME NEW t \in Tests, finished[t]
      PROVE  IF attempts'[t] = <<>> THEN verdict'[t] = "blocked" /\ Barred(t)'
             ELSE verdict'[t] \in Made
  BY <1>1, <1>2, NextFinal DEF VerdictInv, VerdictFits
<1>3. ASSUME NEW t \in Tests, ~finished[t], finished'[t]
      PROVE  IF attempts'[t] = <<>> THEN verdict'[t] = "blocked" /\ Barred(t)'
             ELSE verdict'[t] \in Made
  <2>1. PICK u \in Tests, outcome \in Outcome, isFlaky \in BOOLEAN :
          /\ Finish(u, outcome, isFlaky)
          /\ IF attempts'[u] = <<>> THEN outcome = "blocked" /\ Barred(u)
             ELSE outcome \in Made
    BY <1>3, VerdictGiven DEF Unresolved
  <2>2. /\ finished \in [Tests -> BOOLEAN] /\ verdict \in [Tests -> Outcome]
    BY DEF VerdictInv, JobsInv, TypeInv, TypeOK, VerdictTypeOK
  <2>3. t = u /\ verdict'[t] = outcome
    BY <1>3, <2>1, <2>2 DEF Finish
  <2> QED
    BY <1>1, <2>1, <2>3
<1> QED
  BY <1>2, <1>3 DEF VerdictFits

\* At first there are no verdicts and no failures.
LEMMA InitVerdictInv == Init => VerdictInv
<1> SUFFICES ASSUME Init PROVE VerdictInv
  OBVIOUS
<1>1. /\ \A t \in Tests : ~finished[t] /\ ~flaky[t] /\ verdict[t] = "not-run"
      /\ attempts = [t \in Tests |-> <<>>] /\ failedTests = 0 /\ stopping = FALSE
  BY DEF Init
<1>2. FailedRun = {}
  BY <1>1 DEF FailedRun, IsFailure
<1>3. Cardinality(FailedRun) = 0
  BY <1>2, FS_EmptySet
<1>4. FailFast \in Nat
  BY SchedulerAssumption DEF OptionAssumption
<1>5. FailuresCounted
  BY <1>1, <1>3, <1>4 DEF FailuresCounted
<1>6. AttemptsMade
  BY <1>1 DEF AttemptsMade
<1> QED
  BY <1>1, <1>5, <1>6, InitJobsInv DEF VerdictInv, NoVerdictYet, VerdictFits

\* Every step keeps verdicts and what is counted of them.
LEMMA NextVerdictInv == VerdictInv /\ [Next]_vars => VerdictInv'
<1> SUFFICES ASSUME VerdictInv, [Next]_vars PROVE VerdictInv'
  OBVIOUS
<1>1. JobsInv' /\ TypeInv'
  BY NextJobsInv DEF VerdictInv, JobsInv
<1>2. AttemptsMade'
  BY NextAttemptsMade
<1>3. VerdictFits'
  BY <1>1, <1>2, NextVerdictFits
<1>4. NoVerdictYet' /\ FailuresCounted'
  <2>1. CASE Unresolved
    BY <2>1 DEF Unresolved, VerdictInv, NoVerdictYet, FailuresCounted, FailedRun
  <2>2. ASSUME NEW t \in Tests, NEW outcome \in Outcome, NEW isFlaky \in BOOLEAN,
               Finish(t, outcome, isFlaky)
        PROVE  NoVerdictYet' /\ FailuresCounted'
    <3>1. VerdictTypeOK'
      BY <1>1 DEF TypeInv, TypeOK
    <3>2. CASE finished[t]
      <4>1. Unresolved
        BY <2>2, <3>2 DEF Finish, Unresolved
      <4> QED
        BY <2>1, <4>1
    <3> QED
      BY <2>2, <3>1, <3>2, FinishCounts
  <2> QED
    BY <1>2, <2>1, <2>2, VerdictGiven
<1> QED
  BY <1>1, <1>2, <1>3, <1>4 DEF VerdictInv

\* A test is tried only after all the tests it depends on passed, retries and
\* probes included, and it is blocked exactly when one of them did not.
THEOREM DependenciesComeFirst == Spec => []DependenciesRespected
<1>1. VerdictInv => DependenciesRespected
  <2> SUFFICES ASSUME VerdictInv, NEW t \in Tests
               PROVE  LET failed == {d \in Dependencies[t] : finished[d] /\ ~Satisfies(verdict[d])}
                          open == {d \in Dependencies[t] : ~finished[d]}
                      IN /\ attempts[t] # <<>> \/ Handed(t) # {} => failed = {} /\ open = {}
                         /\ verdict[t] = "blocked" => failed # {} /\ attempts[t] = <<>>
                         /\ failed # {} /\ finished[t] => verdict[t] = "blocked"
    BY DEF DependenciesRespected
  <2>1. attempts[t] # <<>> \/ Handed(t) # {} => Cleared(t)
    BY JobsOfTest DEF VerdictInv, JobsInv, TriedAfter
  <2>2. verdict[t] = "blocked" => Barred(t) /\ attempts[t] = <<>>
    BY DEF VerdictInv, VerdictFits, NoVerdictYet, Made, Reported
  <2>3. Barred(t) /\ finished[t] => verdict[t] = "blocked"
    BY <2>1 DEF VerdictInv, VerdictFits, Cleared, Barred
  <2> QED
    BY <2>1, <2>2, <2>3 DEF Cleared, Barred
<1> QED
  BY <1>1, InitVerdictInv, NextVerdictInv, PTL DEF Spec

\* The run stops exactly when as many tests failed it as --fail-fast says: a
\* test counts once, however often it failed, and not in quarantine.
THEOREM StopHasCause == Spec => []StopsForCause
<1>1. VerdictInv => StopsForCause
  BY DEF VerdictInv, FailuresCounted, FailedRun, StopsForCause
<1> QED
  BY <1>1, InitVerdictInv, NextVerdictInv, PTL DEF Spec
-----------------------------------------------------------------------------
(***************************************************************************)
(* The end of the run.                                                     *)
(***************************************************************************)

\* The loop starts with the whole plan enqueued; a run that stops has an empty
\* queue when it dispatches; the loop ends without workers, and with an empty
\* queue unless it gave up.
EnqueuedAll == pc # "enqueue" => enqueued = Len(PlanOrder)
StopDrains == pc \in {"dispatch", "start"} /\ stopping => queue = <<>>
NothingLeft == pc = "done" => workers = {} /\ (infrastructureFailed \/ queue = <<>>)

EndInv == EnqueuedAll /\ StopDrains /\ NothingLeft

\* At first everything is to be enqueued.
LEMMA InitEndInv == Init => EndInv
  BY DEF Init, EndInv, EnqueuedAll, StopDrains, NothingLeft

\* The phases follow each other.
LEMMA NextEndInv ==
  ASSUME TypeInv, EndInv, [Next]_vars
  PROVE  EndInv'
<1> USE DEF EndInv, EnqueuedAll, StopDrains, NothingLeft
<1>1. CASE EnqueuePlanned \/ StartLoop \/ SettleBlocked
  BY <1>1 DEF EnqueuePlanned, StartLoop, SettleBlocked
<1>2. CASE DrainQueue
  <2>1. stopping' = stopping /\ pc' = "dispatch" /\ pc = "settle" /\ enqueued' = enqueued
    BY <1>2 DEF DrainQueue, testVars
  <2>2. stopping => queue' = <<>>
    BY <1>2 DEF DrainQueue
  <2> QED
    BY <2>1, <2>2
<1>3. CASE HandsOut \/ PutsBack
  <2>1. ~stopping' /\ pc = "dispatch" /\ pc' \in {"dispatch", "start"} /\ enqueued' = enqueued
    BY <1>3 DEF HandsOut, PutsBack, testVars
  <2> QED
    BY <2>1
<1>4. CASE DispatchEnds \/ StartPending
  BY <1>4 DEF DispatchEnds, StartPending, testVars, queueVars
<1>5. CASE SendHome \/ TakeEvents \/ CheckDeadlines
  BY <1>5 DEF SendHome, TakeEvents, CheckDeadlines, testVars, queueVars, workerVars, startVars
<1>6. CASE EndTurn
  BY <1>6 DEF EndTurn, testVars, queueVars, workerVars, startVars
<1>7. ASSUME NEW w \in Slots, Handle(w) PROVE EndInv'
  <2>1. pc = "handle" /\ UNCHANGED <<pc, enqueued>>
    BY <1>7 DEF Handle, NextEvent, HandleHello, HandleFatal, IgnoreEnd, HandleStepEnd,
                HandleTargetEnd, HandleClosed
  <2> QED
    BY <2>1
<1>8. ASSUME NEW w \in Slots, WorkerEnded(w) PROVE EndInv'
  <2>1. pc = "reap" /\ UNCHANGED <<pc, enqueued>>
    BY <1>8 DEF WorkerEnded
  <2> QED
    BY <2>1
<1>9. ASSUME NEW w \in Slots, WorkerStep(w) \/ LimitPasses(w) PROVE EndInv'
  <2>1. UNCHANGED <<pc, enqueued, queue, stopping, workers, infrastructureFailed>>
    BY <1>9 DEF WorkerStep, LimitPasses, testVars, queueVars, workerVars, startVars
  <2> QED
    BY <2>1
<1>10. CASE UNCHANGED vars
  BY <1>10 DEF vars, testVars, queueVars, workerVars, startVars
<1>11. Assign \/ Spawn => HandsOut
  BY DispatchMoves
<1>12. MakeRoom \/ SpawnFails => PutsBack
  BY DispatchMoves
<1> QED
  BY <1>1, <1>2, <1>3, <1>4, <1>5, <1>6, <1>7, <1>8, <1>9, <1>10, <1>11, <1>12
     DEF Next, LoopStep, Terminated

\* When the run is over no process is left and no lock is held, whatever died or
\* hung on the way; unless the run gave up no job is left either, and unless it
\* stopped every test of the plan has its verdict.
THEOREM EndsClean == Spec => []CleanEnd
<1>1. LocksInv /\ JobsInv /\ EndInv => CleanEnd
  <2> SUFFICES ASSUME LocksInv, JobsInv, EndInv, pc = "done"
               PROVE  /\ workers = {} /\ \A w \in Slots : process[w] = "none"
                      /\ heldResources = {} /\ ~serialRunning
                      /\ infrastructureFailed
                           \/ (queue = <<>> /\ \A t \in Tests : pendingJobs[t] = 0)
                      /\ infrastructureFailed \/ stopping \/ \A t \in Tests : finished[t]
    BY DEF CleanEnd
  <2>1. workers = {} /\ Busy = {} /\ InHand = {}
    BY DEF EndInv, NothingLeft, Busy, InHand
  <2>2. \A w \in Slots : process[w] = "none"
    BY <2>1 DEF JobsInv, TypeInv, VacantSlots
  <2>3. heldResources = {} /\ ~serialRunning
    BY <2>1 DEF LocksInv, LocksMatchJobs
  <2>4. ASSUME ~infrastructureFailed
        PROVE  queue = <<>> /\ Undone = {}
    BY <2>1, <2>4 DEF EndInv, NothingLeft, Undone, TestsOf
  <2>5. ASSUME ~infrastructureFailed, NEW t \in Tests PROVE pendingJobs[t] = 0
    BY <2>4, <2>5 DEF JobsInv, JobsCounted
  <2>6. ASSUME ~infrastructureFailed, ~stopping, NEW t \in Tests PROVE finished[t]
    <3>1. PICK i \in DOMAIN PlanOrder : PlanOrder[i] = t
      BY SchedulerAssumption DEF PlanAssumption
    <3>2. i \in 1..enqueued
      BY SchedulerAssumption DEF PlanAssumption, EndInv, EnqueuedAll
    <3> QED
      BY <2>4, <2>6, <3>1, <3>2 DEF JobsInv, NotForgotten
  <2> QED
    BY <2>1, <2>2, <2>3, <2>4, <2>5, <2>6
<1>2. Init => LocksInv /\ JobsInv /\ EndInv
  BY InitLocksInv, InitJobsInv, InitEndInv
<1>3. LocksInv /\ JobsInv /\ EndInv /\ [Next]_vars => (LocksInv /\ JobsInv /\ EndInv)'
  BY NextLocksInv, NextJobsInv, NextEndInv DEF JobsInv
<1> QED
  BY <1>1, <1>2, <1>3, PTL DEF Spec
-----------------------------------------------------------------------------
(***************************************************************************)
(* Attempts.                                                               *)
(***************************************************************************)

\* A job that is taken out is the only one that goes.
LEMMA RemoveAtRange ==
  ASSUME NEW jobs \in Seq(Jobs), OnePerTest(jobs), NEW i \in DOMAIN jobs
  PROVE  Range(RemoveAt(jobs, i)) = Range(jobs) \ {jobs[i]}
<1> DEFINE r == RemoveAt(jobs, i)
           Old(k) == IF k < i THEN k ELSE k + 1
<1>1. i \in 1..Len(jobs) /\ Len(jobs) \in Nat /\ DOMAIN jobs = 1..Len(jobs)
  OBVIOUS
<1>2. /\ DOMAIN r = 1..(Len(jobs) - 1)
      /\ \A k \in 1..(Len(jobs) - 1) : r[k] = jobs[Old(k)]
  BY RemoveAtElements
<1>3. \A k \in DOMAIN r : Old(k) \in DOMAIN jobs \ {i}
  BY <1>1, <1>2
<1>4. \A m \in DOMAIN jobs \ {i} : \E k \in DOMAIN r : Old(k) = m
  <2>1. TAKE m \in DOMAIN jobs \ {i}
  <2>2. CASE m < i
    BY <1>1, <1>2, <2>2
  <2>3. CASE m > i
    <3>1. m - 1 \in DOMAIN r /\ Old(m - 1) = m
      BY <1>1, <1>2, <2>3
    <3> QED
      BY <3>1
  <2> QED
    BY <1>1, <2>2, <2>3
<1> HIDE DEF r, Old
<1>5. Range(r) = {jobs[m] : m \in DOMAIN jobs \ {i}}
  BY <1>2, <1>3, <1>4 DEF Range
<1>6. Range(r) = Range(jobs) \ {jobs[i]}
  BY <1>5 DEF Range, OnePerTest
<1> QED
  BY <1>6 DEF r

\* A job that comes is the only one.
LEMMA AddedRange ==
  ASSUME NEW jobs \in Seq(Jobs), NEW j \in Jobs, NEW more \in {<<j>> \o jobs, Append(jobs, j)}
  PROVE  Range(more) = Range(jobs) \cup {j}
<1>1. Len(jobs) \in Nat /\ DOMAIN jobs = 1..Len(jobs)
  OBVIOUS
<1>2. CASE more = <<j>> \o jobs
  <2>1. /\ DOMAIN more = 1..(Len(jobs) + 1) /\ more[1] = j
        /\ \A k \in DOMAIN jobs : more[k + 1] = jobs[k]
    BY <1>1, <1>2
  <2>2. \A k \in DOMAIN more : k = 1 \/ (k - 1 \in DOMAIN jobs /\ more[k] = jobs[k - 1])
    <3>1. TAKE k \in DOMAIN more
    <3>2. k # 1 => k - 1 \in DOMAIN jobs /\ (k - 1) + 1 = k
      BY <1>1, <2>1
    <3> QED
      BY <2>1, <3>2
  <2>3. 1 \in DOMAIN more /\ \A k \in DOMAIN jobs : k + 1 \in DOMAIN more
    BY <1>1, <2>1
  <2> HIDE <1>2
  <2>4. \A m \in DOMAIN more : more[m] \in Range(jobs) \cup {j}
    BY <2>1, <2>2 DEF Range
  <2>5. \A k \in DOMAIN jobs : jobs[k] = more[k + 1]
    BY <2>1
  <2>6. \A k \in DOMAIN jobs : jobs[k] \in Range(more)
    BY <2>3, <2>5 DEF Range
  <2>7. j \in Range(more)
    BY <2>1, <2>3 DEF Range
  <2> QED
    BY <2>4, <2>6, <2>7 DEF Range
<1>3. CASE more = Append(jobs, j)
  <2> DEFINE n == Len(jobs) + 1
  <2>1. /\ DOMAIN more = DOMAIN jobs \cup {n} /\ n \notin DOMAIN jobs
        /\ more[n] = j /\ \A k \in DOMAIN jobs : more[k] = jobs[k]
    BY <1>1, <1>3
  <2> HIDE <1>3 DEF n
  <2> QED
    BY <2>1 DEF Range
<1> QED
  BY <1>2, <1>3

\* The jobs there are, and the tests that are to be attempted.
TheJobs == Range(queue) \cup {job[w] : w \in Busy}
Trying == {j.test : j \in {j \in TheJobs : j.kind = "attempt"}}

Comes(j) == queue' \in {<<j>> \o queue, Append(queue, j)}

\* Jobs are for different tests.
LEMMA TheJobsApart ==
  ASSUME TypeInv, JobsApart
  PROVE  /\ \A j, k \in TheJobs : j.test = k.test => j = k
         /\ TheJobs \subseteq Jobs /\ Trying \subseteq Undone
         /\ \A j \in TheJobs : j.test \in Undone
<1>1. \A j, k \in TheJobs : j.test = k.test => j = k
  BY DEF JobsApart, OnePerTest, TheJobs, Range, TestsOf, InHand
<1>2. TheJobs \subseteq Jobs
  BY JobTypes DEF TheJobs, Range
<1>3. \A j \in TheJobs : j.test \in Undone
  BY DEF TheJobs, Range, Undone, TestsOf, InHand
<1> QED
  BY <1>1, <1>2, <1>3 DEF Trying

\* How the jobs change.
LEMMA JobsChange ==
  ASSUME TypeInv, TypeInv', JobsApart
  PROVE  /\ \A j \in Jobs : Comes(j) /\ job' = job => TheJobs' = TheJobs \cup {j}
         /\ HandsOut \/ PutsBack \/ JobsStay => TheJobs' = TheJobs
         /\ \A i \in DOMAIN queue : queue' = RemoveAt(queue, i) /\ job' = job
              => TheJobs' = TheJobs \ {queue[i]} /\ queue[i] \in TheJobs
         /\ queue' = <<>> /\ job' = job => TheJobs' \subseteq TheJobs
         /\ \A w \in Slots : job[w] \in Jobs /\ job' = [job EXCEPT ![w] = NoJob] =>
              /\ job[w] \in TheJobs
              /\ queue' = queue => TheJobs' = TheJobs \ {job[w]}
              /\ \A j \in Jobs : Comes(j) => TheJobs' = (TheJobs \ {job[w]}) \cup {j}
<1>1. /\ queue \in Seq(Jobs) /\ OnePerTest(queue) /\ job \in [Slots -> Jobs \cup {NoJob}]
      /\ Busy = {w \in Slots : job[w] # NoJob} /\ Busy' = {w \in Slots : job'[w] # NoJob}
      /\ NoJob \notin Jobs
  BY JobTypes, BusyIsHanded DEF JobsApart
<1>2. \A j \in Jobs : Comes(j) => Range(queue') = Range(queue) \cup {j}
  BY <1>1, AddedRange DEF Comes
<1>3. \A i \in DOMAIN queue : /\ Range(RemoveAt(queue, i)) = Range(queue) \ {queue[i]}
                              /\ RemoveAt(queue, i) \in Seq(Jobs) /\ queue[i] \in Jobs
                              /\ queue[i] \in Range(queue)
  <2>1. TAKE i \in DOMAIN queue
  <2>2. queue[i] \in Jobs /\ queue[i] \in Range(queue)
    BY <1>1 DEF Range
  <2> QED
    BY <1>1, <2>2, RemoveAtRange, RemoveAtTests
<1>4. job' = job => Busy' = Busy /\ {job'[w] : w \in Busy'} = {job[w] : w \in Busy}
  BY <1>1
<1>5. ASSUME NEW j \in Jobs, Comes(j), job' = job PROVE TheJobs' = TheJobs \cup {j}
  BY <1>2, <1>4, <1>5 DEF TheJobs
<1>6. ASSUME HandsOut PROVE TheJobs' = TheJobs
  <2>1. PICK i \in DOMAIN queue, w \in Slots :
          /\ job[w] = NoJob
          /\ job' = [job EXCEPT ![w] = queue[i]] /\ queue' = RemoveAt(queue, i)
    BY <1>6 DEF HandsOut
  <2>2. Range(queue') = Range(queue) \ {queue[i]} /\ queue[i] \in Range(queue)
    BY <1>3, <2>1
  <2>3. {job'[v] : v \in Busy'} = {job[v] : v \in Busy} \cup {queue[i]}
    <3>1. Busy' = Busy \cup {w} /\ w \notin Busy
      BY <1>1, <1>3, <2>1
    <3>2. job'[w] = queue[i] /\ \A v \in Busy : job'[v] = job[v]
      BY <1>1, <2>1
    <3> QED
      BY <3>1, <3>2
  <2> QED
    BY <2>2, <2>3 DEF TheJobs
<1>7. ASSUME PutsBack PROVE TheJobs' = TheJobs
  <2>1. PICK i \in DOMAIN queue : queue' = <<queue[i]>> \o RemoveAt(queue, i)
    BY <1>7 DEF PutsBack, PutBack
  <2>2. Range(queue') = Range(RemoveAt(queue, i)) \cup {queue[i]}
    BY <1>3, <2>1, AddedRange
  <2>3. Range(queue') = Range(queue)
    BY <1>3, <2>2
  <2> QED
    BY <1>4, <1>7, <2>3 DEF PutsBack, TheJobs
<1>8. ASSUME JobsStay PROVE TheJobs' = TheJobs
  BY <1>4, <1>8 DEF JobsStay, queueVars, TheJobs
<1>9. ASSUME NEW i \in DOMAIN queue, queue' = RemoveAt(queue, i), job' = job
      PROVE  TheJobs' = TheJobs \ {queue[i]} /\ queue[i] \in TheJobs
  <2>1. \A v \in Busy : job[v] # queue[i]
    BY DEF JobsApart, TestsOf, InHand
  <2> QED
    BY <1>3, <1>4, <1>9, <2>1 DEF TheJobs
<1>10. ASSUME queue' = <<>>, job' = job PROVE TheJobs' \subseteq TheJobs
  <2>1. Range(queue') = {}
    BY <1>10 DEF Range
  <2> QED
    BY <1>4, <1>10, <2>1 DEF TheJobs
<1>11. ASSUME NEW w \in Slots, job[w] \in Jobs, job' = [job EXCEPT ![w] = NoJob]
       PROVE  /\ job[w] \in TheJobs
              /\ queue' = queue => TheJobs' = TheJobs \ {job[w]}
              /\ \A j \in Jobs : Comes(j) => TheJobs' = (TheJobs \ {job[w]}) \cup {j}
  <2>1. w \in Busy /\ Busy' = Busy \ {w} /\ \A v \in Busy' : job'[v] = job[v]
    BY <1>1, <1>11
  <2>2. {job'[v] : v \in Busy'} = {job[v] : v \in Busy} \ {job[w]}
    BY <2>1 DEF JobsApart
  <2>3. job[w] \notin Range(queue)
    BY <2>1 DEF JobsApart, TestsOf, InHand, Range
  <2> QED
    BY <1>2, <2>1, <2>2, <2>3 DEF TheJobs
<1> QED
  BY <1>5, <1>6, <1>7, <1>8, <1>9, <1>10, <1>11

\* What an attempt and a probe lead to.
Counts == <<repeatsLeft, retriesUsed, retryBudget>>
Again(t) ==
  /\ repeatsLeft[t] > 0 /\ repeatsLeft' = [repeatsLeft EXCEPT ![t] = @ - 1]
  /\ UNCHANGED <<retriesUsed, retryBudget>> /\ Comes(Job("attempt", t, <<>>, FALSE))
Retried(t) ==
  /\ retriesUsed[t] < RetryLimit[t] /\ retryBudget > 0
  /\ retriesUsed' = [retriesUsed EXCEPT ![t] = @ + 1] /\ retryBudget' = retryBudget - 1
  /\ UNCHANGED repeatsLeft /\ Comes(Job("attempt", t, <<>>, TRUE))
Probed(t) == UNCHANGED Counts /\ \E j \in Jobs : j.test = t /\ j.kind = "probe" /\ Comes(j)
Closes == UNCHANGED Counts /\ queue' = queue

\* The job of worker w was tried, probed, starts over or is given up.
Tried(w) ==
  /\ job[w].kind = "attempt"
  /\ \E a \in Attempts : attempts' = [attempts EXCEPT ![job[w].test] = Append(@, a)]
  /\ \/ Again(job[w].test) \/ Retried(job[w].test) \/ Closes
     \/ BisectOrder /\ Probed(job[w].test)
ProbeOver(w) == job[w].kind = "probe" /\ attempts' = attempts /\ (Probed(job[w].test) \/ Closes)
StartsOver(w) == UNCHANGED <<attempts, Counts>> /\ Comes(job[w])
GivenUp == infrastructureFailed' /\ UNCHANGED <<attempts, Counts, queue>>

\* Decide orders a repeat, a retry, a probe, or nothing.
LEMMA DecideCounts ==
  ASSUME NEW t \in Tests, NEW tried \in Seq(Attempts), NEW pending, Decide(t, tried, pending)
  PROVE  Again(t) \/ Retried(t) \/ Closes \/ (BisectOrder /\ Probed(t))
<1>1. CASE Repeats(t)
  BY <1>1 DEF Decide, Repeats, Retries, Confirms, Enqueue, Again, Comes
<1>2. CASE Retries(t, tried)
  BY <1>2 DEF Decide, Retries, Confirms, Enqueue, Retried, Comes
<1>3. CASE Confirms(t, tried)
  <2>1. PICK sequence \in Seq(Catalog) :
          Enqueue(Job("probe", t, sequence, TRUE), attempts[t], pending) /\ UNCHANGED Counts
    BY <1>3, ProbeSequenceType DEF Decide, Confirms, StartProbe, Counts
  <2>2. Job("probe", t, sequence, TRUE) \in Jobs /\ Job("probe", t, sequence, TRUE).test = t
        /\ Job("probe", t, sequence, TRUE).kind = "probe"
    BY DEF Job, Jobs
  <2> QED
    BY <1>3, <2>1, <2>2 DEF Enqueue, Comes, Probed, Confirms
<1>4. CASE ~Repeats(t) /\ ~Retries(t, tried) /\ ~Confirms(t, tried)
  BY <1>4 DEF Decide, Closes, Counts
<1> QED
  BY <1>1, <1>2, <1>3, <1>4

\* A probe that ended is followed by another or by nothing, and spends nothing.
LEMMA ProbeCounts ==
  ASSUME TestTypeOK, NEW t \in Tests, NEW failed \in BOOLEAN, NEW pending,
         ProbeEnded(t, failed, pending), UNCHANGED Counts
  PROVE  Probed(t) \/ Closes
<1> DEFINE search == bisection[t]
           narrowed == Narrowed(search, failed)
           j == Job("probe", t, Half(narrowed.candidates), TRUE)
<1>1. search \in Searches /\ narrowed \in Searches
  BY NarrowedType DEF TestTypeOK
<1>2. Half(narrowed.candidates) \in Seq(Catalog)
  <2> HIDE DEF search, narrowed
  <2>1. narrowed.candidates \in Seq(Catalog)
    BY <1>1 DEF Searches
  <2> QED
    BY <2>1, HalfType
<1>3. j \in Jobs /\ j.test = t /\ j.kind = "probe"
  BY <1>2 DEF Job, Jobs
<1>4. queue' = queue \/ Comes(j)
  BY DEF ProbeEnded, StartProbe, Enqueue, Comes
<1> HIDE DEF j
<1> QED
  BY <1>3, <1>4 DEF Probed, Closes

\* What completes is an attempt, which is added and decided on, or a probe.
LEMMA CompleteCounts ==
  ASSUME TypeInv, NEW w \in Slots, job[w] \in Jobs, NEW outcome \in Made, Complete(w, outcome)
  PROVE  Tried(w) \/ ProbeOver(w)
<1> DEFINE t == job[w].test
           pending == [pendingJobs EXCEPT ![t] = @ - 1]
           new == [outcome |-> outcome, precededBy |-> history[w]]
           tried == Append(attempts[t], new)
<1>1. t \in Tests /\ job[w].kind \in {"attempt", "probe"}
  BY DEF Jobs
<1>2. TestTypeOK
  BY DEF TypeInv, TypeOK
<1>3. CASE job[w].kind = "probe"
  <2>1. ProbeEnded(t, IsFailure(outcome), pending) /\ attempts' = attempts /\ UNCHANGED Counts
    BY <1>3 DEF Complete, Counts
  <2>2. IsFailure(outcome) \in BOOLEAN
    BY DEF IsFailure
  <2> HIDE DEF pending
  <2>3. Probed(t) \/ Closes
    BY <1>1, <1>2, <2>1, <2>2, ProbeCounts
  <2> QED
    BY <1>3, <2>1, <2>3 DEF ProbeOver
<1>4. CASE job[w].kind # "probe"
  <2>1. attempts' = [attempts EXCEPT ![t] = Append(@, new)] /\ Decide(t, tried, pending)
    BY <1>4 DEF Complete
  <2>2. new \in Attempts
    BY DEF TypeInv, TypeOK, WorkerTypeOK, Attempts, Made, Reported, Outcome
  <2> HIDE DEF new, pending
  <2>3. tried \in Seq(Attempts)
    BY <1>1, <1>2, <2>2 DEF TestTypeOK
  <2> HIDE DEF tried
  <2>4. Again(t) \/ Retried(t) \/ Closes \/ (BisectOrder /\ Probed(t))
    BY <1>1, <2>1, <2>3, DecideCounts
  <2> QED
    BY <1>1, <1>4, <2>1, <2>2, <2>4 DEF Tried
<1> QED
  BY <1>3, <1>4

\* What the end of a job leads to.
LEMMA EndsCount ==
  ASSUME TypeInv, NEW w \in Slots, HandleTargetEnd(w) \/ WorkerEnded(w)
  PROVE  \/ /\ job[w] \in Jobs /\ job' = [job EXCEPT ![w] = NoJob] /\ UNCHANGED enqueued
            /\ Tried(w) \/ ProbeOver(w) \/ StartsOver(w) \/ GivenUp
         \/ JobsStay
<1>1. job' = [job EXCEPT ![w] = NoJob] /\ pc # "dispatch" /\ UNCHANGED <<pc, enqueued>>
  BY DEF HandleTargetEnd, WorkerEnded, Vacate, NextEvent
<1>2. job[w] \in Jobs \cup {NoJob} /\ NoJob \notin Jobs
  BY JobTypes
<1>3. CASE HandleTargetEnd(w)
  <2>1. job[w] \in Jobs
    BY <1>3 DEF TypeInv, JobsUnderWay, HandleTargetEnd
  <2>2. Head(batch[w]).is \in Made
    <3>1. batch[w] \in Seq(Messages) /\ batch[w] # <<>> /\ Head(batch[w]).kind = "end"
      BY <1>3 DEF TypeInv, TypeOK, LoopTypeOK, HandleTargetEnd, NextEvent
    <3>2. Head(batch[w]) \in Messages
      BY <3>1
    <3> QED
      BY <3>1, <3>2 DEF Messages, Made
  <2> QED
    BY <1>1, <1>3, <2>1, <2>2, CompleteCounts DEF HandleTargetEnd
<1>4. CASE /\ running[w].target
           /\ Complete(w, IF w \in killedForTimeout THEN "timed-out" ELSE "crashed")
  <2>1. job[w] \in Jobs
    BY <1>4 DEF TypeInv, JobsUnderWay, IsRunning, NotRunning, Running
  <2>2. (IF w \in killedForTimeout THEN "timed-out" ELSE "crashed") \in Made
    BY DEF Made
  <2> QED
    BY <1>1, <1>4, <2>1, <2>2, CompleteCounts
<1>5. CASE /\ IsRunning(w) /\ job[w].kind = "probe"
           /\ ProbeEnded(job[w].test, FALSE, [pendingJobs EXCEPT ![job[w].test] = @ - 1])
           /\ UNCHANGED <<attempts, repeatsLeft, retriesUsed, retryBudget>>
  <2>1. job[w] \in Jobs /\ job[w].test \in Tests /\ TestTypeOK
    BY <1>5 DEF TypeInv, TypeOK, JobsUnderWay, Jobs
  <2>2. Probed(job[w].test) \/ Closes
    BY <1>5, <2>1, ProbeCounts DEF Counts
  <2> QED
    BY <1>1, <1>5, <2>1, <2>2 DEF ProbeOver
<1>6. CASE /\ job[w] # NoJob
           /\ Enqueue(job[w], attempts[job[w].test], [pendingJobs EXCEPT ![job[w].test] = @ - 1])
           /\ UNCHANGED testVars
  <2>1. StartsOver(w)
    BY <1>6 DEF StartsOver, Counts, Comes, Enqueue, testVars
  <2> QED
    BY <1>1, <1>2, <1>6, <2>1
<1>7. CASE /\ ~IsRunning(w) /\ job[w] # NoJob
           /\ ~(IF IsRunning(w) THEN job[w].kind # "probe" ELSE ~infrastructureFailed')
           /\ UNCHANGED <<queue, testVars>>
  <2>1. GivenUp
    BY <1>7 DEF GivenUp, Counts, testVars
  <2> QED
    BY <1>1, <1>2, <1>7, <2>1
<1>8. CASE job[w] = NoJob /\ UNCHANGED <<queueVars, testVars>>
  <2>1. job' = job
    BY <1>1, <1>8 DEF TypeInv, TypeOK, WorkerTypeOK
  <2> QED
    BY <1>1, <1>8, <2>1 DEF JobsStay
<1> QED
  BY <1>3, <1>4, <1>5, <1>6, <1>7, <1>8 DEF WorkerEnded

\* All that can happen to the counts.
LEMMA CountMoves ==
  ASSUME TypeInv, [Next]_vars
  PROVE  \/ EnqueuePlanned \/ SettleBlocked \/ DrainQueue \/ HandsOut \/ PutsBack \/ JobsStay
         \/ \E w \in Slots :
              /\ job[w] \in Jobs /\ job' = [job EXCEPT ![w] = NoJob] /\ UNCHANGED enqueued
              /\ Tried(w) \/ ProbeOver(w) \/ StartsOver(w) \/ GivenUp
  BY OtherMoves, EndsCount

\* The tests that are to be attempted, when a job goes and another comes.
LEMMA TryingChanges ==
  ASSUME TypeInv, TypeInv', JobsApart
  PROVE  /\ \A j \in Jobs : Comes(j) /\ job' = job /\ j.kind = "attempt"
              => Trying' = Trying \cup {j.test}
         /\ HandsOut \/ PutsBack \/ JobsStay => Trying' = Trying
         /\ \A i \in DOMAIN queue : queue' = RemoveAt(queue, i) /\ job' = job
              => Trying' = Trying \ {queue[i].test}
         /\ queue' = <<>> /\ job' = job => Trying' \subseteq Trying
         /\ \A w \in Slots : job[w] \in Jobs /\ job' = [job EXCEPT ![w] = NoJob] =>
              /\ job[w].test \in Trying <=> job[w].kind = "attempt"
              /\ queue' = queue => Trying' = Trying \ {job[w].test}
              /\ \A j \in Jobs : Comes(j) /\ j.test = job[w].test =>
                   Trying' = (Trying \ {j.test}) \cup (IF j.kind = "attempt" THEN {j.test} ELSE {})
<1>1. \A j, k \in TheJobs : j.test = k.test => j = k
  BY TheJobsApart
<1>2. ASSUME NEW j \in Jobs, Comes(j), job' = job, j.kind = "attempt"
      PROVE  Trying' = Trying \cup {j.test}
  <2>1. TheJobs' = TheJobs \cup {j}
    BY <1>2, JobsChange
  <2> QED
    BY <1>2, <2>1 DEF Trying
<1>3. ASSUME HandsOut \/ PutsBack \/ JobsStay PROVE Trying' = Trying
  <2>1. TheJobs' = TheJobs
    BY <1>3, JobsChange
  <2> QED
    BY <2>1 DEF Trying
<1>4. ASSUME NEW i \in DOMAIN queue, queue' = RemoveAt(queue, i), job' = job
      PROVE  Trying' = Trying \ {queue[i].test}
  <2>1. TheJobs' = TheJobs \ {queue[i]} /\ queue[i] \in TheJobs
    BY <1>4, JobsChange
  <2> QED
    BY <1>1, <2>1 DEF Trying
<1>5. ASSUME queue' = <<>>, job' = job PROVE Trying' \subseteq Trying
  <2>1. TheJobs' \subseteq TheJobs
    BY <1>5, JobsChange
  <2> QED
    BY <2>1 DEF Trying
<1>6. ASSUME NEW w \in Slots, job[w] \in Jobs, job' = [job EXCEPT ![w] = NoJob]
      PROVE  /\ job[w].test \in Trying <=> job[w].kind = "attempt"
             /\ queue' = queue => Trying' = Trying \ {job[w].test}
             /\ \A j \in Jobs : Comes(j) /\ j.test = job[w].test =>
                  Trying' = (Trying \ {j.test}) \cup (IF j.kind = "attempt" THEN {j.test} ELSE {})
  <2>1. /\ job[w] \in TheJobs
        /\ queue' = queue => TheJobs' = TheJobs \ {job[w]}
        /\ \A j \in Jobs : Comes(j) => TheJobs' = (TheJobs \ {job[w]}) \cup {j}
    BY <1>6, JobsChange
  <2>2. job[w].test \in Trying <=> job[w].kind = "attempt"
    BY <1>1, <2>1 DEF Trying
  <2>3. queue' = queue => Trying' = Trying \ {job[w].test}
    BY <1>1, <2>1 DEF Trying
  <2>4. ASSUME NEW j \in Jobs, Comes(j), j.test = job[w].test
        PROVE  Trying' = (Trying \ {j.test}) \cup (IF j.kind = "attempt" THEN {j.test} ELSE {})
    <3>1. TheJobs' = (TheJobs \ {job[w]}) \cup {j}
      BY <2>1, <2>4
    <3>2. {k.test : k \in {k \in TheJobs \ {job[w]} : k.kind = "attempt"}} = Trying \ {j.test}
      BY <1>1, <2>1, <2>4 DEF Trying
    <3>3. Trying' = {k.test : k \in {k \in TheJobs \ {job[w]} : k.kind = "attempt"}}
                      \cup (IF j.kind = "attempt" THEN {j.test} ELSE {})
      BY <3>1 DEF Trying
    <3> QED
      BY <3>2, <3>3
  <2> QED
    BY <2>2, <2>3, <2>4
<1> QED
  BY <1>2, <1>3, <1>4, <1>5, <1>6

\* The attempts of a test that were made or are under way, and the repeats and
\* retries it has spent.
Tries(t) == Len(attempts[t]) + (IF t \in Trying THEN 1 ELSE 0)
Spent(t) == Repeat - repeatsLeft[t] + retriesUsed[t]
RetriesMade == UNION {{t} \X (1..retriesUsed[t]) : t \in Tests}
FirstBudget == IF Len(PlanOrder) \div 10 > RetryFloor THEN Len(PlanOrder) \div 10 ELSE RetryFloor

BudgetKept ==
  /\ \A t \in Tests : retriesUsed[t] <= RetryLimit[t]
  /\ IsFiniteSet(RetriesMade) /\ retryBudget + Cardinality(RetriesMade) = FirstBudget
NotYetTried ==
  \A i \in (enqueued + 1)..Len(PlanOrder) :
    Len(attempts[PlanOrder[i]]) = 0 /\ Spent(PlanOrder[i]) = 1
TriesPaid ==
  /\ \A t \in Tests : Tries(t) <= Spent(t)
  /\ \A i \in 1..enqueued :
       LET t == PlanOrder[i]
       IN Tries(t) = Spent(t) \/ verdict[t] = "blocked" \/ stopping \/ infrastructureFailed
AccountInv == VerdictInv /\ BudgetKept /\ NotYetTried /\ TriesPaid

\* One test uses up one more retry.
LEMMA OneMoreRetry ==
  ASSUME TestTypeOK, BudgetKept, NEW t \in Tests, Retried(t)
  PROVE  BudgetKept'
<1>1. retriesUsed \in [Tests -> Nat] /\ retriesUsed' = [retriesUsed EXCEPT ![t] = @ + 1]
  BY DEF TestTypeOK, Retried
<1> DEFINE n == retriesUsed[t] + 1
<1>2. retriesUsed'[t] = n /\ n \in Nat /\ \A u \in Tests \ {t} : retriesUsed'[u] = retriesUsed[u]
  BY <1>1
<1>3. 1..n = (1..retriesUsed[t]) \cup {n} /\ n \notin 1..retriesUsed[t]
  BY <1>1
<1>4. \A p : p \in RetriesMade <=> \E u \in Tests : p \in {u} \X (1..retriesUsed[u])
  BY DEF RetriesMade
<1>5. \A p : p \in RetriesMade' <=> \E u \in Tests : p \in {u} \X (1..retriesUsed'[u])
  BY DEF RetriesMade
<1> HIDE DEF n
<1>6. RetriesMade' = RetriesMade \cup {<<t, n>>}
  <2>1. ASSUME NEW p \in RetriesMade' PROVE p \in RetriesMade \cup {<<t, n>>}
    <3>1. PICK u \in Tests : p \in {u} \X (1..retriesUsed'[u])
      BY <1>5, <2>1
    <3>2. CASE u = t
      BY <1>2, <1>3, <1>4, <3>1, <3>2
    <3>3. CASE u # t
      BY <1>2, <1>4, <3>1, <3>3
    <3> QED
      BY <3>2, <3>3
  <2>2. ASSUME NEW p \in RetriesMade PROVE p \in RetriesMade'
    <3>1. PICK u \in Tests : p \in {u} \X (1..retriesUsed[u])
      BY <1>4, <2>2
    <3>2. 1..retriesUsed[u] \subseteq 1..retriesUsed'[u]
      BY <1>2, <1>3
    <3> QED
      BY <1>5, <3>1, <3>2
  <2>3. <<t, n>> \in RetriesMade'
    BY <1>2, <1>3, <1>5
  <2> QED
    BY <2>1, <2>2, <2>3
<1>7. <<t, n>> \notin RetriesMade
  BY <1>3, <1>4
<1>8. IsFiniteSet(RetriesMade') /\ Cardinality(RetriesMade \cup {<<t, n>>}) = Cardinality(RetriesMade) + 1
  BY <1>6, <1>7, FS_AddElement DEF BudgetKept
<1>9. Cardinality(RetriesMade)' = Cardinality(RetriesMade) + 1
  BY <1>6, <1>8
<1>10. Cardinality(RetriesMade) \in Nat /\ retryBudget \in Nat /\ retryBudget' = retryBudget - 1
  BY FS_CardinalityType DEF BudgetKept, TestTypeOK, Retried
<1>11. \A u \in Tests : retriesUsed'[u] <= RetryLimit[u]
  <2>1. n <= RetryLimit[t]
    <3>1. RetryLimit[t] \in Nat
      BY SchedulerAssumption DEF PlanAssumption
    <3>2. retriesUsed[t] \in Nat /\ retriesUsed[t] < RetryLimit[t]
      BY <1>1 DEF Retried
    <3> QED
      BY <3>1, <3>2 DEF n
  <2> QED
    BY <1>2, <2>1 DEF BudgetKept
<1> QED
  BY <1>8, <1>9, <1>10, <1>11 DEF BudgetKept

\* Retries come out of one budget.
LEMMA NextBudget ==
  ASSUME AccountInv, [Next]_vars
  PROVE  BudgetKept'
<1>1. TypeInv /\ TestTypeOK /\ BudgetKept
  BY DEF AccountInv, VerdictInv, JobsInv, TypeInv, TypeOK
<1>2. CASE UNCHANGED <<retriesUsed, retryBudget>>
  BY <1>1, <1>2 DEF BudgetKept, RetriesMade
<1>3. EnqueuePlanned \/ SettleBlocked \/ DrainQueue \/ HandsOut \/ PutsBack \/ JobsStay
        => UNCHANGED <<retriesUsed, retryBudget>>
  BY DEF EnqueuePlanned, SettleBlocked, DrainQueue, HandsOut, PutsBack, JobsStay, testVars
<1>4. ASSUME NEW w \in Slots, job[w] \in Jobs,
             Tried(w) \/ ProbeOver(w) \/ StartsOver(w) \/ GivenUp
      PROVE  BudgetKept'
  <2>1. job[w].test \in Tests
    BY <1>4, JobTypes, <1>1
  <2>2. Retried(job[w].test) \/ UNCHANGED <<retriesUsed, retryBudget>>
    BY <1>4 DEF Tried, ProbeOver, StartsOver, GivenUp, Again, Probed, Closes, Counts
  <2> QED
    BY <1>1, <1>2, <2>1, <2>2, OneMoreRetry
<1> QED
  BY <1>1, <1>2, <1>3, <1>4, CountMoves

\* What a step does to the account of a test: nothing, one more attempt that is
\* paid for, the first one, or one less in a run that does not need it.
TriesMove(t) ==
  \/ /\ Tries(t)' = Tries(t) /\ Spent(t)' = Spent(t)
     /\ enqueued' = enqueued \/ t # PlanOrder[enqueued + 1]
  \/ /\ t \in Undone /\ enqueued' = enqueued
     /\ Tries(t)' = Tries(t) + 1 /\ Spent(t)' = Spent(t) + 1
  \/ t = PlanOrder[enqueued + 1] /\ enqueued' = enqueued + 1 /\ Tries(t)' = 1 /\ Spent(t)' = 1
  \/ /\ Tries(t)' <= Tries(t) /\ Spent(t)' = Spent(t) /\ enqueued' = enqueued
     /\ verdict'[t] = "blocked" \/ stopping' \/ infrastructureFailed'

\* Tries and what is spent are numbers.
LEMMA TriesTypes ==
  TestTypeOK => \A t \in Tests : Tries(t) \in Nat /\ Spent(t) \in Int
<1> SUFFICES ASSUME TestTypeOK, NEW t \in Tests PROVE Tries(t) \in Nat /\ Spent(t) \in Int
  OBVIOUS
<1>1. Len(attempts[t]) \in Nat
  BY DEF TestTypeOK
<1>2. repeatsLeft[t] \in Nat /\ retriesUsed[t] \in Nat
  BY DEF TestTypeOK
<1>3. Repeat \in Nat
  BY SchedulerAssumption DEF OptionAssumption
<1>4. Tries(t) \in Nat
  <2> DEFINE n == Len(attempts[t])
  <2>1. n \in Nat /\ n + 1 \in Nat /\ n + 0 \in Nat
    BY <1>1
  <2>2. Tries(t) = n + (IF t \in Trying THEN 1 ELSE 0)
    BY DEF Tries
  <2> HIDE DEF n
  <2>3. CASE t \in Trying
    BY <2>1, <2>2, <2>3
  <2>4. CASE t \notin Trying
    BY <2>1, <2>2, <2>4
  <2> QED
    BY <2>3, <2>4
<1>5. Spent(t) \in Int
  BY <1>2, <1>3 DEF Spent
<1> QED
  BY <1>4, <1>5

\* A test whose attempts, counts and jobs are left alone.
LEMMA TriesStay ==
  ASSUME NEW t \in Tests, attempts'[t] = attempts[t], repeatsLeft'[t] = repeatsLeft[t],
         retriesUsed'[t] = retriesUsed[t], t \in Trying' <=> t \in Trying,
         enqueued' = enqueued \/ t # PlanOrder[enqueued + 1]
  PROVE  TriesMove(t)
  BY DEF TriesMove, Tries, Spent

\* When a job leaves its worker its test was tried, and pays if it goes on.
LEMMA EndedTries ==
  ASSUME TypeInv, TypeInv', JobsApart, NEW w \in Slots, job[w] \in Jobs,
         job' = [job EXCEPT ![w] = NoJob], UNCHANGED enqueued,
         Tried(w) \/ ProbeOver(w) \/ StartsOver(w) \/ GivenUp,
         NEW u \in Tests
  PROVE  TriesMove(u)
<1>1. PICK t \in Tests : t = job[w].test
  BY JobTypes DEF TypeInv, TypeOK
<1>0. TestTypeOK /\ t \in Undone
  BY <1>1, TheJobsApart, JobsChange DEF TypeInv, TypeOK
<1>2. /\ t \in Trying <=> job[w].kind = "attempt"
      /\ queue' = queue => Trying' = Trying \ {t}
      /\ \A j \in Jobs : Comes(j) /\ j.test = t =>
           Trying' = (Trying \ {t}) \cup (IF j.kind = "attempt" THEN {t} ELSE {})
  <2>1. /\ job[w].test \in Trying <=> job[w].kind = "attempt"
        /\ queue' = queue => Trying' = Trying \ {job[w].test}
        /\ \A j \in Jobs : Comes(j) /\ j.test = job[w].test =>
             Trying' = (Trying \ {j.test}) \cup (IF j.kind = "attempt" THEN {j.test} ELSE {})
    BY TryingChanges
  <2> QED
    BY <1>1, <2>1
<1>3. /\ attempts \in [Tests -> Seq(Attempts)] /\ retriesUsed \in [Tests -> Nat]
      /\ repeatsLeft \in [Tests -> Nat] /\ Repeat \in Nat /\ Len(attempts[t]) \in Nat
  BY <1>0, <1>1, SchedulerAssumption DEF TestTypeOK, OptionAssumption
<1>4. \A fresh \in BOOLEAN : LET j == Job("attempt", t, <<>>, fresh)
                             IN j \in Jobs /\ j.test = t /\ j.kind = "attempt"
  BY <1>1 DEF Job, Jobs
<1>5. CASE Tried(w)
  <2>1. PICK a \in Attempts : attempts' = [attempts EXCEPT ![t] = Append(@, a)]
    BY <1>1, <1>5 DEF Tried
  <2>2. job[w].kind = "attempt" /\ t \in Trying
    BY <1>1, <1>2, <1>5 DEF Tried
  <2>3. Len(attempts'[t]) = Len(attempts[t]) + 1 /\ \A v \in Tests \ {t} : attempts'[v] = attempts[v]
    BY <1>1, <1>3, <2>1
  <2>4. CASE Again(t) \/ Retried(t)
    <3>1. Trying' = (Trying \ {t}) \cup {t}
      BY <1>2, <1>4, <2>4 DEF Again, Retried
    <3>2. Spent(t)' = Spent(t) + 1
      <4>1. CASE Again(t)
        BY <1>1, <1>3, <4>1 DEF Again, Spent
      <4>2. CASE Retried(t)
        BY <1>1, <1>3, <4>2 DEF Retried, Spent
      <4> QED
        BY <2>4, <4>1, <4>2
    <3>3. \A v \in Tests \ {t} : repeatsLeft'[v] = repeatsLeft[v] /\ retriesUsed'[v] = retriesUsed[v]
      BY <1>3, <2>4 DEF Again, Retried
    <3>4. CASE u = t
      <4>1. Tries(t)' = Tries(t) + 1
        BY <1>3, <2>2, <2>3, <3>1 DEF Tries
      <4> QED
        BY <1>0, <3>2, <3>4, <4>1 DEF TriesMove
    <3>5. CASE u # t
      BY <2>3, <3>1, <3>3, <3>5, TriesStay
    <3> QED
      BY <3>4, <3>5
  <2>5. CASE Closes \/ Probed(t)
    <3>1. Trying' = Trying \ {t} /\ UNCHANGED Counts
      BY <1>2, <2>5 DEF Closes, Probed
    <3>2. CASE u = t
      <4>1. Tries(t)' = Tries(t)
        BY <1>3, <2>2, <2>3, <3>1 DEF Tries
      <4> QED
        BY <3>1, <3>2, <4>1 DEF TriesMove, Spent, Counts
    <3>3. CASE u # t
      BY <2>3, <3>1, <3>3, TriesStay DEF Counts
    <3> QED
      BY <3>2, <3>3
  <2> QED
    BY <1>1, <1>5, <2>4, <2>5 DEF Tried
<1>6. CASE ProbeOver(w)
  <2>1. job[w].kind = "probe" /\ UNCHANGED <<attempts, Counts>>
    BY <1>6 DEF ProbeOver, Closes, Probed
  <2>2. Trying' = Trying
    BY <1>1, <1>2, <1>6, <2>1 DEF ProbeOver, Closes, Probed
  <2> QED
    BY <2>1, <2>2, TriesStay DEF Counts
<1>7. CASE StartsOver(w)
  <2>1. Trying' = Trying
    BY <1>1, <1>2, <1>7 DEF StartsOver
  <2> QED
    BY <1>7, <2>1, TriesStay DEF StartsOver, Counts
<1>8. CASE GivenUp
  <2>1. Trying' = Trying \ {t} /\ UNCHANGED <<attempts, Counts>> /\ infrastructureFailed'
    BY <1>2, <1>8 DEF GivenUp
  <2>2. Tries(u)' <= Tries(u) /\ Spent(u)' = Spent(u)
    <3>1. Len(attempts[u]) \in Nat
      BY <1>3
    <3> QED
      BY <2>1, <3>1 DEF Tries, Spent, Counts
  <2> QED
    BY <2>1, <2>2 DEF TriesMove
<1> QED
  BY <1>5, <1>6, <1>7, <1>8

\* In every step a test pays for the attempts it makes.
LEMMA NextTries ==
  ASSUME AccountInv, VerdictInv', [Next]_vars, NEW u \in Tests
  PROVE  TriesMove(u)
<1>1. TypeInv /\ TypeInv' /\ JobsApart /\ JobsInv /\ TestTypeOK
  BY DEF AccountInv, VerdictInv, JobsInv, TypeInv, TypeOK
<1>2. CASE HandsOut \/ PutsBack \/ JobsStay
  <2>1. Trying' = Trying
    BY <1>1, <1>2, TryingChanges
  <2> QED
    BY <1>2, <2>1, TriesStay DEF HandsOut, PutsBack, JobsStay, testVars
<1>3. CASE EnqueuePlanned
  <2>0. enqueued < Len(PlanOrder)
    BY <1>3 DEF EnqueuePlanned
  <2>2. enqueued + 1 \in (enqueued + 1)..Len(PlanOrder) /\ enqueued + 1 \in DOMAIN PlanOrder
    BY <1>1, <2>0, SchedulerAssumption, SMTT(60) DEF PlanAssumption, TypeInv, TypeOK, LoopTypeOK
  <2>8. PICK t \in Tests : t = PlanOrder[enqueued + 1]
    BY <2>2, SchedulerAssumption DEF PlanAssumption
  <2>1. /\ Enqueue(PlannedJob(t), attempts[t], pendingJobs) /\ enqueued' = enqueued + 1
        /\ UNCHANGED <<job, testVars>>
    BY <1>3, <2>8 DEF EnqueuePlanned, workerVars
  <2>3. PlannedJob(t) \in Jobs /\ PlannedJob(t).test = t
        /\ PlannedJob(t).kind = "attempt"
    BY <2>2, SchedulerAssumption DEF PlanAssumption, PlannedJob, Job, Jobs
  <2>4. Len(attempts[t]) = 0 /\ Spent(t) = 1 /\ t \notin Trying
    BY <1>1, <2>2, <2>8, TheJobsApart DEF AccountInv, NotYetTried, JobsInv, NotYetPlanned
  <2>5. Trying' = Trying \cup {t}
    BY <1>1, <2>1, <2>3, TryingChanges DEF Enqueue, Comes
  <2>6. CASE u = t
    <3>1. Tries(t)' = 1 /\ Spent(t)' = 1
      BY <2>1, <2>4, <2>5 DEF Tries, Spent, testVars
    <3> QED
      BY <2>1, <2>8, <2>6, <3>1 DEF TriesMove
  <2>7. CASE u # t
    BY <2>1, <2>5, <2>7, <2>8, TriesStay DEF testVars
  <2> QED
    BY <2>6, <2>7
<1>4. CASE SettleBlocked
  <2>8. PICK i \in DOMAIN queue :
          LET t == queue[i].test
          IN /\ t \in Tests /\ t \in Undone /\ queue' = RemoveAt(queue, i)
             /\ Finish(t, "blocked", FALSE)
    BY <1>1, <1>4, BlockedFinishes
  <2>9. PICK t \in Tests : t = queue[i].test
    BY <2>8
  <2>1. t \in Undone /\ queue' = RemoveAt(queue, i) /\ Finish(t, "blocked", FALSE)
    BY <2>8, <2>9
  <2>2. UNCHANGED <<job, attempts, retriesUsed, repeatsLeft, enqueued>>
    BY <1>4 DEF SettleBlocked, workerVars
  <2>3. Trying' = Trying \ {t}
    BY <1>1, <2>1, <2>2, <2>9, TryingChanges
  <2>4. ~finished[t]
    BY <1>1, <2>1 DEF JobsInv, VerdictsEnd
  <2>5. verdict'[t] = "blocked"
    BY <1>1, <2>1, <2>4 DEF Finish, TypeInv, TypeOK, VerdictTypeOK
  <2>6. CASE u = t
    <3>1. Len(attempts[t]) \in Nat
      BY <1>1, <2>6 DEF TestTypeOK
    <3>2. Tries(t)' <= Tries(t) /\ Spent(t)' = Spent(t)
      BY <2>2, <2>3, <3>1 DEF Tries, Spent
    <3> QED
      BY <2>2, <2>5, <2>6, <3>2 DEF TriesMove
  <2>7. CASE u # t
    BY <2>2, <2>3, <2>7, TriesStay
  <2> QED
    BY <2>6, <2>7
<1>5. CASE DrainQueue
  <2>1. UNCHANGED <<job, testVars, infrastructureFailed, enqueued>>
    BY <1>5 DEF DrainQueue, startVars
  <2>2. CASE stopping \/ infrastructureFailed
    <3>1. Trying' \subseteq Trying
      BY <1>1, <1>5, <2>1, <2>2, TryingChanges DEF DrainQueue
    <3>2. Len(attempts[u]) \in Nat
      BY <1>1 DEF TestTypeOK
    <3>3. Tries(u)' <= Tries(u) /\ Spent(u)' = Spent(u)
      BY <2>1, <3>1, <3>2 DEF Tries, Spent, testVars
    <3> QED
      BY <2>1, <2>2, <3>3 DEF TriesMove, testVars
  <2>3. CASE ~(stopping \/ infrastructureFailed)
    <3>1. queue' = queue
      BY <1>5, <2>3 DEF DrainQueue, queueVars
    <3>2. Busy' = Busy
      BY <1>1, <2>1, BusyIsHanded
    <3>3. Trying' = Trying
      BY <2>1, <3>1, <3>2 DEF Trying, TheJobs
    <3> QED
      BY <2>1, <3>3, TriesStay DEF testVars
  <2> QED
    BY <2>2, <2>3
<1> QED
  BY <1>1, <1>2, <1>3, <1>4, <1>5, CountMoves, EndedTries

\* At first the whole budget is left, and every test has its first attempt paid.
LEMMA InitAccountInv == Init => AccountInv
<1> SUFFICES ASSUME Init PROVE AccountInv
  OBVIOUS
<1>1. VerdictInv
  BY InitVerdictInv
<1>2. /\ attempts = [t \in Tests |-> <<>>] /\ retriesUsed = [t \in Tests |-> 0]
      /\ repeatsLeft = [t \in Tests |-> Repeat - 1] /\ enqueued = 0
      /\ queue = <<>> /\ retryBudget = FirstBudget
  BY DEF Init, FirstBudget
<1>3. BudgetKept
  <2>1. RetriesMade = {}
    <3>1. \A t \in Tests : {t} \X (1..retriesUsed[t]) = {}
      BY <1>2
    <3> QED
      BY <3>1 DEF RetriesMade
  <2>2. FirstBudget \in Nat
    <3>1. retryBudget \in Nat
      BY <1>1 DEF VerdictInv, JobsInv, TypeInv, TypeOK, TestTypeOK
    <3> QED
      BY <1>2, <3>1
  <2> QED
    BY <1>2, <2>1, <2>2, FS_EmptySet, SchedulerAssumption DEF BudgetKept, PlanAssumption
<1>4. \A t \in Tests : Len(attempts[t]) = 0 /\ Spent(t) = 1
  BY <1>2, SchedulerAssumption DEF Spent, OptionAssumption
<1>5. NotYetTried
  <2>1. \A i \in 1..Len(PlanOrder) : PlanOrder[i] \in Tests
    BY SchedulerAssumption DEF PlanAssumption
  <2> QED
    BY <1>2, <1>4, <2>1 DEF NotYetTried
<1>6. TriesPaid
  BY <1>2, <1>4 DEF TriesPaid, Tries
<1> QED
  BY <1>1, <1>3, <1>5, <1>6 DEF AccountInv

\* How far the plan is enqueued.
LEMMA EnqueuedMoves ==
  ASSUME TypeInv, [Next]_vars
  PROVE  enqueued' = enqueued \/ (enqueued < Len(PlanOrder) /\ enqueued' = enqueued + 1)
<1>1. EnqueuePlanned => enqueued < Len(PlanOrder) /\ enqueued' = enqueued + 1
  BY DEF EnqueuePlanned
<1>2. SettleBlocked \/ DrainQueue \/ HandsOut \/ PutsBack \/ JobsStay => enqueued' = enqueued
  BY DEF SettleBlocked, DrainQueue, HandsOut, PutsBack, JobsStay
<1> QED
  BY <1>1, <1>2, CountMoves

\* The attempts stay paid for.
LEMMA NextAccountInv == AccountInv /\ [Next]_vars => AccountInv'
<1> SUFFICES ASSUME AccountInv, [Next]_vars PROVE AccountInv'
  OBVIOUS
<1>1. VerdictInv /\ VerdictInv' /\ JobsInv /\ TypeInv /\ TestTypeOK /\ TestTypeOK' /\ JobsApart
  BY NextVerdictInv DEF AccountInv, VerdictInv, JobsInv, TypeInv, TypeOK
<1>2. BudgetKept'
  BY NextBudget
<1>3. \A t \in Tests : TriesMove(t)
  BY <1>1, NextTries
<1>4. enqueued' = enqueued \/ (enqueued < Len(PlanOrder) /\ enqueued' = enqueued + 1)
  BY <1>1, EnqueuedMoves
<1>5. /\ Len(PlanOrder) \in Nat /\ enqueued \in 0..Len(PlanOrder)
      /\ \A i \in 1..Len(PlanOrder) : PlanOrder[i] \in Tests
      /\ \A i, k \in 1..Len(PlanOrder) : PlanOrder[i] = PlanOrder[k] => i = k
  BY <1>1, PlanTypes
<1>6. \A t \in Tests : /\ Tries(t) \in Nat /\ Spent(t) \in Int
                       /\ Tries(t)' \in Nat /\ Spent(t)' \in Int
                       /\ Len(attempts[t]) \in Nat /\ Len(attempts'[t]) \in Nat
  <2>1. \A t \in Tests : Tries(t) \in Nat /\ Spent(t) \in Int
    BY <1>1, TriesTypes
  <2>2. (\A t \in Tests : Tries(t) \in Nat /\ Spent(t) \in Int)'
    BY <1>1, TriesTypes, PTL
  <2>3. \A t \in Tests : Tries(t)' \in Nat /\ Spent(t)' \in Int
    BY <2>2
  <2>4. \A t \in Tests : Len(attempts[t]) \in Nat /\ Len(attempts'[t]) \in Nat
    BY <1>1 DEF TestTypeOK
  <2> QED
    BY <2>1, <2>3, <2>4
<1>7. NotYetTried'
  <2> SUFFICES ASSUME NEW i \in (enqueued' + 1)..Len(PlanOrder)
               PROVE  Len(attempts'[PlanOrder[i]]) = 0 /\ Spent(PlanOrder[i])' = 1
    BY DEF NotYetTried
  <2> DEFINE t == PlanOrder[i]
  <2>1. i \in (enqueued + 1)..Len(PlanOrder) /\ i \in 1..Len(PlanOrder) /\ t \in Tests
    BY <1>4, <1>5
  <2>2. enqueued' = enqueued \/ t # PlanOrder[enqueued + 1]
    BY <1>4, <1>5, <2>1
  <2>3. Len(attempts[t]) = 0 /\ Spent(t) = 1 /\ t \notin Undone
    BY <1>1, <2>1 DEF AccountInv, NotYetTried, JobsInv, NotYetPlanned
  <2>4. t \notin Trying
    BY <1>1, <2>3, TheJobsApart
  <2>5. Tries(t) = 0
    BY <2>3, <2>4 DEF Tries
  <2>6. TriesMove(t)
    BY <1>3, <2>1
  <2>7. Tries(t)' = 0 /\ Spent(t)' = 1
    BY <1>5, <1>6, <2>1, <2>2, <2>3, <2>5, <2>6 DEF TriesMove
  <2>8. Len(attempts'[t]) = 0
    <3>1. PICK u \in Tests : u = t
      BY <2>1
    <3>2. Tries(u)' = 0 /\ Len(attempts'[u]) \in Nat
      BY <1>6, <2>7, <3>1
    <3>3. Len(attempts'[u]) + (IF u \in Trying' THEN 1 ELSE 0) = 0
      BY <3>2 DEF Tries
    <3>4. CASE u \in Trying'
      BY <3>1, <3>2, <3>3, <3>4
    <3>5. CASE u \notin Trying'
      BY <3>1, <3>2, <3>3, <3>5
    <3> QED
      BY <3>1, <3>4, <3>5
  <2> QED
    BY <2>7, <2>8
<1>8. ASSUME NEW t \in Tests PROVE Tries(t)' <= Spent(t)'
  <2>1. Tries(t) <= Spent(t)
    BY DEF AccountInv, TriesPaid
  <2> QED
    BY <1>3, <1>6, <2>1 DEF TriesMove
<1>9. ASSUME NEW i \in 1..enqueued'
      PROVE  LET t == PlanOrder[i]
             IN Tries(t)' = Spent(t)' \/ verdict'[t] = "blocked" \/ stopping'
                  \/ infrastructureFailed'
  <2> DEFINE t == PlanOrder[i]
  <2>1. i \in 1..Len(PlanOrder) /\ t \in Tests
    BY <1>4, <1>5
  <2>2. TriesMove(t)
    BY <1>3, <2>1
  <2>3. verdict[t] = "blocked" => verdict'[t] = "blocked"
    BY <1>1, <2>1, VerdictsStay DEF VerdictInv, NoVerdictYet
  <2>4. (stopping => stopping') /\ (infrastructureFailed => infrastructureFailed')
    BY <1>1, VerdictsStay, FailureStays
  <2>5. CASE i \in 1..enqueued
    <3>1. Tries(t) = Spent(t) \/ verdict[t] = "blocked" \/ stopping \/ infrastructureFailed
      BY <2>5 DEF AccountInv, TriesPaid
    <3> QED
      BY <1>6, <2>1, <2>2, <2>3, <2>4, <3>1 DEF TriesMove
  <2>6. CASE i \notin 1..enqueued
    <3>1. i = enqueued + 1 /\ enqueued' # enqueued
      BY <1>4, <1>5, <2>6
    <3> QED
      BY <1>5, <2>2, <3>1 DEF TriesMove
  <2> QED
    BY <2>5, <2>6
<1>10. TriesPaid'
  BY <1>8, <1>9 DEF TriesPaid
<1> QED
  BY <1>1, <1>2, <1>7, <1>10 DEF AccountInv

\* Attempts are accounted for: those made and the one under way are the repeats
\* and retries spent, whatever died, hung or started over, and the retries of
\* all tests come out of one budget.
THEOREM AttemptsAreAccounted == Spec => []AttemptsAccounted
<1>1. AccountInv => AttemptsAccounted
  <2> SUFFICES ASSUME AccountInv PROVE AttemptsAccounted
    OBVIOUS
  <2>1. TypeInv /\ JobsApart /\ \A i \in 1..enqueued : PlanOrder[i] \in Tests
    BY SchedulerAssumption
       DEF AccountInv, VerdictInv, JobsInv, TypeInv, TypeOK, LoopTypeOK, PlanAssumption
  <2>2. \A t \in Tests :
          t \in Trying <=> \/ \E i \in Queued(t) : queue[i].kind = "attempt"
                           \/ \E w \in Handed(t) : job[w].kind = "attempt"
    <3>1. TAKE t \in Tests
    <3>2. Busy = {w \in Slots : job[w] # NoJob} /\ NoJob.kind # "attempt" /\ workers \subseteq Slots
      BY <2>1, JobTypes DEF NoJob, Job, TypeInv, TypeOK, WorkerTypeOK
    <3>3. Handed(t) \cap Busy = {w \in Busy : job[w].test = t}
      BY DEF Handed, Busy
    <3> QED
      BY <3>2, <3>3 DEF Trying, TheJobs, Range, Queued, Handed
  <2>3. ASSUME NEW t \in EnqueuedTests
        PROVE  /\ Tries(t) <= Spent(t) /\ retriesUsed[t] <= RetryLimit[t]
               /\ \/ Tries(t) = Spent(t)
                  \/ verdict[t] = "blocked" \/ stopping \/ infrastructureFailed
    <3>1. PICK i \in 1..enqueued : t = PlanOrder[i]
      BY DEF EnqueuedTests
    <3> QED
      BY <2>1, <3>1 DEF AccountInv, TriesPaid, BudgetKept
  <2>4. EnqueuedTests \subseteq Tests
    BY <2>1 DEF EnqueuedTests
  <2>5. retryBudget + SpentRetries
          = IF Len(PlanOrder) \div 10 > RetryFloor THEN Len(PlanOrder) \div 10 ELSE RetryFloor
    BY DEF AccountInv, BudgetKept, SpentRetries, RetriesMade, FirstBudget
  <2> QED
    BY <2>2, <2>3, <2>4, <2>5 DEF AttemptsAccounted, Tries, Spent
<1> QED
  BY <1>1, InitAccountInv, NextAccountInv, PTL DEF Spec
=============================================================================
