---------------------------- MODULE MocksProofs -----------------------------
(***************************************************************************)
(* Which expectation takes a call, and which failures a test gets, for any *)
(* expectations, sequences and threads.                                    *)
(***************************************************************************)
EXTENDS Mocks, FiniteSetTheorems, WellFoundedInduction, TLAPS

\* A set of naturals has a least element.
LEMMA LeastExists ==
  ASSUME NEW S \in SUBSET Nat, S # {}
  PROVE  \E i \in S : \A k \in S : i <= k
<1>1. PICK i \in S : \A k \in S : <<k, i>> \notin OpToRel(<, Nat)
  BY NatLessThanWellFounded, WFMin
<1>2. \A k \in S : ~(k < i)
  BY <1>1 DEF OpToRel
<1> QED
  BY <1>2

Entries == [call : Calls, taken : Nat, declared : Nat, gone : SUBSET Nat, held : SUBSET Nat]

\* What is remembered of a call.
Entry(call, e) ==
  [call |-> call, taken |-> e, declared |-> Len(expectations), gone |-> gone, held |-> Held]

\* The types, and that history knows no expectation that is not declared.
MocksTypeOK ==
  /\ expectations \in Seq(Declarations)
  /\ calls \in Seq(Nat) /\ Len(calls) = Len(expectations)
  /\ retired \subseteq DOMAIN expectations
  /\ gone \subseteq DOMAIN expectations /\ judged \subseteq DOMAIN expectations
  /\ checked \in [Threads -> SUBSET DOMAIN expectations]
  /\ current \in [SequenceNames -> Nat]
  /\ reporting \in SUBSET Threads /\ IsFiniteSet(reporting)
  /\ failures \in Nat
  /\ history \in Seq(Entries)
  /\ \A k \in DOMAIN history :
       /\ history[k].declared <= Len(expectations) /\ history[k].taken <= Len(expectations)
       /\ history[k].held \subseteq DOMAIN expectations

\* The next position of history.
Now == Len(history) + 1

\* calls counts the calls an expectation took.
CountsFit == \A e \in DOMAIN expectations : calls[e] = CountBefore(e, Now)

\* A sequence is at the last of its steps that took a call.
StepsFit ==
  \A s \in SequenceNames :
    /\ current[s] # 0 =>
         /\ current[s] \in DOMAIN expectations /\ s \in expectations[current[s]].sequences
         /\ \E k \in DOMAIN history : history[k].taken = current[s]
    /\ \A k \in DOMAIN history :
         history[k].taken # Refused /\ s \in expectations[history[k].taken].sequences =>
           history[k].taken <= current[s]

\* Of those that are not destroyed, exactly the steps behind a sequence's are
\* retired.
RetiredFit ==
  \A f \in Held : f \in retired <=> \E s \in expectations[f].sequences : f < current[s]

\* What is verified has left its mock, and is not forgotten before it is judged.
VerifiedFit ==
  /\ judged \subseteq gone /\ \A t \in Threads : checked[t] \subseteq gone
  /\ \A e \in gone \ judged : \E t \in Threads : e \in checked[t]

\* The calls that were refused, those that came early, and the expectations
\* that were judged without their calls.
RefusedCalls == {i \in DOMAIN history : history[i].taken = Refused}
ComesEarly(i) ==
  \E f \in history[i].held, s \in SequenceNames :
    /\ InOrder(f, history[i].taken, s) /\ ~PassedBefore(f, s, i)
    /\ CountBefore(f, i) < expectations[f].minimum
EarlyCalls == {i \in DOMAIN history \ RefusedCalls : ComesEarly(i)}
Unmet == {e \in judged : CountBefore(e, Now) < expectations[e].minimum}

\* Each is a failure, or is going to be one.
FailuresFit ==
  failures + Cardinality(reporting) =
    Cardinality(RefusedCalls) + Cardinality(EarlyCalls) + Cardinality(Unmet)

MocksInv == MocksTypeOK /\ CountsFit /\ StepsFit /\ RetiredFit /\ VerifiedFit

-----------------------------------------------------------------------------
(* What a longer history changes. *)

\* The calls before a position can be counted.
LEMMA CountType ==
  ASSUME NEW e, NEW i \in Nat \ {0}
  PROVE  /\ IsFiniteSet({k \in 1..(i - 1) : history[k].taken = e})
         /\ CountBefore(e, i) \in Nat
<1>1. IsFiniteSet(1..(i - 1))
  BY FS_Interval
<1>2. IsFiniteSet({k \in 1..(i - 1) : history[k].taken = e})
  BY <1>1, FS_Subset
<1> QED
  BY <1>2, FS_CardinalityType DEF CountBefore

\* One more call changes the count of who took it, and no count before.
LEMMA CountGrows ==
  ASSUME MocksTypeOK, NEW r \in Entries, history' = Append(history, r)
  PROVE  /\ \A e : \A i \in 1..Now : CountBefore(e, i)' = CountBefore(e, i)
         /\ \A e : CountBefore(e, Now)' =
                     IF e = r.taken THEN CountBefore(e, Now) + 1 ELSE CountBefore(e, Now)
<1>1. history \in Seq(Entries) /\ Len(history) \in Nat
  BY DEF MocksTypeOK
<1>2. /\ Len(history') = Len(history) + 1 /\ history'[Now] = r
      /\ \A k \in 1..Len(history) : history'[k] = history[k]
  BY <1>1 DEF Now
<1>3. ASSUME NEW e, NEW i \in 1..Now PROVE CountBefore(e, i)' = CountBefore(e, i)
  <2>1. \A k \in 1..(i - 1) : history'[k] = history[k]
    BY <1>1, <1>2 DEF Now
  <2> QED
    BY <2>1 DEF CountBefore
<1>4. ASSUME NEW e
      PROVE  CountBefore(e, Now)' =
               IF e = r.taken THEN CountBefore(e, Now) + 1 ELSE CountBefore(e, Now)
  <2> DEFINE Before == {k \in 1..(Now - 1) : history[k].taken = e}
             After == {k \in 1..Now : history'[k].taken = e}
  <2>1. CountBefore(e, Now) = Cardinality(Before) /\ CountBefore(e, Now)' = Cardinality(After)
    <3>1. Now' - 1 = Now
      BY <1>1, <1>2 DEF Now
    <3> QED
      BY <3>1 DEF CountBefore
  <2>2. After = IF e = r.taken THEN Before \cup {Now} ELSE Before
    <3>1. 1..Now = (1..(Now - 1)) \cup {Now} /\ Now - 1 = Len(history)
      BY <1>1 DEF Now
    <3>2. \A k \in 1..(Now - 1) : history'[k] = history[k]
      BY <1>2, <3>1
    <3> QED
      BY <1>2, <3>1, <3>2
  <2>3. IsFiniteSet(Before) /\ Now \notin Before
    <3>1. Now \in Nat \ {0} /\ Now \notin 1..(Now - 1)
      BY <1>1 DEF Now
    <3> QED
      BY <3>1, CountType
  <2> HIDE DEF Before, After
  <2> QED
    BY <2>1, <2>2, <2>3, FS_AddElement
<1> QED
  BY <1>3, <1>4

\* The expectations that were declared stay what they are.
LEMMA DeclaredStay ==
  ASSUME MocksTypeOK, NEW t \in Threads, Declare(t)
  PROVE  /\ Len(expectations') = Len(expectations) + 1
         /\ expectations' \in Seq(Declarations)
         /\ \A e \in 1..Len(expectations) : expectations'[e] = expectations[e]
  BY DEF MocksTypeOK, Declare

\* A step was passed exactly when its sequence is at a later one.
LEMMA PassedIsBehind ==
  ASSUME MocksTypeOK, StepsFit, NEW f \in DOMAIN expectations, NEW s \in SequenceNames
  PROVE  PassedBefore(f, s, Now) <=> s \in expectations[f].sequences /\ f < current[s]
<1>1. 1..(Now - 1) = DOMAIN history /\ f \in Nat \ {0}
  BY DEF MocksTypeOK, Now
<1>2. \A k \in DOMAIN history : history[k].taken \in Nat
  <2>1. \A k \in DOMAIN history : history[k] \in Entries
    BY DEF MocksTypeOK
  <2> QED
    BY <2>1 DEF Entries
<1>3. current[s] \in Nat
  BY DEF MocksTypeOK
<1>4. ASSUME PassedBefore(f, s, Now)
      PROVE  s \in expectations[f].sequences /\ f < current[s]
  <2>1. PICK k \in DOMAIN history : history[k].taken # Refused /\ InOrder(f, history[k].taken, s)
    BY <1>1, <1>4 DEF PassedBefore
  <2>2. history[k].taken <= current[s]
    BY <2>1 DEF StepsFit, InOrder
  <2> QED
    BY <1>1, <1>2, <1>3, <2>1, <2>2 DEF InOrder
<1>5. ASSUME s \in expectations[f].sequences, f < current[s]
      PROVE  PassedBefore(f, s, Now)
  <2>1. current[s] # 0
    BY <1>1, <1>3, <1>5
  <2>2. PICK k \in DOMAIN history : history[k].taken = current[s]
    BY <2>1 DEF StepsFit
  <2>3. history[k].taken # Refused /\ InOrder(f, history[k].taken, s)
    BY <1>5, <2>1, <2>2 DEF StepsFit, InOrder, Refused
  <2> QED
    BY <1>1, <2>3 DEF PassedBefore
<1> QED
  BY <1>4, <1>5

\* What a sequence still finds was declared.
LEMMA HeldType ==
  ASSUME MocksTypeOK
  PROVE  Live \subseteq Held /\ Held \subseteq DOMAIN expectations
<1>1. \A t \in Threads : checked[t] \subseteq DOMAIN expectations
  BY DEF MocksTypeOK
<1> QED
  BY <1>1 DEF Held, Live

\* The names in use are those of expectations.
LEMMA SequenceIsNamed ==
  ASSUME MocksTypeOK, NEW e \in DOMAIN expectations
  PROVE  expectations[e] \in Declarations /\ expectations[e].sequences \subseteq SequenceNames
  BY DEF MocksTypeOK, SequenceNames

-----------------------------------------------------------------------------
(* What the steps keep. *)

\* Who can take a call, and the one that does.
Takers(call) == {e \in Live : Accepts(e, call) /\ Available(e)}

\* The first of those that can take a call is one of them.
LEMMA FirstTakes ==
  ASSUME MocksTypeOK, NEW call, Takers(call) # {}
  PROVE  /\ Min(Takers(call)) \in Live /\ Min(Takers(call)) \in Nat \ {0}
         /\ Min(Takers(call)) \notin retired
<1>1. Takers(call) \in SUBSET Nat /\ Takers(call) \subseteq Live
      /\ Live \subseteq 1..Len(expectations)
  BY DEF MocksTypeOK, Takers, Live
<1>2. \E e \in Takers(call) : \A f \in Takers(call) : e <= f
  BY <1>1, LeastExists
<1>3. Min(Takers(call)) \in Takers(call)
  BY <1>2 DEF Min
<1> QED
  BY <1>1, <1>3 DEF Takers, Available

\* What a call is remembered as.
LEMMA EntryType ==
  ASSUME MocksTypeOK, NEW call \in Calls, NEW e \in {Refused} \cup DOMAIN expectations
  PROVE  Entry(call, e) \in Entries
<1>1. /\ DOMAIN expectations \subseteq Nat /\ Len(expectations) \in Nat
      /\ gone \subseteq DOMAIN expectations /\ e \in Nat
  BY DEF MocksTypeOK, Refused
<1>2. gone \in SUBSET Nat /\ Held \in SUBSET Nat
  BY <1>1, HeldType
<1> QED
  BY <1>1, <1>2 DEF Entries, Entry

\* A call, as the proofs below need it: who takes it, and what is remembered.
Remembered(call, e) ==
  /\ e \in {Refused} \cup Live
  /\ e = IF Takers(call) = {} THEN Refused ELSE Min(Takers(call))
  /\ Remembers(call, e)

LEMMA DecideCases ==
  ASSUME MocksTypeOK, NEW t \in Threads, NEW call \in Calls, Decide(t, call)
  PROVE  /\ UNCHANGED <<expectations, gone, checked, judged, failures>> /\ t \notin reporting
         /\ \/ Takers(call) = {} /\ Refuse(t, call) /\ Remembered(call, Refused)
            \/ \E e \in Live \ retired :
                 e \in Nat \ {0} /\ Take(t, call, e) /\ Remembered(call, e)
<1>1. CASE Takers(call) = {}
  BY <1>1 DEF Decide, Free, verifyVars, Takers, Remembered, Refuse
<1>2. CASE Takers(call) # {}
  <2>1. Take(t, call, Min(Takers(call))) /\ Remembers(call, Min(Takers(call)))
    BY <1>2 DEF Decide, Takers, Take
  <2> QED
    BY <1>2, <2>1, FirstTakes DEF Decide, Free, verifyVars, Remembered
<1> QED
  BY <1>1, <1>2

\* The last call of the longer history, and those before it.
GrowsBy(r, call, e) ==
  /\ r.call = call /\ r.taken = e /\ r.declared = Len(expectations)
  /\ r.gone = gone /\ r.held = Held
  /\ history' = Append(history, r) /\ history' \in Seq(Entries)
  /\ DOMAIN history' = DOMAIN history \cup {Now} /\ Now \notin DOMAIN history
  /\ history'[Now] = r
  /\ \A k \in DOMAIN history : history'[k] = history[k]
  /\ e <= Len(expectations) /\ e \in Nat

LEMMA HistoryGrows ==
  ASSUME MocksTypeOK, UNCHANGED <<expectations, gone, checked, judged>>,
         NEW call \in Calls, NEW e, Remembered(call, e)
  PROVE  \E r \in Entries : GrowsBy(r, call, e)
<1> DEFINE r == Entry(call, e)
<1>1. e \in {Refused} \cup DOMAIN expectations
  BY DEF Remembered, Live
<1>2. r \in Entries /\ history' = Append(history, r)
  BY <1>1, EntryType DEF Remembered, Remembers, Entry
<1>3. history \in Seq(Entries)
  BY DEF MocksTypeOK
<1>4. e <= Len(expectations) /\ e \in Nat
  BY <1>1 DEF MocksTypeOK, Refused
<1>5. /\ r.call = call /\ r.taken = e /\ r.declared = Len(expectations)
      /\ r.gone = gone /\ r.held = Held
  BY DEF Entry
<1> HIDE DEF r
<1>6. /\ DOMAIN history' = DOMAIN history \cup {Now} /\ Now \notin DOMAIN history
      /\ history'[Now] = r /\ history' \in Seq(Entries)
      /\ \A k \in DOMAIN history : history'[k] = history[k]
  BY <1>2, <1>3 DEF Now
<1> QED
  BY <1>2, <1>4, <1>5, <1>6 DEF GrowsBy

\* What is said of a call does not change when others come after it ...
LEMMA PassedStays ==
  ASSUME MocksTypeOK, UNCHANGED <<expectations, gone, checked, judged>>,
         NEW call \in Calls, NEW e, Remembered(call, e)
  PROVE  \A f, s : \A i \in 1..Now : PassedBefore(f, s, i)' = PassedBefore(f, s, i)
<1>1. \A k \in DOMAIN history : history'[k] = history[k]
  BY HistoryGrows DEF GrowsBy
<1>2. \A i \in 1..Now : 1..(i - 1) \subseteq DOMAIN history
  BY DEF MocksTypeOK, Now
<1>3. expectations' = expectations
  OBVIOUS
<1> QED
  BY <1>1, <1>2, <1>3 DEF PassedBefore, InOrder

\* ... nor when more is expected.
LEMMA DeclareStays ==
  ASSUME MocksTypeOK, NEW t \in Threads, Declare(t)
  PROVE  /\ \A e, i : CountBefore(e, i)' = CountBefore(e, i)
         /\ \A f \in DOMAIN expectations : \A s : \A i \in 1..Now :
              PassedBefore(f, s, i)' = PassedBefore(f, s, i)
<1>1. UNCHANGED history
  BY DEF Declare
<1>2. \A i \in 1..Now : 1..(i - 1) \subseteq DOMAIN history
  BY DEF MocksTypeOK, Now
<1>3. \A k \in DOMAIN history : history[k].taken # Refused => history[k].taken \in DOMAIN expectations
  <2>1. \A k \in DOMAIN history : history[k] \in Entries
    BY DEF MocksTypeOK
  <2>2. \A k \in DOMAIN history : history[k].taken \in Nat
    BY <2>1 DEF Entries
  <2>3. Len(expectations) \in Nat /\ DOMAIN expectations = 1..Len(expectations)
    BY DEF MocksTypeOK
  <2> QED
    BY <2>2, <2>3 DEF MocksTypeOK, Refused
<1>4. \A e \in DOMAIN expectations : expectations'[e] = expectations[e]
  <2>1. DOMAIN expectations = 1..Len(expectations)
    BY DEF MocksTypeOK
  <2> QED
    BY <2>1, DeclaredStay
<1>5. ASSUME NEW f \in DOMAIN expectations, NEW s, NEW i \in 1..Now
      PROVE  PassedBefore(f, s, i)' = PassedBefore(f, s, i)
  <2>1. \A k \in 1..(i - 1) : history[k].taken # Refused =>
          InOrder(f, history[k].taken, s)' = InOrder(f, history[k].taken, s)
    BY <1>1, <1>2, <1>3, <1>4 DEF InOrder
  <2> QED
    BY <1>1, <2>1 DEF PassedBefore
<1> QED
  BY <1>1, <1>5 DEF CountBefore

-----------------------------------------------------------------------------
LEMMA InitMocks == Init => MocksInv /\ CallsGoToFirst /\ FailuresFit
<1> SUFFICES ASSUME Init PROVE MocksInv /\ CallsGoToFirst /\ FailuresFit
  OBVIOUS
<1>1. /\ expectations = <<>> /\ calls = <<>> /\ history = <<>>
      /\ retired = {} /\ gone = {} /\ judged = {} /\ reporting = {} /\ failures = 0
      /\ checked = [t \in Threads |-> {}]
      /\ current = [s \in SequenceNames |-> 0]
  BY DEF Init
<1>2. MocksTypeOK
  BY <1>1, FS_EmptySet DEF MocksTypeOK
<1>3. CountsFit /\ StepsFit /\ CallsGoToFirst
  BY <1>1 DEF CountsFit, StepsFit, CallsGoToFirst
<1>4. RetiredFit /\ VerifiedFit
  <2>1. Held = {}
    BY <1>1, <1>2, HeldType
  <2> QED
    BY <1>1, <2>1 DEF RetiredFit, VerifiedFit
<1>5. FailuresFit
  <2>1. RefusedCalls = {} /\ EarlyCalls = {} /\ Unmet = {}
    BY <1>1 DEF RefusedCalls, EarlyCalls, Unmet
  <2> QED
    BY <1>1, <2>1, FS_EmptySet DEF FailuresFit
<1> QED
  BY <1>2, <1>3, <1>4, <1>5 DEF MocksInv

LEMMA DeclareMocks ==
  ASSUME MocksInv, NEW t \in Threads, Declare(t)
  PROVE  MocksInv'
<1> USE DEF MocksInv
<1>1. /\ UNCHANGED <<retired, gone, checked, judged, current, reporting, failures, history>>
      /\ calls' = Append(calls, 0)
  BY DEF Declare, verifyVars
<1>2. /\ Len(expectations) \in Nat /\ DOMAIN expectations = 1..Len(expectations)
      /\ DOMAIN expectations' = 1..(Len(expectations) + 1)
      /\ DOMAIN expectations \subseteq DOMAIN expectations'
      /\ \A e \in DOMAIN expectations : expectations'[e] = expectations[e]
  BY DeclaredStay DEF MocksTypeOK
<1>3. /\ calls' \in Seq(Nat) /\ Len(calls') = Len(expectations')
      /\ \A e \in DOMAIN expectations : calls'[e] = calls[e]
      /\ calls'[Len(expectations) + 1] = 0
  BY <1>1, <1>2, DeclaredStay DEF MocksTypeOK
<1>4. \A k \in DOMAIN history : history[k] \in Entries /\ history[k].taken \in Nat
  <2>1. \A k \in DOMAIN history : history[k] \in Entries
    BY DEF MocksTypeOK
  <2> QED
    BY <2>1 DEF Entries
<1>5. \A k \in DOMAIN history :
        /\ history[k].declared <= Len(expectations)
        /\ history[k].taken <= Len(expectations)
        /\ history[k].declared \in Nat
  BY <1>4 DEF MocksTypeOK, Entries
<1>6. MocksTypeOK'
  <2>1. \A k \in DOMAIN history' :
          history'[k].declared <= Len(expectations') /\ history'[k].taken <= Len(expectations')
    BY <1>1, <1>2, <1>4, <1>5, DeclaredStay
  <2>2. /\ retired \subseteq DOMAIN expectations' /\ gone \subseteq DOMAIN expectations'
        /\ judged \subseteq DOMAIN expectations'
        /\ checked \in [Threads -> SUBSET DOMAIN expectations']
        /\ \A k \in DOMAIN history : history[k].held \subseteq DOMAIN expectations'
    BY <1>2 DEF MocksTypeOK
  <2> QED
    BY <1>1, <1>2, <1>3, <2>1, <2>2, DeclaredStay DEF MocksTypeOK
<1>7. CountsFit'
  <2>1. ASSUME NEW e \in DOMAIN expectations' PROVE calls'[e] = CountBefore(e, Now)
    <3>1. CASE e \in DOMAIN expectations
      BY <1>3, <3>1 DEF CountsFit
    <3>2. CASE e = Len(expectations) + 1
      <4>1. \A k \in DOMAIN history : history[k].taken # e
        BY <1>2, <1>4, <1>5, <3>2
      <4>2. 1..(Now - 1) = DOMAIN history
        BY DEF Now, MocksTypeOK
      <4>3. {k \in 1..(Now - 1) : history[k].taken = e} = {}
        BY <4>1, <4>2
      <4> QED
        BY <1>3, <3>2, <4>3, FS_EmptySet DEF CountBefore
    <3> QED
      BY <1>2, <3>1, <3>2
  <2>2. \A e : CountBefore(e, Now)' = CountBefore(e, Now)
    BY <1>1 DEF CountBefore, Now
  <2> QED
    BY <2>1, <2>2 DEF CountsFit
<1>8. StepsFit'
  <2>1. \A k \in DOMAIN history : history[k].taken # Refused =>
          history[k].taken \in DOMAIN expectations
    BY <1>2, <1>4, <1>5 DEF Refused
  <2> QED
    BY <1>1, <1>2, <2>1 DEF StepsFit
<1>9. RetiredFit'
  <2>1. SUFFICES ASSUME NEW f \in Held'
        PROVE  f \in retired <=> \E s \in expectations'[f].sequences : f < current[s]
    BY <1>1 DEF RetiredFit
  <2>2. Held' \subseteq Held \cup {Len(expectations) + 1}
    BY <1>1, <1>2 DEF Held, Live
  <2>3. CASE f \in Held
    BY <1>1, <1>2, <2>3, HeldType DEF RetiredFit
  <2>4. CASE f = Len(expectations) + 1
    <3>1. f \notin retired
      BY <1>2, <2>4 DEF MocksTypeOK
    <3>2. expectations'[f].sequences \subseteq SequenceNames
      BY <1>2, <1>6, <2>4 DEF MocksTypeOK, SequenceNames
    <3>3. \A s \in SequenceNames : ~(f < current[s])
      <4>1. \A s \in SequenceNames : current[s] \in Nat /\ (current[s] # 0 => current[s] \in 1..Len(expectations))
        BY <1>2 DEF StepsFit, MocksTypeOK
      <4> QED
        BY <1>2, <2>4, <4>1
    <3> QED
      BY <3>1, <3>2, <3>3
  <2> QED
    BY <2>1, <2>2, <2>3, <2>4
<1>10. VerifiedFit'
  BY <1>1 DEF VerifiedFit
<1> QED
  BY <1>6, <1>7, <1>8, <1>9, <1>10

\* A call that nobody takes changes no expectation.
LEMMA RefuseMocks ==
  ASSUME MocksInv, NEW t \in Threads, NEW call \in Calls,
         UNCHANGED <<expectations, gone, checked, judged, failures>>,
         Refuse(t, call), Remembered(call, Refused)
  PROVE  MocksInv'
<1> USE DEF MocksInv
<1>1. /\ UNCHANGED <<calls, current, retired>> /\ reporting' = reporting \cup {t}
  BY DEF Refuse, Reports
<1> PICK r \in Entries : GrowsBy(r, call, Refused)
  BY HistoryGrows
<1>2. /\ history' = Append(history, r) /\ history' \in Seq(Entries)
      /\ DOMAIN history' = DOMAIN history \cup {Now}
      /\ history'[Now] = r /\ \A k \in DOMAIN history : history'[k] = history[k]
      /\ r.taken = Refused /\ r.declared = Len(expectations) /\ r.held = Held
  BY DEF GrowsBy
<1>3. Len(expectations) \in Nat /\ Held \subseteq DOMAIN expectations
  BY HeldType DEF MocksTypeOK
<1>4. MocksTypeOK'
  <2>1. reporting' \in SUBSET Threads /\ IsFiniteSet(reporting')
    BY <1>1, FS_AddElement DEF MocksTypeOK
  <2>2. \A k \in DOMAIN history' :
          /\ history'[k].declared <= Len(expectations) /\ history'[k].taken <= Len(expectations)
          /\ history'[k].held \subseteq DOMAIN expectations
    BY <1>2, <1>3 DEF MocksTypeOK, Refused
  <2> QED
    BY <1>1, <1>2, <2>1, <2>2 DEF MocksTypeOK
<1>5. CountsFit'
  <2>1. \A e \in DOMAIN expectations : e # Refused
    BY DEF MocksTypeOK, Refused
  <2>2. \A e \in DOMAIN expectations : CountBefore(e, Now)' = CountBefore(e, Now)
    BY <1>2, <1>3, <2>1, CountGrows
  <2> QED
    BY <1>1, <2>2 DEF CountsFit
<1>6. StepsFit'
  BY <1>1, <1>2, <1>3 DEF StepsFit
<1>7. RetiredFit' /\ VerifiedFit'
  BY <1>1 DEF RetiredFit, VerifiedFit, Held, Live
<1> QED
  BY <1>4, <1>5, <1>6, <1>7

\* The expectation that takes a call is at the end of its sequences or ahead.
LEMMA TakerIsAhead ==
  ASSUME MocksInv, NEW e \in Live \ retired
  PROVE  /\ e \in Nat \ {0} /\ e \in DOMAIN expectations
         /\ Entered(e) = expectations[e].sequences
         /\ \A s \in expectations[e].sequences : s \in SequenceNames /\ current[s] <= e
<1>1. e \in DOMAIN expectations /\ e \in Nat \ {0} /\ e \in Held
  BY HeldType DEF Live, MocksInv, MocksTypeOK
<1>2. \A s \in expectations[e].sequences : s \in SequenceNames /\ current[s] \in Nat
  BY <1>1, SequenceIsNamed DEF MocksInv, MocksTypeOK
<1>3. \A s \in expectations[e].sequences : current[s] <= e
  BY <1>1, <1>2 DEF RetiredFit, MocksInv
<1> QED
  BY <1>1, <1>2, <1>3 DEF Entered

LEMMA TakeMocks ==
  ASSUME MocksInv, NEW t \in Threads, NEW call \in Calls, NEW e \in Live \ retired,
         UNCHANGED <<expectations, gone, checked, judged, failures>>,
         Take(t, call, e), Remembered(call, e)
  PROVE  MocksInv'
<1> USE DEF MocksInv
<1>1. /\ calls' = [calls EXCEPT ![e] = @ + 1]
      /\ current' = [s \in SequenceNames |-> IF s \in Entered(e) THEN e ELSE current[s]]
      /\ retired' = retired \cup UNION {Passes(e, s) : s \in Entered(e)}
      /\ reporting' \in {reporting, reporting \cup {t}}
  BY DEF Take, Enter, Reports
<1>2. /\ e \in Nat \ {0} /\ e \in DOMAIN expectations
      /\ Entered(e) = expectations[e].sequences
      /\ \A s \in expectations[e].sequences : s \in SequenceNames /\ current[s] <= e
  BY TakerIsAhead
<1> PICK r \in Entries : GrowsBy(r, call, e)
  BY HistoryGrows
<1>3. /\ history' = Append(history, r) /\ history' \in Seq(Entries)
      /\ DOMAIN history' = DOMAIN history \cup {Now} /\ Now \notin DOMAIN history
      /\ history'[Now] = r /\ \A k \in DOMAIN history : history'[k] = history[k]
      /\ r.taken = e /\ r.declared = Len(expectations) /\ r.held = Held
      /\ e <= Len(expectations)
  BY DEF GrowsBy
<1>4. Len(expectations) \in Nat /\ Held \subseteq DOMAIN expectations
  BY HeldType DEF MocksTypeOK
<1>5. \A s : Passes(e, s) \subseteq Held
  BY DEF Passes
<1>6. MocksTypeOK'
  <2>1. reporting' \in SUBSET Threads /\ IsFiniteSet(reporting')
    <3>1. IsFiniteSet(reporting) /\ IsFiniteSet(reporting \cup {t}) /\ reporting \in SUBSET Threads
      BY FS_AddElement DEF MocksTypeOK
    <3> QED
      BY <1>1, <3>1
  <2>2. \A k \in DOMAIN history' :
          /\ history'[k].declared <= Len(expectations) /\ history'[k].taken <= Len(expectations)
          /\ history'[k].held \subseteq DOMAIN expectations
    BY <1>3, <1>4 DEF MocksTypeOK
  <2>3. calls' \in Seq(Nat) /\ Len(calls') = Len(calls)
    BY <1>1, <1>2 DEF MocksTypeOK
  <2>4. current' \in [SequenceNames -> Nat]
    BY <1>1, <1>2 DEF MocksTypeOK
  <2>5. retired' \subseteq DOMAIN expectations
    BY <1>1, <1>4, <1>5 DEF MocksTypeOK
  <2> QED
    BY <1>3, <2>1, <2>2, <2>3, <2>4, <2>5 DEF MocksTypeOK
<1>7. CountsFit'
  <2>1. \A f \in DOMAIN expectations : calls[f] \in Nat /\
          calls'[f] = IF f = e THEN calls[f] + 1 ELSE calls[f]
    BY <1>1, <1>2 DEF MocksTypeOK
  <2>2. \A f : CountBefore(f, Now)' =
          IF f = e THEN CountBefore(f, Now) + 1 ELSE CountBefore(f, Now)
    BY <1>3, <1>4, CountGrows
  <2> QED
    BY <2>1, <2>2 DEF CountsFit
<1>8. StepsFit'
  <2>1. SUFFICES ASSUME NEW s \in SequenceNames
        PROVE  /\ current'[s] # 0 =>
                    /\ current'[s] \in DOMAIN expectations
                    /\ s \in expectations[current'[s]].sequences
                    /\ \E k \in DOMAIN history' : history'[k].taken = current'[s]
               /\ \A k \in DOMAIN history' :
                    history'[k].taken # Refused /\ s \in expectations[history'[k].taken].sequences =>
                      history'[k].taken <= current'[s]
    BY DEF StepsFit
  <2>2. \A k \in DOMAIN history : history[k].taken \in Nat
    <3>1. \A k \in DOMAIN history : history[k] \in Entries
      BY DEF MocksTypeOK
    <3> QED
      BY <3>1 DEF Entries
  <2>3. current[s] \in Nat
    BY DEF MocksTypeOK
  <2>4. CASE s \in expectations[e].sequences
    <3>1. current'[s] = e /\ current[s] <= e
      BY <1>1, <1>2, <2>4
    <3>2. \A k \in DOMAIN history :
            history[k].taken # Refused /\ s \in expectations[history[k].taken].sequences =>
              history[k].taken <= e
      BY <1>2, <2>2, <2>3, <3>1 DEF StepsFit
    <3> QED
      BY <1>2, <1>3, <1>4, <2>4, <3>1, <3>2
  <2>5. CASE s \notin expectations[e].sequences
    <3>1. current'[s] = current[s]
      BY <1>1, <1>2, <2>5
    <3> QED
      BY <1>3, <1>4, <2>5, <3>1, SMTT(60) DEF StepsFit
  <2> QED
    BY <2>4, <2>5
<1>9. RetiredFit'
  <2>1. SUFFICES ASSUME NEW f \in Held
        PROVE  f \in retired' <=> \E s \in expectations[f].sequences : f < current'[s]
    BY DEF RetiredFit, Held, Live
  <2>2. f \in Nat /\ f \in DOMAIN expectations /\ expectations[f].sequences \subseteq SequenceNames
    <3>1. f \in DOMAIN expectations /\ DOMAIN expectations \subseteq Nat
      BY HeldType DEF MocksTypeOK
    <3> QED
      BY <3>1, SequenceIsNamed
  <2>3. \A s \in SequenceNames : current[s] \in Nat
    BY DEF MocksTypeOK
  <2>4. f \in retired' <=> \/ f \in retired
                           \/ \E s \in expectations[e].sequences :
                                s \in expectations[f].sequences /\ current[s] <= f /\ f < e
    BY <1>1, <1>2 DEF Passes
  <2>5. f \in retired <=> \E s \in expectations[f].sequences : f < current[s]
    BY DEF RetiredFit
  <2>6. \A s \in expectations[f].sequences :
          current'[s] = IF s \in expectations[e].sequences THEN e ELSE current[s]
    BY <1>1, <1>2, <2>2
  <2>7. ASSUME NEW s \in expectations[f].sequences, f < current'[s] PROVE f \in retired'
    <3>1. CASE s \in expectations[e].sequences /\ current[s] <= f
      BY <2>4, <2>6, <2>7, <3>1
    <3>2. CASE ~(s \in expectations[e].sequences /\ current[s] <= f)
      BY <1>2, <2>2, <2>3, <2>4, <2>5, <2>6, <2>7, <3>2
    <3> QED
      BY <3>1, <3>2
  <2>8. ASSUME f \in retired' PROVE \E s \in expectations[f].sequences : f < current'[s]
    <3>1. CASE f \in retired
      <4>1. PICK s \in expectations[f].sequences : f < current[s]
        BY <2>5, <3>1
      <4>2. f < current'[s]
        BY <1>2, <2>2, <2>3, <2>6, <4>1
      <4> QED
        BY <4>2
    <3>2. CASE f \notin retired
      BY <2>4, <2>6, <2>8, <3>2
    <3> QED
      BY <3>1, <3>2
  <2> QED
    BY <2>7, <2>8
<1>10. VerifiedFit'
  BY DEF VerifiedFit
<1> QED
  BY <1>6, <1>7, <1>8, <1>9, <1>10

\* A failure is reported once, and changes nothing else.
LEMMA ReportMocks ==
  ASSUME MocksInv, NEW t \in Threads, ReportMockFailure(t)
  PROVE  MocksInv'
<1>1. UNCHANGED <<expectations, calls, retired, gone, checked, judged, current, history>>
  BY DEF ReportMockFailure, verifyVars
<1>2. MocksTypeOK'
  <2>1. reporting' \in SUBSET Threads /\ IsFiniteSet(reporting')
    BY FS_RemoveElement DEF ReportMockFailure, MocksInv, MocksTypeOK
  <2> QED
    BY <1>1, <2>1 DEF ReportMockFailure, MocksInv, MocksTypeOK
<1>3. CountsFit' /\ StepsFit'
  BY <1>1 DEF MocksInv, CountsFit, StepsFit, CountBefore, Now
<1>4. RetiredFit' /\ VerifiedFit'
  BY <1>1 DEF MocksInv, RetiredFit, VerifiedFit, Held, Live
<1> QED
  BY <1>2, <1>3, <1>4 DEF MocksInv

\* What verifying a mock leaves alone: the calls, and what they were to find.
VerifyKeeps == UNCHANGED <<expectations, calls, retired, current, reporting, history>>

\* A step of a verification keeps the invariant if it gives no sequence a step
\* to find that it did not find before.
LEMMA VerifyMocks ==
  ASSUME MocksInv, VerifyKeeps, failures' \in Nat, Held' \subseteq Held, VerifiedFit',
         gone' \subseteq DOMAIN expectations, judged' \subseteq DOMAIN expectations,
         checked' \in [Threads -> SUBSET DOMAIN expectations]
  PROVE  MocksInv'
<1>1. MocksTypeOK'
  BY DEF VerifyKeeps, MocksInv, MocksTypeOK
<1>2. CountsFit' /\ StepsFit'
  BY DEF VerifyKeeps, MocksInv, CountsFit, StepsFit, CountBefore, Now
<1>3. RetiredFit'
  BY DEF VerifyKeeps, MocksInv, RetiredFit
<1> QED
  BY <1>1, <1>2, <1>3 DEF MocksInv

\* Expectations that leave their mock are still found ...
LEMMA SwapMocks ==
  ASSUME MocksInv, NEW t \in Threads, NEW mock, VerifyAll(t, mock)
  PROVE  MocksInv'
<1> DEFINE swapped == {e \in Live : expectations[e].mock = mock}
<1>1. /\ gone' = gone \cup swapped /\ judged' = judged /\ failures' = failures
      /\ checked' = [checked EXCEPT ![t] = swapped] /\ checked[t] = {}
      /\ swapped \subseteq Live /\ VerifyKeeps
  BY DEF VerifyAll, Free, VerifyKeeps
<1> HIDE DEF swapped
<1>2. MocksTypeOK /\ VerifiedFit /\ Live \subseteq DOMAIN expectations
  BY DEF MocksInv, Live
<1>3. \A u \in Threads : checked'[u] = IF u = t THEN swapped ELSE checked[u]
  BY <1>1, <1>2 DEF MocksTypeOK
<1>4. Live' \subseteq Live
  BY <1>1 DEF Live, VerifyKeeps
<1>5. Held' \subseteq Held
  BY <1>1, <1>3, <1>4 DEF Held
<1>6. VerifiedFit'
  <2>1. \A u \in Threads : checked'[u] \subseteq gone'
    BY <1>1, <1>2, <1>3 DEF VerifiedFit
  <2>2. ASSUME NEW e \in gone' \ judged' PROVE \E u \in Threads : e \in checked'[u]
    BY <1>1, <1>2, <1>3, <2>2 DEF VerifiedFit
  <2> QED
    BY <1>1, <1>2, <2>1, <2>2 DEF VerifiedFit
<1>7. /\ gone' \subseteq DOMAIN expectations /\ judged' \subseteq DOMAIN expectations
      /\ checked' \in [Threads -> SUBSET DOMAIN expectations] /\ failures' \in Nat
  BY <1>1, <1>2 DEF MocksTypeOK
<1> QED
  BY <1>1, <1>5, <1>6, <1>7, VerifyMocks

\* The expectation that is judged next.
LEMMA NextIsJudged ==
  ASSUME MocksInv, NEW t \in Threads, Judge(t)
  PROVE  /\ Min(checked[t] \ judged) \in checked[t] \ judged
         /\ Min(checked[t] \ judged) \in DOMAIN expectations
<1>1. checked[t] \ judged \in SUBSET Nat /\ checked[t] \subseteq DOMAIN expectations
  BY DEF MocksInv, MocksTypeOK
<1>2. \E e \in checked[t] \ judged : \A f \in checked[t] \ judged : e <= f
  BY <1>1, LeastExists DEF Judge
<1>3. Min(checked[t] \ judged) \in checked[t] \ judged
  BY <1>2 DEF Min
<1> QED
  BY <1>1, <1>3

\* ... and when they are judged ...
LEMMA JudgeMocks ==
  ASSUME MocksInv, NEW t \in Threads, Judge(t)
  PROVE  MocksInv'
<1> DEFINE e == Min(checked[t] \ judged)
<1>1. /\ gone' = gone /\ checked' = checked /\ judged' = judged \cup {e}
      /\ failures' \in {failures, failures + 1} /\ VerifyKeeps
  BY DEF Judge, VerifyKeeps
<1>2. e \in checked[t] /\ e \in DOMAIN expectations
  BY NextIsJudged
<1> HIDE DEF e
<1>3. MocksTypeOK /\ VerifiedFit
  BY DEF MocksInv
<1>4. Held' = Held
  BY <1>1 DEF Held, Live, VerifyKeeps
<1>5. VerifiedFit'
  BY <1>1, <1>2, <1>3 DEF VerifiedFit
<1>6. /\ gone' \subseteq DOMAIN expectations /\ judged' \subseteq DOMAIN expectations
      /\ checked' \in [Threads -> SUBSET DOMAIN expectations] /\ failures' \in Nat
  BY <1>1, <1>2, <1>3 DEF MocksTypeOK
<1> QED
  BY <1>1, <1>4, <1>5, <1>6, VerifyMocks

\* ... until they are destroyed, in any order.
LEMMA DestroyMocks ==
  ASSUME MocksInv, NEW t \in Threads, Destroy(t)
  PROVE  MocksInv'
<1>1. PICK e \in checked[t] : checked' = [checked EXCEPT ![t] = @ \ {e}]
  BY DEF Destroy
<1>2. /\ gone' = gone /\ judged' = judged /\ failures' = failures /\ VerifyKeeps
      /\ checked[t] \subseteq judged
  BY DEF Destroy, VerifyKeeps
<1>3. MocksTypeOK /\ VerifiedFit
  BY DEF MocksInv
<1>4. \A u \in Threads : checked'[u] = IF u = t THEN checked[t] \ {e} ELSE checked[u]
  BY <1>1, <1>3 DEF MocksTypeOK
<1>5. Held' \subseteq Held
  <2>1. Live' = Live
    BY <1>2 DEF Live, VerifyKeeps
  <2>2. \A u \in Threads : checked'[u] \subseteq checked[u]
    BY <1>4
  <2> QED
    BY <2>1, <2>2 DEF Held
<1>6. VerifiedFit'
  <2>1. \A f \in gone \ judged : \A u \in Threads : f \in checked[u] => f \in checked'[u]
    BY <1>2, <1>4
  <2>2. \A u \in Threads : checked'[u] \subseteq gone
    BY <1>3, <1>4 DEF VerifiedFit
  <2> QED
    BY <1>2, <1>3, <2>1, <2>2 DEF VerifiedFit
<1>7. /\ gone' \subseteq DOMAIN expectations /\ judged' \subseteq DOMAIN expectations
      /\ checked' \in [Threads -> SUBSET DOMAIN expectations] /\ failures' \in Nat
  BY <1>1, <1>2, <1>3 DEF MocksTypeOK
<1> QED
  BY <1>2, <1>5, <1>6, <1>7, VerifyMocks

LEMMA NextMocks == MocksInv /\ [Next]_vars => MocksInv'
<1> SUFFICES ASSUME MocksInv, [Next]_vars PROVE MocksInv'
  OBVIOUS
<1>1. ASSUME NEW t \in Threads, Declare(t) PROVE MocksInv'
  BY <1>1, DeclareMocks
<1>2. ASSUME NEW t \in Threads, ReportMockFailure(t) PROVE MocksInv'
  BY <1>2, ReportMocks
<1>3. ASSUME NEW t \in Threads, NEW call \in Calls, Decide(t, call) PROVE MocksInv'
  <2>1. MocksTypeOK
    BY DEF MocksInv
  <2> QED
    BY <1>3, <2>1, DecideCases, RefuseMocks, TakeMocks
<1>4. ASSUME NEW t \in Threads,
             \/ \E mock \in MockNames : VerifyAll(t, mock)
             \/ Judge(t) \/ Destroy(t)
      PROVE  MocksInv'
  BY <1>4, SwapMocks, JudgeMocks, DestroyMocks
<1>5. CASE UNCHANGED vars
  <2>1. /\ UNCHANGED <<gone, checked, judged, failures>> /\ VerifyKeeps
    BY <1>5 DEF vars, verifyVars, VerifyKeeps
  <2>2. Held' = Held /\ VerifiedFit'
    BY <2>1 DEF Held, Live, VerifyKeeps, MocksInv, VerifiedFit
  <2> QED
    BY <2>1, <2>2, VerifyMocks DEF MocksInv, MocksTypeOK
<1> QED
  BY <1>1, <1>2, <1>3, <1>4, <1>5 DEF Next

\* The strengthened invariant: the counts, the places of the sequences and
\* the retired steps are those of the calls so far, also of the steps that are
\* just verified.
THEOREM MocksInvariant == Spec => []MocksInv
<1>1. Init => MocksInv
  BY InitMocks
<1> QED
  BY <1>1, NextMocks, PTL DEF Spec

-----------------------------------------------------------------------------
(* Calls go to the first expectation that can take them. *)

\* What CallsGoToFirst says of one call.
TakersAt(i) == {e \in ExpectedAt(i) :
                  /\ Accepts(e, history[i].call)
                  /\ CountBefore(e, i) < expectations[e].maximum
                  /\ \A s \in expectations[e].sequences : ~PassedBefore(e, s, i)}
GoesToFirst(i) == history[i].taken = IF TakersAt(i) = {} THEN Refused ELSE Min(TakersAt(i))

LEMMA CallsAreJudged == CallsGoToFirst <=> \A i \in DOMAIN history : GoesToFirst(i)
  BY DEF CallsGoToFirst, GoesToFirst, TakersAt

\* By the calls so far, those that can take another are those whose counters
\* and sequences say so.
LEMMA TakersFit ==
  ASSUME MocksInv, NEW call
  PROVE  Takers(call) =
           {e \in Live : /\ Accepts(e, call) /\ CountBefore(e, Now) < expectations[e].maximum
                         /\ \A s \in expectations[e].sequences : ~PassedBefore(e, s, Now)}
<1>1. SUFFICES ASSUME NEW e \in Live
      PROVE  Available(e) <=>
               /\ CountBefore(e, Now) < expectations[e].maximum
               /\ \A s \in expectations[e].sequences : ~PassedBefore(e, s, Now)
  BY DEF Takers
<1>2. e \in DOMAIN expectations
  BY DEF Live
<1>3. \A s \in expectations[e].sequences : PassedBefore(e, s, Now) <=> e < current[s]
  BY <1>2, PassedIsBehind, SequenceIsNamed DEF MocksInv
<1>4. e \in retired <=> \E s \in expectations[e].sequences : PassedBefore(e, s, Now)
  BY <1>3, HeldType DEF MocksInv, RetiredFit
<1>5. calls[e] = CountBefore(e, Now)
  BY <1>2 DEF MocksInv, CountsFit
<1> QED
  BY <1>4, <1>5 DEF Available

\* The calls before keep their judgement, and the new one has it.
LEMMA DecideGoesToFirst ==
  ASSUME MocksInv, CallsGoToFirst, UNCHANGED <<expectations, gone, checked, judged>>,
         NEW call \in Calls, NEW e, Remembered(call, e)
  PROVE  CallsGoToFirst'
<1>1. MocksTypeOK
  BY DEF MocksInv
<1> PICK r \in Entries : GrowsBy(r, call, e)
  BY <1>1, HistoryGrows
<1>2. /\ history' = Append(history, r)
      /\ DOMAIN history' = DOMAIN history \cup {Now} /\ Now \notin DOMAIN history
      /\ history'[Now] = r /\ \A k \in DOMAIN history : history'[k] = history[k]
      /\ r.taken = e /\ r.declared = Len(expectations) /\ r.gone = gone /\ r.call = call
  BY DEF GrowsBy
<1>3. /\ \A f : \A i \in 1..Now : CountBefore(f, i)' = CountBefore(f, i)
      /\ \A f, s : \A i \in 1..Now : PassedBefore(f, s, i)' = PassedBefore(f, s, i)
  BY <1>1, <1>2, CountGrows, PassedStays
<1>4. DOMAIN history = 1..Len(history) /\ Len(history) \in Nat /\ Now \in 1..Now
      /\ \A i \in DOMAIN history : i \in 1..Now
  BY <1>1 DEF MocksTypeOK, Now
<1>5. ASSUME NEW i \in DOMAIN history PROVE GoesToFirst(i)'
  <2>1. history'[i] = history[i] /\ i \in 1..Now
    BY <1>2, <1>4
  <2>2. ExpectedAt(i)' = ExpectedAt(i)
    BY <2>1 DEF ExpectedAt
  <2>3. TakersAt(i)' = TakersAt(i)
    BY <1>3, <2>1, <2>2 DEF TakersAt, Accepts
  <2>4. GoesToFirst(i)
    BY CallsAreJudged
  <2> QED
    BY <2>1, <2>3, <2>4 DEF GoesToFirst
<1>6. ASSUME NEW n, n = Now PROVE GoesToFirst(n)'
  <2>1. ExpectedAt(n)' = Live
    BY <1>1, <1>2, <1>6 DEF ExpectedAt, Live, MocksTypeOK
  <2>2. TakersAt(n)' = Takers(call)
    <3>1. TakersAt(n)' = {f \in Live : /\ Accepts(f, call)
                                       /\ CountBefore(f, n) < expectations[f].maximum
                                       /\ \A s \in expectations[f].sequences :
                                            ~PassedBefore(f, s, n)}
      BY <1>2, <1>3, <1>4, <1>6, <2>1 DEF TakersAt, Accepts
    <3> QED
      BY <1>6, <3>1, TakersFit
  <2> QED
    BY <1>2, <1>6, <2>2 DEF GoesToFirst, Remembered
<1>7. \A i \in DOMAIN history' : GoesToFirst(i)'
  BY <1>2, <1>5, <1>6
<1>8. CallsGoToFirst' <=> (\A i \in DOMAIN history : GoesToFirst(i))'
  BY DEF CallsGoToFirst, GoesToFirst, TakersAt
<1> QED
  BY <1>7, <1>8

\* Where the calls so far are in history, and what is known of each.
LEMMA CallTypes ==
  ASSUME MocksTypeOK, NEW i \in DOMAIN history
  PROVE  /\ i \in 1..Now /\ history[i].taken \in Nat
         /\ history[i].taken # Refused => history[i].taken \in DOMAIN expectations
         /\ ExpectedAt(i) \subseteq DOMAIN expectations
         /\ history[i].held \subseteq DOMAIN expectations
<1>1. i \in 1..Now /\ history[i] \in Entries
  BY DEF MocksTypeOK, Now
<1>2. /\ history[i].taken \in Nat /\ history[i].declared \in Nat
      /\ history[i].taken <= Len(expectations) /\ history[i].declared <= Len(expectations)
      /\ Len(expectations) \in Nat /\ DOMAIN expectations = 1..Len(expectations)
  BY <1>1 DEF Entries, MocksTypeOK
<1> QED
  BY <1>1, <1>2 DEF Refused, ExpectedAt, MocksTypeOK

LEMMA NextGoesToFirst == MocksInv /\ CallsGoToFirst /\ [Next]_vars => CallsGoToFirst'
<1> SUFFICES ASSUME MocksInv, CallsGoToFirst, [Next]_vars PROVE CallsGoToFirst'
  OBVIOUS
<1>1. MocksTypeOK
  BY DEF MocksInv
<1>2. ASSUME NEW t \in Threads, Declare(t) PROVE CallsGoToFirst'
  <2>1. UNCHANGED history /\ UNCHANGED gone
    BY <1>2 DEF Declare, verifyVars
  <2>2. \A e \in DOMAIN expectations : expectations'[e] = expectations[e]
    BY <1>1, <1>2, DeclaredStay DEF MocksTypeOK
  <2>3. ASSUME NEW i \in DOMAIN history PROVE GoesToFirst(i)'
    <3>1. ExpectedAt(i)' = ExpectedAt(i) /\ ExpectedAt(i) \subseteq DOMAIN expectations
      BY <1>1, <2>1, CallTypes DEF ExpectedAt
    <3>2. i \in 1..Now
      BY <1>1, CallTypes
    <3>3. TakersAt(i)' = TakersAt(i)
      BY <1>1, <1>2, <2>1, <2>2, <3>1, <3>2, DeclareStays DEF TakersAt, Accepts
    <3> QED
      BY <2>1, <3>3, CallsAreJudged DEF GoesToFirst
  <2>4. CallsGoToFirst' <=> (\A i \in DOMAIN history : GoesToFirst(i))'
    BY DEF CallsGoToFirst, GoesToFirst, TakersAt
  <2> QED
    BY <2>1, <2>3, <2>4
<1>3. ASSUME NEW t \in Threads, NEW call \in Calls, Decide(t, call) PROVE CallsGoToFirst'
  BY <1>1, <1>3, DecideCases, DecideGoesToFirst
<1>4. CASE UNCHANGED <<expectations, history>>
  <2>1. /\ \A e, i : CountBefore(e, i)' = CountBefore(e, i)
        /\ \A f, s, i : PassedBefore(f, s, i)' = PassedBefore(f, s, i)
        /\ \A i : ExpectedAt(i)' = ExpectedAt(i)
    BY <1>4 DEF CountBefore, PassedBefore, InOrder, ExpectedAt
  <2>2. \A i : TakersAt(i)' = TakersAt(i)
    BY <1>4, <2>1 DEF TakersAt, Accepts
  <2>3. CallsGoToFirst' <=> (\A i \in DOMAIN history : GoesToFirst(i))'
    BY DEF CallsGoToFirst, GoesToFirst, TakersAt
  <2> QED
    BY <1>4, <2>2, <2>3, CallsAreJudged DEF GoesToFirst
<1> QED
  BY <1>2, <1>3, <1>4 DEF Next, vars, ReportMockFailure, VerifyAll, Judge, Destroy

\* For any expectations, sequences and threads: a call goes to the first
\* expectation that can take it, by the calls before it, and is refused only
\* if there is none (Mock.cpp, the decision on a call).
THEOREM CallsGoToTheFirst == Spec => []CallsGoToFirst
<1>1. Init => CallsGoToFirst
  BY InitMocks
<1> QED
  BY <1>1, NextGoesToFirst, MocksInvariant, PTL DEF Spec

-----------------------------------------------------------------------------
(* Each failure is reported once. *)

LEMMA CallsFinite ==
  ASSUME MocksTypeOK
  PROVE  /\ IsFiniteSet(RefusedCalls) /\ IsFiniteSet(EarlyCalls) /\ IsFiniteSet(Unmet)
         /\ RefusedCalls \subseteq DOMAIN history /\ EarlyCalls \subseteq DOMAIN history
         /\ Cardinality(RefusedCalls) \in Nat /\ Cardinality(EarlyCalls) \in Nat
         /\ Cardinality(Unmet) \in Nat /\ Cardinality(reporting) \in Nat /\ failures \in Nat
<1>1. /\ DOMAIN history = 1..Len(history) /\ Len(history) \in Nat
      /\ judged \subseteq 1..Len(expectations) /\ Len(expectations) \in Nat
  BY DEF MocksTypeOK
<1>2. IsFiniteSet(1..Len(history)) /\ IsFiniteSet(1..Len(expectations))
  BY <1>1, FS_Interval
<1>3. /\ RefusedCalls \subseteq 1..Len(history) /\ EarlyCalls \subseteq 1..Len(history)
      /\ Unmet \subseteq 1..Len(expectations)
  BY <1>1 DEF RefusedCalls, EarlyCalls, Unmet
<1>4. IsFiniteSet(RefusedCalls) /\ IsFiniteSet(EarlyCalls) /\ IsFiniteSet(Unmet)
  BY <1>2, <1>3, FS_Subset
<1>5. IsFiniteSet(reporting) /\ failures \in Nat
  BY DEF MocksTypeOK
<1> QED
  BY <1>1, <1>3, <1>4, <1>5, FS_CardinalityType

\* One call more: the failures of those before stay, and it may add its own.
LEMMA DecideFailures ==
  ASSUME MocksInv, UNCHANGED <<expectations, gone, checked, judged>>,
         NEW call \in Calls, NEW e, Remembered(call, e)
  PROVE  /\ RefusedCalls' = IF e = Refused THEN RefusedCalls \cup {Now} ELSE RefusedCalls
         /\ EarlyCalls' = IF e # Refused /\ Undone(e) THEN EarlyCalls \cup {Now} ELSE EarlyCalls
         /\ Unmet' = Unmet
<1>1. MocksTypeOK
  BY DEF MocksInv
<1> PICK r \in Entries : GrowsBy(r, call, e)
  BY <1>1, HistoryGrows
<1>2. /\ history' = Append(history, r)
      /\ DOMAIN history' = DOMAIN history \cup {Now} /\ Now \notin DOMAIN history
      /\ history'[Now] = r /\ \A k \in DOMAIN history : history'[k] = history[k]
      /\ r.taken = e /\ r.held = Held
  BY DEF GrowsBy
<1>3. /\ \A f : \A i \in 1..Now : CountBefore(f, i)' = CountBefore(f, i)
      /\ \A f : CountBefore(f, Now)' =
                  IF f = e THEN CountBefore(f, Now) + 1 ELSE CountBefore(f, Now)
      /\ \A f, s : \A i \in 1..Now : PassedBefore(f, s, i)' = PassedBefore(f, s, i)
  BY <1>1, <1>2, CountGrows, PassedStays
<1>4. Now \in 1..Now /\ \A i \in DOMAIN history : i \in 1..Now
  BY <1>1, CallTypes DEF MocksTypeOK, Now
<1>5. \A i \in DOMAIN history : ComesEarly(i)' <=> ComesEarly(i)
  <2>1. SUFFICES ASSUME NEW i \in DOMAIN history PROVE ComesEarly(i)' <=> ComesEarly(i)
    OBVIOUS
  <2>2. history'[i] = history[i] /\ i \in 1..Now
    BY <1>2, <1>4
  <2> QED
    BY <1>3, <2>2 DEF ComesEarly, InOrder
<1>6. ASSUME NEW n, n = Now, e # Refused PROVE ComesEarly(n)' <=> Undone(e)
  <2>1. e \in Live /\ e \in Nat /\ e \in Live \ retired
    BY <1>1, <1>6, FirstTakes DEF Remembered
  <2>2. Entered(e) = expectations[e].sequences /\ expectations[e].sequences \subseteq SequenceNames
    BY <2>1, TakerIsAhead
  <2>3. history'[n].held = Held /\ history'[n].taken = e
    BY <1>2, <1>6
  <2>4. ComesEarly(n)' <=>
          \E f \in Held, s \in SequenceNames :
            InOrder(f, e, s) /\ ~PassedBefore(f, s, n) /\ CountBefore(f, n) < expectations[f].minimum
    BY <1>3, <1>4, <1>6, <2>3 DEF ComesEarly, InOrder
  <2>5. ASSUME NEW f \in Held, NEW s \in SequenceNames
        PROVE  /\ InOrder(f, e, s) /\ ~PassedBefore(f, s, n)
                    /\ CountBefore(f, n) < expectations[f].minimum
                  <=> s \in Entered(e) /\ f \in Passes(e, s) /\ ~Satisfied(f)
    <3>1. f \in DOMAIN expectations /\ f \in Nat /\ current[s] \in Nat
      BY <1>1, HeldType DEF MocksTypeOK
    <3>2. PassedBefore(f, s, n) <=> s \in expectations[f].sequences /\ f < current[s]
      BY <1>1, <1>6, <3>1, PassedIsBehind DEF MocksInv
    <3>3. calls[f] = CountBefore(f, n) /\ calls[f] \in Nat
      BY <1>1, <1>6, <3>1 DEF MocksInv, CountsFit, MocksTypeOK
    <3>4. expectations[f].minimum \in Nat
      BY <1>1, <3>1, SequenceIsNamed, MocksAssumption
    <3>5. ~Satisfied(f) <=> CountBefore(f, n) < expectations[f].minimum
      BY <3>3, <3>4 DEF Satisfied
    <3>6. ~(f < current[s]) <=> current[s] <= f
      BY <3>1
    <3> QED
      BY <2>2, <3>2, <3>5, <3>6 DEF InOrder, Passes
  <2>6. \A f, s : s \in Entered(e) /\ f \in Passes(e, s) => f \in Held /\ s \in SequenceNames
    BY <2>2 DEF Passes
  <2> QED
    BY <2>4, <2>5, <2>6 DEF Undone
<1>7. RefusedCalls' = IF e = Refused THEN RefusedCalls \cup {Now} ELSE RefusedCalls
  BY <1>2 DEF RefusedCalls
<1>8. EarlyCalls' = IF e # Refused /\ Undone(e) THEN EarlyCalls \cup {Now} ELSE EarlyCalls
  <2>1. ASSUME NEW i PROVE i \in EarlyCalls' <=> i \in DOMAIN history' /\ history'[i].taken # Refused
                                                /\ ComesEarly(i)'
    BY DEF EarlyCalls, RefusedCalls
  <2>2. ASSUME NEW i PROVE i \in EarlyCalls <=> i \in DOMAIN history /\ history[i].taken # Refused
                                               /\ ComesEarly(i)
    BY DEF EarlyCalls, RefusedCalls
  <2>3. ASSUME NEW i
        PROVE  i \in EarlyCalls' <=> i \in EarlyCalls \/ (i = Now /\ e # Refused /\ Undone(e))
    <3>1. CASE i \in DOMAIN history
      BY <1>2, <1>5, <2>1, <2>2, <3>1
    <3>2. CASE i = Now
      <4>1. history'[Now].taken = e
        BY <1>2
      <4> QED
        BY <1>2, <1>6, <2>1, <2>2, <3>2, <4>1
    <3> QED
      BY <1>2, <2>1, <2>2, <3>1, <3>2
  <2>4. Now \notin EarlyCalls
    BY <1>2, <2>2
  <2> QED
    BY <2>3
<1>9. Unmet' = Unmet
  <2>1. e \notin judged
    BY <1>1 DEF Remembered, Live, MocksInv, VerifiedFit, MocksTypeOK, Refused
  <2> QED
    BY <1>3, <2>1 DEF Unmet
<1> QED
  BY <1>7, <1>8, <1>9

\* The calls are told apart by history, and by what was expected.
LEMMA CallsStay ==
  ASSUME UNCHANGED <<expectations, history>>
  PROVE  /\ RefusedCalls' = RefusedCalls /\ EarlyCalls' = EarlyCalls
         /\ \A e : CountBefore(e, Now)' = CountBefore(e, Now)
<1>1. /\ \A e, i : CountBefore(e, i)' = CountBefore(e, i)
      /\ \A f, s, i : PassedBefore(f, s, i)' = PassedBefore(f, s, i)
      /\ \A f, e, s : InOrder(f, e, s)' = InOrder(f, e, s)
  BY DEF CountBefore, PassedBefore, InOrder
<1>2. \A i : ComesEarly(i)' = ComesEarly(i)
  BY <1>1 DEF ComesEarly
<1> QED
  BY <1>1, <1>2 DEF RefusedCalls, EarlyCalls, Now, CountBefore

LEMMA NextFailures == MocksInv /\ FailuresFit /\ [Next]_vars => FailuresFit'
<1> SUFFICES ASSUME MocksInv, FailuresFit, [Next]_vars PROVE FailuresFit'
  OBVIOUS
<1>1. MocksTypeOK /\ MocksTypeOK'
  BY NextMocks DEF MocksInv
<1>2. /\ failures + Cardinality(reporting) =
           Cardinality(RefusedCalls) + Cardinality(EarlyCalls) + Cardinality(Unmet)
      /\ Cardinality(RefusedCalls) \in Nat /\ Cardinality(EarlyCalls) \in Nat
      /\ Cardinality(Unmet) \in Nat /\ Cardinality(reporting) \in Nat /\ failures \in Nat
  BY <1>1, CallsFinite DEF FailuresFit
<1>3. ASSUME NEW t \in Threads, Declare(t) PROVE FailuresFit'
  <2>1. UNCHANGED <<judged, reporting, failures, history>>
    BY <1>3 DEF Declare, verifyVars
  <2>2. \A e \in DOMAIN expectations : expectations'[e] = expectations[e]
    BY <1>1, <1>3, DeclaredStay DEF MocksTypeOK
  <2>3. \A e, i : CountBefore(e, i)' = CountBefore(e, i)
    BY <1>1, <1>3, DeclareStays
  <2>4. Unmet' = Unmet
    BY <1>1, <2>1, <2>2, <2>3 DEF Unmet, MocksTypeOK, Now
  <2>5. RefusedCalls' = RefusedCalls
    BY <2>1 DEF RefusedCalls
  <2>6. EarlyCalls' = EarlyCalls
    <3>1. ASSUME NEW i \in DOMAIN history, history[i].taken # Refused
          PROVE  ComesEarly(i)' <=> ComesEarly(i)
      <4>1. /\ i \in 1..Now /\ history[i].taken \in DOMAIN expectations
            /\ history[i].held \subseteq DOMAIN expectations
        BY <1>1, <3>1, CallTypes
      <4>2. \A f \in history[i].held : \A s : PassedBefore(f, s, i)' = PassedBefore(f, s, i)
        BY <1>1, <1>3, <4>1, DeclareStays
      <4>3. \A f \in history[i].held : \A s :
              InOrder(f, history[i].taken, s)' = InOrder(f, history[i].taken, s)
        BY <2>1, <2>2, <4>1 DEF InOrder
      <4>4. \A f \in history[i].held : \A s :
              InOrder(f, history[i].taken, s) => s \in SequenceNames
        BY <1>1, <4>1, SequenceIsNamed DEF InOrder
      <4> QED
        BY <2>1, <2>2, <2>3, <4>1, <4>2, <4>3, <4>4 DEF ComesEarly
    <3> QED
      BY <2>1, <2>5, <3>1 DEF EarlyCalls, RefusedCalls
  <2> QED
    BY <2>1, <2>4, <2>5, <2>6, <1>2 DEF FailuresFit
<1>4. ASSUME NEW t \in Threads, ReportMockFailure(t) PROVE FailuresFit'
  <2>1. UNCHANGED <<expectations, judged, history>> /\ failures' = failures + 1
        /\ t \in reporting /\ reporting' = reporting \ {t}
    BY <1>4 DEF ReportMockFailure, verifyVars
  <2>2. RefusedCalls' = RefusedCalls /\ EarlyCalls' = EarlyCalls /\ Unmet' = Unmet
    BY <2>1, CallsStay DEF Unmet
  <2>3. Cardinality(reporting') = Cardinality(reporting) - 1
    BY <1>1, <2>1, FS_RemoveElement DEF MocksTypeOK
  <2> QED
    BY <1>2, <2>1, <2>2, <2>3 DEF FailuresFit
<1>5. ASSUME NEW t \in Threads, NEW call \in Calls, Decide(t, call) PROVE FailuresFit'
  <2>1. UNCHANGED <<expectations, gone, checked, judged, failures>> /\ t \notin reporting
    BY <1>1, <1>5, DecideCases
  <2>2. Now \notin RefusedCalls /\ Now \notin EarlyCalls
    <3>1. Now \notin DOMAIN history
      BY <1>1 DEF MocksTypeOK, Now
    <3> QED
      BY <1>1, <3>1, CallsFinite
  <2>3. IsFiniteSet(RefusedCalls) /\ IsFiniteSet(EarlyCalls) /\ IsFiniteSet(reporting)
    BY <1>1, CallsFinite DEF MocksTypeOK
  <2>4. Cardinality(reporting \cup {t}) = Cardinality(reporting) + 1
    BY <2>1, <2>3, FS_AddElement
  <2>5. Cardinality(RefusedCalls \cup {Now}) = Cardinality(RefusedCalls) + 1
    BY <2>2, <2>3, FS_AddElement
  <2>6. Cardinality(EarlyCalls \cup {Now}) = Cardinality(EarlyCalls) + 1
    BY <2>2, <2>3, FS_AddElement
  <2>7. CASE Refuse(t, call) /\ Remembered(call, Refused)
    <3>1. reporting' = reporting \cup {t}
      BY <2>7 DEF Refuse, Reports
    <3>2. RefusedCalls' = RefusedCalls \cup {Now} /\ EarlyCalls' = EarlyCalls /\ Unmet' = Unmet
      BY <2>1, <2>7, DecideFailures
    <3> QED
      BY <1>2, <2>1, <2>4, <2>5, <3>1, <3>2 DEF FailuresFit
  <2>8. ASSUME NEW e \in Live \ retired, e \in Nat \ {0}, Take(t, call, e), Remembered(call, e)
        PROVE  FailuresFit'
    <3>1. reporting' = IF Undone(e) THEN reporting \cup {t} ELSE reporting
      BY <2>8 DEF Take, Reports
    <3>2. /\ RefusedCalls' = RefusedCalls /\ Unmet' = Unmet
          /\ EarlyCalls' = IF Undone(e) THEN EarlyCalls \cup {Now} ELSE EarlyCalls
      BY <2>1, <2>8, DecideFailures DEF Refused
    <3> QED
      BY <1>2, <2>1, <2>4, <2>6, <3>1, <3>2 DEF FailuresFit
  <2> QED
    BY <1>1, <1>5, <2>7, <2>8, DecideCases
<1>6. ASSUME NEW t \in Threads, Judge(t) PROVE FailuresFit'
  <2> DEFINE e == Min(checked[t] \ judged)
  <2>1. /\ UNCHANGED <<expectations, reporting, history>> /\ judged' = judged \cup {e}
        /\ failures' = IF Satisfied(e) THEN failures ELSE failures + 1
    BY <1>6 DEF Judge
  <2>2. e \notin judged /\ e \in DOMAIN expectations
    BY <1>6, NextIsJudged
  <2> HIDE DEF e
  <2>3. /\ RefusedCalls' = RefusedCalls /\ EarlyCalls' = EarlyCalls
        /\ \A f : CountBefore(f, Now)' = CountBefore(f, Now)
    BY <2>1, CallsStay
  <2>4. ~Satisfied(e) <=> CountBefore(e, Now) < expectations[e].minimum
    <3>1. calls[e] = CountBefore(e, Now) /\ calls[e] \in Nat
      BY <1>1, <2>2 DEF MocksInv, CountsFit, MocksTypeOK
    <3>2. expectations[e].minimum \in Nat
      BY <1>1, <2>2, SequenceIsNamed, MocksAssumption
    <3> QED
      BY <3>1, <3>2 DEF Satisfied
  <2>5. Unmet' = IF Satisfied(e) THEN Unmet ELSE Unmet \cup {e}
    BY <2>1, <2>3, <2>4 DEF Unmet
  <2>6. Cardinality(Unmet \cup {e}) = Cardinality(Unmet) + 1
    <3>1. e \notin Unmet /\ IsFiniteSet(Unmet)
      BY <1>1, <2>2, CallsFinite DEF Unmet
    <3> QED
      BY <3>1, FS_AddElement
  <2> QED
    BY <1>2, <2>1, <2>3, <2>5, <2>6 DEF FailuresFit
<1>7. CASE UNCHANGED <<expectations, judged, reporting, failures, history>>
  <2>1. RefusedCalls' = RefusedCalls /\ EarlyCalls' = EarlyCalls /\ Unmet' = Unmet
    BY <1>7, CallsStay DEF Unmet
  <2> QED
    BY <1>7, <2>1 DEF FailuresFit
<1> QED
  BY <1>3, <1>4, <1>5, <1>6, <1>7 DEF Next, vars, verifyVars, VerifyAll, Destroy

\* For any expectations, sequences and threads: when all mocks are verified
\* and all threads have reported, the failures of the test are exactly the
\* calls that were refused, those that came early, also for a step that was
\* just being verified, and the expectations without their calls (Mock.cpp,
\* and Mock.hpp for the verification).
THEOREM FailuresAreReportedOnce == Spec => []EachFailureOnce
<1>1. Init => FailuresFit
  BY InitMocks
<1>2. MocksInv /\ FailuresFit => EachFailureOnce
  <2> SUFFICES ASSUME MocksInv, FailuresFit, Ended PROVE EachFailureOnce
    BY DEF EachFailureOnce
  <2>1. MocksTypeOK /\ judged = DOMAIN expectations
    <3>1. MocksTypeOK /\ VerifiedFit /\ gone = DOMAIN expectations
      BY DEF MocksInv, MocksTypeOK, Ended, Live
    <3>2. \A t \in Threads : checked[t] = {}
      BY DEF Ended, Free
    <3> QED
      BY <3>1, <3>2 DEF VerifiedFit
  <2>2. failures = Cardinality(RefusedCalls) + Cardinality(EarlyCalls) + Cardinality(Unmet)
    <3>1. Cardinality(reporting) = 0 /\ failures \in Nat
      <4>1. reporting = {}
        BY <2>1 DEF Ended, Free, MocksTypeOK
      <4> QED
        BY <2>1, <4>1, FS_EmptySet DEF MocksTypeOK
    <3> QED
      BY <3>1 DEF FailuresFit
  <2> QED
    BY <2>1, <2>2 DEF EachFailureOnce, RefusedCalls, EarlyCalls, ComesEarly, Unmet, Now
<1> QED
  BY <1>1, <1>2, NextFailures, MocksInvariant, PTL DEF Spec
=============================================================================
