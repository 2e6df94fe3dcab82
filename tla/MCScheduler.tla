---------------------------- MODULE MCScheduler -----------------------------
(***************************************************************************)
(* Small plans for TLC.  The tests a .. e and the slots w1 .. w3 are model *)
(* values; each .cfg puts a plan, ways the tests end and options together. *)
(***************************************************************************)
EXTENDS SchedulerProperties

CONSTANTS a, b, c, d, e, w1, w2, w3

SlotSymmetry == Permutations(Slots)

\* Plans.
OrderAB == <<a, b>>
OrderABC == <<a, b, c>>
OrderABCD == <<a, b, c, d>>
OrderABCDE == <<a, b, c, d, e>>
Independent == [t \in Tests |-> {}]
BAfterA == (b :> {a}) @@ Independent
CAfterAD == (c :> {a, d}) @@ Independent
NoReplay == [t \in Tests |-> <<>>]
ReplayAB == (b :> <<a>>) @@ NoReplay
NoResources == [t \in Catalog |-> {}]
SharedByAB == (a :> {"r"}) @@ (b :> {"r"}) @@ NoResources
HeldByA == (a :> {"r"}) @@ (c :> {"r"}) @@ NoResources
OneRetry == [t \in Tests |-> 1]
NoRetryOfC == (c :> 0) @@ OneRetry
TwoRetries == [t \in Tests |-> 2]

\* What tests leave behind, and how they end.
NoPolluters == [t \in Catalog |-> {}]
APollutesB == (b :> {a}) @@ NoPolluters
CPollutesE == (e :> {c}) @@ NoPolluters
APollutesC == (c :> {a}) @@ NoPolluters
Pass == [t \in Catalog |-> {"passed"}]
EFails == (e :> {"failed"}) @@ Pass
BFails == (b :> {"failed"}) @@ Pass
PassOrFail == [t \in Catalog |-> {"passed", "failed"}]
ACrashesBFails == (a :> {"passed", "crash"}) @@ (b :> {"passed", "failed"}) @@ Pass
PassOrCrash == [t \in Catalog |-> {"passed", "crash"}]
AFatalBHang == (a :> {"fatal", "passed"}) @@ (b :> {"hang", "passed"}) @@ Pass
AFatalCHang == (a :> {"fatal", "passed"}) @@ (c :> {"hang", "passed"}) @@ Pass
AFatalBFailsCHang == (b :> {"failed", "passed"}) @@ AFatalCHang
ACrashes == (a :> {"crash"}) @@ Pass
AMayHang == (a :> {"passed", "hang"}) @@ Pass
AMayCrash == (a :> {"passed", "crash"}) @@ Pass
AMayCrashCFails == (c :> {"failed"}) @@ AMayCrash
AMayHangBFails == (b :> {"failed"}) @@ AMayHang
=============================================================================
