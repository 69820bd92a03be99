------------------------------ MODULE MCBenchRun ------------------------------
(* Small instances of BenchRun for TLC. *)
EXTENDS BenchRun

CONSTANTS w1, m1, m2

OnePlan  == {<<w1, m1>>}
TwoPlans == {<<w1, m1>>, <<m1, m2>>}
=============================================================================
