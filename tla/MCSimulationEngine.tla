------------------------- MODULE MCSimulationEngine -------------------------
(* Small instances of SimulationEngine for TLC. *)
EXTENDS SimulationEngine

S(arrival, prompt, limit) == [arrival |-> arrival, prompt |-> prompt, limit |-> limit]

\* Short and long services, one without output, at the start and later.
Mixed == {S(0, 1, 2), S(2, 2, 1), S(2, 0, 0)}
=============================================================================
