--------------------------- MODULE RequestLifecycle ---------------------------
(***************************************************************************)
(* The request state machine of src/serving/request.cpp, shared by both    *)
(* engines.                                                                *)
(***************************************************************************)

RequestState ==
  {"Waiting", "Prefilling", "Decoding", "Finished", "Cancelled", "Preempted"}

\* is_legal_transition, as the states a state may be followed by.
Successors ==
  [ Waiting    |-> {"Prefilling", "Cancelled"},
    Prefilling |-> {"Decoding", "Finished", "Preempted", "Cancelled"},
    Decoding   |-> {"Finished", "Preempted", "Cancelled"},
    Preempted  |-> {"Waiting", "Cancelled"},
    Finished   |-> {},
    Cancelled  |-> {} ]

Terminal == {s \in RequestState : Successors[s] = {}}

\* Whether transition_to(next) is accepted by a request with this output limit.
MayBecome(state, next, limit) ==
  /\ next \in Successors[state]
  /\ state = "Prefilling" /\ next = "Finished" => limit = 0
=============================================================================
