-------------------------- MODULE MCSchedulerClient --------------------------
(* Small instances of SchedulerClient for TLC. *)
EXTENDS SchedulerClient
=============================================================================
