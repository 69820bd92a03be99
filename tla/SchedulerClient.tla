---------------------------- MODULE SchedulerClient ----------------------------
(***************************************************************************)
(* A client of one FcfsScheduler that uses the interface in any order: it  *)
(* may ask for a decision and commit it only after other notifications,    *)
(* and may report arrivals early, late or twice.                           *)
(***************************************************************************)
EXTENDS FcfsScheduler

CONSTANTS
  MaxTime  \* bound: the client's clock stops here

ASSUME MaxTimeAssumption == MaxTime \in Time

VARIABLES
  sched,    \* the scheduler
  now,      \* the client's clock
  held,     \* the decision the client holds, or None
  basis,    \* history: the scheduler when the held decision was made
  outcome   \* how the last notification ended

vars == <<sched, now, held, basis, outcome>>

Init ==
  /\ sched = EmptyScheduler
  /\ now = 0
  /\ held = None
  /\ basis = None
  /\ outcome = "ok"

Take(reply) == sched' = reply.sched /\ outcome' = reply.outcome

Arrive(r, arrival) ==
  /\ Take(NotifyArrival(sched, r, arrival))
  /\ UNCHANGED <<now, held, basis>>

Choose ==
  /\ held' = ChooseNextRequest(sched)
  /\ basis' = sched
  /\ UNCHANGED <<sched, now, outcome>>

Admit ==
  /\ held # None
  /\ Take(NotifyAdmitted(sched, held, now))
  /\ UNCHANGED <<now, held, basis>>

Complete(r) ==
  /\ Take(NotifyCompleted(sched, r, now))
  /\ UNCHANGED <<now, held, basis>>

Cancel(r) ==
  /\ Take(NotifyCancelled(sched, r, now))
  /\ UNCHANGED <<now, held, basis>>

Tick ==
  /\ now < MaxTime
  /\ now' = now + 1
  /\ UNCHANGED <<sched, held, basis, outcome>>

Next ==
  \/ \E r \in Requests, arrival \in 0 .. MaxTime : Arrive(r, arrival)
  \/ Choose
  \/ Admit
  \/ \E r \in Requests : Complete(r) \/ Cancel(r)
  \/ Tick

Spec == Init /\ [][Next]_vars

-----------------------------------------------------------------------------
(* Properties *)

TypeOK ==
  /\ sched \in Scheduler
  /\ now \in 0 .. MaxTime
  /\ held \in Decision \cup {None}
  /\ basis \in Scheduler \cup {None}
  /\ outcome \in {"ok", "logic_error", "overflow"}

\* The redundant views of the scheduler agree: the ordered waiting set and the
\* running count with the entries, every statistic with what happened to the
\* requests, and the epoch with the number of notifications accepted; and never
\* more requests run than the capacity allows.
ViewsAgree == Consistent(sched)

\* A request overtakes none that waits with an earlier arrival, nor one that
\* arrived at the same time with a smaller id.
FirstComeFirstServed ==
  [][\A r \in InState(sched, "Waiting") \cap InState(sched', "Running") :
       \A other \in InState(sched, "Waiting") \ {r} :
         KeyLess(KeyOf(sched, r), KeyOf(sched, other))]_vars

\* A decision is committed only while the scheduler is exactly as it was when
\* the decision was made: no notification slips in between unnoticed.
DecisionsAreFresh ==
  [][InState(sched, "Waiting") \cap InState(sched', "Running") # {}
       => basis = sched]_vars

\* A request is cancelled or completed for good, and one cancelled before its
\* arrival never joins the queue.
EndedForGood ==
  [][\A r \in InState(sched, "Cancelled") \cup InState(sched, "Completed") :
       sched'.entries[r] = sched.entries[r]]_vars
=============================================================================
