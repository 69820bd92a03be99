---------------------------- MODULE FcfsScheduler ----------------------------
(***************************************************************************)
(* src/serving/fcfs_scheduler.cpp as operations on a scheduler VALUE.  A   *)
(* call that throws leaves the scheduler as it was, so an operation yields *)
(*                                                                         *)
(*     [outcome |-> how the call ended, sched |-> the scheduler afterwards]*)
(*                                                                         *)
(* Times are non-negative (the calls reject others before anything else).  *)
(***************************************************************************)
EXTENDS CheckedMath, FiniteSets, FiniteSetsExt

CONSTANTS
  Requests,      \* request ids, numbers: ties between arrivals go by id
  MaxActive,     \* max_active_requests_
  CounterLimit,  \* the largest value of a 64-bit counter
  None           \* std::nullopt

ASSUME SchedulerAssumption ==
  /\ Requests \subseteq Nat
  /\ MaxActive \in Nat \ {0}
  /\ CounterLimit \in Nat
  /\ None \notin Int

Time == 0 .. IntMax
Count == 0 .. CounterLimit

WaitingKey == [arrival : Time, id : Requests]

EntryState == {"Waiting", "Running", "Completed", "Cancelled"}
Entry == [ arrival  : Time,              \* arrival_time_us
           state    : EntryState,
           arrived  : BOOLEAN,           \* has_arrived
           admitted : Time \cup {None} ] \* admitted_time_us

Decision == [ kind  : {"Admit", "NoWork", "CapacityFull"},
              id    : Requests \cup {None},
              epoch : Count ]

Scheduler ==
  [ waiting   : SUBSET WaitingKey,
    entries   : [Requests -> Entry \cup {None}],
    running   : Count,
    epoch     : Count,
    arrived   : Count,    \* the statistics, *_request_count
    admitted  : Count,
    completed : Count,
    cancelled : Count,
    depth     : Count,    \* maximum_waiting_queue_depth
    waited    : Machine ] \* total_queue_wait_time_us

\* std::nullopt is neither an entry nor a decision.
ASSUME EntryAssumption == None \notin Entry \cup Decision

EmptyScheduler ==
  [ waiting |-> {}, entries |-> [r \in Requests |-> None], running |-> 0,
    epoch |-> 0, arrived |-> 0, admitted |-> 0, completed |-> 0, cancelled |-> 0,
    depth |-> 0, waited |-> 0 ]

\* Defect: a request cancelled before its arrival is forgotten.
KnownOnceArrived(s) == {r \in Requests : s.entries[r] # None /\ s.entries[r].arrived}
Known(s) == {r \in Requests : s.entries[r] # None}
InState(s, state) ==
  {r \in Requests : s.entries[r] # None /\ s.entries[r].state = state}

KeyOf(s, r) == [arrival |-> s.entries[r].arrival, id |-> r]

\* WaitingKeyLess
KeyLess(lhs, rhs) ==
  \/ lhs.arrival < rhs.arrival
  \/ lhs.arrival = rhs.arrival /\ lhs.id < rhs.id

\* Defect: the queue is ordered by id alone.
FirstWaitingById(waiting) ==
  CHOOSE key \in waiting : \A other \in waiting \ {key} : key.id < other.id
FirstWaiting(waiting) ==
  CHOOSE key \in waiting : \A other \in waiting \ {key} : KeyLess(key, other)

Rejected(s, outcome) == [outcome |-> outcome, sched |-> s]
Accepted(s) == [outcome |-> "ok", sched |-> s]

\* Defect: the epoch is not checked.
CounterExhausted(s, counter) == counter = CounterLimit
\* A notification bumps the epoch and one counter; one of them is at its limit.
Exhausted(s, counter) == CounterLimit \in {counter, s.epoch}

-----------------------------------------------------------------------------
(* The interface *)

NotifyArrival(s, r, arrival) ==
  LET waiting == s.waiting \cup {[arrival |-> arrival, id |-> r]}
  IN  IF r \in Known(s) THEN Rejected(s, "logic_error")
      ELSE IF Exhausted(s, s.arrived) THEN Rejected(s, "overflow")
      ELSE Accepted([s EXCEPT
             !.waiting = waiting,
             !.entries[r] = [arrival |-> arrival, state |-> "Waiting",
                             arrived |-> TRUE, admitted |-> None],
             !.arrived = @ + 1,
             !.depth = Max({@, Cardinality(waiting)}),
             !.epoch = @ + 1])

ChooseNextRequest(s) ==
  IF s.waiting = {}
  THEN [kind |-> "NoWork", id |-> None, epoch |-> s.epoch]
  ELSE IF s.running >= MaxActive
  THEN [kind |-> "CapacityFull", id |-> None, epoch |-> s.epoch]
  ELSE [kind |-> "Admit", id |-> FirstWaiting(s.waiting).id, epoch |-> s.epoch]

\* Defect: a decision made before other notifications is accepted.
AdmissionJustifiedIfHead(s, decision, now) ==
  LET r == decision.id
  IN  /\ decision.kind = "Admit"
      /\ s.waiting # {} /\ FirstWaiting(s.waiting).id = r
      /\ s.entries[r].state = "Waiting"
      /\ s.running < MaxActive
      /\ now >= s.entries[r].arrival

\* A decision is committed only if it is still the one that would be made.
AdmissionJustified(s, decision, now) ==
  LET r == decision.id
  IN  /\ decision.kind = "Admit" /\ decision.epoch = s.epoch
      /\ s.waiting # {} /\ FirstWaiting(s.waiting).id = r
      /\ r \in Known(s) /\ s.entries[r].arrived /\ s.entries[r].state = "Waiting"
      /\ s.running < MaxActive
      /\ now >= s.entries[r].arrival
      /\ KeyOf(s, r) \in s.waiting

NotifyAdmitted(s, decision, now) ==
  LET r == decision.id
      waited == CheckedAdd(s.waited, now - s.entries[r].arrival)
  IN  IF ~AdmissionJustified(s, decision, now) THEN Rejected(s, "logic_error")
      ELSE IF waited = Overflow \/ Exhausted(s, s.admitted) THEN Rejected(s, "overflow")
      ELSE Accepted([s EXCEPT
             !.waiting = @ \ {KeyOf(s, r)},
             !.entries[r] = [@ EXCEPT !.state = "Running", !.admitted = now],
             !.running = @ + 1,
             !.admitted = @ + 1,
             !.waited = waited,
             !.epoch = @ + 1])

\* Defect: any known request may complete.
CompletionJustifiedIfKnown(s, r, now) == r \in Known(s) /\ s.running # 0

CompletionJustified(s, r, now) ==
  /\ r \in Known(s) /\ s.entries[r].state = "Running" /\ s.running # 0
  /\ s.entries[r].admitted # None /\ now >= s.entries[r].admitted

NotifyCompleted(s, r, now) ==
  IF ~CompletionJustified(s, r, now) THEN Rejected(s, "logic_error")
  ELSE IF Exhausted(s, s.completed) THEN Rejected(s, "overflow")
  ELSE Accepted([s EXCEPT
         !.entries[r].state = "Completed",
         !.running = @ - 1,
         !.completed = @ + 1,
         !.epoch = @ + 1])

\* A request may be cancelled before it arrives: the entry then only blocks a
\* later arrival.
NotifyCancelled(s, r, now) ==
  LET entry == s.entries[r]
      waiting == entry.state = "Waiting"
      earliest == IF waiting THEN entry.arrival ELSE entry.admitted
      justified ==
        /\ entry.state \in {"Waiting", "Running"}
        /\ earliest # None /\ now >= earliest
        /\ IF waiting THEN KeyOf(s, r) \in s.waiting ELSE s.running # 0
  IN  IF Exhausted(s, s.cancelled) THEN Rejected(s, "overflow")
      ELSE IF r \notin Known(s)
      THEN Accepted([s EXCEPT
             !.entries[r] = [arrival |-> now, state |-> "Cancelled",
                             arrived |-> FALSE, admitted |-> None],
             !.cancelled = @ + 1,
             !.epoch = @ + 1])
      ELSE IF ~justified THEN Rejected(s, "logic_error")
      ELSE Accepted([s EXCEPT
             !.waiting = IF waiting THEN @ \ {KeyOf(s, r)} ELSE @,
             !.running = IF waiting THEN @ ELSE @ - 1,
             !.entries[r].state = "Cancelled",
             !.cancelled = @ + 1,
             !.epoch = @ + 1])

-----------------------------------------------------------------------------
(* Correctness *)

HaveArrived(s) == {r \in Known(s) : s.entries[r].arrived}
WereAdmitted(s) == {r \in Known(s) : s.entries[r].admitted # None}

\* Each microsecond that a request, admitted since, has spent in the queue.
QueueTime(s) ==
  {w \in WereAdmitted(s) \X Time :
     s.entries[w[1]].arrival <= w[2] /\ w[2] < s.entries[w[1]].admitted}

Consistent(s) ==
  /\ s.waiting = {KeyOf(s, r) : r \in InState(s, "Waiting")}
  /\ s.running = Cardinality(InState(s, "Running"))
  /\ s.running <= MaxActive
  /\ s.arrived = Cardinality(HaveArrived(s))
  /\ s.admitted = Cardinality(WereAdmitted(s))
  /\ s.completed = Cardinality(InState(s, "Completed"))
  /\ s.cancelled = Cardinality(InState(s, "Cancelled"))
  /\ s.waited = Cardinality(QueueTime(s))
  /\ s.depth >= Cardinality(s.waiting)
  /\ s.epoch = s.arrived + s.admitted + s.completed + s.cancelled
=============================================================================
