------------------------- MODULE SchedulerClient_proof -------------------------
(***************************************************************************)
(* Proofs about SchedulerClient: whatever the client does, the scheduler   *)
(* stays consistent, admits in the order of arrival and only on a decision *)
(* that is still the one it would make, and ends a request for good.       *)
(***************************************************************************)
EXTENDS SchedulerClient, FcfsScheduler_proof

\* The decision held is the one the scheduler made at basis, and the epoch tells
\* whether anything has been notified since.
EpochTells ==
  held # None =>
    /\ basis \in Scheduler /\ held = ChooseNextRequest(basis)
    /\ basis.epoch <= sched.epoch
    /\ basis.epoch = sched.epoch => basis = sched

Inv ==
  /\ TypeOK
  /\ SchedulerInv(sched)
  /\ EpochTells

-----------------------------------------------------------------------------
(* The invariant is inductive *)

LEMMA ClockInRange == 0 .. MaxTime \subseteq Time
BY MaxTimeAssumption, IntMaxAssumption DEF Time

LEMMA Initially == Init => Inv
<1> SUFFICES ASSUME Init PROVE Inv
  OBVIOUS
<1>1. sched = EmptyScheduler /\ now = 0 /\ held = None /\ basis = None /\ outcome = "ok"
  BY DEF Init
<1>2. TypeOK
  BY <1>1, EmptyKept, MaxTimeAssumption, IntMaxAssumption DEF TypeOK, Time
<1>3. QED
  BY <1>1, <1>2, EmptyKept DEF Inv, EpochTells

\* A notification leaves the decision held up to date or makes it stale for good.
LEMMA StaleOrSame ==
  ASSUME Inv, NEW r, held' = held, basis' = basis, sched' \in Scheduler,
         sched' = sched \/ Changed(sched, sched', r)
  PROVE  EpochTells'
<1>1. CASE held = None \/ sched' = sched
  BY <1>1 DEF Inv, EpochTells
<1>2. CASE held # None /\ Changed(sched, sched', r)
  <2>1. /\ basis \in Scheduler /\ held = ChooseNextRequest(basis)
        /\ basis.epoch <= sched.epoch
    BY <1>2 DEF Inv, EpochTells
  <2>2. basis.epoch \in Nat /\ sched.epoch \in Nat
    BY <2>1, SchedulerAssumption DEF Inv, TypeOK, Scheduler, Count
  <2>3. sched'.epoch = sched.epoch + 1
    BY <1>2 DEF Changed
  <2>4. basis.epoch <= sched'.epoch /\ basis.epoch # sched'.epoch
    BY <2>1, <2>2, <2>3
  <2>5. QED
    BY <2>1, <2>4 DEF EpochTells
<1>3. QED
  BY <1>1, <1>2

LEMMA InvariantKept == Inv /\ [Next]_vars => Inv'
<1> SUFFICES ASSUME Inv, [Next]_vars PROVE Inv'
  OBVIOUS
<1> USE DEF Take
<1>1. /\ SchedulerInv(sched) /\ sched \in Scheduler /\ now \in Time
      /\ now \in 0 .. MaxTime /\ held \in Decision \cup {None}
      /\ basis \in Scheduler \cup {None} /\ outcome \in Outcomes
  BY ClockInRange DEF Inv, TypeOK, Outcomes
\* A notification: the scheduler it leaves keeps the invariant.
<1>2. ASSUME SchedulerInv(sched'), outcome' \in Outcomes, NEW r,
             sched' = sched \/ Changed(sched, sched', r), UNCHANGED <<now, held, basis>>
      PROVE  Inv'
  <2>1. sched' \in Scheduler
    BY <1>2 DEF SchedulerInv
  <2>2. TypeOK'
    BY <1>1, <1>2, <2>1 DEF TypeOK, Outcomes
  <2>3. EpochTells'
    BY <1>2, <2>1, StaleOrSame
  <2>4. QED
    BY <1>2, <2>2, <2>3 DEF Inv
<1>3. ASSUME NEW r \in Requests, NEW arrival \in 0 .. MaxTime, Arrive(r, arrival)
      PROVE  Inv'
  <2>1. arrival \in Time
    BY ClockInRange
  <2>2. SchedulerInv(sched')
    BY <1>1, <1>3, <2>1, ArrivalKeeps DEF Arrive
  <2>3. outcome' \in Outcomes /\ (sched' = sched \/ Changed(sched, sched', r))
    BY <1>1, <1>3, ArrivalChanges DEF Arrive
  <2>4. QED
    BY <1>2, <1>3, <2>2, <2>3 DEF Arrive
<1>4. CASE Choose
  <2>1. /\ held' \in Decision /\ held' # None /\ held' = ChooseNextRequest(sched)
        /\ basis' = sched /\ UNCHANGED <<sched, now, outcome>>
    BY <1>1, <1>4, DecisionOK DEF Choose
  <2>2. sched.epoch \in Nat
    BY <1>1, SchedulerAssumption DEF Scheduler, Count
  <2>3. TypeOK'
    BY <1>1, <2>1 DEF TypeOK, Outcomes
  <2>4. EpochTells'
    BY <1>1, <2>1, <2>2 DEF EpochTells
  <2>5. SchedulerInv(sched')
    BY <1>1, <2>1
  <2>6. QED
    BY <2>3, <2>4, <2>5 DEF Inv
<1>5. CASE Admit
  <2>1. SchedulerInv(sched')
    BY <1>1, <1>5, AdmissionKeeps DEF Admit
  <2>2. /\ outcome' \in Outcomes
        /\ sched' = sched \/ Changed(sched, sched', held.id)
    BY <1>1, <1>5, AdmissionChanges DEF Admit
  <2>3. QED
    BY <1>2, <1>5, <2>1, <2>2 DEF Admit
<1>6. ASSUME NEW r \in Requests, Complete(r)
      PROVE  Inv'
  <2>1. SchedulerInv(sched')
    BY <1>1, <1>6, CompletionKeeps DEF Complete
  <2>2. outcome' \in Outcomes /\ (sched' = sched \/ Changed(sched, sched', r))
    BY <1>1, <1>6, CompletionChanges DEF Complete
  <2>3. QED
    BY <1>2, <1>6, <2>1, <2>2 DEF Complete
<1>7. ASSUME NEW r \in Requests, Cancel(r)
      PROVE  Inv'
  <2>1. SchedulerInv(sched')
    BY <1>1, <1>7, CancellationKeeps DEF Cancel
  <2>2. outcome' \in Outcomes /\ (sched' = sched \/ Changed(sched, sched', r))
    BY <1>1, <1>7, CancellationChanges DEF Cancel
  <2>3. QED
    BY <1>2, <1>7, <2>1, <2>2 DEF Cancel
<1>8. CASE Tick
  <2>1. now' \in 0 .. MaxTime /\ UNCHANGED <<sched, held, basis, outcome>>
    BY <1>1, <1>8, MaxTimeAssumption, IntMaxAssumption DEF Tick, Time
  <2>2. TypeOK' /\ EpochTells' /\ SchedulerInv(sched')
    BY <1>1, <2>1 DEF Inv, TypeOK, EpochTells
  <2>3. QED
    BY <2>2 DEF Inv
<1>9. CASE UNCHANGED vars
  BY <1>9 DEF vars, Inv, TypeOK, EpochTells
<1>10. QED
  BY <1>3, <1>4, <1>5, <1>6, <1>7, <1>8, <1>9 DEF Next

LEMMA Invariance == Spec => []Inv
BY Initially, InvariantKept, PTL DEF Spec

-----------------------------------------------------------------------------
(* What holds in every state *)

\* The state of the client and of its scheduler has the types of the program: no
\* counter and no waiting time leaves its range (src/serving/fcfs_scheduler.cpp).
THEOREM TypesKept == Spec => []TypeOK
BY Invariance, PTL DEF Inv

\* The waiting set, the running count, the statistics and the epoch always agree with
\* the entries, and no more than max_active_requests_ run, whatever the client reports.
THEOREM ViewsAgreeing == Spec => []ViewsAgree
<1>1. Inv => ViewsAgree
  BY DEF Inv, SchedulerInv, ViewsAgree
<1>2. QED
  BY <1>1, Invariance, PTL

-----------------------------------------------------------------------------
(* What no step does *)

\* Only an admission takes a request from the queue and lets it run, and it is then the
\* first of the queue, chosen by the decision held, with nothing notified in between.
LEMMA OnlyTheFirstStarts ==
  ASSUME Inv, [Next]_vars, NEW r \in InState(sched, "Waiting") \cap InState(sched', "Running")
  PROVE  /\ basis = sched
         /\ sched.waiting # {} /\ FirstWaiting(sched.waiting) = KeyOf(sched, r)
<1> USE DEF Take
<1>1. /\ SchedulerInv(sched) /\ sched \in Scheduler /\ now \in Time
      /\ sched.waiting = {KeyOf(sched, q) : q \in InState(sched, "Waiting")}
  BY ClockInRange DEF Inv, TypeOK, SchedulerInv, Consistent
<1>2. /\ r \in Requests /\ r \in Known(sched) /\ sched.entries[r].state = "Waiting"
      /\ sched'.entries[r].state = "Running"
  BY DEF InState, Known
\* A notification about q that finds it in another state than "Waiting" starts nothing.
<1>3. ASSUME NEW q \in Requests, sched' = sched \/ Changed(sched, sched', q), q # r
      PROVE  FALSE
  <2>1. sched'.entries[r] = sched.entries[r]
    BY <1>2, <1>3 DEF Changed
  <2>2. QED
    BY <1>2, <2>1
<1>4. ASSUME NEW q \in Requests, NEW arrival \in 0 .. MaxTime, Arrive(q, arrival)
      PROVE  FALSE
  <2>1. sched' = sched \/ (q \notin Known(sched) /\ Changed(sched, sched', q))
    BY <1>1, <1>4, ArrivalChanges DEF Arrive
  <2>2. QED
    BY <1>2, <1>3, <2>1
<1>5. ASSUME NEW q \in Requests, Complete(q)
      PROVE  FALSE
  <2>1. sched' = sched \/ (q \in InState(sched, "Running") /\ Changed(sched, sched', q))
    BY <1>1, <1>5, CompletionChanges DEF Complete
  <2>2. r \notin InState(sched, "Running")
    BY <1>2 DEF InState
  <2>3. QED
    BY <1>2, <1>3, <2>1, <2>2
<1>6. ASSUME NEW q \in Requests, Cancel(q)
      PROVE  FALSE
  <2>1. \/ sched' = sched
        \/ Changed(sched, sched', q) /\ q \notin InState(sched', "Running")
    BY <1>1, <1>6, CancellationChanges DEF Cancel
  <2>2. r \in InState(sched', "Running")
    OBVIOUS
  <2>3. QED
    BY <1>2, <1>3, <2>1, <2>2
<1>7. ASSUME UNCHANGED sched
      PROVE  FALSE
  BY <1>2, <1>7
<1>8. CASE Admit
  <2>1. /\ AdmissionJustified(sched, held, now) /\ Changed(sched, sched', held.id)
        /\ held # None
    BY <1>1, <1>7, <1>8, AdmissionChanges DEF Admit
  <2>2. held.id = r
    BY <1>2, <2>1 DEF Changed
  <2>3. /\ held.epoch = sched.epoch /\ sched.waiting # {}
        /\ FirstWaiting(sched.waiting).id = r
    BY <2>1, <2>2 DEF AdmissionJustified
  <2>4. basis = sched
    <3>1. /\ basis \in Scheduler /\ held = ChooseNextRequest(basis)
          /\ basis.epoch = sched.epoch => basis = sched
      BY <2>1 DEF Inv, EpochTells
    <3>2. QED
      BY <2>3, <3>1, DecisionOK
  <2>5. FirstWaiting(sched.waiting) = KeyOf(sched, r)
    <3>1. sched.waiting \subseteq WaitingKey
      BY <1>1 DEF Scheduler
    <3>2. FirstWaiting(sched.waiting) \in sched.waiting
      BY <2>3, <3>1, FirstWaitingIsLeast
    <3>3. PICK q \in InState(sched, "Waiting") : FirstWaiting(sched.waiting) = KeyOf(sched, q)
      BY <1>1, <3>2
    <3>4. q = r
      BY <2>3, <3>3 DEF KeyOf
    <3>5. QED
      BY <3>3, <3>4
  <2>6. QED
    BY <2>3, <2>4, <2>5
<1>9. QED
  BY <1>4, <1>5, <1>6, <1>7, <1>8 DEF Next, Choose, Tick, vars

\* NotifyAdmitted commits a decision only on the very scheduler that made it.
THEOREM FreshDecisions == Spec => DecisionsAreFresh
<1>1. Inv /\ [Next]_vars =>
        [InState(sched, "Waiting") \cap InState(sched', "Running") # {} => basis = sched]_vars
  BY OnlyTheFirstStarts
<1>2. QED
  BY <1>1, Invariance, PTL DEF Spec, DecisionsAreFresh

\* The request that starts precedes every other one that waits (WaitingKeyLess).
THEOREM InOrderOfArrival == Spec => FirstComeFirstServed
<1>1. ASSUME Inv, [Next]_vars,
             NEW r \in InState(sched, "Waiting") \cap InState(sched', "Running"),
             NEW other \in InState(sched, "Waiting") \ {r}
      PROVE  KeyLess(KeyOf(sched, r), KeyOf(sched, other))
  <2>1. sched.waiting # {} /\ FirstWaiting(sched.waiting) = KeyOf(sched, r)
    BY <1>1, OnlyTheFirstStarts
  <2>2. /\ sched.waiting \subseteq WaitingKey
        /\ sched.waiting = {KeyOf(sched, q) : q \in InState(sched, "Waiting")}
    BY <1>1 DEF Inv, SchedulerInv, Scheduler, Consistent
  <2>3. KeyOf(sched, other) \in sched.waiting /\ KeyOf(sched, other) # KeyOf(sched, r)
    BY <2>2 DEF KeyOf
  <2>4. QED
    BY <2>1, <2>2, <2>3, FirstWaitingIsLeast
<1>2. Inv /\ [Next]_vars =>
        [\A r \in InState(sched, "Waiting") \cap InState(sched', "Running") :
           \A other \in InState(sched, "Waiting") \ {r} :
             KeyLess(KeyOf(sched, r), KeyOf(sched, other))]_vars
  BY <1>1
<1>3. QED
  BY <1>2, Invariance, PTL DEF Spec, FirstComeFirstServed

\* No notification touches the entry of a request that was cancelled or has completed.
THEOREM EndsAreFinal == Spec => EndedForGood
<1>1. ASSUME Inv, [Next]_vars,
             NEW r \in InState(sched, "Cancelled") \cup InState(sched, "Completed")
      PROVE  sched'.entries[r] = sched.entries[r]
  <2> USE DEF Take
  <2>1. sched \in Scheduler /\ now \in Time
    BY <1>1, ClockInRange DEF Inv, TypeOK
  <2>2. /\ r \in Requests /\ r \in Known(sched)
        /\ sched.entries[r].state \in {"Cancelled", "Completed"}
    BY DEF InState, Known
  <2>3. ASSUME NEW q, sched' = sched \/ Changed(sched, sched', q), q # r
        PROVE  sched'.entries[r] = sched.entries[r]
    BY <2>2, <2>3 DEF Changed
  <2>4. ASSUME NEW q \in Requests, NEW arrival \in 0 .. MaxTime, Arrive(q, arrival)
        PROVE  sched'.entries[r] = sched.entries[r]
    <3>1. sched' = sched \/ (q \notin Known(sched) /\ Changed(sched, sched', q))
      BY <2>1, <2>4, ArrivalChanges DEF Arrive
    <3>2. QED
      BY <2>2, <2>3, <3>1
  <2>5. ASSUME Admit
        PROVE  sched'.entries[r] = sched.entries[r]
    <3>1. \/ sched' = sched
          \/ AdmissionJustified(sched, held, now) /\ Changed(sched, sched', held.id)
      BY <2>1, <2>5, AdmissionChanges DEF Admit
    <3>2. AdmissionJustified(sched, held, now) => held.id # r
      BY <2>2 DEF AdmissionJustified
    <3>3. QED
      BY <2>3, <3>1, <3>2
  <2>6. ASSUME NEW q \in Requests, Complete(q)
        PROVE  sched'.entries[r] = sched.entries[r]
    <3>1. sched' = sched \/ (q \in InState(sched, "Running") /\ Changed(sched, sched', q))
      BY <2>1, <2>6, CompletionChanges DEF Complete
    <3>2. r \notin InState(sched, "Running")
      BY <2>2 DEF InState
    <3>3. QED
      BY <2>3, <3>1, <3>2
  <2>7. ASSUME NEW q \in Requests, Cancel(q)
        PROVE  sched'.entries[r] = sched.entries[r]
    <3>1. \/ sched' = sched
          \/ /\ q \notin InState(sched, "Cancelled") \cup InState(sched, "Completed")
             /\ Changed(sched, sched', q)
      BY <2>1, <2>7, CancellationChanges DEF Cancel
    <3>2. QED
      BY <2>3, <3>1
  <2>8. QED
    BY <1>1, <2>4, <2>5, <2>6, <2>7 DEF Next, Choose, Tick, vars
<1>2. Inv /\ [Next]_vars =>
        [\A r \in InState(sched, "Cancelled") \cup InState(sched, "Completed") :
           sched'.entries[r] = sched.entries[r]]_vars
  BY <1>1
<1>3. QED
  BY <1>2, Invariance, PTL DEF Spec, EndedForGood

=============================================================================
