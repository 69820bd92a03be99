-------------------------- MODULE FcfsScheduler_proof --------------------------
(***************************************************************************)
(* Lemmas about the operations of FcfsScheduler: what each of them makes   *)
(* of a scheduler, and that a consistent scheduler stays consistent, for   *)
(* any requests, capacity and limits of the numbers.                       *)
(***************************************************************************)
EXTENDS FcfsScheduler, FiniteSetTheorems, WellFoundedInduction, TLAPS

\* What the entry of a request must say for the operations to work.
EntriesOK(s) ==
  \A r \in Known(s) : LET entry == s.entries[r] IN
    /\ entry.state = "Waiting" => entry.arrived /\ entry.admitted = None
    /\ entry.state = "Running" => entry.admitted # None

SchedulerInv(s) ==
  /\ s \in Scheduler
  /\ IsFiniteSet(Known(s))
  /\ EntriesOK(s)
  /\ Consistent(s)

-----------------------------------------------------------------------------
(* Numbers and sets *)

LEMMA LeastNatural ==
  ASSUME NEW S, S \subseteq Nat, S # {}
  PROVE  \E m \in S : \A n \in S : m <= n
<1>1. \E m \in S : \A n \in S : <<n, m>> \notin OpToRel(<, Nat)
  BY NatLessThanWellFounded, WFMin, Zenon
<1>2. \A m, n \in Nat : n < m => <<n, m>> \in OpToRel(<, Nat)
  BY Zenon DEF OpToRel
<1>3. \E m \in S : \A n \in S : ~(n < m)
  BY <1>1, <1>2, Zenon
<1>4. QED
  BY <1>3

LEMMA MaxOfTwo ==
  ASSUME NEW a \in Int, NEW b \in Int
  PROVE  Max({a, b}) \in {a, b} /\ Max({a, b}) >= a /\ Max({a, b}) >= b
<1>1. \E x \in {a, b} : \A y \in {a, b} : x >= y
  <2>1. CASE a >= b
    BY <2>1
  <2>2. CASE ~(a >= b)
    BY <2>2
  <2>3. QED
    BY <2>1, <2>2
<1>2. QED
  BY <1>1 DEF Max

LEMMA OneMore ==
  ASSUME NEW S, IsFiniteSet(S), NEW x, NEW T, T = S \cup {x}
  PROVE  /\ IsFiniteSet(T) /\ Cardinality(S) \in Nat /\ Cardinality(T) \in Nat
         /\ Cardinality(T) = IF x \in S THEN Cardinality(S) ELSE Cardinality(S) + 1
<1>1. /\ IsFiniteSet(S \cup {x})
      /\ Cardinality(S \cup {x}) = IF x \in S THEN Cardinality(S) ELSE Cardinality(S) + 1
  BY FS_AddElement, Zenon
<1>2. QED
  BY <1>1, FS_CardinalityType, Zenon

LEMMA OneLess ==
  ASSUME NEW S, IsFiniteSet(S), NEW x, NEW T, T = S \ {x}
  PROVE  /\ IsFiniteSet(T) /\ Cardinality(S) \in Nat /\ Cardinality(T) \in Nat
         /\ Cardinality(T) = IF x \in S THEN Cardinality(S) - 1 ELSE Cardinality(S)
<1>1. /\ IsFiniteSet(S \ {x})
      /\ Cardinality(S \ {x}) = IF x \in S THEN Cardinality(S) - 1 ELSE Cardinality(S)
  BY FS_RemoveElement, Zenon
<1>2. QED
  BY <1>1, FS_CardinalityType, Zenon

LEMMA CheckedAddIsExact ==
  ASSUME NEW lhs \in Machine, NEW rhs \in Machine
  PROVE  CheckedAdd(lhs, rhs) =
           IF lhs + rhs \in Machine THEN lhs + rhs ELSE Overflow
BY IntMaxAssumption DEF CheckedAdd, AddOverflows, Machine, IntMin

-----------------------------------------------------------------------------
(* The parts of a scheduler, and what the change of one entry does to them *)

LEMMA Parts ==
  ASSUME NEW s, s \in Scheduler
  PROVE  /\ s.entries \in [Requests -> Entry \cup {None}]
         /\ Known(s) \subseteq Requests
         /\ \A r \in Known(s) : s.entries[r] \in Entry
         /\ \A state : InState(s, state) \subseteq Known(s)
         /\ HaveArrived(s) \subseteq Known(s) /\ WereAdmitted(s) \subseteq Known(s)
BY DEF Scheduler, Known, InState, HaveArrived, WereAdmitted

LEMMA FiniteParts ==
  ASSUME NEW s, s \in Scheduler, IsFiniteSet(Known(s))
  PROVE  /\ \A state : IsFiniteSet(InState(s, state)) /\ Cardinality(InState(s, state)) \in Nat
         /\ IsFiniteSet(HaveArrived(s)) /\ Cardinality(HaveArrived(s)) \in Nat
         /\ IsFiniteSet(WereAdmitted(s)) /\ Cardinality(WereAdmitted(s)) \in Nat
<1>1. \A T \in SUBSET Known(s) : IsFiniteSet(T) /\ Cardinality(T) \in Nat
  BY FS_Subset, FS_CardinalityType
<1>2. QED
  BY <1>1, Parts

\* No more requests wait or run than have arrived or were admitted.
LEMMA PartsAreBounded ==
  ASSUME NEW s, s \in Scheduler, IsFiniteSet(Known(s)), EntriesOK(s)
  PROVE  /\ Cardinality(InState(s, "Waiting")) <= Cardinality(HaveArrived(s))
         /\ Cardinality(InState(s, "Running")) <= Cardinality(WereAdmitted(s))
<1>1. /\ InState(s, "Waiting") \subseteq HaveArrived(s)
      /\ InState(s, "Running") \subseteq WereAdmitted(s)
  BY DEF EntriesOK, InState, HaveArrived, WereAdmitted, Known
<1>2. QED
  BY <1>1, FiniteParts, FS_Subset

\* The waiting keys are as many as the waiting requests, at most.
LEMMA QueueIsFinite ==
  ASSUME NEW s, s \in Scheduler, IsFiniteSet(Known(s)),
         s.waiting = {KeyOf(s, r) : r \in InState(s, "Waiting")}
  PROVE  /\ IsFiniteSet(s.waiting) /\ Cardinality(s.waiting) \in Nat
         /\ Cardinality(s.waiting) <= Cardinality(InState(s, "Waiting"))
<1> DEFINE f == [r \in InState(s, "Waiting") |-> KeyOf(s, r)]
<1>1. f \in Surjection(InState(s, "Waiting"), s.waiting)
  BY DEF Surjection
<1>2. QED
  BY <1>1, FiniteParts, FS_Surjection, FS_CardinalityType

Replaced(s, t, r) ==
  /\ Known(t) = Known(s) \cup {r} /\ IsFiniteSet(Known(t))
  /\ \A state : InState(t, state) =
       IF t.entries[r].state = state THEN InState(s, state) \cup {r} ELSE InState(s, state) \ {r}
  /\ HaveArrived(t) =
       IF t.entries[r].arrived THEN HaveArrived(s) \cup {r} ELSE HaveArrived(s) \ {r}
  /\ WereAdmitted(t) =
       IF t.entries[r].admitted # None THEN WereAdmitted(s) \cup {r} ELSE WereAdmitted(s) \ {r}

LEMMA EntryReplaced ==
  ASSUME NEW s, s \in Scheduler, IsFiniteSet(Known(s)), NEW t, NEW r \in Requests,
         t.entries[r] \in Entry, \A q \in Requests \ {r} : t.entries[q] = s.entries[q]
  PROVE  Replaced(s, t, r)
<1>1. t.entries[r] # None
  BY EntryAssumption
<1>2. Known(t) = Known(s) \cup {r}
  BY <1>1 DEF Known
<1>3. IsFiniteSet(Known(t))
  BY <1>2, OneMore
<1>4. \A state : InState(t, state) =
        IF t.entries[r].state = state THEN InState(s, state) \cup {r}
                                      ELSE InState(s, state) \ {r}
  BY <1>1 DEF InState
<1>5. HaveArrived(t) =
        IF t.entries[r].arrived THEN HaveArrived(s) \cup {r} ELSE HaveArrived(s) \ {r}
  BY <1>1 DEF HaveArrived, Known
<1>6. WereAdmitted(t) =
        IF t.entries[r].admitted # None THEN WereAdmitted(s) \cup {r}
                                        ELSE WereAdmitted(s) \ {r}
  BY <1>1 DEF WereAdmitted, Known
<1>7. QED
  BY <1>2, <1>3, <1>4, <1>5, <1>6 DEF Replaced

LEMMA QueueTimeIsFinite ==
  ASSUME NEW s, s \in Scheduler, IsFiniteSet(Known(s))
  PROVE  IsFiniteSet(QueueTime(s))
<1>1. IsFiniteSet(Time)
  BY IntMaxAssumption, FS_Interval DEF Time
<1>2. IsFiniteSet(WereAdmitted(s) \X Time)
  BY <1>1, FiniteParts, FS_Product
<1>3. QED
  BY <1>2, FS_Subset DEF QueueTime

LEMMA QueueTimeStays ==
  ASSUME NEW s, NEW t, WereAdmitted(t) = WereAdmitted(s),
         \A q \in WereAdmitted(s) : /\ t.entries[q].arrival = s.entries[q].arrival
                                    /\ t.entries[q].admitted = s.entries[q].admitted
  PROVE  QueueTime(t) = QueueTime(s)
BY DEF QueueTime

Keys(s) == {KeyOf(s, r) : r \in InState(s, "Waiting")}

\* The queue after the change of one entry, of a request that begins to wait or does not
\* wait any longer.
LEMMA WaitingKeys ==
  ASSUME NEW s, s \in Scheduler, NEW t, NEW r \in Requests,
         \A q \in Requests \ {r} : t.entries[q] = s.entries[q]
  PROVE  /\ r \notin InState(s, "Waiting") /\ InState(t, "Waiting") = InState(s, "Waiting") \cup {r}
             => Keys(t) = Keys(s) \cup {KeyOf(t, r)}
         /\ InState(t, "Waiting") = InState(s, "Waiting") \ {r}
             => Keys(t) = Keys(s) \ {KeyOf(s, r)}
<1>1. InState(s, "Waiting") \subseteq Requests
  BY Parts
<1>2. \A q \in Requests \ {r} : KeyOf(t, q) = KeyOf(s, q)
  BY DEF KeyOf
<1>3. \A q, p : KeyOf(s, q) = KeyOf(s, p) => q = p
  BY DEF KeyOf
<1>4. QED
  BY <1>1, <1>2, <1>3 DEF Keys

\* A request that is known already keeps its arrival, and mostly its admission.
LEMMA KnownReplaced ==
  ASSUME NEW s, s \in Scheduler, IsFiniteSet(Known(s)), NEW t, NEW r \in Known(s),
         t.entries[r] \in Entry, \A q \in Requests \ {r} : t.entries[q] = s.entries[q],
         t.entries[r].arrival = s.entries[r].arrival,
         t.entries[r].arrived = s.entries[r].arrived
  PROVE  /\ Known(t) = Known(s) /\ HaveArrived(t) = HaveArrived(s)
         /\ t.entries[r].admitted = s.entries[r].admitted =>
              WereAdmitted(t) = WereAdmitted(s) /\ QueueTime(t) = QueueTime(s)
<1>1. r \in Requests /\ Known(s) \subseteq Requests
  BY Parts
<1>2. Replaced(s, t, r)
  BY <1>1, EntryReplaced
<1>3. Known(t) = Known(s)
  BY <1>2 DEF Replaced
<1>4. HaveArrived(t) = HaveArrived(s)
  BY <1>2 DEF Replaced, HaveArrived
<1>5. ASSUME t.entries[r].admitted = s.entries[r].admitted
      PROVE  WereAdmitted(t) = WereAdmitted(s) /\ QueueTime(t) = QueueTime(s)
  <2>1. WereAdmitted(t) = WereAdmitted(s)
    BY <1>2, <1>5 DEF Replaced, WereAdmitted
  <2>2. \A q \in WereAdmitted(s) : /\ t.entries[q].arrival = s.entries[q].arrival
                                   /\ t.entries[q].admitted = s.entries[q].admitted
    BY <1>1, <1>5 DEF WereAdmitted
  <2>3. QED
    BY <2>1, <2>2, QueueTimeStays
<1>6. QED
  BY <1>3, <1>4, <1>5

\* The entries of the others stay as they were.
LEMMA EntriesStayOK ==
  ASSUME NEW s, EntriesOK(s), NEW t, NEW r, Known(t) \subseteq Known(s) \cup {r},
         Known(s) \subseteq Requests,
         \A q \in Requests \ {r} : t.entries[q] = s.entries[q],
         /\ t.entries[r].state = "Waiting" =>
              t.entries[r].arrived /\ t.entries[r].admitted = None
         /\ t.entries[r].state = "Running" => t.entries[r].admitted # None
  PROVE  EntriesOK(t)
<1>1. \A q \in Known(t) : q # r => q \in Known(s) /\ q \in Requests \ {r}
  OBVIOUS
<1>2. QED
  BY <1>1 DEF EntriesOK

-----------------------------------------------------------------------------
(* Notifications *)

LEMMA EmptyKept == SchedulerInv(EmptyScheduler) /\ EmptyScheduler \in Scheduler
<1> DEFINE s == EmptyScheduler
<1>1. s \in Scheduler
  BY IntMaxAssumption, SchedulerAssumption
     DEF EmptyScheduler, Scheduler, Count, Machine, IntMin
<1>2. Known(s) = {} /\ \A state : InState(s, state) = {}
  BY DEF EmptyScheduler, Known, InState
<1>3. HaveArrived(s) = {} /\ WereAdmitted(s) = {} /\ QueueTime(s) = {}
  BY <1>2 DEF HaveArrived, WereAdmitted, QueueTime
<1>4. IsFiniteSet(Known(s)) /\ Cardinality({}) = 0
  BY <1>2, FS_EmptySet
<1>5. EntriesOK(s)
  BY <1>2 DEF EntriesOK
<1>6. Consistent(s)
  <2>1. s.waiting = {} /\ {KeyOf(s, r) : r \in InState(s, "Waiting")} = {}
    BY <1>2 DEF EmptyScheduler
  <2>2. /\ s.running = 0 /\ s.epoch = 0 /\ s.arrived = 0 /\ s.admitted = 0
        /\ s.completed = 0 /\ s.cancelled = 0 /\ s.depth = 0 /\ s.waited = 0
    BY DEF EmptyScheduler
  <2> HIDE DEF s
  <2>3. s.epoch = s.arrived + s.admitted + s.completed + s.cancelled
    BY <2>2
  <2>4. /\ s.waiting = {KeyOf(s, r) : r \in InState(s, "Waiting")}
        /\ s.depth >= Cardinality(s.waiting)
    BY <1>4, <2>1, <2>2
  <2>5. s.running <= MaxActive
    BY <2>2, SchedulerAssumption
  <2>6. /\ s.running = Cardinality(InState(s, "Running"))
        /\ s.completed = Cardinality(InState(s, "Completed"))
        /\ s.cancelled = Cardinality(InState(s, "Cancelled"))
        /\ s.arrived = Cardinality(HaveArrived(s))
        /\ s.admitted = Cardinality(WereAdmitted(s))
        /\ s.waited = Cardinality(QueueTime(s))
    BY <1>2, <1>3, <1>4, <2>2, Zenon
  <2>7. QED
    BY <2>3, <2>4, <2>5, <2>6 DEF Consistent
<1>7. QED
  BY <1>1, <1>4, <1>5, <1>6 DEF SchedulerInv

LEMMA ArrivalKeeps ==
  ASSUME NEW s, SchedulerInv(s), NEW r \in Requests, NEW arrival \in Time
  PROVE  SchedulerInv(NotifyArrival(s, r, arrival).sched)
<1> DEFINE key     == [arrival |-> arrival, id |-> r]
           waiting == s.waiting \cup {key}
           entry   == [arrival |-> arrival, state |-> "Waiting",
                       arrived |-> TRUE, admitted |-> None]
           depth   == Max({s.depth, Cardinality(waiting)})
           t       == [s EXCEPT !.waiting = waiting, !.entries[r] = entry,
                                !.arrived = @ + 1, !.depth = depth, !.epoch = @ + 1]
<1>1. CASE r \in Known(s) \/ Exhausted(s, s.arrived)
  BY <1>1 DEF NotifyArrival, Rejected
<1>2. CASE r \notin Known(s) /\ ~Exhausted(s, s.arrived)
  <2>1. NotifyArrival(s, r, arrival).sched = t
    BY <1>2 DEF NotifyArrival, Accepted
  <2>2. s \in Scheduler /\ IsFiniteSet(Known(s)) /\ EntriesOK(s) /\ Consistent(s)
    BY DEF SchedulerInv
  <2>3. entry \in Entry /\ key \in WaitingKey
    BY DEF Entry, WaitingKey, EntryState
  <2>4. /\ t.waiting = waiting /\ t.entries = [s.entries EXCEPT ![r] = entry]
        /\ t.running = s.running /\ t.epoch = s.epoch + 1 /\ t.arrived = s.arrived + 1
        /\ t.admitted = s.admitted /\ t.completed = s.completed
        /\ t.cancelled = s.cancelled /\ t.depth = depth /\ t.waited = s.waited
    BY <2>2 DEF Scheduler
  <2> HIDE DEF t
  <2>5. /\ s.arrived \in Nat /\ s.epoch \in Nat /\ s.depth \in Nat
        /\ s.arrived + 1 \in Count /\ s.epoch + 1 \in Count
    BY <1>2, <2>2, SchedulerAssumption DEF Scheduler, Count, Exhausted
  <2> HIDE DEF entry, waiting, depth, key
  <2>6. /\ t.entries[r] = entry
        /\ \A q \in Requests \ {r} : t.entries[q] = s.entries[q]
    BY <2>2, <2>4, Parts
  <2>7. /\ entry.state = "Waiting" /\ entry.arrived /\ entry.admitted = None
        /\ KeyOf(t, r) = key
    BY <2>6 DEF entry, key, KeyOf
  <2>8. /\ \A state : r \notin InState(s, state)
        /\ r \notin HaveArrived(s) /\ r \notin WereAdmitted(s)
    BY <1>2, <2>2, Parts
  <2>9. /\ InState(t, "Waiting") = InState(s, "Waiting") \cup {r}
        /\ InState(t, "Running") = InState(s, "Running")
        /\ InState(t, "Completed") = InState(s, "Completed")
        /\ InState(t, "Cancelled") = InState(s, "Cancelled")
        /\ HaveArrived(t) = HaveArrived(s) \cup {r}
        /\ WereAdmitted(t) = WereAdmitted(s)
        /\ Known(t) = Known(s) \cup {r} /\ IsFiniteSet(Known(t))
    <3>1. Replaced(s, t, r)
      BY <2>2, <2>3, <2>6, EntryReplaced
    <3>2. /\ t.entries[r].state = "Waiting" /\ t.entries[r].arrived
          /\ t.entries[r].admitted = None
      BY <2>6, <2>7
    <3>3. /\ InState(t, "Waiting") = InState(s, "Waiting") \cup {r}
          /\ InState(t, "Running") = InState(s, "Running") \ {r}
          /\ InState(t, "Completed") = InState(s, "Completed") \ {r}
          /\ InState(t, "Cancelled") = InState(s, "Cancelled") \ {r}
      BY <3>1, <3>2 DEF Replaced
    <3>4. HaveArrived(t) = HaveArrived(s) \cup {r}
      BY <3>1, <3>2 DEF Replaced
    <3>5. WereAdmitted(t) = WereAdmitted(s) \ {r}
      BY <3>1, <3>2 DEF Replaced
    <3>6. \A S : r \notin S => S \ {r} = S
      OBVIOUS
    <3>7. Known(t) = Known(s) \cup {r} /\ IsFiniteSet(Known(t))
      BY <3>1 DEF Replaced
    <3> HIDE DEF t
    <3>8. QED
      BY <2>8, <3>3, <3>4, <3>5, <3>6, <3>7, Zenon
  <2>10. t.waiting = Keys(t)
    <3>1. s.waiting = Keys(s)
      BY <2>2 DEF Consistent, Keys
    <3>2. Keys(t) = Keys(s) \cup {KeyOf(t, r)}
      BY <2>2, <2>6, <2>8, <2>9, WaitingKeys
    <3>3. QED
      BY <2>4, <2>7, <3>1, <3>2 DEF waiting
  <2>11. Cardinality(HaveArrived(t)) = t.arrived
    <3>1. IsFiniteSet(HaveArrived(s)) /\ s.arrived = Cardinality(HaveArrived(s))
      BY <2>2, FiniteParts DEF Consistent
    <3>2. QED
      BY <2>4, <2>8, <2>9, <3>1, OneMore
  <2>12. QueueTime(t) = QueueTime(s)
    <3>1. \A q \in WereAdmitted(s) : q \in Requests \ {r}
      BY <2>2, <2>8, Parts
    <3>2. QED
      BY <2>6, <2>9, <3>1, QueueTimeStays
  <2>13. EntriesOK(t)
    <3>1. Known(s) \subseteq Requests
      BY <2>2, Parts
    <3>2. QED
      BY <2>2, <2>6, <2>7, <2>9, <3>1, EntriesStayOK
  <2>14. Cardinality(waiting) \in Count /\ depth \in Count /\ depth >= Cardinality(waiting)
    <3>2. /\ IsFiniteSet(s.waiting) /\ Cardinality(s.waiting) \in Nat
          /\ Cardinality(s.waiting) <= Cardinality(InState(s, "Waiting"))
          /\ Cardinality(InState(s, "Waiting")) <= s.arrived
      BY <2>2, QueueIsFinite, PartsAreBounded DEF Consistent
    <3>3. Cardinality(waiting) \in Nat /\ Cardinality(waiting) <= Cardinality(s.waiting) + 1
      <4>1. waiting = s.waiting \cup {key} /\ IsFiniteSet(s.waiting)
        BY <3>2 DEF waiting
      <4>2. /\ Cardinality(waiting) \in Nat
            /\ Cardinality(waiting) = IF key \in s.waiting THEN Cardinality(s.waiting)
                                      ELSE Cardinality(s.waiting) + 1
        BY <4>1, OneMore
      <4>3. QED
        BY <3>2, <4>2
    <3>4. Cardinality(waiting) \in Count
      <4>1. Cardinality(InState(s, "Waiting")) \in Nat
        BY <2>2, FiniteParts
      <4>2. s.arrived \in Nat /\ s.arrived + 1 <= CounterLimit
        BY <2>5, SchedulerAssumption DEF Count
      <4>3. QED
        BY <3>2, <3>3, <4>1, <4>2, SchedulerAssumption DEF Count
    <3>5. depth \in {s.depth, Cardinality(waiting)} /\ depth >= Cardinality(waiting)
      <4>1. s.depth \in Int /\ Cardinality(waiting) \in Int
        BY <2>5, <3>3
      <4>2. QED
        BY <4>1, MaxOfTwo, Zenon DEF depth
    <3>6. QED
      BY <2>2, <3>4, <3>5 DEF Scheduler
  <2>15. t \in Scheduler
    BY <2>2, <2>3, <2>5, <2>14 DEF Scheduler, t, waiting
  <2>16. Consistent(t)
    BY <2>2, <2>4, <2>5, <2>9, <2>10, <2>11, <2>12, <2>14
       DEF Consistent, Scheduler, Count, Keys
  <2>17. QED
    BY <2>1, <2>9, <2>13, <2>15, <2>16 DEF SchedulerInv
<1>3. QED
  BY <1>1, <1>2

LEMMA AdmissionKeeps ==
  ASSUME NEW s, SchedulerInv(s), NEW decision, NEW now \in Time
  PROVE  SchedulerInv(NotifyAdmitted(s, decision, now).sched)
<1> DEFINE r      == decision.id
           waited == CheckedAdd(s.waited, now - s.entries[r].arrival)
           entry  == [s.entries[r] EXCEPT !.state = "Running", !.admitted = now]
           t      == [s EXCEPT !.waiting = @ \ {KeyOf(s, r)}, !.entries[r] = entry,
                               !.running = @ + 1, !.admitted = @ + 1,
                               !.waited = waited, !.epoch = @ + 1]
<1>1. CASE \/ ~AdmissionJustified(s, decision, now)
           \/ waited = Overflow \/ Exhausted(s, s.admitted)
  BY <1>1 DEF NotifyAdmitted, Rejected
<1>2. CASE /\ AdmissionJustified(s, decision, now)
           /\ waited # Overflow /\ ~Exhausted(s, s.admitted)
  <2>1. NotifyAdmitted(s, decision, now).sched = t
    BY <1>2 DEF NotifyAdmitted, Accepted
  <2>2. s \in Scheduler /\ IsFiniteSet(Known(s)) /\ EntriesOK(s) /\ Consistent(s)
    BY DEF SchedulerInv
  <2>3. /\ r \in Known(s) /\ s.entries[r].state = "Waiting" /\ s.running < MaxActive
        /\ now >= s.entries[r].arrival /\ KeyOf(s, r) \in s.waiting
    BY <1>2 DEF AdmissionJustified
  <2> DEFINE arrival == s.entries[r].arrival
  <2> HIDE DEF r
  <2>4. /\ r \in Requests /\ Known(s) \subseteq Requests /\ s.entries[r] \in Entry
        /\ s.entries \in [Requests -> Entry \cup {None}]
    BY <2>2, <2>3, Parts
  <2>5. arrival \in Time /\ now - arrival \in Machine /\ s.waited \in Machine
    BY <2>2, <2>3, <2>4, IntMaxAssumption DEF Entry, Time, Machine, IntMin, Scheduler
  <2>6. waited = s.waited + (now - arrival) /\ waited \in Machine
    BY <1>2, <2>5, CheckedAddIsExact
  <2> HIDE DEF waited
  <2>7. /\ t.waiting = s.waiting \ {KeyOf(s, r)}
        /\ t.running = s.running + 1 /\ t.epoch = s.epoch + 1 /\ t.arrived = s.arrived
        /\ t.admitted = s.admitted + 1 /\ t.completed = s.completed
        /\ t.cancelled = s.cancelled /\ t.depth = s.depth /\ t.waited = waited
    BY <2>2 DEF Scheduler
  <2>8. /\ t.entries = [s.entries EXCEPT ![r] = entry]
        /\ t.entries \in [Requests -> Entry \cup {None}] /\ t.entries[r] \in Entry
        /\ \A q \in Requests \ {r} : t.entries[q] = s.entries[q]
        /\ t.entries[r].state = "Running" /\ t.entries[r].admitted = now
        /\ t.entries[r].arrival = arrival /\ t.entries[r].arrived = s.entries[r].arrived
    <3>1. /\ entry \in Entry /\ entry.state = "Running" /\ entry.admitted = now
          /\ entry.arrival = arrival /\ entry.arrived = s.entries[r].arrived
      BY <2>4 DEF Entry, EntryState
    <3> HIDE DEF entry
    <3>2. t.entries = [s.entries EXCEPT ![r] = entry]
      BY <2>2 DEF Scheduler
    <3>3. QED
      BY <2>4, <3>1, <3>2
  <2>9. /\ s.running \in Nat /\ s.admitted \in Nat /\ s.epoch \in Nat
        /\ s.admitted + 1 \in Count /\ s.epoch + 1 \in Count
        /\ now \in Nat /\ now # None
    BY <1>2, <2>2, SchedulerAssumption, IntMaxAssumption
       DEF Scheduler, Count, Exhausted, Time
  <2> HIDE DEF entry
  <2>10. t \in Scheduler <=> t.running \in Count
    <3>1. entry \in Entry
      BY <2>4, <2>8
    <3>2. QED
      BY <2>2, <2>6, <2>7, <2>9, <3>1 DEF Scheduler
  <2> HIDE DEF t, arrival
  <2>11. Replaced(s, t, r)
    BY <2>2, <2>4, <2>8, EntryReplaced
  <2>12. Known(t) = Known(s) /\ HaveArrived(t) = HaveArrived(s)
    BY <2>2, <2>3, <2>8, KnownReplaced DEF arrival
  <2>13. /\ r \in InState(s, "Waiting") /\ r \notin InState(s, "Running")
         /\ r \notin InState(s, "Completed") /\ r \notin InState(s, "Cancelled")
         /\ r \notin WereAdmitted(s)
    BY <2>2, <2>3, <2>4 DEF InState, Known, WereAdmitted, EntriesOK
  <2>14. /\ InState(t, "Waiting") = InState(s, "Waiting") \ {r}
         /\ InState(t, "Running") = InState(s, "Running") \cup {r}
         /\ InState(t, "Completed") = InState(s, "Completed")
         /\ InState(t, "Cancelled") = InState(s, "Cancelled")
         /\ WereAdmitted(t) = WereAdmitted(s) \cup {r}
    <3>1. /\ InState(t, "Waiting") = InState(s, "Waiting") \ {r}
          /\ InState(t, "Running") = InState(s, "Running") \cup {r}
          /\ InState(t, "Completed") = InState(s, "Completed") \ {r}
          /\ InState(t, "Cancelled") = InState(s, "Cancelled") \ {r}
      BY <2>8, <2>11 DEF Replaced
    <3>2. WereAdmitted(t) = WereAdmitted(s) \cup {r}
      BY <2>8, <2>9, <2>11 DEF Replaced
    <3>3. \A S : r \notin S => S \ {r} = S
      OBVIOUS
    <3>4. QED
      BY <2>13, <3>1, <3>2, <3>3, Zenon
  <2>15. t.waiting = Keys(t)
    <3>1. s.waiting = Keys(s)
      BY <2>2 DEF Consistent, Keys
    <3>2. Keys(t) = Keys(s) \ {KeyOf(s, r)}
      <4>1. s \in Scheduler /\ r \in Requests
        BY <2>2, <2>4
      <4>2. \A q \in Requests \ {r} : t.entries[q] = s.entries[q]
        BY <2>8
      <4>3. InState(t, "Waiting") = InState(s, "Waiting") \ {r}
        BY <2>14
      <4>4. QED
        BY ONLY <4>1, <4>2, <4>3, WaitingKeys
    <3>3. QED
      BY <2>7, <3>1, <3>2
  <2>16. EntriesOK(t)
    BY <2>2, <2>4, <2>8, <2>9, <2>12, EntriesStayOK
  <2>17. t.running = Cardinality(InState(t, "Running"))
    <3>1. /\ IsFiniteSet(InState(s, "Running"))
          /\ s.running = Cardinality(InState(s, "Running"))
      BY <2>2, FiniteParts DEF Consistent
    <3>2. QED
      BY <2>7, <2>13, <2>14, <3>1, OneMore
  <2>18. t.admitted = Cardinality(WereAdmitted(t))
    BY <2>2, <2>7, <2>13, <2>14, FiniteParts, OneMore DEF Consistent
  <2>19. t.running \in Count
    <3>1. \E n \in Nat : t.running = n
      BY <2>7, <2>9
    <3>2. t.running <= t.admitted
      <4> DEFINE S == InState(t, "Running")
                 T == WereAdmitted(t)
      <4>1. S \subseteq T
        BY <2>16 DEF EntriesOK, InState, WereAdmitted, Known
      <4>2. IsFiniteSet(T)
        BY <2>2, <2>14, FiniteParts, OneMore
      <4> HIDE DEF S, T
      <4>3. Cardinality(S) <= Cardinality(T)
        BY <4>1, <4>2, FS_Subset
      <4>4. QED
        BY <2>17, <2>18, <4>3 DEF S, T
    <3>3. QED
      BY <2>7, <2>9, <3>1, <3>2, SchedulerAssumption DEF Count
  <2>20. t.waited = Cardinality(QueueTime(t))
    <3> DEFINE new == {r} \X (arrival .. now - 1)
    <3>1. arrival \in Nat /\ arrival <= now
      BY <2>3, <2>5, IntMaxAssumption DEF Time, arrival
    <3>2. IsFiniteSet(new) /\ Cardinality(new) = now - arrival
      <4>1. /\ IsFiniteSet(arrival .. now - 1)
            /\ Cardinality(arrival .. now - 1) = now - arrival
        <5>1. arrival \in Int /\ now - 1 \in Int
          BY <2>9, <3>1
        <5>2. /\ IsFiniteSet(arrival .. now - 1)
              /\ Cardinality(arrival .. now - 1) =
                   IF arrival > now - 1 THEN 0 ELSE (now - 1) - arrival + 1
          BY <5>1, FS_Interval, Zenon
        <5>3. QED
          BY <2>9, <3>1, <5>2
      <4>2. IsFiniteSet({r}) /\ Cardinality({r}) = 1
        BY FS_Singleton
      <4>3. /\ IsFiniteSet(new)
            /\ Cardinality(new) = Cardinality({r}) * Cardinality(arrival .. now - 1)
        BY <4>1, <4>2, FS_Product, Zenon
      <4>4. Cardinality(new) = 1 * (now - arrival)
        BY <4>1, <4>2, <4>3, Zenon
      <4>5. QED
        BY <2>9, <3>1, <4>3, <4>4
    <3>3. QueueTime(t) = QueueTime(s) \cup new
      <4>1. \A q \in WereAdmitted(s) : q # r /\ t.entries[q] = s.entries[q]
        BY <2>2, <2>4, <2>8, <2>13, Parts
      <4>2. \A w \in {r} \X Time :
              w \in new <=> arrival <= w[2] /\ w[2] < now
        BY <2>9, <3>1 DEF Time
      <4>3. new \subseteq {r} \X Time
        BY <2>9, <3>1, IntMaxAssumption DEF Time
      <4> HIDE DEF new
      <4>4. ASSUME NEW w \in WereAdmitted(t) \X Time
            PROVE  w \in QueueTime(t) <=> w \in QueueTime(s) \cup new
        <5>1. CASE w[1] = r
          BY <2>8, <2>13, <4>2, <5>1 DEF QueueTime
        <5>2. CASE w[1] # r
          BY <2>14, <4>1, <4>3, <5>2 DEF QueueTime
        <5>3. QED
          BY <5>1, <5>2
      <4>5. QueueTime(t) \subseteq WereAdmitted(t) \X Time
        BY DEF QueueTime
      <4>6. QueueTime(s) \cup new \subseteq WereAdmitted(t) \X Time
        BY <2>14, <4>3 DEF QueueTime
      <4>7. QED
        BY <4>4, <4>5, <4>6
    <3>4. QueueTime(s) \cap new = {}
      BY <2>13 DEF QueueTime
    <3>5. IsFiniteSet(QueueTime(s)) /\ Cardinality(QueueTime(s)) = s.waited
      BY <2>2, QueueTimeIsFinite DEF Consistent
    <3> HIDE DEF new
    <3>6. Cardinality(QueueTime(t)) =
            Cardinality(QueueTime(s)) + Cardinality(new) - Cardinality(QueueTime(s) \cap new)
      BY <3>2, <3>3, <3>5, FS_Union, Zenon
    <3>7. Cardinality(QueueTime(s) \cap new) = 0
      BY <3>4, FS_EmptySet, Zenon
    <3>8. QED
      BY <2>5, <2>6, <2>7, <2>9, <3>1, <3>2, <3>5, <3>6, <3>7 DEF Machine, IntMin
  <2>21. Cardinality(t.waiting) <= t.depth
    <3>1. /\ IsFiniteSet(s.waiting) /\ Cardinality(s.waiting) \in Nat
          /\ Cardinality(s.waiting) <= s.depth /\ s.depth \in Nat
      BY <2>2, QueueIsFinite, SchedulerAssumption DEF Consistent, Scheduler, Count
    <3>2. Cardinality(t.waiting) \in Nat /\ Cardinality(t.waiting) <= Cardinality(s.waiting)
      BY <2>7, <3>1, OneLess
    <3>3. QED
      BY <2>7, <3>1, <3>2
  <2>22. Consistent(t)
    <3>1. /\ t.running <= MaxActive
          /\ t.epoch = t.arrived + t.admitted + t.completed + t.cancelled
          /\ t.depth >= Cardinality(t.waiting)
      BY <2>2, <2>3, <2>7, <2>9, <2>21, SchedulerAssumption DEF Consistent, Scheduler, Count
    <3>2. /\ t.arrived = Cardinality(HaveArrived(t))
          /\ t.completed = Cardinality(InState(t, "Completed"))
          /\ t.cancelled = Cardinality(InState(t, "Cancelled"))
      BY <2>2, <2>7, <2>12, <2>14 DEF Consistent
    <3>3. QED
      BY <2>15, <2>17, <2>18, <2>20, <3>1, <3>2 DEF Consistent, Keys
  <2>23. QED
    BY <2>1, <2>2, <2>10, <2>12, <2>16, <2>19, <2>22 DEF SchedulerInv
<1>3. QED
  BY <1>1, <1>2

LEMMA CompletionKeeps ==
  ASSUME NEW s, SchedulerInv(s), NEW r, NEW now
  PROVE  SchedulerInv(NotifyCompleted(s, r, now).sched)
<1> DEFINE t == [s EXCEPT !.entries[r].state = "Completed", !.running = @ - 1,
                          !.completed = @ + 1, !.epoch = @ + 1]
<1>1. CASE ~CompletionJustified(s, r, now) \/ Exhausted(s, s.completed)
  BY <1>1 DEF NotifyCompleted, Rejected
<1>2. CASE CompletionJustified(s, r, now) /\ ~Exhausted(s, s.completed)
  <2>1. NotifyCompleted(s, r, now).sched = t
    BY <1>2 DEF NotifyCompleted, Accepted
  <2>2. s \in Scheduler /\ IsFiniteSet(Known(s)) /\ EntriesOK(s) /\ Consistent(s)
    BY DEF SchedulerInv
  <2>3. /\ r \in Known(s) /\ s.entries[r].state = "Running" /\ s.running # 0
    BY <1>2 DEF CompletionJustified
  <2>4. /\ r \in Requests /\ Known(s) \subseteq Requests /\ s.entries[r] \in Entry
        /\ s.entries \in [Requests -> Entry \cup {None}]
    BY <2>2, <2>3, Parts
  <2>5. /\ t.waiting = s.waiting
        /\ t.running = s.running - 1 /\ t.epoch = s.epoch + 1 /\ t.arrived = s.arrived
        /\ t.admitted = s.admitted /\ t.completed = s.completed + 1
        /\ t.cancelled = s.cancelled /\ t.depth = s.depth /\ t.waited = s.waited
    BY <2>2 DEF Scheduler
  <2>6. /\ t.entries \in [Requests -> Entry \cup {None}] /\ t.entries[r] \in Entry
        /\ \A q \in Requests \ {r} : t.entries[q] = s.entries[q]
        /\ t.entries[r].state = "Completed"
        /\ t.entries[r].admitted = s.entries[r].admitted
        /\ t.entries[r].arrival = s.entries[r].arrival
        /\ t.entries[r].arrived = s.entries[r].arrived
    BY <2>2, <2>4 DEF Scheduler, Entry, EntryState
  <2>7. /\ s.running \in Nat /\ s.completed \in Nat /\ s.epoch \in Nat
        /\ s.completed + 1 \in Count /\ s.epoch + 1 \in Count /\ s.running - 1 \in Count
    BY <1>2, <2>2, <2>3, SchedulerAssumption DEF Scheduler, Count, Exhausted
  <2>8. t \in Scheduler
    BY <2>2, <2>6, <2>7 DEF Scheduler
  <2> HIDE DEF t
  <2>9. /\ Known(t) = Known(s) /\ HaveArrived(t) = HaveArrived(s)
        /\ WereAdmitted(t) = WereAdmitted(s) /\ QueueTime(t) = QueueTime(s)
    BY <2>2, <2>3, <2>6, KnownReplaced
  <2>10. /\ r \in InState(s, "Running") /\ r \notin InState(s, "Waiting")
         /\ r \notin InState(s, "Completed") /\ r \notin InState(s, "Cancelled")
    BY <2>3 DEF InState, Known
  <2>11. /\ InState(t, "Waiting") = InState(s, "Waiting") \ {r}
         /\ InState(t, "Running") = InState(s, "Running") \ {r}
         /\ InState(t, "Completed") = InState(s, "Completed") \cup {r}
         /\ InState(t, "Cancelled") = InState(s, "Cancelled")
    <3>1. Replaced(s, t, r)
      BY <2>2, <2>4, <2>6, EntryReplaced
    <3>2. /\ InState(t, "Waiting") = InState(s, "Waiting") \ {r}
          /\ InState(t, "Running") = InState(s, "Running") \ {r}
          /\ InState(t, "Completed") = InState(s, "Completed") \cup {r}
          /\ InState(t, "Cancelled") = InState(s, "Cancelled") \ {r}
      BY <2>6, <3>1 DEF Replaced
    <3>3. \A S : r \notin S => S \ {r} = S
      OBVIOUS
    <3>4. QED
      BY <2>10, <3>2, <3>3, Zenon
  <2>12. t.waiting = Keys(t)
    <3>1. s.waiting = Keys(s)
      BY <2>2 DEF Consistent, Keys
    <3>2. Keys(t) = Keys(s) \ {KeyOf(s, r)}
      BY <2>2, <2>4, <2>6, <2>11, WaitingKeys
    <3>3. KeyOf(s, r) \notin Keys(s)
      BY <2>10 DEF Keys, KeyOf
    <3>4. QED
      BY <2>5, <3>1, <3>2, <3>3
  <2>13. t.running = Cardinality(InState(t, "Running"))
    <3>1. /\ IsFiniteSet(InState(s, "Running"))
          /\ s.running = Cardinality(InState(s, "Running"))
      BY <2>2, FiniteParts DEF Consistent
    <3>2. QED
      BY <2>5, <2>10, <2>11, <3>1, OneLess
  <2>14. t.completed = Cardinality(InState(t, "Completed"))
    <3>1. /\ IsFiniteSet(InState(s, "Completed"))
          /\ s.completed = Cardinality(InState(s, "Completed"))
      BY <2>2, FiniteParts DEF Consistent
    <3>2. QED
      BY <2>5, <2>10, <2>11, <3>1, OneMore
  <2>15. Consistent(t)
    <3>1. /\ t.running <= MaxActive
          /\ t.epoch = t.arrived + t.admitted + t.completed + t.cancelled
      BY <2>2, <2>5, <2>7, SchedulerAssumption DEF Consistent, Scheduler, Count
    <3>2. /\ t.arrived = Cardinality(HaveArrived(t))
          /\ t.admitted = Cardinality(WereAdmitted(t))
          /\ t.cancelled = Cardinality(InState(t, "Cancelled"))
          /\ t.waited = Cardinality(QueueTime(t))
          /\ t.depth >= Cardinality(t.waiting)
      BY <2>2, <2>5, <2>9, <2>11 DEF Consistent
    <3>3. QED
      BY <2>12, <2>13, <2>14, <3>1, <3>2 DEF Consistent, Keys
  <2>16. EntriesOK(t)
    BY <2>2, <2>4, <2>6, <2>9, EntriesStayOK
  <2>17. QED
    BY <2>1, <2>2, <2>8, <2>9, <2>15, <2>16 DEF SchedulerInv
<1>3. QED
  BY <1>1, <1>2

\* What both kinds of cancellation have in common: the request is in no state any more
\* but "Cancelled", and has arrived and been admitted if it had.
LEMMA CancelledKeeps ==
  ASSUME NEW s, SchedulerInv(s), NEW r \in Requests, r \notin InState(s, "Cancelled"),
         r \notin InState(s, "Completed"), NEW t, t \in Scheduler,
         t.entries[r] \in Entry, \A q \in Requests \ {r} : t.entries[q] = s.entries[q],
         t.entries[r].state = "Cancelled",
         HaveArrived(t) = HaveArrived(s), WereAdmitted(t) = WereAdmitted(s),
         QueueTime(t) = QueueTime(s),
         t.waiting = IF r \in InState(s, "Waiting") THEN s.waiting \ {KeyOf(s, r)} ELSE s.waiting,
         t.running = IF r \in InState(s, "Running") THEN s.running - 1 ELSE s.running,
         t.epoch = s.epoch + 1, t.arrived = s.arrived, t.admitted = s.admitted,
         t.completed = s.completed, t.cancelled = s.cancelled + 1, t.depth = s.depth,
         t.waited = s.waited
  PROVE  SchedulerInv(t)
<1>1. s \in Scheduler /\ IsFiniteSet(Known(s)) /\ EntriesOK(s) /\ Consistent(s)
  BY DEF SchedulerInv
<1>2. Replaced(s, t, r)
  BY <1>1, EntryReplaced
<1>3. /\ InState(t, "Waiting") = InState(s, "Waiting") \ {r}
      /\ InState(t, "Running") = InState(s, "Running") \ {r}
      /\ InState(t, "Completed") = InState(s, "Completed") \ {r}
      /\ InState(t, "Cancelled") = InState(s, "Cancelled") \cup {r}
      /\ Known(t) = Known(s) \cup {r} /\ IsFiniteSet(Known(t))
  BY <1>2 DEF Replaced
<1>4. t.waiting = Keys(t)
  <2>1. s.waiting = Keys(s)
    BY <1>1 DEF Consistent, Keys
  <2>2. Keys(t) = Keys(s) \ {KeyOf(s, r)}
    BY <1>1, <1>3, WaitingKeys
  <2>3. r \notin InState(s, "Waiting") => KeyOf(s, r) \notin Keys(s)
    BY DEF Keys, KeyOf
  <2>4. QED
    BY <2>1, <2>2, <2>3
<1>5. t.running = Cardinality(InState(t, "Running"))
  <2>1. /\ IsFiniteSet(InState(s, "Running"))
        /\ s.running = Cardinality(InState(s, "Running"))
    BY <1>1, FiniteParts DEF Consistent
  <2>2. QED
    BY <1>3, <2>1, OneLess
<1>6. t.completed = Cardinality(InState(t, "Completed"))
  <2>1. InState(t, "Completed") = InState(s, "Completed")
    BY <1>3
  <2>2. QED
    BY <1>1, <2>1 DEF Consistent
<1>7. t.cancelled = Cardinality(InState(t, "Cancelled"))
  <2>1. /\ IsFiniteSet(InState(s, "Cancelled"))
        /\ s.cancelled = Cardinality(InState(s, "Cancelled"))
    BY <1>1, FiniteParts DEF Consistent
  <2>2. QED
    BY <1>3, <2>1, OneMore
<1>8. t.depth >= Cardinality(t.waiting)
  <2>1. /\ IsFiniteSet(s.waiting) /\ Cardinality(s.waiting) \in Nat
        /\ Cardinality(s.waiting) <= s.depth /\ s.depth \in Nat
    <3>1. s.waiting = {KeyOf(s, q) : q \in InState(s, "Waiting")}
      BY <1>1 DEF Consistent
    <3>2. IsFiniteSet(s.waiting) /\ Cardinality(s.waiting) \in Nat
      BY <1>1, <3>1, QueueIsFinite
    <3>3. Cardinality(s.waiting) <= s.depth /\ s.depth \in Nat
      BY <1>1, SchedulerAssumption DEF Consistent, Scheduler, Count
    <3>4. QED
      BY <3>2, <3>3
  <2>2. CASE r \in InState(s, "Waiting")
    <3>1. Cardinality(t.waiting) \in Nat /\ Cardinality(t.waiting) <= Cardinality(s.waiting)
      <4>1. t.waiting = s.waiting \ {KeyOf(s, r)}
        BY <2>2
      <4>2. /\ Cardinality(s.waiting) \in Nat /\ Cardinality(t.waiting) \in Nat
            /\ Cardinality(t.waiting) \in {Cardinality(s.waiting) - 1, Cardinality(s.waiting)}
        BY ONLY <2>1, <4>1, OneLess
      <4>3. QED
        BY ONLY <4>2
    <3>2. QED
      BY <2>1, <3>1
  <2>3. CASE r \notin InState(s, "Waiting")
    BY <2>1, <2>3
  <2>4. QED
    BY <2>2, <2>3
<1>9. /\ t.running <= MaxActive
      /\ t.epoch = t.arrived + t.admitted + t.completed + t.cancelled
  BY <1>1, SchedulerAssumption DEF Consistent, Scheduler, Count
<1>10. Consistent(t)
  BY <1>1, <1>4, <1>5, <1>6, <1>7, <1>8, <1>9 DEF Consistent, Keys
<1>11. EntriesOK(t)
  BY <1>1, <1>3, Parts, EntriesStayOK
<1>12. QED
  BY <1>3, <1>10, <1>11 DEF SchedulerInv

LEMMA CancellationKeeps ==
  ASSUME NEW s, SchedulerInv(s), NEW r \in Requests, NEW now \in Time
  PROVE  SchedulerInv(NotifyCancelled(s, r, now).sched)
<1> DEFINE waiting  == s.entries[r].state = "Waiting"
           earliest == IF waiting THEN s.entries[r].arrival ELSE s.entries[r].admitted
           justified ==
             /\ s.entries[r].state \in {"Waiting", "Running"}
             /\ earliest # None /\ now >= earliest
             /\ IF waiting THEN KeyOf(s, r) \in s.waiting ELSE s.running # 0
           entry == [arrival |-> now, state |-> "Cancelled", arrived |-> FALSE, admitted |-> None]
           unknown == [s EXCEPT !.entries[r] = entry, !.cancelled = @ + 1, !.epoch = @ + 1]
           ended   == [s.entries[r] EXCEPT !.state = "Cancelled"]
           known   == [s EXCEPT !.waiting = IF waiting THEN @ \ {KeyOf(s, r)} ELSE @,
                                !.running = IF waiting THEN @ ELSE @ - 1,
                                !.entries[r] = ended,
                                !.cancelled = @ + 1, !.epoch = @ + 1]
<1>1. s \in Scheduler /\ IsFiniteSet(Known(s)) /\ EntriesOK(s) /\ Consistent(s)
  BY DEF SchedulerInv
<1>2. /\ s.entries \in [Requests -> Entry \cup {None}] /\ Known(s) \subseteq Requests
      /\ \A q \in Known(s) : s.entries[q] \in Entry
  BY <1>1, Parts
<1>3. CASE Exhausted(s, s.cancelled)
  BY <1>3 DEF NotifyCancelled, Rejected
<1>4. CASE ~Exhausted(s, s.cancelled) /\ r \notin Known(s)
  <2>1. NotifyCancelled(s, r, now).sched = unknown
    BY <1>4 DEF NotifyCancelled, Accepted
  <2>2. entry \in Entry
    BY DEF Entry, EntryState
  <2>3. s.cancelled + 1 \in Count /\ s.epoch + 1 \in Count
    BY <1>1, <1>4, SchedulerAssumption DEF Scheduler, Count, Exhausted
  <2>4. unknown \in Scheduler
    BY <1>1, <2>2, <2>3 DEF Scheduler
  <2>5. /\ unknown.waiting = s.waiting /\ unknown.running = s.running
        /\ unknown.epoch = s.epoch + 1 /\ unknown.arrived = s.arrived
        /\ unknown.admitted = s.admitted /\ unknown.completed = s.completed
        /\ unknown.cancelled = s.cancelled + 1 /\ unknown.depth = s.depth
        /\ unknown.waited = s.waited
    BY <1>1 DEF Scheduler
  <2>6. /\ unknown.entries[r] = entry
        /\ \A q \in Requests \ {r} : unknown.entries[q] = s.entries[q]
    BY <1>1, <1>2 DEF Scheduler
  <2>7. entry.state = "Cancelled" /\ entry.arrived = FALSE /\ entry.admitted = None
    OBVIOUS
  <2> HIDE DEF unknown, entry
  <2>8. /\ \A state : r \notin InState(s, state)
        /\ r \notin HaveArrived(s) /\ r \notin WereAdmitted(s)
    BY <1>1, <1>4, Parts
  <2>9. /\ HaveArrived(unknown) = HaveArrived(s) /\ WereAdmitted(unknown) = WereAdmitted(s)
    <3>1. Replaced(s, unknown, r)
      BY <1>1, <2>2, <2>6, EntryReplaced
    <3>2. /\ HaveArrived(unknown) = HaveArrived(s) \ {r}
          /\ WereAdmitted(unknown) = WereAdmitted(s) \ {r}
      BY <2>6, <2>7, <3>1 DEF Replaced
    <3>3. QED
      BY <2>8, <3>2
  <2>10. QueueTime(unknown) = QueueTime(s)
    <3>1. \A q \in WereAdmitted(s) : q \in Requests \ {r}
      BY <1>1, <1>2, <2>8, Parts
    <3>2. QED
      BY <2>6, <2>9, <3>1, QueueTimeStays
  <2>11. SchedulerInv(unknown)
    BY <2>2, <2>4, <2>5, <2>6, <2>7, <2>8, <2>9, <2>10, CancelledKeeps
  <2>12. QED
    BY <2>1, <2>11
<1>5. CASE ~Exhausted(s, s.cancelled) /\ r \in Known(s) /\ ~justified
  <2>1. NotifyCancelled(s, r, now).sched = s
    BY <1>5 DEF NotifyCancelled, Rejected
  <2>2. QED
    BY <2>1
<1>6. CASE ~Exhausted(s, s.cancelled) /\ r \in Known(s) /\ justified
  <2>1. NotifyCancelled(s, r, now).sched = known
    BY <1>6 DEF NotifyCancelled, Accepted
  <2>2. /\ s.entries[r] \in Entry
        /\ s.entries[r].state \in {"Waiting", "Running"} /\ (waiting \/ s.running # 0)
    BY <1>2, <1>6
  <2>3. /\ s.cancelled + 1 \in Count /\ s.epoch + 1 \in Count
        /\ s.running # 0 => s.running - 1 \in Count
    BY <1>1, <1>6, SchedulerAssumption DEF Scheduler, Count, Exhausted
  <2>4. /\ known.waiting = (IF waiting THEN s.waiting \ {KeyOf(s, r)} ELSE s.waiting)
        /\ known.running = (IF waiting THEN s.running ELSE s.running - 1)
        /\ known.epoch = s.epoch + 1 /\ known.arrived = s.arrived
        /\ known.admitted = s.admitted /\ known.completed = s.completed
        /\ known.cancelled = s.cancelled + 1 /\ known.depth = s.depth
        /\ known.waited = s.waited
    BY <1>1 DEF Scheduler
  <2>5. /\ known.entries = [s.entries EXCEPT ![r] = ended]
        /\ known.entries \in [Requests -> Entry \cup {None}] /\ known.entries[r] \in Entry
        /\ \A q \in Requests \ {r} : known.entries[q] = s.entries[q]
        /\ known.entries[r].state = "Cancelled"
        /\ known.entries[r].admitted = s.entries[r].admitted
        /\ known.entries[r].arrival = s.entries[r].arrival
        /\ known.entries[r].arrived = s.entries[r].arrived
    <3>1. /\ ended \in Entry /\ ended.state = "Cancelled"
          /\ ended.admitted = s.entries[r].admitted
          /\ ended.arrival = s.entries[r].arrival /\ ended.arrived = s.entries[r].arrived
      BY <2>2 DEF Entry, EntryState
    <3> HIDE DEF ended
    <3>2. known.entries = [s.entries EXCEPT ![r] = ended]
      BY <1>1 DEF Scheduler
    <3>3. QED
      BY <1>2, <3>1, <3>2
  <2>6. known \in Scheduler
    <3>1. ended \in Entry
      BY <2>5, <1>2
    <3> DEFINE waitingSet == IF waiting THEN s.waiting \ {KeyOf(s, r)} ELSE s.waiting
               runningSize == IF waiting THEN s.running ELSE s.running - 1
    <3>2. waitingSet \in SUBSET WaitingKey /\ runningSize \in Count
      BY <1>1, <2>2, <2>3 DEF Scheduler
    <3> HIDE DEF ended, waitingSet, runningSize
    <3>3. known = [s EXCEPT !.waiting = waitingSet, !.running = runningSize,
                            !.entries[r] = ended, !.cancelled = @ + 1, !.epoch = @ + 1]
      BY DEF waitingSet, runningSize
    <3> HIDE DEF known
    <3>4. QED
      BY <1>1, <2>3, <3>1, <3>2, <3>3 DEF Scheduler
  <2> HIDE DEF known
  <2>7. /\ HaveArrived(known) = HaveArrived(s) /\ WereAdmitted(known) = WereAdmitted(s)
        /\ QueueTime(known) = QueueTime(s)
    BY <1>1, <1>6, <2>5, KnownReplaced
  <2>8. /\ r \in InState(s, "Waiting") <=> waiting
        /\ r \in InState(s, "Running") <=> ~waiting
        /\ r \notin InState(s, "Completed") /\ r \notin InState(s, "Cancelled")
    BY <1>6, <2>2 DEF InState, Known
  <2>9. SchedulerInv(known)
    <3>1. /\ known.waiting = IF r \in InState(s, "Waiting") THEN s.waiting \ {KeyOf(s, r)}
                                                             ELSE s.waiting
          /\ known.running = IF r \in InState(s, "Running") THEN s.running - 1 ELSE s.running
      BY <2>4, <2>8
    <3>2. QED
      BY <2>4, <2>5, <2>6, <2>7, <2>8, <3>1, CancelledKeeps
  <2>10. QED
    BY <2>1, <2>9
<1>7. QED
  BY <1>3, <1>4, <1>5, <1>6

-----------------------------------------------------------------------------
(* The order of the queue *)

LEMMA LeastKey ==
  ASSUME NEW waiting, waiting \subseteq WaitingKey, waiting # {}
  PROVE  \E key \in waiting : \A other \in waiting \ {key} : KeyLess(key, other)
<1> DEFINE arrivals == {key.arrival : key \in waiting}
<1>1. \A key \in waiting : /\ key.arrival \in Nat /\ key.id \in Nat
                           /\ key = [arrival |-> key.arrival, id |-> key.id]
  <2>1. Time \subseteq Nat /\ Requests \subseteq Nat
    BY SchedulerAssumption, IntMaxAssumption DEF Time
  <2>2. \A key \in WaitingKey : /\ key.arrival \in Time /\ key.id \in Requests
                               /\ key = [arrival |-> key.arrival, id |-> key.id]
    BY DEF WaitingKey
  <2>3. QED
    BY <2>1, <2>2
<1>2. PICK earliest \in arrivals : \A arrival \in arrivals : earliest <= arrival
  <2>1. arrivals \subseteq Nat /\ arrivals # {}
    BY <1>1
  <2> HIDE DEF arrivals
  <2>2. QED
    BY <2>1, LeastNatural
<1> DEFINE ids == {key.id : key \in {k \in waiting : k.arrival = earliest}}
<1>3. PICK least \in ids : \A id \in ids : least <= id
  <2>1. ids \subseteq Nat /\ ids # {}
    BY <1>1, <1>2
  <2> HIDE DEF ids
  <2>2. QED
    BY <2>1, LeastNatural
<1>4. PICK key \in waiting : key.arrival = earliest /\ key.id = least
  OBVIOUS
<1>5. ASSUME NEW other \in waiting \ {key}
      PROVE  KeyLess(key, other)
  <2>1. earliest <= other.arrival
    BY <1>2
  <2>2. other.arrival = earliest => least <= other.id
    BY <1>3
  <2>3. other.arrival # earliest \/ other.id # least
    BY <1>1, <1>4
  <2>4. QED
    BY <1>1, <1>4, <2>1, <2>2, <2>3 DEF KeyLess
<1>6. QED
  BY <1>4, <1>5

LEMMA FirstWaitingIsLeast ==
  ASSUME NEW waiting, waiting \subseteq WaitingKey, waiting # {}
  PROVE  /\ FirstWaiting(waiting) \in waiting
         /\ \A other \in waiting \ {FirstWaiting(waiting)} :
              KeyLess(FirstWaiting(waiting), other)
BY LeastKey, Zenon DEF FirstWaiting

LEMMA DecisionOK ==
  ASSUME NEW s, s \in Scheduler
  PROVE  /\ ChooseNextRequest(s) \in Decision /\ ChooseNextRequest(s).epoch = s.epoch
         /\ ChooseNextRequest(s) # None
<1>1. s.waiting \subseteq WaitingKey /\ s.epoch \in Count
  BY DEF Scheduler
<1>2. s.waiting # {} => FirstWaiting(s.waiting).id \in Requests
  BY <1>1, FirstWaitingIsLeast DEF WaitingKey
<1>3. /\ ChooseNextRequest(s) \in Decision /\ ChooseNextRequest(s).epoch = s.epoch
  BY <1>1, <1>2 DEF ChooseNextRequest, Decision
<1>4. QED
  BY <1>3, EntryAssumption

-----------------------------------------------------------------------------
(* What a notification changes: nothing, or the entry of one request and the *)
(* epoch                                                                     *)

Outcomes == {"ok", "logic_error", "overflow"}

Changed(s, t, r) ==
  /\ t.epoch = s.epoch + 1
  /\ \A q \in Requests \ {r} : t.entries[q] = s.entries[q]

LEMMA ArrivalChanges ==
  ASSUME NEW s, s \in Scheduler, NEW r \in Requests, NEW arrival
  PROVE  LET reply == NotifyArrival(s, r, arrival) IN
         /\ reply.outcome \in Outcomes
         /\ reply.sched = s \/ (r \notin Known(s) /\ Changed(s, reply.sched, r))
<1>1. CASE r \in Known(s) \/ Exhausted(s, s.arrived)
  <2>1. NotifyArrival(s, r, arrival) \in {Rejected(s, "logic_error"), Rejected(s, "overflow")}
    BY <1>1 DEF NotifyArrival
  <2>2. QED
    BY <2>1 DEF Rejected, Outcomes
<1>2. CASE r \notin Known(s) /\ ~Exhausted(s, s.arrived)
  BY <1>2 DEF NotifyArrival, Accepted, Scheduler, Outcomes, Changed
<1>3. QED
  BY <1>1, <1>2

LEMMA AdmissionChanges ==
  ASSUME NEW s, s \in Scheduler, NEW decision, NEW now
  PROVE  LET reply == NotifyAdmitted(s, decision, now) IN
         /\ reply.outcome \in Outcomes
         /\ \/ reply.sched = s
            \/ AdmissionJustified(s, decision, now) /\ Changed(s, reply.sched, decision.id)
BY DEF NotifyAdmitted, Rejected, Accepted, Scheduler, Outcomes, Changed

LEMMA CompletionChanges ==
  ASSUME NEW s, s \in Scheduler, NEW r \in Requests, NEW now
  PROVE  LET reply == NotifyCompleted(s, r, now) IN
         /\ reply.outcome \in Outcomes
         /\ reply.sched = s \/ (r \in InState(s, "Running") /\ Changed(s, reply.sched, r))
<1>1. CASE ~CompletionJustified(s, r, now) \/ Exhausted(s, s.completed)
  <2>1. NotifyCompleted(s, r, now) \in {Rejected(s, "logic_error"), Rejected(s, "overflow")}
    BY <1>1 DEF NotifyCompleted
  <2>2. QED
    BY <2>1 DEF Rejected, Outcomes
<1>2. CASE CompletionJustified(s, r, now) /\ ~Exhausted(s, s.completed)
  <2>1. r \in InState(s, "Running")
    BY <1>2 DEF CompletionJustified, InState, Known
  <2>2. QED
    BY <1>2, <2>1 DEF NotifyCompleted, Accepted, Scheduler, Outcomes, Changed
<1>3. QED
  BY <1>1, <1>2

LEMMA CancellationChanges ==
  ASSUME NEW s, s \in Scheduler, NEW r \in Requests, NEW now
  PROVE  LET reply == NotifyCancelled(s, r, now) IN
         /\ reply.outcome \in Outcomes
         /\ \/ reply.sched = s
            \/ /\ r \notin InState(s, "Cancelled") \cup InState(s, "Completed")
               /\ Changed(s, reply.sched, r)
               /\ r \notin InState(reply.sched, "Running")
<1> DEFINE waiting  == s.entries[r].state = "Waiting"
           earliest == IF waiting THEN s.entries[r].arrival ELSE s.entries[r].admitted
           justified ==
             /\ s.entries[r].state \in {"Waiting", "Running"}
             /\ earliest # None /\ now >= earliest
             /\ IF waiting THEN KeyOf(s, r) \in s.waiting ELSE s.running # 0
           reply == NotifyCancelled(s, r, now)
<1>1. CASE Exhausted(s, s.cancelled) \/ (r \in Known(s) /\ ~justified)
  <2>1. reply \in {Rejected(s, "logic_error"), Rejected(s, "overflow")}
    BY <1>1 DEF NotifyCancelled
  <2>2. QED
    BY <2>1 DEF Rejected, Outcomes
<1>2. CASE ~Exhausted(s, s.cancelled) /\ r \notin Known(s)
  <2>1. reply.outcome = "ok" /\ Changed(s, reply.sched, r)
        /\ reply.sched.entries[r].state = "Cancelled"
    BY <1>2 DEF NotifyCancelled, Accepted, Scheduler, Changed
  <2>2. QED
    BY <1>2, <2>1 DEF InState, Known, Outcomes
<1>3. CASE ~Exhausted(s, s.cancelled) /\ r \in Known(s) /\ justified
  <2>0. s.entries[r] \in Entry
    BY <1>3, Parts
  <2>1. reply.outcome = "ok" /\ Changed(s, reply.sched, r)
        /\ reply.sched.entries[r].state = "Cancelled"
    BY <1>3, <2>0 DEF NotifyCancelled, Accepted, Scheduler, Changed, Entry
  <2>2. QED
    BY <1>3, <2>1 DEF InState, Outcomes
<1> HIDE DEF justified, reply
<1>4. QED
  BY <1>1, <1>2, <1>3

-----------------------------------------------------------------------------
(* What a notification about a request that may be notified makes of its entry *)

LEMMA ArrivalEffect ==
  ASSUME NEW s, s \in Scheduler, NEW r \in Requests, r \notin Known(s), NEW arrival,
         NEW reply, reply = NotifyArrival(s, r, arrival)
  PROVE  /\ reply.outcome \in {"ok", "overflow"}
         /\ reply.outcome = "ok" =>
              /\ Changed(s, reply.sched, r)
              /\ reply.sched.entries[r] = [arrival |-> arrival, state |-> "Waiting",
                                           arrived |-> TRUE, admitted |-> None]
<1>1. CASE Exhausted(s, s.arrived)
  BY <1>1 DEF NotifyArrival, Rejected
<1>2. CASE ~Exhausted(s, s.arrived)
  BY <1>2 DEF NotifyArrival, Accepted, Scheduler, Changed
<1>3. QED
  BY <1>1, <1>2

LEMMA AdmissionEffect ==
  ASSUME NEW s, SchedulerInv(s), NEW decision, NEW now \in Time,
         AdmissionJustified(s, decision, now),
         NEW reply, reply = NotifyAdmitted(s, decision, now)
  PROVE  /\ reply.outcome \in {"ok", "overflow"}
         /\ reply.outcome = "ok" =>
              LET r == decision.id IN
              /\ Changed(s, reply.sched, r) /\ reply.sched.entries[r] \in Entry
              /\ reply.sched.entries[r].state = "Running"
              /\ reply.sched.entries[r].admitted = now
              /\ reply.sched.entries[r].arrival = s.entries[r].arrival
<1> DEFINE r == decision.id
           waited == CheckedAdd(s.waited, now - s.entries[r].arrival)
<1>1. CASE waited = Overflow \/ Exhausted(s, s.admitted)
  BY <1>1 DEF NotifyAdmitted, Rejected
<1>2. CASE waited # Overflow /\ ~Exhausted(s, s.admitted)
  <2>1. s \in Scheduler /\ r \in Known(s)
    BY DEF SchedulerInv, AdmissionJustified
  <2>2. s.entries[r] \in Entry /\ r \in Requests /\ s.entries \in [Requests -> Entry \cup {None}]
    BY <2>1, Parts
  <2> DEFINE entry == [s.entries[r] EXCEPT !.state = "Running", !.admitted = now]
             t     == [s EXCEPT
             !.waiting = @ \ {KeyOf(s, r)}, !.entries[r] = entry,
             !.running = @ + 1, !.admitted = @ + 1, !.waited = waited, !.epoch = @ + 1]
  <2>3. reply.outcome = "ok" /\ reply.sched = t
    BY <1>2 DEF NotifyAdmitted, Accepted
  <2> HIDE DEF r, waited
  <2>4. t.epoch = s.epoch + 1
    BY <2>1 DEF Scheduler
  <2>5. /\ \A q \in Requests \ {r} : t.entries[q] = s.entries[q]
        /\ t.entries[r].state = "Running" /\ t.entries[r].admitted = now
        /\ t.entries[r].arrival = s.entries[r].arrival /\ t.entries[r] \in Entry
    <3>1. /\ entry \in Entry /\ entry.state = "Running" /\ entry.admitted = now
          /\ entry.arrival = s.entries[r].arrival
      BY <2>2 DEF Entry, EntryState
    <3> HIDE DEF entry
    <3>2. t.entries = [s.entries EXCEPT ![r] = entry]
      BY <2>1 DEF Scheduler
    <3>3. QED
      BY <2>2, <3>1, <3>2
  <2> HIDE DEF t
  <2>6. QED
    BY <2>3, <2>4, <2>5 DEF r, Changed
<1>3. QED
  BY <1>1, <1>2

LEMMA RunningIsCounted ==
  ASSUME NEW s, SchedulerInv(s)
  PROVE  s.running = 0 <=> InState(s, "Running") = {}
<1>1. /\ IsFiniteSet(InState(s, "Running"))
      /\ s.running = Cardinality(InState(s, "Running"))
  BY FiniteParts DEF SchedulerInv, Consistent
<1>2. QED
  BY <1>1, FS_EmptySet

LEMMA CompletionEffect ==
  ASSUME NEW s, SchedulerInv(s), NEW r \in InState(s, "Running"), NEW now,
         s.entries[r].admitted <= now,
         NEW reply, reply = NotifyCompleted(s, r, now)
  PROVE  /\ reply.outcome \in {"ok", "overflow"}
         /\ reply.outcome = "ok" =>
              /\ Changed(s, reply.sched, r) /\ reply.sched.entries[r] \in Entry
              /\ reply.sched.entries[r].state = "Completed"
<1>1. /\ s \in Scheduler /\ EntriesOK(s) /\ r \in Known(s) /\ r \in Requests
      /\ s.entries[r].state = "Running" /\ s.entries[r] \in Entry
  BY Parts DEF SchedulerInv, InState, Known
<1>2. s.running # 0
  BY RunningIsCounted
<1>3. CompletionJustified(s, r, now)
  BY <1>1, <1>2 DEF CompletionJustified, EntriesOK
<1>4. CASE Exhausted(s, s.completed)
  BY <1>3, <1>4 DEF NotifyCompleted, Rejected
<1>5. CASE ~Exhausted(s, s.completed)
  BY <1>1, <1>3, <1>5 DEF NotifyCompleted, Accepted, Scheduler, Changed, Entry, EntryState
<1>6. QED
  BY <1>4, <1>5

\* A request that is still unknown, or waits or runs since a time in the past.
Cancellable(s, r, now) ==
  r \in Known(s) =>
    \/ s.entries[r].state = "Waiting" /\ s.entries[r].arrival <= now
    \/ s.entries[r].state = "Running" /\ s.entries[r].admitted <= now

LEMMA CancellationEffect ==
  ASSUME NEW s, SchedulerInv(s), NEW r \in Requests, NEW now \in Time,
         Cancellable(s, r, now), NEW reply, reply = NotifyCancelled(s, r, now)
  PROVE  /\ reply.outcome \in {"ok", "overflow"}
         /\ reply.outcome = "ok" =>
              /\ Changed(s, reply.sched, r) /\ reply.sched.entries[r] \in Entry
              /\ reply.sched.entries[r].state = "Cancelled"
              /\ reply.sched.waited = s.waited
<1> DEFINE waiting  == s.entries[r].state = "Waiting"
           earliest == IF waiting THEN s.entries[r].arrival ELSE s.entries[r].admitted
           justified ==
             /\ s.entries[r].state \in {"Waiting", "Running"}
             /\ earliest # None /\ now >= earliest
             /\ IF waiting THEN KeyOf(s, r) \in s.waiting ELSE s.running # 0
<1>1. s \in Scheduler /\ EntriesOK(s) /\ Consistent(s)
  BY DEF SchedulerInv
<1>2. r \in Known(s) => s.entries[r] \in Entry
  BY <1>1, Parts
<1>3. CASE Exhausted(s, s.cancelled)
  BY <1>3 DEF NotifyCancelled, Rejected
<1>4. CASE ~Exhausted(s, s.cancelled) /\ r \notin Known(s)
  BY <1>1, <1>4 DEF NotifyCancelled, Accepted, Scheduler, Changed, Entry, EntryState
<1>5. CASE ~Exhausted(s, s.cancelled) /\ r \in Known(s)
  <2>1. justified
    <3>1. CASE s.entries[r].state = "Waiting" /\ s.entries[r].arrival <= now
      <4>1. r \in InState(s, "Waiting")
        BY <1>5, <3>1 DEF InState, Known
      <4>2. KeyOf(s, r) \in s.waiting
        BY <1>1, <4>1 DEF Consistent
      <4>3. s.entries[r].arrival \in Nat /\ s.entries[r].arrival # None
        BY <1>2, <1>5, SchedulerAssumption, IntMaxAssumption DEF Entry, Time
      <4>4. QED
        BY <3>1, <4>2, <4>3
    <3>2. CASE s.entries[r].state = "Running" /\ s.entries[r].admitted <= now
      <4>1. r \in InState(s, "Running")
        BY <1>5, <3>2 DEF InState, Known
      <4>2. s.running # 0
        BY <4>1, RunningIsCounted
      <4>3. s.entries[r].admitted # None
        BY <1>1, <1>5, <3>2 DEF EntriesOK
      <4>4. QED
        BY <3>2, <4>2, <4>3
    <3>3. QED
      BY <1>5, <3>1, <3>2 DEF Cancellable
  <2> DEFINE t == [s EXCEPT
             !.waiting = IF waiting THEN @ \ {KeyOf(s, r)} ELSE @,
             !.running = IF waiting THEN @ ELSE @ - 1,
             !.entries[r].state = "Cancelled", !.cancelled = @ + 1, !.epoch = @ + 1]
  <2>2. reply.outcome = "ok" /\ reply.sched = t
    BY <1>5, <2>1 DEF NotifyCancelled, Accepted
  <2> HIDE DEF waiting, justified
  <2>3. t.epoch = s.epoch + 1 /\ t.waited = s.waited
    BY <1>1 DEF Scheduler
  <2>4. /\ \A q \in Requests \ {r} : t.entries[q] = s.entries[q]
        /\ t.entries[r].state = "Cancelled" /\ t.entries[r] \in Entry
    BY <1>1, <1>2, <1>5 DEF Scheduler, Entry, EntryState
  <2> HIDE DEF t
  <2>5. QED
    BY <2>2, <2>3, <2>4 DEF Changed
<1>6. QED
  BY <1>3, <1>4, <1>5

-----------------------------------------------------------------------------
(* The decision *)

LEMMA DecisionIsJustified ==
  ASSUME NEW s, SchedulerInv(s), NEW decision, decision = ChooseNextRequest(s),
         NEW now \in Time
  PROVE  /\ decision.kind = "NoWork" <=> s.waiting = {}
         /\ InState(s, "Running") = {} => decision.kind # "CapacityFull"
         /\ decision.kind = "Admit" =>
              /\ decision.id \in InState(s, "Waiting")
              /\ FirstWaiting(s.waiting) = KeyOf(s, decision.id)
              /\ s.entries[decision.id].arrival <= now => AdmissionJustified(s, decision, now)
<1>1. s \in Scheduler /\ EntriesOK(s) /\ s.waiting = {KeyOf(s, r) : r \in InState(s, "Waiting")}
  BY DEF SchedulerInv, Consistent
<1>2. decision.kind = "NoWork" <=> s.waiting = {}
  BY DEF ChooseNextRequest
<1>3. InState(s, "Running") = {} => decision.kind # "CapacityFull"
  <2>1. InState(s, "Running") = {} => ~(s.running >= MaxActive)
    BY RunningIsCounted, SchedulerAssumption
  <2>2. QED
    BY <2>1 DEF ChooseNextRequest
<1>4. ASSUME decision.kind = "Admit"
      PROVE  /\ decision.id \in InState(s, "Waiting")
             /\ FirstWaiting(s.waiting) = KeyOf(s, decision.id)
             /\ s.entries[decision.id].arrival <= now => AdmissionJustified(s, decision, now)
  <2>1. /\ s.waiting # {} /\ ~(s.running >= MaxActive)
        /\ decision = [kind |-> "Admit", id |-> FirstWaiting(s.waiting).id, epoch |-> s.epoch]
    BY <1>4 DEF ChooseNextRequest
  <2>2. FirstWaiting(s.waiting) \in s.waiting
    <3>1. s.waiting \subseteq WaitingKey
      BY <1>1 DEF Scheduler
    <3>2. QED
      BY <2>1, <3>1, FirstWaitingIsLeast
  <2>3. PICK r \in InState(s, "Waiting") : FirstWaiting(s.waiting) = KeyOf(s, r)
    BY <1>1, <2>2
  <2>4. decision.id = r
    BY <2>1, <2>3 DEF KeyOf
  <2>5. /\ r \in Known(s) /\ s.entries[r].state = "Waiting" /\ s.entries[r].arrived
        /\ s.entries[r].arrival \in Nat
    <3>1. r \in Known(s) /\ s.entries[r].state = "Waiting"
      BY DEF InState, Known
    <3>2. QED
      BY <1>1, <3>1, Parts, IntMaxAssumption DEF EntriesOK, Entry, Time
  <2>6. s.running < MaxActive
    BY <1>1, <2>1, SchedulerAssumption DEF Scheduler, Count
  <2>7. now \in Nat
    BY IntMaxAssumption DEF Time
  <2>8. s.entries[r].arrival <= now => AdmissionJustified(s, decision, now)
    <3>1. decision.kind = "Admit" /\ decision.epoch = s.epoch
      BY <2>1
    <3>2. FirstWaiting(s.waiting).id = r
      BY <2>1, <2>4
    <3>3. KeyOf(s, r) \in s.waiting
      BY <2>2, <2>3
    <3>4. s.entries[r].arrival <= now => now >= s.entries[r].arrival
      BY <2>5, <2>7
    <3>5. QED
      BY <2>1, <2>4, <2>5, <2>6, <3>1, <3>2, <3>3, <3>4 DEF AdmissionJustified
  <2>9. QED
    BY <2>3, <2>4, <2>8
<1>5. QED
  BY <1>2, <1>3, <1>4

-----------------------------------------------------------------------------
(* A notification is refused only because a number does not fit *)

\* The epoch counts what the other counters count together: it is the first at its limit.
LEMMA EpochIsFirst ==
  ASSUME NEW s, SchedulerInv(s),
         CounterLimit \in {s.arrived, s.admitted, s.completed, s.cancelled, s.epoch}
  PROVE  s.epoch = CounterLimit
BY SchedulerAssumption DEF SchedulerInv, Consistent, Scheduler, Count

LEMMA RefusalTells ==
  ASSUME NEW s, SchedulerInv(s), NEW r, NEW time
  PROVE  /\ NotifyArrival(s, r, time).outcome = "overflow" => s.epoch = CounterLimit
         /\ NotifyCompleted(s, r, time).outcome = "overflow" => s.epoch = CounterLimit
         /\ NotifyCancelled(s, r, time).outcome = "overflow" => s.epoch = CounterLimit
<1>1. \A counter \in {s.arrived, s.completed, s.cancelled} :
        Exhausted(s, counter) => s.epoch = CounterLimit
  BY EpochIsFirst DEF Exhausted
<1>2. NotifyArrival(s, r, time).outcome = "overflow" => Exhausted(s, s.arrived)
  BY DEF NotifyArrival, Rejected, Accepted
<1>3. NotifyCompleted(s, r, time).outcome = "overflow" => Exhausted(s, s.completed)
  BY DEF NotifyCompleted, Rejected, Accepted
<1>4. NotifyCancelled(s, r, time).outcome = "overflow" => Exhausted(s, s.cancelled)
  BY DEF NotifyCancelled, Rejected, Accepted
<1>5. QED
  BY <1>1, <1>2, <1>3, <1>4

LEMMA AdmissionRefused ==
  ASSUME NEW s, SchedulerInv(s), NEW decision, NEW now \in Time,
         AdmissionJustified(s, decision, now),
         NotifyAdmitted(s, decision, now).outcome = "overflow"
  PROVE  \/ s.epoch = CounterLimit
         \/ s.waited + now - s.entries[decision.id].arrival > IntMax
<1> DEFINE r == decision.id
           passed == now - s.entries[r].arrival
<1>1. /\ s \in Scheduler /\ s.entries[r] \in Entry /\ s.entries[r].arrival <= now
  <2>1. s \in Scheduler /\ r \in Known(s)
    BY DEF SchedulerInv, AdmissionJustified
  <2>2. s.entries[r] \in Entry /\ now >= s.entries[r].arrival
    BY <2>1, Parts DEF AdmissionJustified
  <2>3. QED
    BY <2>1, <2>2, IntMaxAssumption DEF Entry, Time
<1>2. CheckedAdd(s.waited, passed) = Overflow \/ Exhausted(s, s.admitted)
  BY DEF NotifyAdmitted, Rejected, Accepted
<1>3. passed \in Machine /\ s.waited \in Machine /\ s.waited >= 0
  <2>1. s.waited \in Nat
    <3>1. s.waited = Cardinality(QueueTime(s)) /\ IsFiniteSet(Known(s))
      BY DEF SchedulerInv, Consistent
    <3>2. QED
      BY <1>1, <3>1, QueueTimeIsFinite, FS_CardinalityType
  <2>2. QED
    BY <1>1, <2>1, IntMaxAssumption DEF Scheduler, Entry, Time, Machine, IntMin
<1>4. CASE CheckedAdd(s.waited, passed) = Overflow
  <2>1. s.waited + passed \notin Machine
    <3>1. s.waited + passed \in Machine => CheckedAdd(s.waited, passed) = s.waited + passed
      BY <1>3, CheckedAddIsExact
    <3>2. QED
      BY <1>3, <1>4, <3>1, OverflowAssumption, IntMaxAssumption DEF Machine, IntMin
  <2>2. s.waited + passed > IntMax
    BY <1>1, <1>3, <2>1, IntMaxAssumption DEF Machine, IntMin, Entry, Time
  <2>3. QED
    BY <1>1, <1>3, <2>2, IntMaxAssumption DEF Machine, IntMin, Entry, Time
<1>5. QED
  BY <1>2, <1>4, EpochIsFirst DEF Exhausted

=============================================================================
