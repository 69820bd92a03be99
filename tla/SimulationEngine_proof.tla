------------------------ MODULE SimulationEngine_proof ------------------------
(***************************************************************************)
(* Proofs about SimulationEngine, for any submissions, any costs and any   *)
(* width of numbers: the records of what a request is doing agree after    *)
(* every call and no consistency check ever fires; the arithmetic is       *)
(* exact; tokens come when the cost model says; a simulation fails only    *)
(* because a number does not fit; the engine implements FcfsServer.        *)
(***************************************************************************)
EXTENDS SimulationEngine, FcfsScheduler_proof

-----------------------------------------------------------------------------
(* The invariant, request by request *)

Mine(e, r) == {ev \in e.events : ev.id = r}

\* The pending event of a request is in the queue, and nothing else of the request.
EventKept(e, r) ==
  LET p == e.pending[r]
  IN  IF p = None THEN Mine(e, r) = {}
      ELSE /\ p.seq < e.next
           /\ \E time \in Time :
                /\ time >= e.clock
                /\ Mine(e, r) = {[time |-> time, seq |-> p.seq, id |-> r, type |-> p.type]}
                /\ p.type = "RequestArrival" => time = e.requests[r].arrival

\* Before its arrival a request is unknown to the scheduler, then it is in the queue.
WaitingKept(e, r) ==
  LET req == e.requests[r]
      p == e.pending[r]
      entry == e.sched.entries[r]
  IN  /\ req.admitted = None /\ req.generated = 0
      /\ entry = None => p # None /\ p.type = "RequestArrival" /\ ~p.ignore
      /\ entry # None =>
           /\ p = None /\ entry.state = "Waiting"
           /\ entry.arrival = req.arrival /\ req.arrival <= e.clock

\* The event that is to come suits the phase of an active request.
Suits(req, type) ==
  /\ req.state = "Prefilling" =>
       /\ req.generated = 0
       /\ type = "PrefillComplete" \/ (type = "RequestComplete" /\ req.limit = 0)
  /\ req.state = "Decoding" =>
       \/ type = "DecodeStepComplete" /\ req.generated < req.limit
       \/ type = "RequestComplete" /\ req.generated = req.limit

\* The scheduler runs it since it was admitted.
Runs(e, r) ==
  LET req == e.requests[r]
      entry == e.sched.entries[r]
  IN  /\ entry # None /\ entry.state = "Running"
      /\ entry.admitted = req.admitted /\ req.admitted # None /\ req.admitted <= e.clock

ServedKept(e, r) ==
  LET p == e.pending[r]
  IN  p # None /\ ~p.ignore /\ Suits(e.requests[r], p.type) /\ Runs(e, r)

EndedKept(e, r) ==
  LET req == e.requests[r]
      p == e.pending[r]
      entry == e.sched.entries[r]
  IN  /\ entry # None
      /\ req.state = "Finished" => p = None /\ entry.state = "Completed"
      /\ req.state = "Cancelled" => entry.state = "Cancelled" /\ (p # None => p.ignore)

Served == {"Prefilling", "Decoding"}
Ended == {"Finished", "Cancelled"}

StateKept(e, r) ==
  /\ e.requests[r] = None =>
       e.pending[r] = None /\ e.sched.entries[r] = None /\ e.active # r
  /\ e.requests[r] # None =>
       /\ e.requests[r].state \in {"Waiting"} \cup Served \cup Ended
       /\ e.active = r <=> e.requests[r].state \in Served
       /\ e.requests[r].state = "Waiting" => WaitingKept(e, r)
       /\ e.requests[r].state \in Served => ServedKept(e, r)
       /\ e.requests[r].state \in Ended => EndedKept(e, r)

RequestKept(e, r) == EventKept(e, r) /\ StateKept(e, r)

\* The sequence numbers tell the events apart.
Sequenced(e) ==
  \A a \in e.events : a.seq < e.next /\ \A b \in e.events : a.seq = b.seq => a = b

EngineInv(e) ==
  /\ e \in Engine /\ Ok(e) /\ SchedulerInv(e.sched) /\ Sequenced(e)
  /\ \A r \in Requests : RequestKept(e, r)

\* Between two calls no request waits for an engine that has nothing to do.
WorkConserved(e) == e.active # None \/ e.sched.waiting = {} \/ DueNow(e)

Inv ==
  /\ TypeOK
  /\ engine.failed # "logic_error"
  /\ Ok(engine) => EngineInv(engine)
  /\ Idle => WorkConserved(engine)
  /\ current # None => Ok(engine)

-----------------------------------------------------------------------------
(* Costs and times *)

LEMMA NoneIsNoValue ==
  /\ None \notin Requests /\ None \notin Time /\ None \notin Nat /\ None \notin Entry
  /\ None \notin Request /\ None \notin Pending
  /\ Time \subseteq Nat /\ Requests \subseteq Nat /\ Count \subseteq Nat
<1>1. Time \subseteq Nat /\ Requests \subseteq Nat /\ Count \subseteq Nat
  BY SchedulerAssumption, IntMaxAssumption DEF Time, Count
<1>2. None \notin Nat
  BY SchedulerAssumption
<1>3. None \notin Entry /\ None \notin Request /\ None \notin Pending
  BY EntryAssumption, NoneAssumption
<1>4. QED
  BY <1>1, <1>2, <1>3

LEMMA PlusIsNatural ==
  ASSUME NEW x \in Nat \cup {Overflow}, NEW y \in Nat \cup {Overflow}
  PROVE  /\ Plus(x, y) \in Nat \cup {Overflow}
         /\ Plus(x, y) # Overflow => x \in Nat /\ y \in Nat /\ Plus(x, y) = x + y
         /\ x \in Time /\ Plus(x, y) # Overflow => Plus(x, y) \in Time
         /\ x \in Nat /\ y \in Nat /\ Plus(x, y) = Overflow => x + y > IntMax
<1>1. \A n \in Nat : n # Overflow
  BY OverflowAssumption
<1>2. CASE x = Overflow \/ y = Overflow
  BY <1>1, <1>2 DEF Plus
<1>3. CASE x \in Nat /\ y \in Nat
  <2>1. Plus(x, y) = IF AddOverflows(x, y) THEN Overflow ELSE x + y
    BY <1>1, <1>3 DEF Plus, CheckedAdd
  <2>2. ~AddOverflows(x, y) /\ x \in Time => x + y \in Time
    BY <1>3, IntMaxAssumption DEF AddOverflows, Time
  <2>3. x + y \in Nat /\ x + y # Overflow
    BY <1>1, <1>3
  <2>4. AddOverflows(x, y) => x + y > IntMax
    BY <1>3, IntMaxAssumption DEF AddOverflows
  <2>5. QED
    BY <1>3, <2>1, <2>2, <2>3, <2>4
<1>4. QED
  BY <1>1, <1>2, <1>3

LEMMA TimesIsNatural ==
  ASSUME NEW x \in Nat \cup {Overflow}, NEW y \in Nat \cup {Overflow}
  PROVE  Times(x, y) \in Nat \cup {Overflow}
<1>1. CASE x = Overflow \/ y = Overflow
  BY <1>1 DEF Times
<1>2. CASE x \in Nat /\ y \in Nat
  <2>1. Times(x, y) \in {0, Overflow, x * y}
    <3>1. \A n \in Nat : n # Overflow
      BY OverflowAssumption
    <3>2. Times(x, y) = CheckedMultiply(x, y)
      BY <1>2, <3>1 DEF Times
    <3>3. QED
      BY <3>2 DEF CheckedMultiply
  <2>2. x * y \in Nat
    BY <1>2
  <2>3. QED
    BY <2>1, <2>2
<1>3. QED
  BY <1>1, <1>2

LEMMA EstimatesAreNatural ==
  ASSUME NEW m \in Nat, NEW n \in Nat
  PROVE  /\ EstimatePrefill(m, n) \in Nat \cup {Overflow}
         /\ EstimateDecodeStep(n) \in Nat \cup {Overflow}
<1>1. /\ CheckedCount(m) \in Nat \cup {Overflow} /\ CheckedCount(n) \in Nat \cup {Overflow}
  BY DEF CheckedCount
<1>2. {PrefillBase, PrefillPerToken, PrefillPerSequence, DecodeBase, DecodePerSequence}
        \subseteq Nat
  BY BackendAssumption, IntMaxAssumption DEF ValidConfiguration
<1>3. /\ Times(PrefillPerToken, CheckedCount(m)) \in Nat \cup {Overflow}
      /\ Times(PrefillPerSequence, CheckedCount(n)) \in Nat \cup {Overflow}
      /\ Times(DecodePerSequence, CheckedCount(n)) \in Nat \cup {Overflow}
  BY <1>1, <1>2, TimesIsNatural
<1>4. /\ Plus(PrefillBase, Times(PrefillPerToken, CheckedCount(m))) \in Nat \cup {Overflow}
      /\ Plus(DecodeBase, Times(DecodePerSequence, CheckedCount(n))) \in Nat \cup {Overflow}
  BY <1>2, <1>3, PlusIsNatural
<1>5. QED
  BY <1>3, <1>4, PlusIsNatural DEF EstimatePrefill, EstimateDecodeStep

-----------------------------------------------------------------------------
(* The arithmetic and the cost model *)

\* The test of the code, by division, tells whether the product is too large.
LEMMA DivisionTells ==
  ASSUME NEW n \in Nat, NEW d \in Nat \ {0}, NEW x \in Nat
  PROVE  x > n \div d <=> x * d > n
<1> DEFINE q == n \div d
<1>1. q \in Nat /\ q * d <= n /\ n < q * d + d
  OBVIOUS
<1> HIDE DEF q
<1>2. CASE x > q
  <2>1. x * d >= (q + 1) * d
    BY <1>1, <1>2
  <2>2. QED
    BY <1>1, <1>2, <2>1
<1>3. CASE x <= q
  <2>1. x * d <= q * d
    BY <1>1, <1>3
  <2>2. x * d <= n /\ ~(x > q)
    BY <1>1, <1>3, <2>1
  <2>3. QED
    BY <2>2
<1>4. x > q <=> x * d > n
  BY <1>1, <1>2, <1>3
<1>5. QED
  BY <1>4 DEF q

LEMMA CheckedMultiplyIsExact ==
  ASSUME NEW lhs \in Machine, NEW rhs \in Machine
  PROVE  CheckedMultiply(lhs, rhs) = Representable(lhs * rhs)
<1>1. /\ IntMax \in Nat \ {0} /\ IntMin = -IntMax - 1 /\ IntMin \in Int
      /\ lhs \in Int /\ rhs \in Int /\ lhs * rhs \in Int
  BY IntMaxAssumption DEF IntMin, Machine
<1>2. CASE lhs = 0 \/ rhs = 0
  <2>1. lhs * rhs = 0 /\ 0 \in Machine
    BY <1>1, <1>2 DEF Machine
  <2>2. QED
    BY <1>2, <2>1 DEF CheckedMultiply, Representable
<1>3. ASSUME lhs # 0, rhs # 0
      PROVE  MultiplyOverflows(lhs, rhs) <=> lhs * rhs \notin Machine
  <2>1. lhs * rhs \notin Machine <=> lhs * rhs > IntMax \/ lhs * rhs < IntMin
    BY <1>1 DEF Machine
  <2>2. CASE lhs > 0 /\ rhs > 0
    <3>1. MultiplyOverflows(lhs, rhs) <=> lhs > IntMax \div rhs
      BY <1>1, <2>2 DEF MultiplyOverflows, Quotient, Magnitude
    <3>2. lhs > IntMax \div rhs <=> lhs * rhs > IntMax
      BY <1>1, <2>2, DivisionTells
    <3>3. lhs * rhs > 0
      BY <1>1, <2>2
    <3>4. QED
      BY <1>1, <2>1, <3>1, <3>2, <3>3
  <2>3. CASE lhs > 0 /\ rhs < 0
    <3>1. Quotient(IntMin, lhs) = -((IntMax + 1) \div lhs)
      BY <1>1, <2>3 DEF Quotient, Magnitude
    <3>2. -rhs > (IntMax + 1) \div lhs <=> (-rhs) * lhs > IntMax + 1
      BY <1>1, <2>3, DivisionTells
    <3>3. (-rhs) * lhs = -(lhs * rhs) /\ lhs * rhs < 0 /\ (IntMax + 1) \div lhs \in Nat
      BY <1>1, <2>3
    <3>4. MultiplyOverflows(lhs, rhs) <=> rhs < Quotient(IntMin, lhs)
      BY <1>1, <2>3 DEF MultiplyOverflows
    <3>5. QED
      BY <1>1, <2>1, <3>1, <3>2, <3>3, <3>4
  <2>4. CASE lhs < 0 /\ rhs > 0
    <3>1. Quotient(IntMin, rhs) = -((IntMax + 1) \div rhs)
      BY <1>1, <2>4 DEF Quotient, Magnitude
    <3>2. -lhs > (IntMax + 1) \div rhs <=> (-lhs) * rhs > IntMax + 1
      BY <1>1, <2>4, DivisionTells
    <3>3. (-lhs) * rhs = -(lhs * rhs) /\ lhs * rhs < 0 /\ (IntMax + 1) \div rhs \in Nat
      BY <1>1, <2>4
    <3>4. MultiplyOverflows(lhs, rhs) <=> lhs < Quotient(IntMin, rhs)
      BY <1>1, <2>4 DEF MultiplyOverflows
    <3>5. QED
      BY <1>1, <2>1, <3>1, <3>2, <3>3, <3>4
  <2>5. CASE lhs < 0 /\ rhs < 0
    <3>1. Quotient(IntMax, rhs) = -(IntMax \div (-rhs))
      BY <1>1, <2>5 DEF Quotient, Magnitude
    <3>2. -lhs > IntMax \div (-rhs) <=> (-lhs) * (-rhs) > IntMax
      BY <1>1, <2>5, DivisionTells
    <3>3. (-lhs) * (-rhs) = lhs * rhs /\ lhs * rhs > 0 /\ IntMax \div (-rhs) \in Nat
      BY <1>1, <2>5
    <3>4. MultiplyOverflows(lhs, rhs) <=>
            \/ lhs = -1 /\ rhs = IntMin
            \/ rhs = -1 /\ lhs = IntMin
            \/ lhs < Quotient(IntMax, rhs)
      BY <1>1, <2>5 DEF MultiplyOverflows
    <3>5. /\ lhs = -1 /\ rhs = IntMin => lhs * rhs > IntMax
          /\ rhs = -1 /\ lhs = IntMin => lhs * rhs > IntMax
      BY <1>1
    <3>6. lhs < Quotient(IntMax, rhs) <=> lhs * rhs > IntMax
      BY <1>1, <3>1, <3>2, <3>3
    <3>7. MultiplyOverflows(lhs, rhs) <=> lhs * rhs > IntMax
      BY ONLY <3>4, <3>5, <3>6
    <3>8. ~(lhs * rhs < IntMin)
      BY <1>1, <3>3
    <3>9. QED
      BY <2>1, <3>7, <3>8
  <2>6. QED
    BY <1>1, <1>3, <2>2, <2>3, <2>4, <2>5
<1>4. QED
  BY <1>2, <1>3 DEF CheckedMultiply, Representable

\* As long as nothing is negative an overflow on the way means that the whole is too large.
LEMMA PlusIsExact ==
  ASSUME NEW m \in Nat, NEW n \in Nat
  PROVE  Plus(Representable(m), Representable(n)) = Representable(m + n)
<1>1. \A k \in Nat : k \in Machine <=> k <= IntMax
  BY IntMaxAssumption DEF Machine, IntMin
<1>2. \A k \in Machine : k # Overflow
  BY OverflowAssumption, IntMaxAssumption DEF Machine, IntMin
<1>3. CASE m \in Machine /\ n \in Machine
  BY <1>2, <1>3, CheckedAddIsExact DEF Plus, Representable
<1>4. CASE m \notin Machine \/ n \notin Machine
  <2>1. m + n \in Nat /\ ~(m + n <= IntMax)
    BY <1>1, <1>4, IntMaxAssumption
  <2>2. QED
    BY <1>1, <1>4, <2>1 DEF Plus, Representable
<1>5. QED
  BY <1>3, <1>4

LEMMA CostIsExact ==
  ASSUME NEW rate \in 0 .. IntMax, NEW n \in Nat
  PROVE  /\ n <= IntMax => Times(rate, CheckedCount(n)) = Representable(rate * n)
         /\ n > IntMax => Times(rate, CheckedCount(n)) = Overflow
         /\ rate * n \in Nat
<1>1. rate \in Nat /\ rate \in Machine /\ (n <= IntMax => n \in Machine)
  BY IntMaxAssumption DEF Machine, IntMin
<1>2. \A k \in Machine : k # Overflow
  BY OverflowAssumption, IntMaxAssumption DEF Machine, IntMin
<1>3. n <= IntMax => Times(rate, CheckedCount(n)) = Representable(rate * n)
  BY <1>1, <1>2, IntMaxAssumption, CheckedMultiplyIsExact DEF Times, CheckedCount
<1>4. n > IntMax => Times(rate, CheckedCount(n)) = Overflow
  BY DEF Times, CheckedCount
<1>5. QED
  BY <1>1, <1>3, <1>4

LEMMA RatesAreExact ==
  /\ {PrefillBase, PrefillPerToken, PrefillPerSequence, DecodeBase, DecodePerSequence,
      BatchBase, BatchPerToken, BatchPerDecode, BatchPerSequence} \subseteq 0 .. IntMax
  /\ 0 .. IntMax \subseteq Nat
  /\ \A rate \in 0 .. IntMax : rate = Representable(rate)
<1>1. 0 .. IntMax \subseteq Nat /\ 0 .. IntMax \subseteq Machine
  BY IntMaxAssumption DEF Machine, IntMin
<1>2. QED
  BY <1>1, BackendAssumption DEF ValidConfiguration, Representable

LEMMA PrefillIsExact ==
  ASSUME NEW m \in Nat, NEW n \in Nat
  PROVE  EstimatePrefill(m, n) =
           ExactCost({m, n}, PrefillBase + PrefillPerToken * m + PrefillPerSequence * n)
<1> DEFINE a == PrefillPerToken * m
           b == PrefillPerSequence * n
<1>1. IntMax \in Nat
  BY IntMaxAssumption
<1>2. CASE m <= IntMax /\ n <= IntMax
  <2>1. /\ Times(PrefillPerToken, CheckedCount(m)) = Representable(a)
        /\ Times(PrefillPerSequence, CheckedCount(n)) = Representable(b)
        /\ a \in Nat /\ b \in Nat /\ PrefillBase \in Nat
        /\ PrefillBase = Representable(PrefillBase)
    BY <1>2, CostIsExact, RatesAreExact
  <2>2. ExactCost({m, n}, PrefillBase + a + b) = Representable(PrefillBase + a + b)
    BY <1>1, <1>2 DEF ExactCost
  <2> HIDE DEF a, b
  <2>3. PrefillBase + a \in Nat
    BY <2>1
  <2>4. Plus(Plus(Representable(PrefillBase), Representable(a)), Representable(b))
          = Representable(PrefillBase + a + b)
    BY <2>1, <2>3, PlusIsExact
  <2>5. EstimatePrefill(m, n) = Representable(PrefillBase + a + b)
    BY <2>1, <2>4 DEF EstimatePrefill
  <2>6. QED
    BY <2>2, <2>5 DEF a, b
<1>3. CASE ~(m <= IntMax /\ n <= IntMax)
  <2>1. \/ Times(PrefillPerToken, CheckedCount(m)) = Overflow
        \/ Times(PrefillPerSequence, CheckedCount(n)) = Overflow
    BY <1>1, <1>3, CostIsExact, RatesAreExact
  <2>2. EstimatePrefill(m, n) = Overflow
    BY <2>1 DEF EstimatePrefill, Plus
  <2>3. \E k \in {m, n} : k > IntMax
    BY <1>1, <1>3
  <2>4. QED
    BY <2>2, <2>3 DEF ExactCost
<1>4. QED
  BY <1>2, <1>3

LEMMA DecodeStepIsExact ==
  ASSUME NEW n \in Nat
  PROVE  EstimateDecodeStep(n) = ExactCost({n}, DecodeBase + DecodePerSequence * n)
<1>1. IntMax \in Nat
  BY IntMaxAssumption
<1>2. CASE n <= IntMax
  <2>1. /\ Times(DecodePerSequence, CheckedCount(n)) = Representable(DecodePerSequence * n)
        /\ DecodePerSequence * n \in Nat /\ DecodeBase \in Nat
        /\ DecodeBase = Representable(DecodeBase)
    BY <1>2, CostIsExact, RatesAreExact
  <2>2. Plus(Representable(DecodeBase), Representable(DecodePerSequence * n))
          = Representable(DecodeBase + DecodePerSequence * n)
    BY <2>1, PlusIsExact
  <2>3. EstimateDecodeStep(n) = Representable(DecodeBase + DecodePerSequence * n)
    BY <2>1, <2>2 DEF EstimateDecodeStep
  <2>4. QED
    BY <1>1, <1>2, <2>3 DEF ExactCost
<1>3. CASE ~(n <= IntMax)
  <2>1. Times(DecodePerSequence, CheckedCount(n)) = Overflow
    BY <1>1, <1>3, CostIsExact, RatesAreExact
  <2>2. EstimateDecodeStep(n) = Overflow
    BY <2>1 DEF EstimateDecodeStep, Plus
  <2>3. QED
    BY <1>1, <1>3, <2>2 DEF ExactCost
<1>4. QED
  BY <1>2, <1>3

LEMMA BatchTimeIsExact ==
  ASSUME NEW m \in Nat, NEW d \in Nat, NEW n \in Nat
  PROVE  EstimateBatchTime(m, d, n) =
           ExactCost({m, d, n}, BatchBase + BatchPerToken * m + BatchPerDecode * d
                                  + BatchPerSequence * n)
<1> DEFINE a == BatchPerToken * m
           b == BatchPerDecode * d
           c == BatchPerSequence * n
<1>1. IntMax \in Nat
  BY IntMaxAssumption
<1>2. CASE m <= IntMax /\ d <= IntMax /\ n <= IntMax
  <2>1. /\ Times(BatchPerToken, CheckedCount(m)) = Representable(a)
        /\ Times(BatchPerDecode, CheckedCount(d)) = Representable(b)
        /\ Times(BatchPerSequence, CheckedCount(n)) = Representable(c)
        /\ a \in Nat /\ b \in Nat /\ c \in Nat /\ BatchBase \in Nat
        /\ BatchBase = Representable(BatchBase)
    BY <1>2, CostIsExact, RatesAreExact
  <2>2. ExactCost({m, d, n}, BatchBase + a + b + c) = Representable(BatchBase + a + b + c)
    BY <1>1, <1>2 DEF ExactCost
  <2> HIDE DEF a, b, c
  <2>3. BatchBase + a \in Nat /\ BatchBase + a + b \in Nat
    BY <2>1
  <2>4. Plus(Plus(Plus(Representable(BatchBase), Representable(a)), Representable(b)),
             Representable(c))
          = Representable(BatchBase + a + b + c)
    BY <2>1, <2>3, PlusIsExact
  <2>5. EstimateBatchTime(m, d, n) = Representable(BatchBase + a + b + c)
    BY <2>1, <2>4 DEF EstimateBatchTime
  <2>6. QED
    BY <2>2, <2>5 DEF a, b, c
<1>3. CASE ~(m <= IntMax /\ d <= IntMax /\ n <= IntMax)
  <2>1. \/ Times(BatchPerToken, CheckedCount(m)) = Overflow
        \/ Times(BatchPerDecode, CheckedCount(d)) = Overflow
        \/ Times(BatchPerSequence, CheckedCount(n)) = Overflow
    BY <1>1, <1>3, CostIsExact, RatesAreExact
  <2>2. EstimateBatchTime(m, d, n) = Overflow
    BY <2>1 DEF EstimateBatchTime, Plus
  <2>3. \E k \in {m, d, n} : k > IntMax
    BY <1>1, <1>3
  <2>4. QED
    BY <2>2, <2>3 DEF ExactCost
<1>4. QED
  BY <1>2, <1>3

\* The checked arithmetic and the cost model are exact for integers of any width: a result
\* is the mathematical one, or it does not fit and the call throws.
THEOREM BackendExact ==
  BackendIsExact
<1>1. Unsigned \subseteq Nat
  BY DEF Unsigned
<1>2. \A lhs, rhs \in Machine :
        /\ CheckedAdd(lhs, rhs) = Representable(lhs + rhs)
        /\ CheckedMultiply(lhs, rhs) = Representable(lhs * rhs)
  BY CheckedAddIsExact, CheckedMultiplyIsExact DEF Representable
<1>3. ASSUME NEW m \in Unsigned, NEW n \in Unsigned \ {0}
      PROVE  /\ EstimatePrefill(m, n) =
                  ExactCost({m, n}, PrefillBase + PrefillPerToken * m + PrefillPerSequence * n)
             /\ EstimateDecodeStep(n) = ExactCost({n}, DecodeBase + DecodePerSequence * n)
             /\ \A decodes \in 0 .. n :
                  EstimateBatchTime(m, decodes, n) =
                    ExactCost({m, decodes, n}, BatchBase + BatchPerToken * m
                                                 + BatchPerDecode * decodes + BatchPerSequence * n)
  <2>1. m \in Nat /\ n \in Nat /\ \A decodes \in 0 .. n : decodes \in Nat
    BY <1>1
  <2>2. QED
    BY <2>1, PrefillIsExact, DecodeStepIsExact, BatchTimeIsExact
<1>4. QED
  BY <1>2, <1>3 DEF BackendIsExact

LEMMA EstimatesTell ==
  ASSUME NEW req \in Request
  PROVE  /\ PrefillTime(req) \in Nat /\ StepTime \in Nat
         /\ EstimatePrefill(req.prompt, 1) = IF req.prompt > IntMax \/ PrefillTime(req) > IntMax
                                             THEN Overflow ELSE PrefillTime(req)
         /\ EstimateDecodeStep(1) = IF StepTime > IntMax THEN Overflow ELSE StepTime
<1>1. req.prompt \in Nat /\ IntMax \in Nat \ {0}
  BY IntMaxAssumption DEF Request
<1>2. /\ PrefillPerToken * req.prompt \in Nat /\ PrefillBase \in Nat
      /\ PrefillPerSequence \in Nat /\ DecodeBase \in Nat /\ DecodePerSequence \in Nat
      /\ PrefillPerSequence * 1 = PrefillPerSequence /\ DecodePerSequence * 1 = DecodePerSequence
  BY <1>1, CostIsExact, RatesAreExact
<1>3. PrefillTime(req) \in Nat /\ StepTime \in Nat
  BY <1>2 DEF PrefillTime, StepTime
<1>4. \A n \in Nat : Representable(n) = IF n > IntMax THEN Overflow ELSE n
  BY <1>1 DEF Representable, Machine, IntMin
<1>5. EstimatePrefill(req.prompt, 1) = ExactCost({req.prompt, 1}, PrefillTime(req))
  BY <1>1, <1>2, PrefillIsExact DEF PrefillTime
<1>6. EstimateDecodeStep(1) = ExactCost({1}, StepTime)
  BY <1>2, DecodeStepIsExact DEF StepTime
<1>7. QED
  BY <1>1, <1>3, <1>4, <1>5, <1>6 DEF ExactCost

-----------------------------------------------------------------------------
(* The event queue *)

\* The first event: by time, then by sequence number.
LEMMA TopIsFirst ==
  ASSUME NEW events, events \subseteq Event, events # {},
         \A a, b \in events : a.seq = b.seq => a = b
  PROVE  /\ Top(events) \in events
         /\ \A other \in events : Top(events).time <= other.time
<1> DEFINE times == {ev.time : ev \in events}
<1>1. \A ev \in events : ev.time \in Nat /\ ev.seq \in Nat
  BY NoneIsNoValue DEF Event
<1>2. PICK earliest \in times : \A time \in times : earliest <= time
  <2>1. times \subseteq Nat /\ times # {}
    BY <1>1
  <2> HIDE DEF times
  <2>2. QED
    BY <2>1, LeastNatural
<1> DEFINE seqs == {ev.seq : ev \in {other \in events : other.time = earliest}}
<1>3. PICK least \in seqs : \A seq \in seqs : least <= seq
  <2>1. seqs \subseteq Nat /\ seqs # {}
    BY <1>1, <1>2
  <2> HIDE DEF seqs
  <2>2. QED
    BY <2>1, LeastNatural
<1>4. PICK ev \in events : ev.time = earliest /\ ev.seq = least
  OBVIOUS
<1> DEFINE First(a) == \A other \in events \ {a} :
                         \/ a.time < other.time
                         \/ a.time = other.time /\ a.seq < other.seq
<1>5. ASSUME NEW other \in events \ {ev}
      PROVE  \/ ev.time < other.time
             \/ ev.time = other.time /\ ev.seq < other.seq
  <2>1. earliest <= other.time
    BY <1>2
  <2>2. other.time = earliest => least <= other.seq
    BY <1>3
  <2>3. other.seq # least
    BY <1>4
  <2>4. QED
    BY <1>1, <1>4, <2>1, <2>2, <2>3
<1>6. First(ev)
  BY <1>5
<1>7. Top(events) \in events /\ First(Top(events))
  BY <1>4, <1>6, Zenon DEF Top
<1>8. QED
  BY <1>1, <1>7

-----------------------------------------------------------------------------
(* The helpers of the handlers *)

\* An engine in which everything is in order but, perhaps, what concerns r.
AllBut(e, r) ==
  /\ e \in Engine /\ Ok(e) /\ SchedulerInv(e.sched) /\ Sequenced(e)
  /\ \A q \in Requests \ {r} : RequestKept(e, q)

\* The others do not notice what happens to r.
OthersSame(e, t, r) ==
  \A q \in Requests \ {r} :
    /\ t.requests[q] = e.requests[q] /\ t.pending[q] = e.pending[q]
    /\ t.sched.entries[q] = e.sched.entries[q]
    /\ t.active = q <=> e.active = q
    /\ Mine(t, q) = Mine(e, q)

LEMMA NextIsNatural ==
  ASSUME NEW e \in Engine
  PROVE  e.next \in Nat
BY NoneIsNoValue DEF Engine

LEMMA OthersKept ==
  ASSUME NEW e, NEW r \in Requests, AllBut(e, r), NEW t \in Engine, t.clock = e.clock,
         e.next <= t.next, OthersSame(e, t, r)
  PROVE  \A q \in Requests \ {r} : RequestKept(t, q)
<1> TAKE q \in Requests \ {r}
<1>1. RequestKept(e, q) /\ e \in Engine
  BY DEF AllBut
<1>2. /\ t.requests[q] = e.requests[q] /\ t.pending[q] = e.pending[q]
      /\ t.sched.entries[q] = e.sched.entries[q]
      /\ t.active = q <=> e.active = q
      /\ Mine(t, q) = Mine(e, q)
  BY DEF OthersSame
<1>3. EventKept(t, q)
  <2>1. EventKept(e, q)
    BY <1>1 DEF RequestKept
  <2>2. e.pending[q] # None => e.pending[q].seq < t.next
    <3>1. e.next \in Nat /\ t.next \in Nat
      BY <1>1, NoneIsNoValue DEF Engine
    <3>2. e.pending[q] # None => e.pending[q].seq \in Nat
      BY <1>1, NoneIsNoValue DEF Engine, Pending
    <3>3. QED
      BY <2>1, <3>1, <3>2 DEF EventKept
  <2>3. QED
    BY <1>2, <2>1, <2>2 DEF EventKept
<1>4. StateKept(t, q)
  BY <1>1, <1>2 DEF RequestKept, StateKept, WaitingKept, ServedKept, Runs, EndedKept
<1>5. QED
  BY <1>3, <1>4 DEF RequestKept

LEMMA Restored ==
  ASSUME NEW e, NEW r \in Requests, AllBut(e, r), NEW t \in Engine, Ok(t),
         SchedulerInv(t.sched), Sequenced(t), t.clock = e.clock, e.next <= t.next,
         OthersSame(e, t, r), RequestKept(t, r)
  PROVE  EngineInv(t)
BY OthersKept DEF EngineInv

LEMMA Moves ==
  ASSUME NEW limit
  PROVE  /\ MayBecome("Waiting", "Prefilling", limit)
         /\ MayBecome("Prefilling", "Decoding", limit)
         /\ limit = 0 => MayBecome("Prefilling", "Finished", limit)
         /\ MayBecome("Decoding", "Finished", limit)
         /\ \A state \in {"Waiting"} \cup Served : MayBecome(state, "Cancelled", limit)
         /\ Terminal = Ended
<1>1. /\ Successors["Waiting"] = {"Prefilling", "Cancelled"}
      /\ Successors["Prefilling"] = {"Decoding", "Finished", "Preempted", "Cancelled"}
      /\ Successors["Decoding"] = {"Finished", "Preempted", "Cancelled"}
      /\ Successors["Preempted"] = {"Waiting", "Cancelled"}
      /\ Successors["Finished"] = {} /\ Successors["Cancelled"] = {}
  BY DEF Successors
<1>2. Terminal = Ended
  BY <1>1 DEF Terminal, Ended, RequestState
<1>3. QED
  BY <1>1, <1>2 DEF MayBecome, Served

LEMMA FailIs ==
  ASSUME NEW e \in Engine, NEW cause
  PROVE  Fail(e, cause).failed = cause
BY DEF Fail, Engine

\* schedule_request_event puts one event into the queue.
ScheduledIs(e, t, r, time, type) ==
  /\ t \in Engine /\ Ok(t) /\ Sequenced(t)
  /\ t.clock = e.clock /\ t.requests = e.requests /\ t.active = e.active /\ t.sched = e.sched
  /\ t.next = e.next + 1 /\ e.next \in Nat
  /\ t.pending[r] = [seq |-> e.next, type |-> type, ignore |-> FALSE] /\ t.pending[r] # None
  /\ Mine(t, r) = {[time |-> time, seq |-> e.next, id |-> r, type |-> type]}
  /\ \A q \in Requests \ {r} : t.pending[q] = e.pending[q] /\ Mine(t, q) = Mine(e, q)

LEMMA Scheduling ==
  ASSUME NEW e \in Engine, Ok(e), Sequenced(e), NEW r \in Requests, e.pending[r] = None,
         Mine(e, r) = {}, NEW time \in Time, NEW type \in EventType,
         NEW t, t = ScheduleRequestEvent(e, time, r, type)
  PROVE  /\ t.failed \in {"no", "overflow"}
         /\ Ok(t) => ScheduledIs(e, t, r, time, type)
         /\ ~Ok(t) => e.next = CounterLimit
<1> DEFINE ev == [time |-> time, seq |-> e.next, id |-> r, type |-> type]
           p == [seq |-> e.next, type |-> type, ignore |-> FALSE]
<1>1. CASE e.next = CounterLimit
  <2>1. t = Fail(e, "overflow")
    BY <1>1 DEF ScheduleRequestEvent
  <2>2. QED
    BY <1>1, <2>1, FailIs DEF Ok
<1>2. CASE e.next # CounterLimit
  <2>1. t = [e EXCEPT !.events = @ \cup {ev}, !.pending[r] = p, !.next = @ + 1]
    BY <1>2 DEF ScheduleRequestEvent
  <2>2. e.next \in Nat /\ e.next + 1 \in Count
    BY <1>2, SchedulerAssumption DEF Engine, Count
  <2>3. ev \in Event /\ p \in Pending
    BY DEF Event, Pending, Engine
  <2>4. ev.seq = e.next /\ ev.id = r
    OBVIOUS
  <2> HIDE DEF ev, p
  <2>5. /\ t \in Engine /\ t.failed = e.failed
        /\ t.clock = e.clock /\ t.requests = e.requests /\ t.active = e.active
        /\ t.sched = e.sched /\ t.next = e.next + 1
        /\ t.events = e.events \cup {ev} /\ t.pending = [e.pending EXCEPT ![r] = p]
    <3>1. e.events \cup {ev} \in SUBSET Event
      BY <2>3 DEF Engine
    <3>2. [e.pending EXCEPT ![r] = p] \in [Requests -> Pending \cup {None}]
      BY <2>3 DEF Engine
    <3> DEFINE events == e.events \cup {ev}
               pending == [e.pending EXCEPT ![r] = p]
    <3>3. t = [e EXCEPT !.events = events, !.pending = pending, !.next = e.next + 1]
      BY <2>1
    <3> HIDE DEF events, pending
    <3>4. t \in Engine /\ t.events = events /\ t.pending = pending /\ t.next = e.next + 1
      BY <2>2, <3>1, <3>2, <3>3 DEF Engine, events, pending
    <3>5. /\ t.failed = e.failed /\ t.clock = e.clock /\ t.requests = e.requests
          /\ t.active = e.active /\ t.sched = e.sched
      BY <3>3 DEF Engine
    <3>6. QED
      BY <3>4, <3>5 DEF events, pending
  <2>6. /\ t.pending[r] = p /\ p # None
        /\ \A q \in Requests \ {r} : t.pending[q] = e.pending[q]
    BY <2>3, <2>5, NoneIsNoValue DEF Engine
  <2>7. Mine(t, r) = {ev} /\ \A q \in Requests \ {r} : Mine(t, q) = Mine(e, q)
    BY <2>4, <2>5 DEF Mine
  <2>8. Sequenced(t)
    <3>1. \A a \in e.events : a.seq < e.next /\ a.seq \in Nat
      BY NoneIsNoValue DEF Sequenced, Engine, Event
    <3>2. \A a \in t.events : a.seq < t.next
      BY <2>2, <2>4, <2>5, <3>1
    <3>3. \A a, b \in t.events : a.seq = b.seq => a = b
      <4>1. \A a, b \in e.events : a.seq = b.seq => a = b
        BY DEF Sequenced
      <4>2. \A a \in e.events : a.seq # ev.seq
        BY <2>2, <2>4, <3>1
      <4>3. QED
        BY <2>5, <4>1, <4>2
    <3>4. QED
      BY <3>2, <3>3 DEF Sequenced
  <2>9. Ok(t)
    BY <2>5 DEF Ok
  <2>10. QED
    BY <2>2, <2>5, <2>6, <2>7, <2>8, <2>9 DEF ScheduledIs, Ok, ev, p
<1>3. QED
  BY <1>1, <1>2

LEMMA SchedulingAfter ==
  ASSUME NEW e \in Engine, Ok(e), Sequenced(e), NEW r \in Requests, e.pending[r] = None,
         Mine(e, r) = {}, NEW cost \in Nat \cup {Overflow}, NEW type \in EventType,
         NEW t, t = ScheduleAfter(e, cost, r, type)
  PROVE  /\ t.failed \in {"no", "overflow"}
         /\ Ok(t) => \E time \in Time : /\ time >= e.clock /\ cost \in Nat /\ time = e.clock + cost
                                        /\ ScheduledIs(e, t, r, time, type)
         /\ ~Ok(t) => e.next = CounterLimit \/ cost = Overflow \/ e.clock + cost > IntMax
<1> DEFINE time == Plus(e.clock, cost)
<1>1. e.clock \in Time /\ e.clock \in Nat
  BY NoneIsNoValue DEF Engine
<1>2. time # Overflow => cost \in Nat /\ time = e.clock + cost /\ time \in Time
  BY <1>1, PlusIsNatural
<1>3. CASE time = Overflow
  <2>1. t = Fail(e, "overflow")
    BY <1>3 DEF ScheduleAfter
  <2>2. cost = Overflow \/ e.clock + cost > IntMax
    BY <1>1, <1>3, PlusIsNatural
  <2>3. QED
    BY <2>1, <2>2, FailIs DEF Ok
<1>4. CASE time # Overflow
  <2>1. t = ScheduleRequestEvent(e, time, r, type)
    BY <1>4 DEF ScheduleAfter
  <2>2. time \in Time /\ time >= e.clock /\ cost \in Nat /\ time = e.clock + cost
    BY <1>1, <1>2, <1>4
  <2> HIDE DEF time
  <2>3. /\ t.failed \in {"no", "overflow"}
        /\ Ok(t) => ScheduledIs(e, t, r, time, type)
        /\ ~Ok(t) => e.next = CounterLimit
    BY <2>1, <2>2, Scheduling
  <2>4. QED
    BY <2>2, <2>3
<1>5. QED
  BY <1>3, <1>4

\* A notification that the scheduler accepts changes only the scheduler.
NotifiedIs(e, t, sched) ==
  /\ t \in Engine /\ Ok(t) /\ t.sched = sched
  /\ t.clock = e.clock /\ t.events = e.events /\ t.next = e.next
  /\ t.ignored = e.ignored /\ t.requests = e.requests
  /\ t.pending = e.pending /\ t.active = e.active

LEMMA Notifying ==
  ASSUME NEW e \in Engine, Ok(e), NEW reply, reply.outcome \in {"ok", "overflow"},
         reply.sched \in Scheduler, NEW t, t = Notified(e, reply)
  PROVE  /\ t.failed \in {"no", "overflow"}
         /\ Ok(t) => reply.outcome = "ok" /\ NotifiedIs(e, t, reply.sched)
         /\ ~Ok(t) => reply.outcome = "overflow"
<1>1. CASE reply.outcome = "overflow"
  <2>1. t = Fail(e, "overflow")
    BY <1>1 DEF Notified
  <2>2. QED
    BY <1>1, <2>1, FailIs DEF Ok
<1>2. CASE reply.outcome = "ok"
  <2>1. t = [e EXCEPT !.sched = reply.sched]
    BY <1>2 DEF Notified
  <2>2. t \in Engine /\ t.sched = reply.sched
    BY <2>1 DEF Engine
  <2>3. /\ t.failed = e.failed /\ t.clock = e.clock /\ t.events = e.events /\ t.next = e.next
        /\ t.requests = e.requests /\ t.pending = e.pending /\ t.active = e.active
        /\ t.ignored = e.ignored
    BY <2>1 DEF Engine
  <2>4. QED
    BY <1>2, <2>2, <2>3 DEF NotifiedIs, Ok
<1>3. QED
  BY <1>1, <1>2

\* The record of r becomes req, and nothing else of the engine changes.
RequestIs(e, t, r, req) ==
  /\ t \in Engine /\ t.failed = e.failed
  /\ t.clock = e.clock /\ t.events = e.events /\ t.next = e.next
  /\ t.ignored = e.ignored
  /\ t.pending = e.pending /\ t.active = e.active /\ t.sched = e.sched
  /\ t.requests[r] = req
  /\ \A q \in Requests \ {r} : t.requests[q] = e.requests[q]

LEMMA Rewriting ==
  ASSUME NEW e \in Engine, NEW r \in Requests, NEW req \in Request, NEW t,
         t = [e EXCEPT !.requests = [e.requests EXCEPT ![r] = req]]
  PROVE  RequestIs(e, t, r, req)
<1> DEFINE requests == [e.requests EXCEPT ![r] = req]
<1>1. requests \in [Requests -> Request \cup {None}]
  BY DEF Engine
<1>2. requests[r] = req /\ \A q \in Requests \ {r} : requests[q] = e.requests[q]
  BY DEF Engine
<1>3. t = [e EXCEPT !.requests = requests]
  OBVIOUS
<1> HIDE DEF requests
<1>4. t \in Engine /\ t.requests = requests
  BY <1>1, <1>3 DEF Engine
<1>5. /\ t.failed = e.failed /\ t.clock = e.clock /\ t.events = e.events /\ t.next = e.next
      /\ t.pending = e.pending /\ t.active = e.active /\ t.sched = e.sched
      /\ t.ignored = e.ignored
  BY <1>3 DEF Engine
<1>6. QED
  BY <1>2, <1>4, <1>5 DEF RequestIs

LEMMA Becoming ==
  ASSUME NEW e \in Engine, Ok(e), NEW r \in Requests, e.requests[r] # None,
         NEW state \in RequestState, MayBecome(e.requests[r].state, state, e.requests[r].limit),
         NEW t, t = TransitionTo(e, r, state)
  PROVE  Ok(t) /\ RequestIs(e, t, r, [e.requests[r] EXCEPT !.state = state])
<1>1. e.requests[r] \in Request
  BY DEF Engine
<1> DEFINE req == [e.requests[r] EXCEPT !.state = state]
<1>2. req \in Request
  BY <1>1 DEF Request
<1>3. t = [e EXCEPT !.requests = [e.requests EXCEPT ![r] = req]]
  BY DEF TransitionTo
<1>4. RequestIs(e, t, r, req)
  BY <1>2, <1>3, Rewriting
<1>5. QED
  BY <1>4 DEF RequestIs, Ok

\* The record of r becomes req and the active request changes.
SettledIs(e, t, r, req, active) ==
  /\ t \in Engine /\ t.failed = e.failed
  /\ t.clock = e.clock /\ t.events = e.events /\ t.next = e.next
  /\ t.ignored = e.ignored
  /\ t.pending = e.pending /\ t.active = active /\ t.sched = e.sched
  /\ t.requests[r] = req
  /\ \A q \in Requests \ {r} : t.requests[q] = e.requests[q]

LEMMA Settling ==
  ASSUME NEW e \in Engine, NEW r \in Requests, NEW req \in Request,
         NEW active \in Requests \cup {None}, NEW t,
         t = [e EXCEPT !.requests = [e.requests EXCEPT ![r] = req], !.active = active]
  PROVE  SettledIs(e, t, r, req, active)
<1> DEFINE u == [e EXCEPT !.requests = [e.requests EXCEPT ![r] = req]]
<1>1. RequestIs(e, u, r, req)
  BY Rewriting
<1>2. t = [u EXCEPT !.active = active]
  BY DEF Engine
<1> HIDE DEF u
<1>3. u \in Engine
  BY <1>1 DEF RequestIs
<1>4. t \in Engine /\ t.active = active
  BY <1>2, <1>3 DEF Engine
<1>5. /\ t.failed = u.failed /\ t.clock = u.clock /\ t.events = u.events /\ t.next = u.next
      /\ t.pending = u.pending /\ t.requests = u.requests /\ t.sched = u.sched
      /\ t.ignored = u.ignored
  BY <1>2, <1>3 DEF Engine
<1>6. QED
  BY <1>1, <1>4, <1>5 DEF RequestIs, SettledIs

-----------------------------------------------------------------------------
(* What a handler does to one request *)

\* The record of r becomes req; the other requests keep their records and their events.
Moved(e, t, r, req) ==
  /\ t.clock = e.clock /\ t.requests[r] = req
  /\ \A q \in Requests \ {r} : t.requests[q] = e.requests[q] /\ Mine(t, q) = Mine(e, q)

\* The event of r, if it has one.
Due(t, r, time, type) == \A ev \in Mine(t, r) : ev.time = time /\ ev.type = type

\* A number that the call needs is at its limit or beyond it.
AtLimit(e) == CounterLimit \in {e.next, e.ignored, e.sched.epoch}
Exceeded(e) == AtLimit(e) \/ BeyondRange(e)

Started(e, t, r) ==
  LET req == e.requests[r] IN
  /\ Moved(e, t, r, [req EXCEPT !.state = "Prefilling", !.admitted = e.clock])
  /\ Due(t, r, e.clock + PrefillTime(req), "PrefillComplete")

-----------------------------------------------------------------------------
(* A request starts *)

Sound(t) == t.failed \in {"no", "overflow"} /\ (Ok(t) => EngineInv(t))

\* The scheduler's view of a request tells its state.
LEMMA EntryTells ==
  ASSUME NEW e, EngineInv(e), NEW r \in Requests, e.sched.entries[r] # None
  PROVE  /\ e.requests[r] # None
         /\ e.sched.entries[r].state = "Waiting" =>
              e.requests[r].state = "Waiting" /\ e.active # r
         /\ e.sched.entries[r].state = "Running" => e.active = r
<1>1. RequestKept(e, r)
  BY DEF EngineInv
<1>2. QED
  BY <1>1 DEF RequestKept, StateKept, WaitingKept, ServedKept, Runs, EndedKept, Served, Ended

LEMMA NoneIsRunning ==
  ASSUME NEW e, EngineInv(e), e.active = None
  PROVE  InState(e.sched, "Running") = {}
<1>1. \A r \in Requests : e.active # r
  BY NoneIsNoValue
<1>2. QED
  BY <1>1, EntryTells DEF InState

LEMMA Starting ==
  ASSUME NEW e, EngineInv(e), e.active = None, NEW decision,
         decision = ChooseNextRequest(e.sched), decision.kind = "Admit",
         NEW t, t = StartRequest(e, decision)
  PROVE  /\ Sound(t)
         /\ Ok(t) => t.active # None /\ Started(e, t, decision.id)
         /\ ~Ok(t) => Exceeded(e)
<1> DEFINE r == decision.id
           scheduled == ScheduleAfter(e, EstimatePrefill(e.requests[r].prompt, 1), r,
                                      "PrefillComplete")
           reply == NotifyAdmitted(e.sched, decision, e.clock)
           admitted == Notified(scheduled, reply)
           started == TransitionTo(admitted, r, "Prefilling")
<1>1. e \in Engine /\ Ok(e) /\ SchedulerInv(e.sched) /\ Sequenced(e)
  BY DEF EngineInv
<1>2. e.clock \in Time /\ e.sched \in Scheduler
  BY <1>1 DEF Engine
<1>3. r \in InState(e.sched, "Waiting") /\ r \in Requests
  BY <1>1, <1>2, DecisionIsJustified DEF InState
<1>4. e.sched.entries[r] # None /\ e.sched.entries[r].state = "Waiting"
  BY <1>3 DEF InState
<1>5. e.requests[r] # None /\ e.requests[r].state = "Waiting" /\ e.active # r
  BY <1>3, <1>4, EntryTells
<1>6. WaitingKept(e, r) /\ EventKept(e, r)
  BY <1>3, <1>5 DEF EngineInv, RequestKept, StateKept
<1>7. /\ e.pending[r] = None /\ Mine(e, r) = {}
      /\ e.sched.entries[r].arrival = e.requests[r].arrival /\ e.requests[r].arrival <= e.clock
      /\ e.requests[r].generated = 0
  BY <1>4, <1>6 DEF WaitingKept, EventKept
<1>8. AdmissionJustified(e.sched, decision, e.clock)
  BY <1>1, <1>2, <1>7, DecisionIsJustified
<1>9. e.requests[r] \in Request
  BY <1>1, <1>3, <1>5 DEF Engine
<1> DEFINE cost == EstimatePrefill(e.requests[r].prompt, 1)
<1>10. /\ cost \in Nat \cup {Overflow}
       /\ cost = IF e.requests[r].prompt > IntMax \/ PrefillTime(e.requests[r]) > IntMax
                 THEN Overflow ELSE PrefillTime(e.requests[r])
       /\ PrefillTime(e.requests[r]) \in Nat
  BY <1>9, EstimatesTell, EstimatesAreNatural DEF Request
<1>11. t = IF ~Ok(scheduled) THEN scheduled
           ELSE IF ~Ok(admitted) THEN admitted
           ELSE IF ~Ok(started) THEN started
           ELSE [started EXCEPT !.requests[r].admitted = e.clock, !.active = r]
  <2>1. ~(e.requests[r].arrival > e.clock)
    BY <1>2, <1>7, <1>9, NoneIsNoValue DEF Request
  <2>2. QED
    BY <1>5, <2>1, Zenon DEF StartRequest
<1>a. scheduled = ScheduleAfter(e, cost, r, "PrefillComplete")
  OBVIOUS
<1> HIDE DEF r, scheduled, reply, admitted, started, cost
<1>12. /\ scheduled.failed \in {"no", "overflow"}
       /\ Ok(scheduled) =>
            \E time \in Time : /\ time >= e.clock /\ cost \in Nat /\ time = e.clock + cost
                               /\ ScheduledIs(e, scheduled, r, time, "PrefillComplete")
       /\ ~Ok(scheduled) =>
            e.next = CounterLimit \/ cost = Overflow \/ e.clock + cost > IntMax
  <2>1. "PrefillComplete" \in EventType
    BY DEF EventType
  <2>2. QED
    BY <1>1, <1>3, <1>7, <1>10, <1>a, <2>1, SchedulingAfter
<1>b. r \in Submitted(e)
  BY <1>3, <1>5 DEF Submitted
<1>13. CASE ~Ok(scheduled)
  <2>1. AtLimit(e) \/ e.requests[r].prompt > IntMax \/ e.clock + PrefillTime(e.requests[r]) > IntMax
    <3>1. e.clock \in Nat /\ IntMax \in Nat
      BY <1>2, NoneIsNoValue, IntMaxAssumption
    <3>2. cost = Overflow =>
            e.requests[r].prompt > IntMax \/ PrefillTime(e.requests[r]) > IntMax
      BY <1>10, OverflowAssumption
    <3>3. cost # Overflow => cost = PrefillTime(e.requests[r])
      BY <1>10
    <3>4. QED
      BY <1>10, <1>12, <1>13, <3>1, <3>2, <3>3 DEF AtLimit
  <2>2. Exceeded(e)
    BY <1>b, <2>1 DEF Exceeded, BeyondRange
  <2>3. QED
    BY <1>11, <1>12, <1>13, <2>2 DEF Sound, Ok
<1>14. CASE Ok(scheduled)
  <2>1. PICK time \in Time : /\ time >= e.clock
                             /\ ScheduledIs(e, scheduled, r, time, "PrefillComplete")
                             /\ time = e.clock + PrefillTime(e.requests[r])
    BY <1>10, <1>12, <1>14, OverflowAssumption
  <2>2. /\ reply.outcome \in {"ok", "overflow"}
        /\ reply.outcome = "ok" => /\ Changed(e.sched, reply.sched, r)
                                   /\ reply.sched.entries[r] # None
                                   /\ reply.sched.entries[r].state = "Running"
                                   /\ reply.sched.entries[r].admitted = e.clock
        /\ SchedulerInv(reply.sched)
    <3>1. SchedulerInv(reply.sched)
      BY <1>1, <1>2, AdmissionKeeps DEF reply
    <3>2. /\ reply.outcome \in {"ok", "overflow"}
          /\ reply.outcome = "ok" => /\ Changed(e.sched, reply.sched, r)
                                     /\ reply.sched.entries[r] \in Entry
                                     /\ reply.sched.entries[r].state = "Running"
                                     /\ reply.sched.entries[r].admitted = e.clock
      BY <1>1, <1>2, <1>8, AdmissionEffect DEF reply, r
    <3>3. QED
      BY <3>1, <3>2, NoneIsNoValue
  <2>3. /\ admitted.failed \in {"no", "overflow"}
        /\ Ok(admitted) => reply.outcome = "ok" /\ NotifiedIs(scheduled, admitted, reply.sched)
        /\ ~Ok(admitted) => reply.outcome = "overflow"
    <3>1. scheduled \in Engine /\ reply.sched \in Scheduler
      BY <2>1, <2>2 DEF ScheduledIs, SchedulerInv
    <3>2. QED
      BY <1>14, <2>2, <3>1, Notifying DEF admitted
  <2>4. CASE ~Ok(admitted)
    <3>1. \/ e.sched.epoch = CounterLimit
          \/ e.sched.waited + e.clock - e.requests[r].arrival > IntMax
      BY <1>1, <1>2, <1>7, <1>8, <2>3, <2>4, AdmissionRefused DEF reply, r
    <3>2. Exceeded(e)
      BY <1>b, <3>1 DEF Exceeded, AtLimit, BeyondRange
    <3>3. QED
      BY <1>11, <1>14, <2>3, <2>4, <3>2 DEF Sound, Ok
  <2>5. CASE Ok(admitted)
    <3>1. /\ NotifiedIs(scheduled, admitted, reply.sched) /\ reply.outcome = "ok"
          /\ admitted \in Engine /\ admitted.requests[r] = e.requests[r]
      BY <2>1, <2>3, <2>5 DEF NotifiedIs, ScheduledIs
    <3>2. /\ Ok(started)
          /\ RequestIs(admitted, started, r, [e.requests[r] EXCEPT !.state = "Prefilling"])
      <4>1. MayBecome("Waiting", "Prefilling", e.requests[r].limit) /\ "Prefilling" \in RequestState
        BY Moves DEF RequestState
      <4>2. QED
        BY <1>3, <1>5, <2>5, <3>1, <4>1, Becoming DEF started
    <3> DEFINE req == [e.requests[r] EXCEPT !.state = "Prefilling", !.admitted = e.clock]
    <3>3. /\ req \in Request /\ req.state = "Prefilling" /\ req.admitted = e.clock
          /\ req.generated = 0 /\ req.arrival = e.requests[r].arrival
      BY <1>2, <1>7, <1>9 DEF Request, RequestState
    <3>4. SettledIs(started, t, r, req, r)
      <4>1. t = [started EXCEPT !.requests[r].admitted = e.clock, !.active = r]
        BY <1>11, <1>14, <2>5, <3>2
      <4>2. started.requests[r] = [e.requests[r] EXCEPT !.state = "Prefilling"] /\ started \in Engine
        BY <3>2 DEF RequestIs
      <4>3. req = [started.requests[r] EXCEPT !.admitted = e.clock]
        BY <1>9, <4>2 DEF Request
      <4> HIDE DEF req
      <4>4. t = [started EXCEPT !.requests = [started.requests EXCEPT ![r] = req], !.active = r]
        BY <4>1, <4>3
      <4>5. QED
        BY <1>3, <3>3, <4>2, <4>4, Settling
    <3> HIDE DEF req
    <3>5. /\ t \in Engine /\ Ok(t) /\ t.clock = e.clock /\ t.active = r /\ t.sched = reply.sched
          /\ t.events = scheduled.events /\ t.next = scheduled.next /\ t.pending = scheduled.pending
          /\ t.requests[r] = req /\ \A q \in Requests \ {r} : t.requests[q] = e.requests[q]
      BY <2>1, <3>1, <3>2, <3>4 DEF SettledIs, RequestIs, NotifiedIs, ScheduledIs, Ok
    <3>6. EngineInv(t)
      <4>1. AllBut(e, r)
        BY <1>1 DEF EngineInv, AllBut
      <4>2. Sequenced(t) /\ e.next <= t.next
        BY <2>1, <3>5 DEF ScheduledIs, Sequenced
      <4>3. \A q \in Requests : e.active # q
        BY NoneIsNoValue
      <4>4. OthersSame(e, t, r)
        BY <2>1, <2>2, <3>1, <3>5, <4>3 DEF OthersSame, ScheduledIs, Changed, Mine
      <4>5. EventKept(t, r)
        <5>1. /\ t.pending[r] # None /\ t.pending[r].type = "PrefillComplete"
              /\ t.pending[r].seq = e.next /\ t.next = e.next + 1 /\ e.next \in Nat
              /\ Mine(t, r) = {[time |-> time, seq |-> e.next, id |-> r, type |-> "PrefillComplete"]}
          BY <2>1, <3>5 DEF ScheduledIs, Mine
        <5>2. QED
          BY <2>1, <3>5, <5>1 DEF EventKept
      <4>6. StateKept(t, r)
        <5>1. ServedKept(t, r)
          BY <1>2, <2>1, <2>2, <3>1, <3>3, <3>5, NoneIsNoValue
             DEF ServedKept, Suits, Runs, ScheduledIs
        <5>2. t.requests[r] # None
          BY <3>3, <3>5, NoneIsNoValue
        <5>3. QED
          BY <3>3, <3>5, <5>1, <5>2 DEF StateKept, Served, Ended
      <4>7. QED
        BY <1>3, <2>2, <3>5, <4>1, <4>2, <4>4, <4>5, <4>6, Restored DEF RequestKept
    <3>7. Started(e, t, r)
      <4>1. Mine(t, r) = {[time |-> time, seq |-> e.next, id |-> r, type |-> "PrefillComplete"]}
        BY <2>1, <3>5 DEF ScheduledIs, Mine
      <4>2. Due(t, r, e.clock + PrefillTime(e.requests[r]), "PrefillComplete")
        BY <2>1, <4>1 DEF Due
      <4>3. \A q \in Requests \ {r} : Mine(t, q) = Mine(e, q)
        BY <2>1, <3>5 DEF ScheduledIs, Mine
      <4>4. QED
        BY <3>5, <4>2, <4>3 DEF Started, Moved, req
    <3>8. QED
      BY <1>3, <3>5, <3>6, <3>7, NoneIsNoValue DEF Sound, Ok, r
  <2>6. QED
    BY <2>4, <2>5
<1>15. QED
  BY <1>13, <1>14

LEMMA StartingNext ==
  ASSUME NEW e, EngineInv(e), NEW t, t = StartNextIfIdle(e)
  PROVE  /\ Sound(t)
         /\ Ok(t) => t.active # None \/ t.sched.waiting = {}
         /\ Ok(t) => \/ t = e
                     \/ /\ e.active = None /\ e.sched.waiting # {}
                        /\ Started(e, t, ChooseNextRequest(e.sched).id)
         /\ ~Ok(t) => Exceeded(e)
<1> DEFINE decision == ChooseNextRequest(e.sched)
<1>1. SchedulerInv(e.sched) /\ e \in Engine /\ e.clock \in Time
  BY DEF EngineInv, Engine
<1>2. decision.kind \in {"Admit", "NoWork", "CapacityFull"}
  BY <1>1, DecisionOK DEF SchedulerInv, Decision
<1>3. decision.kind = "NoWork" <=> e.sched.waiting = {}
  BY <1>1, DecisionIsJustified
<1>4. e.active = None => decision.kind # "CapacityFull"
  BY <1>1, NoneIsRunning, DecisionIsJustified
<1>5. CASE e.active # None \/ decision.kind = "NoWork"
  <2>1. t = e
    BY <1>5 DEF StartNextIfIdle
  <2>2. QED
    BY <1>3, <1>5, <2>1 DEF Sound, EngineInv, Ok
<1>6. CASE e.active = None /\ decision.kind = "Admit"
  <2>1. t = StartRequest(e, decision)
    BY <1>6 DEF StartNextIfIdle
  <2>2. QED
    BY <1>3, <1>6, <2>1, Starting
<1>7. QED
  BY <1>2, <1>4, <1>5, <1>6

-----------------------------------------------------------------------------
(* The events of a request *)

\* The event of r that is being processed was taken out of the queue.
Between(e, r) ==
  AllBut(e, r) /\ e.pending[r] = None /\ Mine(e, r) = {} /\ e.requests[r] # None

\* What the client sees of it: nothing, or the next phase, a token or the end.
Unseen(e, t, r) == Moved(e, t, r, e.requests[r]) /\ Mine(t, r) = {}

PrefillDone(e, t, r) ==
  LET req == e.requests[r]
  IN  IF req.limit = 0
      THEN Moved(e, t, r, req) /\ Due(t, r, e.clock, "RequestComplete")
      ELSE /\ Moved(e, t, r, [req EXCEPT !.state = "Decoding"])
           /\ Due(t, r, e.clock + StepTime, "DecodeStepComplete")

StepDone(e, t, r) ==
  LET req == e.requests[r]
  IN  /\ Moved(e, t, r, [req EXCEPT !.generated = req.generated + 1,
                                    !.token = IF req.token = None THEN e.clock ELSE req.token])
      /\ IF req.generated + 1 = req.limit
         THEN Due(t, r, e.clock, "RequestComplete")
         ELSE Due(t, r, e.clock + StepTime, "DecodeStepComplete")

RequestDone(e, t, r) ==
  /\ Moved(e, t, r, [e.requests[r] EXCEPT !.state = "Finished", !.finish = e.clock])
  /\ Mine(t, r) = {}

LEMMA Ignoring ==
  ASSUME NEW e, NEW r \in Requests, Between(e, r), e.requests[r].state = "Cancelled",
         EndedKept(e, r), e.active # r, NEW t, t = IgnoreCancelled(e, r)
  PROVE  Sound(t) /\ (Ok(t) => Unseen(e, t, r)) /\ (~Ok(t) => Exceeded(e))
<1>1. e \in Engine /\ Ok(e) /\ SchedulerInv(e.sched) /\ Sequenced(e) /\ AllBut(e, r)
  BY DEF Between, AllBut
<1>2. CASE e.ignored = CounterLimit
  <2>1. t = Fail(e, "overflow")
    BY <1>2 DEF IgnoreCancelled
  <2>2. Exceeded(e)
    BY <1>2 DEF Exceeded, AtLimit
  <2>3. QED
    BY <1>1, <2>1, <2>2, FailIs DEF Sound, Ok
<1>3. CASE e.ignored # CounterLimit
  <2>1. t = [e EXCEPT !.ignored = @ + 1]
    BY <1>3 DEF IgnoreCancelled
  <2>2. e.ignored + 1 \in Count
    BY <1>1, <1>3, SchedulerAssumption DEF Engine, Count
  <2>3. t \in Engine
    BY <1>1, <2>1, <2>2 DEF Engine
  <2>4. /\ t.failed = e.failed /\ t.clock = e.clock /\ t.events = e.events /\ t.next = e.next
        /\ t.requests = e.requests /\ t.pending = e.pending /\ t.active = e.active
        /\ t.sched = e.sched
    BY <1>1, <2>1 DEF Engine
  <2>5. Ok(t) /\ Sequenced(t) /\ e.next <= t.next
    BY <1>1, <2>4, NextIsNatural DEF Ok, Sequenced
  <2>6. OthersSame(e, t, r)
    BY <2>4 DEF OthersSame, Mine
  <2>7. RequestKept(t, r)
    BY <2>4 DEF Between, RequestKept, EventKept, StateKept, EndedKept, Mine, Served, Ended
  <2>8. EngineInv(t)
    BY <1>1, <2>3, <2>4, <2>5, <2>6, <2>7, Restored
  <2>9. Unseen(e, t, r)
    BY <2>4 DEF Unseen, Moved, Mine, Between
  <2>10. QED
    BY <2>5, <2>8, <2>9 DEF Sound, Ok
<1>4. QED
  BY <1>2, <1>3

LEMMA Arriving ==
  ASSUME NEW e, NEW r \in Requests, Between(e, r), e.requests[r].state = "Waiting",
         e.requests[r].admitted = None, e.requests[r].generated = 0,
         e.requests[r].arrival <= e.clock, e.sched.entries[r] = None, e.active # r,
         NEW t, t = ProcessArrival(e, r)
  PROVE  Sound(t) /\ (Ok(t) => Unseen(e, t, r)) /\ (~Ok(t) => Exceeded(e))
<1> DEFINE arrival == e.requests[r].arrival
           reply == NotifyArrival(e.sched, r, arrival)
<1>1. /\ e \in Engine /\ Ok(e) /\ SchedulerInv(e.sched) /\ Sequenced(e) /\ AllBut(e, r)
      /\ e.sched \in Scheduler /\ e.requests[r] \in Request
  BY DEF Between, AllBut, Engine
<1>2. arrival \in Time
  BY <1>1 DEF Request
<1>3. t = Notified(e, reply)
  BY DEF ProcessArrival
<1>4. r \notin Known(e.sched)
  BY DEF Known
<1> HIDE DEF reply, arrival
<1>5. SchedulerInv(reply.sched)
  BY <1>1, <1>2, ArrivalKeeps DEF reply
<1>6. /\ reply.outcome \in {"ok", "overflow"}
      /\ reply.outcome = "ok" =>
           /\ Changed(e.sched, reply.sched, r)
           /\ reply.sched.entries[r] = [arrival |-> arrival, state |-> "Waiting",
                                        arrived |-> TRUE, admitted |-> None]
  BY <1>1, <1>4, ArrivalEffect DEF reply
<1>7. /\ t.failed \in {"no", "overflow"}
      /\ Ok(t) => reply.outcome = "ok" /\ NotifiedIs(e, t, reply.sched)
      /\ ~Ok(t) => reply.outcome = "overflow"
  BY <1>1, <1>3, <1>5, <1>6, Notifying DEF SchedulerInv
<1>8. ASSUME Ok(t)
      PROVE  EngineInv(t)
  <2>1. /\ NotifiedIs(e, t, reply.sched) /\ Changed(e.sched, reply.sched, r)
        /\ reply.sched.entries[r] = [arrival |-> arrival, state |-> "Waiting",
                                     arrived |-> TRUE, admitted |-> None]
    BY <1>6, <1>7, <1>8
  <2>2. Sequenced(t) /\ e.next <= t.next
    <3>1. t.next = e.next /\ t.events = e.events
      BY <2>1 DEF NotifiedIs
    <3>2. QED
      BY <1>1, <3>1, NextIsNatural DEF Sequenced
  <2>3. OthersSame(e, t, r)
    BY <2>1 DEF NotifiedIs, OthersSame, Mine, Changed
  <2>4. EventKept(t, r)
    BY <2>1 DEF NotifiedIs, Between, EventKept, Mine
  <2>5. reply.sched.entries[r] \in Entry /\ reply.sched.entries[r] # None
    <3>1. [arrival |-> arrival, state |-> "Waiting", arrived |-> TRUE, admitted |-> None] \in Entry
      BY <1>2 DEF Entry, EntryState
    <3>2. QED
      BY <2>1, <3>1, NoneIsNoValue
  <2>6. WaitingKept(t, r)
    BY <2>1, <2>5 DEF NotifiedIs, Between, WaitingKept, arrival
  <2>7. StateKept(t, r)
    BY <2>1, <2>6 DEF NotifiedIs, Between, StateKept, Served, Ended
  <2>8. QED
    BY <1>1, <1>5, <2>1, <2>2, <2>3, <2>4, <2>7, Restored DEF NotifiedIs, RequestKept
<1>9. Ok(t) => Unseen(e, t, r)
  BY <1>7 DEF NotifiedIs, Unseen, Moved, Mine, Between
<1>10. ~Ok(t) => Exceeded(e)
  BY <1>1, <1>7, RefusalTells DEF reply, Exceeded, AtLimit
<1>11. QED
  BY <1>7, <1>8, <1>9, <1>10 DEF Sound

\* The active request is between two of its events.
Serving(e, r) ==
  Between(e, r) /\ e.active = r /\ e.requests[r].state \in Served /\ Runs(e, r)

LEMMA ServingOn ==
  ASSUME NEW e, NEW r \in Requests, Serving(e, r), NEW time \in Time, time >= e.clock,
         NEW type, type # "RequestArrival", NEW u, ScheduledIs(e, u, r, time, type),
         NEW req \in Request, NEW t, RequestIs(u, t, r, req), req.state \in Served,
         req.admitted = e.requests[r].admitted, Suits(req, type)
  PROVE  EngineInv(t) /\ Moved(e, t, r, req) /\ Due(t, r, time, type)
<1>1. /\ e \in Engine /\ Ok(e) /\ SchedulerInv(e.sched) /\ Sequenced(e) /\ AllBut(e, r)
  BY DEF Serving, Between, AllBut
<1>2. /\ t \in Engine /\ Ok(t) /\ t.clock = e.clock /\ t.active = e.active /\ t.sched = e.sched
      /\ t.events = u.events /\ t.next = e.next + 1 /\ t.pending = u.pending
      /\ t.requests[r] = req /\ \A q \in Requests \ {r} : t.requests[q] = e.requests[q]
  BY <1>1 DEF RequestIs, ScheduledIs, Ok
<1>3. Sequenced(t) /\ e.next <= t.next
  BY <1>1, <1>2, NextIsNatural DEF RequestIs, ScheduledIs, Sequenced
<1>4. OthersSame(e, t, r)
  BY <1>2 DEF OthersSame, ScheduledIs, Mine
<1>5. /\ t.pending[r] # None /\ t.pending[r].type = type /\ t.pending[r].seq = e.next
      /\ ~t.pending[r].ignore
      /\ Mine(t, r) = {[time |-> time, seq |-> e.next, id |-> r, type |-> type]}
  BY <1>2 DEF ScheduledIs, Mine
<1>6. EventKept(t, r)
  BY <1>1, <1>2, <1>5, NextIsNatural DEF EventKept
<1>7. ServedKept(t, r)
  BY <1>2, <1>5 DEF ServedKept, Serving, Runs
<1>8. t.requests[r] # None
  BY <1>2, NoneIsNoValue
<1>9. StateKept(t, r)
  BY <1>2, <1>7, <1>8 DEF StateKept, Serving, Served, Ended
<1>10. EngineInv(t)
  BY <1>1, <1>2, <1>3, <1>4, <1>6, <1>9, Restored DEF RequestKept
<1>11. Due(t, r, time, type)
  BY <1>5 DEF Due
<1>12. Moved(e, t, r, req)
  BY <1>2, <1>4 DEF Moved, OthersSame
<1>13. QED
  BY <1>10, <1>11, <1>12

\* A request that was served before stays as it is.
LEMMA Untouched ==
  ASSUME NEW u \in Engine, NEW r \in Requests
  PROVE  RequestIs(u, u, r, u.requests[r])
BY DEF RequestIs

\* A step that cannot be scheduled would end beyond the clock's range, or there is no
\* sequence number left for its event.
LEMMA NoStep ==
  ASSUME NEW e, NEW r \in Requests, Serving(e, r), NEW cost \in {0, EstimateDecodeStep(1)},
         e.next = CounterLimit \/ cost = Overflow \/ e.clock + cost > IntMax
  PROVE  Exceeded(e)
<1>1. /\ e.requests[r] \in Request /\ e.clock \in Nat /\ e.clock <= IntMax /\ IntMax \in Nat
      /\ r \in Submitted(e)
  BY IntMaxAssumption, NoneIsNoValue DEF Serving, Between, AllBut, Engine, Submitted, Time
<1>2. /\ StepTime \in Nat
      /\ EstimateDecodeStep(1) = IF StepTime > IntMax THEN Overflow ELSE StepTime
  BY <1>1, EstimatesTell
<1>3. e.next = CounterLimit \/ e.clock + StepTime > IntMax
  BY <1>1, <1>2, OverflowAssumption
<1>4. QED
  BY <1>1, <1>3 DEF Exceeded, AtLimit, BeyondRange

LEMMA StepTakes ==
  ASSUME NEW req \in Request, EstimateDecodeStep(1) \in Nat
  PROVE  EstimateDecodeStep(1) = StepTime
BY EstimatesTell, OverflowAssumption

LEMMA Prefilled ==
  ASSUME NEW e, NEW r \in Requests, Serving(e, r), e.requests[r].state = "Prefilling",
         e.requests[r].generated = 0, NEW t, t = ProcessPrefill(e, r)
  PROVE  Sound(t) /\ (Ok(t) => PrefillDone(e, t, r)) /\ (~Ok(t) => Exceeded(e))
<1> DEFINE decoding == ScheduleAfter(e, EstimateDecodeStep(1), r, "DecodeStepComplete")
<1>1. /\ e \in Engine /\ Ok(e) /\ Sequenced(e) /\ e.requests[r] \in Request
      /\ e.pending[r] = None /\ Mine(e, r) = {} /\ e.active = r /\ e.requests[r] # None
  BY DEF Serving, Between, AllBut, Engine
<1>2. CASE e.requests[r].limit = 0
  <2>1. t = ScheduleAfter(e, 0, r, "RequestComplete")
    BY <1>1, <1>2 DEF ProcessPrefill
  <2>2. /\ t.failed \in {"no", "overflow"}
        /\ Ok(t) => \E time \in Time : /\ time >= e.clock /\ time = e.clock + 0
                                       /\ ScheduledIs(e, t, r, time, "RequestComplete")
        /\ ~Ok(t) => e.next = CounterLimit \/ 0 = Overflow \/ e.clock + 0 > IntMax
    BY <1>1, <2>1, SchedulingAfter DEF EventType
  <2>3. ASSUME NEW time \in Time, time >= e.clock, time = e.clock + 0,
               ScheduledIs(e, t, r, time, "RequestComplete")
        PROVE  EngineInv(t) /\ PrefillDone(e, t, r)
    <3>1. RequestIs(t, t, r, e.requests[r])
      BY <2>3, Untouched DEF ScheduledIs
    <3>2. Suits(e.requests[r], "RequestComplete")
      BY <1>2 DEF Suits
    <3>3. /\ EngineInv(t) /\ Moved(e, t, r, e.requests[r])
          /\ Due(t, r, time, "RequestComplete")
      BY <1>1, <2>3, <3>1, <3>2, ServingOn DEF Served
    <3>4. time = e.clock
      BY <1>1, <2>3, NoneIsNoValue DEF Engine
    <3>5. QED
      BY <1>2, <3>3, <3>4 DEF PrefillDone
  <2>4. ~Ok(t) => Exceeded(e)
    BY <2>2, NoStep
  <2>5. QED
    BY <2>2, <2>3, <2>4 DEF Sound
<1>3. CASE e.requests[r].limit # 0
  <2>1. t = IF ~Ok(decoding) THEN decoding ELSE TransitionTo(decoding, r, "Decoding")
    BY <1>1, <1>3 DEF ProcessPrefill
  <2> HIDE DEF decoding
  <2>2. /\ decoding.failed \in {"no", "overflow"}
        /\ Ok(decoding) => \E time \in Time :
             /\ time >= e.clock /\ time = e.clock + StepTime
             /\ ScheduledIs(e, decoding, r, time, "DecodeStepComplete")
        /\ ~Ok(decoding) => Exceeded(e)
    <3>1. EstimateDecodeStep(1) \in Nat \cup {Overflow} /\ "DecodeStepComplete" \in EventType
      BY EstimatesAreNatural DEF EventType
    <3>2. /\ decoding.failed \in {"no", "overflow"}
          /\ Ok(decoding) => \E time \in Time :
               /\ time >= e.clock /\ EstimateDecodeStep(1) \in Nat
               /\ time = e.clock + EstimateDecodeStep(1)
               /\ ScheduledIs(e, decoding, r, time, "DecodeStepComplete")
          /\ ~Ok(decoding) => \/ e.next = CounterLimit \/ EstimateDecodeStep(1) = Overflow
                              \/ e.clock + EstimateDecodeStep(1) > IntMax
      BY <1>1, <3>1, SchedulingAfter DEF decoding
    <3>3. ~Ok(decoding) => Exceeded(e)
      BY <3>2, NoStep
    <3>4. QED
      BY <1>1, <3>2, <3>3, StepTakes
  <2>3. CASE ~Ok(decoding)
    BY <2>1, <2>2, <2>3 DEF Sound, Ok
  <2>4. CASE Ok(decoding)
    <3>1. PICK time \in Time : /\ time >= e.clock /\ time = e.clock + StepTime
                               /\ ScheduledIs(e, decoding, r, time, "DecodeStepComplete")
      BY <2>2, <2>4
    <3> DEFINE req == [e.requests[r] EXCEPT !.state = "Decoding"]
    <3>2. /\ req \in Request /\ req.state \in Served /\ Suits(req, "DecodeStepComplete")
          /\ req.admitted = e.requests[r].admitted
      <4>1. /\ req \in Request /\ req.state = "Decoding" /\ req.generated = 0
            /\ req.limit = e.requests[r].limit /\ req.admitted = e.requests[r].admitted
        BY <1>1 DEF Request, RequestState
      <4> HIDE DEF req
      <4>2. QED
        BY <1>1, <1>3, <4>1 DEF Suits, Served, Request
    <3>3. Ok(t) /\ RequestIs(decoding, t, r, req)
      <4>1. decoding \in Engine /\ decoding.requests = e.requests
        BY <3>1 DEF ScheduledIs
      <4>2. MayBecome("Prefilling", "Decoding", e.requests[r].limit) /\ "Decoding" \in RequestState
        BY Moves DEF RequestState
      <4>3. QED
        BY <1>1, <2>1, <2>4, <4>1, <4>2, Becoming
    <3> HIDE DEF req
    <3>4. EngineInv(t) /\ Moved(e, t, r, req) /\ Due(t, r, time, "DecodeStepComplete")
      BY <3>1, <3>2, <3>3, ServingOn
    <3>5. PrefillDone(e, t, r)
      BY <1>3, <3>1, <3>4 DEF PrefillDone, req
    <3>6. QED
      BY <3>3, <3>4, <3>5 DEF Sound, Ok
  <2>5. QED
    BY <2>3, <2>4
<1>4. QED
  BY <1>2, <1>3

LEMMA Decoded ==
  ASSUME NEW e, NEW r \in Requests, Serving(e, r), e.requests[r].state = "Decoding",
         e.requests[r].generated < e.requests[r].limit, NEW t, t = ProcessDecodeStep(e, r)
  PROVE  Sound(t) /\ (Ok(t) => StepDone(e, t, r)) /\ (~Ok(t) => Exceeded(e))
<1> DEFINE old == e.requests[r]
           cost == IF old.generated + 1 = old.limit THEN 0 ELSE EstimateDecodeStep(1)
           type == IF old.generated + 1 = old.limit THEN "RequestComplete"
                                                    ELSE "DecodeStepComplete"
           token == IF old.token = None THEN e.clock ELSE old.token
           req == [old EXCEPT !.generated = old.generated + 1, !.token = token]
           scheduled == ScheduleAfter(e, cost, r, type)
<1>1. /\ e \in Engine /\ Ok(e) /\ Sequenced(e) /\ old \in Request /\ e.clock \in Time
      /\ e.pending[r] = None /\ Mine(e, r) = {} /\ e.active = r
  BY DEF Serving, Between, AllBut, Engine
<1>2. old.generated \in Nat /\ old.limit \in Nat /\ ~(old.generated >= old.limit)
  BY <1>1 DEF Request
<1>3. t = IF ~Ok(scheduled) THEN scheduled
          ELSE [scheduled EXCEPT !.requests[r].generated = @ + 1,
                                 !.requests[r].token = IF @ = None THEN e.clock ELSE @]
  <2> DEFINE Counted(u) == IF ~Ok(u) THEN u
                           ELSE [u EXCEPT !.requests[r].generated = @ + 1,
                                          !.requests[r].token = IF @ = None THEN e.clock ELSE @]
             chosen == IF old.generated + 1 = old.limit
                       THEN ScheduleAfter(e, 0, r, "RequestComplete")
                       ELSE ScheduleAfter(e, EstimateDecodeStep(1), r, "DecodeStepComplete")
  <2>1. scheduled = chosen
    OBVIOUS
  <2>2. ~(e.active # r \/ old.state # "Decoding" \/ old.generated >= old.limit)
    BY <1>1, <1>2
  <2>3. t = Counted(chosen)
    BY <2>2, Zenon DEF ProcessDecodeStep
  <2> HIDE DEF Counted, chosen, scheduled
  <2>4. t = Counted(scheduled)
    BY <2>1, <2>3
  <2>5. QED
    BY <2>4 DEF Counted
<1>4. /\ req \in Request /\ req.state = "Decoding" /\ req.generated = old.generated + 1
      /\ req.limit = old.limit /\ req.admitted = old.admitted
  <2>1. token \in Time \cup {None} /\ old.generated + 1 \in Nat /\ old.state = "Decoding"
    BY <1>1, <1>2 DEF Request
  <2> HIDE DEF token, old
  <2>2. QED
    BY <1>1, <2>1 DEF Request
<1>5. Suits(req, type) /\ type # "RequestArrival" /\ type \in EventType
  <2> HIDE DEF req, old
  <2>1. QED
    BY <1>2, <1>4 DEF Suits, EventType
<1>6. /\ cost \in Nat \cup {Overflow} /\ cost \in {0, EstimateDecodeStep(1)}
      /\ cost \in Nat => cost = IF old.generated + 1 = old.limit THEN 0 ELSE StepTime
  BY <1>1, EstimatesAreNatural, StepTakes
<1> HIDE DEF cost, scheduled
<1>7. /\ scheduled.failed \in {"no", "overflow"}
      /\ Ok(scheduled) => \E time \in Time :
           /\ time >= e.clock /\ cost \in Nat /\ time = e.clock + cost
           /\ ScheduledIs(e, scheduled, r, time, type)
      /\ ~Ok(scheduled) =>
           e.next = CounterLimit \/ cost = Overflow \/ e.clock + cost > IntMax
  <2> HIDE DEF type
  <2>1. QED
    BY <1>1, <1>5, <1>6, SchedulingAfter DEF scheduled
<1>a. ~Ok(scheduled) => Exceeded(e)
  BY <1>6, <1>7, NoStep
<1>b. e.clock + 0 = e.clock
  <2>1. e.clock \in Nat
    BY <1>1, NoneIsNoValue
  <2>2. QED
    BY ONLY <2>1
<1> HIDE DEF type
<1>8. CASE ~Ok(scheduled)
  BY <1>3, <1>7, <1>8, <1>a DEF Sound, Ok
<1>9. CASE Ok(scheduled)
  <2>1. PICK time \in Time : /\ time >= e.clock /\ cost \in Nat /\ time = e.clock + cost
                             /\ ScheduledIs(e, scheduled, r, time, type)
    BY <1>7, <1>9
  <2>2. scheduled \in Engine /\ scheduled.requests = e.requests
    BY <2>1 DEF ScheduledIs
  <2> DEFINE counted == [old EXCEPT !.generated = old.generated + 1]
             mid == [scheduled EXCEPT !.requests[r].generated = @ + 1]
  <2>3. counted \in Request /\ counted.token = old.token /\ req = [counted EXCEPT !.token = token]
    <3>1. old.generated + 1 \in Nat
      BY <1>2
    <3> HIDE DEF old, token
    <3>2. QED
      BY <1>1, <3>1 DEF Request
  <2>4. RequestIs(scheduled, mid, r, counted)
    <3>1. mid = [scheduled EXCEPT !.requests = [scheduled.requests EXCEPT ![r] = counted]]
      BY <2>2
    <3> HIDE DEF mid, counted, old
    <3>2. QED
      BY <2>2, <2>3, <3>1, Rewriting
  <2>5. t = [mid EXCEPT !.requests[r].token = token]
    <3>1. t = [scheduled EXCEPT !.requests[r].generated = @ + 1,
                                !.requests[r].token = IF @ = None THEN e.clock ELSE @]
      BY <1>3, <1>9
    <3>2. (IF scheduled.requests[r].token = None THEN e.clock ELSE scheduled.requests[r].token)
            = token
      BY <2>2
    <3> HIDE DEF token
    <3>3. QED
      BY <3>1, <3>2
  <2> HIDE DEF mid, counted
  <2>6. RequestIs(mid, t, r, req)
    <3>1. mid \in Engine /\ mid.requests[r] = counted
      BY <2>4 DEF RequestIs
    <3>2. t = [mid EXCEPT !.requests = [mid.requests EXCEPT ![r] = req]]
      BY <2>3, <2>5, <3>1
    <3> HIDE DEF req
    <3>3. QED
      BY <1>4, <3>1, <3>2, Rewriting
  <2> HIDE DEF req
  <2>7. RequestIs(scheduled, t, r, req)
    BY <2>4, <2>6 DEF RequestIs
  <2>8. EngineInv(t) /\ Moved(e, t, r, req) /\ Due(t, r, time, type)
    BY <1>4, <1>5, <2>1, <2>7, ServingOn DEF Served
  <2>9. StepDone(e, t, r)
    <3>1. Moved(e, t, r, [old EXCEPT !.generated = old.generated + 1, !.token = token])
      BY <2>8 DEF req
    <3>2. IF old.generated + 1 = old.limit
          THEN Due(t, r, e.clock, "RequestComplete")
          ELSE Due(t, r, e.clock + StepTime, "DecodeStepComplete")
      BY <1>6, <1>b, <2>1, <2>8 DEF type
    <3>3. QED
      BY <3>1, <3>2 DEF StepDone
  <2>10. QED
    BY <2>8, <2>9 DEF Sound, EngineInv, Ok
<1>10. QED
  BY <1>8, <1>9

LEMMA Completing ==
  ASSUME NEW e, NEW r \in Requests, Serving(e, r),
         e.requests[r].generated = e.requests[r].limit,
         e.requests[r].state = "Prefilling" => e.requests[r].limit = 0,
         NEW t, t = ProcessComplete(e, r)
  PROVE  Sound(t) /\ (Ok(t) => RequestDone(e, t, r)) /\ (~Ok(t) => Exceeded(e))
<1> DEFINE finished == TransitionTo(e, r, "Finished")
           reply == NotifyCompleted(e.sched, r, e.clock)
           notified == Notified(finished, reply)
<1>1. /\ e \in Engine /\ Ok(e) /\ SchedulerInv(e.sched) /\ Sequenced(e) /\ AllBut(e, r)
      /\ e.requests[r] \in Request /\ e.requests[r] # None /\ e.requests[r].state \in Served
      /\ e.clock \in Time /\ e.active = r
  BY DEF Serving, Between, AllBut, Engine
<1>2. r \in InState(e.sched, "Running") /\ e.sched.entries[r].admitted <= e.clock
  BY DEF Serving, Runs, InState
<1>3. t = IF ~Ok(finished) THEN finished
          ELSE IF ~Ok(notified) THEN notified
          ELSE [notified EXCEPT !.requests[r].finish = e.clock, !.active = None]
  <2>1. ~(\/ e.active # r \/ e.requests[r].state \notin {"Prefilling", "Decoding"}
          \/ e.requests[r].generated # e.requests[r].limit)
    BY <1>1 DEF Served
  <2>2. QED
    BY <2>1, Zenon DEF ProcessComplete
<1> HIDE DEF finished, reply, notified
<1>4. Ok(finished) /\ RequestIs(e, finished, r, [e.requests[r] EXCEPT !.state = "Finished"])
  <2>1. /\ MayBecome(e.requests[r].state, "Finished", e.requests[r].limit)
        /\ "Finished" \in RequestState
    BY <1>1, Moves DEF RequestState, Served
  <2>2. QED
    BY <1>1, <2>1, Becoming DEF finished
<1>5. SchedulerInv(reply.sched)
  BY <1>1, CompletionKeeps DEF reply
<1>6. /\ reply.outcome \in {"ok", "overflow"}
      /\ reply.outcome = "ok" => /\ Changed(e.sched, reply.sched, r)
                                 /\ reply.sched.entries[r] \in Entry
                                 /\ reply.sched.entries[r].state = "Completed"
  BY <1>1, <1>2, CompletionEffect DEF reply
<1>7. /\ notified.failed \in {"no", "overflow"}
      /\ Ok(notified) => reply.outcome = "ok" /\ NotifiedIs(finished, notified, reply.sched)
      /\ ~Ok(notified) => reply.outcome = "overflow"
  <2>1. finished \in Engine /\ reply.sched \in Scheduler
    BY <1>4, <1>5 DEF RequestIs, SchedulerInv
  <2>2. QED
    BY <1>4, <1>6, <2>1, Notifying DEF notified
<1>8. CASE ~Ok(notified)
  <2>1. Exceeded(e)
    BY <1>1, <1>7, <1>8, RefusalTells DEF reply, Exceeded, AtLimit
  <2>2. QED
    BY <1>3, <1>4, <1>7, <1>8, <2>1 DEF Sound, Ok
<1>9. CASE Ok(notified)
  <2> DEFINE done == [e.requests[r] EXCEPT !.state = "Finished"]
             req == [done EXCEPT !.finish = e.clock]
  <2>1. NotifiedIs(finished, notified, reply.sched) /\ reply.outcome = "ok"
    BY <1>7, <1>9
  <2>2. req \in Request /\ req.state = "Finished"
    <3>1. done \in Request /\ done.state = "Finished"
      BY <1>1 DEF Request, RequestState
    <3> HIDE DEF done
    <3>2. QED
      BY <1>1, <3>1 DEF Request
  <2>3. SettledIs(notified, t, r, req, None)
    <3>1. notified.requests[r] = done /\ notified \in Engine
      BY <1>4, <2>1 DEF RequestIs, NotifiedIs
    <3>2. t = [notified EXCEPT !.requests[r].finish = e.clock, !.active = None]
      BY <1>3, <1>4, <1>9
    <3> HIDE DEF done
    <3>3. t = [notified EXCEPT !.requests = [notified.requests EXCEPT ![r] = req], !.active = None]
      BY <3>1, <3>2
    <3> HIDE DEF req
    <3>4. QED
      BY <2>2, <3>1, <3>3, Settling
  <2> HIDE DEF req
  <2>4. /\ t \in Engine /\ Ok(t) /\ t.clock = e.clock /\ t.active = None /\ t.sched = reply.sched
        /\ t.events = e.events /\ t.next = e.next /\ t.pending = e.pending
        /\ t.requests[r] = req /\ \A q \in Requests \ {r} : t.requests[q] = e.requests[q]
    BY <1>9, <1>4, <2>1, <2>3 DEF SettledIs, RequestIs, NotifiedIs, Ok
  <2>5. Sequenced(t) /\ e.next <= t.next
    BY <1>1, <2>4, NextIsNatural DEF Sequenced
  <2>6. OthersSame(e, t, r)
    <3>1. \A q \in Requests : None # q
      BY NoneIsNoValue
    <3>2. QED
      BY <1>1, <1>6, <2>1, <2>4, <3>1 DEF OthersSame, Changed, Mine
  <2>7. EventKept(t, r)
    BY <2>4 DEF EventKept, Serving, Between, Mine
  <2>8. EndedKept(t, r)
    BY <1>6, <2>1, <2>2, <2>4, NoneIsNoValue DEF EndedKept, Serving, Between
  <2>9. t.requests[r] # None /\ t.active # r
    BY <2>2, <2>4, NoneIsNoValue
  <2>10. StateKept(t, r)
    BY <2>2, <2>4, <2>8, <2>9 DEF StateKept, Served, Ended
  <2>11. EngineInv(t)
    BY <1>1, <1>5, <2>4, <2>5, <2>6, <2>7, <2>10, Restored DEF RequestKept
  <2>12. RequestDone(e, t, r)
    <3>1. Mine(t, r) = {} /\ \A q \in Requests \ {r} : Mine(t, q) = Mine(e, q)
      BY <2>4 DEF Mine, Serving, Between
    <3>2. req = [e.requests[r] EXCEPT !.state = "Finished", !.finish = e.clock]
      BY DEF req
    <3>3. QED
      BY <2>4, <3>1, <3>2 DEF RequestDone, Moved
  <2>13. QED
    BY <2>4, <2>11, <2>12 DEF Sound, Ok
<1>10. QED
  BY <1>8, <1>9

\* The event ev is erased, with the pending entry of its request.
Taken(e, ev) == [e EXCEPT !.events = @ \ {ev}, !.pending[ev.id] = None]

\* Taking the event of r out of the queue concerns r only.
LEMMA Taking ==
  ASSUME NEW e, EngineInv(e), NEW ev \in e.events
  PROVE  LET r == ev.id
             u == Taken(e, ev)
         IN  /\ r \in Requests /\ Between(u, r)
             /\ u.clock = e.clock /\ u.requests = e.requests /\ u.active = e.active
             /\ u.sched = e.sched /\ u.next = e.next /\ u.ignored = e.ignored
             /\ \A q \in Requests \ {r} : Mine(u, q) = Mine(e, q)
             /\ e.pending[r] # None /\ e.pending[r].seq = ev.seq
             /\ e.pending[r].type = ev.type
             /\ e.pending[r].type = "RequestArrival" => ev.time = e.requests[r].arrival
<1> DEFINE r == ev.id
           u == Taken(e, ev)
<1>a. r = ev.id
  OBVIOUS
<1>b. u = [e EXCEPT !.events = @ \ {ev}, !.pending[r] = None]
  BY DEF Taken
<1> USE <1>a, <1>b
<1> HIDE DEF r, u
<1>1. e \in Engine /\ Ok(e) /\ SchedulerInv(e.sched) /\ Sequenced(e)
  BY DEF EngineInv
<1>2. ev \in Event /\ r \in Requests
  BY <1>1 DEF Engine, Event
<1>3. ev \in Mine(e, r)
  BY DEF Mine
<1>4. EventKept(e, r) /\ StateKept(e, r)
  BY <1>2 DEF EngineInv, RequestKept
<1>5. e.pending[r] # None
  BY <1>3, <1>4 DEF EventKept
<1>6. PICK time \in Time :
        /\ Mine(e, r) = {[time |-> time, seq |-> e.pending[r].seq, id |-> r,
                          type |-> e.pending[r].type]}
        /\ e.pending[r].type = "RequestArrival" => time = e.requests[r].arrival
  BY <1>4, <1>5 DEF EventKept
<1>7. ev = [time |-> time, seq |-> e.pending[r].seq, id |-> r, type |-> e.pending[r].type]
  BY <1>3, <1>6
<1>8. /\ e.pending[r].seq = ev.seq /\ e.pending[r].type = ev.type
      /\ e.pending[r].type = "RequestArrival" => ev.time = e.requests[r].arrival
  BY <1>6, <1>7
<1> DEFINE pending == [e.pending EXCEPT ![r] = None]
           events == e.events \ {ev}
<1>9. pending \in [Requests -> Pending \cup {None}] /\ events \in SUBSET Event
  BY <1>1 DEF Engine
<1>10. pending[r] = None /\ \A q \in Requests \ {r} : pending[q] = e.pending[q]
  BY <1>1, <1>2 DEF Engine
<1>11. u = [e EXCEPT !.events = events, !.pending = pending]
  OBVIOUS
<1> HIDE DEF pending
<1>12. u \in Engine /\ u.events = events /\ u.pending = pending
  <2> HIDE DEF events
  <2>1. QED
    BY <1>1, <1>9, <1>11 DEF Engine
<1>13. /\ u.failed = e.failed /\ u.clock = e.clock /\ u.next = e.next
       /\ u.requests = e.requests /\ u.active = e.active /\ u.sched = e.sched
       /\ u.ignored = e.ignored
  BY <1>1, <1>11 DEF Engine
<1>14. Mine(u, r) = {} /\ \A q \in Requests \ {r} : Mine(u, q) = Mine(e, q)
  BY <1>3, <1>6, <1>7, <1>12 DEF Mine
<1>15. \A q \in Requests \ {r} : RequestKept(u, q)
  <2>1. OthersSame(e, u, r)
    BY <1>10, <1>12, <1>13 DEF OthersSame, Mine
  <2>2. AllBut(e, r)
    BY <1>1 DEF EngineInv, AllBut
  <2>3. e.next <= u.next
    BY <1>1, <1>13, NextIsNatural
  <2>4. u \in Engine /\ u.clock = e.clock /\ r \in Requests
    BY <1>2, <1>12, <1>13
  <2>5. \A v \in Engine : v.clock = e.clock /\ e.next <= v.next /\ OthersSame(e, v, r)
          => \A q \in Requests \ {r} : RequestKept(v, q)
    BY <2>2, <2>4, OthersKept
  <2>6. QED
    BY <2>1, <2>3, <2>4, <2>5, Zenon
<1>16. Sequenced(u)
  BY <1>1, <1>12, <1>13 DEF Sequenced
<1>17. u.requests[r] # None
  BY <1>4, <1>5, <1>13 DEF StateKept
<1>18. Between(u, r)
  BY <1>1, <1>10, <1>12, <1>13, <1>14, <1>15, <1>16, <1>17 DEF Between, AllBut, Ok
<1>19. QED
  BY ONLY <1>2, <1>5, <1>8, <1>13, <1>14, <1>18 DEF r, u

\* What became of an event that was due.
Processed(e, ev, t) ==
  LET r == ev.id
      state == e.requests[r].state
  IN  \/ state \notin Served /\ Unseen(e, t, r)
      \/ state = "Prefilling" /\ ev.type = "PrefillComplete" /\ PrefillDone(e, t, r)
      \/ state = "Decoding" /\ ev.type = "DecodeStepComplete" /\ StepDone(e, t, r)
      \/ state \in Served /\ ev.type = "RequestComplete" /\ RequestDone(e, t, r)

\* An event that is due finds everything as it was planned.
LEMMA Processing ==
  ASSUME NEW e, EngineInv(e), NEW ev \in e.events, ev.time = e.clock,
         NEW t, t = ProcessEvent(e, ev)
  PROVE  Sound(t) /\ (Ok(t) => Processed(e, ev, t)) /\ (~Ok(t) => Exceeded(e))
<1> DEFINE r == ev.id
           p == e.pending[r]
           u == Taken(e, ev)
<1>1. /\ r \in Requests /\ Between(u, r)
      /\ u.clock = e.clock /\ u.requests = e.requests /\ u.active = e.active
      /\ u.sched = e.sched /\ u.next = e.next /\ u.ignored = e.ignored
      /\ \A q \in Requests \ {r} : Mine(u, q) = Mine(e, q)
      /\ p # None /\ p.seq = ev.seq /\ p.type = ev.type
      /\ p.type = "RequestArrival" => ev.time = e.requests[r].arrival
  BY Taking
<1>2. e \in Engine /\ StateKept(e, r)
  BY <1>1 DEF EngineInv, RequestKept
<1>3. /\ e.requests[r] # None /\ e.requests[r] \in Request /\ p \in Pending
      /\ e.clock \in Time /\ e.clock \in Nat
  BY <1>1, <1>2, NoneIsNoValue DEF Between, Engine
<1>4. p.ignore \in BOOLEAN /\ p.type \in EventType
  BY <1>3 DEF Pending
<1>5. t = IF p.ignore THEN IgnoreCancelled(u, r)
          ELSE CASE ev.type = "RequestArrival"     -> ProcessArrival(u, r)
                 [] ev.type = "PrefillComplete"    -> ProcessPrefill(u, r)
                 [] ev.type = "DecodeStepComplete" -> ProcessDecodeStep(u, r)
                 [] ev.type = "RequestComplete"    -> ProcessComplete(u, r)
  BY <1>1 DEF ProcessEvent, Taken
<1> HIDE DEF u
<1>a. /\ \A req : Moved(u, t, r, req) => Moved(e, t, r, req)
      /\ Exceeded(u) => Exceeded(e)
  BY <1>1 DEF Moved, Exceeded, AtLimit, BeyondRange, Submitted
<1>6. /\ e.requests[r].state = "Waiting" =>
           /\ ~p.ignore /\ p.type = "RequestArrival" /\ e.sched.entries[r] = None
           /\ e.requests[r].admitted = None /\ e.requests[r].generated = 0 /\ e.active # r
      /\ e.requests[r].state \in Served => ServedKept(e, r) /\ e.active = r
      /\ e.requests[r].state \in Ended =>
           /\ e.requests[r].state = "Cancelled" /\ p.ignore
           /\ EndedKept(e, r) /\ e.active # r
      /\ e.requests[r].state \in {"Waiting"} \cup Served \cup Ended
  BY <1>1, <1>2, <1>3 DEF StateKept, WaitingKept, EndedKept, Served, Ended
<1>7. CASE e.requests[r].state \in Ended
  <2>1. t = IgnoreCancelled(u, r)
    BY <1>5, <1>6, <1>7
  <2>2. EndedKept(u, r)
    BY <1>1, <1>6, <1>7 DEF EndedKept, Between
  <2>3. Sound(t) /\ (Ok(t) => Unseen(u, t, r)) /\ (~Ok(t) => Exceeded(u))
    BY <1>1, <1>6, <1>7, <2>1, <2>2, Ignoring
  <2>4. Unseen(u, t, r) => Unseen(e, t, r)
    BY <1>1, <1>a DEF Unseen
  <2>5. QED
    BY <1>7, <1>a, <2>3, <2>4 DEF Processed, Served, Ended
<1>8. CASE e.requests[r].state = "Waiting"
  <2>1. t = ProcessArrival(u, r)
    BY <1>1, <1>5, <1>6, <1>8
  <2>2. e.requests[r].arrival <= e.clock
    BY <1>1, <1>3, <1>6, <1>8
  <2>3. Sound(t) /\ (Ok(t) => Unseen(u, t, r)) /\ (~Ok(t) => Exceeded(u))
    BY <1>1, <1>6, <1>8, <2>1, <2>2, Arriving
  <2>4. Unseen(u, t, r) => Unseen(e, t, r)
    BY <1>1, <1>a DEF Unseen
  <2>5. QED
    BY <1>8, <1>a, <2>3, <2>4 DEF Processed, Served
<1>9. CASE e.requests[r].state \in Served
  <2>1. ~p.ignore /\ Suits(e.requests[r], p.type) /\ Runs(e, r)
    BY <1>6, <1>9 DEF ServedKept
  <2>2. Serving(u, r)
    BY <1>1, <1>6, <1>9, <2>1 DEF Serving, Runs
  <2>3. /\ e.requests[r].generated \in Nat /\ e.requests[r].limit \in Nat
    BY <1>3 DEF Request
  <2>4. CASE p.type = "PrefillComplete"
    <3>1. t = ProcessPrefill(u, r)
      BY <1>1, <1>5, <2>1, <2>4
    <3>2. e.requests[r].state = "Prefilling" /\ e.requests[r].generated = 0
      BY <1>9, <2>1, <2>4 DEF Suits, Served
    <3>3. Sound(t) /\ (Ok(t) => PrefillDone(u, t, r)) /\ (~Ok(t) => Exceeded(u))
      BY <1>1, <2>2, <3>1, <3>2, Prefilled
    <3>4. PrefillDone(u, t, r) => PrefillDone(e, t, r)
      BY <1>1, <1>a DEF PrefillDone
    <3>5. QED
      BY <1>1, <1>a, <2>4, <3>2, <3>3, <3>4 DEF Processed
  <2>5. CASE p.type = "DecodeStepComplete"
    <3>1. t = ProcessDecodeStep(u, r)
      BY <1>1, <1>5, <2>1, <2>5
    <3>2. e.requests[r].state = "Decoding" /\ e.requests[r].generated < e.requests[r].limit
      BY <1>9, <2>1, <2>5 DEF Suits, Served
    <3>3. Sound(t) /\ (Ok(t) => StepDone(u, t, r)) /\ (~Ok(t) => Exceeded(u))
      BY <1>1, <2>2, <3>1, <3>2, Decoded
    <3>4. StepDone(u, t, r) => StepDone(e, t, r)
      BY <1>1, <1>a DEF StepDone
    <3>5. QED
      BY <1>1, <1>a, <2>5, <3>2, <3>3, <3>4 DEF Processed
  <2>6. CASE p.type = "RequestComplete"
    <3>1. t = ProcessComplete(u, r)
      BY <1>1, <1>5, <2>1, <2>6
    <3>2. /\ e.requests[r].generated = e.requests[r].limit
          /\ e.requests[r].state = "Prefilling" => e.requests[r].limit = 0
      BY <1>9, <2>1, <2>6 DEF Suits, Served
    <3>3. Sound(t) /\ (Ok(t) => RequestDone(u, t, r)) /\ (~Ok(t) => Exceeded(u))
      BY <1>1, <2>2, <3>1, <3>2, Completing
    <3>4. RequestDone(u, t, r) => RequestDone(e, t, r)
      BY <1>1, <1>a DEF RequestDone
    <3>5. QED
      BY <1>1, <1>9, <1>a, <2>6, <3>3, <3>4 DEF Processed
  <2>7. CASE p.type = "RequestArrival"
    BY <1>9, <2>1, <2>7 DEF Suits, Served
  <2>8. QED
    BY <1>4, <2>4, <2>5, <2>6, <2>7 DEF EventType
<1>10. QED
  BY <1>6, <1>7, <1>8, <1>9

-----------------------------------------------------------------------------
(* Cancellation *)

\* Events are due exactly when one of them carries the present time.
LEMMA DueIs ==
  ASSUME NEW e, EngineInv(e)
  PROVE  /\ DueNow(e) <=> \E ev \in e.events : ev.time = e.clock
         /\ \A ev \in e.events : ev.time >= e.clock /\ ev.time \in Nat
         /\ e.events # {} =>
              /\ Top(e.events) \in e.events
              /\ \A ev \in e.events : Top(e.events).time <= ev.time
<1>1. /\ e \in Engine /\ e.events \subseteq Event /\ e.clock \in Nat
      /\ \A a, b \in e.events : a.seq = b.seq => a = b
  BY NoneIsNoValue DEF EngineInv, Engine, Sequenced
<1>2. ASSUME NEW ev \in e.events
      PROVE  ev.time >= e.clock /\ ev.time \in Nat
  <2>1. ev \in Event
    BY <1>1
  <2>2. ev.id \in Requests /\ ev.time \in Nat
    BY <2>1, NoneIsNoValue DEF Event
  <2>3. ev \in Mine(e, ev.id) /\ EventKept(e, ev.id)
    BY <2>2 DEF Mine, EngineInv, RequestKept
  <2>4. QED
    BY <2>2, <2>3 DEF EventKept
<1>3. e.events # {} =>
        /\ Top(e.events) \in e.events
        /\ \A ev \in e.events : Top(e.events).time <= ev.time
  BY <1>1, TopIsFirst
<1>4. DueNow(e) <=> \E ev \in e.events : ev.time = e.clock
  <2>1. DueNow(e) => \E ev \in e.events : ev.time = e.clock
    BY <1>3 DEF DueNow
  <2>2. ASSUME NEW ev \in e.events, ev.time = e.clock
        PROVE  DueNow(e)
    <3>1. Top(e.events) \in e.events /\ Top(e.events).time <= ev.time /\ e.events # {}
      BY <1>3
    <3>2. Top(e.events).time = e.clock
      BY <1>1, <1>2, <2>2, <3>1
    <3>3. QED
      BY <3>1, <3>2 DEF DueNow
  <2>3. QED
    BY <2>1, <2>2
<1>5. QED
  BY <1>2, <1>3, <1>4

LEMMA Authorizing ==
  ASSUME NEW e \in Engine, NEW r \in Requests, NEW t, t = AuthorizeIgnore(e, r)
  PROVE  /\ t \in Engine /\ t.failed = e.failed
         /\ t.clock = e.clock /\ t.events = e.events /\ t.next = e.next
         /\ t.requests = e.requests /\ t.active = e.active /\ t.sched = e.sched
         /\ t.ignored = e.ignored
         /\ \A q \in Requests \ {r} : t.pending[q] = e.pending[q]
         /\ t.pending[r] = None <=> e.pending[r] = None
         /\ t.pending[r] # None =>
              /\ t.pending[r].ignore
              /\ t.pending[r].seq = e.pending[r].seq /\ t.pending[r].type = e.pending[r].type
<1> DEFINE p == IF e.pending[r] = None THEN None ELSE [e.pending[r] EXCEPT !.ignore = TRUE]
           pending == [e.pending EXCEPT ![r] = p]
<1>1. e.pending[r] \in Pending \cup {None}
  BY DEF Engine
<1>2. /\ p \in Pending \cup {None}
      /\ p = None <=> e.pending[r] = None
      /\ p # None => p.ignore /\ p.seq = e.pending[r].seq /\ p.type = e.pending[r].type
  <2>1. CASE e.pending[r] = None
    BY <2>1
  <2>2. CASE e.pending[r] # None
    <3>1. p = [e.pending[r] EXCEPT !.ignore = TRUE] /\ e.pending[r] \in Pending
      BY <1>1, <2>2
    <3> HIDE DEF p
    <3>2. /\ p \in Pending /\ p.ignore /\ p.seq = e.pending[r].seq
          /\ p.type = e.pending[r].type
      BY <3>1 DEF Pending
    <3>3. QED
      BY <2>2, <3>2, NoneIsNoValue
  <2>3. QED
    BY <2>1, <2>2
<1>3. t = [e EXCEPT !.pending = pending]
  BY DEF AuthorizeIgnore
<1> HIDE DEF p
<1>4. /\ pending \in [Requests -> Pending \cup {None}] /\ pending[r] = p
      /\ \A q \in Requests \ {r} : pending[q] = e.pending[q]
  BY <1>2 DEF Engine
<1> HIDE DEF pending
<1>5. t \in Engine /\ t.pending = pending
  BY <1>3, <1>4 DEF Engine
<1>6. /\ t.failed = e.failed
      /\ t.clock = e.clock /\ t.events = e.events /\ t.next = e.next
      /\ t.requests = e.requests /\ t.active = e.active /\ t.sched = e.sched
      /\ t.ignored = e.ignored
  BY <1>3 DEF Engine
<1>7. QED
  BY <1>2, <1>4, <1>5, <1>6

Withdrawn(e, c, r) ==
  /\ Moved(e, c, r, [e.requests[r] EXCEPT !.state = "Cancelled", !.finish = e.clock])
  /\ Mine(c, r) = Mine(e, r)

\* A request that has not ended is cancelled, and the next one starts unless events
\* are due.
LEMMA Cancelling ==
  ASSUME NEW e, EngineInv(e), NEW r \in Requests, e.requests[r] # None,
         e.requests[r].state \notin Ended, NEW t, t = CancelRequest(e, r)
  PROVE  /\ Sound(t)
         /\ Ok(t) => WorkConserved(t)
         /\ Ok(t) => \E c : /\ EngineInv(c) /\ Withdrawn(e, c, r)
                            /\ \/ t = c
                               \/ /\ ~DueNow(c) /\ c.active = None /\ c.sched.waiting # {}
                                  /\ Started(c, t, ChooseNextRequest(c.sched).id)
         /\ ~Ok(t) => CounterAtLimit(e) \/ BeyondRange(e)
<1> DEFINE reply == NotifyCancelled(e.sched, r, e.clock)
           notified == Notified(e, reply)
           cancelled == TransitionTo(notified, r, "Cancelled")
           marked == AuthorizeIgnore(cancelled, r)
           cleared == [marked EXCEPT !.requests[r].finish = e.clock,
                                     !.active = IF @ = r THEN None ELSE @]
<1>1. /\ e \in Engine /\ Ok(e) /\ SchedulerInv(e.sched) /\ Sequenced(e)
      /\ e.requests[r] \in Request /\ e.clock \in Time /\ e.clock \in Nat
      /\ EventKept(e, r) /\ StateKept(e, r)
  BY NoneIsNoValue DEF EngineInv, Engine, RequestKept
<1>2. /\ e.requests[r].state \in {"Waiting"} \cup Served
      /\ e.active = r <=> e.requests[r].state \in Served
      /\ e.requests[r].state = "Waiting" => WaitingKept(e, r)
      /\ e.requests[r].state \in Served => ServedKept(e, r)
  BY <1>1 DEF StateKept
<1>3. PendingAsExpected(e, r)
  <2>1. CASE e.requests[r].state = "Waiting"
    BY <1>2, <2>1 DEF PendingAsExpected, ExpectedEvents, WaitingKept
  <2>2. CASE e.requests[r].state \in Served
    BY <1>2, <2>2 DEF PendingAsExpected, ExpectedEvents, ServedKept, Suits, Served
  <2>3. QED
    BY <1>2, <2>1, <2>2
<1>4. Cancellable(e.sched, r, e.clock)
  BY <1>2 DEF Cancellable, Known, WaitingKept, ServedKept, Runs
<1>5. t = IF ~Ok(notified) THEN notified
          ELSE IF ~Ok(cancelled) THEN cancelled
          ELSE StartUnlessDue(cleared)
  BY <1>3, Zenon DEF CancelRequest
<1> HIDE DEF reply, notified, cancelled, marked, cleared
<1>6. SchedulerInv(reply.sched)
  BY <1>1, CancellationKeeps DEF reply
<1>7. /\ reply.outcome \in {"ok", "overflow"}
      /\ reply.outcome = "ok" => /\ Changed(e.sched, reply.sched, r)
                                 /\ reply.sched.entries[r] \in Entry
                                 /\ reply.sched.entries[r].state = "Cancelled"
                                 /\ reply.sched.waited = e.sched.waited
  BY <1>1, <1>4, CancellationEffect DEF reply
<1>8. /\ notified.failed \in {"no", "overflow"}
      /\ Ok(notified) => reply.outcome = "ok" /\ NotifiedIs(e, notified, reply.sched)
      /\ ~Ok(notified) => reply.outcome = "overflow"
  BY <1>1, <1>6, <1>7, Notifying DEF notified, SchedulerInv
<1>9. CASE ~Ok(notified)
  <2>1. CounterAtLimit(e)
    BY <1>1, <1>8, <1>9, RefusalTells DEF reply, CounterAtLimit
  <2>2. QED
    BY <1>5, <1>8, <1>9, <2>1 DEF Sound, Ok
<1>10. CASE Ok(notified)
  <2>1. /\ NotifiedIs(e, notified, reply.sched) /\ reply.outcome = "ok"
        /\ notified \in Engine /\ notified.requests = e.requests
    BY <1>8, <1>10 DEF NotifiedIs
  <2> DEFINE gone == [e.requests[r] EXCEPT !.state = "Cancelled"]
             req == [gone EXCEPT !.finish = e.clock]
             active == IF e.active = r THEN None ELSE e.active
  <2>2. Ok(cancelled) /\ RequestIs(notified, cancelled, r, gone)
    <3>1. /\ MayBecome(e.requests[r].state, "Cancelled", e.requests[r].limit)
          /\ "Cancelled" \in RequestState
      BY <1>2, Moves DEF RequestState
    <3>2. QED
      BY <1>10, <2>1, <3>1, Becoming DEF cancelled
  <2>3. req \in Request /\ req.state = "Cancelled"
    <3>1. gone \in Request /\ gone.state = "Cancelled"
      BY <1>1 DEF Request, RequestState
    <3> HIDE DEF gone
    <3>2. QED
      BY <1>1, <3>1 DEF Request
  <2> HIDE DEF gone, req
  <2>4. /\ cancelled \in Engine /\ cancelled.failed = "no"
        /\ cancelled.clock = e.clock /\ cancelled.events = e.events /\ cancelled.next = e.next
        /\ cancelled.pending = e.pending /\ cancelled.active = e.active
        /\ cancelled.sched = reply.sched /\ cancelled.requests[r] = gone
        /\ cancelled.ignored = e.ignored
        /\ \A q \in Requests \ {r} : cancelled.requests[q] = e.requests[q]
    BY <2>1, <2>2 DEF RequestIs, NotifiedIs, Ok
  <2>5. /\ marked \in Engine /\ marked.failed = cancelled.failed
        /\ marked.clock = cancelled.clock /\ marked.events = cancelled.events
        /\ marked.next = cancelled.next /\ marked.requests = cancelled.requests
        /\ marked.active = cancelled.active /\ marked.sched = cancelled.sched
        /\ marked.ignored = cancelled.ignored
        /\ \A q \in Requests \ {r} : marked.pending[q] = cancelled.pending[q]
        /\ marked.pending[r] = None <=> cancelled.pending[r] = None
        /\ marked.pending[r] # None =>
             /\ marked.pending[r].ignore
             /\ marked.pending[r].seq = cancelled.pending[r].seq
             /\ marked.pending[r].type = cancelled.pending[r].type
    BY <2>4, Authorizing DEF marked
  <2>6. SettledIs(marked, cleared, r, req, active)
    <3>1. active \in Requests \cup {None}
      BY <1>1 DEF Engine
    <3>2. marked.requests[r] = gone /\ marked.active = e.active
      BY <2>4, <2>5
    <3>3. cleared = [marked EXCEPT !.requests = [marked.requests EXCEPT ![r] = req],
                                   !.active = active]
      BY <3>2 DEF cleared, req
    <3> HIDE DEF active
    <3>4. QED
      BY <2>3, <2>5, <3>1, <3>3, Settling
  <2>7. /\ cleared \in Engine /\ Ok(cleared) /\ cleared.clock = e.clock
        /\ cleared.events = e.events /\ cleared.next = e.next /\ cleared.active = active
        /\ cleared.sched = reply.sched /\ cleared.requests[r] = req
        /\ \A q \in Requests \ {r} : cleared.requests[q] = e.requests[q]
        /\ cleared.pending = marked.pending /\ cleared.ignored = e.ignored
    <3> HIDE DEF active
    <3>1. QED
      BY <2>4, <2>5, <2>6 DEF SettledIs, Ok
  <2>8. active # r /\ \A q \in Requests \ {r} : active = q <=> e.active = q
    BY NoneIsNoValue
  <2> HIDE DEF active
  <2>9. EngineInv(cleared)
    <3>1. AllBut(e, r)
      BY <1>1 DEF EngineInv, AllBut
    <3>2. Sequenced(cleared) /\ e.next <= cleared.next
      BY <1>1, <2>7, NextIsNatural DEF Sequenced
    <3>3. OthersSame(e, cleared, r)
      BY <1>7, <2>1, <2>4, <2>5, <2>7, <2>8 DEF OthersSame, Changed, Mine
    <3>4. EventKept(cleared, r)
      <4>1. Mine(cleared, r) = Mine(e, r)
        BY <2>7 DEF Mine
      <4>2. req.arrival = e.requests[r].arrival
        BY <1>1 DEF req, gone, Request
      <4>3. QED
        BY <1>1, <2>4, <2>5, <2>7, <4>1, <4>2 DEF EventKept
    <3>5. EndedKept(cleared, r)
      BY <1>7, <2>1, <2>3, <2>5, <2>7, NoneIsNoValue DEF EndedKept
    <3>6. StateKept(cleared, r)
      BY <2>3, <2>7, <2>8, <3>5, NoneIsNoValue DEF StateKept, Served, Ended
    <3>7. QED
      BY <1>1, <1>6, <2>7, <3>1, <3>2, <3>3, <3>4, <3>6, Restored DEF RequestKept
  <2>10. t = IF DueNow(cleared) THEN cleared ELSE StartNextIfIdle(cleared)
    BY <1>5, <1>10, <2>2 DEF StartUnlessDue
  <2>11. Withdrawn(e, cleared, r)
    <3>1. req = [e.requests[r] EXCEPT !.state = "Cancelled", !.finish = e.clock]
      BY DEF req, gone
    <3>2. \A q \in Requests : Mine(cleared, q) = Mine(e, q)
      BY <2>7 DEF Mine
    <3>3. QED
      BY <2>7, <3>1, <3>2 DEF Withdrawn, Moved
  <2>12. Exceeded(cleared) => CounterAtLimit(e) \/ BeyondRange(e)
    <3>1. AtLimit(cleared) => CounterAtLimit(e)
      BY <1>7, <2>1, <2>7 DEF AtLimit, CounterAtLimit, Changed
    <3>2. /\ req.prompt = e.requests[r].prompt /\ req.arrival = e.requests[r].arrival
          /\ PrefillTime(req) = PrefillTime(e.requests[r])
      BY <1>1 DEF req, gone, Request, PrefillTime
    <3>3. Submitted(cleared) = Submitted(e)
      BY <1>1, <2>3, <2>7, NoneIsNoValue DEF Submitted
    <3>4. ASSUME BeyondRange(cleared)
          PROVE  BeyondRange(e)
      <4>1. PICK q \in Submitted(cleared) :
              \/ cleared.requests[q].prompt > IntMax
              \/ cleared.clock + PrefillTime(cleared.requests[q]) > IntMax
              \/ cleared.clock + StepTime > IntMax
              \/ cleared.sched.waited + cleared.clock - cleared.requests[q].arrival > IntMax
        BY <3>4 DEF BeyondRange
      <4>2. q \in Submitted(e) /\ q \in Requests
        BY <3>3 DEF Submitted
      <4>3. CASE q = r
        BY <1>7, <2>1, <2>7, <3>2, <4>1, <4>2, <4>3 DEF BeyondRange
      <4>4. CASE q # r
        BY <1>7, <2>1, <2>7, <4>1, <4>2, <4>4 DEF BeyondRange
      <4>5. QED
        BY <4>3, <4>4
    <3>5. QED
      BY <3>1, <3>4 DEF Exceeded
  <2>13. CASE DueNow(cleared)
    BY <2>9, <2>10, <2>11, <2>13 DEF Sound, WorkConserved, EngineInv, Ok
  <2>14. CASE ~DueNow(cleared)
    <3>1. t = StartNextIfIdle(cleared)
      BY <2>10, <2>14
    <3>2. /\ Sound(t)
          /\ Ok(t) => t.active # None \/ t.sched.waiting = {}
          /\ Ok(t) => \/ t = cleared
                      \/ /\ cleared.active = None /\ cleared.sched.waiting # {}
                         /\ Started(cleared, t, ChooseNextRequest(cleared.sched).id)
          /\ ~Ok(t) => Exceeded(cleared)
      BY <2>9, <3>1, StartingNext
    <3>3. QED
      BY <2>9, <2>11, <2>12, <2>14, <3>2 DEF WorkConserved
  <2>15. QED
    BY <2>13, <2>14
<1>11. QED
  BY <1>9, <1>10

-----------------------------------------------------------------------------
(* Submission, and the clock *)

LEMMA Submitting ==
  ASSUME NEW e, EngineInv(e), WorkConserved(e), NEW r \in Requests, e.requests[r] = None,
         NEW arrival \in Time, arrival >= e.clock, NEW prompt \in Nat, NEW limit \in Nat,
         NEW u, u = [e EXCEPT !.requests[r] = NewRequest(arrival, prompt, limit)],
         NEW t, t = ScheduleRequestEvent(u, arrival, r, "RequestArrival"), Ok(t)
  PROVE  /\ EngineInv(t) /\ WorkConserved(t)
         /\ Moved(e, t, r, NewRequest(arrival, prompt, limit))
<1> DEFINE req == NewRequest(arrival, prompt, limit)
<1>1. /\ e \in Engine /\ Ok(e) /\ SchedulerInv(e.sched) /\ Sequenced(e) /\ e.clock \in Time
      /\ EventKept(e, r) /\ StateKept(e, r)
  BY DEF EngineInv, Engine, RequestKept
<1>2. /\ e.pending[r] = None /\ e.sched.entries[r] = None /\ e.active # r
      /\ Mine(e, r) = {}
  BY <1>1 DEF StateKept, EventKept
<1>3. /\ req \in Request /\ req.state = "Waiting" /\ req.admitted = None /\ req.generated = 0
      /\ req.arrival = arrival
  BY DEF NewRequest, Request, RequestState
<1>4. RequestIs(e, u, r, req)
  <2>1. u = [e EXCEPT !.requests = [e.requests EXCEPT ![r] = req]]
    OBVIOUS
  <2> HIDE DEF req
  <2>2. \A v : v = [e EXCEPT !.requests = [e.requests EXCEPT ![r] = req]] => RequestIs(e, v, r, req)
    BY <1>1, <1>3, Rewriting
  <2>3. QED
    BY <2>1, <2>2, Zenon
<1> HIDE DEF req
<1>5. ScheduledIs(u, t, r, arrival, "RequestArrival")
  <2>1. /\ u \in Engine /\ Ok(u) /\ Sequenced(u) /\ u.pending[r] = None /\ Mine(u, r) = {}
        /\ "RequestArrival" \in EventType
    BY <1>1, <1>2, <1>4 DEF RequestIs, Ok, Sequenced, Mine, EventType
  <2>2. \A v \in Engine : /\ Ok(v) /\ Sequenced(v) /\ v.pending[r] = None /\ Mine(v, r) = {}
                          /\ Ok(ScheduleRequestEvent(v, arrival, r, "RequestArrival"))
          => ScheduledIs(v, ScheduleRequestEvent(v, arrival, r, "RequestArrival"), r, arrival,
                         "RequestArrival")
    BY <2>1, Scheduling
  <2>3. QED
    BY <2>1, <2>2, Zenon
<1>6. /\ t \in Engine /\ t.clock = e.clock /\ t.active = e.active /\ t.sched = e.sched
      /\ t.next = e.next + 1 /\ t.requests[r] = req /\ Sequenced(t)
      /\ \A q \in Requests \ {r} : /\ t.requests[q] = e.requests[q] /\ t.pending[q] = e.pending[q]
                                   /\ Mine(t, q) = Mine(e, q)
      /\ t.pending[r] = [seq |-> e.next, type |-> "RequestArrival", ignore |-> FALSE]
      /\ t.pending[r] # None
      /\ Mine(t, r) = {[time |-> arrival, seq |-> e.next, id |-> r, type |-> "RequestArrival"]}
  <2>1. /\ u.clock = e.clock /\ u.events = e.events /\ u.next = e.next
        /\ u.pending = e.pending /\ u.active = e.active /\ u.sched = e.sched
        /\ u.requests[r] = req
        /\ \A q \in Requests \ {r} : u.requests[q] = e.requests[q]
    BY <1>4 DEF RequestIs
  <2>2. \A q : Mine(u, q) = Mine(e, q)
    BY <2>1 DEF Mine
  <2>3. /\ t \in Engine /\ Sequenced(t)
        /\ t.clock = u.clock /\ t.requests = u.requests /\ t.active = u.active
        /\ t.sched = u.sched /\ t.next = u.next + 1
        /\ t.pending[r] = [seq |-> u.next, type |-> "RequestArrival", ignore |-> FALSE]
        /\ t.pending[r] # None
        /\ Mine(t, r) = {[time |-> arrival, seq |-> u.next, id |-> r, type |-> "RequestArrival"]}
        /\ \A q \in Requests \ {r} : t.pending[q] = u.pending[q] /\ Mine(t, q) = Mine(u, q)
    BY <1>5, Zenon DEF ScheduledIs
  <2>4. QED
    BY ONLY <2>1, <2>2, <2>3
<1>7. EngineInv(t)
  <2>1. AllBut(e, r)
    BY <1>1 DEF EngineInv, AllBut
  <2>2. e.next <= t.next
    BY <1>1, <1>6, NextIsNatural
  <2>3. OthersSame(e, t, r)
    BY <1>6 DEF OthersSame
  <2>4. EventKept(t, r)
    BY <1>1, <1>3, <1>6, NextIsNatural DEF EventKept
  <2>5. WaitingKept(t, r)
    BY <1>2, <1>3, <1>6 DEF WaitingKept
  <2>6. t.requests[r] # None
    BY <1>3, <1>6, NoneIsNoValue
  <2>7. StateKept(t, r)
    BY <1>2, <1>3, <1>6, <2>5, <2>6 DEF StateKept, Served, Ended
  <2>8. \A v \in Engine :
          /\ Ok(v) /\ SchedulerInv(v.sched) /\ Sequenced(v) /\ v.clock = e.clock
          /\ e.next <= v.next /\ OthersSame(e, v, r) /\ RequestKept(v, r)
          => EngineInv(v)
    BY <2>1, Restored
  <2>9. RequestKept(t, r) /\ SchedulerInv(t.sched)
    BY <1>1, <1>6, <2>4, <2>7 DEF RequestKept
  <2>10. QED
    BY <1>6, <2>2, <2>3, <2>8, <2>9, Zenon
<1>8. DueNow(e) => DueNow(t)
  <2>1. ASSUME NEW ev \in e.events, ev.time = e.clock
        PROVE  ev \in t.events
    <3>1. ev.id \in Requests /\ ev \in Mine(e, ev.id)
      BY <1>1 DEF Engine, Event, Mine
    <3>2. ev \in Mine(t, ev.id)
      BY <1>2, <1>6, <3>1
    <3>3. QED
      BY <3>2 DEF Mine
  <2>2. DueNow(e) => \E ev \in e.events : ev.time = e.clock
    BY DueIs
  <2>3. DueNow(e) => \E ev \in t.events : ev.time = t.clock
    BY <1>6, <2>1, <2>2
  <2>4. \A v : EngineInv(v) /\ (\E ev \in v.events : ev.time = v.clock) => DueNow(v)
    BY DueIs
  <2>5. QED
    BY <1>7, <2>3, <2>4, Zenon
<1>9. Moved(e, t, r, NewRequest(arrival, prompt, limit))
  BY <1>6 DEF Moved, req
<1>10. QED
  BY <1>6, <1>7, <1>8, <1>9 DEF WorkConserved

LEMMA Advancing ==
  ASSUME NEW e, EngineInv(e), e.events # {},
         NEW t, t = [e EXCEPT !.clock = Top(e.events).time]
  PROVE  EngineInv(t)
<1> DEFINE time == Top(e.events).time
<1>1. e \in Engine /\ Ok(e) /\ SchedulerInv(e.sched) /\ Sequenced(e) /\ e.clock \in Nat
  BY NoneIsNoValue DEF EngineInv, Engine
<1>2. time \in Time /\ time \in Nat /\ e.clock <= time /\ \A ev \in e.events : time <= ev.time
  BY <1>1, DueIs, NoneIsNoValue DEF Engine, Event
<1> HIDE DEF time
<1>3. t = [e EXCEPT !.clock = time]
  BY DEF time
<1>4. t \in Engine /\ t.clock = time
  BY <1>1, <1>2, <1>3 DEF Engine
<1>5. /\ t.failed = e.failed /\ t.events = e.events /\ t.next = e.next
      /\ t.requests = e.requests /\ t.pending = e.pending /\ t.active = e.active
      /\ t.sched = e.sched
  BY <1>1, <1>3 DEF Engine
<1>6. ASSUME NEW r \in Requests
      PROVE  RequestKept(t, r)
  <2>1. EventKept(e, r) /\ StateKept(e, r)
    BY DEF EngineInv, RequestKept
  <2>2. Mine(t, r) = Mine(e, r)
    BY <1>5 DEF Mine
  <2>3. EventKept(t, r)
    <3>1. CASE e.pending[r] = None
      BY <1>5, <2>1, <2>2, <3>1 DEF EventKept
    <3>2. CASE e.pending[r] # None
      <4> DEFINE p == e.pending[r]
                 Of(at) == [time |-> at, seq |-> p.seq, id |-> r, type |-> p.type]
      <4>1. PICK at \in Time : /\ Mine(e, r) = {Of(at)}
                               /\ p.type = "RequestArrival" => at = e.requests[r].arrival
        BY <2>1, <3>2 DEF EventKept
      <4>2. Of(at) \in e.events /\ Of(at).time = at
        BY <4>1 DEF Mine
      <4> HIDE DEF Of
      <4>3. time <= at
        BY <1>2, <4>2
      <4>4. at >= time
        BY <1>2, <4>1, <4>3, NoneIsNoValue
      <4>5. p.seq < t.next
        BY <1>5, <2>1, <3>2 DEF EventKept
      <4>6. QED
        BY <1>4, <1>5, <2>2, <3>2, <4>1, <4>4, <4>5 DEF EventKept, Of
    <3>3. QED
      BY <3>1, <3>2
  <2>4. \A x \in Time \cup {None} : x # None /\ x <= e.clock => x <= t.clock
    BY <1>1, <1>2, <1>4, NoneIsNoValue
  <2>5. e.requests[r] # None => /\ e.requests[r].arrival \in Time \cup {None}
                                /\ e.requests[r].arrival # None
                                /\ e.requests[r].admitted \in Time \cup {None}
    BY <1>1, NoneIsNoValue DEF Engine, Request
  <2>6. e.requests[r] # None /\ e.requests[r].state = "Waiting" => WaitingKept(t, r)
    BY <1>5, <2>1, <2>4, <2>5 DEF StateKept, WaitingKept
  <2>7. e.requests[r] # None /\ e.requests[r].state \in Served => ServedKept(t, r)
    BY <1>5, <2>1, <2>4, <2>5 DEF StateKept, ServedKept, Runs
  <2>8. StateKept(t, r)
    BY <1>5, <2>1, <2>6, <2>7 DEF StateKept, EndedKept
  <2>9. QED
    BY <2>3, <2>8 DEF RequestKept
<1>7. Ok(t) /\ Sequenced(t) /\ SchedulerInv(t.sched)
  BY <1>1, <1>5 DEF Ok, Sequenced
<1>8. QED
  BY <1>4, <1>6, <1>7 DEF EngineInv

-----------------------------------------------------------------------------
(* The invariant *)

LEMMA Initially ==
  Init => Inv
<1> SUFFICES ASSUME Init PROVE Inv
  OBVIOUS
<1>1. EmptyScheduler \in Scheduler /\ SchedulerInv(EmptyScheduler)
  BY EmptyKept
<1>2. 0 \in Time /\ 0 \in Count
  BY IntMaxAssumption, SchedulerAssumption DEF Time, Count
<1>3. /\ engine.clock = 0 /\ engine.events = {} /\ engine.next = 0
      /\ engine.requests = [r \in Requests |-> None]
      /\ engine.pending = [r \in Requests |-> None]
      /\ engine.active = None /\ engine.sched = EmptyScheduler
      /\ engine.ignored = 0 /\ engine.failed = "no" /\ current = None
  BY DEF Init
<1>4. engine \in Engine
  <2>1. /\ [r \in Requests |-> None] \in [Requests -> Request \cup {None}]
        /\ [r \in Requests |-> None] \in [Requests -> Pending \cup {None}]
    OBVIOUS
  <2>2. QED
    BY <1>1, <1>2, <2>1 DEF Init, Engine
<1>5. ASSUME NEW r \in Requests
      PROVE  RequestKept(engine, r)
  <2>1. /\ engine.pending[r] = None /\ engine.requests[r] = None
        /\ engine.sched.entries[r] = None /\ engine.active # r /\ Mine(engine, r) = {}
    BY <1>3, NoneIsNoValue DEF EmptyScheduler, Mine
  <2>2. QED
    BY <2>1 DEF RequestKept, EventKept, StateKept
<1>6. Sequenced(engine) /\ Ok(engine)
  BY <1>3 DEF Sequenced, Ok
<1>7. EngineInv(engine)
  BY <1>1, <1>3, <1>4, <1>5, <1>6 DEF EngineInv
<1>8. WorkConserved(engine)
  BY <1>3 DEF WorkConserved, EmptyScheduler
<1>9. QED
  BY <1>3, <1>4, <1>7, <1>8 DEF Inv, TypeOK, Idle

\* What is kept of a call that went as planned, or whose numbers did not fit.
LEMMA Keeping ==
  ASSUME Inv, Ok(engine), NEW result, Sound(result), Keep(result),
         current' \in Time \cup {None},
         ~Ok(result) => current' = None,
         Ok(result) /\ current' = None => WorkConserved(result)
  PROVE  Inv'
<1>1. engine \in Engine
  BY DEF Inv, TypeOK
<1>2. CASE Ok(result)
  <2>1. engine' = result /\ EngineInv(result)
    BY <1>2 DEF Keep, Sound
  <2>2. result \in Engine /\ result.failed = "no"
    BY <1>2, <2>1 DEF EngineInv, Ok
  <2>3. EngineInv(engine') /\ engine' \in Engine /\ engine'.failed = "no"
    BY <2>1, <2>2
  <2>4. current' = None => WorkConserved(engine')
    BY <1>2, <2>1
  <2>5. QED
    BY <2>3, <2>4 DEF Inv, TypeOK, Idle, Ok
<1>3. CASE ~Ok(result)
  <2>1. engine' = Fail(engine, "overflow")
    BY <1>3 DEF Keep, Sound, Ok
  <2>2. engine' \in Engine /\ engine'.failed = "overflow"
    BY <1>1, <2>1 DEF Fail, Engine
  <2>3. ~Ok(engine') /\ current' = None
    BY <1>3, <2>2 DEF Ok
  <2>4. QED
    BY <2>2, <2>3 DEF Inv, TypeOK, Idle, Ok
<1>4. QED
  BY <1>2, <1>3

LEMMA InvariantKept ==
  Inv /\ [Next]_vars => Inv'
<1> SUFFICES ASSUME Inv, [Next]_vars
             PROVE  Inv'
  OBVIOUS
<1>1. engine \in Engine /\ current \in Time \cup {None}
  BY DEF Inv, TypeOK
<1>2. ASSUME NEW r \in Requests, NEW s \in Submissions,
             SubmitRequest(r, s.arrival, s.prompt, s.limit)
      PROVE  Inv'
  <2> DEFINE known == [engine EXCEPT !.requests[r] = NewRequest(s.arrival, s.prompt, s.limit)]
             scheduled == ScheduleRequestEvent(known, s.arrival, r, "RequestArrival")
  <2>1. /\ Idle /\ engine.requests[r] = None /\ s.arrival >= engine.clock
        /\ Ok(scheduled) /\ engine' = scheduled /\ current' = current
    BY <1>2 DEF SubmitRequest, Submitted
  <2>2. s.arrival \in Time /\ s.prompt \in Nat /\ s.limit \in Nat
    BY EngineAssumption
  <2>3. EngineInv(engine) /\ WorkConserved(engine) /\ current = None
    BY <2>1 DEF Inv, Idle
  <2>4. EngineInv(scheduled) /\ WorkConserved(scheduled)
    BY <2>1, <2>2, <2>3, Submitting
  <2> HIDE DEF scheduled
  <2>5. EngineInv(engine') /\ WorkConserved(engine') /\ engine' \in Engine /\ Ok(engine')
    BY <2>1, <2>4 DEF EngineInv
  <2>6. engine'.failed = "no"
    BY <2>5 DEF Ok
  <2>7. QED
    BY <1>1, <2>1, <2>5, <2>6 DEF Inv, TypeOK, Idle, Ok
<1>3. ASSUME NEW r \in Requests, Cancel(r)
      PROVE  Inv'
  <2>1. /\ Idle /\ r \in InPhase(engine, RequestState \ Terminal)
        /\ Keep(CancelRequest(engine, r)) /\ current' = current
    BY <1>3 DEF Cancel
  <2>2. EngineInv(engine) /\ current = None /\ Ok(engine)
    BY <2>1 DEF Inv, Idle
  <2>3. engine.requests[r] # None /\ engine.requests[r].state \notin Ended
    BY <2>1, Moves DEF InPhase, Submitted
  <2>4. /\ Sound(CancelRequest(engine, r))
        /\ Ok(CancelRequest(engine, r)) => WorkConserved(CancelRequest(engine, r))
    BY <2>2, <2>3, Cancelling
  <2>5. QED
    BY <2>1, <2>2, <2>4, Keeping
<1>4. CASE BeginTimestamp
  <2>1. /\ Idle /\ engine.events # {} /\ current' = engine'.clock
        /\ engine' = [engine EXCEPT !.clock = Top(engine.events).time]
    BY <1>4 DEF BeginTimestamp
  <2>2. EngineInv(engine)
    BY <2>1 DEF Inv, Idle
  <2>3. EngineInv(engine')
    BY <2>1, <2>2, Advancing
  <2>4. engine' \in Engine /\ Ok(engine') /\ engine'.clock \in Time
    BY <2>3 DEF EngineInv, Engine
  <2>5. current' \in Time /\ current' # None
    BY <2>1, <2>4, NoneIsNoValue
  <2>6. QED
    BY <2>3, <2>4, <2>5 DEF Inv, TypeOK, Idle, Ok
<1>5. CASE ProcessTop
  <2> DEFINE result == ProcessEvent(engine, Top(engine.events))
  <2>1. /\ Ok(engine) /\ current # None /\ DueNow(engine) /\ Keep(result)
        /\ current' = IF Ok(engine') THEN current ELSE None
    BY <1>5 DEF ProcessTop
  <2>2. EngineInv(engine)
    BY <2>1 DEF Inv
  <2>3. Top(engine.events) \in engine.events /\ Top(engine.events).time = engine.clock
    BY <2>1, <2>2, DueIs DEF DueNow
  <2>4. Sound(result)
    BY <2>2, <2>3, Processing
  <2> HIDE DEF result
  <2>5. Ok(engine') <=> Ok(result)
    <3>1. ~Ok(result) => Fail(engine, result.failed).failed = result.failed
      BY <1>1, FailIs
    <3>2. QED
      BY <2>1, <3>1 DEF Keep, Ok
  <2>6. QED
    BY <1>1, <2>1, <2>4, <2>5, Keeping
<1>6. CASE EndTimestamp
  <2> DEFINE result == StartNextIfIdle(engine)
  <2>1. Ok(engine) /\ Keep(result) /\ current' = None
    BY <1>6 DEF EndTimestamp
  <2>2. EngineInv(engine)
    BY <2>1 DEF Inv
  <2>3. Sound(result) /\ (Ok(result) => WorkConserved(result))
    BY <2>2, StartingNext DEF WorkConserved
  <2> HIDE DEF result
  <2>4. QED
    BY <2>1, <2>3, Keeping
<1>7. CASE UNCHANGED vars
  BY <1>7 DEF vars, Inv, TypeOK, Idle
<1>8. QED
  BY <1>2, <1>3, <1>4, <1>5, <1>6, <1>7 DEF Next

\* Whatever is submitted, cancelled and run, the engine's records are what they are
\* declared to be (std::uint64_t counters that never pass their limit, times in range).
THEOREM TypesKept ==
  Spec => []TypeOK
<1>1. Inv => TypeOK
  BY DEF Inv
<1>2. QED
  BY <1>1, Initially, InvariantKept, PTL DEF Spec

-----------------------------------------------------------------------------
(* The records agree *)

\* When nothing is left in the queue nothing is left to do.
LEMMA NothingLeft ==
  ASSUME NEW e, EngineInv(e), WorkConserved(e), e.events = {}
  PROVE  /\ ~UnfinishedWork(e)
         /\ Submitted(e) = InPhase(e, Terminal)
<1>1. e \in Engine /\ SchedulerInv(e.sched) /\ e.active \in Requests \cup {None}
  BY DEF EngineInv, Engine
<1>2. ASSUME NEW r \in Requests
      PROVE  e.pending[r] = None /\ StateKept(e, r)
  <2>1. EventKept(e, r) /\ StateKept(e, r) /\ Mine(e, r) = {}
    BY DEF EngineInv, RequestKept, Mine
  <2>2. QED
    BY <2>1 DEF EventKept
<1>3. e.active = None
  <2>1. ASSUME NEW r \in Requests, e.active = r
        PROVE  FALSE
    BY <1>2, <2>1 DEF StateKept, ServedKept
  <2>2. QED
    BY <1>1, <2>1
<1>4. e.sched.waiting = {}
  BY <1>3 DEF WorkConserved, DueNow
<1>5. e.sched.running = 0
  BY <1>1, <1>3, NoneIsRunning, RunningIsCounted
<1>6. ~UnfinishedWork(e)
  BY <1>2, <1>3, <1>4, <1>5 DEF UnfinishedWork
<1>7. InState(e.sched, "Waiting") = {}
  BY <1>1, <1>4 DEF SchedulerInv, Consistent
<1>8. ASSUME NEW r \in Requests, e.requests[r] # None
      PROVE  e.requests[r].state \in Ended
  <2>1. e.pending[r] = None /\ StateKept(e, r)
    BY <1>2
  <2>2. e.requests[r].state \notin Served
    BY <1>8, <2>1 DEF StateKept, ServedKept
  <2>3. e.requests[r].state # "Waiting"
    <3>1. SUFFICES ASSUME e.requests[r].state = "Waiting"
                   PROVE  FALSE
      OBVIOUS
    <3>2. e.sched.entries[r] # None /\ e.sched.entries[r].state = "Waiting"
      BY <1>8, <2>1, <3>1 DEF StateKept, WaitingKept
    <3>3. QED
      BY <1>7, <3>2 DEF InState
  <2>4. QED
    BY <1>8, <2>1, <2>2, <2>3 DEF StateKept
<1>9. Submitted(e) = InPhase(e, Terminal)
  BY <1>8, Moves DEF Submitted, InPhase
<1>10. QED
  BY <1>6, <1>9

LEMMA RecordsFollow ==
  Inv => RecordsAgree
<1> SUFFICES ASSUME Inv
             PROVE  RecordsAgree
  OBVIOUS
<1>1. engine.failed # "logic_error"
  BY DEF Inv
<1>2. Idle /\ engine.events = {} =>
        /\ ~UnfinishedWork(engine)
        /\ Submitted(engine) = InPhase(engine, Terminal)
  BY NothingLeft DEF Inv, Idle
<1>3. ASSUME Ok(engine), NEW r \in Requests
      PROVE  LET p == engine.pending[r] IN
             IF p = None THEN \A ev \in engine.events : ev.id # r
             ELSE /\ \E ev \in engine.events : ev.id = r /\ ev.seq = p.seq /\ ev.type = p.type
                  /\ Cardinality({ev \in engine.events : ev.id = r}) = 1
                  /\ p.ignore <=> engine.requests[r].state = "Cancelled"
  <2> DEFINE p == engine.pending[r]
  <2>1. /\ engine \in Engine /\ EventKept(engine, r) /\ StateKept(engine, r)
    BY <1>3 DEF Inv, EngineInv, RequestKept
  <2>2. CASE p = None
    BY <2>1, <2>2 DEF EventKept, Mine
  <2>3. CASE p # None
    <3>1. PICK time \in Time :
            Mine(engine, r) = {[time |-> time, seq |-> p.seq, id |-> r, type |-> p.type]}
      BY <2>1, <2>3 DEF EventKept
    <3> DEFINE it == [time |-> time, seq |-> p.seq, id |-> r, type |-> p.type]
    <3>2. it \in engine.events /\ it.id = r /\ it.seq = p.seq /\ it.type = p.type
      BY <3>1 DEF Mine
    <3>3. Cardinality(Mine(engine, r)) = 1
      BY <3>1, FS_Singleton
    <3>4. p.ignore <=> engine.requests[r].state = "Cancelled"
      <4>1. engine.requests[r] # None
        BY <2>1, <2>3 DEF StateKept
      <4>2. engine.requests[r].state \in {"Waiting"} \cup Served \cup Ended
        BY <2>1, <4>1 DEF StateKept
      <4>3. CASE engine.requests[r].state = "Waiting"
        BY <2>1, <2>3, <4>1, <4>3 DEF StateKept, WaitingKept
      <4>4. CASE engine.requests[r].state \in Served
        BY <2>1, <4>1, <4>4 DEF StateKept, ServedKept, Served
      <4>5. CASE engine.requests[r].state \in Ended
        BY <2>1, <2>3, <4>1, <4>5 DEF StateKept, EndedKept, Ended
      <4>6. QED
        BY <4>2, <4>3, <4>4, <4>5
    <3> HIDE DEF it
    <3>5. QED
      BY <2>3, <3>2, <3>3, <3>4 DEF Mine
  <2>4. QED
    BY <2>2, <2>3
<1>4. ASSUME Ok(engine), NEW r \in Submitted(engine)
      PROVE  LET state == engine.requests[r].state
                 entry == engine.sched.entries[r]
                 p == engine.pending[r] IN
             CASE state = "Waiting"  ->
                    IF entry = None THEN p # None ELSE p = None /\ entry.state = "Waiting"
               [] state = "Finished" -> p = None /\ entry.state = "Completed"
               [] state = "Cancelled" -> entry.state = "Cancelled"
               [] OTHER -> engine.active = r /\ p # None /\ entry.state = "Running"
  <2>1. /\ engine.requests[r] # None /\ r \in Requests /\ StateKept(engine, r)
    BY <1>4 DEF Inv, EngineInv, RequestKept, Submitted
  <2>2. engine.requests[r].state \in {"Waiting"} \cup Served \cup Ended
    BY <2>1 DEF StateKept
  <2>3. CASE engine.requests[r].state = "Waiting"
    BY <2>1, <2>3 DEF StateKept, WaitingKept
  <2>4. CASE engine.requests[r].state \in Served
    BY <2>1, <2>4 DEF StateKept, ServedKept, Runs, Served
  <2>5. CASE engine.requests[r].state \in Ended
    BY <2>1, <2>5 DEF StateKept, EndedKept, Ended
  <2>6. QED
    BY <2>2, <2>3, <2>4, <2>5
<1>5. Ok(engine) /\ engine.active # None =>
        engine.requests[engine.active].state \in {"Prefilling", "Decoding"}
  <2>1. ASSUME Ok(engine), engine.active # None
        PROVE  engine.requests[engine.active].state \in {"Prefilling", "Decoding"}
    <3>1. engine.active \in Requests
      BY <2>1 DEF Inv, EngineInv, Engine
    <3>2. StateKept(engine, engine.active)
      BY <2>1, <3>1 DEF Inv, EngineInv, RequestKept
    <3>3. QED
      BY <3>2 DEF StateKept, Served
  <2>2. QED
    BY <2>1
<1>6. Ok(engine) => \A ev \in engine.events : ev.time >= engine.clock
  BY DueIs DEF Inv
<1>7. QED
  BY <1>1, <1>2, <1>3, <1>4, <1>5, <1>6, Zenon DEF RecordsAgree

\* The five records of what a request is doing agree in every state, no consistency
\* check of the engine ever throws, and an engine with an empty queue has ended every
\* request that was submitted.
THEOREM RecordsAgreeing ==
  Spec => []RecordsAgree
<1>1. Inv => RecordsAgree
  BY RecordsFollow
<1>2. QED
  BY <1>1, Initially, InvariantKept, PTL DEF Spec

-----------------------------------------------------------------------------
(* When the events of a request are due *)

\* The prefill of an admitted request ends, and its n-th token comes.
Ready(req) == req.admitted + PrefillTime(req)
TokenTime(req, n) == Ready(req) + n * StepTime

DueTime(req, type) ==
  TokenTime(req, IF type = "DecodeStepComplete" THEN req.generated + 1 ELSE req.generated)

TimedAs(req, clock, events) ==
  /\ req.state = "Waiting" => req.token = None /\ req.finish = None
  /\ req.admitted # None =>
       /\ req.generated <= req.limit
       /\ req.generated > 0 => req.token = Ready(req) + StepTime
       /\ req.state \in Served =>
            /\ req.finish = None
            /\ req.generated = 0 => req.token = None
            /\ req.generated > 0 => TokenTime(req, req.generated) <= clock
            /\ \A ev \in events : ev.time = DueTime(req, ev.type)
       /\ req.state \in Ended =>
            /\ req.finish # None
            /\ req.generated > 0 => TokenTime(req, req.generated) <= req.finish
            /\ req.generated < req.limit => req.finish <= TokenTime(req, req.generated + 1)

Timed(e, r) ==
  e.requests[r] # None => TimedAs(e.requests[r], e.clock, Mine(e, r))

AllTimed(e) == \A r \in Requests : Timed(e, r)

LEMMA RequestNumbers ==
  ASSUME NEW req \in Request
  PROVE  /\ req.prompt \in Nat /\ req.limit \in Nat /\ req.generated \in Nat /\ req.arrival \in Nat
         /\ req.admitted # None => req.admitted \in Nat
         /\ req.token # None => req.token \in Nat
         /\ req.finish # None => req.finish \in Nat
         /\ PrefillTime(req) \in Nat /\ StepTime \in Nat
         /\ req.admitted # None => Ready(req) \in Nat
<1>1. PrefillTime(req) \in Nat /\ StepTime \in Nat
  BY EstimatesTell
<1>2. /\ req.prompt \in Nat /\ req.limit \in Nat /\ req.generated \in Nat /\ req.arrival \in Nat
      /\ req.admitted # None => req.admitted \in Nat
      /\ req.token # None => req.token \in Nat
      /\ req.finish # None => req.finish \in Nat
  BY NoneIsNoValue DEF Request
<1>3. QED
  BY <1>1, <1>2 DEF Ready

LEMMA TokenTimes ==
  ASSUME NEW req \in Request, req.admitted # None, NEW m \in Nat, NEW n \in Nat, m <= n
  PROVE  /\ TokenTime(req, m) \in Nat /\ TokenTime(req, m) <= TokenTime(req, n)
         /\ TokenTime(req, m + 1) = TokenTime(req, m) + StepTime
         /\ TokenTime(req, 0) = Ready(req) /\ TokenTime(req, 1) = Ready(req) + StepTime
<1>1. Ready(req) \in Nat /\ StepTime \in Nat
  BY RequestNumbers
<1>2. /\ m * StepTime \in Nat /\ m * StepTime <= n * StepTime
      /\ (m + 1) * StepTime = m * StepTime + StepTime
      /\ 0 * StepTime = 0 /\ 1 * StepTime = StepTime
  BY <1>1
<1>3. n * StepTime \in Nat
  BY <1>1
<1>4. QED
  BY <1>1, <1>2, <1>3 DEF TokenTime

\* Where an event of r is found in the queue.
LEMMA PendingIsMine ==
  ASSUME NEW e, EngineInv(e), NEW r \in Requests, e.pending[r] # None
  PROVE  \E ev \in e.events : /\ ev \in Mine(e, r) /\ ev.type = e.pending[r].type
                              /\ ev.time >= e.clock /\ ev.time \in Nat
<1>1. EventKept(e, r)
  BY DEF EngineInv, RequestKept
<1>2. PICK time \in Time :
        /\ time >= e.clock
        /\ Mine(e, r) = {[time |-> time, seq |-> e.pending[r].seq, id |-> r,
                          type |-> e.pending[r].type]}
  BY <1>1 DEF EventKept
<1> DEFINE ev == [time |-> time, seq |-> e.pending[r].seq, id |-> r, type |-> e.pending[r].type]
<1>3. ev \in Mine(e, r) /\ ev.type = e.pending[r].type /\ ev.time = time
  BY <1>2
<1> HIDE DEF ev
<1>4. ev \in e.events
  BY <1>3 DEF Mine
<1>5. QED
  BY <1>2, <1>3, <1>4, NoneIsNoValue

\* What is due next for a request that is being served.
LEMMA ServedIsTimed ==
  ASSUME NEW e, EngineInv(e), AllTimed(e), NEW r \in Requests, e.requests[r] # None,
         e.requests[r].state \in Served
  PROVE  LET req == e.requests[r] IN
         /\ req \in Request /\ req.admitted # None /\ e.active = r
         /\ TimedAs(req, e.clock, Mine(e, r))
         /\ \A ev \in Mine(e, r) : Suits(req, ev.type) /\ ev.time = DueTime(req, ev.type)
         /\ \E ev \in Mine(e, r) : ev.time >= e.clock /\ ev.time \in Nat
         /\ e.clock \in Nat
<1> DEFINE req == e.requests[r]
<1>1. /\ e \in Engine /\ req \in Request /\ e.clock \in Nat
      /\ StateKept(e, r) /\ EventKept(e, r)
  BY NoneIsNoValue DEF EngineInv, Engine, RequestKept
<1>2. ServedKept(e, r) /\ e.active = r
  BY <1>1 DEF StateKept
<1>3. e.pending[r] # None /\ Suits(req, e.pending[r].type) /\ req.admitted # None
  BY <1>2 DEF ServedKept, Runs
<1>4. TimedAs(req, e.clock, Mine(e, r))
  BY DEF AllTimed, Timed
<1>5. \A ev \in Mine(e, r) : ev.type = e.pending[r].type
  BY <1>1, <1>3 DEF EventKept
<1>6. \A ev \in Mine(e, r) : ev.time = DueTime(req, ev.type)
  BY <1>3, <1>4 DEF TimedAs
<1>7. \E ev \in Mine(e, r) : ev.time >= e.clock /\ ev.time \in Nat
  BY <1>3, PendingIsMine
<1>8. QED
  BY <1>1, <1>2, <1>3, <1>4, <1>5, <1>6, <1>7

\* The next event of a request comes neither before its last token nor after the next one,
\* and not after the end of the service.
LEMMA ServedIsBounded ==
  ASSUME NEW e, EngineInv(e), AllTimed(e), NEW r \in Requests, e.requests[r] # None,
         e.requests[r].state \in Served
  PROVE  LET req == e.requests[r] IN
         /\ req.generated <= req.limit
         /\ req.generated > 0 => TokenTime(req, req.generated) <= e.clock
         /\ req.generated < req.limit => e.clock <= TokenTime(req, req.generated + 1)
         /\ \E ev \in Mine(e, r) : ev.time <= TokenTime(req, req.limit)
<1> DEFINE req == e.requests[r]
<1>1. /\ req \in Request /\ req.admitted # None /\ TimedAs(req, e.clock, Mine(e, r))
      /\ e.clock \in Nat
  BY ServedIsTimed
<1>2. PICK ev \in Mine(e, r) : /\ Suits(req, ev.type) /\ ev.time = DueTime(req, ev.type)
                               /\ ev.time >= e.clock /\ ev.time \in Nat
  BY ServedIsTimed
<1>3. req.generated \in Nat /\ req.limit \in Nat
  BY <1>1, RequestNumbers
<1>4. /\ req.generated <= req.limit
      /\ req.generated > 0 => TokenTime(req, req.generated) <= e.clock
  BY <1>1 DEF TimedAs
<1> HIDE DEF req
<1>5. ev.type = "DecodeStepComplete" \/ ev.type = "RequestComplete" \/ ev.type = "PrefillComplete"
  BY <1>2 DEF Suits, req, Served
<1>6. /\ ev.type = "DecodeStepComplete" => req.generated < req.limit
      /\ ev.type = "RequestComplete" => req.generated = req.limit
  BY <1>2, <1>3 DEF Suits, req, Served
<1>7. ev.time <= TokenTime(req, req.limit)
  <2>1. CASE ev.type = "DecodeStepComplete"
    <3>1. ev.time = TokenTime(req, req.generated + 1) /\ req.generated + 1 <= req.limit
      BY <1>2, <1>3, <1>6, <2>1 DEF DueTime
    <3>2. QED
      BY <1>1, <1>3, <3>1, TokenTimes
  <2>2. CASE ev.type # "DecodeStepComplete"
    <3>1. ev.time = TokenTime(req, req.generated)
      BY <1>2, <2>2 DEF DueTime
    <3>2. QED
      BY <1>1, <1>3, <1>4, <3>1, TokenTimes
  <2>3. QED
    BY <2>1, <2>2
<1>8. req.generated < req.limit => e.clock <= TokenTime(req, req.generated + 1)
  <2>1. SUFFICES ASSUME req.generated < req.limit
                 PROVE  e.clock <= TokenTime(req, req.generated + 1)
    OBVIOUS
  <2>2. ev.time <= TokenTime(req, req.generated + 1)
    <3>1. /\ TokenTime(req, req.generated) <= TokenTime(req, req.generated + 1)
          /\ TokenTime(req, req.generated + 1) \in Nat
      BY <1>1, <1>3, TokenTimes
    <3>2. ev.time \in {TokenTime(req, req.generated), TokenTime(req, req.generated + 1)}
      BY <1>2 DEF DueTime
    <3>3. QED
      BY <1>2, <3>1, <3>2
  <2>3. TokenTime(req, req.generated + 1) \in Nat
    BY <1>1, <1>3, TokenTimes
  <2>4. QED
    BY <1>1, <1>2, <2>2, <2>3
<1>9. QED
  BY <1>4, <1>7, <1>8 DEF req

-----------------------------------------------------------------------------
(* Every call keeps the schedule *)

LEMMA OthersTimed ==
  ASSUME NEW e, NEW r \in Requests, AllTimed(e), NEW req, NEW t, Moved(e, t, r, req),
         TimedAs(req, e.clock, Mine(t, r))
  PROVE  AllTimed(t)
<1> SUFFICES ASSUME NEW q \in Requests
             PROVE  Timed(t, q)
  BY DEF AllTimed
<1>1. CASE q = r
  BY <1>1 DEF Moved, Timed
<1>2. CASE q # r
  BY <1>2 DEF Moved, Timed, AllTimed
<1>3. QED
  BY <1>1, <1>2

LEMMA StartTimed ==
  ASSUME NEW e, EngineInv(e), AllTimed(e), NEW r \in Requests, e.requests[r] # None,
         e.requests[r].state = "Waiting", NEW t, Started(e, t, r)
  PROVE  AllTimed(t)
<1> DEFINE old == e.requests[r]
           req == [old EXCEPT !.state = "Prefilling", !.admitted = e.clock]
<1>1. /\ old \in Request /\ e.clock \in Time /\ e.clock \in Nat /\ WaitingKept(e, r)
      /\ TimedAs(old, e.clock, Mine(e, r))
  BY NoneIsNoValue DEF EngineInv, Engine, RequestKept, StateKept, AllTimed, Timed
<1>2. old.generated = 0 /\ old.token = None /\ old.finish = None
  BY <1>1 DEF WaitingKept, TimedAs
<1>3. /\ Moved(e, t, r, req)
      /\ \A ev \in Mine(t, r) : ev.type = "PrefillComplete" /\ ev.time = e.clock + PrefillTime(old)
  BY DEF Started, Due
<1>4. /\ req \in Request /\ req.state = "Prefilling" /\ req.admitted = e.clock
      /\ req.prompt = old.prompt /\ req.limit = old.limit /\ req.generated = 0
      /\ req.token = None /\ req.finish = None
  BY <1>1, <1>2 DEF Request, RequestState
<1> HIDE DEF req, old
<1>5. Ready(req) = e.clock + PrefillTime(old) /\ req.admitted # None
  BY <1>1, <1>4, NoneIsNoValue DEF Ready, PrefillTime
<1>6. TokenTime(req, 0) = Ready(req) /\ req.limit \in Nat
  BY <1>4, <1>5, TokenTimes, RequestNumbers
<1>7. TimedAs(req, e.clock, Mine(t, r))
  BY <1>3, <1>4, <1>5, <1>6 DEF TimedAs, DueTime, Ended
<1>8. QED
  BY <1>3, <1>7, OthersTimed

LEMMA WithdrawnTimed ==
  ASSUME NEW e, EngineInv(e), AllTimed(e), NEW r \in Requests, e.requests[r] # None,
         e.requests[r].state \notin Ended, NEW t, Withdrawn(e, t, r)
  PROVE  AllTimed(t)
<1> DEFINE old == e.requests[r]
           req == [old EXCEPT !.state = "Cancelled", !.finish = e.clock]
<1>1. /\ old \in Request /\ e.clock \in Time /\ e.clock \in Nat /\ StateKept(e, r)
      /\ TimedAs(old, e.clock, Mine(e, r))
  BY NoneIsNoValue DEF EngineInv, Engine, RequestKept, AllTimed, Timed
<1>2. Moved(e, t, r, req)
  BY DEF Withdrawn
<1>3. /\ req \in Request /\ req.state = "Cancelled" /\ req.admitted = old.admitted
      /\ req.prompt = old.prompt /\ req.limit = old.limit /\ req.generated = old.generated
      /\ req.token = old.token /\ req.finish = e.clock
  BY <1>1 DEF Request, RequestState
<1>4. old.state = "Waiting" \/ old.state \in Served
  BY <1>1 DEF StateKept
<1> HIDE DEF req
<1>5. \A n : TokenTime(req, n) = TokenTime(old, n) /\ Ready(req) = Ready(old)
  BY <1>3 DEF TokenTime, Ready, PrefillTime
<1>6. CASE old.state = "Waiting"
  <2>1. req.admitted = None
    BY <1>1, <1>3, <1>6 DEF StateKept, WaitingKept
  <2>2. QED
    BY <1>2, <1>3, <2>1, OthersTimed DEF TimedAs
<1>7. CASE old.state \in Served
  <2>1. /\ old.generated <= old.limit
        /\ old.generated > 0 => TokenTime(old, old.generated) <= e.clock
        /\ old.generated < old.limit => e.clock <= TokenTime(old, old.generated + 1)
    BY <1>7, ServedIsBounded
  <2>2. old.admitted # None
    BY <1>7, ServedIsTimed
  <2>3. old.generated > 0 => old.token = Ready(old) + StepTime
    BY <1>1, <2>2 DEF TimedAs
  <2> HIDE DEF old
  <2>4. TimedAs(req, e.clock, Mine(t, r))
    BY <1>1, <1>3, <1>5, <2>1, <2>2, <2>3, NoneIsNoValue DEF TimedAs, Served
  <2>5. QED
    BY <1>2, <2>4, OthersTimed
<1>8. QED
  BY <1>4, <1>6, <1>7

LEMMA SubmitTimed ==
  ASSUME NEW e, AllTimed(e), NEW r \in Requests, NEW arrival, NEW prompt, NEW limit,
         NEW t, Moved(e, t, r, NewRequest(arrival, prompt, limit))
  PROVE  AllTimed(t)
<1> DEFINE req == NewRequest(arrival, prompt, limit)
<1>1. /\ req.state = "Waiting" /\ req.admitted = None /\ req.token = None /\ req.finish = None
  BY DEF NewRequest
<1> HIDE DEF req
<1>2. TimedAs(req, e.clock, Mine(t, r))
  BY <1>1 DEF TimedAs
<1>3. QED
  BY <1>2, OthersTimed DEF req

LEMMA AdvanceTimed ==
  ASSUME NEW e, EngineInv(e), AllTimed(e), NEW t, t.requests = e.requests, t.events = e.events,
         t.clock \in Nat, e.clock <= t.clock
  PROVE  AllTimed(t)
<1> SUFFICES ASSUME NEW r \in Requests, e.requests[r] # None
             PROVE  TimedAs(e.requests[r], t.clock, Mine(t, r))
  BY DEF AllTimed, Timed
<1> DEFINE req == e.requests[r]
<1>1. req \in Request /\ e.clock \in Nat /\ TimedAs(req, e.clock, Mine(e, r))
  BY NoneIsNoValue DEF EngineInv, Engine, AllTimed, Timed
<1>2. Mine(t, r) = Mine(e, r)
  BY DEF Mine
<1> HIDE DEF req
<1>3. req.admitted # None => TokenTime(req, req.generated) \in Nat
  BY <1>1, RequestNumbers, TokenTimes
<1>4. TimedAs(req, t.clock, Mine(t, r))
  BY <1>1, <1>2, <1>3 DEF TimedAs
<1>5. QED
  BY <1>4 DEF req

\* An event that is due is due at the time that the cost model says.
LEMMA DueAsPlanned ==
  ASSUME NEW e, EngineInv(e), AllTimed(e), NEW ev \in e.events, ev.time = e.clock,
         e.requests[ev.id] # None, e.requests[ev.id].state \in Served
  PROVE  LET req == e.requests[ev.id] IN
         /\ ev.id \in Requests /\ req \in Request /\ req.admitted # None
         /\ TimedAs(req, e.clock, Mine(e, ev.id)) /\ Suits(req, ev.type)
         /\ e.clock = DueTime(req, ev.type) /\ e.clock \in Time /\ e.clock \in Nat
<1>1. ev.id \in Requests /\ ev \in Mine(e, ev.id) /\ e.clock \in Time
  BY DEF EngineInv, Engine, Event, Mine
<1>2. QED
  BY <1>1, ServedIsTimed

LEMMA PrefillTimed ==
  ASSUME NEW e, EngineInv(e), AllTimed(e), NEW ev \in e.events, ev.time = e.clock,
         e.requests[ev.id] # None, e.requests[ev.id].state = "Prefilling",
         ev.type = "PrefillComplete", NEW t, PrefillDone(e, t, ev.id)
  PROVE  AllTimed(t)
<1> DEFINE r == ev.id
           old == e.requests[r]
           req == [old EXCEPT !.state = "Decoding"]
<1>1. /\ r \in Requests /\ old \in Request /\ old.admitted # None
      /\ TimedAs(old, e.clock, Mine(e, r)) /\ Suits(old, "PrefillComplete")
      /\ e.clock = DueTime(old, "PrefillComplete") /\ e.clock \in Nat
  BY DueAsPlanned DEF Served
<1>2. old.generated = 0 /\ old.limit \in Nat /\ old.token = None /\ old.finish = None
  BY <1>1, RequestNumbers DEF Suits, TimedAs, Served
<1>3. /\ TokenTime(old, 0) = Ready(old) /\ TokenTime(old, 1) = Ready(old) + StepTime
      /\ e.clock = Ready(old)
  BY <1>1, <1>2, TokenTimes DEF DueTime
<1> HIDE DEF r
<1>4. CASE old.limit = 0
  <2>1. Moved(e, t, r, old) /\ Due(t, r, e.clock, "RequestComplete")
    BY <1>4 DEF PrefillDone, r
  <2>2. \A event \in Mine(t, r) : event.time = DueTime(old, event.type)
    BY <1>2, <1>3, <2>1 DEF Due, DueTime
  <2> HIDE DEF old
  <2>3. TimedAs(old, e.clock, Mine(t, r))
    BY <1>1, <1>2, <2>2 DEF TimedAs
  <2>4. QED
    BY <1>1, <2>1, <2>3, OthersTimed
<1>5. CASE old.limit # 0
  <2>1. Moved(e, t, r, req) /\ Due(t, r, e.clock + StepTime, "DecodeStepComplete")
    BY <1>5 DEF PrefillDone, r
  <2>2. /\ req.state = "Decoding" /\ req.admitted = old.admitted /\ req.prompt = old.prompt
        /\ req.limit = old.limit /\ req.generated = 0 /\ req.token = None /\ req.finish = None
    BY <1>1, <1>2 DEF Request
  <2> HIDE DEF req
  <2>3. \A n : TokenTime(req, n) = TokenTime(old, n)
    BY <2>2 DEF TokenTime, Ready, PrefillTime
  <2>4. \A event \in Mine(t, r) : event.time = DueTime(req, event.type)
    BY <1>3, <2>1, <2>2, <2>3 DEF Due, DueTime
  <2> HIDE DEF old
  <2>5. TimedAs(req, e.clock, Mine(t, r))
    BY <1>1, <1>2, <2>2, <2>4 DEF TimedAs, Ended
  <2>6. QED
    BY <1>1, <2>1, <2>5, OthersTimed
<1>6. QED
  BY <1>4, <1>5

LEMMA StepTimed ==
  ASSUME NEW e, EngineInv(e), AllTimed(e), NEW ev \in e.events, ev.time = e.clock,
         e.requests[ev.id] # None, e.requests[ev.id].state = "Decoding",
         ev.type = "DecodeStepComplete", NEW t, StepDone(e, t, ev.id)
  PROVE  AllTimed(t)
<1> DEFINE r == ev.id
           old == e.requests[r]
           token == IF old.token = None THEN e.clock ELSE old.token
           req == [old EXCEPT !.generated = old.generated + 1, !.token = token]
<1>1. /\ r \in Requests /\ old \in Request /\ old.admitted # None
      /\ TimedAs(old, e.clock, Mine(e, r)) /\ Suits(old, "DecodeStepComplete")
      /\ e.clock = DueTime(old, "DecodeStepComplete") /\ e.clock \in Nat /\ e.clock \in Time
  BY DueAsPlanned DEF Served
<1>2. /\ old.generated \in Nat /\ old.limit \in Nat /\ old.generated < old.limit
      /\ old.finish = None /\ StepTime \in Nat /\ Ready(old) \in Nat
      /\ old.token # None => old.token \in Nat
  BY <1>1, RequestNumbers DEF Suits, TimedAs, Served
<1>3. /\ e.clock = TokenTime(old, old.generated + 1)
      /\ TokenTime(old, old.generated + 1 + 1) = e.clock + StepTime
      /\ TokenTime(old, 1) = Ready(old) + StepTime
  BY <1>1, <1>2, TokenTimes DEF DueTime
<1>4. Moved(e, t, r, req)
  BY DEF StepDone
<1>5. /\ req.state = "Decoding" /\ req.admitted = old.admitted /\ req.prompt = old.prompt
      /\ req.limit = old.limit /\ req.generated = old.generated + 1
      /\ req.token = token /\ req.finish = None
  <2>1. /\ req.generated = old.generated + 1 /\ req.token = token
        /\ req.limit = old.limit /\ req.admitted = old.admitted /\ req.prompt = old.prompt
        /\ req.state = old.state /\ req.finish = old.finish
    <3> HIDE DEF old, token
    <3>1. QED
      BY <1>1 DEF Request
  <2>2. QED
    BY <1>2, <2>1
<1>6. \A event \in Mine(t, r) :
        \/ /\ old.generated + 1 = old.limit
           /\ event.time = e.clock /\ event.type = "RequestComplete"
        \/ event.time = e.clock + StepTime /\ event.type = "DecodeStepComplete"
  BY DEF StepDone, Due
<1>7. token = Ready(old) + StepTime
  <2>1. CASE old.generated = 0
    <3>1. old.token = None
      BY <1>1, <2>1 DEF TimedAs, Served
    <3>2. QED
      BY <1>3, <2>1, <3>1
  <2>2. CASE old.generated > 0
    <3>1. old.token = Ready(old) + StepTime
      BY <1>1, <2>2 DEF TimedAs
    <3>2. QED
      BY <1>2, <3>1, NoneIsNoValue
  <2>3. QED
    BY <1>2, <2>1, <2>2
<1> HIDE DEF req, token
<1>8. Ready(req) = Ready(old) /\ \A n : TokenTime(req, n) = TokenTime(old, n)
  BY <1>5 DEF TokenTime, Ready, PrefillTime
<1>9. \A event \in Mine(t, r) : event.time = DueTime(req, event.type)
  BY <1>3, <1>5, <1>6, <1>8 DEF DueTime
<1> HIDE DEF old, r
<1>10. TimedAs(req, e.clock, Mine(t, r))
  <2>1. req.generated > 0 /\ req.generated <= req.limit /\ req.generated # 0
    BY <1>2, <1>5
  <2>2. TokenTime(req, req.generated) <= e.clock
    BY <1>1, <1>3, <1>5, <1>8
  <2>3. req.token = Ready(req) + StepTime
    BY <1>5, <1>7, <1>8
  <2>4. req.state \notin Ended /\ req.state # "Waiting"
    BY <1>5 DEF Ended
  <2>5. QED
    BY <1>5, <1>9, <2>1, <2>2, <2>3, <2>4 DEF TimedAs
<1>11. QED
  BY <1>1, <1>4, <1>10, OthersTimed

\* A request completes when its service is over.
LEMMA CompletionIsDue ==
  ASSUME NEW e, EngineInv(e), AllTimed(e), NEW ev \in e.events, ev.time = e.clock,
         e.requests[ev.id] # None, e.requests[ev.id].state \in Served,
         ev.type = "RequestComplete"
  PROVE  LET req == e.requests[ev.id] IN
         req.generated = req.limit /\ e.clock = TokenTime(req, req.limit)
<1>1. /\ e.requests[ev.id] \in Request /\ Suits(e.requests[ev.id], "RequestComplete")
      /\ e.clock = DueTime(e.requests[ev.id], "RequestComplete")
  BY DueAsPlanned
<1>2. e.requests[ev.id].generated = e.requests[ev.id].limit
  BY <1>1 DEF Suits, Served
<1>3. QED
  BY <1>1, <1>2 DEF DueTime

LEMMA CompletionTimed ==
  ASSUME NEW e, EngineInv(e), AllTimed(e), NEW ev \in e.events, ev.time = e.clock,
         e.requests[ev.id] # None, e.requests[ev.id].state \in Served,
         ev.type = "RequestComplete", NEW t, RequestDone(e, t, ev.id)
  PROVE  AllTimed(t)
<1> DEFINE r == ev.id
           old == e.requests[r]
           req == [old EXCEPT !.state = "Finished", !.finish = e.clock]
<1>1. /\ r \in Requests /\ old \in Request /\ old.admitted # None
      /\ TimedAs(old, e.clock, Mine(e, r)) /\ e.clock \in Nat /\ e.clock \in Time
  BY DueAsPlanned
<1>2. /\ old.generated \in Nat /\ old.limit \in Nat /\ old.generated = old.limit
      /\ e.clock = TokenTime(old, old.limit)
      /\ old.generated > 0 => old.token = Ready(old) + StepTime
  BY <1>1, RequestNumbers, CompletionIsDue DEF TimedAs
<1>3. Moved(e, t, r, req)
  BY DEF RequestDone
<1>4. /\ req.state = "Finished" /\ req.admitted = old.admitted /\ req.prompt = old.prompt
      /\ req.limit = old.limit /\ req.generated = old.generated /\ req.token = old.token
      /\ req.finish = e.clock
  <2> HIDE DEF old
  <2>1. QED
    BY <1>1 DEF Request
<1> HIDE DEF req
<1>5. Ready(req) = Ready(old) /\ \A n : TokenTime(req, n) = TokenTime(old, n)
  BY <1>4 DEF TokenTime, Ready, PrefillTime
<1> HIDE DEF old, r
<1>6. TimedAs(req, e.clock, Mine(t, r))
  <2>1. /\ req.generated <= req.limit /\ ~(req.generated < req.limit)
        /\ TokenTime(req, req.generated) <= req.finish /\ req.finish # None
    BY <1>1, <1>2, <1>4, <1>5, NoneIsNoValue
  <2>2. req.state \notin Served /\ req.state # "Waiting"
    BY <1>4 DEF Served
  <2>3. QED
    BY <1>2, <1>4, <1>5, <2>1, <2>2 DEF TimedAs
<1>7. QED
  BY <1>1, <1>3, <1>6, OthersTimed

\* An event in the queue is the event of a request that was submitted.
LEMMA EventIsKnown ==
  ASSUME NEW e, EngineInv(e), NEW ev \in e.events
  PROVE  ev.id \in Requests /\ e.requests[ev.id] # None
<1>1. ev.id \in Requests /\ ev \in Mine(e, ev.id)
  BY DEF EngineInv, Engine, Event, Mine
<1>2. EventKept(e, ev.id) /\ StateKept(e, ev.id)
  BY <1>1 DEF EngineInv, RequestKept
<1>3. e.pending[ev.id] # None
  BY <1>1, <1>2 DEF EventKept
<1>4. QED
  BY <1>1, <1>2, <1>3 DEF StateKept

LEMMA ProcessedTimed ==
  ASSUME NEW e, EngineInv(e), AllTimed(e), NEW ev \in e.events, ev.time = e.clock,
         NEW t, Processed(e, ev, t)
  PROVE  AllTimed(t)
<1> DEFINE r == ev.id
<1>1. r \in Requests /\ e.requests[r] # None
  BY EventIsKnown
<1>2. CASE e.requests[r].state \notin Served /\ Unseen(e, t, r)
  <2>1. Timed(e, r)
    BY <1>1 DEF AllTimed
  <2>2. TimedAs(e.requests[r], e.clock, Mine(t, r))
    BY <1>1, <1>2, <2>1 DEF Timed, TimedAs
  <2>3. QED
    BY <1>1, <1>2, <2>2, OthersTimed DEF Unseen
<1>3. CASE /\ e.requests[r].state = "Prefilling" /\ ev.type = "PrefillComplete"
           /\ PrefillDone(e, t, r)
  BY <1>1, <1>3, PrefillTimed
<1>4. CASE /\ e.requests[r].state = "Decoding" /\ ev.type = "DecodeStepComplete"
           /\ StepDone(e, t, r)
  BY <1>1, <1>4, StepTimed
<1>5. CASE /\ e.requests[r].state \in Served /\ ev.type = "RequestComplete"
           /\ RequestDone(e, t, r)
  BY <1>1, <1>5, CompletionTimed
<1>6. QED
  BY <1>2, <1>3, <1>4, <1>5 DEF Processed

-----------------------------------------------------------------------------
(* What the operations do to the requests *)

\* The request that the scheduler chooses waits, and comes before every other that waits.
LEMMA ChosenIsFirst ==
  ASSUME NEW e, EngineInv(e), e.active = None, e.sched.waiting # {},
         NEW r, r = ChooseNextRequest(e.sched).id
  PROVE  /\ r \in Requests /\ e.requests[r] # None /\ e.requests[r].state = "Waiting"
         /\ e.requests[r].arrival <= e.clock
         /\ \A q \in InState(e.sched, "Waiting") \ {r} :
              \/ e.requests[r].arrival < e.requests[q].arrival
              \/ e.requests[r].arrival = e.requests[q].arrival /\ r < q
<1> DEFINE decision == ChooseNextRequest(e.sched)
<1>1. SchedulerInv(e.sched) /\ e \in Engine /\ e.clock \in Time
  BY DEF EngineInv, Engine
<1>2. decision.kind = "Admit"
  <2>1. decision.kind \in {"Admit", "NoWork", "CapacityFull"}
    BY <1>1, DecisionOK DEF SchedulerInv, Decision
  <2>2. decision.kind # "NoWork" /\ decision.kind # "CapacityFull"
    BY <1>1, NoneIsRunning, DecisionIsJustified
  <2>3. QED
    BY <2>1, <2>2
<1>3. r \in InState(e.sched, "Waiting") /\ FirstWaiting(e.sched.waiting) = KeyOf(e.sched, r)
  BY <1>1, <1>2, DecisionIsJustified
<1>4. \A q \in InState(e.sched, "Waiting") :
        /\ q \in Requests /\ e.requests[q] # None /\ e.requests[q].state = "Waiting"
        /\ e.sched.entries[q].arrival = e.requests[q].arrival
        /\ e.requests[q].arrival <= e.clock
  <2>1. \A q \in InState(e.sched, "Waiting") :
          /\ q \in Requests /\ e.sched.entries[q] # None /\ e.requests[q] # None
          /\ e.requests[q].state = "Waiting" /\ StateKept(e, q)
    BY EntryTells DEF InState, EngineInv, RequestKept
  <2>2. QED
    BY <2>1 DEF StateKept, WaitingKept
<1>5. \A q \in InState(e.sched, "Waiting") \ {r} :
        KeyLess(KeyOf(e.sched, r), KeyOf(e.sched, q))
  <2>1. /\ e.sched.waiting \subseteq WaitingKey
        /\ e.sched.waiting = {KeyOf(e.sched, q) : q \in InState(e.sched, "Waiting")}
    BY <1>1 DEF SchedulerInv, Scheduler, Consistent
  <2>2. \A key \in e.sched.waiting \ {KeyOf(e.sched, r)} : KeyLess(KeyOf(e.sched, r), key)
    BY <1>3, <2>1, FirstWaitingIsLeast
  <2>3. \A q \in InState(e.sched, "Waiting") \ {r} : KeyOf(e.sched, q) # KeyOf(e.sched, r)
    BY DEF KeyOf
  <2>4. QED
    BY <2>1, <2>2, <2>3
<1>6. QED
  BY <1>3, <1>4, <1>5 DEF KeyLess, KeyOf

\* The request the scheduler chooses starts.
StartedNext(e, t) ==
  /\ e.active = None /\ e.sched.waiting # {}
  /\ Started(e, t, ChooseNextRequest(e.sched).id)

\* A call fails, and leaves the failure and the reason for it to be seen.
Refused(t) == t = Fail(engine, "overflow") /\ (CounterAtLimit(engine) \/ BeyondRange(engine))

LEMMA KeepOrRefuse ==
  ASSUME NEW result, Sound(result), Keep(result),
         ~Ok(result) => CounterAtLimit(engine) \/ BeyondRange(engine)
  PROVE  \/ Ok(result) /\ engine' = result
         \/ Refused(engine')
BY DEF Keep, Sound, Ok, Refused

LEMMA SubmitDoes ==
  ASSUME Inv, NEW r \in Requests, NEW s \in Submissions,
         SubmitRequest(r, s.arrival, s.prompt, s.limit)
  PROVE  /\ EngineInv(engine) /\ Ok(engine') /\ engine.requests[r] = None
         /\ s.arrival \in Time /\ s.arrival >= engine.clock /\ s.prompt \in Nat /\ s.limit \in Nat
         /\ Moved(engine, engine', r, NewRequest(s.arrival, s.prompt, s.limit))
<1> DEFINE known == [engine EXCEPT !.requests[r] = NewRequest(s.arrival, s.prompt, s.limit)]
           scheduled == ScheduleRequestEvent(known, s.arrival, r, "RequestArrival")
<1>1. /\ Idle /\ engine.requests[r] = None /\ s.arrival >= engine.clock
      /\ Ok(scheduled) /\ engine' = scheduled
  BY DEF SubmitRequest, Submitted
<1>2. s.arrival \in Time /\ s.prompt \in Nat /\ s.limit \in Nat
  BY EngineAssumption
<1>3. EngineInv(engine) /\ WorkConserved(engine)
  BY <1>1 DEF Inv, Idle
<1>4. Moved(engine, scheduled, r, NewRequest(s.arrival, s.prompt, s.limit))
  BY <1>1, <1>2, <1>3, Submitting
<1> HIDE DEF scheduled
<1>5. QED
  BY <1>1, <1>2, <1>3, <1>4

LEMMA CancelDoes ==
  ASSUME Inv, NEW r \in Requests, Cancel(r)
  PROVE  /\ EngineInv(engine) /\ engine.requests[r] # None /\ engine.requests[r].state \notin Ended
         /\ \/ Refused(engine')
            \/ /\ Ok(engine')
               /\ \E c : /\ EngineInv(c) /\ Withdrawn(engine, c, r)
                         /\ engine' = c \/ (~DueNow(c) /\ StartedNext(c, engine'))
<1> DEFINE result == CancelRequest(engine, r)
<1>1. Idle /\ r \in InPhase(engine, RequestState \ Terminal) /\ Keep(result)
  BY DEF Cancel
<1>2. EngineInv(engine)
  BY <1>1 DEF Inv, Idle
<1>3. engine.requests[r] # None /\ engine.requests[r].state \notin Ended
  BY <1>1, Moves DEF InPhase, Submitted
<1>4. /\ Sound(result)
      /\ Ok(result) => \E c : /\ EngineInv(c) /\ Withdrawn(engine, c, r)
                              /\ result = c \/ (~DueNow(c) /\ StartedNext(c, result))
      /\ ~Ok(result) => CounterAtLimit(engine) \/ BeyondRange(engine)
  BY <1>2, <1>3, Cancelling DEF StartedNext
<1> HIDE DEF result
<1>5. QED
  BY <1>1, <1>2, <1>3, <1>4, KeepOrRefuse

LEMMA BeginDoes ==
  ASSUME Inv, BeginTimestamp
  PROVE  /\ EngineInv(engine) /\ WorkConserved(engine) /\ Ok(engine') /\ engine.events # {}
         /\ engine'.clock = Top(engine.events).time
         /\ engine'.clock \in Nat /\ engine.clock <= engine'.clock
         /\ engine'.requests = engine.requests /\ engine'.events = engine.events
<1>1. Idle /\ engine.events # {} /\ engine' = [engine EXCEPT !.clock = Top(engine.events).time]
  BY DEF BeginTimestamp
<1>2. EngineInv(engine) /\ WorkConserved(engine) /\ engine \in Engine /\ Ok(engine)
  BY <1>1 DEF Inv, Idle, EngineInv
<1>3. /\ engine'.clock = Top(engine.events).time /\ engine'.failed = engine.failed
      /\ engine'.requests = engine.requests /\ engine'.events = engine.events
  BY <1>1, <1>2 DEF Engine
<1>4. Top(engine.events).time \in Nat /\ engine.clock <= Top(engine.events).time
  <2>1. Top(engine.events).time >= engine.clock /\ Top(engine.events).time \in Nat
    BY <1>1, <1>2, DueIs
  <2>2. engine.clock \in Nat
    BY <1>2, NoneIsNoValue DEF Engine
  <2>3. QED
    BY <2>1, <2>2
<1>5. QED
  BY <1>1, <1>2, <1>3, <1>4 DEF Ok

LEMMA ProcessDoes ==
  ASSUME Inv, ProcessTop
  PROVE  /\ EngineInv(engine)
         /\ \/ Refused(engine')
            \/ /\ Ok(engine')
               /\ \E ev \in engine.events : ev.time = engine.clock /\ Processed(engine, ev, engine')
<1> DEFINE ev == Top(engine.events)
           result == ProcessEvent(engine, ev)
<1>1. Ok(engine) /\ DueNow(engine) /\ Keep(result)
  BY DEF ProcessTop
<1>2. EngineInv(engine)
  BY <1>1 DEF Inv
<1>3. ev \in engine.events /\ ev.time = engine.clock
  BY <1>1, <1>2, DueIs DEF DueNow
<1> HIDE DEF ev
<1>4. /\ Sound(result)
      /\ Ok(result) => Processed(engine, ev, result)
      /\ ~Ok(result) => Exceeded(engine)
  BY <1>2, <1>3, Processing
<1> HIDE DEF result
<1>5. Exceeded(engine) => CounterAtLimit(engine) \/ BeyondRange(engine)
  BY DEF Exceeded, AtLimit, CounterAtLimit
<1>6. QED
  BY <1>1, <1>2, <1>3, <1>4, <1>5, KeepOrRefuse

LEMMA EndDoes ==
  ASSUME Inv, EndTimestamp
  PROVE  /\ EngineInv(engine) /\ ~DueNow(engine)
         /\ \/ Refused(engine')
            \/ /\ Ok(engine')
               /\ engine' = engine \/ StartedNext(engine, engine')
<1> DEFINE result == StartNextIfIdle(engine)
<1>1. Ok(engine) /\ ~DueNow(engine) /\ Keep(result)
  BY DEF EndTimestamp
<1>2. EngineInv(engine)
  BY <1>1 DEF Inv
<1>3. /\ Sound(result)
      /\ Ok(result) => result = engine \/ StartedNext(engine, result)
      /\ ~Ok(result) => Exceeded(engine)
  BY <1>2, StartingNext DEF StartedNext
<1> HIDE DEF result
<1>4. Exceeded(engine) => CounterAtLimit(engine) \/ BeyondRange(engine)
  BY DEF Exceeded, AtLimit, CounterAtLimit
<1>5. QED
  BY <1>1, <1>2, <1>3, <1>4, KeepOrRefuse

-----------------------------------------------------------------------------
(* Tokens and failures *)

\* The events are due as the costs say; a number that does not fit is behind a failure.
TimeInv ==
  /\ Ok(engine) => AllTimed(engine)
  /\ engine.failed = "overflow" => CounterAtLimit(engine) \/ BeyondRange(engine)

LEMMA StartedNextTimed ==
  ASSUME NEW e, EngineInv(e), AllTimed(e), NEW t, StartedNext(e, t)
  PROVE  AllTimed(t)
BY ChosenIsFirst, StartTimed DEF StartedNext

\* The failure of a call changes nothing that its reason depends on.
LEMMA RefusedIsExplained ==
  ASSUME engine \in Engine, Refused(engine')
  PROVE  TimeInv'
<1>1. /\ engine'.failed = "overflow" /\ engine'.clock = engine.clock
      /\ engine'.requests = engine.requests /\ engine'.next = engine.next
      /\ engine'.ignored = engine.ignored /\ engine'.sched = engine.sched
  BY DEF Refused, Fail, Engine
<1>2. CounterAtLimit(engine') \/ BeyondRange(engine')
  BY <1>1 DEF Refused, CounterAtLimit, BeyondRange, Submitted
<1>3. QED
  BY <1>1, <1>2 DEF TimeInv, Ok

LEMMA TimelyIsKept ==
  ASSUME Ok(engine'), AllTimed(engine')
  PROVE  TimeInv'
BY DEF TimeInv, Ok

LEMMA TimeInitially ==
  Init => TimeInv
<1> SUFFICES ASSUME Init PROVE TimeInv
  OBVIOUS
<1>1. engine.failed = "no" /\ \A r \in Requests : engine.requests[r] = None
  BY DEF Init
<1>2. QED
  BY <1>1 DEF TimeInv, AllTimed, Timed

LEMMA TimeKept ==
  Inv /\ TimeInv /\ [Next]_vars => TimeInv'
<1> SUFFICES ASSUME Inv, TimeInv, [Next]_vars
             PROVE  TimeInv'
  OBVIOUS
<1>1. engine \in Engine
  BY DEF Inv, TypeOK
<1>2. ASSUME EngineInv(engine)
      PROVE  AllTimed(engine)
  BY <1>2 DEF TimeInv, EngineInv
<1>3. ASSUME NEW r \in Requests, NEW s \in Submissions,
             SubmitRequest(r, s.arrival, s.prompt, s.limit)
      PROVE  TimeInv'
  <2>1. /\ EngineInv(engine) /\ Ok(engine')
        /\ Moved(engine, engine', r, NewRequest(s.arrival, s.prompt, s.limit))
    BY <1>3, SubmitDoes
  <2>2. AllTimed(engine')
    BY <1>2, <2>1, SubmitTimed
  <2>3. QED
    BY <2>1, <2>2, TimelyIsKept
<1>4. ASSUME NEW r \in Requests, Cancel(r)
      PROVE  TimeInv'
  <2>1. EngineInv(engine) /\ engine.requests[r] # None /\ engine.requests[r].state \notin Ended
    BY <1>4, CancelDoes
  <2>2. ASSUME Ok(engine'), NEW c, EngineInv(c), Withdrawn(engine, c, r),
               engine' = c \/ StartedNext(c, engine')
        PROVE  TimeInv'
    <3>1. AllTimed(c)
      BY <1>2, <2>1, <2>2, WithdrawnTimed
    <3>2. AllTimed(engine')
      BY <2>2, <3>1, StartedNextTimed
    <3>3. QED
      BY <2>2, <3>2, TimelyIsKept
  <2>3. QED
    BY <1>1, <1>4, <2>2, CancelDoes, RefusedIsExplained
<1>5. CASE BeginTimestamp
  <2>1. /\ EngineInv(engine) /\ Ok(engine') /\ engine'.clock \in Nat
        /\ engine.clock <= engine'.clock
        /\ engine'.requests = engine.requests /\ engine'.events = engine.events
    BY <1>5, BeginDoes
  <2>2. AllTimed(engine')
    BY <1>2, <2>1, AdvanceTimed
  <2>3. QED
    BY <2>1, <2>2, TimelyIsKept
<1>6. CASE ProcessTop
  <2>1. EngineInv(engine)
    BY <1>6, ProcessDoes
  <2>2. ASSUME Ok(engine'), NEW ev \in engine.events, ev.time = engine.clock,
               Processed(engine, ev, engine')
        PROVE  TimeInv'
    <3>1. AllTimed(engine')
      BY <1>2, <2>1, <2>2, ProcessedTimed
    <3>2. QED
      BY <2>2, <3>1, TimelyIsKept
  <2>3. QED
    BY <1>1, <1>6, <2>2, ProcessDoes, RefusedIsExplained
<1>7. CASE EndTimestamp
  <2>1. EngineInv(engine)
    BY <1>7, EndDoes
  <2>2. CASE Ok(engine') /\ (engine' = engine \/ StartedNext(engine, engine'))
    <3>1. AllTimed(engine')
      BY <1>2, <2>1, <2>2, StartedNextTimed
    <3>2. QED
      BY <2>2, <3>1, TimelyIsKept
  <2>3. QED
    BY <1>1, <1>7, <2>2, EndDoes, RefusedIsExplained
<1>8. CASE UNCHANGED vars
  BY <1>8 DEF vars, TimeInv
<1>9. QED
  BY <1>3, <1>4, <1>5, <1>6, <1>7, <1>8 DEF Next

LEMMA TokensFollow ==
  Inv /\ TimeInv => TokensOnSchedule
<1> SUFFICES ASSUME Inv, TimeInv, Idle, NEW r \in Requests,
                    engine.requests[r] # None, engine.requests[r].admitted # None
             PROVE  LET req == engine.requests[r]
                        ready == req.admitted + PrefillTime(req)
                        until == IF req.finish = None THEN engine.clock ELSE req.finish
                    IN  /\ req.generated <= req.limit
                        /\ req.generated > 0 =>
                             /\ req.token = ready + StepTime
                             /\ ready + req.generated * StepTime <= until
                        /\ req.generated < req.limit =>
                             until <= ready + (req.generated + 1) * StepTime
  BY DEF TokensOnSchedule, Submitted
<1> DEFINE req == engine.requests[r]
           until == IF req.finish = None THEN engine.clock ELSE req.finish
<1>1. EngineInv(engine) /\ AllTimed(engine) /\ StateKept(engine, r)
  BY DEF Inv, TimeInv, Idle, EngineInv, RequestKept
<1>2. TimedAs(req, engine.clock, Mine(engine, r))
  BY <1>1 DEF AllTimed, Timed
<1>3. req.state \in Served \cup Ended
  BY <1>1 DEF StateKept, WaitingKept
<1>4. /\ req.generated <= req.limit
      /\ req.generated > 0 => req.token = Ready(req) + StepTime
  BY <1>2 DEF TimedAs
<1>5. CASE req.state \in Served
  <2>1. /\ req.generated > 0 => TokenTime(req, req.generated) <= engine.clock
        /\ req.generated < req.limit => engine.clock <= TokenTime(req, req.generated + 1)
    BY <1>1, <1>5, ServedIsBounded
  <2>2. until = engine.clock
    BY <1>2, <1>5 DEF TimedAs
  <2> HIDE DEF req, until
  <2>3. QED
    BY <1>4, <2>1, <2>2 DEF TokenTime, Ready, req, until
<1>6. CASE req.state \in Ended
  <2>1. /\ req.generated > 0 => TokenTime(req, req.generated) <= req.finish
        /\ req.generated < req.limit => req.finish <= TokenTime(req, req.generated + 1)
    BY <1>2, <1>6 DEF TimedAs
  <2>2. until = req.finish
    BY <1>2, <1>6 DEF TimedAs
  <2> HIDE DEF req, until
  <2>3. QED
    BY <1>4, <2>1, <2>2 DEF TokenTime, Ready, req, until
<1>7. QED
  BY <1>3, <1>5, <1>6

\* The first token of a request comes a prefill and a decode step after its admission,
\* each later one a step after the one before it, and none is late while the request
\* runs, whatever else is submitted, cancelled or finished.
THEOREM TokensAsPlanned ==
  Spec => []TokensOnSchedule
<1>1. Inv /\ TimeInv => TokensOnSchedule
  BY TokensFollow
<1>2. QED
  BY <1>1, Initially, TimeInitially, InvariantKept, TimeKept, PTL DEF Spec

\* A simulation fails with an overflow only when a counter is really at its limit, or a
\* prompt length, an end of a service or the total waiting time beyond the range.
THEOREM CostsAreTrue ==
  Spec => []CostsAreExact
<1>1. TimeInv => CostsAreExact
  BY BackendExact DEF TimeInv, CostsAreExact
<1>2. QED
  BY <1>1, Initially, TimeInitially, InvariantKept, TimeKept, PTL DEF Spec

-----------------------------------------------------------------------------
(* The engine is the server of FcfsServer *)

\* The jobs of the server, as in the INSTANCE of SimulationEngine.
Jobs(e) == [r \in Requests |-> IF e.requests[r] = None THEN None ELSE ServerJob(e.requests[r])]

LEMMA JobIs ==
  ASSUME NEW req \in Request, req.state \in {"Waiting"} \cup Served \cup Ended
  PROVE  LET job == ServerJob(req) IN
         /\ job \in Server!Job /\ job # None
         /\ job.arrival = req.arrival /\ job.start = req.admitted /\ job.end = req.finish
         /\ job.service = PrefillTime(req) + req.limit * StepTime
         /\ req.state = "Waiting" <=> job.status = "waiting"
         /\ req.state \in Served <=> job.status = "served"
         /\ req.state = "Finished" <=> job.status = "done"
         /\ req.state = "Cancelled" <=> job.status = "cancelled"
<1> DEFINE job == ServerJob(req)
<1>1. /\ req.arrival \in Nat /\ req.admitted \in Nat \cup {None} /\ req.finish \in Nat \cup {None}
      /\ PrefillTime(req) \in Nat /\ StepTime \in Nat /\ req.limit \in Nat
  BY RequestNumbers
<1>2. PrefillTime(req) + req.limit * StepTime \in Nat
  BY <1>1
<1>3. ServiceTime(req) = PrefillTime(req) + req.limit * StepTime
  BY DEF ServiceTime
<1>4. /\ job.arrival = req.arrival /\ job.start = req.admitted /\ job.end = req.finish
      /\ job.service = PrefillTime(req) + req.limit * StepTime
      /\ job.status = CASE req.state = "Waiting" -> "waiting"
                        [] req.state = "Finished" -> "done"
                        [] req.state = "Cancelled" -> "cancelled"
                        [] OTHER -> "served"
      /\ job = [status |-> job.status, arrival |-> req.arrival, service |-> job.service,
                start |-> req.admitted, end |-> req.finish]
  BY <1>3 DEF ServerJob
<1> HIDE DEF job
<1>5. /\ req.state = "Waiting" <=> job.status = "waiting"
      /\ req.state \in Served <=> job.status = "served"
      /\ req.state = "Finished" <=> job.status = "done"
      /\ req.state = "Cancelled" <=> job.status = "cancelled"
      /\ job.status \in {"waiting", "served", "done", "cancelled"}
  BY <1>4 DEF Served, Ended
<1>6. job \in Server!Job
  BY <1>1, <1>2, <1>4, <1>5 DEF Server!Job
<1>7. job # None
  BY <1>6, JobAssumption
<1>8. QED
  BY <1>4, <1>5, <1>6, <1>7 DEF job

\* A step that changes no request, or only what the server does not see.
LEMMA JobsUnchanged ==
  ASSUME NEW e, NEW t, NEW r \in Requests, NEW req, Moved(e, t, r, req),
         e.requests[r] # None, req # None, ServerJob(req) = ServerJob(e.requests[r])
  PROVE  Jobs(t) = Jobs(e)
<1>1. \A q \in Requests :
        \/ t.requests[q] = e.requests[q]
        \/ /\ t.requests[q] # None /\ e.requests[q] # None
           /\ ServerJob(t.requests[q]) = ServerJob(e.requests[q])
  BY DEF Moved
<1>2. QED
  BY <1>1 DEF Jobs

\* A step that concerns one request changes one job.
LEMMA JobChanged ==
  ASSUME NEW e, NEW t, NEW r \in Requests, NEW req, Moved(e, t, r, req), req # None
  PROVE  Jobs(t) = Server!Changed(Jobs(e), r, ServerJob(req))
<1>1. t.requests[r] = req /\ \A q \in Requests \ {r} : t.requests[q] = e.requests[q]
  BY DEF Moved
<1>2. QED
  BY <1>1 DEF Jobs, Server!Changed

LEMMA StatusTells ==
  ASSUME NEW e, EngineInv(e), NEW r \in Requests, e.requests[r] # None
  PROVE  /\ e.requests[r] \in Request
         /\ e.requests[r].state \in {"Waiting"} \cup Served \cup Ended
         /\ Jobs(e)[r] = ServerJob(e.requests[r])
BY DEF EngineInv, Engine, RequestKept, StateKept, Jobs

LEMMA WaitingJobs ==
  ASSUME NEW e, EngineInv(e)
  PROVE  \A j \in Server!InStatus(Jobs(e), "waiting") :
           /\ j \in Requests /\ e.requests[j] # None /\ e.requests[j].state = "Waiting"
           /\ Jobs(e)[j].arrival = e.requests[j].arrival /\ WaitingKept(e, j)
<1> SUFFICES ASSUME NEW j \in Server!InStatus(Jobs(e), "waiting")
             PROVE  /\ j \in Requests /\ e.requests[j] # None /\ e.requests[j].state = "Waiting"
                    /\ Jobs(e)[j].arrival = e.requests[j].arrival /\ WaitingKept(e, j)
  OBVIOUS
<1>1. j \in Requests /\ Jobs(e)[j] # None /\ Jobs(e)[j].status = "waiting"
  BY DEF Server!InStatus
<1>2. e.requests[j] # None
  BY <1>1 DEF Jobs
<1>3. e.requests[j].state = "Waiting" /\ Jobs(e)[j].arrival = e.requests[j].arrival
  BY <1>1, <1>2, StatusTells, JobIs
<1>4. WaitingKept(e, j)
  BY <1>1, <1>2, <1>3 DEF EngineInv, RequestKept, StateKept
<1>5. QED
  BY <1>1, <1>2, <1>3, <1>4

LEMMA ServedJobs ==
  ASSUME NEW e, EngineInv(e)
  PROVE  /\ \A j \in Server!InStatus(Jobs(e), "served") :
              /\ j \in Requests /\ e.requests[j] # None /\ e.requests[j].state \in Served
         /\ \A j \in Requests :
              e.requests[j] # None /\ e.requests[j].state \in Served
                => j \in Server!InStatus(Jobs(e), "served")
         /\ \A j \in Server!InStatus(Jobs(e), "served") : e.active = j
         /\ e.active # None => Server!InStatus(Jobs(e), "served") # {}
<1>1. ASSUME NEW j \in Requests, e.requests[j] # None
      PROVE  /\ Jobs(e)[j] # None
             /\ e.requests[j].state \in Served <=> Jobs(e)[j].status = "served"
  BY <1>1, StatusTells, JobIs
<1>2. \A j \in Requests : Jobs(e)[j] # None => e.requests[j] # None
  BY DEF Jobs
<1>3. \A j \in Requests : e.active = j <=> e.requests[j] # None /\ e.requests[j].state \in Served
  BY DEF EngineInv, RequestKept, StateKept
<1>4. e.active \in Requests \cup {None}
  BY DEF EngineInv, Engine
<1>5. QED
  BY <1>1, <1>2, <1>3, <1>4 DEF Server!InStatus

\* When nothing is due, every request that has arrived is known to the scheduler.
LEMMA ArrivedIsKnown ==
  ASSUME NEW e, EngineInv(e), ~DueNow(e), NEW j \in Requests, e.requests[j] # None,
         e.requests[j].state = "Waiting", e.requests[j].arrival <= e.clock
  PROVE  j \in InState(e.sched, "Waiting")
<1>1. /\ EventKept(e, j) /\ WaitingKept(e, j)
      /\ e.clock \in Nat /\ e.requests[j].arrival \in Nat
  BY NoneIsNoValue DEF EngineInv, Engine, RequestKept, StateKept, Request
<1>2. CASE e.sched.entries[j] # None
  BY <1>1, <1>2 DEF WaitingKept, InState
<1>3. CASE e.sched.entries[j] = None
  <2>1. e.pending[j] # None /\ e.pending[j].type = "RequestArrival"
    BY <1>1, <1>3 DEF WaitingKept
  <2>2. \E ev \in Mine(e, j) : ev.time >= e.clock /\ ev.time = e.requests[j].arrival
    <3> DEFINE p == e.pending[j]
               it == [time |-> e.requests[j].arrival, seq |-> p.seq, id |-> j, type |-> p.type]
    <3>1. e.requests[j].arrival >= e.clock /\ Mine(e, j) = {it}
      BY <1>1, <2>1 DEF EventKept
    <3>2. it \in Mine(e, j) /\ it.time = e.requests[j].arrival
      BY <3>1
    <3> HIDE DEF it
    <3>3. QED
      BY <3>1, <3>2
  <2>3. \E ev \in e.events : ev.time = e.clock
    BY <1>1, <2>2 DEF Mine
  <2>4. QED
    BY <2>3, DueIs
<1>4. QED
  BY <1>2, <1>3

LEMMA StartIsStart ==
  ASSUME NEW e, EngineInv(e), e.clock = engine.clock, ~DueNow(e), NEW t, StartedNext(e, t)
  PROVE  Jobs(t) \in Server!StartedFrom(Jobs(e))
<1> DEFINE r == ChooseNextRequest(e.sched).id
           old == e.requests[r]
           req == [old EXCEPT !.state = "Prefilling", !.admitted = e.clock]
           js == Jobs(e)
<1>1. e.active = None /\ e.sched.waiting # {} /\ Moved(e, t, r, req)
  BY DEF StartedNext, Started
<1>2. /\ r \in Requests /\ old # None /\ old.state = "Waiting" /\ old.arrival <= e.clock
      /\ \A q \in InState(e.sched, "Waiting") \ {r} :
           \/ old.arrival < e.requests[q].arrival
           \/ old.arrival = e.requests[q].arrival /\ r < q
  BY <1>1, ChosenIsFirst
<1> HIDE DEF r
<1>3. old \in Request /\ js[r] = ServerJob(old) /\ e.clock \in Time
  BY <1>2, StatusTells DEF EngineInv, Engine
<1>a. req \in Request /\ req.state = "Prefilling" /\ req.admitted = e.clock
  BY <1>3 DEF Request, RequestState
<1>4. req \in Request /\ req # None /\ req.state = "Prefilling" /\ req.admitted = e.clock
  BY <1>a, NoneAssumption
<1>5. ServerJob(req) = [js[r] EXCEPT !.status = "served", !.start = engine.clock]
  <2>1. /\ ServerJob(req) \in Server!Job /\ js[r] \in Server!Job
        /\ ServerJob(req).status = "served"
    BY <1>2, <1>3, <1>4, JobIs DEF Served
  <2>2. /\ ServerJob(req).arrival = js[r].arrival /\ ServerJob(req).service = js[r].service
        /\ ServerJob(req).start = engine.clock /\ ServerJob(req).end = js[r].end
    BY <1>3, <1>4 DEF ServerJob, ServiceTime, PrefillTime, Request
  <2>3. QED
    BY <2>1, <2>2 DEF Server!Job
<1>6. Jobs(t) = Server!Changed(js, r, [js[r] EXCEPT !.status = "served", !.start = engine.clock])
  BY <1>1, <1>2, <1>4, <1>5, JobChanged
<1>7. Server!InStatus(js, "served") = {}
  <2>1. \A j \in Requests : e.active # j
    BY <1>1, NoneIsNoValue
  <2>2. QED
    BY <2>1, ServedJobs
<1>8. r \in Server!Arrived(js)
  <2>1. js[r] # None /\ js[r].status = "waiting" /\ js[r].arrival = old.arrival
    BY <1>2, <1>3, JobIs
  <2>2. QED
    BY <1>2, <2>1 DEF Server!Arrived, Server!InStatus
<1>9. Server!IsFirst(js, r, Server!Arrived(js))
  <2>1. ASSUME NEW k \in Server!Arrived(js) \ {r}
        PROVE  k \in InState(e.sched, "Waiting") /\ js[k].arrival = e.requests[k].arrival
    <3>1. k \in Server!InStatus(js, "waiting") /\ js[k].arrival <= e.clock
      BY DEF Server!Arrived
    <3>2. QED
      BY <3>1, WaitingJobs, ArrivedIsKnown
  <2>2. js[r].arrival = old.arrival
    BY <1>2, <1>3, JobIs
  <2>3. QED
    BY <1>2, <2>1, <2>2 DEF Server!IsFirst
<1> HIDE DEF js, req, old
<1>10. QED
  BY <1>6, <1>7, <1>8, <1>9 DEF Server!StartedFrom, js

\* The server neither sees nor notices a step that changes neither the time nor a job.
LEMMA StutterIs ==
  ASSUME engine'.clock = engine.clock, Jobs(engine') = Jobs(engine)
  PROVE  UNCHANGED Server!vars
BY DEF Server!vars, Jobs

LEMMA RefusedIsStutter ==
  ASSUME engine \in Engine, Refused(engine')
  PROVE  UNCHANGED Server!vars
<1>1. engine'.clock = engine.clock /\ engine'.requests = engine.requests
  BY DEF Refused, Fail, Engine
<1>2. QED
  BY <1>1, StutterIs DEF Jobs

LEMMA SubmitIsSubmit ==
  ASSUME Inv, NEW r \in Requests, NEW s \in Submissions,
         SubmitRequest(r, s.arrival, s.prompt, s.limit)
  PROVE  Server!Submit(r)
<1> DEFINE req == NewRequest(s.arrival, s.prompt, s.limit)
<1>1. /\ engine.requests[r] = None /\ s.arrival >= engine.clock
      /\ s.arrival \in Time /\ s.prompt \in Nat /\ s.limit \in Nat
      /\ Moved(engine, engine', r, req)
  BY SubmitDoes
<1>2. /\ req \in Request /\ req # None /\ req.state = "Waiting" /\ req.arrival = s.arrival
      /\ req.admitted = None /\ req.finish = None
  <2>1. req \in Request
    BY <1>1 DEF NewRequest, Request, RequestState
  <2>2. QED
    BY <2>1, NoneIsNoValue DEF NewRequest
<1> HIDE DEF req
<1> DEFINE job == ServerJob(req)
<1>3. /\ job \in Server!Job /\ job.status = "waiting" /\ job.arrival >= engine.clock
      /\ job.start = None /\ job.end = None
  BY <1>1, <1>2, JobIs
<1>4. Jobs(engine') = Server!Changed(Jobs(engine), r, job)
  BY <1>1, <1>2, JobChanged
<1>5. Jobs(engine)[r] = None /\ Jobs(engine')[r] = job /\ engine'.clock = engine.clock
  BY <1>1, <1>4 DEF Jobs, Server!Changed, Moved
<1> HIDE DEF job
<1>6. QED
  BY <1>3, <1>4, <1>5 DEF Server!Submit, Jobs

LEMMA WithdrawnIsWithdrawn ==
  ASSUME NEW e, EngineInv(e), NEW r \in Requests, e.requests[r] # None,
         e.requests[r].state \notin Ended, NEW c, Withdrawn(e, c, r)
  PROVE  /\ r \in Server!InStatus(Jobs(e), "waiting") \cup Server!InStatus(Jobs(e), "served")
         /\ Jobs(c) = Server!Changed(Jobs(e), r,
                        [Jobs(e)[r] EXCEPT !.status = "cancelled", !.end = e.clock])
<1> DEFINE old == e.requests[r]
           req == [old EXCEPT !.state = "Cancelled", !.finish = e.clock]
           js == Jobs(e)
<1>1. /\ old \in Request /\ old.state \in {"Waiting"} \cup Served /\ js[r] = ServerJob(old)
      /\ e.clock \in Time
  BY StatusTells DEF EngineInv, Engine
<1>a. req \in Request /\ req.state = "Cancelled" /\ req.finish = e.clock
  BY <1>1 DEF Request, RequestState
<1>2. req \in Request /\ req # None /\ req.state = "Cancelled" /\ req.finish = e.clock
  BY <1>a, NoneAssumption
<1>3. ServerJob(req) = [js[r] EXCEPT !.status = "cancelled", !.end = e.clock]
  <2>1. /\ ServerJob(req) \in Server!Job /\ js[r] \in Server!Job
        /\ ServerJob(req).status = "cancelled"
    BY <1>1, <1>2, JobIs DEF Ended
  <2>2. /\ ServerJob(req).arrival = js[r].arrival /\ ServerJob(req).service = js[r].service
        /\ ServerJob(req).end = e.clock /\ ServerJob(req).start = js[r].start
    BY <1>1, <1>2 DEF ServerJob, ServiceTime, PrefillTime, Request
  <2>3. QED
    BY <2>1, <2>2 DEF Server!Job
<1>4. Jobs(c) = Server!Changed(js, r, ServerJob(req))
  BY <1>2, JobChanged DEF Withdrawn
<1>5. js[r] # None /\ js[r].status \in {"waiting", "served"}
  BY <1>1, JobIs
<1>6. QED
  BY <1>3, <1>4, <1>5 DEF Server!InStatus

LEMMA CancelIsCancel ==
  ASSUME Inv, NEW r \in Requests, Cancel(r)
  PROVE  Server!Cancel(r) \/ UNCHANGED Server!vars
<1>1. /\ engine \in Engine /\ EngineInv(engine) /\ engine.requests[r] # None
      /\ engine.requests[r].state \notin Ended
  BY CancelDoes DEF Inv, TypeOK
<1> DEFINE js == Jobs(engine)
           withdrawn == Server!Changed(js, r,
                          [js[r] EXCEPT !.status = "cancelled", !.end = engine.clock])
<1>2. ASSUME NEW c, EngineInv(c), Withdrawn(engine, c, r),
             engine' = c \/ (~DueNow(c) /\ StartedNext(c, engine'))
      PROVE  Server!Cancel(r)
  <2>1. /\ r \in Server!InStatus(js, "waiting") \cup Server!InStatus(js, "served")
        /\ Jobs(c) = withdrawn
    BY <1>1, <1>2, WithdrawnIsWithdrawn
  <2>2. c.clock = engine.clock
    BY <1>2 DEF Withdrawn, Moved
  <2>3. engine'.clock = engine.clock
    BY <1>2, <2>2 DEF StartedNext, Started, Moved
  <2>4. Jobs(engine') \in {withdrawn} \cup Server!StartedFrom(withdrawn)
    <3>1. ~DueNow(c) /\ StartedNext(c, engine') => Jobs(engine') \in Server!StartedFrom(Jobs(c))
      BY <1>2, <2>2, StartIsStart
    <3> HIDE DEF withdrawn
    <3>2. QED
      BY <1>2, <2>1, <3>1
  <2>5. QED
    BY <2>1, <2>3, <2>4 DEF Server!Cancel, Jobs
<1>3. QED
  BY <1>1, <1>2, CancelDoes, RefusedIsStutter

\* The clock moves to the first event: not beyond the end of a service, and not beyond
\* the arrival of a job while the server is idle.
LEMMA BeginIsAdvance ==
  ASSUME Inv, TimeInv, BeginTimestamp
  PROVE  Server!Advance \/ UNCHANGED Server!vars
<1>1. /\ EngineInv(engine) /\ WorkConserved(engine) /\ Ok(engine) /\ engine.events # {}
      /\ engine'.clock = Top(engine.events).time
      /\ engine'.clock \in Nat /\ engine.clock <= engine'.clock
      /\ engine'.requests = engine.requests
  BY BeginDoes DEF EngineInv
<1>2. Jobs(engine') = Jobs(engine) /\ AllTimed(engine)
  BY <1>1 DEF Jobs, TimeInv
<1>3. \A ev \in engine.events : engine'.clock <= ev.time /\ ev.time \in Nat
  BY <1>1, DueIs
<1>4. CASE DueNow(engine)
  BY <1>1, <1>2, <1>4, StutterIs DEF DueNow
<1>5. CASE ~DueNow(engine)
  <2> DEFINE js == Jobs(engine)
  <2>1. ASSUME NEW j \in Server!InStatus(js, "served")
        PROVE  engine'.clock <= js[j].start + js[j].service
    <3> DEFINE req == engine.requests[j]
    <3>1. j \in Requests /\ req # None /\ req.state \in Served
      BY <1>1, ServedJobs
    <3>2. /\ req \in Request /\ req.admitted # None
          /\ \E ev \in Mine(engine, j) : ev.time <= TokenTime(req, req.limit)
      BY <1>1, <1>2, <3>1, ServedIsTimed, ServedIsBounded
    <3>3. js[j].start = req.admitted /\ js[j].service = PrefillTime(req) + req.limit * StepTime
      BY <1>1, <3>1, StatusTells, JobIs
    <3> HIDE DEF req, js
    <3>4. /\ req.admitted \in Nat /\ PrefillTime(req) \in Nat /\ req.limit \in Nat
          /\ StepTime \in Nat
      BY <3>2, RequestNumbers
    <3>5. req.limit * StepTime \in Nat
      BY <3>4
    <3>6. TokenTime(req, req.limit) = js[j].start + js[j].service
      BY <3>3, <3>4, <3>5 DEF TokenTime, Ready
    <3>7. \E ev \in engine.events : ev.time <= js[j].start + js[j].service
      BY <3>2, <3>6 DEF Mine
    <3>8. js[j].start + js[j].service \in Nat
      BY <3>3, <3>4, <3>5
    <3>9. QED
      BY <1>1, <1>3, <3>7, <3>8
  <2>2. ASSUME Server!InStatus(js, "served") = {}, NEW j \in Server!InStatus(js, "waiting")
        PROVE  engine'.clock <= js[j].arrival
    <3>1. /\ j \in Requests /\ engine.requests[j] # None /\ engine.requests[j].state = "Waiting"
          /\ js[j].arrival = engine.requests[j].arrival /\ WaitingKept(engine, j)
      BY <1>1, WaitingJobs
    <3>2. engine.active = None
      BY <1>1, <2>2, ServedJobs
    <3>3. InState(engine.sched, "Waiting") = {}
      BY <1>1, <1>5, <3>2 DEF WorkConserved, EngineInv, SchedulerInv, Consistent
    <3>4. engine.sched.entries[j] = None
      BY <3>1, <3>3 DEF WaitingKept, InState
    <3>5. engine.pending[j] # None /\ engine.pending[j].type = "RequestArrival"
      BY <3>1, <3>4 DEF WaitingKept
    <3>6. EventKept(engine, j)
      BY <1>1, <3>1 DEF EngineInv, RequestKept
    <3>7. \E ev \in Mine(engine, j) : ev.time = engine.requests[j].arrival
      <4> DEFINE p == engine.pending[j]
                 it == [time |-> engine.requests[j].arrival, seq |-> p.seq, id |-> j,
                        type |-> p.type]
      <4>1. Mine(engine, j) = {it}
        BY <3>5, <3>6 DEF EventKept
      <4>2. QED
        BY <4>1
    <3>8. QED
      BY <1>3, <3>1, <3>7 DEF Mine
  <2>3. QED
    BY <1>1, <1>2, <2>1, <2>2 DEF Server!Advance, Jobs
<1>6. QED
  BY <1>4, <1>5

\* Only the end of a service is seen of the events, and it comes exactly when it is due.
LEMMA ProcessIsComplete ==
  ASSUME Inv, TimeInv, ProcessTop
  PROVE  (\E j \in Requests : Server!Complete(j)) \/ UNCHANGED Server!vars
<1>1. engine \in Engine /\ EngineInv(engine) /\ AllTimed(engine)
  BY ProcessDoes DEF Inv, TypeOK, TimeInv, EngineInv
<1>2. ASSUME NEW ev \in engine.events, ev.time = engine.clock, Processed(engine, ev, engine')
      PROVE  Server!Complete(ev.id) \/ UNCHANGED Server!vars
  <2> DEFINE r == ev.id
             old == engine.requests[r]
             js == Jobs(engine)
  <2>1. r \in Requests /\ old # None
    BY <1>1, EventIsKnown
  <2> HIDE DEF r
  <2>2. old \in Request /\ js[r] = ServerJob(old) /\ engine.clock \in Time
    BY <1>1, <2>1, StatusTells DEF Engine
  <2>3. ASSUME NEW req \in Request, Moved(engine, engine', r, req),
               ServerJob(req) = ServerJob(old)
        PROVE  UNCHANGED Server!vars
    <3>1. req # None /\ engine'.clock = engine.clock
      BY <2>3, NoneIsNoValue DEF Moved
    <3>2. Jobs(engine') = Jobs(engine)
      BY <2>1, <2>3, <3>1, JobsUnchanged
    <3>3. QED
      BY <3>1, <3>2, StutterIs
  <2>4. CASE Unseen(engine, engine', r)
    BY <2>2, <2>3, <2>4 DEF Unseen
  <2>5. CASE old.state = "Prefilling" /\ PrefillDone(engine, engine', r)
    <3> DEFINE req == [old EXCEPT !.state = "Decoding"]
    <3>1. req \in Request /\ ServerJob(req) = ServerJob(old)
      BY <2>2, <2>5 DEF Request, RequestState, ServerJob, ServiceTime, PrefillTime
    <3>2. Moved(engine, engine', r, req) \/ Moved(engine, engine', r, old)
      BY <2>5 DEF PrefillDone
    <3> HIDE DEF req
    <3>3. QED
      BY <2>2, <2>3, <3>1, <3>2
  <2>6. CASE old.state = "Decoding" /\ StepDone(engine, engine', r)
    <3> DEFINE token == IF old.token = None THEN engine.clock ELSE old.token
               req == [old EXCEPT !.generated = old.generated + 1, !.token = token]
    <3>1. token \in Time /\ old.generated + 1 \in Nat
      BY <2>2 DEF Request
    <3>2. Moved(engine, engine', r, req)
      BY <2>6 DEF StepDone
    <3> HIDE DEF token
    <3>3. req \in Request /\ ServerJob(req) = ServerJob(old)
      BY <2>2, <3>1 DEF Request, ServerJob, ServiceTime, PrefillTime
    <3> HIDE DEF req
    <3>4. QED
      BY <2>3, <3>2, <3>3
  <2>7. CASE /\ old.state \in Served /\ ev.type = "RequestComplete"
             /\ RequestDone(engine, engine', r)
    <3> DEFINE req == [old EXCEPT !.state = "Finished", !.finish = engine.clock]
    <3>1. Moved(engine, engine', r, req) /\ engine'.clock = engine.clock
      BY <2>7 DEF RequestDone, Moved
    <3>a. req \in Request /\ req.state = "Finished" /\ req.finish = engine.clock
      BY <2>2 DEF Request, RequestState
    <3>2. req \in Request /\ req # None /\ req.state = "Finished" /\ req.finish = engine.clock
      BY <3>a, NoneAssumption
    <3>3. ServerJob(req) = [js[r] EXCEPT !.status = "done", !.end = engine.clock]
      <4>1. /\ ServerJob(req) \in Server!Job /\ js[r] \in Server!Job
            /\ ServerJob(req).status = "done"
        BY <2>2, <2>7, <3>2, JobIs DEF Ended
      <4>2. /\ ServerJob(req).arrival = js[r].arrival /\ ServerJob(req).service = js[r].service
            /\ ServerJob(req).end = engine.clock /\ ServerJob(req).start = js[r].start
        BY <2>2, <3>2 DEF ServerJob, ServiceTime, PrefillTime, Request
      <4>3. QED
        BY <4>1, <4>2 DEF Server!Job
    <3>4. Jobs(engine') = Server!Changed(js, r, ServerJob(req))
      BY <2>1, <3>1, <3>2, JobChanged
    <3>5. r \in Server!InStatus(js, "served")
      BY <1>1, <2>1, <2>7, ServedJobs
    <3>6. engine.clock = js[r].start + js[r].service
      <4>1. engine.clock = TokenTime(old, old.limit) /\ old.admitted # None
        BY <1>1, <1>2, <2>1, <2>7, CompletionIsDue, ServedIsTimed DEF r
      <4>2. js[r].start = old.admitted /\ js[r].service = PrefillTime(old) + old.limit * StepTime
        BY <2>2, <2>7, JobIs
      <4>3. /\ old.admitted \in Nat /\ PrefillTime(old) \in Nat /\ old.limit * StepTime \in Nat
        BY <2>2, <4>1, RequestNumbers
      <4> HIDE DEF old, js
      <4>4. QED
        BY <4>1, <4>2, <4>3 DEF TokenTime, Ready
    <3> HIDE DEF req, old
    <3>7. Server!Complete(r)
      BY <3>1, <3>3, <3>4, <3>5, <3>6 DEF Server!Complete, Jobs
    <3>8. QED
      BY <3>7 DEF r
  <2>8. QED
    BY <1>2, <2>4, <2>5, <2>6, <2>7 DEF Processed, r
<1>3. QED
  BY <1>1, <1>2, ProcessDoes, EventIsKnown, RefusedIsStutter

LEMMA EndIsStart ==
  ASSUME Inv, EndTimestamp
  PROVE  Server!Start \/ UNCHANGED Server!vars
<1>1. engine \in Engine /\ EngineInv(engine) /\ ~DueNow(engine)
  BY EndDoes DEF Inv, TypeOK
<1>2. CASE StartedNext(engine, engine')
  <2>1. Jobs(engine') \in Server!StartedFrom(Jobs(engine))
    BY <1>1, <1>2, StartIsStart
  <2>2. engine'.clock = engine.clock
    BY <1>2 DEF StartedNext, Started, Moved
  <2>3. QED
    BY <2>1, <2>2 DEF Server!Start, Jobs
<1>3. CASE engine' = engine
  BY <1>3, StutterIs
<1>4. QED
  BY <1>1, <1>2, <1>3, EndDoes, RefusedIsStutter

LEMMA ServerInitially ==
  Init => Server!Init
BY DEF Init, Server!Init

LEMMA ServerSteps ==
  Inv /\ TimeInv /\ [Next]_vars => [Server!Next]_(Server!vars)
<1> SUFFICES ASSUME Inv, TimeInv, [Next]_vars
             PROVE  Server!Next \/ UNCHANGED Server!vars
  OBVIOUS
<1>1. ASSUME NEW r \in Requests, NEW s \in Submissions,
             SubmitRequest(r, s.arrival, s.prompt, s.limit)
      PROVE  Server!Next
  BY <1>1, SubmitIsSubmit DEF Server!Next
<1>2. ASSUME NEW r \in Requests, Cancel(r)
      PROVE  Server!Next \/ UNCHANGED Server!vars
  BY <1>2, CancelIsCancel DEF Server!Next
<1>3. CASE BeginTimestamp
  BY <1>3, BeginIsAdvance DEF Server!Next
<1>4. CASE ProcessTop
  BY <1>4, ProcessIsComplete DEF Server!Next
<1>5. CASE EndTimestamp
  BY <1>5, EndIsStart DEF Server!Next
<1>6. CASE UNCHANGED vars
  BY <1>6 DEF vars, Server!vars
<1>7. QED
  BY <1>1, <1>2, <1>3, <1>4, <1>5, <1>6 DEF Next

\* The engine implements a non-preemptive server that takes its jobs first come, first
\* served, never idles while a job waits, and serves each for exactly the time the cost
\* model gives, whatever is submitted and cancelled.
THEOREM EngineIsServer ==
  Spec => ImplementsServer
<1>1. Init => Server!Init
  BY ServerInitially
<1>2. Inv /\ TimeInv /\ [Next]_vars => [Server!Next]_(Server!vars)
  BY ServerSteps
<1>3. QED
  BY <1>1, <1>2, Initially, TimeInitially, InvariantKept, TimeKept, PTL
  DEF Spec, ImplementsServer, Server!Spec
=============================================================================
