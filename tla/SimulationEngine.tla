--------------------------- MODULE SimulationEngine ---------------------------
(***************************************************************************)
(* The discrete-event engine of src/serving/simulation_engine.cpp: one     *)
(* active request, an event queue, the FCFS scheduler and the backend's    *)
(* cost model.  The handlers are functions from an engine value to an      *)
(* engine value; `failed' says how a call that threw ended ("no" if none). *)
(*                                                                         *)
(* After a failure every operation of the engine throws and every result   *)
(* is withheld, so the state a failing call leaves behind is not kept.     *)
(* The event log, a copy of the processed events, is left out.             *)
(***************************************************************************)
EXTENDS FcfsScheduler, SimulatedBackend, RequestLifecycle

CONSTANTS
  Submissions      \* what clients submit: records of arrival, prompt length and limit

ASSUME EngineAssumption ==
  /\ MaxActive = 1    \* the constructor refuses another capacity
  /\ Submissions \subseteq [arrival : Time, prompt : Nat, limit : Nat]

VARIABLES
  engine,   \* the engine
  current   \* within run_next_timestamp: the events that are being processed
            \* share this timestamp; None between calls

vars == <<engine, current>>

EventType == {"RequestArrival", "PrefillComplete", "DecodeStepComplete", "RequestComplete"}
Event == [time : Time, seq : Count, id : Requests, type : EventType]
Pending == [seq : Count, type : EventType, ignore : BOOLEAN]

Request ==
  [ state     : RequestState,
    arrival   : Time,               \* arrival_time_us
    prompt    : Nat,                \* prompt_length()
    limit     : Nat,                \* max_new_tokens
    generated : Nat,                \* generated_token_count
    admitted  : Time \cup {None},   \* admitted_time_us, first_scheduled_time_us
    token     : Time \cup {None},   \* first_token_time_us
    finish    : Time \cup {None} ]  \* finish_time_us

Engine ==
  [ clock    : Time,
    events   : SUBSET Event,
    next     : Count,                                \* next_sequence_
    requests : [Requests -> Request \cup {None}],
    pending  : [Requests -> Pending \cup {None}],    \* pending_events_
    active   : Requests \cup {None},                 \* active_request_id_
    sched    : Scheduler,
    ignored  : Count,                                \* ignored_cancelled_event_count_
    failed   : {"no", "logic_error", "overflow"} ]

\* std::nullopt is neither a request nor a pending event.
ASSUME NoneAssumption == None \notin Request \cup Pending

Init ==
  /\ engine = [ clock |-> 0, events |-> {}, next |-> 0,
                requests |-> [r \in Requests |-> None],
                pending |-> [r \in Requests |-> None],
                active |-> None, sched |-> EmptyScheduler,
                ignored |-> 0, failed |-> "no" ]
  /\ current = None

Submitted(e) == {r \in Requests : e.requests[r] # None}
InPhase(e, states) == {r \in Submitted(e) : e.requests[r].state \in states}

Fail(e, cause) == [e EXCEPT !.failed = cause]
Ok(e) == e.failed = "no"

\* LaterEvent: by timestamp, then by sequence number.
Top(events) ==
  CHOOSE ev \in events : \A other \in events \ {ev} :
    \/ ev.time < other.time
    \/ ev.time = other.time /\ ev.seq < other.seq

-----------------------------------------------------------------------------
(* Helpers of the handlers *)

\* transition_to
TransitionTo(e, r, next) ==
  IF MayBecome(e.requests[r].state, next, e.requests[r].limit)
  THEN [e EXCEPT !.requests[r].state = next]
  ELSE Fail(e, "logic_error")

\* What the scheduler made of a notification.
Notified(e, reply) ==
  IF reply.outcome = "ok" THEN [e EXCEPT !.sched = reply.sched]
                          ELSE Fail(e, reply.outcome)

\* schedule_request_event, with EventQueue::schedule
ScheduleRequestEvent(e, time, r, type) ==
  IF e.pending[r] # None THEN Fail(e, "logic_error")
  ELSE IF e.next = CounterLimit THEN Fail(e, "overflow")
  ELSE [e EXCEPT
         !.events = @ \cup {[time |-> time, seq |-> e.next, id |-> r, type |-> type]},
         !.pending[r] = [seq |-> e.next, type |-> type, ignore |-> FALSE],
         !.next = @ + 1]

\* Defect: the completion time is not checked for overflow.
ScheduleAfterUnchecked(e, cost, r, type) == ScheduleRequestEvent(e, e.clock + cost, r, type)
\* schedule_after
ScheduleAfter(e, cost, r, type) ==
  LET time == Plus(e.clock, cost)
  IN  IF time = Overflow THEN Fail(e, "overflow")
                         ELSE ScheduleRequestEvent(e, time, r, type)

\* start_next_if_idle, for the request the scheduler chose.
StartRequest(e, decision) ==
  LET r == decision.id
      scheduled == ScheduleAfter(e, EstimatePrefill(e.requests[r].prompt, 1), r,
                                 "PrefillComplete")
      admitted == Notified(scheduled, NotifyAdmitted(e.sched, decision, e.clock))
      started == TransitionTo(admitted, r, "Prefilling")
  IN  IF e.requests[r].state # "Waiting" \/ e.requests[r].arrival > e.clock
      THEN Fail(e, "logic_error")
      ELSE IF ~Ok(scheduled) THEN scheduled
      ELSE IF ~Ok(admitted) THEN admitted
      ELSE IF ~Ok(started) THEN started
      ELSE [started EXCEPT !.requests[r].admitted = e.clock, !.active = r]

StartNextIfIdle(e) ==
  LET decision == ChooseNextRequest(e.sched)
  IN  IF e.active # None \/ decision.kind = "NoWork" THEN e
      ELSE IF decision.kind = "CapacityFull" THEN Fail(e, "logic_error")
      ELSE StartRequest(e, decision)

-----------------------------------------------------------------------------
(* process_event, after the pending entry of the event was erased *)

IgnoreCancelled(e, r) ==
  IF e.requests[r].state # "Cancelled" THEN Fail(e, "logic_error")
  ELSE IF e.ignored = CounterLimit THEN Fail(e, "overflow")
  ELSE [e EXCEPT !.ignored = @ + 1]

\* Defect: the scheduler is not told of the arrival.
ProcessArrivalUnannounced(e, r) == e
ProcessArrival(e, r) ==
  IF e.requests[r].state # "Waiting" \/ e.requests[r].admitted # None
  THEN Fail(e, "logic_error")
  ELSE Notified(e, NotifyArrival(e.sched, r, e.requests[r].arrival))

ProcessPrefill(e, r) ==
  LET decoding == ScheduleAfter(e, EstimateDecodeStep(1), r, "DecodeStepComplete")
  IN  IF e.active # r \/ e.requests[r].state # "Prefilling" THEN Fail(e, "logic_error")
      ELSE IF e.requests[r].limit = 0 THEN ScheduleAfter(e, 0, r, "RequestComplete")
      ELSE IF ~Ok(decoding) THEN decoding
      ELSE TransitionTo(decoding, r, "Decoding")

\* Defect: a step is charged as a prefill, and each token restamps the first.
ProcessDecodeStepRestamped(e, r) ==
  LET scheduled == ScheduleAfter(e, IF e.requests[r].generated + 1 = e.requests[r].limit
                                    THEN 0 ELSE EstimatePrefill(1, 1), r,
                                 IF e.requests[r].generated + 1 = e.requests[r].limit
                                 THEN "RequestComplete" ELSE "DecodeStepComplete")
  IN  IF ~Ok(scheduled) THEN scheduled
      ELSE [scheduled EXCEPT !.requests[r].generated = @ + 1, !.requests[r].token = e.clock]
ProcessDecodeStep(e, r) ==
  LET req == e.requests[r]
      scheduled == IF req.generated + 1 = req.limit
                   THEN ScheduleAfter(e, 0, r, "RequestComplete")
                   ELSE ScheduleAfter(e, EstimateDecodeStep(1), r, "DecodeStepComplete")
  IN  IF e.active # r \/ req.state # "Decoding" \/ req.generated >= req.limit
      THEN Fail(e, "logic_error")
      ELSE IF ~Ok(scheduled) THEN scheduled
      ELSE [scheduled EXCEPT !.requests[r].generated = @ + 1,
                             !.requests[r].token = IF @ = None THEN e.clock ELSE @]

ProcessComplete(e, r) ==
  LET finished == TransitionTo(e, r, "Finished")
      notified == Notified(finished, NotifyCompleted(e.sched, r, e.clock))
  IN  IF \/ e.active # r \/ e.requests[r].state \notin {"Prefilling", "Decoding"}
         \/ e.requests[r].generated # e.requests[r].limit
      THEN Fail(e, "logic_error")
      ELSE IF ~Ok(finished) THEN finished
      ELSE IF ~Ok(notified) THEN notified
      ELSE [notified EXCEPT !.requests[r].finish = e.clock, !.active = None]

ProcessEvent(e, ev) ==
  LET r == ev.id
      pending == e.pending[r]
      erased == [e EXCEPT !.events = @ \ {ev}, !.pending[r] = None]
  IN  IF pending = None THEN Fail(e, "logic_error")
      ELSE IF pending.seq # ev.seq \/ pending.type # ev.type THEN Fail(e, "logic_error")
      ELSE IF pending.ignore THEN IgnoreCancelled(erased, r)
      ELSE CASE ev.type = "RequestArrival"     -> ProcessArrival(erased, r)
             [] ev.type = "PrefillComplete"    -> ProcessPrefill(erased, r)
             [] ev.type = "DecodeStepComplete" -> ProcessDecodeStep(erased, r)
             [] ev.type = "RequestComplete"    -> ProcessComplete(erased, r)

-----------------------------------------------------------------------------
(* cancel_request *)

\* The events a request in each state may have pending.
ExpectedEvents(state) ==
  CASE state = "Waiting"    -> {"RequestArrival"}
    [] state = "Prefilling" -> {"PrefillComplete", "RequestComplete"}
    [] state = "Decoding"   -> {"DecodeStepComplete", "RequestComplete"}

PendingAsExpected(e, r) ==
  IF e.pending[r] = None THEN e.requests[r].state = "Waiting"
  ELSE e.pending[r].type \in ExpectedEvents(e.requests[r].state)

\* Defect: the event of a cancelled request is not marked as to be ignored.
NotAuthorized(e, r) == e
\* authorized_cancelled_ignore
AuthorizeIgnore(e, r) ==
  [e EXCEPT !.pending[r] = IF @ = None THEN None ELSE [@ EXCEPT !.ignore = TRUE]]

DueNow(e) == e.events # {} /\ Top(e.events).time = e.clock

\* Defect: events that are due at the present time are overtaken.
StartAtOnce(e) == StartNextIfIdle(e)
\* Events of the present time come first: run_next_timestamp starts a request
\* after them.
StartUnlessDue(e) == IF DueNow(e) THEN e ELSE StartNextIfIdle(e)

CancelRequest(e, r) ==
  LET notified == Notified(e, NotifyCancelled(e.sched, r, e.clock))
      cancelled == TransitionTo(notified, r, "Cancelled")
      cleared == [AuthorizeIgnore(cancelled, r) EXCEPT
                    !.requests[r].finish = e.clock,
                    !.active = IF @ = r THEN None ELSE @]
  IN  IF ~PendingAsExpected(e, r) THEN Fail(e, "logic_error")
      ELSE IF ~Ok(notified) THEN notified
      ELSE IF ~Ok(cancelled) THEN cancelled
      ELSE StartUnlessDue(cleared)

-----------------------------------------------------------------------------
(* The public operations.  One thread calls them; run_next_timestamp is cut *)
(* at the events it processes, and nothing is called in between.            *)

\* A failing call leaves an engine of which only the failure can be seen.
Keep(result) == engine' = IF Ok(result) THEN result ELSE Fail(engine, result.failed)

Idle == Ok(engine) /\ current = None

\* A request as it is constructed; of its prompt only the length matters here.
NewRequest(arrival, prompt, limit) ==
  [ state |-> "Waiting", arrival |-> arrival, prompt |-> prompt, limit |-> limit,
    generated |-> 0, admitted |-> None, token |-> None, finish |-> None ]

\* submit_request: a call that is refused (known id, past arrival, no sequence
\* number left) changes nothing.
SubmitRequest(r, arrival, prompt, limit) ==
  LET known == [engine EXCEPT !.requests[r] = NewRequest(arrival, prompt, limit)]
      scheduled == ScheduleRequestEvent(known, arrival, r, "RequestArrival")
  IN  /\ Idle
      /\ r \notin Submitted(engine)
      /\ arrival >= engine.clock
      /\ Ok(scheduled)
      /\ engine' = scheduled
      /\ UNCHANGED current

Cancel(r) ==
  /\ Idle
  /\ r \in InPhase(engine, RequestState \ Terminal)
  /\ Keep(CancelRequest(engine, r))
  /\ UNCHANGED current

\* run_next_timestamp: the clock moves to the first event.
BeginTimestamp ==
  /\ Idle
  /\ engine.events # {}
  /\ engine' = [engine EXCEPT !.clock = Top(engine.events).time]
  /\ current' = engine'.clock

ProcessTop ==
  /\ Ok(engine)
  /\ current # None
  /\ DueNow(engine)
  /\ Keep(ProcessEvent(engine, Top(engine.events)))
  /\ current' = IF Ok(engine') THEN current ELSE None

EndTimestamp ==
  /\ Ok(engine)
  /\ current # None
  /\ ~DueNow(engine)
  /\ Keep(StartNextIfIdle(engine))
  /\ current' = None

RunNextTimestamp == BeginTimestamp \/ ProcessTop \/ EndTimestamp

Next ==
  \/ \E r \in Requests :
       \/ \E s \in Submissions : SubmitRequest(r, s.arrival, s.prompt, s.limit)
       \/ Cancel(r)
  \/ BeginTimestamp
  \/ ProcessTop
  \/ EndTimestamp

\* The client keeps running the simulation, as run() does.
Spec == Init /\ [][Next]_vars /\ WF_vars(RunNextTimestamp)

-----------------------------------------------------------------------------
(* Properties *)

TypeOK == engine \in Engine /\ current \in Time \cup {None}

\* run()'s last check.
UnfinishedWork(e) ==
  \/ e.active # None
  \/ e.sched.waiting # {} \/ e.sched.running # 0
  \/ \E r \in Requests : e.pending[r] # None

\* The five records of what a request is doing agree: its state, its pending
\* event, the event queue, the scheduler's entry and the active request.  None of
\* the engine's consistency checks ever fires, so a simulation fails only because a
\* number does not fit, and when the queue is empty each request has ended.
RecordsAgree ==
  /\ engine.failed # "logic_error"
  /\ Idle /\ engine.events = {} =>
       /\ ~UnfinishedWork(engine)
       /\ Submitted(engine) = InPhase(engine, Terminal)
  /\ Ok(engine) =>
       /\ \A r \in Requests : LET p == engine.pending[r] IN
            IF p = None THEN \A ev \in engine.events : ev.id # r
            ELSE /\ \E ev \in engine.events : ev.id = r /\ ev.seq = p.seq /\ ev.type = p.type
                 /\ Cardinality({ev \in engine.events : ev.id = r}) = 1
                 /\ p.ignore <=> engine.requests[r].state = "Cancelled"
       /\ \A r \in Submitted(engine) : LET state == engine.requests[r].state
                                           entry == engine.sched.entries[r]
                                           p == engine.pending[r] IN
            CASE state = "Waiting"  ->
                   IF entry = None THEN p # None ELSE p = None /\ entry.state = "Waiting"
              [] state = "Finished" -> p = None /\ entry.state = "Completed"
              [] state = "Cancelled" -> entry.state = "Cancelled"
              [] OTHER -> engine.active = r /\ p # None /\ entry.state = "Running"
       /\ engine.active # None =>
            engine.requests[engine.active].state \in {"Prefilling", "Decoding"}
       /\ \A ev \in engine.events : ev.time >= engine.clock

\* The cost model, without a limit to the numbers.
PrefillTime(req) == PrefillBase + PrefillPerToken * req.prompt + PrefillPerSequence
StepTime == DecodeBase + DecodePerSequence
ServiceTime(req) == PrefillTime(req) + req.limit * StepTime

\* Tokens come exactly when the cost model says: the first one a prefill and a
\* decode step after admission, and one more per decode step until the request
\* ends or is cancelled, however other requests come and go.
TokensOnSchedule ==
  \A r \in Submitted(engine) : LET req == engine.requests[r] IN
    Idle /\ req.admitted # None =>
      LET ready == req.admitted + PrefillTime(req)
          until == IF req.finish = None THEN engine.clock ELSE req.finish
      IN  /\ req.generated <= req.limit
          /\ req.generated > 0 =>
               /\ req.token = ready + StepTime
               /\ ready + req.generated * StepTime <= until
          /\ req.generated < req.limit => until <= ready + (req.generated + 1) * StepTime

\* Something that the next call needs does not fit: a counter (a cancellation that
\* starts the next request takes two epochs), a prompt length, the end of a service or
\* the total waiting time.
CounterAtLimit(e) == CounterLimit \in {e.next, e.ignored, e.sched.epoch, e.sched.epoch + 1}
BeyondRange(e) ==
  \E r \in Submitted(e) : LET req == e.requests[r] IN
    \/ req.prompt > IntMax
    \/ e.clock + PrefillTime(req) > IntMax
    \/ e.clock + StepTime > IntMax
    \/ e.sched.waited + e.clock - req.arrival > IntMax

\* No simulation fails, or goes wrong, because of the arithmetic: checked_add,
\* checked_multiply and the estimates are exact for all operands, and when the engine has
\* failed with an overflow, a number was really at its limit or beyond it.
CostsAreExact ==
  /\ BackendIsExact
  /\ engine.failed = "overflow" => CounterAtLimit(engine) \/ BeyondRange(engine)

\* Every request that is submitted ends for good, unless the simulation fails.
EveryRequestEnds ==
  <>[](Submitted(engine) = InPhase(engine, Terminal) \/ ~Ok(engine))

\* The engine is a non-preemptive, work-conserving FCFS server whose service
\* times are those of the cost model.
ServerJob(req) ==
  [ status  |-> CASE req.state = "Waiting" -> "waiting"
                  [] req.state = "Finished" -> "done"
                  [] req.state = "Cancelled" -> "cancelled"
                  [] OTHER -> "served",
    arrival |-> req.arrival, service |-> ServiceTime(req),
    start   |-> req.admitted, end |-> req.finish ]

Server == INSTANCE FcfsServer WITH
  Jobs <- Requests,
  now  <- engine.clock,
  jobs <- [r \in Requests |-> IF engine.requests[r] = None THEN None
                              ELSE ServerJob(engine.requests[r])]

\* std::nullopt is no job either.
ASSUME JobAssumption == None \notin Server!Job

ImplementsServer == Server!Spec
=============================================================================
