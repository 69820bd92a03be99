-------------------------- MODULE ContinuousBatching --------------------------
(***************************************************************************)
(* The iteration engine of src/serving/continuous_batching.cpp.  One call  *)
(* of run_next_iteration plans a batch on a scratch copy of the KV manager *)
(* (prefills of waiting requests, one token for decoding ones, within a    *)
(* token budget, a sequence budget and the free blocks), replays the plan  *)
(* on another copy, publishes, releases, and commits everything at once.   *)
(*                                                                         *)
(* Calls are synchronous: an action is one public call.  A prompt is       *)
(* exact (chunks and a tail) or count-only (no chunks, all of it tail).    *)
(* The trace, the peaks and the prefix metrics are left out.               *)
(***************************************************************************)
EXTENDS KVManager, SimulatedBackend, RequestLifecycle

CONSTANTS
  Policy,         \* config.scheduling_policy()
  MaxSequences,   \* config.max_num_sequences()
  MaxTokens,      \* config.max_batched_tokens()
  CounterLimit,   \* the largest value of a statistic (2^64-1 in the code)
  ArrivalTimes, Prompts, OutputLimits  \* what clients submit

\* The constructor of the configuration refuses any other.
ContinuousBatchingConfig ==
  /\ Policy \in {"DecodeFirst", "FcfsMixed"}
  /\ MaxSequences \in Nat \ {0} /\ MaxTokens \in Nat \ {0}

ASSUME BatchingAssumption ==
  /\ ContinuousBatchingConfig
  /\ CounterLimit \in Nat
  /\ Requests \subseteq Nat
  /\ ArrivalTimes \subseteq 0 .. IntMax
  /\ Prompts \subseteq [exact : BOOLEAN, chunks : Seq(Chunks), tail : Nat]
  /\ \A p \in Prompts : IF p.exact THEN p.tail < BlockSize ELSE p.chunks = <<>>
  /\ OutputLimits \subseteq Nat

VARIABLES
  engine,  \* the engine
  result   \* what the last iteration returned to the caller, who has made no
           \* other call since; otherwise "none"

vars == <<engine, result>>

Time == 0 .. IntMax

Request ==
  [ state     : RequestState,
    arrival   : Time,               \* arrival_time_us
    prompt    : Prompts,
    limit     : OutputLimits,       \* max_new_tokens
    generated : Nat,                \* generated_token_count
    admitted  : Time \cup {None},   \* admitted_time_us, first_scheduled_time_us
    token     : Time \cup {None},   \* first_token_time_us
    finish    : Time \cup {None} ]  \* finish_time_us

ASSUME NoRequestAssumption == None \notin Request /\ None \notin Time

Statistics ==
  [{"iterations", "batches", "idle", "stalled", "prefill", "decode", "sequences",
    "original", "matched", "deferred", "kvDeferred", "completed", "cancelled"}
     -> 0 .. CounterLimit]

Engine ==
  [ clock    : Time,
    requests : [Requests -> Request \cup {None}],
    arrived  : SUBSET Requests,      \* arrived_requests_
    kv       : Manager,              \* kv_cache_
    stats    : Statistics,           \* statistics_
    failed   : {"no", "oversized", "overflow", "capacity", "stale", "logic_error"} ]

Init ==
  /\ engine = [ clock |-> 0, requests |-> [r \in Requests |-> None], arrived |-> {},
                kv |-> EmptyManager,
                stats |-> [iterations |-> 0, batches |-> 0, idle |-> 0, stalled |-> 0,
                           prefill |-> 0, decode |-> 0, sequences |-> 0,
                           original |-> 0, matched |-> 0, deferred |-> 0,
                           kvDeferred |-> 0, completed |-> 0, cancelled |-> 0],
                failed |-> "no" ]
  /\ result = "none"

Submitted(e) == {r \in Requests : e.requests[r] # None}
InPhase(e, states) == {r \in Submitted(e) : e.requests[r].state \in states}
Ok(e) == e.failed = "no"
Fail(e, cause) == [e EXCEPT !.failed = cause]

\* Exact tokens are used only by an enabled cache.
UsesPrefix(req) == PrefixEnabled /\ req.prompt.exact

-----------------------------------------------------------------------------
(* Who may run *)

\* arrivals_at_current_timestamp
Arrivals(e) ==
  e.arrived \cup {r \in InPhase(e, {"Waiting"}) : e.requests[r].arrival <= e.clock}

\* Defect: decoding requests are not counted as work.
RunnableWaitingOnly(e, arrivals) == InPhase(e, {"Waiting"}) \cap arrivals
Runnable(e, arrivals) == InPhase(e, {"Decoding"}) \cup (InPhase(e, {"Waiting"}) \cap arrivals)

Future(e, arrivals) ==
  {r \in InPhase(e, {"Waiting"}) \ arrivals : e.requests[r].arrival > e.clock}

\* Defect: the idle clock jumps to the last arrival.
LastArrival(e, arrivals) == Max({e.requests[r].arrival : r \in Future(e, arrivals)})
NextArrival(e, arrivals) == Min({e.requests[r].arrival : r \in Future(e, arrivals)})

\* candidate_less
Earlier(e, r, other) ==
  \/ e.requests[r].arrival < e.requests[other].arrival
  \/ e.requests[r].arrival = e.requests[other].arrival /\ r < other

\* The requests of S, sorted by candidate_less.
InOrder(e, S) ==
  [n \in 1 .. Cardinality(S) |->
     CHOOSE r \in S : Cardinality({other \in S : Earlier(e, other, r)}) = n - 1]

\* Defect: the latest request goes first.
CandidatesNewestFirst(e, ids) == Reverse(InOrder(e, ids))

\* Defect: DecodeFirst, too, orders prefills and decodes together.
CandidatesTogether(e, ids) == InOrder(e, ids)

\* build_decode_first, build_fcfs_mixed
Candidates(e, ids) ==
  LET decodes == ids \cap InPhase(e, {"Decoding"})
  IN  IF Policy = "DecodeFirst" THEN InOrder(e, decodes) \o InOrder(e, ids \ decodes)
                                ELSE InOrder(e, ids)

-----------------------------------------------------------------------------
(* Calls of the manager with exact block ids *)

\* What a batch does for one request: its tokens, the blocks it found in the
\* cache, those that are evicted for it and those it is given.
WorkItem ==
  [ id : Requests, prefill : BOOLEAN, cost : Nat,
    matched : Seq(Block), evicted : SUBSET Block, allocated : Seq(Block) ]

\* Defect: a prompt is published as soon as its blocks are allocated.
ManagerCallPublishing(e, m, item) ==
  LET req == e.requests[item.id]
      reply == AllocatePromptWithPrefix(m, item.id, req.prompt, item.matched)
  IN  IF ~item.prefill THEN AppendDecodeToken(m, item.id)
      ELSE IF ~UsesPrefix(req) THEN AllocatePrompt(m, item.id, Total(req.prompt))
      ELSE IF reply.outcome # "ok" THEN reply
      ELSE InsertCompletedPromptBlocks(reply.kv, item.id)

\* The manager's call, by the kind of work.
ManagerCall(e, m, item) ==
  LET req == e.requests[item.id]
  IN  IF ~item.prefill THEN AppendDecodeToken(m, item.id)
      ELSE IF UsesPrefix(req)
      THEN AllocatePromptWithPrefix(m, item.id, req.prompt, item.matched)
      ELSE AllocatePrompt(m, item.id, Total(req.prompt))

\* A call that took other blocks than planned is refused.
AsPlanned(m, item, reply) ==
  IF \/ reply.outcome # "ok"
     \/ /\ reply.kv.tables[item.id] = m.tables[item.id] \o item.matched \o item.allocated
        /\ item.evicted = Range(item.allocated) \ m.free
  THEN reply ELSE Refuse(m, "logic_error")

\* allocate_prompt_exact, allocate_prompt_with_prefix_exact and
\* append_decode_token_exact
ExactCall(e, m, item) == AsPlanned(m, item, ManagerCall(e, m, item))

-----------------------------------------------------------------------------
(* build_from_candidates *)

EmptyPlan(e) ==
  [kv |-> e.kv, outcome |-> "ok", items |-> <<>>, deferred |-> <<>>, tokens |-> 0]

Defer(p, r, reason) == [p EXCEPT !.deferred = Append(@, [id |-> r, reason |-> reason])]

\* Reserve blocks for r on the scratch copy: evict only when free blocks are
\* short, never a block the request itself reuses.
Reserve(p, work, required) ==
  LET evicted == LeastRecentlyUsed(p.kv, Cached(p.kv) \ Range(work.matched),
                                   Shortage(p.kv, required))
  IN  [work EXCEPT !.evicted = evicted,
                   !.allocated = Ascending(Lowest(p.kv.free \cup evicted, required))]

Selected(p, item, reply) ==
  IF reply.outcome # "ok" THEN [p EXCEPT !.outcome = reply.outcome]
  ELSE [p EXCEPT !.kv = reply.kv, !.items = Append(@, item), !.tokens = @ + item.cost]

Select(e, p, item) == Selected(p, item, ExactCall(e, p.kv, item))

\* Defect: cached blocks do not count as available.
AvailableFree(p, matched) == Cardinality(p.kv.free)
Available(p, matched) ==
  Cardinality(p.kv.free) + Cardinality(Cached(p.kv) \ Range(matched))

\* The next candidate is refused, deferred or selected.
Visit(e, p, r) ==
  LET req == e.requests[r]
      prefill == req.state = "Waiting"
      matched == IF prefill /\ UsesPrefix(req) THEN Lookup(p.kv, req.prompt.chunks) ELSE <<>>
      cost == IF prefill THEN Total(req.prompt) - Len(matched) * BlockSize ELSE 1
      required == IF prefill THEN BlocksRequired(cost)
                  ELSE IF DecodeRequiresNewBlock(p.kv, r) THEN 1 ELSE 0
      work == [id |-> r, prefill |-> prefill, cost |-> cost, matched |-> matched,
               evicted |-> {}, allocated |-> <<>>]
  IN  IF prefill /\ Total(req.prompt) > MaxTokens /\ (matched = <<>> \/ cost > MaxTokens)
      THEN [p EXCEPT !.outcome = "oversized"]
      ELSE IF cost > MaxTokens - p.tokens THEN Defer(p, r, "TokenBudget")
      ELSE IF Len(p.items) >= MaxSequences THEN Defer(p, r, "SequenceBudget")
      ELSE IF required > Available(p, matched) THEN Defer(p, r, "KVCapacity")
      ELSE Select(e, p, Reserve(p, work, required))

\* BatchPlan::create_with_deferred: the plan keeps the budgets, names a request once,
\* and puts work off for a budget only if other work uses it up.
WellFormed(p) ==
  LET ids(work) == [i \in DOMAIN work |-> work[i].id]
  IN  /\ Len(p.items) <= MaxSequences /\ p.tokens <= MaxTokens
      /\ IsInjective(ids(p.items) \o ids(p.deferred))
      /\ p.items = <<>> => \A d \in Range(p.deferred) : d.reason = "KVCapacity"

\* No block has two roles in a plan.
Consistent(p) ==
  LET items == Range(p.items)
      allocated == UNION {Range(i.allocated) : i \in items}
  IN  /\ \A i, j \in items : i.id # j.id =>
           i.evicted \cap j.evicted = {} /\ Range(i.allocated) \cap Range(j.allocated) = {}
      /\ \A i, j \in items : Range(i.matched) \cap (allocated \cup j.evicted) = {}

\* The code throws logic_error or invalid_argument; either fails the engine.
Approved(p) ==
  IF p.outcome = "ok" /\ ~(Consistent(p) /\ WellFormed(p))
  THEN [p EXCEPT !.outcome = "logic_error"] ELSE p

\* The plan after so many candidates; the first that throws ends it.
PlanOver(e, order) ==
  LET plan[n \in 0 .. Len(order)] ==
        IF n = 0 THEN EmptyPlan(e)
        ELSE LET p == plan[n - 1]
             IN  IF p.outcome = "ok" THEN Visit(e, p, order[n]) ELSE p
  IN  plan

Plan(e, ids) ==
  LET order == Candidates(e, ids)
  IN  Approved(PlanOver(e, order)[Len(order)])

-----------------------------------------------------------------------------
(* prepare_iteration and commit_iteration *)

EmptyWork == [items |-> <<>>, deferred |-> <<>>]

Ends(e, item) ==
  LET req == e.requests[item.id]
  IN  IF item.prefill THEN req.limit = 0 ELSE req.generated + 1 = req.limit

ToPublish(e, item) ==
  LET req == e.requests[item.id]
  IN  item.prefill /\ UsesPrefix(req) /\ Len(item.matched) < Len(req.prompt.chunks)

\* What each loop over the plan calls for an item, if anything.
LoopCall(e, loop, m, item) ==
  CASE loop = "replay" -> ExactCall(e, m, item)
    [] loop = "publish" /\ ToPublish(e, item) -> InsertCompletedPromptBlocks(m, item.id)
    [] \/ loop = "release prefills" /\ item.prefill /\ Ends(e, item)
       \/ loop = "release decodes" /\ ~item.prefill /\ Ends(e, item)
         -> ReleaseRequest(m, item.id)
    [] OTHER -> Refuse(m, "ok")

\* The manager after a loop over so many items; the first call that throws ends it.
AfterLoop(e, loop, before, items) ==
  LET after[n \in 0 .. Len(items)] ==
        IF n = 0 THEN before
        ELSE LET reply == after[n - 1]
             IN  IF reply.outcome = "ok" THEN LoopCall(e, loop, reply.kv, items[n]) ELSE reply
  IN  after[Len(items)]

\* Replay the plan, publish what was computed, release what is done: a prompt is
\* found by others, and its blocks are reused, from the next iteration on.
PreparedManager(e, plan) ==
  LET replayed == AfterLoop(e, "replay", Refuse(e.kv, "ok"), plan.items)
      published == AfterLoop(e, "publish", replayed, plan.items)
      released == AfterLoop(e, "release prefills", published, plan.items)
  IN  AfterLoop(e, "release decodes", released, plan.items)

\* prepare_request_updates: what must hold of a request the plan schedules.
Applicable(e, arrivals, item) ==
  LET req == e.requests[item.id]
      after == IF Ends(e, item) THEN "Finished" ELSE "Decoding"
  IN  IF item.prefill
      THEN /\ req.state = "Waiting" /\ item.id \in arrivals
           /\ MayBecome(req.state, "Prefilling", req.limit)
           /\ MayBecome("Prefilling", after, req.limit)
      ELSE /\ req.state = "Decoding" /\ req.generated < req.limit
           /\ Ends(e, item) => MayBecome(req.state, "Finished", req.limit)

Updated(e, item, end) ==
  LET req == e.requests[item.id]
      worked == IF item.prefill
                THEN [req EXCEPT !.state = "Decoding", !.admitted = e.clock]
                ELSE [req EXCEPT !.generated = @ + 1, !.token = IF @ = None THEN end ELSE @]
  IN  IF Ends(e, item) THEN [worked EXCEPT !.state = "Finished", !.finish = end] ELSE worked

\* Defect: only the tokens that had to be computed count as original tokens.
OriginalTokensComputed(e, prefills) == SumFunction([i \in prefills |-> i.cost])
OriginalTokens(e, prefills) ==
  SumFunction([i \in prefills |-> Total(e.requests[i.id].prompt)])

\* prepare_statistics
Counted(e, plan) ==
  LET items == Range(plan.items)
      prefills == {i \in items : i.prefill}
      one(b) == IF b THEN 1 ELSE 0
      more ==
        [ iterations |-> 1,
          batches    |-> one(plan.items # <<>>),
          idle       |-> one(plan.items = <<>> /\ plan.deferred = <<>>),
          stalled    |-> one(plan.items = <<>> /\ plan.deferred # <<>>),
          prefill    |-> SumFunction([i \in prefills |-> i.cost]),
          decode     |-> Cardinality(items \ prefills),
          sequences  |-> Cardinality(items),
          original   |-> OriginalTokens(e, prefills),
          matched    |-> SumFunction([i \in prefills |-> Len(i.matched) * BlockSize]),
          deferred   |-> Len(plan.deferred),
          kvDeferred |-> Cardinality({d \in Range(plan.deferred) : d.reason = "KVCapacity"}),
          completed  |-> Cardinality({i \in items : Ends(e, i)}),
          cancelled  |-> 0 ]
  IN  [f \in DOMAIN more |-> e.stats[f] + more[f]]

\* Defect: only the iteration counter is checked.
IterationsExhausted(stats) == stats.iterations >= CounterLimit

\* next_iteration_number_ is one ahead of the iterations counted.
Exhausted(stats) ==
  \/ \E f \in DOMAIN stats : stats[f] > CounterLimit
  \/ stats.iterations >= CounterLimit

\* Everything that may throw is prepared on copies; then all of it is committed.
Committed(e, arrivals, plan, end, manager, stats) ==
  LET item(r) == {i \in Range(plan.items) : i.id = r}
  IN  IF manager.outcome # "ok" THEN Fail(e, manager.outcome)
      ELSE IF end = Overflow \/ Exhausted(stats) THEN Fail(e, "overflow")
      ELSE IF end < e.clock \/ \E i \in Range(plan.items) : ~Applicable(e, arrivals, i)
      THEN Fail(e, "logic_error")
      ELSE [e EXCEPT !.clock = end, !.arrived = arrivals, !.kv = manager.kv, !.stats = stats,
                     !.requests = [r \in Requests |-> IF item(r) = {} THEN @[r]
                                     ELSE Updated(e, CHOOSE i \in item(r) : TRUE, end)]]

Iterated(e, arrivals, plan, end) ==
  Committed(e, arrivals, plan, end, PreparedManager(e, plan), Counted(e, plan))

\* BatchPlan::empty, up to the next arrival.
IdleIteration(e, arrivals) ==
  Iterated(e, arrivals, EmptyWork, NextArrival(e, arrivals))

BatchEnd(e, plan) ==
  LET decodes == Cardinality({i \in Range(plan.items) : ~i.prefill})
  IN  Plus(e.clock, EstimateBatchTime(plan.tokens - decodes, decodes, Len(plan.items)))

\* A plan that schedules nobody takes no time: the iteration is a stall.
BatchIteration(e, arrivals, plan) ==
  IF plan.outcome # "ok" THEN Fail(e, plan.outcome)
  ELSE Iterated(e, arrivals, plan, IF plan.items = <<>> THEN e.clock ELSE BatchEnd(e, plan))

-----------------------------------------------------------------------------
(* The public operations *)

\* A request as it is constructed; its prompt is exact or only counted.
NewRequest(arrival, prompt, limit) ==
  [ state |-> "Waiting", arrival |-> arrival, prompt |-> prompt, limit |-> limit,
    generated |-> 0, admitted |-> None, token |-> None, finish |-> None ]

\* submit_request: a refused call changes nothing.
Submit(r, arrival, prompt, limit) ==
  /\ Ok(engine)
  /\ r \notin Submitted(engine)
  /\ arrival >= engine.clock
  /\ (PrefixEnabled /\ prompt.exact) \/ Total(prompt) <= MaxTokens
  /\ engine' = [engine EXCEPT !.requests[r] = NewRequest(arrival, prompt, limit)]
  /\ result' = "none"

\* Defect: a cancelled request keeps its blocks.
ManagerUnreleased(e, r) == Refuse(e.kv, "ok")

\* cancel_request: the blocks of a decoding request are released.
ManagerWithout(e, r) ==
  IF e.requests[r].state = "Decoding" THEN ReleaseRequest(e.kv, r) ELSE Refuse(e.kv, "ok")

Cancel(r) ==
  LET manager == ManagerWithout(engine, r)
  IN  /\ Ok(engine)
      /\ r \in InPhase(engine, {"Waiting", "Decoding"})
      /\ engine.stats.cancelled < CounterLimit
      /\ manager.outcome = "ok"
      /\ engine' = [engine EXCEPT !.requests[r].state = "Cancelled",
                                  !.requests[r].finish = engine.clock,
                                  !.arrived = @ \ {r},
                                  !.kv = manager.kv,
                                  !.stats.cancelled = @ + 1]
      /\ result' = "none"

RunBatch(arrivals, plan) ==
  /\ engine' = BatchIteration(engine, arrivals, plan)
  /\ result' = IF ~Ok(engine') THEN "none"
               ELSE IF plan.items = <<>> THEN "stalled" ELSE "progressed"

RunNextIteration ==
  LET arrivals == Arrivals(engine)
      runnable == Runnable(engine, arrivals)
      future == Future(engine, arrivals)
  IN  /\ Ok(engine)
      /\ \/ /\ runnable = {} /\ future = {}
            /\ UNCHANGED engine /\ result' = "complete"
         \/ /\ runnable = {} /\ future # {}
            /\ engine' = IdleIteration(engine, arrivals)
            /\ result' = IF Ok(engine') THEN "progressed" ELSE "none"
         \/ /\ runnable # {}
            /\ RunBatch(arrivals, Plan(engine, runnable))

Next ==
  \/ \E r \in Requests :
       \/ \E arrival \in ArrivalTimes, prompt \in Prompts, limit \in OutputLimits :
            Submit(r, arrival, prompt, limit)
       \/ Cancel(r)
  \/ RunNextIteration

\* The client keeps running the simulation, as run() does.  This is
\* WF_vars(RunNextIteration) with its ENABLED spelled out: an iteration of an
\* engine that has not failed changes the state, unless the previous call was an
\* iteration too and found nothing to do.
Fairness ==
  \/ []<>(~Ok(engine) \/ result = "complete")
  \/ []<><<RunNextIteration>>_vars

Spec == Init /\ [][Next]_vars /\ Fairness

-----------------------------------------------------------------------------
(* Properties *)

TypeOK ==
  /\ engine \in Engine
  /\ result \in {"none", "progressed", "stalled", "complete"}

\* The engine fails only because a number does not fit, because a prompt larger
\* than a batch lost its cached prefix, or because a live request holds a
\* duplicate whose canonical block is cached, and about to be evicted.
FailureIsExplained ==
  CASE engine.failed \in {"capacity", "stale"} -> FALSE
    [] engine.failed = "logic_error" ->
         \E b \in Cached(engine.kv) : DuplicateHolder(engine.kv, b)
    [] engine.failed = "oversized" ->
         \E r \in InPhase(engine, {"Waiting"}) : Total(engine.requests[r].prompt) > MaxTokens
    [] OTHER -> TRUE

\* The manager and the requests agree: exactly the decoding requests hold
\* blocks, and their blocks hold the prompt and every token generated.
TokensHeld(m, r) == TokensIn(m, Range(m.tables[r]))
KVMatchesProgress ==
  /\ Live(engine.kv) = InPhase(engine, {"Decoding"})
  /\ \A r \in Live(engine.kv) : LET req == engine.requests[r] IN
       TokensHeld(engine.kv, r) = Total(req.prompt) + req.generated

\* The statistics account for what happened to the requests, token by token.
StatisticsAgree ==
  LET stats == engine.stats
      prefilled == {r \in Submitted(engine) : engine.requests[r].admitted # None}
  IN  /\ stats.completed = Cardinality(InPhase(engine, {"Finished"}))
      /\ stats.cancelled = Cardinality(InPhase(engine, {"Cancelled"}))
      /\ stats.original = SumFunction([r \in prefilled |-> Total(engine.requests[r].prompt)])
      /\ stats.original = stats.prefill + stats.matched
      /\ stats.decode = SumFunction([r \in prefilled |-> engine.requests[r].generated])
      /\ stats.sequences = Cardinality(prefilled) + stats.decode
      /\ stats.iterations = stats.batches + stats.idle + stats.stalled

\* What an iteration reports is so: at completion every request has ended; the engine
\* stalls on its decoding requests only if they hold all blocks and each needs one more,
\* and cached blocks never stall it: with no decoding request only prompts that exceed
\* the pool are left waiting.
OutcomeIsTrue ==
  /\ result = "complete" => Submitted(engine) = InPhase(engine, Terminal)
  /\ result = "stalled" =>
       LET decoding == InPhase(engine, {"Decoding"})
       IN  IF decoding = {}
           THEN \A r \in Runnable(engine, engine.arrived) :
                  BlocksRequired(Total(engine.requests[r].prompt)) > NumBlocks
           ELSE /\ engine.kv.free = {} /\ Cached(engine.kv) = {}
                /\ \A r \in decoding : DecodeRequiresNewBlock(engine.kv, r)

\* Time passes without work only up to the next arrival, and only if no request
\* that has arrived is unfinished.
NoIdleWhileWorkWaits ==
  [][engine'.clock # engine.clock /\ engine'.requests = engine.requests =>
       \A r \in InPhase(engine, RequestState \ Terminal) :
         /\ engine.requests[r].arrival > engine.clock
         /\ engine.requests[r].arrival >= engine'.clock]_vars

\* Of two requests with the same prompt, the one that came later is not
\* prefilled before the other, whatever is cached, evicted or deferred.
PrefilledNow == {r \in InPhase(engine, {"Waiting"}) : engine'.requests[r].admitted # None}
EqualRequestsInOrder ==
  [][\A r \in PrefilledNow, other \in InPhase(engine, {"Waiting"}) :
       engine.requests[other].prompt = engine.requests[r].prompt /\ Earlier(engine, other, r)
         => other \in PrefilledNow]_vars

\* Under DecodeFirst waiting prompts never take anything from decoding requests:
\* those that get a token are those that would without any prompt waiting.
DecodesIgnorePrefills ==
  [][result' = "progressed" =>
       LET decoding == InPhase(engine, {"Decoding"})
           alone == {i.id : i \in Range(Plan(engine, decoding).items)}
       IN  {r \in decoding : engine'.requests[r].generated # engine.requests[r].generated}
             = alone]_vars

\* Every request ends, unless the engine stalls or fails.
EveryRequestEnds ==
  \A r \in Requests :
    r \in Submitted(engine) ~> \/ r \in InPhase(engine, Terminal)
                               \/ result = "stalled" \/ ~Ok(engine)

=============================================================================
