# A verification of the LLM serving laboratory

TLA+ models of the deterministic serving simulator in `src/serving` and
`include/serving` (C++) and of four Python tools that depend on what happens around them
(files that survive a crash, a server, a build, a host), their TLC configurations, and TLAPS
proofs about all of them. Paths below are relative to the
repository's root.

## 1. The system

The repository simulates an LLM server in virtual time and has Python tooling that
runs `llama.cpp` benchmarks and analyses the results. What follows names every
part, its state, its operations, and what makes it correct.

| component | state | operations | interacts with |
|---|---|---|---|
| KV block manager and prefix cache (`kv_cache.cpp`) | physical blocks (state, owner, reference count, valid tokens, epoch, key, provenance), free set, block tables, prompt provenance, prefix index, counters | admit (count-only or exact prompt), publish, append a decode token, release, evict | owned by the continuous batching engine, which also runs it on scratch copies |
| Checked arithmetic, simulated backend (`simulated_backend.cpp`) | none | checked add, multiply, count; three linear cost estimates | called by both engines |
| Request lifecycle (`request.cpp`) | a request's state, counts and times | `transition_to` | engines |
| FCFS scheduler (`fcfs_scheduler.cpp`) | entries, ordered waiting set, running count, decision epoch, statistics | arrival, choose, admitted, completed, cancelled | owned by an engine, which must commit the decisions it gets |
| Discrete-event engine (`simulation_engine.cpp`, `event.h`) | clock, event queue, requests, pending event per request, active request | submit, cancel, run one timestamp, run | scheduler, backend, lifecycle |
| Continuous batching engine (`continuous_batching.cpp`) | clock, requests, arrived set, KV manager, statistics | submit, cancel, run one iteration, run | KV manager, backend, lifecycle |
| Benchmark runner and smoke programs | none of their own | parse, run an engine, print JSON | engines |
| `run_llama_bench.py` | append-only journal of records, summary, normalized table | run, interrupt, resume, retry, force | subprocesses, files |
| `download_model.py` | model file, `.part` file, metadata | download one file or a configuration, resume, verify | HTTP server, files |
| `verify_llama_cpp_build.py` | the results so far | look up, check and run each executable | a build that may be in progress, child processes |
| `probe_perf_events.py` | the report so far, a JSON and a Markdown file | probe each event, write both files | `perf`, the host's permissions, files |
| other drivers, validation and analysis scripts | files | pure functions and subprocess orchestration | |
| Q4/Q8 kernels, plots, CI | none | numeric code, text | |

### What is hard in it

Everything in `src/serving` is single-threaded; the difficulty is in the *order* of
legal calls and of simulated events, in redundant records that must agree, and in
transactions that must leave no trace when they fail:

* the KV manager keeps the same facts in tables, reference counts, the index, the
  free set and a token count; blocks are shared, cached, reacquired, duplicated and
  evicted by several requests in turn;
* the scheduler's decisions are used after they were made;
* cancellation meets events that are still in the queue, simultaneous arrivals, and
  the request that is being served;
* a batch is planned on one scratch copy of the manager and replayed on another, while
  hits, evictions, budgets and residents compete;
* counters and the clock are finite.

The Python tools are sequential programs too, but their state is in files, and they can
be stopped between any two writes and started again; and what they examine (a remote
file, a build, `perf`) changes, hangs and disappears between two of their steps.

Each of these is a `hazard` in `PROJECT.json`, at its line, with the properties that
cover it.

### What makes each part correct

* KV manager: no request ever reads a block with another context; a block that a live
  request holds is neither freed nor rewritten; every mutator keeps what
  `validate_invariants` checks; eviction is least recently used and only under need.
* Scheduler: first come, first served for any interleaving of notifications; no stale
  decision is accepted; never more than the capacity runs; the end of a request is final.
* Engine: the internal checks never fire; requests are served one at a time in arrival
  order without needless idling, each for exactly the time the cost model says; all
  of them end.
* Continuous batching: the manager holds exactly the tokens of the requests that decode; a
  plan never fails to replay; nobody with the same prompt is overtaken; residents come
  first under `DecodeFirst`; the engine stalls only when the residents hold all blocks and
  each needs one more, or a prompt exceeds the pool; the statistics account for every token.
* Backend: a cost is exact or refused, and an engine that has overflowed had to.
* Benchmark run: summary and table never claim what the journal does not hold, a success is
  never run again, "completed" means that each measured invocation has a record, and a
  run that is resumed often enough completes.
* Download: exit code 0 with checksums means the whole of the versions that were
  asked for, for each file of a configuration; the sidecars describe the models and the
  call; a model that has its sidecar is never relabelled; repeating the call succeeds in
  the end.
* Build verification: exit code 0 means that each executable was run and returned 0; the
  exit code is right about a build that nobody touches.
* perf probe: "supported" means that perf ran, exited 0 and said nothing against the
  event; a refusal is never taken for missing hardware; the two files are one report.

## 2. Modules

| module | models |
|---|---|
| `KVManager` | the manager as operators on a manager *value* |
| `KVCache` | the public interface: one action per public mutator, whichever way the call ends |
| `KVManager_proof`, `KVCache_proof` | lemmas about the operators; theorems of the specification |
| `CheckedMath`, `SimulatedBackend` | arithmetic and the cost model |
| `RequestLifecycle` | the table of legal transitions and its guard |
| `FcfsScheduler` | the scheduler as operators on a scheduler value |
| `SchedulerClient` | a client that calls it in any order, and may hold a decision for long |
| `SimulationEngine` | the engine, on top of scheduler, backend and lifecycle |
| `ContinuousBatching` | the iteration engine, on top of `KVManager`, backend and lifecycle |
| `FcfsServer` | the abstract specification `SimulationEngine` implements |
| `BenchRun` | the durable run of `run_llama_bench.py`: its files and the process that writes them |
| `DownloadModel` | `download_model.py`: configurations, files, the server and the process |
| `BuildVerification` | `verify_llama_cpp_build.py` and a build that changes |
| `PerfProbe` | `probe_perf_events.py`, `perf` and a host that changes |
| `HostChecks` | one or the other of these two scripts, with their fairness |
| `FcfsScheduler_proof` | lemmas about the operations on a scheduler: what each changes, that it keeps the scheduler consistent, and what makes it refuse |
| `SchedulerClient_proof`, `SimulationEngine_proof`, `ContinuousBatching_proof`, `DownloadModel_proof` | the inductive invariants and the theorems of the specification in their name |
| `Scripts_proof` | the same for `BenchRun` and for `HostChecks` |
| `MC...` | the instances TLC checks |

The two stateful classes that other code runs ahead on copies of (the manager) or
embeds (the scheduler) are written as functions from a value to a reply
`[outcome, new value]`. That is also how the C++ is written: every mutator of
`KVCacheManager` copies the manager, works on the copy, calls
`validate_invariants` and swaps; an exception drops the copy.

### KVManager and KVCache

A *prompt* is a sequence of chunks (the tokens of one full block) and the length of
its partial tail; the code never compares tail tokens. Keys hold the parent's
*hash*, as in the code, and the hash is a constant: an injective one in the runs about
contents, a constant one in the collision run (the repository's tests inject such
functions). The counters `access_epoch` and `allocation_failures` have the limits
`EpochLimit` and `FailureLimit`, so overflow paths are reached. `validate_invariants`
is the operator `Valid`, and a mutator whose copy is not `Valid` replies
`logic_error`, as the code throws `std::logic_error`.

A stale lookup (`AdmitExact` with a `supplied` that differs from a new lookup) is
refused with `stale`; in the code this is a `std::logic_error` too, and is kept
apart here because it is the caller's error. So is `misplanned`: a caller of
`allocate_prompt_with_prefix` may protect cached blocks (`AllocatePromptProtecting`), which
are left out of the plan for evictions (`kv_cache.cpp:288-294`) but not of the plan that
the exact call makes to compare it with (342-355). If a protected block is among the least
recently used ones, the call is refused with "planned prefix eviction IDs differ from
actual IDs", although another block could go. The engine and most callers protect nothing:
this is `AllocatePromptWithPrefix`, and the lemma `ProtectingNothing` says so.

The public `*_exact` calls are modelled with the plans their siblings compute, and, in
`ContinuousBatching`, with those of the planner; called with any other plan they throw
`std::logic_error` and change nothing, which is not an action.

`written` is a history variable: the prompt chunks whose KV entries a block
holds. It is the only thing in the module that is not in the code, and it is what
makes `PrefixFidelity` a statement about reuse rather than about bookkeeping.

Not modelled: cumulative prefix metrics, the peak statistic, namespaces and salts
(a key has one of each per manager).

### FcfsScheduler and SchedulerClient

Statistics, epoch and running count share a limit `CounterLimit`. The client
remembers the decision it holds and, as history, the scheduler it was made from
(`basis`), and may commit the decision after any number of other notifications.

### SimulationEngine

One record `engine` holds the members of the class. `run_next_timestamp` is cut at the
events it processes: `BeginTimestamp` advances the clock, `ProcessTop` processes one
event, `EndTimestamp` starts the next request; no client call fits in between
(`current` is not `None`), as in the single-threaded code. The scheduler is the model of
`FcfsScheduler` with `MaxActive = 1`: the constructor refuses anything else. After
a failure every call of the code throws and withholds results, so only `failed` is
kept. The event log is left out.

### ContinuousBatching

One action per public call: `Submit`, `Cancel`, `RunNextIteration`; refused calls (an arrival
in the past, a long prompt without prefix cache, a counter at its limit) change nothing and
are not actions. `run()` is `RunNextIteration` again and again, until it reports a
stall or completion; `result` keeps what the last iteration returned as long as
no other call has been made.

| code | module |
|---|---|
| `arrivals_at_current_timestamp`, `has_runnable_work`, `next_future_arrival` | `Arrivals`, `Runnable`, `Future`, `NextArrival` |
| `build_plan`, `build_decode_first`, `build_fcfs_mixed`, `candidate_less` | `Plan` (the last entry of `PlanOver`), `Candidates`, `InOrder`, `Earlier` |
| one round of the loop in `build_from_candidates` | `Visit` (`Defer`, `Reserve`, `Select`) |
| the `*_exact` calls of the manager | `ExactCall`: the manager's call; `AsPlanned` refuses it when it took other blocks than planned |
| the checks at the end of planning | `Consistent`, `Approved` |
| `prepare_iteration`: replay, publish, release | `PreparedManager`: four loops (`AfterLoop`) over the plan, of what `LoopCall` says |
| `prepare_request_updates`, `prepare_statistics`, `commit_iteration` | `Applicable`, `Updated`, `Counted`, `Committed` |

The loops of the code are tables: entry n of `PlanOver` is the plan, with its scratch manager,
after n candidates, and entry n of the table in `AfterLoop` is the manager after n items; an
entry that failed is repeated to the end, as an exception skips the rest. A sorted sequence
has at place n the element with n - 1 before it (`InOrder`): the code sorts with a total
order. A failure anywhere leaves the engine as it was, with `failed` set to the cause,
which the code does not keep: it is there for `FailureIsExplained`. As in the
code, a prompt longer than a batch is accepted when it might hit the cache, and if it
does not, planning throws and the engine has failed for all its requests. A stall is
an iteration too: it counts, takes no time, and may be repeated.

Left out: the plan trace, peak values, prefix metrics copied from the manager, and
the failure-injection seams of the tests.

### BenchRun

`run()` is cut at its writes: `Begin` (read the journal, check the fingerprint, replace
the summary), `OpenJournal`, then per invocation `Execute`, `AppendRecord`,
`NoteRecord` (the summary), and at the end `Finish` (the `finally` clause) and `WriteCsv`.
`Interrupt` is a SIGINT inside the `try`; one outside of it, and SIGKILL, are `Kill`, which
may leave a cut line or a cut table. `TimeLimit` is `max_total_seconds` and `AppendFails` an
`OSError` of the append, after which the `finally` clause still runs. The fingerprint of
a configuration is its plan. `os.replace` is atomic, so the summary is never cut.

A line that was cut is `truncated` (not JSON) or `unterminated` (all but its newline); what is
appended after an unterminated line makes a `garbled` one. A journal with a truncated or a
garbled line is not `Readable`, and no process resumes it; the properties say what holds
as long as it is readable.

Reading the code for this module showed two things that differ from
`docs/benchmarking.md` and that no run is about. Line 58 says that a run ended by SIGINT
leaves no normal CSV; the code decides by `complete` (`run_llama_bench.py:665`), so a SIGINT
after the last record still writes one. Line 46 says that resume rejects truncated JSONL;
`read_jsonl` uses `splitlines` (line 479), so an unterminated line is accepted as a record,
and the next append garbles it: a run can then end as "completed" with a journal that cannot
be read again. `TableFollowsJournal` has `Readable` among its premises for that reason.

Left out: loss of power (fsync), environment metadata, parsing, elapsed times, and a
second process in the same directory.

### DownloadModel

A file is its content, a sequence of chunks of some version; equality stands for equal size
and SHA-256. The answer of the server is chosen when the request is made: with `206` it sends the
rest, with `416` nothing if there is no rest, otherwise everything; it may announce the
length or not. What the code takes for the end of a stream may be an early end
(`StreamEndsEarly`). `Kill` may hit any step and leaves a cut sidecar if it hits
`WriteMetadata`, which writes in place. `Removed` is a user who deletes the model file.

| code | module |
|---|---|
| `load_model_config` | `ValidConfig` (`AllFields`, `DistinctIds`, `Comparable`) |
| the call in `download_config`, `main` with two names | `JobsOf` and `ItemJob`, `NamedJob` |
| `main` | `StartConfig`, `StartNamed`, `End` |
| `source_url` | `Locatable`, `RefuseUrl` |
| `metadata_for` | `Sidecar`: an identity and a content |
| `download_model`, a model that exists | `UseExisting` with `Acceptable` |
| `download_model`, a request and its stream | `Connect`, `ReadChunk`, `StreamEnds`, `CheckAndRename`, `Verify`, `WriteMetadata` |

The program runs a *call*, the sequence of the jobs of a configuration or a single one by
name, and the first job that fails ends it. An item of a configuration is a record with the
fields that are required; `base` stands for the repository, base model and parameter
count, which the code only compares, and `Contents` says which versions a file may have at
a revision: a branch moves, a commit does not. The partial and the final file are named
after the file only, so downloads at two revisions, by name, and by two items of a
configuration meet in the same files, and only the sidecar tells them apart.

Without a checksum a download can be reported as done that consists of two versions (a branch
such as `main` changed before it was resumed, or the partial file is of another revision)
or, if the server announces no length, that ends early. `PartialInOrder` is what still
holds then, and `DoneIsVerified` shows that a checksum closes the gap.

A consequence of the identity check: the two commands of `docs/model_setup.md` for the same
Q4_K_M file, by name and by `--config`, refuse each other's model, because they give it
different identities; the user has to remove it, and then downloads it again.
`EstablishedStays` shows that the refusal is complete.

Left out: two processes that download at the same time.

### BuildVerification

An executable is known by what happens when it is looked up and run (its condition), and
`Rebuild` may change that between any two steps of the script: `Look` (`is_file`), `Access`
(`os.access`), `Launch` (the start, or an `OSError`), and the end of the wait
(`ChildReturns`, `ChildTimesOut`). The child is what was started, whatever the file is by
then. `observed` is a history variable for the properties. A child may always exceed its
time limit, however long that is. Output that is not text in the locale's encoding ends the
script with a traceback (`ChildIsGarbled`): `subprocess.run` decodes, and only `OSError`
and `TimeoutExpired` are caught, so the executables after it are not examined; exit code 1
is right all the same. Left out: the printed texts.

### PerfProbe

An answer of perf is an exit code, negative if a signal ended it, and the set of the phrases
that the classification looks for; phrases with one meaning are one. `HostChanges` replaces all of perf's answers, or
perf, at any time, also between two events of one report, and `hears` is what the running
child will answer, if it does not hang. The reports are written one after the other and
in place; `ProberStops` is a kill or an `OSError`, and cuts the file that is being written.
A stop between the two leaves the JSON of this probe beside the Markdown of an earlier one;
`ReportsAgree` says that it is never the other way round, and that both are of the last probe
when that ended by itself. Each row keeps, as history, what was heard. The test for `<not supported>` (line 29) cannot
be reached, because `not supported` is tested before; `Classify` has one phrase for both. If
perf disappears between the look-up and an event, or a path given with `--perf` does not
exist, the script ends with a traceback and writes nothing, although a report on the rows so
far, or on a missing perf, would be possible.

### HostChecks

The two scripts share no state: a behaviour is a run of one of them, again and again, so that
their fairness and termination are checked in one place without the product of their states.

## 3. Runs

| run | question | bounds |
|---|---|---|
| `kv_pool` | does the manager keep its invariants, LRU and last-resort eviction under shortage, do blocks hold the prompt of their readers, and does an idle pool always admit? | 3 requests, 3 blocks of 2 tokens, exact prompts of 2, 3 and 5 tokens with and without a common prefix, count-only prompts of 0 and 3, any set of protected cached blocks, epochs to 5, one failure |
| `kv_eviction` | can a legal call end in an internal error? (violated) | 2 requests |
| `kv_collision` | is a hit a hit on the same prefix under hash collisions? (violated) | constant hash |
| `scheduler` | order, agreement of views, freshness, capacity and finality, with counters and times that reach their limits | 3 requests, 2 slots, arrivals 0..2, `IntMax` = 2, `CounterLimit` = 8 |
| `engine` | internal checks, records, drain, token times, termination, refinement of `FcfsServer`, exact arithmetic for every pair of operands of the machine (24 integers), and overflows that are real | 3 requests, each one of three submissions: short, long, and without output, at times 0 and 2; `IntMax` = 11, so that two of them fit and a third may overflow |
| `batching_decode_first` | do blocks and requests agree, why may the engine fail, are residents safe from prefills? | 3 requests, 3 blocks of 2 tokens, batches of 4 tokens and 2 sequences; one exact prompt, so that twins arise, and one count-only of 3 tokens; outputs of 0 or 3 tokens |
| `batching_fcfs_mixed` | statistics, order among equals, idle time | 3 requests, arrivals {1, 3}, nested exact prompts of 2 and 5 tokens, batches of 5 tokens, `CounterLimit` = 12 |
| `batching_limits` | types, drain, stalls and termination at the limits | 2 requests, 2 blocks, batches of 3 tokens, prompts of 1, 2, 3 and 5 tokens, `IntMax` = 8, `CounterLimit` = 10, epochs to 6 |
| `bench` | do journal, summary and table agree through stops, resumption, retry and a forced change of plan, and does a resumed run complete? | plans of 2 invocations (one warm-up), 3 ids, 5 records, 2 stops, 2 outcomes |
| `download` | checksums, sidecars, identities and offsets | two files; one by name (two versions, of 3 and 2 chunks) and in configurations; a good configuration, one that names a file twice, one of models that cannot be compared, one without a field, one with a path as a name; 3 faults; Range or not, lengths or not, with and without a checksum |
| `download_range` | does repeating the call end, with a server that honours Range? (violated) | one version of 3 chunks, 1 fault |
| `host` | do verdicts, classes and reports hold while the host changes, and do the scripts end? | 2 executables in every condition, 2 changes of the build; 2 events with 7 answers, 2 runs of the probe, 1 change of the host |

The bounds are enough for the interesting cases: three blocks and three requests are
the smallest pool in which one request shares, one duplicates and one evicts; an
injective hash over two chunks and chains of length two has a parent and a child;
three requests give a server that is busy, a queue with two entries and a tie. The
batching runs reach prefix hits, evictions by prefills and by decodes, every reason for
deferral, stalls with a resident and with two that wait for each other's blocks
(`batching_limits`), stalls with a future arrival and, with a prompt larger than the pool,
stalls without residents; `batching_decode_first` reaches the failure by a
duplicate (the first finding, seen from the engine), `batching_limits` the failure by an
unmatched long prompt, and all three the overflow of a counter.

A benchmark run needs one failed and retried invocation, one that is not reached, and a
second stop during the resumption; a download needs an offset that is neither 0 nor the
end, a second version that is shorter, and a fault in the resumed call; and two calls for
one file with different identities. The host checks need one thing that changes before and
one that changes after it was examined, and a second probe over the files of a first that
was stopped.

Deadlock checking is off for the engines, because a simulation whose queue is empty and an
engine that has failed have ended, for the benchmark run, because nobody resumes a journal
that cannot be read, and for the host checks, whose number of runs is bounded. The engine's
`Spec` has weak fairness on `RunNextTimestamp`: its client keeps running the simulation, as
`run()` does with its `while (run_next_timestamp())` loop. `Fairness` of the continuous
engine is weak fairness on `RunNextIteration` with its enabling condition written out (TLC
evaluates a nested plan under ENABLED without sharing, which takes too long); the client of
its `run()` gives up at a stall, and so does `EveryRequestEnds`. Submission and cancellation
are never fair. In `HostChecks` a script goes on (weak fairness of its steps); that it ends
follows because a child that hangs is killed at its time limit. In `BenchRun` and
`DownloadModel` a process that is not stopped goes on (weak fairness of its steps), stops
are bounded, and somebody calls again: with `--resume` and the same configuration until the
run is completed, or with the same model (weak fairness). In the latter somebody also
removes a file that is rejected again and again (strong fairness, because each call in
between disables it): the error message asks for it, and a sidecar that was cut needs it
too. No passing run shows that calls succeed again after a cut sidecar: the property that
would, `EventuallyDownloaded`, is violated in `download_range` for another reason. The other specifications have no liveness properties: a manager and a scheduler do only
what they are told.

### Findings

* `kv_eviction`: two requests compute the same block; the first publishes it and becomes
  its canonical owner, the second keeps a private duplicate. Once the first is
  released, its block is evictable; evicting it makes
  `validate_invariants` (`kv_cache.cpp:833`) false for the second, and the call throws
  `std::logic_error`. `kv_pool` shows with `LogicErrorsAreExplained` that this is the only
  way to an invalid copy, and `OnlyExplainedLogicErrors` proves it in general. The other
  errors of this type are refusals of what the caller passed (`stale`, `misplanned`).
* `kv_collision`: a key names its parent by a 64-bit hash, so two different first blocks
  with one hash share their children: a request may reuse KV entries of another prompt.
* `download_range`: `docs/model_setup.md` says that downloads resume; one that was stopped
  between the last byte and the rename asks for a range beyond the end, gets 416, and fails
  each time until the `.part` file is removed.

## 4. Proofs

What a run shows of one instance the theorems below show for every value of the constants.
Each module states its inductive invariant at the top, and proves that it holds
initially, that every action keeps it, and that it implies the property. The assumptions
are those that the modules state about their constants, which TLC evaluates in the runs:
ranges and types (`KVAssumption`, `PromptAssumption`, `SchedulerAssumption`,
`MaxTimeAssumption`, `IntMaxAssumption`, `BackendAssumption`, `EngineAssumption`,
`BatchingAssumption`, `BenchAssumption`, `DownloadAssumption`, `BuildAssumption`, `ProbeAssumption`), and that
`None` and `Overflow` are not values of the types they are added to (`NoneAssumption`,
`EntryAssumption`, `JobAssumption`, `NoRequestAssumption`, `OverflowAssumption`). Five theorems
have a hypothesis of their own: `PrefixIsFaithful`, `OnlyExplainedLogicErrors` and
`IdlePoolAdmitsAll` of the KV manager and `FailuresExplained` of the batching engine, about the
hashes of the prompts, and `DecodesGoFirst` of the batching engine, about the policy.

### KV-cache manager: for every pool, block size, set of requests and prompts

* `InductiveInvariant`: the manager is well typed and `Valid`, and so are the replies
  and the history. It is the strengthening the others need: `TypeOK` alone is
  not inductive (a decrement of a reference count stays in `Nat` only because the count
  equals the number of holders). `TypeCorrect`: `Spec => []TypeOK`.
* `HeldBlocksStable`: while a request lives its table only grows at the end and nobody
  rewrites its blocks. `SharedBlocksReadOnly`: tokens are appended in place only to blocks
  with one reader and no key.
* `EvictionLastResort`: a cached block is given up only by an explicit eviction or by a call that
  uses up the free ones, and the least recently used go first. The model takes the first
  n blocks of an order by their ranks (the number of blocks before them), and the lemmas count:
  there are as many first blocks as are needed, and a rank says who is older.
* `PublishedPromptFound`: a published prompt is found whole, whatever was evicted since.
* `PrefixIsFaithful`: `PrefixFidelity`, under the hypothesis `NoCollision`: prefixes of
  prompts that have the same hash are equal. The hypothesis is needed (`kv_collision`
  shows the violation without it) and can be met: `InjectiveHashDoesNotCollide` proves it for
  every injective hash that never yields the root, as the one of `kv_pool`. Its
  invariant adds to `IInv` that the content of a block with a key is what the key says
  (`KeysAreTrue`) and that the blocks of a request hold its prompt (`PromptsAreTheirs`).
* `OnlyExplainedLogicErrors`: no copy is rejected with `std::logic_error`, except in a call
  made while a live request holds a private duplicate of a cached block (the first finding);
  and no plan of `allocate_prompt_with_prefix` is refused, except where the prompt needs some,
  but not all, of the cached blocks it does not share: only there protecting blocks makes a
  difference (`ForcedPlansAgree`). Either error changes nothing. Refused stale lookups are
  not part of the claim. This is the claim that the mutators are *correct*: each
  computes a copy that passes every check of `validate_invariants`. The hypothesis
  `DistinctKeys` says that the blocks of ONE prompt have different keys (it follows from
  `NoCollision`, by `NoCollisionGivesDistinctKeys`); a prompt that collides with itself
  is looked up as the same block twice, and the copy is rejected.
* `IdlePoolAdmitsAll`: with no live request a prompt that fits the pool is admitted, or the
  epoch is at its limit, for a caller that protects no block. The free and the cached blocks are then all the blocks, and what a
  lookup matches is needed neither free nor evicted. It supposes that prefix caching is
  enabled, without which the code refuses `allocate_prompt_with_prefix` at once, and
  `DistinctKeys`.

`KVManager_proof` has one lemma per mutator: the copy it works on is a *draft* (typed
except for what `Commit` tests), hence the reply of `Commit` is a valid manager.
`validate_invariants` being a guard of every commit, validity of the state is by
construction; what these proofs establish is that the drafts are typed and
that a valid state makes the steps safe for the other readers (`ClaimsAreSafe`,
`ReclaimsAreSafe`, `AppendsAreSafe`).

That the guard is *true* is a second lemma per mutator, named after it with `IsValid`: how the
call can end when no live request holds a duplicate. Their parts are `EvictionIsValid` (what
an eviction leaves is valid unless it takes the canonical block of a duplicate),
`JoinIsValid` (a request that acquires cached blocks and claims free ones),
`ExtendedTableIsValid` and `TokenInPlaceIsValid` (decoding), `ReleaseIsValid` and
`PublicationIsValid`. A copy counts its tokens incrementally and `validate_invariants` sums
them over all blocks, hence the lemmas about sums (`SumUnion`, `TokensSplit`, `TokensOfIds`);
those rest on `SumTable`, by which the fold of the community modules agrees with a
table of the sums of all subsets.
They also need finitely many live requests, since a reference count is the cardinality of
the set of holders; that part of the invariant (`EndsInv`) holds because a call admits at most
one request.

### Scheduler: for every capacity, width of the counters and sequence of calls

* `TypesKept`, `ViewsAgreeing`: the waiting set, the counters and the epoch agree with the
  entries. For the total waiting time this needs a count of its own: it is the
  cardinality of the set of all pairs of a request and a microsecond it spent in the queue.
* `FreshDecisions`, `InOrderOfArrival`: a decision is accepted only by the scheduler that made
  it, and starts the first of those that wait. The invariant is that the epoch tells
  (`EpochTells`): every notification moves it, so an equal epoch means an equal scheduler.
* `EndsAreFinal`: nothing touches the entry of a request that has ended.

### Discrete-event engine: for every submission, cost and width of the numbers

* `RecordsAgreeing`, `TypesKept`. The invariant is stated request by request: which event of
  it is in the queue (`EventKept`), and what its state says about that event, the
  scheduler's entry and the active request (`StateKept`). It is joined by the uniqueness of the
  sequence numbers (`Sequenced`) and by `WorkConserved` between two calls. The
  consequence to note is that no consistency check of the engine can throw.
* `BackendExact`: checked addition and multiplication and the estimates of the backend are
  exact for every operand: a result is the mathematical one, or that one does not fit. The
  multiplication tests by dividing; `DivisionTells` is the lemma behind it.
* `TokensAsPlanned`: every token comes when the cost model says. A second invariant, `TimeInv`,
  has the time of each pending event as a function of the admission and the number of tokens
  (`DueTime`), and the tokens that have come before the clock.
* `CostsAreTrue`: a simulation fails with an overflow only because a number that the call
  needs is at its limit or does not fit. Each handler has its reasons to fail as part of its
  lemma.
* `EngineIsServer`: `Spec => ImplementsServer`. The steps map as follows, and each failing call
  is a stutter.

  | engine | server |
  |---|---|
  | `SubmitRequest` | `Submit` |
  | `Cancel` | `Cancel`, with or without a start of the next |
  | `BeginTimestamp` | `Advance`, or a stutter if the time is the same |
  | `ProcessTop` | `Complete` at the last event of a request, else a stutter |
  | `EndTimestamp` | `Start`, or a stutter |

  That the clock does not pass the end of a service is `ServedIsBounded`, that it
  does not pass an arrival while the server is idle follows from `WorkConserved`, and that
  the scheduler's queue is the server's (when nothing is due) is `ArrivedIsKnown`.

### Continuous batching engine: for every pool, policy, budget, cost and workload

* `InductiveInvariant`: the engine is typed, its manager `Valid`, exactly the decoding
  requests are live in it (`Sound`) and hold as many tokens as they have (`Holds`), and the
  record of each request fits its phase (`Lifecycle`). `TypeCorrect`,
  `ManagerMatchesProgress` and `OutcomesAreTrue` follow: an iteration that selects nobody has
  put everybody off for want of blocks (`StallChangesNothing`), so that a decoding request
  finds neither a free nor a cached block (`StallIsHeld`).
* `FailuresExplained`: no plan conflicts with itself (`Consistent`, `WellFormed`), no replay
  takes other blocks than planned, no lifecycle check of `prepare_request_updates` fires, and no
  lookup is stale. What is left are overflows, prompts larger than a batch, and the
  duplicates of the first finding. The hypothesis `PromptsAreDistinct` says of each prompt
  what `DistinctKeys` says of one, and is needed for the same reason.
* `StatisticsAccountForRequests`: the sums over requests, however the work was cached,
  deferred, completed or cancelled, are what the counters say.
* `TheClockWaitsForWork`: an iteration without work waits for the first arrival only, and
  only if everybody who has arrived has ended.
* `DecodesGoFirst`: under `DecodeFirst` (the hypothesis of the theorem) the requests that get a
  token are those of the plan for the decoding requests alone. Both plans are tables over
  orders of which one is a prefix of the other (`DecodesComeFirst`), so they agree that far
  (`TablesAgree`), and what comes after adds prefills only (`DecodesAreSettled`).
* `EqualPromptsKeepTheirOrder`: under either policy, of two requests with the same prompt the
  later one is not prefilled without the earlier one. As the plan grows the scratch manager
  only *drains* (`Drains`): blocks in use stay so and no key is added, so a lookup finds a prefix of
  what it found before (`LookupShrinks`), and each block that it no longer finds is one more
  to allocate while at most one more is available (`SpareShrinks`). Hence the budgets and the blocks that
  did not suffice for the first do not suffice for the second (`RoomShrinks`), which is put off
  as well. A second invariant, `ArrivedAreDue`, has both take part in
  the same iteration.

The engine's invariant says nothing about a plan, since a plan lives within one step. Its proof
rests on an invariant of the plan under construction, `PlanInv`, which is kept by each
`Visit` and read off the finished plan:

1. The calls of the manager, once more: what `AllocatePrompt`, `AllocatePromptWithPrefix` and
   `AppendDecodeToken` do to the tables, the free blocks and the index when they succeed (`Serves`),
   and that the call served with exact ids takes the blocks that `Reserve` chose (the
   least recently used ones, then the lowest free ones).
2. `PlanInv`: the scratch manager is valid and has the plan's prefills as live requests
   (`Scratch`), requests outside the plan are as before (`Others`), each item was carried out
   and no block has two roles (`Entries`), the budgets hold, each candidate visited is in the plan
   or deferred, once (`Named`), and *replaying the items on the engine's manager gives
   the scratch manager* (`Replayed`). The last part is why a replay cannot differ.
3. After the replay, publications and releases fail for an overflow only: they touch blocks
   of the plan's own requests (`Progress`, kept by each round of the loops).
4. With that an iteration commits or fails with a reason (`Trouble`); a committed one is
   described by `Advanced`, from which the invariant and the properties follow.

Tables are recursive functions over the places of a sequence; that they exist is proved by
induction over a *set* of numbers (`TableExists`), since the library's induction
theorems take operators as parameters. The same holds for ranks (`InOrder`), by which a sorted
sequence lists its set. `NoRequestAssumption` says that `None` is neither a request nor a time.

### Python tools: for every input, number of processes, fault and change around them

* Benchmark run: `SummaryIsTrue`, `SuccessStays`, `TableIsTrue`, `TypesKept`. The invariant follows
  journal and summary in lockstep: what the running process believes is the readable journal,
  and the summary is at most one record behind.
* Download: `PartialsInOrder`, `DoneVerified`, `SidecarsTrue`, `EstablishedKept`. The invariant
  says what each program point may rely on, and that the earlier items of a configuration stay
  as they are while a later one is downloaded (`EarlierKept`).
* Host checks: `VerdictTrue`, `ClassesTrue`, `ReportsAgreeing`. For the verification the
  invariant is about the executables examined so far, for the probe about the rows so far and
  the generation of the two files: `ReportsAgreeing` does not say that they are one report
  after a stop, only which of the two may be older.

### What the proofs corrected

`CostsAreExact` used to allow an overflow only when a counter was at its limit. Its proof
does not go through for cancellations: one that starts the next request takes two epochs,
so it fails already when one is left; nor for a prompt length beyond the range whose rate is
zero, which the code refuses before it multiplies. The bounds of the run had hidden
both. `TokensOnSchedule` was stated with the estimates of the model, which may be `Overflow`,
and is stated with the mathematical costs now.

### Model-checked only

Liveness (`RunCompletes`, `EveryRequestEnds` of both engines, `ChecksEnd`): temporal reasoning
under fairness and ENABLED is out of the prover's reach. Every other property that a passing run
checks is stated by a theorem.

## 5. Plan

1. `NativeRecords`: the trace of the continuous engine as `serving_benchmark_runner.cpp`
   prints it, against the conservation checks of `validate_native_records`.
2. An abstract batching server that `ContinuousBatching` implements (residents and tokens,
   no blocks), and an abstract block pool refined by `KVCache`.

### Not modelled

Plots, reports and kernels (floating point), argument parsing, and the analysis scripts (pure
functions over recorded data). `run_cpu_profiling.py` and `run_quantization_quality.py` append
to a journal and resume as `run_llama_bench.py` does, with less: reading them showed that the
former measures after a resumption even if a warm-up had failed, that a record appended after
a line that was cut is lost although the pass ends with 0, and that its `probe_events` takes
an event for supported if perf exits 0, also when perf says `<not supported>`, while
`probe_perf_events.py` looks at the text first. They are the next candidates for a module
beside `BenchRun`.
