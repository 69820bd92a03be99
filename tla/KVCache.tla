------------------------------- MODULE KVCache -------------------------------
(***************************************************************************)
(* Clients of one KVCacheManager: requests are admitted with a count-only  *)
(* or an exact prompt, publish the full blocks they computed, decode, and  *)
(* are released; cached blocks may be evicted explicitly.  Calls are       *)
(* synchronous, so one action is one public call, whichever way it ends.   *)
(***************************************************************************)
EXTENDS KVManager

CONSTANTS
  Prompts,      \* exact prompts, [chunks : Seq(Chunks), tail : 0 .. BlockSize - 1]
  CountPrompts  \* lengths of count-only prompts

ASSUME PromptAssumption ==
  /\ Prompts \subseteq [chunks : Seq(Chunks), tail : 0 .. BlockSize - 1]
  /\ CountPrompts \subseteq Nat

VARIABLES
  kv,       \* the manager
  outcome,  \* how the last call ended
  written   \* history: the prompt chunks whose KV entries a block holds, from
            \* the first chunk of the prompt on (attention reads all of them)

vars == <<kv, outcome, written>>

Outcomes == {"ok", "capacity", "insufficient", "overflow", "stale", "misplanned",
             "logic_error"}

Init ==
  /\ kv = EmptyManager
  /\ outcome = "ok"
  /\ written = [b \in Block |-> <<>>]

Take(reply) == kv' = reply.kv /\ outcome' = reply.outcome

\* The prefill of r writes the full blocks that r did not find in the cache.
WrittenBy(m, r) ==
  LET q == m.prov[r]
      computed(b) == {i \in (q.matched + 1) .. Len(q.chunks) : m.tables[r][i] = b}
  IN  [b \in Block |-> IF computed(b) = {} THEN written[b]
                       ELSE SubSeq(q.chunks, 1, CHOOSE i \in computed(b) : TRUE)]

AdmitCountOnly(r, tokens) ==
  /\ r \notin Live(kv)
  /\ Take(AllocatePrompt(kv, r, tokens))
  /\ UNCHANGED written

\* The client passes the lookup it made; one made before the cache changed is
\* either what a new lookup returns or is refused.  It may protect cached blocks.
AdmitExact(r, prompt, supplied, protected) ==
  /\ PrefixEnabled
  /\ r \notin Live(kv)
  /\ Take(AllocatePromptProtecting(kv, r, prompt, supplied, protected))
  /\ written' = IF r \in Live(kv') THEN WrittenBy(kv', r) ELSE written

Publish(r) ==
  /\ r \in Live(kv)
  /\ kv.prov[r].exact /\ kv.prov[r].matched < Len(kv.prov[r].chunks)
  /\ Take(InsertCompletedPromptBlocks(kv, r))
  /\ UNCHANGED written

Decode(r) ==
  /\ r \in Live(kv)
  /\ Take(AppendDecodeToken(kv, r))
  /\ UNCHANGED written

Release(r) ==
  /\ r \in Live(kv)
  /\ Take(ReleaseRequest(kv, r))
  /\ UNCHANGED written

Evict(count) ==
  /\ Take(EvictUnusedBlocks(kv, count))
  /\ UNCHANGED written

Next ==
  \/ \E r \in Requests, tokens \in CountPrompts : AdmitCountOnly(r, tokens)
  \/ \E r \in Requests, prompt \in Prompts :
       \E supplied \in {Lookup(kv, prompt.chunks), <<>>}, protected \in SUBSET Cached(kv) :
         AdmitExact(r, prompt, supplied, protected)
  \/ \E r \in Requests : Publish(r) \/ Decode(r) \/ Release(r)
  \/ \E count \in 1 .. NumBlocks : Evict(count)

Spec == Init /\ [][Next]_vars

-----------------------------------------------------------------------------
(* Properties *)

TypeOK ==
  /\ kv \in Manager
  /\ outcome \in Outcomes
  /\ written \in [Block -> Seq(Chunks)]

\* A full prompt block holds the KV entries of exactly this request's prompt up
\* to that block, whoever computed it: reuse through the prefix index never
\* hands a request somebody else's context.
PrefixFidelity ==
  \A r \in Live(kv) : LET q == kv.prov[r] IN
    \A i \in 1 .. Len(q.chunks) : written[kv.tables[r][i]] = SubSeq(q.chunks, 1, i)

\* The in-place mutators keep every invariant that validate_invariants checks,
\* except that an eviction may take the canonical block a live request relies
\* on: the call then ends in std::logic_error.  The plan of an admission that
\* protects cached blocks is refused only where blocks must go and not all need to.
HasEvictionChoice(m, prompt) ==
  LET matched == Lookup(m, prompt.chunks)
      short == Shortage(m, BlocksRequired(Total(prompt) - Len(matched) * BlockSize))
  IN  short > 0 /\ short < Cardinality(Cached(m) \ Range(matched))
LogicErrorsAreExplained ==
  /\ outcome = "logic_error" => \E b \in Cached(kv) : DuplicateHolder(kv, b)
  /\ outcome = "misplanned" => \E prompt \in Prompts : HasEvictionChoice(kv, prompt)

\* A live request that has published its prompt is found by a lookup of that
\* prompt, whole, however the cache was evicted since.
PublishedPromptIsFound ==
  \A r \in Live(kv) :
    kv.prov[r].published => Len(Lookup(kv, kv.prov[r].chunks)) = Len(kv.prov[r].chunks)

\* While a request lives, its table only grows at the end, and what its prompt
\* blocks hold is not rewritten by anybody.
HeldBlocksAreStable ==
  [][\A r \in Live(kv) \cap Live(kv') :
       /\ IsPrefix(kv.tables[r], kv'.tables[r])
       /\ \A i \in DOMAIN kv.tables[r] : LET b == kv.tables[r][i] IN
            /\ written'[b] = written[b]
            /\ kv'.blocks[b].valid >= kv.blocks[b].valid]_vars

\* Tokens are appended in place only to a block with one reader and no key.
SharedBlocksAreReadOnly ==
  [][\A b \in Block :
       kv'.blocks[b].valid > kv.blocks[b].valid /\ kv.blocks[b].valid > 0
         => Cardinality(Holders(kv, b)) = 1 /\ kv.blocks[b].key = None]_vars

\* A cached block disappears only under pressure (an admission or a decode that
\* uses up every free block) or by an explicit eviction, and the least recently
\* used go first.
EvictedBy == {b \in Cached(kv) : kv'.blocks[b].key # kv.blocks[b].key}
EvictionIsLastResort ==
  [][EvictedBy # {} =>
       /\ \/ kv'.free = {}
          \/ kv'.tables = kv.tables
       /\ \A b \in EvictedBy, c \in Cached(kv) \cap Cached(kv') : Older(kv, b, c)]_vars

\* Cached blocks never wedge the pool: with no live request, every prompt that
\* fits the pool is admitted (or the epoch counter is exhausted) by a caller that
\* protects no block.
IdlePoolAdmits ==
  Live(kv) = {} =>
    \A r \in Requests, prompt \in Prompts :
      BlocksRequired(Total(prompt)) <= NumBlocks =>
        AllocatePromptWithPrefix(kv, r, prompt, Lookup(kv, prompt.chunks)).outcome
          \in {"ok", "overflow"}

\* prefix_cache.md: evictable blocks can always be evicted, and no legal call
\* ends in an internal error.  (A refused plan, "misplanned", is not counted.)
NoLogicError == outcome # "logic_error"

=============================================================================
