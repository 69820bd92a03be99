------------------------------ MODULE KVManager ------------------------------
(***************************************************************************)
(* The KV-cache manager of llm_lab::serving (src/serving/kv_cache.cpp) as  *)
(* operations on a manager VALUE.  The code copies the manager, works on   *)
(* the copy, validates it and swaps it in; an operation here is therefore  *)
(* a function from a manager value to a reply                              *)
(*                                                                         *)
(*     [outcome |-> how the call ended, kv |-> the manager afterwards]     *)
(*                                                                         *)
(* so that the same operators serve the public interface (KVCache) and a   *)
(* planner that runs ahead on a scratch copy.                              *)
(*                                                                         *)
(* A prompt is a sequence of chunks (the tokens of one full block) and a   *)
(* tail length: the tokens of a partial block are never compared.          *)
(* Prefix-cache metrics and the peak statistic are left out.               *)
(***************************************************************************)
EXTENDS Integers, FiniteSets, Sequences, SequencesExt

CONSTANTS
  NumBlocks,      \* config.total_num_blocks
  BlockSize,      \* config.block_size_tokens
  Requests,       \* request ids
  Chunks,         \* what a full block of prompt tokens can contain
  HashValues,     \* the range of hash_function_
  RootHash,       \* kPrefixCacheRootHash
  Hash,           \* hash_function_: Hash[<<parent hash, chunk>>]
  PrefixEnabled,  \* prefix_config.enabled
  EpochLimit,     \* the largest access epoch (2^64-1 in the code)
  FailureLimit,   \* the largest allocation-failure count (2^64-1 in the code)
  None            \* std::nullopt

ASSUME KVAssumption ==
  /\ NumBlocks \in Nat \ {0}
  /\ BlockSize \in Nat \ {0}
  /\ RootHash \in HashValues
  /\ Hash \in [HashValues \X Chunks -> HashValues]
  /\ PrefixEnabled \in BOOLEAN
  /\ EpochLimit \in Nat
  /\ FailureLimit \in Nat

Block == 0 .. NumBlocks - 1

-----------------------------------------------------------------------------
(* Keys, prompts, blocks and managers *)

Key == [parent : HashValues, chunk : Chunks]
HashOf(key) == Hash[<<key.parent, key.chunk>>]

\* The parent hash of the (i+1)-th block of a prompt.
ParentHash(chunks) ==
  LET h[i \in 0 .. Len(chunks)] ==
        IF i = 0 THEN RootHash ELSE Hash[<<h[i - 1], chunks[i]>>]
  IN  h

\* Defect: the parent is not part of the key.
KeyAtWithoutParent(chunks, i) == [parent |-> RootHash, chunk |-> chunks[i]]
KeyAt(chunks, i) == [parent |-> ParentHash(chunks)[i - 1], chunk |-> chunks[i]]

Total(prompt) == Len(prompt.chunks) * BlockSize + prompt.tail

BlocksRequired(tokens) ==
  tokens \div BlockSize + (IF tokens % BlockSize = 0 THEN 0 ELSE 1)

FullProvenance  == {"SharedPromptFull", "ComputedPromptFull"}
BlockProvenance ==
  FullProvenance \cup {"PrivatePromptTail", "PrivatePromptCountOnly", "PrivateDecode"}

BlockMetadata ==
  [ state : {"Free", "InUse", "Cached"},
    owner : Requests \cup {None},
    refs  : Nat,                            \* reference_count
    valid : 0 .. BlockSize,                 \* valid_token_count
    epoch : 0 .. EpochLimit,                \* last_access_epoch
    key   : Key \cup {None},                \* prefix_key
    prov  : BlockProvenance \cup {None} ]   \* provenance

FreeBlock == [ state |-> "Free", owner |-> None, refs |-> 0, valid |-> 0,
               epoch |-> 0, key |-> None, prov |-> None ]

\* RequestKVPromptProvenance: the positions it stores are functions of these.
RequestProvenance ==
  [ exact     : BOOLEAN,        \* exact_prompt_tokens present (= publication_eligible)
    chunks    : Seq(Chunks),    \* the full blocks of the exact prompt
    total     : Nat,            \* total_prompt_token_count
    matched   : Nat,            \* matched_shared_prefix_blocks (= computed_full_begin)
    published : BOOLEAN ]       \* publication_completed

ASSUME NoneAssumption ==
  /\ None \notin Requests /\ None \notin RequestProvenance
  /\ None \notin Key /\ None \notin BlockProvenance

\* decode_block_start_position
PromptBlocks(q) == BlocksRequired(q.total)

Manager ==
  [ blocks      : [Block -> BlockMetadata],
    free        : SUBSET Block,
    tables      : [Requests -> Seq(Block)],
    prov        : [Requests -> RequestProvenance \cup {None}],
    index       : [HashValues -> SUBSET Block],   \* prefix_index_
    represented : Nat,
    failures    : 0 .. FailureLimit,
    epoch       : 0 .. EpochLimit ]

EmptyManager ==
  [ blocks      |-> [b \in Block |-> FreeBlock],
    free        |-> Block,
    tables      |-> [r \in Requests |-> <<>>],
    prov        |-> [r \in Requests |-> None],
    index       |-> [h \in HashValues |-> {}],
    represented |-> 0,
    failures    |-> 0,
    epoch       |-> 0 ]

Live(m) == {r \in Requests : m.prov[r] # None}
Cached(m) == {b \in Block : m.blocks[b].state = "Cached"}
Holders(m, b) == {r \in Live(m) : b \in Range(m.tables[r])}
TokensIn(m, S) == SumFunctionOnSet([b \in Block |-> m.blocks[b].valid], S)

-----------------------------------------------------------------------------
(* Queries *)

\* The canonical blocks a bucket scan finds for a key.
Matches(m, key) == {b \in m.index[HashOf(key)] : m.blocks[b].key = key}

\* find_longest_cached_prefix: the physical blocks of the longest cached prefix.
Lookup(m, chunks) ==
  LET hit(i) == Matches(m, KeyAt(chunks, i)) # {}
      n == Cardinality({i \in 1 .. Len(chunks) : \A j \in 1 .. i : hit(j)})
  IN  IF PrefixEnabled
      THEN [i \in 1 .. n |-> Min(Matches(m, KeyAt(chunks, i)))]
      ELSE <<>>

\* eligible_eviction_order: least recently used first, ties by block id.
Older(m, a, b) ==
  \/ m.blocks[a].epoch < m.blocks[b].epoch
  \/ m.blocks[a].epoch = m.blocks[b].epoch /\ a < b

\* Defect: the comparison is the wrong way round.
MostRecentlyUsed(m, S, n) == {b \in S : Cardinality({a \in S : Older(m, b, a)}) < n}
LeastRecentlyUsed(m, S, n) == {b \in S : Cardinality({a \in S : Older(m, a, b)}) < n}
Lowest(S, n)  == {b \in S : Cardinality({a \in S : a < b}) < n}
NthLowest(S, i) == CHOOSE b \in S : Cardinality({a \in S : a < b}) = i - 1
Ascending(S)  == [i \in 1 .. Cardinality(S) |-> NthLowest(S, i)]

\* Defect: free blocks are not counted.
ShortageIgnoringFree(m, required) == required

\* How many cached blocks must go before `required` blocks are available.
Shortage(m, required) ==
  IF required > Cardinality(m.free) THEN required - Cardinality(m.free) ELSE 0

\* decode_requires_new_block: a full, shared or published block is never written.
DecodeRequiresNewBlock(m, r) ==
  \/ m.tables[r] = <<>>
  \/ LET last == m.blocks[Last(m.tables[r])]
     IN  last.key # None \/ last.refs > 1 \/ last.valid = BlockSize

-----------------------------------------------------------------------------
(* validate_invariants *)

\* How many of `tokens` tokens the i-th of their blocks holds.
TokensAt(tokens, i) ==
  IF tokens - (i - 1) * BlockSize < BlockSize
  THEN tokens - (i - 1) * BlockSize ELSE BlockSize

\* A table against the provenance its request recorded at admission.
TableValid(m, r) ==
  LET q == m.prov[r]
      t == m.tables[r]
      full == Len(q.chunks)
      block(i) == m.blocks[t[i]]
  IN  /\ Range(t) \subseteq Block /\ IsInjective(t)
      /\ PromptBlocks(q) <= Len(t)
      /\ q.matched <= full
      /\ q.published => q.matched < full
      /\ IF q.exact THEN PrefixEnabled /\ full = q.total \div BlockSize
                    ELSE full = 0 /\ ~q.published
      /\ \A i \in DOMAIN t :
           IF i <= full THEN block(i).prov \in FullProvenance
           ELSE IF i <= PromptBlocks(q)
           THEN /\ block(i).prov = IF q.exact THEN "PrivatePromptTail"
                                             ELSE "PrivatePromptCountOnly"
                /\ block(i).valid >= TokensAt(q.total, i)
           ELSE block(i).prov = "PrivateDecode"

\* Defect: the canonical copy of a published key is not looked for.
KeysValidWithoutCanonical(m, r) ==
  LET q == m.prov[r]
  IN  \A i \in 1 .. Len(q.chunks) :
        LET key == m.blocks[m.tables[r][i]].key
        IN  /\ key \in {None, KeyAt(q.chunks, i)}
            /\ i <= q.matched => key # None
            /\ i > q.matched /\ ~q.published => key = None

\* The full prompt blocks of a table against the keys its prompt implies.
KeysValid(m, r) ==
  LET q == m.prov[r]
      full == Len(q.chunks)
  IN  \A i \in 1 .. full :
        LET expected == KeyAt(q.chunks, i)
            key == m.blocks[m.tables[r][i]].key
        IN  /\ key \in {None, expected}
            /\ i <= q.matched => key # None
            /\ i > q.matched /\ ~q.published => key = None
            /\ i > q.matched /\ q.published /\ key = None
                 => Matches(m, expected) # {}

BlockValid(m, b) ==
  LET d == m.blocks[b]
      indexed == d.key # None /\ b \in m.index[HashOf(d.key)]
  IN  IF d.state = "Free"
      THEN b \in m.free /\ Holders(m, b) = {} /\ d = FreeBlock
      ELSE /\ b \notin m.free
           /\ d.valid \in 1 .. BlockSize /\ d.epoch \in 1 .. m.epoch /\ d.prov # None
           /\ d.prov \in FullProvenance => d.valid = BlockSize
           /\ d.prov \notin FullProvenance => d.key = None
           /\ d.key # None => indexed /\ d.owner = None
           /\ IF d.state = "Cached"
              THEN Holders(m, b) = {} /\ d.refs = 0 /\ d.owner = None /\ d.key # None
              ELSE /\ d.refs > 0 /\ d.refs = Cardinality(Holders(m, b))
                   /\ d.key = None => Holders(m, b) = {d.owner}

\* Every indexed block is where its key says, and keys are canonical.
IndexValid(m) ==
  /\ \A h \in HashValues : \A b \in m.index[h] :
        m.blocks[b].key # None /\ HashOf(m.blocks[b].key) = h
  /\ \A b, c \in UNION Range(m.index) :
        m.blocks[b].key = m.blocks[c].key => b = c

Valid(m) ==
  /\ \A r \in Requests : IF r \in Live(m) THEN TableValid(m, r) /\ KeysValid(m, r)
                                         ELSE m.tables[r] = <<>>
  /\ \A b \in Block : BlockValid(m, b)
  /\ IndexValid(m)
  /\ m.represented = TokensIn(m, Block)

\* A live request holds a private duplicate of what canonical block b holds.
DuplicateHolder(m, b) ==
  \E r \in Live(m) : LET q == m.prov[r] IN
    /\ q.published
    /\ \E i \in (q.matched + 1) .. Len(q.chunks) :
         /\ m.blocks[m.tables[r][i]].key = None
         /\ m.blocks[b].key = KeyAt(q.chunks, i)

-----------------------------------------------------------------------------
(* How a call ends *)

Refuse(m, outcome) == [outcome |-> outcome, kv |-> m]

\* Validate the copy, then swap it in; an invalid copy is dropped, and so is one
\* whose represented-token count went below zero.
Commit(m, copy) ==
  IF copy.represented \in Nat /\ Valid(copy)
  THEN [outcome |-> "ok", kv |-> copy]
  ELSE Refuse(m, "logic_error")

\* Defect: the failure counter wraps silently.
NoteCapacityErrorUnchecked(m) ==
  [outcome |-> "capacity", kv |-> [m EXCEPT !.failures = @ + 1]]

\* note_allocation_failure, then KVCapacityError.
NoteCapacityError(m) ==
  IF m.failures = FailureLimit
  THEN Refuse(m, "overflow")
  ELSE [outcome |-> "capacity", kv |-> [m EXCEPT !.failures = @ + 1]]

-----------------------------------------------------------------------------
(* Steps on the copy *)

\* Defect: the index keeps the mapping of an evicted block.
EvictBlocksKeepingIndex(m, E) ==
  [m EXCEPT !.blocks = [b \in Block |-> IF b \in E THEN FreeBlock ELSE @[b]],
            !.free   = @ \cup E,
            !.represented = @ - TokensIn(m, E)]

\* evict_exact_blocks_in_place
EvictBlocks(m, E) ==
  [m EXCEPT !.blocks = [b \in Block |-> IF b \in E THEN FreeBlock ELSE @[b]],
            !.free   = @ \cup E,
            !.index  = [h \in HashValues |-> @[h] \ E],
            !.represented = @ - TokensIn(m, E)]

\* Defect: new blocks go to the front of the table.
ClaimBlocksInFront(m, r, ids, tokens, provenance) ==
  LET claimed(i) == [ state |-> "InUse", owner |-> r, refs |-> 1,
                      valid |-> TokensAt(tokens, i), epoch |-> m.epoch + 1,
                      key |-> None, prov |-> provenance[i] ]
      position(b) == CHOOSE i \in DOMAIN ids : ids[i] = b
  IN  [m EXCEPT !.blocks = [b \in Block |-> IF b \in Range(ids)
                                           THEN claimed(position(b)) ELSE @[b]],
                !.free   = @ \ Range(ids),
                !.tables[r] = ids \o @,
                !.represented = @ + tokens,
                !.epoch  = IF ids = <<>> THEN @ ELSE @ + 1]

\* Hand the blocks `ids`, holding `tokens` tokens, to the end of r's table.
ClaimBlocks(m, r, ids, tokens, provenance) ==
  LET claimed(i) ==
        [ state |-> "InUse", owner |-> r, refs |-> 1,
          valid |-> TokensAt(tokens, i),
          epoch |-> m.epoch + 1, key |-> None, prov |-> provenance[i] ]
      position(b) == CHOOSE i \in DOMAIN ids : ids[i] = b
  IN  [m EXCEPT !.blocks = [b \in Block |-> IF b \in Range(ids)
                                           THEN claimed(position(b)) ELSE @[b]],
                !.free   = @ \ Range(ids),
                !.tables[r] = @ \o ids,
                !.represented = @ + tokens,
                !.epoch  = IF ids = <<>> THEN @ ELSE @ + 1]

\* A hit: every matched block gains a reader and becomes the most recently used.
AcquireBlocks(m, r, ids) ==
  LET acquired(d) ==
        [d EXCEPT !.state = "InUse", !.owner = None, !.refs = @ + 1,
                  !.epoch = m.epoch + 1,
                  !.prov  = IF d.state = "Cached" /\ @ = "ComputedPromptFull"
                            THEN "SharedPromptFull" ELSE @]
  IN  [m EXCEPT !.blocks = [b \in Block |-> IF b \in Range(ids)
                                           THEN acquired(@[b]) ELSE @[b]],
                !.tables[r] = ids,
                !.epoch = IF ids = <<>> THEN @ ELSE @ + 1]

-----------------------------------------------------------------------------
(* The public mutators *)

\* allocate_prompt for a count-only prompt of `tokens` tokens; r is not live.
AllocatePrompt(m, r, tokens) ==
  LET required == BlocksRequired(tokens)
      short == Shortage(m, required)
      evictions == LeastRecentlyUsed(m, Cached(m), short)
      ids == Ascending(Lowest(m.free \cup evictions, required))
      admitted == [m EXCEPT !.prov[r] =
                     [ exact |-> FALSE, chunks |-> <<>>, total |-> tokens,
                       matched |-> 0, published |-> FALSE ]]
  IN  IF short > Cardinality(Cached(m)) THEN NoteCapacityError(m)
      ELSE IF required > 0 /\ m.epoch = EpochLimit THEN Refuse(m, "overflow")
      ELSE Commit(m, ClaimBlocks(EvictBlocks(admitted, evictions), r, ids, tokens,
                                 [i \in DOMAIN ids |-> "PrivatePromptCountOnly"]))

\* allocate_prompt_with_prefix_exact with its own plan, which is
\* allocate_prompt_with_prefix protecting nothing: share the longest cached prefix,
\* allocate the rest.  `supplied` is the caller's earlier lookup; r is not live.
AllocatePromptWithPrefix(m, r, prompt, supplied) ==
  LET matched == Lookup(m, prompt.chunks)
      suffix == Total(prompt) - Len(matched) * BlockSize
      required == BlocksRequired(suffix)
      short == Shortage(m, required)
      unmatched == Cached(m) \ Range(matched)
      evictions == LeastRecentlyUsed(m, unmatched, short)
      ids == Ascending(Lowest(m.free \cup evictions, required))
      epochs == (IF matched = <<>> THEN 0 ELSE 1) + (IF required = 0 THEN 0 ELSE 1)
      admitted == [m EXCEPT !.prov[r] =
                     [ exact |-> TRUE, chunks |-> prompt.chunks,
                       total |-> Total(prompt), matched |-> Len(matched),
                       published |-> FALSE ]]
      acquired == AcquireBlocks(admitted, r, matched)
  IN  IF supplied # matched THEN Refuse(m, "stale")
      ELSE IF short > Cardinality(unmatched) THEN NoteCapacityError(m)
      ELSE IF epochs > EpochLimit - m.epoch THEN Refuse(m, "overflow")
      ELSE Commit(m, ClaimBlocks(EvictBlocks(acquired, evictions), r, ids, suffix,
                       [i \in DOMAIN ids |-> IF Len(matched) + i <= Len(prompt.chunks)
                                             THEN "ComputedPromptFull"
                                             ELSE "PrivatePromptTail"]))

\* allocate_prompt_with_prefix with protected_cached_blocks: its plan leaves them out
\* and is refused by the exact call, whose own plan does not.  The two refusals are
\* both std::logic_error; "misplanned" is "planned prefix eviction IDs differ".
AllocatePromptProtecting(m, r, prompt, supplied, protected) ==
  LET matched == Lookup(m, prompt.chunks)
      required == BlocksRequired(Total(prompt) - Len(matched) * BlockSize)
      short == Shortage(m, required)
      unmatched == Cached(m) \ Range(matched)
      planned == LeastRecentlyUsed(m, unmatched \ protected, short)
  IN  IF supplied # matched THEN Refuse(m, "stale")
      ELSE IF short > Cardinality(unmatched \ protected) THEN NoteCapacityError(m)
      ELSE IF planned # LeastRecentlyUsed(m, unmatched, short) THEN Refuse(m, "misplanned")
      ELSE AllocatePromptWithPrefix(m, r, prompt, supplied)

\* insert_completed_prompt_blocks: the computed full blocks of r become
\* canonical, except those whose key has a canonical block already.
InsertCompletedPromptBlocks(m, r) ==
  LET q == m.prov[r]
      t == m.tables[r]
      key(i) == KeyAt(q.chunks, i)
      computed == (q.matched + 1) .. Len(q.chunks)
      fresh == {i \in computed : /\ Matches(m, key(i)) = {}
                                 /\ \A j \in computed : key(j) = key(i) => i <= j}
      rank(i) == Cardinality({j \in fresh : j <= i})
      published(b) ==
        LET i == CHOOSE j \in fresh : t[j] = b
        IN  [m.blocks[b] EXCEPT !.key = key(i), !.owner = None,
                                !.epoch = m.epoch + rank(i)]
  IN  IF q.published THEN Refuse(m, "ok")
      ELSE IF Cardinality(fresh) > EpochLimit - m.epoch THEN Refuse(m, "overflow")
      ELSE Commit(m, [m EXCEPT
             !.blocks = [b \in Block |-> IF \E i \in fresh : t[i] = b
                                        THEN published(b) ELSE @[b]],
             !.index  = [h \in HashValues |->
                           @[h] \cup {b \in Block : \E i \in fresh :
                                          t[i] = b /\ HashOf(key(i)) = h}],
             !.epoch  = @ + Cardinality(fresh),
             !.prov[r].published = TRUE])

\* append_decode_token: one more token, in the last block or in a new one.
AppendDecodeToken(m, r) ==
  LET new == DecodeRequiresNewBlock(m, r)
      short == Shortage(m, IF new THEN 1 ELSE 0)
      evictions == LeastRecentlyUsed(m, Cached(m), short)
      ids == Ascending(Lowest(m.free \cup evictions, 1))
      last == Last(m.tables[r])
  IN  IF m.epoch = EpochLimit THEN Refuse(m, "overflow")
      ELSE IF short > Cardinality(Cached(m)) THEN NoteCapacityError(m)
      ELSE Commit(m, IF new
             THEN ClaimBlocks(EvictBlocks(m, evictions), r, ids, 1,
                              [i \in DOMAIN ids |-> "PrivateDecode"])
             ELSE [m EXCEPT !.blocks[last].valid = @ + 1,
                            !.blocks[last].epoch = m.epoch + 1,
                            !.represented = @ + 1,
                            !.epoch = @ + 1])

\* release_request: the last reader of a published block leaves it cached, the
\* last reader of any other block frees it.
ReleaseRequest(m, r) ==
  LET held == Range(m.tables[r])
      freed == {b \in held : m.blocks[b].refs = 1 /\ m.blocks[b].key = None}
      released(d) ==
        [d EXCEPT !.state = IF d.refs = 1 THEN "Cached" ELSE "InUse",
                  !.owner = None, !.refs = @ - 1]
  IN  Commit(m, [m EXCEPT
        !.blocks = [b \in Block |-> IF b \in freed THEN FreeBlock
                                   ELSE IF b \in held THEN released(@[b]) ELSE @[b]],
        !.free   = @ \cup freed,
        !.tables[r] = <<>>,
        !.prov[r] = None,
        !.represented = @ - TokensIn(m, freed)])

\* evict_unused_blocks(count)
EvictUnusedBlocks(m, count) ==
  IF count > Cardinality(Cached(m)) THEN Refuse(m, "insufficient")
  ELSE Commit(m, EvictBlocks(m, LeastRecentlyUsed(m, Cached(m), count)))

=============================================================================
