---------------------------- MODULE KVCache_proof ----------------------------
(***************************************************************************)
(* Theorems about KVCache, for every pool size, block size, hash function, *)
(* set of requests and set of prompts.  The inductive invariant is the     *)
(* type of the manager together with what validate_invariants checks: most *)
(* of the safety properties below follow from the validity of the manager  *)
(* before AND after a call, whatever the call computed in between.  How    *)
(* calls end is about what they compute: a copy that passes the checks.    *)
(***************************************************************************)
EXTENDS KVCache, KVManager_proof

IInv == TypeOK /\ Valid(kv)

LEMMA ReplyOutcomes ==
  ASSUME NEW m
  PROVE  /\ \A copy : Commit(m, copy).outcome \in Outcomes
         /\ NoteCapacityError(m).outcome \in Outcomes
         /\ \A o \in Outcomes : Refuse(m, o).outcome \in Outcomes
BY DEF Commit, NoteCapacityError, Refuse, Outcomes

\* A caller that protects blocks gets what it would get without, or nothing.
LEMMA ProtectingReply ==
  ASSUME NEW m \in Manager, NEW r, NEW prompt, NEW supplied, NEW protected
  PROVE  LET reply == AllocatePromptProtecting(m, r, prompt, supplied, protected) IN
         \/ reply = AllocatePromptWithPrefix(m, r, prompt, supplied)
         \/ /\ Refused(m, reply)
            /\ reply.outcome \in {"stale", "capacity", "overflow", "misplanned"}
<1> DEFINE reply == AllocatePromptProtecting(m, r, prompt, supplied, protected)
<1>1. \/ reply = AllocatePromptWithPrefix(m, r, prompt, supplied)
      \/ reply = Refuse(m, "stale") \/ reply = NoteCapacityError(m)
      \/ reply = Refuse(m, "misplanned")
  BY DEF AllocatePromptProtecting
<1> HIDE DEF reply
<1>2. \A o : Refused(m, Refuse(m, o))
  BY DEF Refuse, Refused
<1>3. /\ Refused(m, NoteCapacityError(m))
      /\ NoteCapacityError(m).outcome \in {"capacity", "overflow"}
      /\ \A o : Refuse(m, o).outcome = o
  BY CapacityReply, OutcomeOfRefusal
<1>4. QED
  BY <1>1, <1>2, <1>3 DEF reply

\* Protecting nothing is the default of the parameter, and changes nothing.
LEMMA ProtectingNothing ==
  ASSUME NEW m \in Manager, NEW r, NEW prompt, NEW supplied
  PROVE  AllocatePromptProtecting(m, r, prompt, supplied, {})
           = AllocatePromptWithPrefix(m, r, prompt, supplied)
<1> DEFINE matched == Lookup(m, prompt.chunks)
           short == Shortage(m, BlocksRequired(Total(prompt) - Len(matched) * BlockSize))
           unmatched == Cached(m) \ Range(matched)
           plain == AllocatePromptWithPrefix(m, r, prompt, supplied)
<1>1. unmatched \ {} = unmatched
  OBVIOUS
<1>2. AllocatePromptProtecting(m, r, prompt, supplied, {})
        = IF supplied # matched THEN Refuse(m, "stale")
          ELSE IF short > Cardinality(unmatched) THEN NoteCapacityError(m)
          ELSE plain
  BY <1>1 DEF AllocatePromptProtecting
<1>3. /\ supplied # matched => plain = Refuse(m, "stale")
      /\ supplied = matched /\ short > Cardinality(unmatched) => plain = NoteCapacityError(m)
  BY DEF AllocatePromptWithPrefix
<1> HIDE DEF matched, short, unmatched, plain
<1>4. QED
  BY <1>2, <1>3 DEF plain

LEMMA AllocatePromptProtectingReply ==
  ASSUME NEW m \in Manager, Valid(m), NEW r \in Requests, m.prov[r] = None,
         NEW prompt \in Prompts, NEW supplied, NEW protected
  PROVE  LET reply == AllocatePromptProtecting(m, r, prompt, supplied, protected) IN
         \/ Refused(m, reply)
         \/ /\ Granted(m, r, reply) /\ ~reply.kv.prov[r].published
            /\ reply.kv.prov[r].chunks = prompt.chunks
<1>1. /\ prompt = [chunks |-> prompt.chunks, tail |-> prompt.tail]
      /\ prompt.chunks \in Seq(Chunks) /\ prompt.tail \in 0 .. BlockSize - 1
  BY PromptAssumption
<1> DEFINE reply == AllocatePromptWithPrefix(m, r, prompt, supplied)
<1>2. \/ Refused(m, reply)
      \/ /\ Granted(m, r, reply) /\ ~reply.kv.prov[r].published
         /\ reply.kv.prov[r].chunks = prompt.chunks
  BY <1>1, AllocatePromptWithPrefixReply
<1> HIDE DEF reply
<1>3. QED
  BY <1>2, ProtectingReply DEF reply

LEMMA OutcomeType ==
  ASSUME NEW m, NEW r
  PROVE  /\ \A tokens : AllocatePrompt(m, r, tokens).outcome \in Outcomes
         /\ \A prompt, supplied, protected :
              AllocatePromptProtecting(m, r, prompt, supplied, protected).outcome \in Outcomes
         /\ InsertCompletedPromptBlocks(m, r).outcome \in Outcomes
         /\ AppendDecodeToken(m, r).outcome \in Outcomes
         /\ ReleaseRequest(m, r).outcome \in Outcomes
         /\ \A count : EvictUnusedBlocks(m, count).outcome \in Outcomes
<1>1. /\ "ok" \in Outcomes /\ "overflow" \in Outcomes /\ "stale" \in Outcomes
      /\ "insufficient" \in Outcomes /\ "misplanned" \in Outcomes
  BY DEF Outcomes
<1>2. \A tokens : AllocatePrompt(m, r, tokens).outcome \in Outcomes
  BY <1>1, ReplyOutcomes DEF AllocatePrompt
<1>3. \A prompt, supplied, protected :
        AllocatePromptProtecting(m, r, prompt, supplied, protected).outcome \in Outcomes
  <2>1. \A prompt, supplied : AllocatePromptWithPrefix(m, r, prompt, supplied).outcome \in Outcomes
    BY <1>1, ReplyOutcomes DEF AllocatePromptWithPrefix
  <2>2. QED
    BY <1>1, <2>1, ReplyOutcomes DEF AllocatePromptProtecting
<1>4. InsertCompletedPromptBlocks(m, r).outcome \in Outcomes
  BY <1>1, ReplyOutcomes DEF InsertCompletedPromptBlocks
<1>5. AppendDecodeToken(m, r).outcome \in Outcomes
  BY <1>1, ReplyOutcomes DEF AppendDecodeToken
<1>6. ReleaseRequest(m, r).outcome \in Outcomes
  BY ReplyOutcomes DEF ReleaseRequest
<1>7. \A count : EvictUnusedBlocks(m, count).outcome \in Outcomes
  BY <1>1, ReplyOutcomes DEF EvictUnusedBlocks
<1>8. QED
  BY <1>2, <1>3, <1>4, <1>5, <1>6, <1>7

LEMMA RefusedAdmitsNobody ==
  ASSUME NEW m \in Manager, NEW reply, Refused(m, reply)
  PROVE  Live(reply.kv) = Live(m)
BY RefusedKeepsManager DEF Live

LEMMA ReclaimedAdmitsNobody ==
  ASSUME NEW m \in Manager, NEW reply, Reclaimed(m, reply)
  PROVE  Live(reply.kv) \subseteq Live(m)
BY DEF Reclaimed, Reclaims, Accepted, Live

LEMMA GrantedAdmitsOne ==
  ASSUME NEW m \in Manager, NEW r \in Requests, NEW reply, Granted(m, r, reply)
  PROVE  Live(reply.kv) \subseteq Live(m) \cup {r} /\ r \in Live(reply.kv)
BY DEF Granted, Claims, Accepted, Live

\* How a request that was not live before a step was admitted by it.
NewlyAdmitted(r) ==
  \/ kv'.prov[r].chunks = <<>>
  \/ /\ \E prompt \in Prompts : kv'.prov[r].chunks = prompt.chunks
     /\ written' = WrittenBy(kv', r)

\* One call: the manager it leaves has its type, is valid, and respects the
\* blocks in use.

LEMMA CallsKeepManager ==
  ASSUME IInv, Next
  PROVE  /\ Keeps(kv, kv') /\ outcome' \in Outcomes
         /\ \A s \in Live(kv') \ Live(kv) : NewlyAdmitted(s)
<1>1. kv \in Manager /\ Valid(kv)
  BY DEF IInv, TypeOK
<1>2. \A r \in Requests : r \in Live(kv) <=> kv.prov[r] # None
  BY DEF Live
<1>3. ASSUME NEW r \in Requests, NEW tokens \in CountPrompts, AdmitCountOnly(r, tokens)
      PROVE  /\ Keeps(kv, kv') /\ outcome' \in Outcomes
             /\ \A s \in Live(kv') \ Live(kv) : NewlyAdmitted(s)
  <2> DEFINE reply == AllocatePrompt(kv, r, tokens)
  <2>1. kv' = reply.kv /\ outcome' = reply.outcome /\ r \notin Live(kv)
    BY <1>3 DEF AdmitCountOnly, Take
  <2>2. Refused(kv, reply) \/ (Granted(kv, r, reply) /\ reply.kv.prov[r].chunks = <<>>)
    BY <1>1, <1>2, <2>1, AllocatePromptReply, PromptAssumption
  <2>3. reply.outcome \in Outcomes
    BY OutcomeType
  <2> HIDE DEF reply
  <2>4. \A s \in Live(kv') \ Live(kv) : NewlyAdmitted(s)
    BY <1>1, <2>1, <2>2, RefusedAdmitsNobody, GrantedAdmitsOne DEF NewlyAdmitted
  <2>5. QED
    BY <1>1, <2>1, <2>2, <2>3, <2>4, RefusedKeeps, GrantedKeeps
<1>4. ASSUME NEW r \in Requests, NEW prompt \in Prompts, NEW supplied, NEW protected,
             AdmitExact(r, prompt, supplied, protected)
      PROVE  /\ Keeps(kv, kv') /\ outcome' \in Outcomes
             /\ \A s \in Live(kv') \ Live(kv) : NewlyAdmitted(s)
  <2> DEFINE reply == AllocatePromptProtecting(kv, r, prompt, supplied, protected)
  <2>1. kv' = reply.kv /\ outcome' = reply.outcome /\ r \notin Live(kv)
    BY <1>4 DEF AdmitExact, Take
  <2>3. \/ Refused(kv, reply)
        \/ Granted(kv, r, reply) /\ reply.kv.prov[r].chunks = prompt.chunks
    BY <1>1, <1>2, <2>1, AllocatePromptProtectingReply
  <2>4. reply.outcome \in Outcomes
    BY OutcomeType
  <2> HIDE DEF reply
  <2>5. written' = IF r \in Live(kv') THEN WrittenBy(kv', r) ELSE written
    BY <1>4 DEF AdmitExact
  <2>6. \A s \in Live(kv') \ Live(kv) : NewlyAdmitted(s)
    BY <1>1, <2>1, <2>3, <2>5, RefusedAdmitsNobody, GrantedAdmitsOne DEF NewlyAdmitted
  <2>7. QED
    BY <1>1, <2>1, <2>3, <2>4, <2>6, RefusedKeeps, GrantedKeeps
<1>5. ASSUME NEW r \in Requests, Publish(r)
      PROVE  /\ Keeps(kv, kv') /\ outcome' \in Outcomes
             /\ \A s \in Live(kv') \ Live(kv) : NewlyAdmitted(s)
  <2> DEFINE reply == InsertCompletedPromptBlocks(kv, r)
  <2>1. kv' = reply.kv /\ outcome' = reply.outcome /\ r \in Live(kv)
    BY <1>5 DEF Publish, Take
  <2>2. Refused(kv, reply) \/ Reclaimed(kv, reply)
    BY <1>1, <1>2, <2>1, InsertCompletedPromptBlocksReply
  <2>3. reply.outcome \in Outcomes
    BY OutcomeType
  <2> HIDE DEF reply
  <2>4. QED
    BY <1>1, <2>1, <2>2, <2>3, RefusedKeeps, ReclaimedKeeps,
       RefusedAdmitsNobody, ReclaimedAdmitsNobody
<1>6. ASSUME NEW r \in Requests, Decode(r)
      PROVE  /\ Keeps(kv, kv') /\ outcome' \in Outcomes
             /\ \A s \in Live(kv') \ Live(kv) : NewlyAdmitted(s)
  <2> DEFINE reply == AppendDecodeToken(kv, r)
  <2>1. kv' = reply.kv /\ outcome' = reply.outcome /\ r \in Live(kv)
    BY <1>6 DEF Decode, Take
  <2>2. \/ Refused(kv, reply)
        \/ (Granted(kv, r, reply) \/ Appended(kv, r, reply)) /\ reply.kv.prov = kv.prov
    BY <1>1, <1>2, <2>1, AppendDecodeTokenReply
  <2>3. reply.outcome \in Outcomes
    BY OutcomeType
  <2> HIDE DEF reply
  <2>4. reply.kv.prov = kv.prov => Live(reply.kv) = Live(kv)
    BY DEF Live
  <2>5. QED
    BY <1>1, <2>1, <2>2, <2>3, <2>4, RefusedKeeps, GrantedKeeps, AppendedKeeps,
       RefusedAdmitsNobody
<1>7. ASSUME NEW r \in Requests, Release(r)
      PROVE  /\ Keeps(kv, kv') /\ outcome' \in Outcomes
             /\ \A s \in Live(kv') \ Live(kv) : NewlyAdmitted(s)
  <2> DEFINE reply == ReleaseRequest(kv, r)
  <2>1. kv' = reply.kv /\ outcome' = reply.outcome /\ r \in Live(kv)
    BY <1>7 DEF Release, Take
  <2>2. Refused(kv, reply) \/ Reclaimed(kv, reply)
    BY <1>1, <2>1, ReleaseRequestReply
  <2>3. reply.outcome \in Outcomes
    BY OutcomeType
  <2> HIDE DEF reply
  <2>4. QED
    BY <1>1, <2>1, <2>2, <2>3, RefusedKeeps, ReclaimedKeeps,
       RefusedAdmitsNobody, ReclaimedAdmitsNobody
<1>8. ASSUME NEW count \in 1 .. NumBlocks, Evict(count)
      PROVE  /\ Keeps(kv, kv') /\ outcome' \in Outcomes
             /\ \A s \in Live(kv') \ Live(kv) : NewlyAdmitted(s)
  <2> DEFINE reply == EvictUnusedBlocks(kv, count)
  <2>1. kv' = reply.kv /\ outcome' = reply.outcome
    BY <1>8 DEF Evict, Take
  <2>2. Refused(kv, reply) \/ Reclaimed(kv, reply)
    BY <1>1, EvictUnusedBlocksReply
  <2>3. reply.outcome \in Outcomes
    BY OutcomeType
  <2> HIDE DEF reply
  <2>4. QED
    BY <1>1, <2>1, <2>2, <2>3, RefusedKeeps, ReclaimedKeeps,
       RefusedAdmitsNobody, ReclaimedAdmitsNobody
<1>9. QED
  BY <1>3, <1>4, <1>5, <1>6, <1>7, <1>8 DEF Next

\* The history variable keeps its type, and only an admission writes it.
LEMMA CallsKeepWritten ==
  ASSUME IInv, Next
  PROVE  written' \in [Block -> Seq(Chunks)]
<1>1. kv' \in Manager /\ written \in [Block -> Seq(Chunks)]
  BY CallsKeepManager DEF IInv, TypeOK, Keeps
<1>2. ASSUME NEW r \in Requests, r \in Live(kv')
      PROVE  WrittenBy(kv', r) \in [Block -> Seq(Chunks)]
  <2> DEFINE q == kv'.prov[r]
             computed(b) == {i \in (q.matched + 1) .. Len(q.chunks) : kv'.tables[r][i] = b}
             chosen(b) == CHOOSE i \in computed(b) : TRUE
  <2>1. q \in RequestProvenance
    BY <1>1, <1>2 DEF Manager, Live
  <2>2. q.chunks \in Seq(Chunks) /\ q.matched \in Nat
    BY <2>1 DEF RequestProvenance
  <2>3. ASSUME NEW b \in Block, computed(b) # {}
        PROVE  SubSeq(q.chunks, 1, chosen(b)) \in Seq(Chunks)
    <3>1. chosen(b) \in computed(b)
      BY <2>3
    <3> HIDE DEF chosen, q
    <3>2. chosen(b) \in 1 .. Len(q.chunks)
      BY <2>2, <3>1
    <3>3. QED
      BY <2>2, <3>2
  <2>4. WrittenBy(kv', r) = [b \in Block |-> IF computed(b) = {} THEN written[b]
                                             ELSE SubSeq(q.chunks, 1, chosen(b))]
    BY DEF WrittenBy
  <2> HIDE DEF computed, chosen, q
  <2>5. QED
    BY <1>1, <2>3, <2>4
<1>3. ASSUME NEW r \in Requests, NEW prompt, NEW supplied, NEW protected,
             AdmitExact(r, prompt, supplied, protected)
      PROVE  written' \in [Block -> Seq(Chunks)]
  BY <1>1, <1>2, <1>3 DEF AdmitExact
<1>4. QED
  BY <1>1, <1>3 DEF Next, AdmitCountOnly, Publish, Decode, Release, Evict

LEMMA InitiallyValid == Init => IInv
<1>1. [b \in Block |-> <<>>] \in [Block -> Seq(Chunks)]
  OBVIOUS
<1>2. QED
  BY <1>1, EmptyManagerIsValid DEF Init, IInv, TypeOK, Outcomes

LEMMA CallsKeepIInv == IInv /\ Next => IInv'
BY CallsKeepManager, CallsKeepWritten DEF IInv, TypeOK, Keeps, Outcomes

\* The manager of every reachable state has its type and passes
\* validate_invariants, whatever sequence of public calls led there and however
\* those calls ended.
THEOREM InductiveInvariant == Spec => []IInv
<1>1. IInv /\ [Next]_vars => IInv'
  <2>1. CASE UNCHANGED vars
    BY <2>1 DEF vars, IInv, TypeOK, Outcomes
  <2>2. QED
    BY <2>1, CallsKeepIInv
<1>2. QED
  BY <1>1, InitiallyValid, PTL DEF Spec

\* The type invariant of the manager's clients.
THEOREM TypeCorrect == Spec => []TypeOK
<1>1. IInv => TypeOK
  BY DEF IInv
<1>2. QED
  BY <1>1, InductiveInvariant, PTL

\* A block that a step writes is a block that the request admitted by the step
\* computes: it has no key.
LEMMA WrittenBlocksAreNew ==
  ASSUME IInv, Next, NEW b \in Block, written'[b] # written[b]
  PROVE  /\ kv'.blocks[b].key = None
         /\ \E r \in Live(kv') \ Live(kv) :
              b \in Range(kv'.tables[r]) /\ kv'.blocks[b].state = "InUse"
<1>1. /\ kv \in Manager /\ Valid(kv) /\ written \in [Block -> Seq(Chunks)]
      /\ kv' \in Manager /\ Valid(kv')
  BY CallsKeepManager DEF IInv, TypeOK, Keeps
<1>2. PICK r \in Requests, prompt \in Prompts :
        \E supplied, protected : AdmitExact(r, prompt, supplied, protected)
  BY DEF Next, AdmitCountOnly, Publish, Decode, Release, Evict
<1>3. PICK supplied, protected : AdmitExact(r, prompt, supplied, protected)
  BY <1>2
<1> DEFINE q == kv'.prov[r]
           computed == {i \in (q.matched + 1) .. Len(q.chunks) : kv'.tables[r][i] = b}
<1>4. r \notin Live(kv) /\ r \in Live(kv') /\ written' = WrittenBy(kv', r)
  BY <1>3 DEF AdmitExact
<1>5. computed # {}
  BY <1>4 DEF WrittenBy
<1>6. q \in RequestProvenance
  BY <1>1, <1>4 DEF Manager, Live
<1>7. ~q.published
  <2> DEFINE reply == AllocatePromptProtecting(kv, r, prompt, supplied, protected)
  <2>1. kv' = reply.kv
    BY <1>3 DEF AdmitExact, Take
  <2>3. kv.prov[r] = None
    BY <1>4 DEF Live
  <2>4. Refused(kv, reply) \/ ~reply.kv.prov[r].published
    BY <1>1, <2>3, AllocatePromptProtectingReply
  <2> HIDE DEF reply
  <2>5. ~Refused(kv, reply)
    BY <1>1, <1>4, <2>1, RefusedAdmitsNobody
  <2>6. QED
    BY <2>1, <2>4, <2>5
<1> HIDE DEF q
<1>8. PICK i \in (q.matched + 1) .. Len(q.chunks) : kv'.tables[r][i] = b
  BY <1>5
<1>9. i \in 1 .. Len(q.chunks) /\ i > q.matched
  BY <1>6, <1>8 DEF RequestProvenance
<1>10. b \in Range(kv'.tables[r]) /\ kv'.blocks[b].state = "InUse"
  BY <1>1, <1>4, <1>8, <1>9, PromptBlocksAreHeld DEF q
<1>11. kv'.blocks[b].key = None
  BY <1>1, <1>4, <1>7, <1>8, <1>9 DEF Valid, KeysValid, q
<1>12. QED
  BY <1>4, <1>10, <1>11

\* The prefill of an admitted request writes no block that another live request
\* holds: what it computes it computes into blocks of its own.
LEMMA AdmissionWritesOwnBlocks ==
  ASSUME IInv, Next, NEW s \in Live(kv) \cap Live(kv'), NEW b \in Range(kv.tables[s])
  PROVE  written'[b] = written[b] /\ b \in Range(kv'.tables[s])
<1>1. /\ kv \in Manager /\ Valid(kv)
      /\ kv' \in Manager /\ Valid(kv') /\ StableTables(kv, kv')
  BY CallsKeepManager DEF IInv, TypeOK, Keeps
<1>2. b \in Block
  BY <1>1, HeldBlocksAreInUse
<1>3. b \in Range(kv'.tables[s])
  <2> DEFINE t == kv.tables[s]
             u == kv'.tables[s]
  <2>1. t \in Seq(Block) /\ u \in Seq(Block) /\ IsPrefix(t, u)
    BY <1>1 DEF Manager, Live, StableTables
  <2>2. PICK i \in DOMAIN t : t[i] = b
    BY DEF Range
  <2> HIDE DEF t, u
  <2>3. i \in DOMAIN u /\ u[i] = t[i]
    BY <2>1, <2>2 DEF IsPrefix
  <2>4. QED
    BY <2>2, <2>3 DEF Range, u
<1>4. ASSUME written'[b] # written[b]
      PROVE  FALSE
  <2>1. kv'.blocks[b].key = None
    BY <1>2, <1>4, WrittenBlocksAreNew
  <2>2. PICK r \in Live(kv') \ Live(kv) :
          b \in Range(kv'.tables[r]) /\ kv'.blocks[b].state = "InUse"
    BY <1>2, <1>4, WrittenBlocksAreNew
  <2>3. r = s
    BY <1>1, <1>2, <1>3, <2>1, <2>2, KeylessBlocksHaveOneHolder
  <2>4. QED
    BY <2>2, <2>3
<1>5. QED
  BY <1>3, <1>4

\* HeldBlocksAreStable: between admission and release no call of any request
\* moves a block of the request's table, shortens it, or rewrites what the
\* prefill put there.
THEOREM HeldBlocksStable == Spec => HeldBlocksAreStable
<1>1. IInv /\ [Next]_vars =>
        [\A r \in Live(kv) \cap Live(kv') :
           /\ IsPrefix(kv.tables[r], kv'.tables[r])
           /\ \A i \in DOMAIN kv.tables[r] : LET b == kv.tables[r][i] IN
                /\ written'[b] = written[b]
                /\ kv'.blocks[b].valid >= kv.blocks[b].valid]_vars
  <2>1. ASSUME IInv, Next, NEW r \in Live(kv) \cap Live(kv')
        PROVE  /\ IsPrefix(kv.tables[r], kv'.tables[r])
               /\ \A i \in DOMAIN kv.tables[r] : LET b == kv.tables[r][i] IN
                    /\ written'[b] = written[b]
                    /\ kv'.blocks[b].valid >= kv.blocks[b].valid
    <3>1. StableTables(kv, kv')
      BY <2>1, CallsKeepManager DEF Keeps
    <3>2. \A i \in DOMAIN kv.tables[r] : kv.tables[r][i] \in Range(kv.tables[r])
      BY DEF Range
    <3>3. \A b \in Range(kv.tables[r]) : written'[b] = written[b]
      BY <2>1, AdmissionWritesOwnBlocks
    <3>4. QED
      BY <3>1, <3>2, <3>3 DEF StableTables
  <2>2. QED
    BY <2>1
<1>2. QED
  BY <1>1, InductiveInvariant, PTL DEF Spec, HeldBlocksAreStable

\* SharedBlocksAreReadOnly: tokens are appended in place only to a block that a
\* single request reads and that the prefix index does not offer to others.
THEOREM SharedBlocksReadOnly == Spec => SharedBlocksAreReadOnly
<1>1. IInv /\ [Next]_vars =>
        [\A b \in Block :
           kv'.blocks[b].valid > kv.blocks[b].valid /\ kv.blocks[b].valid > 0
             => Cardinality(Holders(kv, b)) = 1 /\ kv.blocks[b].key = None]_vars
  BY CallsKeepManager DEF Keeps, ReadOnlyBlocks
<1>2. QED
  BY <1>1, InductiveInvariant, PTL DEF Spec, SharedBlocksAreReadOnly

\* EvictionIsLastResort: no call gives up a cached block while a free one would
\* do, and none gives up a block that was used after one it keeps.
THEOREM EvictionLastResort == Spec => EvictionIsLastResort
<1>1. ASSUME IInv, Next, EvictedBy # {}
      PROVE  /\ \/ kv'.free = {}
                \/ kv'.tables = kv.tables
             /\ \A b \in EvictedBy, c \in Cached(kv) \cap Cached(kv') : Older(kv, b, c)
  <2>1. LastResort(kv, kv')
    BY <1>1, CallsKeepManager DEF Keeps
  <2>2. QED
    BY <1>1, <2>1, Zenon DEF LastResort, EvictedBy
<1>2. IInv /\ [Next]_vars =>
        [EvictedBy # {} =>
           /\ \/ kv'.free = {}
              \/ kv'.tables = kv.tables
           /\ \A b \in EvictedBy, c \in Cached(kv) \cap Cached(kv') : Older(kv, b, c)]_vars
  BY <1>1
<1>3. QED
  BY <1>2, InductiveInvariant, PTL DEF Spec, EvictionIsLastResort

-----------------------------------------------------------------------------
(* Published prompts are found.                                              *)

\* A lookup that hits on every block finds the whole prompt.
LEMMA WholePromptIsFound ==
  ASSUME NEW m, NEW chunks \in Seq(Chunks), PrefixEnabled,
         \A i \in 1 .. Len(chunks) : Matches(m, KeyAt(chunks, i)) # {}
  PROVE  Len(Lookup(m, chunks)) = Len(chunks)
<1> DEFINE hit(i) == Matches(m, KeyAt(chunks, i)) # {}
           n == Cardinality({i \in 1 .. Len(chunks) : \A j \in 1 .. i : hit(j)})
<1>1. Len(chunks) \in Nat
  OBVIOUS
<1>2. {i \in 1 .. Len(chunks) : \A j \in 1 .. i : hit(j)} = 1 .. Len(chunks)
  <2> HIDE DEF hit
  <2>1. \A j \in 1 .. Len(chunks) : hit(j)
    BY DEF hit
  <2>2. QED
    BY <1>1, <2>1
<1>3. n = Len(chunks)
  <2>1. \A k \in Nat : Cardinality(1 .. k) = k
    BY FS_Interval
  <2>2. QED
    BY <1>1, <1>2, <2>1
<1>4. Lookup(m, chunks) = [i \in 1 .. n |-> Min(Matches(m, KeyAt(chunks, i)))]
  BY DEF Lookup
<1> HIDE DEF n
<1>5. QED
  BY <1>1, <1>3, <1>4

\* The index has an entry for every full block of a published prompt.
LEMMA PublishedPromptIsIndexed ==
  ASSUME NEW m \in Manager, Valid(m), NEW r \in Live(m), m.prov[r].published,
         NEW i \in 1 .. Len(m.prov[r].chunks)
  PROVE  Matches(m, KeyAt(m.prov[r].chunks, i)) # {}
<1> DEFINE q == m.prov[r]
           b == m.tables[r][i]
           key == KeyAt(q.chunks, i)
<1>1. b \in Block /\ m.blocks[b].state = "InUse"
  BY PromptBlocksAreHeld
<1>2. /\ m.blocks[b].key \in {None, key}
      /\ i <= q.matched => m.blocks[b].key # None
      /\ i > q.matched /\ m.blocks[b].key = None => Matches(m, key) # {}
  BY DEF Valid, KeysValid, Live
<1>3. m.blocks[b].key # None => b \in m.index[HashOf(m.blocks[b].key)]
  BY <1>1 DEF Valid, BlockValid
<1>4. i <= q.matched \/ i > q.matched
  <2>1. q.matched \in Nat /\ i \in Int
    BY DEF Manager, Live, RequestProvenance
  <2>2. QED
    BY <2>1
<1> HIDE DEF b, key, q
<1>5. m.blocks[b].key # None => b \in Matches(m, key)
  BY <1>1, <1>2, <1>3 DEF Matches
<1>6. Matches(m, key) # {}
  BY <1>2, <1>4, <1>5
<1>7. QED
  BY <1>6 DEF key, q

\* PublishedPromptIsFound: after insert_completed_prompt_blocks and for as long as
\* the request lives, a lookup of its prompt finds every full block, whichever
\* cached blocks have been evicted since.
THEOREM PublishedPromptFound == Spec => []PublishedPromptIsFound
<1>1. ASSUME IInv
      PROVE  PublishedPromptIsFound
  <2>1. kv \in Manager /\ Valid(kv)
    BY <1>1 DEF IInv, TypeOK
  <2>2. ASSUME NEW r \in Live(kv), kv.prov[r].published
        PROVE  Len(Lookup(kv, kv.prov[r].chunks)) = Len(kv.prov[r].chunks)
    <3>1. kv.prov[r].chunks \in Seq(Chunks)
      BY <2>1 DEF Manager, Live, RequestProvenance
    <3>2. PrefixEnabled
      BY <2>1, <2>2 DEF Valid, TableValid, Live
    <3>3. QED
      BY <2>1, <2>2, <3>1, <3>2, PublishedPromptIsIndexed, WholePromptIsFound
  <2>3. QED
    BY <2>2 DEF PublishedPromptIsFound
<1>2. QED
  BY <1>1, InductiveInvariant, PTL

-----------------------------------------------------------------------------
(* Prefix fidelity.                                                          *)

\* No two prompts that differ before a block have the same parent hash there.
NoCollision ==
  \A p, q \in Prompts :
    \A i \in 0 .. Len(p.chunks), j \in 0 .. Len(q.chunks) :
      ParentHash(p.chunks)[i] = ParentHash(q.chunks)[j]
        => SubSeq(p.chunks, 1, i) = SubSeq(q.chunks, 1, j)

\* A key tells what the block that carries it holds.
KeysAreTrue ==
  \A b \in Block : kv.blocks[b].key # None =>
    \E p \in Prompts : \E i \in 1 .. Len(p.chunks) :
      kv.blocks[b].key = KeyAt(p.chunks, i) /\ written[b] = SubSeq(p.chunks, 1, i)

PromptsAreTheirs ==
  \A r \in Live(kv) :
    kv.prov[r].chunks = <<>> \/ \E p \in Prompts : kv.prov[r].chunks = p.chunks

FidelityInv == IInv /\ PrefixFidelity /\ KeysAreTrue /\ PromptsAreTheirs

LEMMA PrefixesExtend ==
  ASSUME NEW s \in Seq(Chunks), NEW t \in Seq(Chunks),
         NEW i \in 1 .. Len(s), NEW j \in 1 .. Len(t),
         SubSeq(s, 1, i - 1) = SubSeq(t, 1, j - 1), s[i] = t[j]
  PROVE  SubSeq(s, 1, i) = SubSeq(t, 1, j)
<1>1. i \in Nat /\ j \in Nat /\ Len(s) \in Nat /\ Len(t) \in Nat
  OBVIOUS
<1>2. i = j
  <2>1. Len(SubSeq(s, 1, i - 1)) = i - 1 /\ Len(SubSeq(t, 1, j - 1)) = j - 1
    OBVIOUS
  <2>2. QED
    BY <1>1, <2>1
<1>3. \A k \in 1 .. i - 1 : s[k] = t[k]
  <2>1. \A k \in 1 .. i - 1 : SubSeq(s, 1, i - 1)[k] = s[k] /\ SubSeq(t, 1, i - 1)[k] = t[k]
    BY <1>2
  <2>2. QED
    BY <1>2, <2>1
<1>4. \A k \in 1 .. i : s[k] = t[k]
  BY <1>1, <1>2, <1>3
<1>5. /\ SubSeq(s, 1, i) = [k \in 1 .. i |-> s[k]]
      /\ SubSeq(t, 1, i) = [k \in 1 .. i |-> t[k]]
  BY <1>2
<1>6. QED
  BY <1>2, <1>4, <1>5

\* Without a collision, a key determines all the chunks it stands for.
LEMMA KeyTellsPrefix ==
  ASSUME NoCollision, NEW p \in Prompts, NEW q \in Prompts,
         NEW i \in 1 .. Len(p.chunks), NEW j \in 1 .. Len(q.chunks),
         KeyAt(p.chunks, i) = KeyAt(q.chunks, j)
  PROVE  SubSeq(p.chunks, 1, i) = SubSeq(q.chunks, 1, j)
<1>1. p.chunks \in Seq(Chunks) /\ q.chunks \in Seq(Chunks)
  BY PromptAssumption
<1>2. ParentHash(p.chunks)[i - 1] = ParentHash(q.chunks)[j - 1] /\ p.chunks[i] = q.chunks[j]
  BY DEF KeyAt
<1>3. i - 1 \in 0 .. Len(p.chunks) /\ j - 1 \in 0 .. Len(q.chunks)
  BY <1>1
<1>4. SubSeq(p.chunks, 1, i - 1) = SubSeq(q.chunks, 1, j - 1)
  BY <1>2, <1>3 DEF NoCollision
<1>5. QED
  BY <1>1, <1>2, <1>4, PrefixesExtend

\* Where a collision can come from: a hash that is injective and never yields the
\* root has none, for any set of prompts.
THEOREM InjectiveHashDoesNotCollide ==
  ASSUME \A x, y \in HashValues \X Chunks : Hash[x] = Hash[y] => x = y,
         \A x \in HashValues \X Chunks : Hash[x] # RootHash
  PROVE  NoCollision
<1> DEFINE At(p, i) == ParentHash(p.chunks)[i]
           Same(p, q, i, j) == SubSeq(p.chunks, 1, i) = SubSeq(q.chunks, 1, j)
           Agree(i) == \A p, q \in Prompts : \A j \in 0 .. Len(q.chunks) :
                         i <= Len(p.chunks) /\ At(p, i) = At(q, j) => Same(p, q, i, j)
           S == {i \in Nat : Agree(i)}
<1>1. ASSUME NEW p \in Prompts
      PROVE  /\ p.chunks \in Seq(Chunks) /\ Len(p.chunks) \in Nat /\ At(p, 0) = RootHash
             /\ \A i \in 1 .. Len(p.chunks) :
                  /\ <<At(p, i - 1), p.chunks[i]>> \in HashValues \X Chunks
                  /\ At(p, i) = Hash[<<At(p, i - 1), p.chunks[i]>>]
  <2> DEFINE s == p.chunks
             h == ParentHash(s)
  <2>1. s \in Seq(Chunks) /\ Len(s) \in Nat
    BY PromptAssumption
  <2> HIDE DEF s
  <2>2. IsChain(h, s, Len(s)) /\ h \in [0 .. Len(s) -> HashValues]
    BY <2>1, ParentHashIsChain, ParentHashType
  <2> HIDE DEF h
  <2>3. h[0] = RootHash
    BY <2>1, <2>2 DEF IsChain
  <2>4. ASSUME NEW i \in 1 .. Len(s)
        PROVE  <<h[i - 1], s[i]>> \in HashValues \X Chunks /\ h[i] = Hash[<<h[i - 1], s[i]>>]
    <3>1. i \in 0 .. Len(s) /\ i - 1 \in 0 .. Len(s) /\ i # 0 /\ s[i] \in Chunks
      BY <2>1
    <3>2. QED
      BY <2>2, <3>1 DEF IsChain
  <2>5. QED
    BY <2>1, <2>3, <2>4 DEF s, h
<1> HIDE DEF At
<1>1a. ASSUME NEW q \in Prompts, NEW j \in 0 .. Len(q.chunks), At(q, j) = RootHash
       PROVE  j = 0
  <2>1. Len(q.chunks) \in Nat
    BY <1>1
  <2>2. j # 0 => j \in 1 .. Len(q.chunks)
    BY <2>1
  <2>3. ASSUME NEW i \in 1 .. Len(q.chunks)
        PROVE  At(q, i) # RootHash
    <3>1. PICK x \in HashValues \X Chunks : At(q, i) = Hash[x]
      BY <1>1
    <3>2. QED
      BY <3>1
  <2>4. QED
    BY <1>1a, <2>2, <2>3
<1>2. Agree(0)
  <2>1. \A p, q \in Prompts : \A j \in 0 .. Len(q.chunks) : At(p, 0) = At(q, j) => j = 0
    BY <1>1, <1>1a
  <2>2. \A p, q \in Prompts : SubSeq(p.chunks, 1, 0) = SubSeq(q.chunks, 1, 0)
    BY <1>1
  <2>3. QED
    BY <2>1, <2>2
<1>3. ASSUME NEW i \in Nat, Agree(i)
      PROVE  Agree(i + 1)
  <2>1. ASSUME NEW p \in Prompts, NEW q \in Prompts, NEW j \in 0 .. Len(q.chunks),
               i + 1 <= Len(p.chunks), At(p, i + 1) = At(q, j)
        PROVE  Same(p, q, i + 1, j)
    <3>1. i + 1 \in 1 .. Len(p.chunks) /\ (i + 1) - 1 = i /\ i <= Len(p.chunks)
      BY <1>1, <2>1
    <3>2. j # 0
      <4>1. At(p, i + 1) # RootHash
        BY <1>1a, <3>1
      <4>2. QED
        BY <1>1, <2>1, <4>1
    <3>3. j \in 1 .. Len(q.chunks) /\ j - 1 \in 0 .. Len(q.chunks)
      BY <1>1, <3>2
    <3>4. /\ At(p, i + 1) = Hash[<<At(p, i), p.chunks[i + 1]>>]
          /\ <<At(p, i), p.chunks[i + 1]>> \in HashValues \X Chunks
      BY <1>1, <3>1
    <3>5. /\ At(q, j) = Hash[<<At(q, j - 1), q.chunks[j]>>]
          /\ <<At(q, j - 1), q.chunks[j]>> \in HashValues \X Chunks
      BY <1>1, <3>3
    <3>6. At(p, i) = At(q, j - 1) /\ p.chunks[i + 1] = q.chunks[j]
      BY <2>1, <3>4, <3>5
    <3>7. SubSeq(p.chunks, 1, (i + 1) - 1) = SubSeq(q.chunks, 1, j - 1)
      BY <1>3, <3>1, <3>3, <3>6
    <3>8. QED
      BY <1>1, <3>1, <3>3, <3>6, <3>7, PrefixesExtend
  <2>2. QED
    BY <2>1
<1>4. Nat \subseteq S
  <2>1. 0 \in S /\ \A i \in Nat : i \in S => i + 1 \in S
    <3> HIDE DEF Agree
    <3>1. QED
      BY <1>2, <1>3
  <2> HIDE DEF S
  <2>2. QED
    BY <2>1, NatSetInduction
<1>5. ASSUME NEW p \in Prompts, NEW q \in Prompts,
             NEW i \in 0 .. Len(p.chunks), NEW j \in 0 .. Len(q.chunks),
             At(p, i) = At(q, j)
      PROVE  Same(p, q, i, j)
  <2>1. i \in Nat /\ i <= Len(p.chunks)
    BY <1>1
  <2>2. Agree(i)
    BY <1>4, <2>1
  <2>3. QED
    BY <1>5, <2>1, <2>2
<1>6. QED
  BY <1>5 DEF NoCollision, At

\* A request that stays live keeps its prompt, the blocks of it and what they hold.
LEMMA OldPromptsStay ==
  ASSUME FidelityInv, Next, NEW r \in Live(kv) \cap Live(kv'),
         NEW i \in 1 .. Len(kv.prov[r].chunks)
  PROVE  /\ kv'.prov[r].chunks = kv.prov[r].chunks
         /\ kv'.tables[r][i] = kv.tables[r][i]
         /\ written'[kv.tables[r][i]] = SubSeq(kv.prov[r].chunks, 1, i)
<1>1. /\ kv \in Manager /\ Valid(kv) /\ kv' \in Manager
      /\ StableTables(kv, kv') /\ ChunksKept(kv, kv') /\ IInv /\ PrefixFidelity
  BY CallsKeepManager DEF FidelityInv, IInv, TypeOK, Keeps
<1> DEFINE t == kv.tables[r]
           u == kv'.tables[r]
<1>2. i \in DOMAIN t /\ t[i] \in Range(t)
  BY <1>1, PromptBlocksAreHeld
<1>3. u[i] = t[i]
  <2>1. t \in Seq(Block) /\ u \in Seq(Block) /\ IsPrefix(t, u)
    BY <1>1 DEF Manager, Live, StableTables
  <2> HIDE DEF t, u
  <2>2. QED
    BY <1>2, <2>1 DEF IsPrefix
<1>4. written'[t[i]] = written[t[i]]
  BY <1>1, <1>2, AdmissionWritesOwnBlocks
<1>5. written[t[i]] = SubSeq(kv.prov[r].chunks, 1, i)
  BY <1>1 DEF PrefixFidelity
<1>6. QED
  BY <1>1, <1>3, <1>4, <1>5 DEF ChunksKept

LEMMA KeysStayTrue ==
  ASSUME FidelityInv, Next
  PROVE  KeysAreTrue'
<1>1. /\ IInv /\ KeysAreTrue /\ PromptsAreTheirs
      /\ kv' \in Manager /\ Valid(kv') /\ KeysKept(kv, kv')
  BY CallsKeepManager DEF FidelityInv, Keeps
<1>2. ASSUME NEW b \in Block, kv'.blocks[b].key # None
      PROVE  \E p \in Prompts : \E i \in 1 .. Len(p.chunks) :
               kv'.blocks[b].key = KeyAt(p.chunks, i) /\ written'[b] = SubSeq(p.chunks, 1, i)
  <2>1. CASE kv'.blocks[b].key = kv.blocks[b].key
    <3>1. written'[b] = written[b]
      BY <1>1, <1>2, WrittenBlocksAreNew
    <3>2. PICK p \in Prompts : \E i \in 1 .. Len(p.chunks) :
            kv.blocks[b].key = KeyAt(p.chunks, i) /\ written[b] = SubSeq(p.chunks, 1, i)
      BY <1>1, <1>2, <2>1 DEF KeysAreTrue
    <3>3. QED
      BY <2>1, <3>1, <3>2
  <2>2. CASE \E s \in Live(kv) \cap Live(kv') :
               \E i \in 1 .. Len(kv.prov[s].chunks) : b = kv.tables[s][i]
    <3>1. PICK s \in Live(kv) \cap Live(kv') :
            \E i \in 1 .. Len(kv.prov[s].chunks) : b = kv.tables[s][i]
      BY <2>2
    <3>2. PICK i \in 1 .. Len(kv.prov[s].chunks) : b = kv.tables[s][i]
      BY <3>1
    <3>3. /\ kv'.prov[s].chunks = kv.prov[s].chunks /\ kv'.tables[s][i] = b
          /\ written'[b] = SubSeq(kv.prov[s].chunks, 1, i)
      BY <3>2, OldPromptsStay
    <3>4. kv'.blocks[b].key = KeyAt(kv.prov[s].chunks, i)
      BY <1>1, <1>2, <3>2, <3>3 DEF Valid, KeysValid, Live
    <3>5. kv.prov[s].chunks # <<>>
      BY <3>2
    <3>6. PICK p \in Prompts : kv.prov[s].chunks = p.chunks
      BY <1>1, <3>5 DEF PromptsAreTheirs
    <3>7. QED
      BY <3>2, <3>3, <3>4, <3>6
  <2>3. QED
    BY <1>1, <1>2, <2>1, <2>2 DEF KeysKept
<1>3. QED
  BY <1>2 DEF KeysAreTrue

\* What a newly admitted request finds in the cache is its prompt, and what it
\* does not find it computes.
LEMMA NewPromptsAreTrue ==
  ASSUME NoCollision, FidelityInv, Next, NEW r \in Live(kv') \ Live(kv),
         NEW i \in 1 .. Len(kv'.prov[r].chunks)
  PROVE  written'[kv'.tables[r][i]] = SubSeq(kv'.prov[r].chunks, 1, i)
<1> DEFINE q == kv'.prov[r]
           b == kv'.tables[r][i]
<1>1. kv' \in Manager /\ Valid(kv') /\ NewlyAdmitted(r)
  BY CallsKeepManager DEF FidelityInv, Keeps
<1>2. q \in RequestProvenance /\ TableValid(kv', r) /\ KeysValid(kv', r)
  BY <1>1 DEF Manager, Live, Valid
<1>3. q.chunks \in Seq(Chunks) /\ q.matched \in Nat /\ i \in Nat
  BY <1>2 DEF RequestProvenance
<1>4. q.chunks # <<>>
  <2>1. Len(<<>>) = 0 /\ 1 .. 0 = {}
    OBVIOUS
  <2>2. QED
    BY <2>1
<1>5. PICK p \in Prompts : q.chunks = p.chunks
  BY <1>1, <1>4 DEF NewlyAdmitted
<1>6. written' = WrittenBy(kv', r)
  BY <1>1, <1>4 DEF NewlyAdmitted
<1>7. i \in DOMAIN kv'.tables[r] /\ b \in Block
  BY <1>1, PromptBlocksAreHeld
<1>8. CASE i > q.matched
  <2> DEFINE computed == {k \in (q.matched + 1) .. Len(q.chunks) : kv'.tables[r][k] = b}
  <2>1. i \in computed
    BY <1>3, <1>8
  <2>2. ASSUME NEW k \in computed
        PROVE  k = i
    <3>1. k \in 1 .. Len(q.chunks)
      BY <1>3
    <3>2. k \in DOMAIN kv'.tables[r] /\ kv'.tables[r][k] = kv'.tables[r][i]
      BY <1>1, <3>1, PromptBlocksAreHeld
    <3>3. IsInjective(kv'.tables[r])
      BY <1>2 DEF TableValid
    <3>4. QED
      BY <1>7, <3>2, <3>3 DEF IsInjective
  <2> HIDE DEF b
  <2>3. written'[b] = IF computed = {} THEN written[b]
                      ELSE SubSeq(q.chunks, 1, CHOOSE k \in computed : TRUE)
    BY <1>6, <1>7 DEF WrittenBy
  <2> HIDE DEF computed
  <2>4. computed # {} /\ (CHOOSE k \in computed : TRUE) = i
    BY <2>1, <2>2
  <2>5. QED
    BY <2>3, <2>4 DEF b
<1>9. CASE i <= q.matched
  <2>1. kv'.blocks[b].key = KeyAt(q.chunks, i) /\ kv'.blocks[b].key # None
    BY <1>2, <1>9 DEF KeysValid
  <2>2. KeysAreTrue'
    BY KeysStayTrue
  <2>3. PICK p2 \in Prompts : \E j \in 1 .. Len(p2.chunks) :
          kv'.blocks[b].key = KeyAt(p2.chunks, j) /\ written'[b] = SubSeq(p2.chunks, 1, j)
    BY <1>7, <2>1, <2>2 DEF KeysAreTrue
  <2>4. PICK j \in 1 .. Len(p2.chunks) :
          kv'.blocks[b].key = KeyAt(p2.chunks, j) /\ written'[b] = SubSeq(p2.chunks, 1, j)
    BY <2>3
  <2>5. KeyAt(p.chunks, i) = KeyAt(p2.chunks, j) /\ i \in 1 .. Len(p.chunks)
    BY <1>5, <2>1, <2>4
  <2> HIDE DEF b, q
  <2>6. SubSeq(p.chunks, 1, i) = SubSeq(p2.chunks, 1, j)
    BY <2>5, KeyTellsPrefix
  <2>7. QED
    BY <1>5, <2>4, <2>6 DEF b, q
<1>10. QED
  BY <1>3, <1>8, <1>9

\* PrefixFidelity: as long as no two prompts collide, the blocks that a request
\* shares hold the KV entries of its own prompt, whoever computed them, and nobody
\* overwrites them while it lives.
THEOREM PrefixIsFaithful ==
  ASSUME NoCollision
  PROVE  Spec => []PrefixFidelity
<1>1. ASSUME FidelityInv, Next
      PROVE  FidelityInv'
  <2>1. IInv /\ PrefixFidelity /\ PromptsAreTheirs
    BY <1>1 DEF FidelityInv
  <2>2. IInv'
    BY <1>1, <2>1, CallsKeepIInv
  <2>3. ChunksKept(kv, kv') /\ \A r \in Live(kv') \ Live(kv) : NewlyAdmitted(r)
    BY <1>1, <2>1, CallsKeepManager DEF Keeps
  <2>4. PromptsAreTheirs'
    BY <2>1, <2>3 DEF PromptsAreTheirs, ChunksKept, NewlyAdmitted
  <2>5. ASSUME NEW r \in Live(kv'), NEW i \in 1 .. Len(kv'.prov[r].chunks)
        PROVE  written'[kv'.tables[r][i]] = SubSeq(kv'.prov[r].chunks, 1, i)
    <3>1. CASE r \in Live(kv)
      <4>1. kv'.prov[r].chunks = kv.prov[r].chunks
        BY <2>3, <2>5, <3>1 DEF ChunksKept
      <4>2. QED
        BY <1>1, <2>5, <3>1, <4>1, OldPromptsStay
    <3>2. CASE r \notin Live(kv)
      BY <1>1, <2>5, <3>2, NewPromptsAreTrue
    <3>3. QED
      BY <3>1, <3>2
  <2>6. PrefixFidelity'
    BY <2>5 DEF PrefixFidelity
  <2>7. QED
    BY <1>1, <2>2, <2>4, <2>6, KeysStayTrue DEF FidelityInv
<1>2. ASSUME Init
      PROVE  FidelityInv
  <2>1. IInv
    BY <1>2, InitiallyValid
  <2>2. Live(kv) = {} /\ \A b \in Block : kv.blocks[b].key = None
    BY <1>2 DEF Init, EmptyManager, FreeBlock, Live
  <2>3. QED
    BY <2>1, <2>2 DEF FidelityInv, PrefixFidelity, KeysAreTrue, PromptsAreTheirs
<1>3. ASSUME FidelityInv, UNCHANGED vars
      PROVE  FidelityInv'
  BY <1>3 DEF vars, FidelityInv, IInv, TypeOK, PrefixFidelity, KeysAreTrue, PromptsAreTheirs, Live
<1>4. FidelityInv /\ [Next]_vars => FidelityInv'
  BY <1>1, <1>3
<1>5. FidelityInv => PrefixFidelity
  BY DEF FidelityInv
<1>6. QED
  BY <1>2, <1>4, <1>5, PTL DEF Spec

-----------------------------------------------------------------------------
(* How calls end *)

\* A call that ends in std::logic_error dropped its copy, or made none: the manager is
\* as before.
DropsItsCopy(m, reply) == reply.outcome \in {"logic_error", "misplanned"} => reply.kv = m

LEMMA LogicErrorChangesNothing ==
  ASSUME NEW m, NEW r
  PROVE  /\ \A tokens : DropsItsCopy(m, AllocatePrompt(m, r, tokens))
         /\ \A prompt, supplied, protected :
              DropsItsCopy(m, AllocatePromptProtecting(m, r, prompt, supplied, protected))
         /\ DropsItsCopy(m, InsertCompletedPromptBlocks(m, r))
         /\ DropsItsCopy(m, AppendDecodeToken(m, r))
         /\ DropsItsCopy(m, ReleaseRequest(m, r))
         /\ \A count : DropsItsCopy(m, EvictUnusedBlocks(m, count))
<1>1. /\ \A copy : DropsItsCopy(m, Commit(m, copy))
      /\ DropsItsCopy(m, NoteCapacityError(m))
      /\ \A o : DropsItsCopy(m, Refuse(m, o))
  BY DEF Commit, NoteCapacityError, Refuse, DropsItsCopy
<1>2. \A tokens : DropsItsCopy(m, AllocatePrompt(m, r, tokens))
  BY <1>1 DEF AllocatePrompt
<1>3. \A prompt, supplied, protected :
        DropsItsCopy(m, AllocatePromptProtecting(m, r, prompt, supplied, protected))
  <2>1. \A prompt, supplied : DropsItsCopy(m, AllocatePromptWithPrefix(m, r, prompt, supplied))
    BY <1>1 DEF AllocatePromptWithPrefix
  <2>2. QED
    BY <1>1, <2>1 DEF AllocatePromptProtecting
<1>4. DropsItsCopy(m, InsertCompletedPromptBlocks(m, r))
  BY <1>1 DEF InsertCompletedPromptBlocks
<1>5. DropsItsCopy(m, AppendDecodeToken(m, r))
  BY <1>1 DEF AppendDecodeToken
<1>6. DropsItsCopy(m, ReleaseRequest(m, r))
  BY <1>1 DEF ReleaseRequest
<1>7. \A count : DropsItsCopy(m, EvictUnusedBlocks(m, count))
  BY <1>1 DEF EvictUnusedBlocks
<1>8. QED
  BY <1>2, <1>3, <1>4, <1>5, <1>6, <1>7

\* How a call ends: in std::logic_error only when a live request holds a duplicate
\* of a cached block, and then without any effect.
LEMMA CallsEnd ==
  ASSUME \A p \in Prompts : DistinctKeys(p.chunks), IInv, IsFiniteSet(Live(kv)), Next
  PROVE  /\ IsFiniteSet(Live(kv'))
         /\ outcome' = "logic_error" => kv' = kv /\ ~NoDuplicates(kv)
<1>1. kv \in Manager /\ Valid(kv)
  BY DEF IInv, TypeOK
<1>2. \A r \in Requests : r \in Live(kv) <=> kv.prov[r] # None
  BY DEF Live
<1>3. ASSUME NEW r, IsFiniteSet(Live(kv) \cup {r}), Live(kv') \subseteq Live(kv) \cup {r}
      PROVE  IsFiniteSet(Live(kv'))
  BY <1>3, FS_Subset
<1>4. \A r : IsFiniteSet(Live(kv) \cup {r})
  BY FS_AddElement
<1>5. ASSUME NEW r \in Requests, NEW tokens \in CountPrompts, AdmitCountOnly(r, tokens)
      PROVE  /\ \E s : Live(kv') \subseteq Live(kv) \cup {s}
             /\ outcome' = "logic_error" => kv' = kv /\ ~NoDuplicates(kv)
  <2> DEFINE reply == AllocatePrompt(kv, r, tokens)
  <2>1. kv' = reply.kv /\ outcome' = reply.outcome /\ kv.prov[r] = None /\ tokens \in Nat
    BY <1>5, <1>2, PromptAssumption DEF AdmitCountOnly, Take
  <2>2. Refused(kv, reply) \/ Granted(kv, r, reply)
    BY <1>1, <2>1, AllocatePromptReply
  <2>3. DropsItsCopy(kv, reply)
    BY LogicErrorChangesNothing
  <2>4. NoDuplicates(kv) => reply.outcome \in {"ok", "capacity", "overflow"}
    BY <1>1, <2>1, AllocatePromptIsValid
  <2> HIDE DEF reply
  <2>5. Live(kv') \subseteq Live(kv) \cup {r}
    BY <1>1, <2>1, <2>2, RefusedAdmitsNobody, GrantedAdmitsOne
  <2>6. QED
    BY <2>1, <2>3, <2>4, <2>5 DEF DropsItsCopy
<1>6. ASSUME NEW r \in Requests, NEW prompt \in Prompts, NEW supplied, NEW protected,
             AdmitExact(r, prompt, supplied, protected)
      PROVE  /\ \E s : Live(kv') \subseteq Live(kv) \cup {s}
             /\ outcome' = "logic_error" => kv' = kv /\ ~NoDuplicates(kv)
  <2> DEFINE reply == AllocatePromptProtecting(kv, r, prompt, supplied, protected)
  <2>1. kv' = reply.kv /\ outcome' = reply.outcome /\ kv.prov[r] = None /\ PrefixEnabled
    BY <1>6, <1>2 DEF AdmitExact, Take
  <2>2. /\ prompt = [chunks |-> prompt.chunks, tail |-> prompt.tail]
        /\ prompt.chunks \in Seq(Chunks) /\ prompt.tail \in 0 .. BlockSize - 1
    BY PromptAssumption
  <2>3. Refused(kv, reply) \/ Granted(kv, r, reply)
    BY <1>1, <2>1, AllocatePromptProtectingReply
  <2>4. DropsItsCopy(kv, reply)
    BY LogicErrorChangesNothing
  <2>5. NoDuplicates(kv)
          => reply.outcome \in {"ok", "stale", "capacity", "overflow", "misplanned"}
    <3> DEFINE plain == AllocatePromptWithPrefix(kv, r, prompt, supplied)
    <3>1. NoDuplicates(kv) => plain.outcome \in {"ok", "stale", "capacity", "overflow"}
      BY <1>1, <2>1, <2>2, AllocatePromptWithPrefixIsValid
    <3>2. reply = plain \/ reply.outcome \in {"stale", "capacity", "overflow", "misplanned"}
      BY <1>1, ProtectingReply
    <3> HIDE DEF plain
    <3>3. QED
      BY <3>1, <3>2
  <2> HIDE DEF reply
  <2>6. Live(kv') \subseteq Live(kv) \cup {r}
    BY <1>1, <2>1, <2>3, RefusedAdmitsNobody, GrantedAdmitsOne
  <2>7. QED
    BY <2>1, <2>4, <2>5, <2>6 DEF DropsItsCopy
<1>7. ASSUME NEW r \in Requests, Publish(r)
      PROVE  /\ \E s : Live(kv') \subseteq Live(kv) \cup {s}
             /\ outcome' = "logic_error" => kv' = kv /\ ~NoDuplicates(kv)
  <2> DEFINE reply == InsertCompletedPromptBlocks(kv, r)
  <2>1. /\ kv' = reply.kv /\ outcome' = reply.outcome /\ r \in Live(kv)
        /\ kv.prov[r].exact /\ kv.prov[r].matched < Len(kv.prov[r].chunks)
    BY <1>7 DEF Publish, Take
  <2>2. Refused(kv, reply) \/ Reclaimed(kv, reply)
    BY <1>1, <1>2, <2>1, InsertCompletedPromptBlocksReply
  <2>3. reply.outcome \in {"ok", "overflow"}
    BY <1>1, <2>1, InsertCompletedPromptBlocksIsValid
  <2> HIDE DEF reply
  <2>4. QED
    BY <1>1, <2>1, <2>2, <2>3, RefusedAdmitsNobody, ReclaimedAdmitsNobody
<1>8. ASSUME NEW r \in Requests, Decode(r)
      PROVE  /\ \E s : Live(kv') \subseteq Live(kv) \cup {s}
             /\ outcome' = "logic_error" => kv' = kv /\ ~NoDuplicates(kv)
  <2> DEFINE reply == AppendDecodeToken(kv, r)
  <2>1. kv' = reply.kv /\ outcome' = reply.outcome /\ r \in Live(kv)
    BY <1>8 DEF Decode, Take
  <2>2. \/ Refused(kv, reply)
        \/ (Granted(kv, r, reply) \/ Appended(kv, r, reply)) /\ reply.kv.prov = kv.prov
    BY <1>1, <1>2, <2>1, AppendDecodeTokenReply
  <2>3. DropsItsCopy(kv, reply)
    BY LogicErrorChangesNothing
  <2>4. NoDuplicates(kv) => reply.outcome \in {"ok", "capacity", "overflow"}
    BY <1>1, <2>1, AppendDecodeTokenIsValid
  <2> HIDE DEF reply
  <2>5. reply.kv.prov = kv.prov => Live(reply.kv) = Live(kv)
    BY DEF Live
  <2>6. QED
    BY <1>1, <2>1, <2>2, <2>3, <2>4, <2>5, RefusedAdmitsNobody DEF DropsItsCopy
<1>9. ASSUME NEW r \in Requests, Release(r)
      PROVE  /\ \E s : Live(kv') \subseteq Live(kv) \cup {s}
             /\ outcome' = "logic_error" => kv' = kv /\ ~NoDuplicates(kv)
  <2> DEFINE reply == ReleaseRequest(kv, r)
  <2>1. kv' = reply.kv /\ outcome' = reply.outcome /\ r \in Live(kv)
    BY <1>9 DEF Release, Take
  <2>2. Refused(kv, reply) \/ Reclaimed(kv, reply)
    BY <1>1, <2>1, ReleaseRequestReply
  <2>3. reply.outcome = "ok"
    BY <1>1, <2>1, ReleaseRequestIsValid
  <2> HIDE DEF reply
  <2>4. QED
    BY <1>1, <2>1, <2>2, <2>3, RefusedAdmitsNobody, ReclaimedAdmitsNobody
<1>10. ASSUME NEW count \in 1 .. NumBlocks, Evict(count)
       PROVE  /\ \E s : Live(kv') \subseteq Live(kv) \cup {s}
              /\ outcome' = "logic_error" => kv' = kv /\ ~NoDuplicates(kv)
  <2> DEFINE reply == EvictUnusedBlocks(kv, count)
  <2>1. kv' = reply.kv /\ outcome' = reply.outcome /\ count \in Nat
    BY <1>10, KVAssumption DEF Evict, Take
  <2>2. Refused(kv, reply) \/ Reclaimed(kv, reply)
    BY <1>1, EvictUnusedBlocksReply
  <2>3. DropsItsCopy(kv, reply)
    BY LogicErrorChangesNothing
  <2>4. NoDuplicates(kv) => reply.outcome \in {"ok", "insufficient"}
    BY <1>1, <2>1, EvictUnusedBlocksIsValid
  <2> HIDE DEF reply
  <2>5. QED
    BY <1>1, <2>1, <2>2, <2>3, <2>4, RefusedAdmitsNobody, ReclaimedAdmitsNobody
     DEF DropsItsCopy
<1>11. /\ \E s : Live(kv') \subseteq Live(kv) \cup {s}
       /\ outcome' = "logic_error" => kv' = kv /\ ~NoDuplicates(kv)
  BY <1>5, <1>6, <1>7, <1>8, <1>9, <1>10 DEF Next
<1>12. QED
  BY <1>3, <1>4, <1>11

\* No call but an admission that protects blocks has its plan refused.
LEMMA OnlyPlansAreMisplanned ==
  ASSUME NEW m, NEW r
  PROVE  /\ \A tokens : AllocatePrompt(m, r, tokens).outcome # "misplanned"
         /\ \A prompt, supplied :
              AllocatePromptWithPrefix(m, r, prompt, supplied).outcome # "misplanned"
         /\ InsertCompletedPromptBlocks(m, r).outcome # "misplanned"
         /\ AppendDecodeToken(m, r).outcome # "misplanned"
         /\ ReleaseRequest(m, r).outcome # "misplanned"
         /\ \A count : EvictUnusedBlocks(m, count).outcome # "misplanned"
<1>1. /\ \A copy : Commit(m, copy).outcome # "misplanned"
      /\ NoteCapacityError(m).outcome # "misplanned"
      /\ \A o : Refuse(m, o).outcome = o
  BY DEF Commit, NoteCapacityError, Refuse
<1>2. \A tokens : AllocatePrompt(m, r, tokens).outcome # "misplanned"
  BY <1>1 DEF AllocatePrompt
<1>3. \A prompt, supplied : AllocatePromptWithPrefix(m, r, prompt, supplied).outcome # "misplanned"
  BY <1>1 DEF AllocatePromptWithPrefix
<1>4. InsertCompletedPromptBlocks(m, r).outcome # "misplanned"
  BY <1>1 DEF InsertCompletedPromptBlocks
<1>5. AppendDecodeToken(m, r).outcome # "misplanned"
  BY <1>1 DEF AppendDecodeToken
<1>6. ReleaseRequest(m, r).outcome # "misplanned"
  BY <1>1 DEF ReleaseRequest
<1>7. \A count : EvictUnusedBlocks(m, count).outcome # "misplanned"
  BY <1>1 DEF EvictUnusedBlocks
<1>8. QED
  BY <1>2, <1>3, <1>4, <1>5, <1>6, <1>7

\* Leaving blocks out of a plan that takes none, or all there are, changes nothing:
\* enough must be left.
LEMMA ForcedPlansAgree ==
  ASSUME NEW m, NEW S \in SUBSET Block, NEW T \in SUBSET S, NEW short \in Nat,
         short <= Cardinality(T), ~(short > 0 /\ short < Cardinality(S))
  PROVE  LeastRecentlyUsed(m, T, short) = LeastRecentlyUsed(m, S, short)
<1>1. /\ IsFiniteSet(S) /\ Cardinality(S) \in Nat /\ Cardinality(T) \in Nat
      /\ Cardinality(T) <= Cardinality(S)
  BY BlocksAreFinite, FS_Subset
<1>2. CASE short = 0
  <2>1. ASSUME NEW U \in SUBSET Block
        PROVE  LeastRecentlyUsed(m, U, 0) = {}
    <3>1. \A b : Cardinality({a \in U : Older(m, a, b)}) \in Nat
      BY BlocksAreFinite
    <3>2. QED
      BY <3>1 DEF LeastRecentlyUsed
  <2>2. QED
    BY <1>2, <2>1
<1>3. CASE short # 0
  <2>1. Cardinality(S) = Cardinality(T)
    BY <1>1, <1>3
  <2>2. S = T
    BY <1>1, <2>1, FS_Subset
  <2>3. QED
    BY <2>2
<1>4. QED
  BY <1>2, <1>3

\* A refused plan changes nothing, and is refused where the pool left a choice.
LEMMA MisplansAreChoices ==
  ASSUME IInv, Next, outcome' = "misplanned"
  PROVE  kv' = kv /\ \E prompt \in Prompts : HasEvictionChoice(kv, prompt)
<1>1. PICK r \in Requests, prompt \in Prompts :
        \E supplied, protected : AdmitExact(r, prompt, supplied, protected)
  BY OnlyPlansAreMisplanned
     DEF Next, AdmitCountOnly, Publish, Decode, Release, Evict, Take
<1>2. PICK supplied, protected : AdmitExact(r, prompt, supplied, protected)
  BY <1>1
<1> DEFINE reply == AllocatePromptProtecting(kv, r, prompt, supplied, protected)
           matched == Lookup(kv, prompt.chunks)
           required == BlocksRequired(Total(prompt) - Len(matched) * BlockSize)
           short == Shortage(kv, required)
           unmatched == Cached(kv) \ Range(matched)
           T == unmatched \ protected
<1>3. kv' = reply.kv /\ reply.outcome = "misplanned"
  BY <1>2 DEF AdmitExact, Take
<1>4. DropsItsCopy(kv, reply)
  BY LogicErrorChangesNothing
<1>5. /\ ~(short > Cardinality(T))
      /\ LeastRecentlyUsed(kv, T, short) # LeastRecentlyUsed(kv, unmatched, short)
  <2>1. /\ NoteCapacityError(kv).outcome # "misplanned"
        /\ Refuse(kv, "stale").outcome # "misplanned"
        /\ AllocatePromptWithPrefix(kv, r, prompt, supplied).outcome # "misplanned"
    BY OnlyPlansAreMisplanned DEF NoteCapacityError, Refuse
  <2>2. QED
    BY <1>3, <2>1 DEF AllocatePromptProtecting
<1>6. short \in Nat
  <2>1. /\ kv \in Manager /\ prompt.chunks \in Seq(Chunks) /\ prompt.tail \in Nat
        /\ Len(prompt.chunks) \in Nat /\ BlockSize \in Nat \ {0}
    BY PromptAssumption, KVAssumption DEF IInv, TypeOK
  <2>2. Len(matched) \in Nat
    BY <2>1, LookupType
  <2> HIDE DEF matched
  <2>3. \A i, j \in Nat : i * j \in Nat
    OBVIOUS
  <2>4. Total(prompt) \in Nat
    BY <2>1, <2>3 DEF Total
  <2>5. Total(prompt) - Len(matched) * BlockSize \in Int
    BY <2>1, <2>2, <2>3, <2>4
  <2>6. required \in Int
    BY <2>1, <2>5 DEF BlocksRequired
  <2> HIDE DEF required
  <2>7. Cardinality(kv.free) \in Nat
    BY <2>1, BlocksAreFinite DEF Manager
  <2>8. QED
    BY <2>6, <2>7 DEF Shortage
<1>7. /\ unmatched \in SUBSET Block /\ T \in SUBSET unmatched /\ T \in SUBSET Block
      /\ Cardinality(T) \in Nat
  BY BlocksAreFinite DEF Cached
<1>8. HasEvictionChoice(kv, prompt) <=> short > 0 /\ short < Cardinality(unmatched)
  BY DEF HasEvictionChoice
<1> HIDE DEF short, unmatched, T, reply
<1>9. short > 0 /\ short < Cardinality(unmatched)
  BY <1>5, <1>6, <1>7, ForcedPlansAgree
<1>10. QED
  BY <1>3, <1>4, <1>8, <1>9 DEF DropsItsCopy

\* The induction behind the next two theorems: the manager is valid, finitely many
\* requests are live, and the last call ended as CallsEnd says.
EndsInv == IInv /\ IsFiniteSet(Live(kv)) /\ LogicErrorsAreExplained

LEMMA EndsInductive ==
  ASSUME \A p \in Prompts : DistinctKeys(p.chunks)
  PROVE  Spec => []EndsInv
<1>1. ASSUME Init
      PROVE  EndsInv
  <2>1. Live(kv) = {} /\ outcome = "ok"
    BY <1>1 DEF Init, EmptyManager, Live
  <2>2. QED
    BY <1>1, <2>1, InitiallyValid, FS_EmptySet DEF EndsInv, LogicErrorsAreExplained
<1>2. ASSUME EndsInv, Next
      PROVE  EndsInv'
  <2>1. /\ IsFiniteSet(Live(kv'))
        /\ outcome' = "logic_error" => kv' = kv /\ ~NoDuplicates(kv)
    BY <1>2, CallsEnd DEF EndsInv
  <2>2. IInv'
    BY <1>2, CallsKeepIInv DEF EndsInv
  <2>3. outcome' = "misplanned"
          => kv' = kv /\ \E prompt \in Prompts : HasEvictionChoice(kv, prompt)
    BY <1>2, MisplansAreChoices DEF EndsInv
  <2>4. LogicErrorsAreExplained'
    BY <2>1, <2>3 DEF LogicErrorsAreExplained, NoDuplicates
  <2>5. QED
    BY <2>1, <2>2, <2>4 DEF EndsInv
<1>3. ASSUME EndsInv, UNCHANGED vars
      PROVE  EndsInv'
  BY <1>3 DEF vars, EndsInv, IInv, TypeOK, LogicErrorsAreExplained
<1>4. EndsInv /\ [Next]_vars => EndsInv'
  BY <1>2, <1>3
<1>5. QED
  BY <1>1, <1>4, PTL DEF Spec

\* LogicErrorsAreExplained: validate_invariants rejects the working copy of no legal
\* call, except of one that evicts the canonical block whose private duplicate a live
\* request holds; and the exact call refuses no plan of allocate_prompt_with_prefix,
\* except where the prompt needs cached blocks to go, but not all of those it does not
\* share.  The hypothesis is what NoCollision gives for one prompt: a prompt whose own
\* blocks collide is looked up as the same block twice.
THEOREM OnlyExplainedLogicErrors ==
  ASSUME \A p \in Prompts : DistinctKeys(p.chunks)
  PROVE  Spec => []LogicErrorsAreExplained
<1>1. EndsInv => LogicErrorsAreExplained
  BY DEF EndsInv
<1>2. QED
  BY <1>1, EndsInductive, PTL

\* Where distinct keys come from: the blocks of one prompt are prefixes of different
\* lengths, so without a collision no two of them have the same key.
LEMMA NoCollisionGivesDistinctKeys ==
  ASSUME NoCollision, NEW p \in Prompts
  PROVE  DistinctKeys(p.chunks)
<1>1. p.chunks \in Seq(Chunks) /\ Len(p.chunks) \in Nat
  BY PromptAssumption
<1>2. ASSUME NEW i \in 1 .. Len(p.chunks), NEW j \in 1 .. Len(p.chunks),
             KeyAt(p.chunks, i) = KeyAt(p.chunks, j)
      PROVE  i = j
  <2>1. SubSeq(p.chunks, 1, i) = SubSeq(p.chunks, 1, j)
    BY <1>2, KeyTellsPrefix
  <2>2. Len(SubSeq(p.chunks, 1, i)) = i /\ Len(SubSeq(p.chunks, 1, j)) = j
    BY <1>1
  <2>3. QED
    BY <2>1, <2>2
<1>3. QED
  BY <1>2 DEF DistinctKeys

\* The evictable blocks that a lookup did not match.
LEMMA UnmatchedBlocks ==
  ASSUME NEW S, IsFiniteSet(S), NEW found \in Seq(S), IsInjective(found)
  PROVE  Cardinality(S \ Range(found)) = Cardinality(S) - Len(found)
<1>1. Len(found) \in Nat /\ DOMAIN found = 1 .. Len(found)
  OBVIOUS
<1>2. Range(found) \subseteq S
  BY <1>1 DEF Range
<1>3. IsFiniteSet(1 .. Len(found)) /\ Cardinality(1 .. Len(found)) = Len(found)
  <2>1. /\ IsFiniteSet(1 .. Len(found))
        /\ Cardinality(1 .. Len(found)) = IF 1 > Len(found) THEN 0 ELSE Len(found) - 1 + 1
    BY <1>1, FS_Interval
  <2>2. QED
    BY <1>1, <2>1
<1>4. Cardinality(Range(found)) = Len(found)
  <2>1. found \in Bijection(1 .. Len(found), Range(found))
    <3>1. found \in [1 .. Len(found) -> Range(found)]
      BY <1>1 DEF Range
    <3>2. found \in Surjection(1 .. Len(found), Range(found))
      BY <1>1, <3>1 DEF Surjection, Range
    <3>3. found \in Injection(1 .. Len(found), Range(found))
      BY <1>1, <3>1 DEF Injection, IsInjective
    <3>4. QED
      BY <3>2, <3>3 DEF Bijection
  <2>2. ExistsBijection(1 .. Len(found), Range(found))
    BY <2>1 DEF ExistsBijection
  <2>3. QED
    BY <1>3, <2>2, FS_Bijection
<1>5. IsFiniteSet(Range(found)) /\ S \cap Range(found) = Range(found)
  BY <1>2, FS_Subset
<1>6. Cardinality(S \ Range(found)) = Cardinality(S) - Cardinality(S \cap Range(found))
  BY <1>5, FS_Difference
<1>7. QED
  BY <1>4, <1>5, <1>6

\* IdlePoolAdmits: when nobody is live, a prompt that fits the pool is not refused
\* for want of blocks, however full the cache is, and is not an internal error:
\* every block the prompt does not find in the cache is free or can be evicted.
THEOREM IdlePoolAdmitsAll ==
  ASSUME PrefixEnabled, \A p \in Prompts : DistinctKeys(p.chunks)
  PROVE  Spec => []IdlePoolAdmits
<1>1. ASSUME IInv, Live(kv) = {}, NEW r \in Requests, NEW prompt \in Prompts,
             BlocksRequired(Total(prompt)) <= NumBlocks
      PROVE  AllocatePromptWithPrefix(kv, r, prompt, Lookup(kv, prompt.chunks)).outcome
               \in {"ok", "overflow"}
  <2> DEFINE matched == Lookup(kv, prompt.chunks)
             suffix == Total(prompt) - Len(matched) * BlockSize
             required == BlocksRequired(suffix)
             unmatched == Cached(kv) \ Range(matched)
  <2>1. kv \in Manager /\ Valid(kv) /\ kv.prov[r] = None
    BY <1>1 DEF IInv, TypeOK, Live
  <2>2. /\ prompt = [chunks |-> prompt.chunks, tail |-> prompt.tail]
        /\ prompt.chunks \in Seq(Chunks) /\ prompt.tail \in 0 .. BlockSize - 1
        /\ Len(prompt.chunks) \in Nat /\ DistinctKeys(prompt.chunks)
    BY PromptAssumption
  <2>3. /\ NoDuplicates(kv) /\ Block = kv.free \cup Cached(kv)
        /\ Cardinality(kv.free) + Cardinality(Cached(kv)) = NumBlocks
    BY <1>1, <2>1, IdlePool
  <2>4. /\ matched \in Seq(Block) /\ Len(matched) \in 0 .. Len(prompt.chunks)
        /\ IsInjective(matched)
        /\ \A i \in DOMAIN matched : kv.blocks[matched[i]].key = KeyAt(prompt.chunks, i)
    BY <2>1, <2>2, LookupFinds
  <2> HIDE DEF matched
  <2>5. BlocksRequired(Total(prompt)) = Len(matched) + required /\ required \in Nat
    <3> DEFINE L == Len(prompt.chunks)
               n == Len(matched)
               tail == prompt.tail
               total == Total(prompt)
    <3>1. /\ total = L * BlockSize + tail /\ suffix = total - n * BlockSize
          /\ L \in Nat /\ n \in 0 .. L /\ tail \in 0 .. BlockSize - 1
      BY <2>2, <2>4 DEF Total
    <3> HIDE DEF suffix, total, L, n, tail
    <3>2. suffix \in Nat /\ BlocksRequired(total) = n + BlocksRequired(suffix)
      BY <3>1, SuffixOfPrompt
    <3>3. QED
      BY <3>2, BlocksSuffice DEF total, n
  <2>6. matched \in Seq(Cached(kv))
    <3>1. ASSUME NEW i \in DOMAIN matched
          PROVE  matched[i] \in Cached(kv)
      <4>1. matched[i] \in Block
        BY <2>4
      <4>2. KeyAt(prompt.chunks, i) \in Key
        BY <2>2, <2>4, KeyType
      <4>3. kv.blocks[matched[i]].key # None
        BY <2>4, <4>2, NoneAssumption
      <4>4. QED
        BY <2>1, <2>3, <4>1, <4>3, BlockFacts
    <3>2. QED
      BY <2>4, <3>1
  <2>7. IsFiniteSet(Cached(kv)) /\ Cardinality(Cached(kv)) \in Nat
    BY BlocksAreFinite DEF Cached
  <2>8. Cardinality(unmatched) = Cardinality(Cached(kv)) - Len(matched)
    BY <2>4, <2>6, <2>7, UnmatchedBlocks
  <2>9. Cardinality(kv.free) \in Nat
    BY <2>1, BlocksAreFinite DEF Manager
  <2> HIDE DEF suffix, unmatched
  <2>10. ~(Shortage(kv, required) > Cardinality(unmatched))
    <3>1. Len(matched) \in Nat /\ NumBlocks \in Nat
      BY <2>4, KVAssumption
    <3> HIDE DEF required
    <3>2. /\ Cardinality(unmatched) \in Int
          /\ required - Cardinality(kv.free) <= Cardinality(unmatched)
      BY <1>1, <2>3, <2>5, <2>7, <2>8, <2>9, <3>1
    <3>3. Cardinality(unmatched) >= 0
      <4>1. IsFiniteSet(unmatched)
        BY <2>7, FS_Subset DEF unmatched
      <4>2. QED
        BY <4>1, FS_CardinalityType
    <3>4. QED
      BY <2>5, <2>9, <3>2, <3>3 DEF Shortage
  <2>11. IsFiniteSet(Live(kv))
    BY <1>1, FS_EmptySet
  <2>12. QED
    BY <2>1, <2>2, <2>3, <2>10, <2>11, AllocatePromptWithPrefixIsValid
       DEF matched, suffix, unmatched
<1>2. IInv => IdlePoolAdmits
  BY <1>1 DEF IdlePoolAdmits
<1>3. QED
  BY <1>2, InductiveInvariant, PTL

=============================================================================
