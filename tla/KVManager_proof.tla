--------------------------- MODULE KVManager_proof ---------------------------
(***************************************************************************)
(* Lemmas about the manager's operations, for every pool size, block size, *)
(* hash function, set of requests and set of prompts: whatever an          *)
(* operation replies, the manager it leaves has its type and is valid,     *)
(* blocks that live requests hold are neither moved nor rewritten, and     *)
(* cached blocks go in the order of their last use, under pressure only.   *)
(* From the sums of functions on: the copy an operation commits is valid,  *)
(* unless it evicts a block of which a live request holds a duplicate.     *)
(***************************************************************************)
EXTENDS KVManager, FiniteSetTheorems, WellFoundedInduction, TLAPS

-----------------------------------------------------------------------------
(* The chain of parent hashes: it exists, and every hash in it is one.       *)

LEMMA NatSetInduction ==
  ASSUME NEW S, 0 \in S, \A n \in Nat : n \in S => n + 1 \in S
  PROVE  Nat \subseteq S
<1> DEFINE T == Nat \ S
<1>1. SUFFICES ASSUME T # {} PROVE FALSE
  OBVIOUS
<1>2. PICK x \in T : \A y \in T : ~(<<y, x>> \in OpToRel(<, Nat))
  <2>1. T \subseteq Nat
    OBVIOUS
  <2> HIDE DEF T
  <2>2. QED
    BY <1>1, <2>1, WFMin, NatLessThanWellFounded, Zenon
<1>3. \A y \in T : ~(y < x)
  <2>1. \A y \in Nat : y < x => <<y, x>> \in OpToRel(<, Nat)
    BY <1>2, Zenon DEF OpToRel
  <2>2. QED
    BY <1>2, <2>1
<1>4. x \in Nat /\ x \notin S
  BY <1>2
<1>5. x - 1 \in Nat /\ x - 1 < x
  BY <1>4
<1>6. x - 1 \in S
  BY <1>3, <1>5
<1>7. (x - 1) + 1 \in S
  BY <1>5, <1>6
<1>8. QED
  BY <1>4, <1>7

\* g is the chain of parent hashes of the first n blocks of a prompt.
IsChain(g, chunks, n) ==
  g = [i \in 0 .. n |-> IF i = 0 THEN RootHash ELSE Hash[<<g[i - 1], chunks[i]>>]]

LEMMA ChainExists ==
  ASSUME NEW chunks \in Seq(Chunks)
  PROVE  \E g : IsChain(g, chunks, Len(chunks))
<1> DEFINE L == Len(chunks)
           S == {n \in Nat : n <= L => \E g : IsChain(g, chunks, n)}
<1>1. L \in Nat
  OBVIOUS
<1>2. 0 \in S
  <2>1. IsChain([i \in 0 .. 0 |-> RootHash], chunks, 0)
    BY DEF IsChain
  <2>2. QED
    BY <2>1
<1>3. ASSUME NEW n \in Nat, n \in S
      PROVE  n + 1 \in S
  <2>1. SUFFICES ASSUME n + 1 <= L
                 PROVE  \E g : IsChain(g, chunks, n + 1)
    OBVIOUS
  <2>2. PICK g : IsChain(g, chunks, n)
    BY <1>1, <1>3, <2>1
  <2> DEFINE f == [i \in 0 .. n + 1 |-> IF i = n + 1 THEN Hash[<<g[n], chunks[n + 1]>>] ELSE g[i]]
  <2>3. \A i \in 0 .. n : f[i] = g[i]
    OBVIOUS
  <2>4. ASSUME NEW i \in 0 .. n + 1
        PROVE  f[i] = IF i = 0 THEN RootHash ELSE Hash[<<f[i - 1], chunks[i]>>]
    <3>1. CASE i = n + 1
      <4>1. f[i - 1] = g[n]
        BY <2>3, <3>1
      <4>2. f[n + 1] = Hash[<<g[n], chunks[n + 1]>>]
        OBVIOUS
      <4> HIDE DEF f
      <4>3. i # 0
        BY <3>1
      <4>4. f[i] = Hash[<<f[i - 1], chunks[i]>>]
        BY <3>1, <4>1, <4>2
      <4>5. QED
        BY <4>3, <4>4
    <3>2. CASE i \in 0 .. n
      <4>1. g[i] = IF i = 0 THEN RootHash ELSE Hash[<<g[i - 1], chunks[i]>>]
        BY <2>2, <3>2 DEF IsChain
      <4>2. f[i] = g[i] /\ (i # 0 => f[i - 1] = g[i - 1])
        BY <2>3, <3>2
      <4>3. QED
        BY <4>1, <4>2
    <3>3. QED
      BY <3>1, <3>2
  <2>5. f = [i \in 0 .. n + 1 |-> f[i]]
    OBVIOUS
  <2> HIDE DEF f
  <2>6. IsChain(f, chunks, n + 1)
    BY <2>4, <2>5 DEF IsChain
  <2>7. QED
    BY <2>6
<1>4. Nat \subseteq S
  <2> HIDE DEF S
  <2>1. QED
    BY <1>2, <1>3, NatSetInduction
<1>5. QED
  BY <1>1, <1>4

LEMMA ParentHashIsChain ==
  ASSUME NEW chunks \in Seq(Chunks)
  PROVE  IsChain(ParentHash(chunks), chunks, Len(chunks))
<1>1. \A g : IsChain(g, chunks, Len(chunks)) => IsChain(ParentHash(chunks), chunks, Len(chunks))
  BY Zenon DEF ParentHash, IsChain
<1>2. QED
  BY <1>1, ChainExists

LEMMA ParentHashType ==
  ASSUME NEW chunks \in Seq(Chunks)
  PROVE  ParentHash(chunks) \in [0 .. Len(chunks) -> HashValues]
<1> DEFINE L == Len(chunks)
           h == ParentHash(chunks)
           S == {n \in Nat : n <= L => h[n] \in HashValues}
<1>1. L \in Nat
  OBVIOUS
<1>2. IsChain(h, chunks, L)
  BY ParentHashIsChain
<1> HIDE DEF h
<1>3. 0 \in S
  BY <1>1, <1>2, KVAssumption DEF IsChain
<1>4. ASSUME NEW n \in Nat, n \in S
      PROVE  n + 1 \in S
  <2>1. CASE n + 1 <= L
    <3>1. h[n] \in HashValues /\ chunks[n + 1] \in Chunks
      BY <1>1, <1>4, <2>1
    <3>2. h[n + 1] = Hash[<<h[n], chunks[n + 1]>>]
      BY <1>1, <1>2, <2>1 DEF IsChain
    <3>3. QED
      BY <3>1, <3>2, KVAssumption
  <2>2. CASE ~(n + 1 <= L)
    BY <2>2
  <2>3. QED
    BY <2>1, <2>2
<1>5. Nat \subseteq S
  <2> HIDE DEF S
  <2>1. QED
    BY <1>3, <1>4, NatSetInduction
<1>6. \A n \in 0 .. L : h[n] \in HashValues
  BY <1>1, <1>5
<1>7. h = [n \in 0 .. L |-> h[n]]
  BY <1>2 DEF IsChain
<1> HIDE DEF L
<1>8. h \in [0 .. L -> HashValues]
  BY <1>6, <1>7
<1>9. QED
  BY <1>8 DEF h, L

LEMMA KeyType ==
  ASSUME NEW chunks \in Seq(Chunks), NEW i \in 1 .. Len(chunks)
  PROVE  KeyAt(chunks, i) \in Key
BY ParentHashType DEF KeyAt, Key

-----------------------------------------------------------------------------
(* Replies: a call leaves a validated copy, or the manager it was given    *)
(* with at most a larger failure count.                                    *)

Accepted(reply, copy) ==
  reply.kv = copy /\ copy.represented \in Nat /\ Valid(copy)

Refused(m, reply) ==
  reply.kv = m \/ (/\ m.failures < FailureLimit
                   /\ reply.kv = [m EXCEPT !.failures = m.failures + 1])

LEMMA CommitReply ==
  ASSUME NEW m, NEW copy
  PROVE  Accepted(Commit(m, copy), copy) \/ Refused(m, Commit(m, copy))
BY DEF Commit, Accepted, Refused, Refuse

LEMMA CapacityReply ==
  ASSUME NEW m \in Manager
  PROVE  Refused(m, NoteCapacityError(m))
BY KVAssumption DEF NoteCapacityError, Refused, Refuse, Manager

LEMMA BlocksAreFinite == IsFiniteSet(Block) /\ \A S \in SUBSET Block : IsFiniteSet(S) /\ Cardinality(S) \in Nat
<1>1. IsFiniteSet(Block)
  BY KVAssumption, FS_Interval DEF Block
<1>2. QED
  BY <1>1, FS_Subset, FS_CardinalityType

LEMMA AscendingType ==
  ASSUME NEW S \in SUBSET Block
  PROVE  /\ Len(Ascending(S)) \in Nat
         /\ Ascending(S) \in Seq(Range(Ascending(S)))
         /\ DOMAIN Ascending(S) = 1 .. Len(Ascending(S))
<1> DEFINE n == Cardinality(S)
<1>2. n \in Nat
  BY BlocksAreFinite
<1>3. Ascending(S) = [i \in 1 .. n |-> Ascending(S)[i]]
  BY DEF Ascending
<1>4. \A i \in 1 .. n : Ascending(S)[i] \in Range(Ascending(S))
  BY <1>3 DEF Range
<1> HIDE DEF n
<1>5. Ascending(S) \in [1 .. n -> Range(Ascending(S))]
  BY <1>3, <1>4
<1>6. QED
  BY <1>2, <1>5

-----------------------------------------------------------------------------
(* Ranks: the n first elements of a finite ordered set are n elements.       *)

IsOrder(R, S) ==
  /\ \A a \in S : <<a, a>> \notin R
  /\ \A a, b \in S : a = b \/ <<a, b>> \in R \/ <<b, a>> \in R
  /\ \A a, b, d \in S : <<a, b>> \in R /\ <<b, d>> \in R => <<a, d>> \in R

Below(R, S, b) == {a \in S : <<a, b>> \in R}
Rank(R, S, b)  == Cardinality(Below(R, S, b))
Firsts(R, S, n) == {b \in S : Rank(R, S, b) < n}

LEMMA RankType ==
  ASSUME NEW S, IsFiniteSet(S), NEW R
  PROVE  /\ \A b : IsFiniteSet(Below(R, S, b)) /\ Rank(R, S, b) \in Nat
         /\ \A n : IsFiniteSet(Firsts(R, S, n)) /\ Cardinality(Firsts(R, S, n)) \in Nat
         /\ Cardinality(S) \in Nat
<1>1. \A b : Below(R, S, b) \in SUBSET S
  BY DEF Below
<1>2. \A n : Firsts(R, S, n) \in SUBSET S
  BY DEF Firsts
<1>3. \A s \in SUBSET S : IsFiniteSet(s) /\ Cardinality(s) \in Nat
  BY FS_Subset, FS_CardinalityType
<1>4. QED
  BY <1>1, <1>2, <1>3 DEF Rank

LEMMA RankGrows ==
  ASSUME NEW S, IsFiniteSet(S), NEW R, IsOrder(R, S),
         NEW a \in S, NEW b \in S, <<a, b>> \in R
  PROVE  Rank(R, S, a) < Rank(R, S, b)
<1> DEFINE low == Below(R, S, a)
           high == Below(R, S, b)
<1>1. IsFiniteSet(low) /\ IsFiniteSet(high)
  BY RankType
<1>2. low \subseteq high /\ a \in high /\ a \notin low
  BY DEF IsOrder, Below
<1> HIDE DEF low, high
<1>3. low # high
  BY <1>2
<1>4. Cardinality(low) < Cardinality(high)
  BY <1>1, <1>2, <1>3, FS_Subset, FS_CardinalityType
<1>5. QED
  BY <1>4 DEF Rank, low, high

LEMMA RankIsBelow ==
  ASSUME NEW S, IsFiniteSet(S), NEW R, IsOrder(R, S), NEW b \in S
  PROVE  Rank(R, S, b) < Cardinality(S)
<1> DEFINE low == Below(R, S, b)
<1>1. low \subseteq S /\ b \notin low
  BY DEF IsOrder, Below
<1> HIDE DEF low
<1>2. low # S
  BY <1>1
<1>3. Cardinality(low) < Cardinality(S)
  BY <1>1, <1>2, FS_Subset, FS_CardinalityType
<1>4. QED
  BY <1>3 DEF Rank, low

LEMMA RankTells ==
  ASSUME NEW S, IsFiniteSet(S), NEW R, IsOrder(R, S), NEW a \in S, NEW b \in S
  PROVE  /\ Rank(R, S, a) = Rank(R, S, b) => a = b
         /\ Rank(R, S, a) < Rank(R, S, b) => <<a, b>> \in R
<1>1. Rank(R, S, a) \in Nat /\ Rank(R, S, b) \in Nat
  BY RankType
<1>2. a = b \/ <<a, b>> \in R \/ <<b, a>> \in R
  BY DEF IsOrder
<1>3. <<a, b>> \in R => Rank(R, S, a) < Rank(R, S, b)
  BY RankGrows
<1>4. <<b, a>> \in R => Rank(R, S, b) < Rank(R, S, a)
  BY RankGrows
<1>5. QED
  BY <1>1, <1>2, <1>3, <1>4

\* In a set that is not exhausted by its n first elements, the next one has rank n.
LEMMA NextOfRank ==
  ASSUME NEW S, IsFiniteSet(S), NEW R, IsOrder(R, S), NEW n \in Nat,
         Cardinality(Firsts(R, S, n)) = n, n < Cardinality(S)
  PROVE  \E b \in S : Rank(R, S, b) = n
<1> DEFINE firsts == Firsts(R, S, n)
           ranks == {k \in Nat : \E b \in S \ firsts : Rank(R, S, b) = k}
<1>1. firsts \subseteq S
  BY DEF Firsts
<1>2. firsts # S
  BY RankType
<1>3. PICK x \in S : x \notin firsts
  BY <1>1, <1>2
<1>4. \A b : Rank(R, S, b) \in Nat
  BY RankType
<1> HIDE DEF firsts
<1>5. Rank(R, S, x) \in ranks
  BY <1>3, <1>4
<1>6. ranks \subseteq Nat /\ ranks # {}
  BY <1>5
<1>7. PICK k \in ranks : \A j \in ranks : ~(<<j, k>> \in OpToRel(<, Nat))
  <2> HIDE DEF ranks
  <2>1. QED
    BY <1>6, WFMin, NatLessThanWellFounded, Zenon
<1>8. \A j \in ranks : ~(j < k)
  BY <1>6, <1>7 DEF OpToRel
<1>9. PICK b \in S \ firsts : Rank(R, S, b) = k
  BY <1>7
<1>10. ASSUME NEW a \in S \ firsts
       PROVE  ~(<<a, b>> \in R)
  <2>1. Rank(R, S, a) \in ranks
    BY <1>4
  <2>2. ~(Rank(R, S, a) < Rank(R, S, b))
    BY <1>8, <1>9, <2>1
  <2>3. QED
    BY <1>9, <2>2, RankGrows
<1>11. ASSUME NEW a \in firsts
       PROVE  <<a, b>> \in R
  <2>1. a \in S /\ Rank(R, S, a) < n /\ ~(Rank(R, S, b) < n)
    BY <1>9 DEF firsts, Firsts
  <2>2. Rank(R, S, a) < Rank(R, S, b)
    BY <1>4, <2>1
  <2>3. QED
    BY <1>9, <2>1, <2>2, RankTells
<1>12. Below(R, S, b) = firsts
  BY <1>1, <1>10, <1>11 DEF Below
<1>13. QED
  BY <1>9, <1>12 DEF Rank, firsts

LEMMA FirstsAreCounted ==
  ASSUME NEW S, IsFiniteSet(S), NEW R, IsOrder(R, S), NEW n \in Nat, n <= Cardinality(S)
  PROVE  Cardinality(Firsts(R, S, n)) = n
<1> DEFINE N == {k \in Nat : k <= Cardinality(S) => Cardinality(Firsts(R, S, k)) = k}
<1>1. Cardinality(S) \in Nat /\ \A b : Rank(R, S, b) \in Nat
  BY RankType
<1>2. 0 \in N
  <2>1. Firsts(R, S, 0) = {}
    BY <1>1 DEF Firsts
  <2>2. QED
    BY <2>1, FS_EmptySet
<1>3. ASSUME NEW k \in Nat, k \in N
      PROVE  k + 1 \in N
  <2>1. SUFFICES ASSUME k + 1 <= Cardinality(S)
                 PROVE  Cardinality(Firsts(R, S, k + 1)) = k + 1
    OBVIOUS
  <2>2. Cardinality(Firsts(R, S, k)) = k /\ k < Cardinality(S)
    BY <1>1, <1>3, <2>1
  <2>3. PICK b \in S : Rank(R, S, b) = k
    BY <2>2, NextOfRank
  <2>4. ASSUME NEW a \in S
        PROVE  a \in Firsts(R, S, k + 1) <=> a \in Firsts(R, S, k) \cup {b}
    <3>1. a = b <=> Rank(R, S, a) = k
      BY <2>3, RankTells
    <3>2. QED
      BY <1>1, <3>1 DEF Firsts
  <2>5. Firsts(R, S, k + 1) = Firsts(R, S, k) \cup {b} /\ b \notin Firsts(R, S, k)
    <3>1. Firsts(R, S, k + 1) \subseteq S /\ Firsts(R, S, k) \cup {b} \subseteq S
      BY DEF Firsts
    <3>2. b \notin Firsts(R, S, k)
      BY <2>3 DEF Firsts
    <3>3. QED
      BY <2>4, <3>1, <3>2
  <2>6. IsFiniteSet(Firsts(R, S, k))
    BY RankType
  <2>7. QED
    BY <2>2, <2>5, <2>6, FS_AddElement
<1> HIDE DEF N
<1>4. Nat \subseteq N
  BY <1>2, <1>3, NatSetInduction
<1>5. QED
  BY <1>4 DEF N

\* Every rank below the size of the set is some element's.
LEMMA RanksAreTaken ==
  ASSUME NEW S, IsFiniteSet(S), NEW R, IsOrder(R, S), NEW n \in Nat, n < Cardinality(S)
  PROVE  \E b \in S : Rank(R, S, b) = n
<1>1. n <= Cardinality(S)
  BY RankType
<1>2. QED
  BY <1>1, FirstsAreCounted, NextOfRank

-----------------------------------------------------------------------------
(* The free list and the eviction order. *)

Ids == {p \in Block \X Block : p[1] < p[2]}
Ages(m) == {p \in Block \X Block : Older(m, p[1], p[2])}

LEMMA IdsAreOrdered ==
  ASSUME NEW S \in SUBSET Block
  PROVE  /\ IsFiniteSet(S) /\ IsOrder(Ids, S)
         /\ \A b \in S : Rank(Ids, S, b) = Cardinality({a \in S : a < b})
<1>1. \A b \in S : b \in Int
  BY DEF Block
<1>2. \A a, b \in S : <<a, b>> \in Ids <=> a < b
  BY DEF Ids
<1>3. IsOrder(Ids, S)
  BY <1>1, <1>2 DEF IsOrder
<1>4. \A b \in S : Below(Ids, S, b) = {a \in S : a < b}
  BY <1>2 DEF Below
<1>5. QED
  BY <1>3, <1>4, BlocksAreFinite DEF Rank

LEMMA AgesAreOrdered ==
  ASSUME NEW m \in Manager, NEW S \in SUBSET Block
  PROVE  /\ IsFiniteSet(S) /\ IsOrder(Ages(m), S)
         /\ \A n : LeastRecentlyUsed(m, S, n) = Firsts(Ages(m), S, n)
         /\ \A a, b \in S : <<a, b>> \in Ages(m) <=> Older(m, a, b)
<1>1. \A b \in S : b \in Int /\ m.blocks[b].epoch \in Int
  <2>1. \A b \in S : b \in Block /\ m.blocks[b] \in BlockMetadata
    BY DEF Manager
  <2>2. \A d \in BlockMetadata : d.epoch \in Int
    BY KVAssumption DEF BlockMetadata
  <2>3. \A b \in Block : b \in Int
    BY DEF Block
  <2>4. QED
    BY <2>1, <2>2, <2>3
<1>2. \A a, b \in S : <<a, b>> \in Ages(m) <=> Older(m, a, b)
  BY DEF Ages
<1>3. IsOrder(Ages(m), S)
  <2>1. \A a \in S : ~Older(m, a, a)
    BY <1>1 DEF Older
  <2>2. \A a, b \in S : a = b \/ Older(m, a, b) \/ Older(m, b, a)
    BY <1>1 DEF Older
  <2>3. \A a, b, d \in S : Older(m, a, b) /\ Older(m, b, d) => Older(m, a, d)
    BY <1>1 DEF Older
  <2>4. QED
    BY <1>2, <2>1, <2>2, <2>3 DEF IsOrder
<1>4. \A b \in S : Below(Ages(m), S, b) = {a \in S : Older(m, a, b)}
  BY <1>2 DEF Below
<1>5. \A n : LeastRecentlyUsed(m, S, n) = Firsts(Ages(m), S, n)
  BY <1>4 DEF LeastRecentlyUsed, Firsts, Rank
<1>6. QED
  BY <1>2, <1>3, <1>5, BlocksAreFinite

LEMMA AscendingRange ==
  ASSUME NEW S \in SUBSET Block
  PROVE  Range(Ascending(S)) = S
<1> DEFINE n == Cardinality(S)
           rank(b) == Cardinality({a \in S : a < b})
           nth(i) == NthLowest(S, i)
<1>1. IsFiniteSet(S) /\ IsOrder(Ids, S) /\ \A b \in S : Rank(Ids, S, b) = rank(b)
  BY IdsAreOrdered
<1>2. n \in Nat /\ \A b \in S : rank(b) \in Nat
  BY <1>1, RankType
<1>3. \A b \in S : rank(b) < n
  BY <1>1, RankIsBelow
<1>4. \A a, b \in S : rank(a) = rank(b) => a = b
  <2>1. IsFiniteSet(S) /\ IsOrder(Ids, S)
    BY <1>1
  <2>2. ASSUME NEW a \in S, NEW b \in S, Rank(Ids, S, a) = Rank(Ids, S, b)
        PROVE  a = b
    BY ONLY <2>1, <2>2, RankTells
  <2> HIDE DEF rank
  <2>3. QED
    BY <1>1, <2>2
<1>5. \A k \in Nat : k < n => \E b \in S : rank(b) = k
  BY <1>1, RanksAreTaken
<1>6. \A i : nth(i) = CHOOSE b \in S : rank(b) = i - 1
  BY Zenon DEF NthLowest
<1>7. Ascending(S) = [i \in 1 .. n |-> nth(i)]
  BY DEF Ascending
<1> HIDE DEF rank, n, nth
<1>8. ASSUME NEW i \in 1 .. n
      PROVE  nth(i) \in S
  <2>1. i - 1 \in Nat /\ i - 1 < n
    BY <1>2
  <2>2. \E b \in S : rank(b) = i - 1
    BY <1>5, <2>1
  <2>3. QED
    BY <1>6, <2>2
<1>9. ASSUME NEW b \in S
      PROVE  \E i \in 1 .. n : nth(i) = b
  <2> DEFINE i == rank(b) + 1
  <2>1. i \in 1 .. n /\ i - 1 = rank(b)
    BY <1>2, <1>3
  <2> HIDE DEF i
  <2>2. nth(i) \in S /\ rank(nth(i)) = rank(b)
    BY <1>6, <2>1
  <2>3. nth(i) = b
    BY <1>4, <2>2
  <2>4. QED
    BY <2>1, <2>3
<1>10. QED
  BY <1>7, <1>8, <1>9 DEF Range

\* Asking for at least as many blocks as there are takes them all.
LEMMA LowestIsAll ==
  ASSUME NEW S \in SUBSET Block, NEW n \in Int, Cardinality(S) <= n
  PROVE  Lowest(S, n) = S
<1>1. /\ IsFiniteSet(S) /\ IsOrder(Ids, S)
      /\ \A b \in S : Rank(Ids, S, b) = Cardinality({a \in S : a < b})
  BY IdsAreOrdered
<1>2. Cardinality(S) \in Nat
  BY <1>1, RankType
<1>3. ASSUME NEW b \in S
      PROVE  Cardinality({a \in S : a < b}) < n
  <2>1. Rank(Ids, S, b) < Cardinality(S) /\ Rank(Ids, S, b) \in Nat
    BY <1>1, RankIsBelow, RankType
  <2>2. QED
    BY <1>1, <1>2, <2>1
<1>4. QED
  BY <1>3 DEF Lowest

\* The eviction order: whatever is evicted is older than whatever is kept.
LEMMA EvictionOrder ==
  ASSUME NEW m \in Manager, NEW S \in SUBSET Block, NEW n \in Int,
         NEW b \in LeastRecentlyUsed(m, S, n), NEW d \in S \ LeastRecentlyUsed(m, S, n)
  PROVE  Older(m, b, d)
<1> DEFINE R == Ages(m)
<1>1. /\ IsFiniteSet(S) /\ IsOrder(R, S) /\ LeastRecentlyUsed(m, S, n) = Firsts(R, S, n)
      /\ \A x, y \in S : <<x, y>> \in R <=> Older(m, x, y)
  BY AgesAreOrdered
<1> HIDE DEF R
<1>2. /\ b \in S /\ d \in S /\ Rank(R, S, b) < n /\ ~(Rank(R, S, d) < n)
      /\ Rank(R, S, b) \in Nat /\ Rank(R, S, d) \in Nat
  BY <1>1, RankType DEF Firsts
<1>3. Rank(R, S, b) < Rank(R, S, d)
  BY <1>2
<1>4. QED
  BY <1>1, <1>2, <1>3, RankTells

\* Under shortage, the free blocks and the evicted ones are exactly what the
\* call asks for.
LEMMA PoolIsUsedUp ==
  ASSUME NEW m \in Manager, NEW S \in SUBSET Block, S \cap m.free = {},
         NEW required \in Int, NEW short, short = Shortage(m, required),
         ~(short > Cardinality(S)),
         NEW evictions, evictions = LeastRecentlyUsed(m, S, short), evictions # {}
  PROVE  Lowest(m.free \cup evictions, required) = m.free \cup evictions
<1> DEFINE R == Ages(m)
           F == Cardinality(m.free)
<1>1. IsFiniteSet(S) /\ IsOrder(R, S) /\ evictions = Firsts(R, S, short)
  BY AgesAreOrdered
<1>2. m.free \in SUBSET Block /\ F \in Nat /\ Cardinality(S) \in Nat /\ IsFiniteSet(m.free)
  BY BlocksAreFinite DEF Manager
<1> HIDE DEF R, F
<1>3. short = IF required > F THEN required - F ELSE 0
  BY DEF Shortage, F
<1>4. short # 0
  <2>1. \A b : Rank(R, S, b) \in Nat
    BY <1>1, RankType
  <2>2. Firsts(R, S, 0) = {}
    BY <2>1 DEF Firsts
  <2>3. QED
    BY <1>1, <2>2
<1>5. required > F /\ short = required - F
  BY <1>3, <1>4
<1>6. short \in Nat /\ short <= Cardinality(S)
  BY <1>2, <1>5
<1>7. Cardinality(evictions) = short /\ IsFiniteSet(evictions)
  BY <1>1, <1>6, FirstsAreCounted, RankType
<1>8. evictions \in SUBSET Block /\ m.free \cap evictions = {}
  BY <1>1 DEF Firsts
<1>9. Cardinality(m.free \cup evictions) = required
  <2>1. /\ Cardinality(m.free \cup evictions)
             = Cardinality(m.free) + Cardinality(evictions) - Cardinality(m.free \cap evictions)
        /\ Cardinality(m.free \cap evictions) = 0
    BY <1>2, <1>7, <1>8, FS_Union, FS_EmptySet
  <2>2. QED
    BY <1>2, <1>5, <1>7, <2>1 DEF F
<1>10. QED
  BY <1>2, <1>8, <1>9, LowestIsAll

-----------------------------------------------------------------------------
(* The shape of a manager value while an operation works on it: the fields   *)
(* are there, and what validation does not check is typed already.           *)

IsRecord(m) ==
  m \in [ blocks : {m.blocks}, free : {m.free}, tables : {m.tables}, prov : {m.prov},
          index : {m.index}, represented : {m.represented},
          failures : {m.failures}, epoch : {m.epoch} ]

DraftMetadata ==
  [ state : {"Free", "InUse", "Cached"}, owner : Requests \cup {None}, refs : Int,
    valid : Int, epoch : Int, key : Key \cup {None}, prov : BlockProvenance \cup {None} ]

\* Everything but the tables and the represented-token count.
Draft(m) ==
  /\ IsRecord(m)
  /\ m.blocks \in [Block -> DraftMetadata]
  /\ m.free \in SUBSET Block
  /\ m.prov \in [Requests -> RequestProvenance \cup {None}]
  /\ m.index \in [HashValues -> SUBSET Block]
  /\ m.failures \in 0 .. FailureLimit
  /\ m.epoch \in 0 .. EpochLimit

LEMMA ManagerIsDraft ==
  ASSUME NEW m \in Manager
  PROVE  Draft(m)
<1>1. IsRecord(m)
  BY DEF Manager, IsRecord
<1>2. m.blocks \in [Block -> DraftMetadata]
  BY KVAssumption DEF Manager, BlockMetadata, DraftMetadata
<1>3. QED
  BY <1>1, <1>2 DEF Manager, Draft

LEMMA ValidDraftIsManager ==
  ASSUME NEW m, Draft(m), Valid(m), m.represented \in Nat,
         NEW T, m.tables \in [Requests -> Seq(T)]
  PROVE  m \in Manager
<1>1. ASSUME NEW b \in Block
      PROVE  m.blocks[b] \in BlockMetadata
  <2>1. BlockValid(m, b)
    BY DEF Valid
  <2>2. CASE m.blocks[b].state = "Free"
    <3>1. m.blocks[b] = FreeBlock
      BY <2>1, <2>2 DEF BlockValid
    <3>2. QED
      BY <3>1, KVAssumption DEF FreeBlock, BlockMetadata
  <2>3. CASE m.blocks[b].state # "Free"
    <3>1. m.blocks[b] \in DraftMetadata
      BY DEF Draft
    <3>2. /\ m.blocks[b].valid \in 1 .. BlockSize
          /\ m.blocks[b].epoch \in 1 .. m.epoch
      BY <2>1, <2>3 DEF BlockValid
    <3>3. m.blocks[b].refs \in Nat
      BY <2>1, <2>3, <3>1 DEF BlockValid, DraftMetadata
    <3>4. QED
      BY <3>1, <3>2, <3>3, KVAssumption DEF Draft, DraftMetadata, BlockMetadata
  <2>4. QED
    BY <2>2, <2>3
<1>2. ASSUME NEW r \in Requests
      PROVE  m.tables[r] \in Seq(Block)
  <2>1. CASE r \in Live(m)
    <3>1. Range(m.tables[r]) \subseteq Block
      BY <2>1 DEF Valid, TableValid
    <3>2. m.tables[r] \in Seq(T)
      OBVIOUS
    <3>3. QED
      BY <3>1, <3>2 DEF Range
  <2>2. CASE r \notin Live(m)
    BY <2>2 DEF Valid
  <2>3. QED
    BY <2>1, <2>2
<1>3. /\ m.blocks \in [Block -> BlockMetadata]
      /\ m.tables \in [Requests -> Seq(Block)]
  BY <1>1, <1>2 DEF Draft
<1>4. QED
  BY <1>3 DEF Draft, IsRecord, Manager

-----------------------------------------------------------------------------
(* The steps an operation takes on its copy keep the copy a draft.           *)

LEMMA EvictDraft ==
  ASSUME NEW m, Draft(m), NEW E \in SUBSET Block, NEW e, e = EvictBlocks(m, E)
  PROVE  /\ Draft(e)
         /\ e.blocks = [b \in Block |-> IF b \in E THEN FreeBlock ELSE m.blocks[b]]
         /\ e.free = m.free \cup E
         /\ e.tables = m.tables /\ e.prov = m.prov /\ e.epoch = m.epoch
<1>1. /\ IsRecord(e)
      /\ e.blocks = [b \in Block |-> IF b \in E THEN FreeBlock ELSE m.blocks[b]]
      /\ e.free = m.free \cup E
      /\ e.index = [h \in HashValues |-> m.index[h] \ E]
      /\ e.tables = m.tables /\ e.prov = m.prov /\ e.epoch = m.epoch
      /\ e.failures = m.failures
  BY DEF EvictBlocks, Draft, IsRecord
<1>2. FreeBlock \in DraftMetadata
  BY DEF FreeBlock, DraftMetadata
<1>3. e.blocks \in [Block -> DraftMetadata]
  BY <1>1, <1>2 DEF Draft
<1>4. e.index \in [HashValues -> SUBSET Block]
  BY <1>1 DEF Draft
<1>5. Draft(e)
  BY <1>1, <1>3, <1>4 DEF Draft
<1>6. QED
  BY <1>1, <1>5

ClaimShape(m, c, r, ids) ==
  /\ \A b \in Block \ Range(ids) : c.blocks[b] = m.blocks[b]
  /\ \A b \in Block \cap Range(ids) : c.blocks[b].key = None /\ c.blocks[b].state = "InUse"
  /\ c.free = m.free \ Range(ids)
  /\ c.tables = [m.tables EXCEPT ![r] = @ \o ids]
  /\ c.prov = m.prov

LEMMA ClaimDraft ==
  ASSUME NEW m, Draft(m), NEW r \in Requests, NEW T, NEW ids \in Seq(T),
         NEW tokens \in Int, NEW provenance,
         \A i \in DOMAIN ids : provenance[i] \in BlockProvenance,
         ids = <<>> \/ m.epoch < EpochLimit,
         NEW c, c = ClaimBlocks(m, r, ids, tokens, provenance)
  PROVE  Draft(c) /\ ClaimShape(m, c, r, ids)
<1> DEFINE claimed(i) ==
             [ state |-> "InUse", owner |-> r, refs |-> 1,
               valid |-> TokensAt(tokens, i),
               epoch |-> m.epoch + 1, key |-> None, prov |-> provenance[i] ]
           position(b) == CHOOSE i \in DOMAIN ids : ids[i] = b
<1>1. /\ IsRecord(c)
      /\ c.blocks = [b \in Block |-> IF b \in Range(ids)
                                     THEN claimed(position(b)) ELSE m.blocks[b]]
      /\ c.free = m.free \ Range(ids)
      /\ c.index = m.index
      /\ c.tables = [m.tables EXCEPT ![r] = @ \o ids] /\ c.prov = m.prov
      /\ c.epoch = IF ids = <<>> THEN m.epoch ELSE m.epoch + 1
      /\ c.failures = m.failures
  BY DEF ClaimBlocks, Draft, IsRecord
<1>2. \A b \in Range(ids) : position(b) \in DOMAIN ids
  BY DEF Range
<1>3. ASSUME NEW i \in DOMAIN ids
      PROVE  claimed(i) \in DraftMetadata
  <2>1. i \in Int
    OBVIOUS
  <2>2. TokensAt(tokens, i) \in Int
    BY <2>1, KVAssumption DEF TokensAt
  <2>3. m.epoch + 1 \in Int
    BY DEF Draft
  <2>4. provenance[i] \in BlockProvenance
    OBVIOUS
  <2>5. QED
    BY <2>2, <2>3, <2>4 DEF DraftMetadata
<1> HIDE DEF position, claimed
<1>4. c.blocks \in [Block -> DraftMetadata]
  BY <1>1, <1>2, <1>3 DEF Draft
<1>5. c.epoch \in 0 .. EpochLimit
  BY <1>1, KVAssumption DEF Draft
<1>6. Draft(c)
  BY <1>1, <1>4, <1>5 DEF Draft
<1>7. QED
  BY <1>1, <1>6 DEF ClaimShape, claimed

AcquireShape(m, a, r, ids) ==
  /\ \A b \in Block : a.blocks[b].valid = m.blocks[b].valid /\ a.blocks[b].key = m.blocks[b].key
  /\ \A b \in Block \cap Range(ids) : a.blocks[b].state = "InUse"
  /\ a.free = m.free
  /\ a.tables = [m.tables EXCEPT ![r] = ids]
  /\ a.prov = m.prov
  /\ a.epoch = IF ids = <<>> THEN m.epoch ELSE m.epoch + 1

LEMMA AcquireDraft ==
  ASSUME NEW m, Draft(m), NEW r \in Requests, NEW T, NEW ids \in Seq(T),
         ids = <<>> \/ m.epoch < EpochLimit,
         NEW a, a = AcquireBlocks(m, r, ids)
  PROVE  Draft(a) /\ AcquireShape(m, a, r, ids)
<1> DEFINE acquired(d) ==
             [d EXCEPT !.state = "InUse", !.owner = None, !.refs = @ + 1,
                       !.epoch = m.epoch + 1,
                       !.prov  = IF d.state = "Cached" /\ @ = "ComputedPromptFull"
                                 THEN "SharedPromptFull" ELSE @]
<1>1. /\ IsRecord(a)
      /\ a.blocks = [b \in Block |-> IF b \in Range(ids)
                                     THEN acquired(m.blocks[b]) ELSE m.blocks[b]]
      /\ a.free = m.free
      /\ a.index = m.index
      /\ a.tables = [m.tables EXCEPT ![r] = ids] /\ a.prov = m.prov
      /\ a.epoch = IF ids = <<>> THEN m.epoch ELSE m.epoch + 1
      /\ a.failures = m.failures
  BY DEF AcquireBlocks, Draft, IsRecord
<1>2. ASSUME NEW d \in DraftMetadata
      PROVE  /\ acquired(d) \in DraftMetadata
             /\ acquired(d).valid = d.valid /\ acquired(d).key = d.key
             /\ acquired(d).state = "InUse"
  <2>1. m.epoch + 1 \in Int /\ d.refs + 1 \in Int
    BY DEF Draft, DraftMetadata
  <2>2. (IF d.state = "Cached" /\ d.prov = "ComputedPromptFull"
         THEN "SharedPromptFull" ELSE d.prov) \in BlockProvenance \cup {None}
    BY DEF DraftMetadata, BlockProvenance, FullProvenance
  <2>3. QED
    BY <2>1, <2>2 DEF DraftMetadata
<1> HIDE DEF acquired
<1>3. a.blocks \in [Block -> DraftMetadata]
  BY <1>1, <1>2 DEF Draft
<1>4. a.epoch \in 0 .. EpochLimit
  BY <1>1, KVAssumption DEF Draft
<1>5. Draft(a)
  BY <1>1, <1>3, <1>4 DEF Draft
<1>6. /\ \A b \in Block : a.blocks[b].valid = m.blocks[b].valid /\ a.blocks[b].key = m.blocks[b].key
      /\ \A b \in Block \cap Range(ids) : a.blocks[b].state = "InUse"
  BY <1>1, <1>2 DEF Draft
<1>7. QED
  BY <1>1, <1>5, <1>6 DEF AcquireShape

-----------------------------------------------------------------------------
(* What a call may evict. *)

\* A cached block loses its key only under pressure, which leaves no free block,
\* or without anybody's table changing, and the least recently used goes first.
LastResort(m, c) ==
  LET E == {b \in Cached(m) : c.blocks[b].key # m.blocks[b].key}
  IN  E # {} =>
        /\ c.free = {} \/ c.tables = m.tables
        /\ \A b \in E, d \in Cached(m) \cap Cached(c) : Older(m, b, d)

LEMMA ClaimIsLastResort ==
  ASSUME NEW m \in Manager, Valid(m), NEW S \in SUBSET Cached(m),
         NEW required \in Int, NEW short, short = Shortage(m, required),
         ~(short > Cardinality(S)),
         NEW evictions, evictions = LeastRecentlyUsed(m, S, short),
         NEW ids, ids = Ascending(Lowest(m.free \cup evictions, required)),
         NEW a, \A b \in Block : a.blocks[b].key = m.blocks[b].key,
         \A b \in Cached(m) \ S : a.blocks[b].state = "InUse",
         NEW e, e.blocks = [b \in Block |-> IF b \in evictions THEN FreeBlock ELSE a.blocks[b]],
         e.free = m.free \cup evictions,
         NEW r, NEW c, ClaimShape(e, c, r, ids)
  PROVE  LastResort(m, c)
<1> DEFINE pool == m.free \cup evictions
<1>1. S \in SUBSET Block /\ evictions \subseteq S /\ m.free \in SUBSET Block
  BY DEF Cached, LeastRecentlyUsed, Manager
<1>2. \A b \in Cached(m) : b \in Block /\ b \notin m.free
  BY DEF Cached, Valid, BlockValid
<1>3. Range(ids) \subseteq pool
  <2>1. pool \in SUBSET Block /\ ids = Ascending(Lowest(pool, required))
    BY <1>1
  <2> HIDE DEF pool
  <2>2. Lowest(pool, required) \subseteq pool
    BY DEF Lowest
  <2>3. Lowest(pool, required) \in SUBSET Block
    BY <2>1, <2>2
  <2>4. QED
    BY <2>1, <2>2, <2>3, AscendingRange
<1>4. ASSUME NEW b \in Cached(m), c.blocks[b].key # m.blocks[b].key
      PROVE  b \in evictions
  <2>1. SUFFICES ASSUME b \notin evictions PROVE FALSE
    OBVIOUS
  <2>2. b \in Block /\ b \notin Range(ids)
    BY <1>2, <1>3, <2>1
  <2>3. c.blocks[b] = e.blocks[b] /\ e.blocks[b] = a.blocks[b]
    BY <2>1, <2>2 DEF ClaimShape
  <2>4. QED
    BY <1>4, <2>2, <2>3
<1>5. ASSUME evictions # {}
      PROVE  c.free = {}
  <2>1. S \cap m.free = {}
    BY <1>2
  <2>2. Lowest(pool, required) = pool
    BY <1>1, <1>5, <2>1, PoolIsUsedUp
  <2>3. Range(ids) = pool
    BY <1>1, <2>2, AscendingRange
  <2>4. QED
    BY <2>3 DEF ClaimShape
<1>6. ASSUME NEW d \in Cached(m) \cap Cached(c)
      PROVE  d \in S \ evictions
  <2>1. d \in Block /\ d \notin m.free /\ c.blocks[d].state = "Cached"
    BY <1>2 DEF Cached
  <2>2. d \notin Range(ids)
    BY <2>1 DEF ClaimShape
  <2>3. c.blocks[d] = e.blocks[d]
    BY <2>1, <2>2 DEF ClaimShape
  <2>4. d \notin evictions
    BY <2>1, <2>3 DEF FreeBlock
  <2>5. c.blocks[d] = a.blocks[d]
    BY <2>1, <2>3, <2>4
  <2>6. QED
    BY <2>1, <2>4, <2>5
<1>7. short \in Int
  BY BlocksAreFinite DEF Shortage, Manager
<1>8. \A b \in evictions, d \in S \ evictions : Older(m, b, d)
  BY <1>1, <1>7, EvictionOrder
<1>9. QED
  BY <1>4, <1>5, <1>6, <1>8 DEF LastResort

LEMMA NothingEvicted ==
  ASSUME NEW m, NEW c, \A b \in Cached(m) : c.blocks[b].key = m.blocks[b].key
  PROVE  LastResort(m, c)
BY DEF LastResort

\* An explicit eviction changes no table.
LEMMA EvictionIsInOrder ==
  ASSUME NEW m \in Manager, NEW n \in Int, NEW evictions,
         evictions = LeastRecentlyUsed(m, Cached(m), n),
         NEW c, c.blocks = [b \in Block |-> IF b \in evictions THEN FreeBlock ELSE m.blocks[b]],
         c.tables = m.tables
  PROVE  LastResort(m, c)
<1>1. Cached(m) \in SUBSET Block
  BY DEF Cached
<1>2. ASSUME NEW b \in Cached(m), c.blocks[b].key # m.blocks[b].key
      PROVE  b \in evictions
  BY <1>1, <1>2
<1>3. ASSUME NEW d \in Cached(m) \cap Cached(c)
      PROVE  d \in Cached(m) \ evictions
  BY <1>1 DEF Cached, FreeBlock
<1>4. \A b \in evictions, d \in Cached(m) \ evictions : Older(m, b, d)
  BY <1>1, EvictionOrder
<1>5. QED
  BY <1>2, <1>3, <1>4 DEF LastResort

-----------------------------------------------------------------------------
(* A reply leaves a manager, and a valid one if the caller's was.            *)

\* What validation reads: everything but the failure count.
LEMMA ValidityIgnoresFailures ==
  ASSUME NEW m \in Manager, NEW f
  PROVE  Valid([m EXCEPT !.failures = f]) <=> Valid(m)
<1> DEFINE n == [m EXCEPT !.failures = f]
<1>1. /\ n.blocks = m.blocks /\ n.free = m.free /\ n.tables = m.tables
      /\ n.prov = m.prov /\ n.index = m.index
      /\ n.represented = m.represented /\ n.epoch = m.epoch
  BY DEF Manager
<1> HIDE DEF n
<1>2. Live(n) = Live(m)
  BY <1>1 DEF Live
<1>3. \A b : Holders(n, b) = Holders(m, b)
  BY <1>1, <1>2 DEF Holders
<1>4. \A b \in Block : BlockValid(n, b) <=> BlockValid(m, b)
  BY <1>1, <1>3 DEF BlockValid
<1>5. \A key : Matches(n, key) = Matches(m, key)
  BY <1>1 DEF Matches
<1>6. \A r \in Requests : TableValid(n, r) <=> TableValid(m, r)
  BY <1>1 DEF TableValid
<1>7. \A r \in Requests : KeysValid(n, r) <=> KeysValid(m, r)
  <2>1. TAKE r \in Requests
  <2>2. n.prov[r] = m.prov[r] /\ n.blocks = m.blocks /\ n.tables[r] = m.tables[r]
    BY <1>1
  <2>3. KeysValid(n, r) => KeysValid(m, r)
    BY ONLY <1>5, <2>2 DEF KeysValid
  <2>4. KeysValid(m, r) => KeysValid(n, r)
    BY ONLY <1>5, <2>2 DEF KeysValid
  <2>5. QED
    BY <2>3, <2>4
<1>8. IndexValid(n) <=> IndexValid(m)
  BY <1>1 DEF IndexValid
<1>9. TokensIn(n, Block) = TokensIn(m, Block)
  BY <1>1 DEF TokensIn
<1>10. Valid(n) <=> Valid(m)
  BY <1>1, <1>2, <1>4, <1>6, <1>7, <1>8, <1>9 DEF Valid
<1>11. QED
  BY <1>10 DEF n

LEMMA RefusedKeepsManager ==
  ASSUME NEW m \in Manager, NEW reply, Refused(m, reply)
  PROVE  /\ reply.kv \in Manager
         /\ Valid(m) => Valid(reply.kv)
         /\ reply.kv.tables = m.tables /\ reply.kv.prov = m.prov
         /\ reply.kv.blocks = m.blocks /\ reply.kv.free = m.free
<1>1. CASE reply.kv = m
  BY <1>1
<1>2. CASE /\ m.failures < FailureLimit
           /\ reply.kv = [m EXCEPT !.failures = m.failures + 1]
  <2>1. m.failures + 1 \in 0 .. FailureLimit
    BY <1>2, KVAssumption DEF Manager
  <2>2. reply.kv \in Manager
    BY <1>2, <2>1 DEF Manager
  <2>3. Valid(m) => Valid(reply.kv)
    BY <1>2, ValidityIgnoresFailures
  <2>4. QED
    BY <1>2, <2>2, <2>3 DEF Manager
<1>3. QED
  BY <1>1, <1>2 DEF Refused

LEMMA ReplyKeepsManager ==
  ASSUME NEW m \in Manager, NEW reply, NEW copy, Draft(copy),
         NEW T, copy.tables \in [Requests -> Seq(T)],
         Accepted(reply, copy) \/ Refused(m, reply)
  PROVE  /\ reply.kv \in Manager
         /\ Valid(m) => Valid(reply.kv)
<1>1. CASE Accepted(reply, copy)
  <2>1. copy \in Manager
    BY <1>1, ValidDraftIsManager DEF Accepted
  <2>2. QED
    BY <1>1, <2>1 DEF Accepted
<1>2. CASE Refused(m, reply)
  BY <1>2, RefusedKeepsManager
<1>3. QED
  BY <1>1, <1>2

LEMMA HeldBlocksAreInUse ==
  ASSUME NEW m \in Manager, Valid(m), NEW s \in Live(m), NEW b \in Range(m.tables[s])
  PROVE  b \in Block /\ m.blocks[b].state = "InUse"
<1>1. b \in Block
  BY DEF Live, Manager, Range
<1>2. s \in Holders(m, b)
  BY DEF Holders
<1>3. BlockValid(m, b) /\ m.blocks[b].state \in {"Free", "InUse", "Cached"}
  BY <1>1 DEF Valid, Manager, BlockMetadata
<1>4. QED
  BY <1>1, <1>2, <1>3 DEF BlockValid

\* The full prompt blocks of a live request are the first blocks of its table.
LEMMA PromptBlocksAreHeld ==
  ASSUME NEW m \in Manager, Valid(m), NEW r \in Live(m), NEW i \in 1 .. Len(m.prov[r].chunks)
  PROVE  /\ i \in DOMAIN m.tables[r] /\ m.tables[r][i] \in Range(m.tables[r])
         /\ m.tables[r][i] \in Block /\ m.blocks[m.tables[r][i]].state = "InUse"
<1> DEFINE q == m.prov[r]
           n == q.total
<1>1. q \in RequestProvenance /\ m.tables[r] \in Seq(Block)
  BY DEF Manager, Live
<1>2. n \in Nat /\ Len(q.chunks) \in Nat
  BY <1>1 DEF RequestProvenance
<1>3. TableValid(m, r)
  BY DEF Valid, Live
<1>4. /\ BlocksRequired(n) <= Len(m.tables[r])
      /\ Len(q.chunks) = n \div BlockSize \/ Len(q.chunks) = 0
  BY <1>3 DEF TableValid, PromptBlocks
<1>5. n \div BlockSize \in Nat /\ n \div BlockSize <= BlocksRequired(n) /\ BlocksRequired(n) \in Nat
  BY <1>2, KVAssumption DEF BlocksRequired
<1> HIDE DEF n
<1>6. i \in DOMAIN m.tables[r]
  BY <1>1, <1>2, <1>4, <1>5
<1>7. m.tables[r][i] \in Range(m.tables[r])
  BY <1>6 DEF Range
<1>8. QED
  BY <1>6, <1>7, HeldBlocksAreInUse

-----------------------------------------------------------------------------
(* What an accepted call does to the tables and the contents of blocks.      *)

\* A block gets a key only as a full prompt block of a request that stays live.
KeysKept(m, c) ==
  \A b \in Block :
    \/ c.blocks[b].key \in {None, m.blocks[b].key}
    \/ \E s \in Live(m) \cap Live(c) : \E i \in 1 .. Len(m.prov[s].chunks) : b = m.tables[s][i]

ChunksKept(m, c) == \A s \in Live(m) \cap Live(c) : c.prov[s].chunks = m.prov[s].chunks

\* c gives r the blocks `ids` at the end of its table, admits it if it was not
\* live, and may reclaim other blocks.
Claims(m, c, r, ids) ==
  /\ c.tables = [m.tables EXCEPT ![r] = @ \o ids]
  /\ \A s \in Requests \ {r} : c.prov[s] = m.prov[s]
  /\ c.prov[r] # None
  /\ KeysKept(m, c) /\ ChunksKept(m, c) /\ LastResort(m, c)
  /\ \A b \in Block :
       \/ c.blocks[b].valid = m.blocks[b].valid
       \/ b \in Range(ids) /\ c.blocks[b].key = None /\ c.blocks[b].state = "InUse"
       \/ b \notin Range(ids) /\ c.blocks[b] = FreeBlock

\* The call was accepted, on a copy that claims blocks for r.
Granted(m, r, reply) ==
  \E T, copy :
    /\ Draft(copy) /\ copy.tables \in [Requests -> Seq(T)]
    /\ Accepted(reply, copy)
    /\ \E ids \in Seq(T) : Claims(m, copy, r, ids)

LEMMA LowestIsOfBlocks ==
  ASSUME NEW S \in SUBSET Block, NEW n \in Int
  PROVE  /\ Lowest(S, n) \in SUBSET Block
         /\ n = 0 => Ascending(Lowest(S, n)) = <<>>
<1>1. Lowest(S, n) \in SUBSET Block
  BY DEF Lowest
<1>2. ASSUME n = 0
      PROVE  Lowest(S, n) = {}
  <2>1. ASSUME NEW b \in S
        PROVE  ~(Cardinality({a \in S : a < b}) < 0)
    BY BlocksAreFinite, {a \in S : a < b} \in SUBSET Block
  <2>2. QED
    BY <1>2, <2>1 DEF Lowest
<1>3. Ascending({}) = <<>>
  BY FS_EmptySet DEF Ascending
<1>4. QED
  BY <1>1, <1>2, <1>3

LEMMA AllocatePromptReply ==
  ASSUME NEW m \in Manager, Valid(m), NEW r \in Requests, NEW tokens \in Nat,
         m.prov[r] = None
  PROVE  LET reply == AllocatePrompt(m, r, tokens) IN
         Refused(m, reply) \/ (Granted(m, r, reply) /\ reply.kv.prov[r].chunks = <<>>)
<1> DEFINE required == BlocksRequired(tokens)
           short == Shortage(m, required)
           evictions == LeastRecentlyUsed(m, Cached(m), short)
           low == Lowest(m.free \cup evictions, required)
           ids == Ascending(low)
           provenance == [i \in DOMAIN ids |-> "PrivatePromptCountOnly"]
           fresh == [ exact |-> FALSE, chunks |-> <<>>, total |-> tokens,
                      matched |-> 0, published |-> FALSE ]
           admitted == [m EXCEPT !.prov[r] = fresh]
           evicted == EvictBlocks(admitted, evictions)
           copy == ClaimBlocks(evicted, r, ids, tokens, provenance)
           reply == AllocatePrompt(m, r, tokens)
           T == Block \cup Range(ids)
<1>1. required \in Nat /\ required \in Int
  BY KVAssumption DEF BlocksRequired
<1>2. evictions \in SUBSET Block
  BY DEF LeastRecentlyUsed, Cached
<1>3. m.free \cup evictions \in SUBSET Block
  BY <1>2 DEF Manager
<1> HIDE DEF required, evictions
<1>4. low \in SUBSET Block /\ (required = 0 => ids = <<>>)
  BY <1>1, <1>3, LowestIsOfBlocks
<1> HIDE DEF low
<1>5. ids \in Seq(Range(ids)) /\ DOMAIN ids = 1 .. Len(ids) /\ Len(ids) \in Nat
  BY <1>4, AscendingType
<1> HIDE DEF ids
<1>6. ids \in Seq(T)
  BY <1>5
<1>7. CASE short > Cardinality(Cached(m))
  <2>1. reply = NoteCapacityError(m)
    BY <1>7 DEF AllocatePrompt, required
  <2>2. QED
    BY <2>1, CapacityReply
<1>8. CASE required > 0 /\ m.epoch = EpochLimit /\ ~(short > Cardinality(Cached(m)))
  BY <1>8 DEF AllocatePrompt, Refuse, Refused, required
<1>9. CASE ~(required > 0 /\ m.epoch = EpochLimit) /\ ~(short > Cardinality(Cached(m)))
  <2>1. reply = Commit(m, copy)
    BY <1>9 DEF AllocatePrompt, required, evictions, low, ids
  <2>2. Draft(admitted) /\ admitted.blocks = m.blocks /\ admitted.tables = m.tables
        /\ admitted.prov = [m.prov EXCEPT ![r] = fresh] /\ admitted.epoch = m.epoch
        /\ admitted.free = m.free
    <3>1. fresh \in RequestProvenance
      BY DEF RequestProvenance
    <3>2. admitted \in Manager
      BY <3>1 DEF Manager
    <3>3. QED
      BY <3>2, ManagerIsDraft DEF Manager
  <2> HIDE DEF admitted, short
  <2>3. /\ Draft(evicted)
        /\ evicted.blocks = [b \in Block |-> IF b \in evictions THEN FreeBlock ELSE m.blocks[b]]
        /\ evicted.tables = m.tables /\ evicted.prov = [m.prov EXCEPT ![r] = fresh]
        /\ evicted.epoch = m.epoch /\ evicted.free = m.free \cup evictions
    BY <1>2, <2>2, EvictDraft
  <2> HIDE DEF evicted
  <2>4. ids = <<>> \/ evicted.epoch < EpochLimit
    BY <1>1, <1>4, <1>9, <2>3, KVAssumption DEF Manager
  <2>5. \A i \in DOMAIN ids : provenance[i] \in BlockProvenance
    BY DEF BlockProvenance
  <2>6. tokens \in Int /\ copy = ClaimBlocks(evicted, r, ids, tokens, provenance)
    OBVIOUS
  <2> HIDE DEF provenance, T, copy
  <2>7. Draft(copy) /\ ClaimShape(evicted, copy, r, ids)
    BY <1>6, <2>3, <2>4, <2>5, <2>6, ClaimDraft
  <2>8. m.tables \in [Requests -> Seq(T)]
    BY DEF Manager, T
  <2>9. copy.tables \in [Requests -> Seq(T)]
    <3>1. m.tables[r] \o ids \in Seq(T)
      BY <1>6, <2>8
    <3>2. QED
      BY <2>3, <2>7, <2>8, <3>1 DEF ClaimShape
  <2>10. copy.prov[r] = fresh /\ \A s \in Requests \ {r} : copy.prov[s] = m.prov[s]
    BY <2>3, <2>7 DEF Manager, ClaimShape
  <2>11. fresh # None
    <3>1. fresh \in RequestProvenance
      BY DEF RequestProvenance
    <3>2. QED
      BY <3>1, NoneAssumption
  <2>12. Claims(m, copy, r, ids)
    <3>1. KeysKept(m, copy) /\ ChunksKept(m, copy)
      BY <2>3, <2>7, <2>10 DEF KeysKept, ChunksKept, ClaimShape, FreeBlock, Live
    <3>2. LastResort(m, copy)
      <4>1. /\ Cached(m) \in SUBSET Cached(m) /\ short = Shortage(m, required)
            /\ evictions = LeastRecentlyUsed(m, Cached(m), short)
            /\ ids = Ascending(Lowest(m.free \cup evictions, required))
        BY DEF short, evictions, ids, low
      <4>2. QED
        BY <1>1, <1>9, <2>3, <2>7, <4>1, ClaimIsLastResort
    <3>3. QED
      BY <2>3, <2>7, <2>10, <2>11, <3>1, <3>2 DEF Claims, ClaimShape
  <2>13. Accepted(reply, copy) \/ Refused(m, reply)
    BY <2>1, CommitReply
  <2>14. QED
    BY <1>6, <2>7, <2>9, <2>10, <2>12, <2>13 DEF Granted, Accepted
<1>10. QED
  BY <1>7, <1>8, <1>9

LEMMA ConcatRange ==
  ASSUME NEW T, NEW s \in Seq(T), NEW t \in Seq(T)
  PROVE  Range(s \o t) = Range(s) \cup Range(t)
<1>1. \A i \in DOMAIN s : i \in DOMAIN (s \o t) /\ (s \o t)[i] = s[i]
  OBVIOUS
<1>2. \A i \in DOMAIN t : Len(s) + i \in DOMAIN (s \o t) /\ (s \o t)[Len(s) + i] = t[i]
  OBVIOUS
<1>3. \A i \in DOMAIN (s \o t) :
        i \in DOMAIN s \/ (i - Len(s) \in DOMAIN t /\ (s \o t)[i] = t[i - Len(s)])
  OBVIOUS
<1>4. Range(s \o t) \subseteq Range(s) \cup Range(t)
  BY <1>1, <1>3 DEF Range
<1>5. Range(s) \subseteq Range(s \o t) /\ Range(t) \subseteq Range(s \o t)
  BY <1>1, <1>2 DEF Range
<1>6. QED
  BY <1>4, <1>5

LEMMA LookupType ==
  ASSUME NEW m \in Manager, NEW chunks \in Seq(Chunks)
  PROVE  /\ Lookup(m, chunks) \in Seq(Range(Lookup(m, chunks)))
         /\ Len(Lookup(m, chunks)) \in Nat
<1> DEFINE hit(i) == Matches(m, KeyAt(chunks, i)) # {}
           hits == {i \in 1 .. Len(chunks) : \A j \in 1 .. i : hit(j)}
           n == Cardinality(hits)
           found == [i \in 1 .. n |-> Min(Matches(m, KeyAt(chunks, i)))]
<1>1. n \in Nat
  <2>1. IsFiniteSet(1 .. Len(chunks))
    BY FS_Interval
  <2>2. hits \in SUBSET (1 .. Len(chunks))
    OBVIOUS
  <2>3. QED
    BY <2>1, <2>2, FS_Subset, FS_CardinalityType
<1>2. Lookup(m, chunks) = IF PrefixEnabled THEN found ELSE <<>>
  BY DEF Lookup
<1> HIDE DEF n
<1>3. found \in [1 .. n -> Range(found)]
  BY DEF Range
<1> HIDE DEF found
<1>4. found \in Seq(Range(found)) /\ Len(found) \in Nat
  BY <1>1, <1>3
<1>5. CASE PrefixEnabled
  BY <1>2, <1>4, <1>5
<1>6. CASE ~PrefixEnabled
  BY <1>2, <1>6
<1>7. QED
  BY <1>5, <1>6

LEMMA AllocatePromptWithPrefixReply ==
  ASSUME NEW m \in Manager, Valid(m), NEW r \in Requests, m.prov[r] = None,
         NEW chunks \in Seq(Chunks), NEW tail \in 0 .. BlockSize - 1,
         NEW prompt, prompt = [chunks |-> chunks, tail |-> tail], NEW supplied
  PROVE  LET reply == AllocatePromptWithPrefix(m, r, prompt, supplied) IN
         \/ Refused(m, reply)
         \/ /\ Granted(m, r, reply) /\ ~reply.kv.prov[r].published
            /\ reply.kv.prov[r].chunks = prompt.chunks
<1> DEFINE matched == Lookup(m, prompt.chunks)
           suffix == Total(prompt) - Len(matched) * BlockSize
           required == BlocksRequired(suffix)
           short == Shortage(m, required)
           unmatched == Cached(m) \ Range(matched)
           evictions == LeastRecentlyUsed(m, unmatched, short)
           low == Lowest(m.free \cup evictions, required)
           ids == Ascending(low)
           epochs == (IF matched = <<>> THEN 0 ELSE 1) + (IF required = 0 THEN 0 ELSE 1)
           fresh == [ exact |-> TRUE, chunks |-> prompt.chunks, total |-> Total(prompt),
                      matched |-> Len(matched), published |-> FALSE ]
           admitted == [m EXCEPT !.prov[r] = fresh]
           acquired == AcquireBlocks(admitted, r, matched)
           evicted == EvictBlocks(acquired, evictions)
           provenance == [i \in DOMAIN ids |->
                            IF Len(matched) + i <= Len(prompt.chunks)
                            THEN "ComputedPromptFull" ELSE "PrivatePromptTail"]
           copy == ClaimBlocks(evicted, r, ids, suffix, provenance)
           reply == AllocatePromptWithPrefix(m, r, prompt, supplied)
           T == Block \cup Range(ids) \cup Range(matched)
<1>1. matched \in Seq(Range(matched)) /\ Len(matched) \in Nat
  BY LookupType
<1> HIDE DEF matched
<1>2. Total(prompt) \in Nat
  <2>1. Len(chunks) * BlockSize \in Nat
    <3>1. Len(chunks) \in Nat /\ BlockSize \in Nat
      BY KVAssumption
    <3>2. \A i, j \in Nat : i * j \in Nat
      OBVIOUS
    <3>3. QED
      BY <3>1, <3>2
  <2>2. Total(prompt) = Len(chunks) * BlockSize + tail /\ tail \in Nat
    BY KVAssumption DEF Total
  <2>3. QED
    BY <2>1, <2>2
<1>3. suffix \in Int
  BY <1>1, <1>2, KVAssumption
<1> HIDE DEF suffix
<1>4. required \in Int
  BY <1>3, KVAssumption DEF BlocksRequired
<1>5. evictions \in SUBSET Block /\ evictions \cap Range(matched) = {}
  BY DEF LeastRecentlyUsed, Cached
<1>6. m.free \cup evictions \in SUBSET Block
  BY <1>5 DEF Manager
<1> HIDE DEF required, evictions
<1>7. low \in SUBSET Block /\ (required = 0 => ids = <<>>)
  BY <1>4, <1>6, LowestIsOfBlocks
<1> HIDE DEF low
<1>8. ids \in Seq(Range(ids)) /\ DOMAIN ids = 1 .. Len(ids) /\ Len(ids) \in Nat
  BY <1>7, AscendingType
<1> HIDE DEF ids
<1>9. ids \in Seq(T) /\ matched \in Seq(T)
  BY <1>1, <1>8
<1>10. CASE supplied # matched
  BY <1>10 DEF AllocatePromptWithPrefix, Refuse, Refused, matched
<1>11. CASE supplied = matched /\ short > Cardinality(unmatched)
  <2>1. reply = NoteCapacityError(m)
    BY <1>11 DEF AllocatePromptWithPrefix, required, matched, suffix
  <2>2. QED
    BY <2>1, CapacityReply
<1>12. CASE supplied = matched /\ ~(short > Cardinality(unmatched)) /\ epochs > EpochLimit - m.epoch
  BY <1>12 DEF AllocatePromptWithPrefix, Refuse, Refused, required, matched, suffix
<1>13. CASE supplied = matched /\ ~(short > Cardinality(unmatched)) /\ ~(epochs > EpochLimit - m.epoch)
  <2>1. reply = Commit(m, copy)
    BY <1>13 DEF AllocatePromptWithPrefix, required, evictions, low, ids, matched, suffix
  <2>2. fresh \in RequestProvenance
    BY <1>1, <1>2 DEF RequestProvenance
  <2> HIDE DEF fresh
  <2>3. /\ Draft(admitted) /\ admitted.blocks = m.blocks /\ admitted.tables = m.tables
        /\ admitted.prov = [m.prov EXCEPT ![r] = fresh] /\ admitted.epoch = m.epoch
        /\ admitted.free = m.free
    <3>1. admitted \in Manager
      BY <2>2 DEF Manager
    <3>2. QED
      BY <3>1, ManagerIsDraft DEF Manager
  <2> HIDE DEF admitted, short, unmatched
  <2>4. Draft(acquired) /\ AcquireShape(admitted, acquired, r, matched)
    <3>1. matched = <<>> \/ admitted.epoch < EpochLimit
      BY <1>4, <1>13, <2>3, KVAssumption DEF Manager
    <3>2. acquired = AcquireBlocks(admitted, r, matched)
      OBVIOUS
    <3> HIDE DEF acquired, T
    <3>3. QED
      BY <1>9, <2>3, <3>1, <3>2, AcquireDraft
  <2> HIDE DEF acquired
  <2>5. /\ Draft(evicted)
        /\ evicted.blocks = [b \in Block |-> IF b \in evictions THEN FreeBlock ELSE acquired.blocks[b]]
        /\ evicted.tables = acquired.tables /\ evicted.prov = acquired.prov
        /\ evicted.epoch = acquired.epoch /\ evicted.free = acquired.free \cup evictions
    BY <1>5, <2>4, EvictDraft
  <2> HIDE DEF evicted
  <2>6. ids = <<>> \/ evicted.epoch < EpochLimit
    BY <1>4, <1>7, <1>13, <2>3, <2>4, <2>5, KVAssumption DEF Manager, AcquireShape
  <2>7. \A i \in DOMAIN ids : provenance[i] \in BlockProvenance
    BY DEF BlockProvenance, FullProvenance
  <2>8. copy = ClaimBlocks(evicted, r, ids, suffix, provenance)
    OBVIOUS
  <2> HIDE DEF provenance, T, copy
  <2>9. Draft(copy) /\ ClaimShape(evicted, copy, r, ids)
    BY <1>3, <1>9, <2>5, <2>6, <2>7, <2>8, ClaimDraft
  <2>10. m.tables \in [Requests -> Seq(T)] /\ m.tables[r] = <<>>
    <3>1. m.tables \in [Requests -> Seq(T)]
      BY DEF Manager, T
    <3>2. m.tables[r] = <<>>
      BY DEF Valid, Live
    <3>3. QED
      BY <3>1, <3>2
  <2>11. copy.tables = [m.tables EXCEPT ![r] = matched \o ids]
    <3>1. evicted.tables = [m.tables EXCEPT ![r] = matched]
      BY <2>3, <2>4, <2>5 DEF AcquireShape
    <3>2. copy.tables = [evicted.tables EXCEPT ![r] = @ \o ids]
      BY <2>9 DEF ClaimShape
    <3>3. evicted.tables[r] = matched
      BY <2>10, <3>1
    <3>4. QED
      BY <2>10, <3>1, <3>2, <3>3
  <2>12. copy.tables \in [Requests -> Seq(T)] /\ matched \o ids \in Seq(T)
    <3>1. matched \o ids \in Seq(T)
      BY <1>9
    <3>2. QED
      BY <2>10, <2>11, <3>1
  <2>13. m.tables[r] \o (matched \o ids) = matched \o ids
    BY <2>10, <2>12
  <2>14. /\ copy.prov[r] # None /\ ~copy.prov[r].published
         /\ copy.prov[r].chunks = prompt.chunks
         /\ \A s \in Requests \ {r} : copy.prov[s] = m.prov[s]
    <3>1. copy.prov = [m.prov EXCEPT ![r] = fresh]
      BY <2>3, <2>4, <2>5, <2>9 DEF AcquireShape, ClaimShape
    <3>2. ~fresh.published /\ fresh.chunks = prompt.chunks
      BY DEF fresh
    <3>3. QED
      BY <2>2, <3>1, <3>2, NoneAssumption DEF Manager
  <2>15. Range(matched \o ids) = Range(matched) \cup Range(ids)
    BY <1>9, ConcatRange
  <2>16. ASSUME NEW b \in Block
         PROVE  \/ copy.blocks[b].valid = m.blocks[b].valid
                \/ /\ b \in Range(matched \o ids)
                   /\ copy.blocks[b].key = None /\ copy.blocks[b].state = "InUse"
                \/ b \notin Range(matched \o ids) /\ copy.blocks[b] = FreeBlock
    <3>1. CASE b \in Range(ids)
      BY <2>9, <2>15, <3>1 DEF ClaimShape
    <3>2. CASE b \in evictions \ Range(ids)
      BY <1>5, <2>5, <2>9, <2>15, <3>2 DEF ClaimShape
    <3>3. CASE b \notin Range(ids) \cup evictions
      BY <2>3, <2>4, <2>5, <2>9, <3>3 DEF ClaimShape, AcquireShape
    <3>4. QED
      BY <3>1, <3>2, <3>3
  <2>17. Claims(m, copy, r, matched \o ids)
    <3>1. KeysKept(m, copy)
      BY <2>3, <2>4, <2>5, <2>9 DEF KeysKept, ClaimShape, AcquireShape, FreeBlock
    <3>2. ChunksKept(m, copy)
      BY <2>14 DEF ChunksKept, Live
    <3>3. LastResort(m, copy)
      <4>1. /\ unmatched \in SUBSET Cached(m) /\ short = Shortage(m, required)
            /\ evictions = LeastRecentlyUsed(m, unmatched, short)
            /\ ids = Ascending(Lowest(m.free \cup evictions, required))
        BY DEF unmatched, short, evictions, ids, low
      <4>2. /\ \A b \in Block : acquired.blocks[b].key = m.blocks[b].key
            /\ evicted.free = m.free \cup evictions
        BY <2>3, <2>4, <2>5 DEF AcquireShape
      <4>3. \A b \in Cached(m) \ unmatched : acquired.blocks[b].state = "InUse"
        BY <2>4 DEF AcquireShape, unmatched, Cached
      <4>4. QED
        BY <1>4, <1>13, <2>5, <2>9, <4>1, <4>2, <4>3, ClaimIsLastResort
    <3>4. QED
      BY <2>11, <2>13, <2>14, <2>16, <3>1, <3>2, <3>3 DEF Claims
  <2>18. Accepted(reply, copy) \/ Refused(m, reply)
    BY <2>1, CommitReply
  <2>19. QED
    BY <2>9, <2>12, <2>14, <2>17, <2>18 DEF Granted, Accepted
<1>14. QED
  BY <1>10, <1>11, <1>12, <1>13

\* c only takes blocks out of use: tables of requests that are live in c are the
\* same as in m, and blocks keep their tokens or become free.
Reclaims(m, c) ==
  /\ \A s \in Requests :
       c.prov[s] # None => c.tables[s] = m.tables[s] /\ m.prov[s] # None
  /\ \A b \in Block : c.blocks[b].valid = m.blocks[b].valid \/ c.blocks[b] = FreeBlock
  /\ KeysKept(m, c) /\ ChunksKept(m, c) /\ LastResort(m, c)

\* The call was accepted, on a copy that only reclaims.
Reclaimed(m, reply) ==
  \E T, copy :
    /\ Draft(copy) /\ copy.tables \in [Requests -> Seq(T)]
    /\ Accepted(reply, copy)
    /\ Reclaims(m, copy)

LEMMA FreeBlockIsDraft == FreeBlock \in DraftMetadata
BY DEF FreeBlock, DraftMetadata

LEMMA EvictUnusedBlocksReply ==
  ASSUME NEW m \in Manager, NEW count \in Nat
  PROVE  LET reply == EvictUnusedBlocks(m, count) IN
         Refused(m, reply) \/ Reclaimed(m, reply)
<1> DEFINE evictions == LeastRecentlyUsed(m, Cached(m), count)
           copy == EvictBlocks(m, evictions)
           reply == EvictUnusedBlocks(m, count)
<1>1. CASE count > Cardinality(Cached(m))
  BY <1>1 DEF EvictUnusedBlocks, Refuse, Refused
<1>2. CASE ~(count > Cardinality(Cached(m)))
  <2>1. reply = Commit(m, copy)
    BY <1>2 DEF EvictUnusedBlocks
  <2>2. evictions \in SUBSET Block
    BY DEF LeastRecentlyUsed, Cached
  <2> HIDE DEF evictions
  <2>3. Draft(m)
    BY ManagerIsDraft
  <2>4. /\ Draft(copy)
        /\ copy.blocks = [b \in Block |-> IF b \in evictions THEN FreeBlock ELSE m.blocks[b]]
        /\ copy.tables = m.tables /\ copy.prov = m.prov
    BY <2>2, <2>3, EvictDraft
  <2> HIDE DEF copy
  <2>5. copy.tables \in [Requests -> Seq(Block)]
    BY <2>4 DEF Manager
  <2>6. Reclaims(m, copy)
    <3>1. KeysKept(m, copy) /\ ChunksKept(m, copy)
      BY <2>4 DEF KeysKept, ChunksKept, FreeBlock
    <3>2. LastResort(m, copy)
      BY <2>4, EvictionIsInOrder DEF evictions
    <3>3. QED
      BY <2>4, <3>1, <3>2 DEF Reclaims
  <2>7. Accepted(reply, copy) \/ Refused(m, reply)
    BY <2>1, CommitReply
  <2>8. QED
    BY <2>4, <2>5, <2>6, <2>7 DEF Reclaimed
<1>3. QED
  BY <1>1, <1>2

LEMMA ReleaseRequestReply ==
  ASSUME NEW m \in Manager, Valid(m), NEW r \in Live(m)
  PROVE  LET reply == ReleaseRequest(m, r) IN
         Refused(m, reply) \/ Reclaimed(m, reply)
<1> DEFINE held == Range(m.tables[r])
           freed == {b \in held : m.blocks[b].refs = 1 /\ m.blocks[b].key = None}
           released(d) ==
             [d EXCEPT !.state = IF d.refs = 1 THEN "Cached" ELSE "InUse",
                       !.owner = None, !.refs = @ - 1]
           blocks == [b \in Block |-> IF b \in freed THEN FreeBlock
                                      ELSE IF b \in held THEN released(m.blocks[b])
                                      ELSE m.blocks[b]]
           copy == [m EXCEPT !.blocks = blocks,
                             !.free   = @ \cup freed,
                             !.tables[r] = <<>>,
                             !.prov[r] = None,
                             !.represented = @ - TokensIn(m, freed)]
           reply == ReleaseRequest(m, r)
<1>1. reply = Commit(m, copy)
  BY DEF ReleaseRequest
<1>2. held \subseteq Block /\ freed \subseteq held /\ r \in Requests
  BY DEF Manager, Range, Live
<1>2a. \A b \in Cached(m) : b \in Block /\ b \notin held
  BY HeldBlocksAreInUse DEF Cached
<1>3. ASSUME NEW d \in DraftMetadata
      PROVE  released(d) \in DraftMetadata /\ released(d).valid = d.valid /\ released(d).key = d.key
  <2>1. (IF d.refs = 1 THEN "Cached" ELSE "InUse") \in {"Free", "InUse", "Cached"}
    OBVIOUS
  <2>2. d.refs - 1 \in Int
    BY DEF DraftMetadata
  <2>3. QED
    BY <2>1, <2>2 DEF DraftMetadata
<1>4. Draft(m)
  BY ManagerIsDraft
<1> HIDE DEF released, held, freed
<1>5. blocks \in [Block -> DraftMetadata]
  BY <1>3, <1>4, FreeBlockIsDraft DEF Draft
<1>5a. \A b \in Cached(m) : blocks[b] = m.blocks[b]
  BY <1>2, <1>2a
<1>6. \A b \in Block :
        \/ blocks[b].valid = m.blocks[b].valid /\ blocks[b].key = m.blocks[b].key
        \/ blocks[b] = FreeBlock
  BY <1>3, <1>4 DEF Draft
<1> HIDE DEF blocks
<1>7. /\ IsRecord(copy)
      /\ copy.blocks = blocks /\ copy.free = m.free \cup freed
      /\ copy.tables = [m.tables EXCEPT ![r] = <<>>]
      /\ copy.prov = [m.prov EXCEPT ![r] = None]
      /\ copy.index = m.index /\ copy.failures = m.failures /\ copy.epoch = m.epoch
  BY DEF Manager, IsRecord
<1> HIDE DEF copy
<1>8. copy.prov \in [Requests -> RequestProvenance \cup {None}]
  BY <1>7 DEF Manager
<1>9. Draft(copy)
  BY <1>2, <1>4, <1>5, <1>7, <1>8 DEF Draft
<1>10. copy.tables \in [Requests -> Seq(Block)]
  <2>1. m.tables \in [Requests -> Seq(Block)] /\ <<>> \in Seq(Block)
    BY DEF Manager
  <2>2. QED
    BY <1>7, <2>1
<1>11. \A s \in Requests :
         copy.prov[s] # None => copy.tables[s] = m.tables[s] /\ m.prov[s] # None
  BY <1>7 DEF Manager
<1>12. Reclaims(m, copy)
  <2>1. KeysKept(m, copy)
    BY <1>6, <1>7 DEF KeysKept, FreeBlock
  <2>2. ChunksKept(m, copy)
    BY <1>7 DEF ChunksKept, Live
  <2>3. LastResort(m, copy)
    BY <1>5a, <1>7, NothingEvicted
  <2>4. QED
    BY <1>6, <1>7, <1>11, <2>1, <2>2, <2>3 DEF Reclaims
<1>13. Accepted(reply, copy) \/ Refused(m, reply)
  BY <1>1, CommitReply
<1>14. QED
  BY <1>9, <1>10, <1>12, <1>13 DEF Reclaimed

LEMMA InsertCompletedPromptBlocksReply ==
  ASSUME NEW m \in Manager, Valid(m), NEW r \in Requests, m.prov[r] # None
  PROVE  LET reply == InsertCompletedPromptBlocks(m, r) IN
         Refused(m, reply) \/ Reclaimed(m, reply)
<1> DEFINE q == m.prov[r]
           t == m.tables[r]
           key(i) == KeyAt(q.chunks, i)
           computed == (q.matched + 1) .. Len(q.chunks)
           fresh == {i \in computed : /\ Matches(m, key(i)) = {}
                                      /\ \A j \in computed : key(j) = key(i) => i <= j}
           rank(i) == Cardinality({j \in fresh : j <= i})
           at(b) == CHOOSE j \in fresh : t[j] = b
           published(b) ==
             [m.blocks[b] EXCEPT !.key = key(at(b)), !.owner = None,
                                 !.epoch = m.epoch + rank(at(b))]
           blocks == [b \in Block |-> IF \E i \in fresh : t[i] = b
                                      THEN published(b) ELSE m.blocks[b]]
           index == [h \in HashValues |->
                       m.index[h] \cup {b \in Block : \E i \in fresh :
                                          t[i] = b /\ HashOf(key(i)) = h}]
           copy == [m EXCEPT !.blocks = blocks, !.index = index,
                             !.epoch  = @ + Cardinality(fresh),
                             !.prov[r].published = TRUE]
           reply == InsertCompletedPromptBlocks(m, r)
<1>1. q \in RequestProvenance
  BY DEF Manager
<1>2. CASE q.published
  BY <1>2 DEF InsertCompletedPromptBlocks, Refuse, Refused
<1>3. CASE ~q.published /\ Cardinality(fresh) > EpochLimit - m.epoch
  BY <1>3 DEF InsertCompletedPromptBlocks, Refuse, Refused
<1>4. CASE ~q.published /\ ~(Cardinality(fresh) > EpochLimit - m.epoch)
  <2>1. reply = Commit(m, copy)
    BY <1>4 DEF InsertCompletedPromptBlocks
  <2>2. q.matched \in Nat /\ Len(q.chunks) \in Nat /\ q.chunks \in Seq(Chunks)
    BY <1>1 DEF RequestProvenance
  <2>3. /\ IsFiniteSet(fresh) /\ Cardinality(fresh) \in Nat
        /\ \A i : rank(i) \in Nat
    <3>1. IsFiniteSet(computed)
      <4>1. q.matched + 1 \in Int /\ Len(q.chunks) \in Int
        BY <2>2
      <4> HIDE DEF q
      <4>2. QED
        BY <4>1, FS_Interval
    <3>2. fresh \in SUBSET computed
      OBVIOUS
    <3> HIDE DEF fresh
    <3>3. \A i : {j \in fresh : j <= i} \in SUBSET computed
      BY <3>2
    <3> HIDE DEF computed
    <3>4. \A S \in SUBSET computed : IsFiniteSet(S) /\ Cardinality(S) \in Nat
      BY <3>1, FS_Subset, FS_CardinalityType
    <3>5. QED
      BY <3>2, <3>3, <3>4
  <2>4. \A i \in fresh : key(i) \in Key
    BY <2>2, KeyType
  <2>4a. fresh \subseteq computed
    OBVIOUS
  <2> HIDE DEF fresh, key
  <2>5. /\ \A b : (\E i \in fresh : t[i] = b) => at(b) \in fresh
        /\ fresh \subseteq 1 .. Len(q.chunks)
    <3>1. computed \subseteq 1 .. Len(q.chunks)
      BY <2>2
    <3>2. QED
      BY <2>4a, <3>1
  <2> HIDE DEF at, rank
  <2>6. Draft(m)
    BY ManagerIsDraft
  <2>7. ASSUME NEW b \in Block, \E i \in fresh : t[i] = b
        PROVE  published(b) \in DraftMetadata /\ published(b).valid = m.blocks[b].valid
    <3>1. m.epoch + rank(at(b)) \in Int
      BY <2>3, <2>6 DEF Draft
    <3>2. key(at(b)) \in Key
      BY <2>4, <2>5, <2>7
    <3>3. m.blocks[b] \in DraftMetadata
      BY <2>6 DEF Draft
    <3>4. QED
      BY <3>1, <3>2, <3>3 DEF DraftMetadata
  <2> HIDE DEF published
  <2>8. /\ blocks \in [Block -> DraftMetadata] /\ \A b \in Block : blocks[b].valid = m.blocks[b].valid
        /\ \A b \in Block : blocks[b] = m.blocks[b] \/ \E i \in fresh : t[i] = b
    BY <2>6, <2>7 DEF Draft
  <2> HIDE DEF blocks
  <2>9. index \in [HashValues -> SUBSET Block]
    BY DEF Manager
  <2> HIDE DEF index, q
  <2>10. /\ IsRecord(copy)
         /\ copy.blocks = blocks /\ copy.index = index /\ copy.free = m.free
         /\ copy.tables = m.tables /\ copy.failures = m.failures
         /\ copy.epoch = m.epoch + Cardinality(fresh)
         /\ copy.prov = [m.prov EXCEPT ![r] = [q EXCEPT !.published = TRUE]]
    BY DEF Manager, IsRecord, q
  <2> HIDE DEF copy
  <2>11. copy.prov \in [Requests -> RequestProvenance \cup {None}]
    <3>1. [q EXCEPT !.published = TRUE] \in RequestProvenance
      BY <1>1 DEF RequestProvenance
    <3>2. QED
      BY <2>10, <3>1 DEF Manager
  <2>12. copy.epoch \in 0 .. EpochLimit
    BY <1>4, <2>3, <2>10, KVAssumption DEF Manager
  <2>13. Draft(copy) /\ copy.tables \in [Requests -> Seq(Block)]
    BY <2>6, <2>8, <2>9, <2>10, <2>11, <2>12 DEF Draft, Manager
  <2>14. \A s \in Requests : copy.prov[s] # None => m.prov[s] # None
    BY <2>10 DEF Manager
  <2>15. Reclaims(m, copy)
    <3>1. r \in Live(m) \cap Live(copy)
      <4>1. copy.prov[r] \in RequestProvenance
        <5>1. \A p \in RequestProvenance : [p EXCEPT !.published = TRUE] \in RequestProvenance
          BY DEF RequestProvenance
        <5>2. copy.prov[r] = [q EXCEPT !.published = TRUE]
          BY <2>10 DEF Manager
        <5>3. QED
          BY <1>1, <5>1, <5>2
      <4>2. QED
        BY <4>1, NoneAssumption DEF Live
    <3>2. KeysKept(m, copy)
      BY <2>5, <2>8, <2>10, <3>1 DEF KeysKept, q
    <3>3. ChunksKept(m, copy)
      BY <1>1, <2>10 DEF ChunksKept, Live, Manager, q, RequestProvenance
    <3>4. LastResort(m, copy)
      <4>1. \A i \in fresh : m.blocks[t[i]].state = "InUse"
        BY <2>5, <3>1, PromptBlocksAreHeld DEF q, Live
      <4>2. \A b \in Cached(m) : blocks[b] = m.blocks[b]
        BY <2>8, <4>1 DEF Cached
      <4>3. QED
        BY <2>10, <4>2, NothingEvicted
    <3>5. QED
      BY <2>8, <2>10, <2>14, <3>2, <3>3, <3>4 DEF Reclaims
  <2>16. Accepted(reply, copy) \/ Refused(m, reply)
    BY <2>1, CommitReply
  <2>17. QED
    BY <2>13, <2>15, <2>16 DEF Reclaimed
<1>5. QED
  BY <1>2, <1>3, <1>4

\* The call was accepted, on a copy that adds a token to a block of r that has
\* no key and no second reader.
Appends(m, c, r) ==
  /\ c.tables = m.tables /\ c.prov = m.prov
  /\ \E last \in Range(m.tables[r]) :
       /\ m.blocks[last].key = None
       /\ c.blocks[last].valid = m.blocks[last].valid + 1
       /\ c.blocks[last].key = m.blocks[last].key
       /\ \A b \in Block \ {last} : c.blocks[b] = m.blocks[b]

Appended(m, r, reply) ==
  \E T, copy :
    /\ Draft(copy) /\ copy.tables \in [Requests -> Seq(T)]
    /\ Accepted(reply, copy)
    /\ Appends(m, copy, r)

LEMMA AppendDecodeTokenReply ==
  ASSUME NEW m \in Manager, Valid(m), NEW r \in Requests, m.prov[r] # None
  PROVE  LET reply == AppendDecodeToken(m, r) IN
         \/ Refused(m, reply)
         \/ (Granted(m, r, reply) \/ Appended(m, r, reply)) /\ reply.kv.prov = m.prov
<1> DEFINE new == DecodeRequiresNewBlock(m, r)
           short == Shortage(m, IF new THEN 1 ELSE 0)
           evictions == LeastRecentlyUsed(m, Cached(m), short)
           low == Lowest(m.free \cup evictions, 1)
           ids == Ascending(low)
           last == Last(m.tables[r])
           provenance == [i \in DOMAIN ids |-> "PrivateDecode"]
           evicted == EvictBlocks(m, evictions)
           claimed == ClaimBlocks(evicted, r, ids, 1, provenance)
           appended == [m EXCEPT !.blocks[last].valid = @ + 1,
                                 !.blocks[last].epoch = m.epoch + 1,
                                 !.represented = @ + 1,
                                 !.epoch = @ + 1]
           reply == AppendDecodeToken(m, r)
           T == Block \cup Range(ids)
<1>1. Draft(m)
  BY ManagerIsDraft
<1>2. evictions \in SUBSET Block
  BY DEF LeastRecentlyUsed, Cached
<1>3. m.free \cup evictions \in SUBSET Block
  BY <1>2 DEF Manager
<1> HIDE DEF evictions
<1>4. low \in SUBSET Block
  BY <1>3 DEF low, Lowest
<1> HIDE DEF low
<1>5. ids \in Seq(Range(ids)) /\ DOMAIN ids = 1 .. Len(ids) /\ Len(ids) \in Nat
  BY <1>4, AscendingType
<1> HIDE DEF ids
<1>6. ids \in Seq(T)
  BY <1>5
<1>7. CASE m.epoch = EpochLimit
  BY <1>7 DEF AppendDecodeToken, Refuse, Refused
<1>8. CASE m.epoch # EpochLimit /\ short > Cardinality(Cached(m))
  <2>1. reply = NoteCapacityError(m)
    BY <1>8 DEF AppendDecodeToken
  <2>2. QED
    BY <2>1, CapacityReply
<1>9. CASE m.epoch # EpochLimit /\ ~(short > Cardinality(Cached(m))) /\ new
  <2>1. reply = Commit(m, claimed)
    BY <1>9 DEF AppendDecodeToken, evictions, low, ids
  <2> HIDE DEF short, new
  <2>2. /\ Draft(evicted)
        /\ evicted.blocks = [b \in Block |-> IF b \in evictions THEN FreeBlock ELSE m.blocks[b]]
        /\ evicted.tables = m.tables /\ evicted.prov = m.prov /\ evicted.epoch = m.epoch
        /\ evicted.free = m.free \cup evictions
    BY <1>1, <1>2, EvictDraft
  <2> HIDE DEF evicted
  <2>3. ids = <<>> \/ evicted.epoch < EpochLimit
    BY <1>9, <2>2, KVAssumption DEF Manager
  <2>4. \A i \in DOMAIN ids : provenance[i] \in BlockProvenance
    BY DEF BlockProvenance
  <2>5. claimed = ClaimBlocks(evicted, r, ids, 1, provenance) /\ 1 \in Int
    OBVIOUS
  <2> HIDE DEF provenance, T, claimed
  <2>6. Draft(claimed) /\ ClaimShape(evicted, claimed, r, ids)
    BY <1>6, <2>2, <2>3, <2>4, <2>5, ClaimDraft
  <2>7. m.tables \in [Requests -> Seq(T)]
    BY DEF Manager, T
  <2>8. claimed.tables \in [Requests -> Seq(T)]
    <3>1. m.tables[r] \o ids \in Seq(T)
      BY <1>6, <2>7
    <3>2. QED
      BY <2>2, <2>6, <2>7, <3>1 DEF ClaimShape
  <2>9. Claims(m, claimed, r, ids) /\ claimed.prov = m.prov
    <3>1. KeysKept(m, claimed) /\ ChunksKept(m, claimed)
      BY <2>2, <2>6 DEF KeysKept, ChunksKept, ClaimShape, FreeBlock
    <3>2. LastResort(m, claimed)
      <4>1. /\ Cached(m) \in SUBSET Cached(m) /\ short = Shortage(m, 1)
            /\ evictions = LeastRecentlyUsed(m, Cached(m), short)
            /\ ids = Ascending(Lowest(m.free \cup evictions, 1))
        BY <1>9 DEF short, new, evictions, ids, low
      <4>2. QED
        BY <1>9, <2>2, <2>5, <2>6, <4>1, ClaimIsLastResort
    <3>3. QED
      BY <2>2, <2>6, <3>1, <3>2 DEF Claims, ClaimShape
  <2>10. Accepted(reply, claimed) \/ Refused(m, reply)
    BY <2>1, CommitReply
  <2>11. QED
    BY <1>6, <2>6, <2>8, <2>9, <2>10 DEF Granted, Accepted
<1>10. CASE m.epoch # EpochLimit /\ ~(short > Cardinality(Cached(m))) /\ ~new
  <2>1. reply = Commit(m, appended)
    BY <1>10 DEF AppendDecodeToken
  <2>2. m.tables[r] # <<>> /\ m.blocks[last].key = None
    BY <1>10 DEF DecodeRequiresNewBlock
  <2>3. m.tables[r] \in Seq(Block) /\ last \in Range(m.tables[r]) /\ last \in Block
    <3>1. m.tables[r] \in Seq(Block)
      BY DEF Manager
    <3>2. Len(m.tables[r]) \in DOMAIN m.tables[r]
      BY <2>2, <3>1
    <3>3. last = m.tables[r][Len(m.tables[r])]
      BY DEF Last
    <3> HIDE DEF last
    <3>4. last \in Range(m.tables[r])
      BY <3>2, <3>3 DEF Range
    <3>5. last \in Block
      BY <3>1, <3>2, <3>3
    <3>6. QED
      BY <3>1, <3>4, <3>5
  <2> HIDE DEF last, new, short
  <2> DEFINE d == [m.blocks[last] EXCEPT !.valid = @ + 1, !.epoch = m.epoch + 1]
  <2>4. m.blocks[last] \in DraftMetadata
    BY <1>1, <2>3 DEF Draft
  <2>5. /\ d \in DraftMetadata /\ d.valid = m.blocks[last].valid + 1
        /\ d.key = m.blocks[last].key
    <3>1. m.epoch + 1 \in Int
      BY <1>1 DEF Draft
    <3>2. ASSUME NEW e \in DraftMetadata, NEW n \in Int
          PROVE  LET f == [e EXCEPT !.valid = @ + 1, !.epoch = n]
                 IN  f \in DraftMetadata /\ f.valid = e.valid + 1 /\ f.key = e.key
      <4>1. e.valid + 1 \in Int
        BY DEF DraftMetadata
      <4> DEFINE v == e.valid + 1
      <4> HIDE DEF v
      <4>2. [e EXCEPT !.valid = v, !.epoch = n] \in DraftMetadata
        BY <4>1 DEF DraftMetadata, v
      <4>3. QED
        BY <4>2 DEF v, DraftMetadata
    <3>3. QED
      BY <2>4, <3>1, <3>2
  <2>6. /\ IsRecord(appended)
        /\ appended.blocks = [m.blocks EXCEPT ![last] = d]
        /\ appended.free = m.free /\ appended.tables = m.tables
        /\ appended.prov = m.prov /\ appended.index = m.index
        /\ appended.failures = m.failures /\ appended.epoch = m.epoch + 1
    BY <2>3 DEF Manager, IsRecord
  <2> HIDE DEF appended, d
  <2>7. Draft(appended) /\ appended.tables \in [Requests -> Seq(Block)]
    BY <1>1, <1>10, <2>3, <2>5, <2>6, KVAssumption DEF Draft, Manager
  <2>8. Appends(m, appended, r)
    BY <1>1, <2>2, <2>3, <2>5, <2>6 DEF Appends, Draft
  <2>9. Accepted(reply, appended) \/ Refused(m, reply)
    BY <2>1, CommitReply
  <2>10. QED
    BY <2>6, <2>7, <2>8, <2>9 DEF Appended, Accepted
<1>11. QED
  BY <1>7, <1>8, <1>9, <1>10

-----------------------------------------------------------------------------
(* Blocks in use are never moved, rewritten or shared for writing.           *)

\* While a request lives its table only grows at the end and its blocks keep
\* their tokens.
StableTables(m, c) ==
  \A s \in Live(m) \cap Live(c) :
    /\ IsPrefix(m.tables[s], c.tables[s])
    /\ \A b \in Range(m.tables[s]) : c.blocks[b].valid >= m.blocks[b].valid

\* Only a block with one reader and no key gains tokens in place.
ReadOnlyBlocks(m, c) ==
  \A b \in Block :
    c.blocks[b].valid > m.blocks[b].valid /\ m.blocks[b].valid > 0
      => Cardinality(Holders(m, b)) = 1 /\ m.blocks[b].key = None

LEMMA FreeBlocksAreUnheld ==
  ASSUME NEW c \in Manager, Valid(c), NEW b \in Block, c.blocks[b] = FreeBlock,
         NEW s \in Live(c)
  PROVE  b \notin Range(c.tables[s])
<1>1. c.blocks[b].state = "Free"
  BY DEF FreeBlock
<1>2. Holders(c, b) = {}
  BY <1>1 DEF Valid, BlockValid
<1>3. QED
  BY <1>2 DEF Holders

LEMMA KeylessBlocksHaveOneHolder ==
  ASSUME NEW c \in Manager, Valid(c), NEW b \in Block,
         c.blocks[b].state = "InUse", c.blocks[b].key = None,
         NEW r \in Live(c), b \in Range(c.tables[r]),
         NEW s \in Live(c), b \in Range(c.tables[s])
  PROVE  r = s
<1>1. Holders(c, b) = {c.blocks[b].owner}
  BY DEF Valid, BlockValid
<1>2. r \in Holders(c, b) /\ s \in Holders(c, b)
  BY DEF Holders
<1>3. QED
  BY <1>1, <1>2

LEMMA PrefixOfConcat ==
  ASSUME NEW T, NEW s \in Seq(T), NEW t \in Seq(T)
  PROVE  IsPrefix(s, s \o t)
BY DEF IsPrefix

LEMMA ClaimedBlocksWereUnheld ==
  ASSUME NEW m \in Manager, Valid(m), NEW c \in Manager, Valid(c), NEW r \in Requests,
         NEW T, NEW ids \in Seq(T), Claims(m, c, r, ids),
         NEW s \in Live(m), NEW b \in Range(m.tables[s]),
         b \in Range(ids), c.blocks[b].key = None, c.blocks[b].state = "InUse"
  PROVE  FALSE
<1> DEFINE old == m.tables[r]
           U == Block \cup Range(ids)
<1>1. s \in Live(c) /\ r \in Live(c)
  BY DEF Claims, Live
<1>2. b \in Block
  BY HeldBlocksAreInUse
<1>3. c.tables[r] = old \o ids /\ (s # r => c.tables[s] = m.tables[s])
  BY DEF Claims, Manager, Live
<1>4. old \in Seq(U) /\ ids \in Seq(U)
  BY DEF Manager, Range
<1> HIDE DEF old, U
<1>5. Range(c.tables[r]) = Range(old) \cup Range(ids)
  BY <1>3, <1>4, ConcatRange
<1>6. CASE s # r
  BY <1>1, <1>2, <1>3, <1>5, <1>6, KeylessBlocksHaveOneHolder
<1>7. CASE s = r
  <2>1. PICK i \in DOMAIN old : old[i] = b
    BY <1>7 DEF Range, old
  <2>2. PICK j \in DOMAIN ids : ids[j] = b
    BY DEF Range
  <2>3. /\ i \in DOMAIN c.tables[r] /\ c.tables[r][i] = b
        /\ Len(old) + j \in DOMAIN c.tables[r] /\ c.tables[r][Len(old) + j] = b
        /\ i # Len(old) + j
    BY <1>3, <1>4, <2>1, <2>2
  <2>4. IsInjective(c.tables[r])
    BY <1>1 DEF Valid, TableValid, Live
  <2>5. QED
    BY <2>3, <2>4 DEF IsInjective
<1>8. QED
  BY <1>6, <1>7

LEMMA ClaimsAreSafe ==
  ASSUME NEW m \in Manager, Valid(m), NEW c \in Manager, Valid(c), NEW r \in Requests,
         NEW T, NEW ids \in Seq(T), Claims(m, c, r, ids)
  PROVE  StableTables(m, c) /\ ReadOnlyBlocks(m, c)
<1>1. ASSUME NEW s \in Live(m), NEW b \in Range(m.tables[s])
      PROVE  c.blocks[b].valid = m.blocks[b].valid
  <2>1. b \in Block
    BY HeldBlocksAreInUse
  <2>2. s \in Live(c) /\ b \in Range(c.tables[s])
    <3>1. s \in Live(c)
      BY DEF Claims, Live
    <3>2. CASE s # r
      BY <3>1, <3>2 DEF Claims, Manager, Live
    <3>3. CASE s = r
      <4>1. c.tables[r] = m.tables[r] \o ids
        BY DEF Claims, Manager
      <4>2. m.tables[r] \in Seq(Block \cup Range(ids)) /\ ids \in Seq(Block \cup Range(ids))
        BY DEF Manager, Range
      <4>3. QED
        BY <3>1, <3>3, <4>1, <4>2, ConcatRange
    <3>4. QED
      BY <3>1, <3>2, <3>3
  <2>3. c.blocks[b] # FreeBlock
    BY <2>1, <2>2, FreeBlocksAreUnheld
  <2>4. ~(b \in Range(ids) /\ c.blocks[b].key = None /\ c.blocks[b].state = "InUse")
    BY ClaimedBlocksWereUnheld
  <2>5. QED
    BY <2>1, <2>3, <2>4 DEF Claims
<1>2. ASSUME NEW s \in Live(m) \cap Live(c)
      PROVE  /\ IsPrefix(m.tables[s], c.tables[s])
             /\ \A b \in Range(m.tables[s]) : c.blocks[b].valid >= m.blocks[b].valid
  <2>1. IsPrefix(m.tables[s], c.tables[s])
    <3> DEFINE U == Block \cup Range(ids)
    <3>1. m.tables[s] \in Seq(U) /\ ids \in Seq(U) /\ <<>> \in Seq(U)
      BY DEF Manager, Range, Live
    <3>2. c.tables[s] = m.tables[s] \o ids \/ c.tables[s] = m.tables[s] \o <<>>
      <4>1. c.tables[s] = m.tables[s] \o ids \/ c.tables[s] = m.tables[s]
        BY DEF Claims, Manager, Live
      <4> HIDE DEF U
      <4>2. QED
        BY <3>1, <4>1
    <3> HIDE DEF U
    <3>3. QED
      BY <3>1, <3>2, PrefixOfConcat
  <2>2. ASSUME NEW b \in Range(m.tables[s])
        PROVE  c.blocks[b].valid >= m.blocks[b].valid
    <3>1. b \in Block
      BY HeldBlocksAreInUse
    <3>2. m.blocks[b].valid \in Nat
      BY <3>1 DEF Manager, BlockMetadata
    <3>3. QED
      BY <1>1, <3>2
  <2>3. QED
    BY <2>1, <2>2
<1>3. ASSUME NEW b \in Block,
             c.blocks[b].valid > m.blocks[b].valid, m.blocks[b].valid > 0
      PROVE  FALSE
  <2>1. m.blocks[b] \in BlockMetadata /\ c.blocks[b] \in BlockMetadata
    BY DEF Manager
  <2>2. BlockValid(m, b)
    BY DEF Valid
  <2>3. CASE m.blocks[b].state = "Free"
    BY <1>3, <2>2, <2>3 DEF BlockValid, FreeBlock
  <2>4. CASE m.blocks[b].state = "Cached"
    <3>1. m.blocks[b].valid = BlockSize
      BY <2>2, <2>4 DEF BlockValid
    <3>2. QED
      BY <1>3, <2>1, <3>1, KVAssumption DEF BlockMetadata
  <2>5. CASE m.blocks[b].state = "InUse"
    <3>1. m.blocks[b].refs > 0 /\ m.blocks[b].refs = Cardinality(Holders(m, b))
      BY <2>2, <2>5 DEF BlockValid
    <3>2. Holders(m, b) # {}
      <4>1. Cardinality({}) = 0
        BY FS_EmptySet
      <4>2. Holders(m, b) = {} => m.blocks[b].refs = 0
        BY <3>1, <4>1
      <4>3. QED
        BY <3>1, <4>2
    <3>3. PICK s \in Live(m) : b \in Range(m.tables[s])
      BY <3>2 DEF Holders
    <3>4. c.blocks[b].valid = m.blocks[b].valid
      BY <1>1, <3>3
    <3>5. QED
      BY <1>3, <2>1, <3>4 DEF BlockMetadata
  <2>6. QED
    BY <2>1, <2>3, <2>4, <2>5 DEF BlockMetadata
<1>4. QED
  BY <1>2, <1>3 DEF StableTables, ReadOnlyBlocks

LEMMA ReclaimsAreSafe ==
  ASSUME NEW m \in Manager, Valid(m), NEW c \in Manager, Valid(c), Reclaims(m, c)
  PROVE  StableTables(m, c) /\ ReadOnlyBlocks(m, c)
<1>1. ASSUME NEW s \in Live(m) \cap Live(c)
      PROVE  /\ IsPrefix(m.tables[s], c.tables[s])
             /\ \A b \in Range(m.tables[s]) : c.blocks[b].valid >= m.blocks[b].valid
  <2>1. c.tables[s] = m.tables[s]
    BY DEF Reclaims, Live
  <2>2. IsPrefix(m.tables[s], c.tables[s])
    BY <2>1 DEF IsPrefix, Manager, Live
  <2>3. ASSUME NEW b \in Range(m.tables[s])
        PROVE  c.blocks[b].valid >= m.blocks[b].valid
    <3>1. b \in Block
      BY HeldBlocksAreInUse
    <3>2. c.blocks[b] # FreeBlock
      BY <2>1, <3>1, FreeBlocksAreUnheld
    <3>3. m.blocks[b].valid \in Nat
      BY <3>1 DEF Manager, BlockMetadata
    <3>4. QED
      BY <3>1, <3>2, <3>3 DEF Reclaims
  <2>4. QED
    BY <2>2, <2>3
<1>2. ASSUME NEW b \in Block
      PROVE  ~(c.blocks[b].valid > m.blocks[b].valid /\ m.blocks[b].valid > 0)
  <2>1. m.blocks[b].valid \in Nat
    BY DEF Manager, BlockMetadata
  <2>2. CASE c.blocks[b].valid = m.blocks[b].valid
    BY <2>1, <2>2
  <2>3. CASE c.blocks[b] = FreeBlock
    BY <2>1, <2>3 DEF FreeBlock
  <2>4. QED
    BY <2>2, <2>3 DEF Reclaims
<1>3. QED
  BY <1>1, <1>2 DEF StableTables, ReadOnlyBlocks

LEMMA AppendsAreSafe ==
  ASSUME NEW m \in Manager, Valid(m), NEW c, NEW r \in Live(m), Appends(m, c, r)
  PROVE  StableTables(m, c) /\ ReadOnlyBlocks(m, c)
<1>1. PICK last \in Range(m.tables[r]) :
        /\ m.blocks[last].key = None
        /\ c.blocks[last].valid = m.blocks[last].valid + 1
        /\ \A b \in Block \ {last} : c.blocks[b] = m.blocks[b]
  BY DEF Appends
<1>2. \A b \in Block : m.blocks[b].valid \in Nat
  BY DEF Manager, BlockMetadata
<1>3. last \in Block /\ m.blocks[last].state = "InUse"
  BY HeldBlocksAreInUse
<1>4. Cardinality(Holders(m, last)) = 1
  <2>1. Holders(m, last) = {m.blocks[last].owner}
    BY <1>1, <1>3 DEF Valid, BlockValid
  <2>2. QED
    BY <2>1, FS_Singleton
<1>5. StableTables(m, c)
  <2>1. \A s \in Live(m) : \A b \in Range(m.tables[s]) : c.blocks[b].valid >= m.blocks[b].valid
    BY <1>1, <1>2, HeldBlocksAreInUse
  <2>2. \A s \in Live(m) : IsPrefix(m.tables[s], c.tables[s])
    BY DEF Appends, IsPrefix, Manager, Live
  <2>3. QED
    BY <2>1, <2>2 DEF StableTables
<1>6. ReadOnlyBlocks(m, c)
  BY <1>1, <1>2, <1>4 DEF ReadOnlyBlocks
<1>7. QED
  BY <1>5, <1>6

LEMMA RefusalsAreSafe ==
  ASSUME NEW m \in Manager, NEW reply, Refused(m, reply)
  PROVE  StableTables(m, reply.kv) /\ ReadOnlyBlocks(m, reply.kv)
<1>1. reply.kv.tables = m.tables /\ reply.kv.blocks = m.blocks
  BY RefusedKeepsManager
<1>2. \A b \in Block : m.blocks[b].valid \in Nat
  BY DEF Manager, BlockMetadata
<1>3. \A s \in Live(m) : \A b \in Range(m.tables[s]) : b \in Block
  BY DEF Manager, Live, Range
<1>4. \A s \in Live(m) : IsPrefix(m.tables[s], m.tables[s])
  BY DEF IsPrefix, Manager, Live
<1>5. QED
  BY <1>1, <1>2, <1>3, <1>4 DEF StableTables, ReadOnlyBlocks

-----------------------------------------------------------------------------
(* Whatever a call replies, the manager it leaves is one, is valid if the    *)
(* caller's was, and respects the blocks in use.                             *)

Keeps(m, c) ==
  /\ c \in Manager /\ Valid(c)
  /\ StableTables(m, c) /\ ReadOnlyBlocks(m, c)
  /\ KeysKept(m, c) /\ ChunksKept(m, c) /\ LastResort(m, c)

LEMMA RefusedKeeps ==
  ASSUME NEW m \in Manager, Valid(m), NEW reply, Refused(m, reply)
  PROVE  Keeps(m, reply.kv)
BY RefusedKeepsManager, RefusalsAreSafe, NothingEvicted DEF Keeps, KeysKept, ChunksKept

LEMMA GrantedKeeps ==
  ASSUME NEW m \in Manager, Valid(m), NEW r \in Requests, NEW reply, Granted(m, r, reply)
  PROVE  Keeps(m, reply.kv)
<1>1. PICK T, copy : /\ Draft(copy) /\ copy.tables \in [Requests -> Seq(T)]
                     /\ Accepted(reply, copy)
                     /\ \E ids \in Seq(T) : Claims(m, copy, r, ids)
  BY DEF Granted
<1>2. PICK ids \in Seq(T) : Claims(m, copy, r, ids)
  BY <1>1
<1>3. reply.kv = copy /\ Valid(copy)
  BY <1>1 DEF Accepted
<1>4. copy \in Manager
  BY <1>1, ReplyKeepsManager, <1>3
<1>5. StableTables(m, copy) /\ ReadOnlyBlocks(m, copy)
  BY <1>2, <1>3, <1>4, ClaimsAreSafe
<1>6. QED
  BY <1>2, <1>3, <1>4, <1>5 DEF Keeps, Claims

LEMMA ReclaimedKeeps ==
  ASSUME NEW m \in Manager, Valid(m), NEW reply, Reclaimed(m, reply)
  PROVE  Keeps(m, reply.kv)
<1>1. PICK T, copy : /\ Draft(copy) /\ copy.tables \in [Requests -> Seq(T)]
                     /\ Accepted(reply, copy)
                     /\ Reclaims(m, copy)
  BY DEF Reclaimed
<1>2. reply.kv = copy /\ Valid(copy)
  BY <1>1 DEF Accepted
<1>3. copy \in Manager
  BY <1>1, <1>2, ReplyKeepsManager
<1>4. StableTables(m, copy) /\ ReadOnlyBlocks(m, copy)
  BY <1>1, <1>2, <1>3, ReclaimsAreSafe
<1>5. QED
  BY <1>1, <1>2, <1>3, <1>4 DEF Keeps, Reclaims

LEMMA AppendedKeeps ==
  ASSUME NEW m \in Manager, Valid(m), NEW r \in Live(m), NEW reply, Appended(m, r, reply)
  PROVE  Keeps(m, reply.kv)
<1>1. PICK T, copy : /\ Draft(copy) /\ copy.tables \in [Requests -> Seq(T)]
                     /\ Accepted(reply, copy)
                     /\ Appends(m, copy, r)
  BY DEF Appended
<1>2. reply.kv = copy /\ Valid(copy)
  BY <1>1 DEF Accepted
<1>3. copy \in Manager
  BY <1>1, <1>2, ReplyKeepsManager
<1>4. StableTables(m, copy) /\ ReadOnlyBlocks(m, copy)
  BY <1>1, AppendsAreSafe
<1>5. KeysKept(m, copy) /\ ChunksKept(m, copy)
  BY <1>1 DEF KeysKept, ChunksKept, Appends
<1>6. LastResort(m, copy)
  <2>1. \A b \in Cached(m) : copy.blocks[b].key = m.blocks[b].key
    BY <1>1 DEF Appends, Cached
  <2>2. QED
    BY <2>1, NothingEvicted
<1>7. QED
  BY <1>2, <1>3, <1>4, <1>5, <1>6 DEF Keeps

-----------------------------------------------------------------------------
(* The initial manager is valid: in particular, a sum of zeros is zero.      *)

Chosen(s) == CHOOSE x \in s : TRUE
\* g is the table of partial sums that SumFunctionOnSet builds.
IsSum(g, fun, S) ==
  g = [s \in SUBSET S |-> IF s = {} THEN 0 ELSE fun[Chosen(s)] + g[s \ {Chosen(s)}]]

LEMMA SumIsFold ==
  ASSUME NEW fun, NEW S, NEW g, IsSum(g, fun, S)
  PROVE  \E h : IsSum(h, fun, S) /\ SumFunctionOnSet(fun, S) = h[S]
BY Zenon DEF SumFunctionOnSet, FoldFunctionOnSet, MapThenFoldSet, IsSum, Chosen

LEMMA ZeroSum ==
  ASSUME NEW fun, NEW S, IsFiniteSet(S), \A x \in S : fun[x] = 0
  PROVE  SumFunctionOnSet(fun, S) = 0
<1>1. \A s \in SUBSET S : s # {} => Chosen(s) \in s /\ fun[Chosen(s)] = 0 /\ s \ {Chosen(s)} \in SUBSET S
  BY DEF Chosen
<1> DEFINE z == [s \in SUBSET S |-> 0]
<1>2. IsSum(z, fun, S)
  BY <1>1 DEF IsSum
<1>3. PICK h : IsSum(h, fun, S) /\ SumFunctionOnSet(fun, S) = h[S]
  BY <1>2, SumIsFold
<1>4. \A s \in SUBSET S : h[s] = IF s = {} THEN 0 ELSE fun[Chosen(s)] + h[s \ {Chosen(s)}]
  BY <1>3 DEF IsSum
<1> DEFINE N == {n \in Nat : \A s \in SUBSET S : Cardinality(s) = n => h[s] = 0}
<1>5. 0 \in N
  <2>1. ASSUME NEW s \in SUBSET S, Cardinality(s) = 0
        PROVE  h[s] = 0
    <3>1. s = {}
      BY <2>1, FS_Subset, FS_EmptySet
    <3>2. QED
      BY <1>4, <3>1
  <2>2. QED
    BY <2>1
<1>6. ASSUME NEW n \in Nat, n \in N
      PROVE  n + 1 \in N
  <2>1. ASSUME NEW s \in SUBSET S, Cardinality(s) = n + 1
        PROVE  h[s] = 0
    <3>1. IsFiniteSet(s)
      BY FS_Subset
    <3>2. s # {}
      BY <2>1, FS_EmptySet
    <3> DEFINE t == s \ {Chosen(s)}
    <3>3. Cardinality(t) = n /\ t \in SUBSET S
      <4>1. Chosen(s) \in s
        BY <1>1, <3>2
      <4>2. Cardinality(t) = Cardinality(s) - 1
        BY <3>1, <4>1, FS_RemoveElement
      <4>3. QED
        BY <2>1, <4>2
    <3>4. h[t] = 0
      BY <1>6, <3>3
    <3>5. QED
      BY <1>1, <1>4, <3>2, <3>4
  <2>2. QED
    BY <2>1
<1> HIDE DEF N
<1>7. Nat \subseteq N
  BY <1>5, <1>6, NatSetInduction
<1>8. Cardinality(S) \in Nat
  BY FS_CardinalityType
<1>9. h[S] = 0
  BY <1>7, <1>8 DEF N
<1>10. QED
  BY <1>3, <1>9

LEMMA EmptyManagerIsValid == EmptyManager \in Manager /\ Valid(EmptyManager)
<1> DEFINE e == EmptyManager
<1>1. e \in Manager
  <2>1. FreeBlock \in BlockMetadata
    BY KVAssumption DEF FreeBlock, BlockMetadata
  <2>2. QED
    BY <2>1, KVAssumption DEF EmptyManager, Manager
<1>2. Live(e) = {} /\ \A b : Holders(e, b) = {}
  BY DEF EmptyManager, Live, Holders
<1>3. \A b \in Block : BlockValid(e, b)
  BY <1>2 DEF BlockValid, EmptyManager, FreeBlock
<1>4. IndexValid(e)
  BY DEF IndexValid, EmptyManager, Range
<1>5. \A r \in Requests : e.tables[r] = <<>>
  BY DEF EmptyManager
<1>6. e.represented = TokensIn(e, Block)
  <2>1. \A b \in Block : [c \in Block |-> e.blocks[c].valid][b] = 0
    BY DEF EmptyManager, FreeBlock
  <2>2. TokensIn(e, Block) = 0
    BY <2>1, BlocksAreFinite, ZeroSum DEF TokensIn
  <2>3. QED
    BY <2>2 DEF EmptyManager
<1>7. QED
  BY <1>1, <1>2, <1>3, <1>4, <1>5, <1>6 DEF Valid

-----------------------------------------------------------------------------
(* Sums of functions over finite sets *)

-----------------------------------------------------------------------------
(* Sums over blocks.  The library folds a set in the order of CHOOSE; these  *)
(* lemmas say that the order does not matter.                                *)

LEMMA SumExists ==
  ASSUME NEW fun, NEW S, IsFiniteSet(S)
  PROVE  \E g : IsSum(g, fun, S)
<1> DEFINE Small(n) == {s \in SUBSET S : Cardinality(s) <= n}
           Part(g, n) == g = [s \in Small(n) |-> IF s = {} THEN 0
                                                 ELSE fun[Chosen(s)] + g[s \ {Chosen(s)}]]
           N == {n \in Nat : \E g : Part(g, n)}
<1>1. \A s \in SUBSET S : IsFiniteSet(s) /\ Cardinality(s) \in Nat
  BY FS_Subset, FS_CardinalityType
<1>2. 0 \in N
  <2>1. \A s \in Small(0) : s = {}
    BY <1>1, FS_EmptySet
  <2>2. Part([s \in Small(0) |-> 0], 0)
    BY <2>1
  <2> HIDE DEF Part
  <2>3. QED
    BY <2>2
<1>3. ASSUME NEW n \in Nat, n \in N
      PROVE  n + 1 \in N
  <2>1. PICK g : Part(g, n)
    BY <1>3
  <2> DEFINE h == [s \in Small(n + 1) |-> IF s = {} THEN 0
                                          ELSE fun[Chosen(s)] + g[s \ {Chosen(s)}]]
  <2>2. ASSUME NEW s \in Small(n + 1), s # {}
        PROVE  s \ {Chosen(s)} \in Small(n)
    <3>1. Chosen(s) \in s
      BY <2>2 DEF Chosen
    <3>2. Cardinality(s \ {Chosen(s)}) = Cardinality(s) - 1
      BY <1>1, <3>1, FS_RemoveElement
    <3>3. QED
      BY <1>1, <3>2
  <2>3. ASSUME NEW u \in Small(n)
        PROVE  h[u] = g[u]
    <3>1. u \in Small(n + 1)
      BY <1>1
    <3>2. g[u] = IF u = {} THEN 0 ELSE fun[Chosen(u)] + g[u \ {Chosen(u)}]
      BY <2>1
    <3>3. QED
      BY <3>1, <3>2
  <2>4. Part(h, n + 1)
    <3> DEFINE k == [s \in Small(n + 1) |-> IF s = {} THEN 0
                                            ELSE fun[Chosen(s)] + h[s \ {Chosen(s)}]]
    <3>1. \A s \in Small(n + 1) : h[s] = k[s]
      <4> HIDE DEF Small
      <4>1. ASSUME NEW s \in Small(n + 1)
            PROVE  h[s] = k[s]
        <5>1. h[s] = IF s = {} THEN 0 ELSE fun[Chosen(s)] + g[s \ {Chosen(s)}]
          BY DEF h
        <5>2. k[s] = IF s = {} THEN 0 ELSE fun[Chosen(s)] + h[s \ {Chosen(s)}]
          BY DEF k
        <5> HIDE DEF h, k
        <5>3. QED
          BY <2>2, <2>3, <5>1, <5>2
      <4>2. QED
        BY <4>1
    <3>2. h = k
      BY <3>1
    <3>3. QED
      BY <3>2
  <2> HIDE DEF Part
  <2>5. QED
    BY <2>4
<1> HIDE DEF N
<1>4. Nat \subseteq N
  BY <1>2, <1>3, NatSetInduction
<1>5. Cardinality(S) \in N
  BY <1>1, <1>4
<1>6. PICK g : Part(g, Cardinality(S))
  BY <1>5 DEF N
<1>7. Small(Cardinality(S)) = SUBSET S
  BY FS_Subset
<1>8. QED
  BY <1>6, <1>7 DEF IsSum

LEMMA SumsAgree ==
  ASSUME NEW f, NEW h, NEW S, NEW T, IsFiniteSet(S), S \subseteq T,
         \A x \in S : f[x] = h[x],
         NEW fs, IsSum(fs, f, S), NEW hs, IsSum(hs, h, T)
  PROVE  fs[S] = hs[S]
<1> DEFINE N == {n \in Nat : \A s \in SUBSET S : Cardinality(s) = n => fs[s] = hs[s]}
<1>1. \A s \in SUBSET S : /\ IsFiniteSet(s) /\ Cardinality(s) \in Nat
                          /\ s = {} <=> Cardinality(s) = 0
  BY FS_Subset, FS_CardinalityType, FS_EmptySet
<1>2. \A s \in SUBSET S :
        /\ fs[s] = IF s = {} THEN 0 ELSE f[Chosen(s)] + fs[s \ {Chosen(s)}]
        /\ hs[s] = IF s = {} THEN 0 ELSE h[Chosen(s)] + hs[s \ {Chosen(s)}]
  BY DEF IsSum
<1>3. 0 \in N
  BY <1>1, <1>2
<1>4. ASSUME NEW n \in Nat, n \in N
      PROVE  n + 1 \in N
  <2>1. ASSUME NEW s \in SUBSET S, Cardinality(s) = n + 1
        PROVE  fs[s] = hs[s]
    <3> DEFINE t == s \ {Chosen(s)}
    <3>1. s # {}
      BY <1>1, <2>1
    <3>2. Chosen(s) \in s
      BY <3>1 DEF Chosen
    <3>3. Cardinality(t) = n /\ t \in SUBSET S
      <4>1. Cardinality(t) = Cardinality(s) - 1
        BY <1>1, <3>2, FS_RemoveElement
      <4>2. QED
        BY <2>1, <4>1
    <3>4. fs[t] = hs[t]
      BY <1>4, <3>3
    <3>5. f[Chosen(s)] = h[Chosen(s)]
      BY <3>2
    <3>6. QED
      BY <1>2, <3>1, <3>4, <3>5
  <2>2. QED
    BY <2>1
<1> HIDE DEF N
<1>5. Nat \subseteq N
  BY <1>3, <1>4, NatSetInduction
<1>6. QED
  BY <1>1, <1>5 DEF N

\* One table gives the sums over all subsets.
LEMMA SumTable ==
  ASSUME NEW fun, NEW S, IsFiniteSet(S)
  PROVE  \E g : IsSum(g, fun, S) /\ \A s \in SUBSET S : SumFunctionOnSet(fun, s) = g[s]
<1>1. PICK g : IsSum(g, fun, S)
  BY SumExists
<1>2. ASSUME NEW s \in SUBSET S
      PROVE  SumFunctionOnSet(fun, s) = g[s]
  <2>1. IsFiniteSet(s)
    BY FS_Subset
  <2>2. PICK k : IsSum(k, fun, s)
    BY <2>1, SumExists
  <2>3. PICK h : IsSum(h, fun, s) /\ SumFunctionOnSet(fun, s) = h[s]
    BY <2>2, SumIsFold
  <2>4. h[s] = g[s]
    BY <1>1, <2>1, <2>3, SumsAgree
  <2>5. QED
    BY <2>3, <2>4
<1>3. QED
  BY <1>1, <1>2

LEMMA SumAgree ==
  ASSUME NEW f, NEW h, NEW S, IsFiniteSet(S), \A x \in S : f[x] = h[x]
  PROVE  SumFunctionOnSet(f, S) = SumFunctionOnSet(h, S)
<1>1. PICK fs : IsSum(fs, f, S) /\ \A s \in SUBSET S : SumFunctionOnSet(f, s) = fs[s]
  BY SumTable
<1>2. PICK hs : IsSum(hs, h, S) /\ \A s \in SUBSET S : SumFunctionOnSet(h, s) = hs[s]
  BY SumTable
<1>3. fs[S] = hs[S]
  BY <1>1, <1>2, SumsAgree
<1>4. QED
  BY <1>1, <1>2, <1>3

\* A sum is an integer, and any element can be taken out of it first.
LEMMA SumRemove ==
  ASSUME NEW fun, NEW S, IsFiniteSet(S), \A x \in S : fun[x] \in Int
  PROVE  /\ SumFunctionOnSet(fun, {}) = 0
         /\ SumFunctionOnSet(fun, S) \in Int
         /\ \A x \in S : SumFunctionOnSet(fun, S) = fun[x] + SumFunctionOnSet(fun, S \ {x})
<1>1. PICK g : IsSum(g, fun, S) /\ \A s \in SUBSET S : SumFunctionOnSet(fun, s) = g[s]
  BY SumTable
<1>2. \A s \in SUBSET S : g[s] = IF s = {} THEN 0 ELSE fun[Chosen(s)] + g[s \ {Chosen(s)}]
  BY <1>1 DEF IsSum
<1>3. \A s \in SUBSET S : /\ IsFiniteSet(s) /\ Cardinality(s) \in Nat
                          /\ s = {} <=> Cardinality(s) = 0
                          /\ \A x \in s : Cardinality(s \ {x}) = Cardinality(s) - 1
  BY FS_Subset, FS_CardinalityType, FS_EmptySet, FS_RemoveElement
<1>4. \A s \in SUBSET S : g[s] \in Int
  <2> DEFINE M == {n \in Nat : \A s \in SUBSET S : Cardinality(s) = n => g[s] \in Int}
  <2>1. 0 \in M
    <3>1. g[{}] = 0
      BY <1>2
    <3>2. ASSUME NEW s \in SUBSET S, Cardinality(s) = 0
          PROVE  g[s] \in Int
      <4>1. s = {}
        BY <1>3, <3>2
      <4>2. QED
        BY <3>1, <4>1
    <3>3. QED
      BY <3>2
  <2>2. ASSUME NEW n \in Nat, n \in M
        PROVE  n + 1 \in M
    <3>1. ASSUME NEW s \in SUBSET S, Cardinality(s) = n + 1
          PROVE  g[s] \in Int
      <4>1. Chosen(s) \in s
        BY <1>3, <3>1 DEF Chosen
      <4>2. Cardinality(s \ {Chosen(s)}) = n
        BY <1>3, <3>1, <4>1
      <4>3. g[s \ {Chosen(s)}] \in Int
        BY <2>2, <4>2
      <4>4. QED
        BY <1>2, <4>1, <4>3
    <3>2. QED
      BY <3>1
  <2> HIDE DEF M
  <2>3. Nat \subseteq M
    BY <2>1, <2>2, NatSetInduction
  <2>4. QED
    BY <1>3, <2>3 DEF M
<1> DEFINE Good(s) == \A x \in s : g[s] = fun[x] + g[s \ {x}]
           N == {n \in Nat : \A s \in SUBSET S : Cardinality(s) = n => Good(s)}
<1>5. 0 \in N
  BY <1>2, <1>3
<1>6. ASSUME NEW n \in Nat, n \in N
      PROVE  n + 1 \in N
  <2>1. ASSUME NEW s \in SUBSET S, Cardinality(s) = n + 1
        PROVE  Good(s)
    <3> DEFINE c == Chosen(s)
               t == s \ {c}
    <3>1. c \in s /\ c \in S
      BY <1>3, <2>1 DEF Chosen
    <3> HIDE DEF c
    <3>2. g[s] = fun[c] + g[t]
      BY <1>2, <3>1 DEF c
    <3>3. t \in SUBSET S /\ Cardinality(t) = n
      BY <1>3, <2>1, <3>1
    <3>4. Good(t)
      BY <1>6, <3>3
    <3>5. g[s] \in Int
      BY <1>4
    <3>6. ASSUME NEW x \in s, x # c
          PROVE  g[s] = fun[x] + g[s \ {x}]
      <4> DEFINE u == s \ {x}
      <4>1. u \in SUBSET S /\ Cardinality(u) = n
        BY <1>3, <2>1
      <4>2. Good(u)
        BY <1>6, <4>1
      <4>3. c \in u /\ x \in t /\ t \ {x} = u \ {c}
        BY <3>1, <3>6
      <4>4. g[u] = fun[c] + g[u \ {c}] /\ g[t] = fun[x] + g[t \ {x}]
        BY <3>4, <4>2, <4>3
      <4>5. g[u \ {c}] \in Int
        BY <1>4
      <4>6. g[t \ {x}] = g[u \ {c}]
        BY <4>3
      <4>7. fun[x] \in Int /\ fun[c] \in Int
        BY <3>1
      <4> HIDE DEF t, u
      <4>8. QED
        BY <3>2, <4>4, <4>5, <4>6, <4>7 DEF u
    <3>7. QED
      BY <3>2, <3>5, <3>6
  <2>2. QED
    BY <2>1
<1> HIDE DEF N
<1>7. Nat \subseteq N
  BY <1>5, <1>6, NatSetInduction
<1>8. Good(S)
  BY <1>3, <1>7 DEF N
<1>9. SumFunctionOnSet(fun, {}) = 0
  BY <1>1, <1>2
<1>10. SumFunctionOnSet(fun, S) = g[S] /\ \A x \in S : SumFunctionOnSet(fun, S \ {x}) = g[S \ {x}]
  BY <1>1
<1>11. QED
  BY <1>4, <1>8, <1>9, <1>10

\* The sum over a union of disjoint sets.
LEMMA SumUnion ==
  ASSUME NEW fun, NEW A, IsFiniteSet(A), NEW B, IsFiniteSet(B), A \cap B = {},
         \A x \in A \cup B : fun[x] \in Int
  PROVE  /\ SumFunctionOnSet(fun, A) \in Int /\ SumFunctionOnSet(fun, B) \in Int
         /\ SumFunctionOnSet(fun, A \cup B)
              = SumFunctionOnSet(fun, A) + SumFunctionOnSet(fun, B)
<1> DEFINE Sum(s) == SumFunctionOnSet(fun, s)
           N == {n \in Nat : \A s \in SUBSET B :
                   Cardinality(s) = n => Sum(A \cup s) = Sum(A) + Sum(s)}
<1>1. \A s \in SUBSET B : /\ IsFiniteSet(s) /\ Cardinality(s) \in Nat
                          /\ s = {} <=> Cardinality(s) = 0
                          /\ \A x \in s : Cardinality(s \ {x}) = Cardinality(s) - 1
  BY FS_Subset, FS_CardinalityType, FS_EmptySet, FS_RemoveElement
<1>2. \A s \in SUBSET B : IsFiniteSet(A \cup s)
  BY <1>1, FS_Union
<1>3. ASSUME NEW s \in SUBSET (A \cup B), IsFiniteSet(s)
      PROVE  /\ Sum({}) = 0 /\ Sum(s) \in Int
             /\ \A x \in s : Sum(s) = fun[x] + Sum(s \ {x})
  BY <1>3, SumRemove
<1> HIDE DEF Sum
<1>4. 0 \in N
  <2>1. Sum(A) \in Int /\ Sum({}) = 0 /\ A \cup {} = A
    BY <1>3
  <2>2. ASSUME NEW s \in SUBSET B, Cardinality(s) = 0
        PROVE  Sum(A \cup s) = Sum(A) + Sum(s)
    <3>1. s = {}
      BY <1>1, <2>2
    <3>2. QED
      BY <2>1, <3>1
  <2>3. QED
    BY <2>2
<1>5. ASSUME NEW n \in Nat, n \in N
      PROVE  n + 1 \in N
  <2>1. ASSUME NEW s \in SUBSET B, Cardinality(s) = n + 1
        PROVE  Sum(A \cup s) = Sum(A) + Sum(s)
    <3>1. s # {}
      BY <1>1, <2>1
    <3>2. PICK x \in s : TRUE
      BY <3>1
    <3> DEFINE t == s \ {x}
    <3>3. t \in SUBSET B /\ Cardinality(t) = n
      BY <1>1, <2>1, <3>2
    <3>4. Sum(A \cup t) = Sum(A) + Sum(t)
      BY <1>5, <3>3
    <3>5. (A \cup s) \ {x} = A \cup t
      BY <3>2
    <3>6. Sum(A \cup s) = fun[x] + Sum((A \cup s) \ {x})
      BY <1>2, <1>3, <3>2
    <3>7. Sum(s) = fun[x] + Sum(t)
      BY <1>1, <1>3, <3>2
    <3>8. fun[x] \in Int /\ Sum(A) \in Int /\ Sum(t) \in Int
      BY <1>1, <1>3, <3>2, <3>3
    <3>9. Sum(A \cup s) = fun[x] + Sum(A \cup t)
      BY <3>5, <3>6
    <3> HIDE DEF t
    <3>10. QED
      BY <3>4, <3>7, <3>8, <3>9
  <2>2. QED
    BY <2>1
<1> HIDE DEF N
<1>6. Nat \subseteq N
  BY <1>4, <1>5, NatSetInduction
<1>7. Sum(A \cup B) = Sum(A) + Sum(B)
  BY <1>1, <1>6 DEF N
<1>8. Sum(A) \in Int /\ Sum(B) \in Int
  BY <1>3
<1>9. QED
  BY <1>7, <1>8 DEF Sum

-----------------------------------------------------------------------------
(* The tokens that a set of blocks holds.                                    *)

TokensAreInt(m) == \A b \in Block : m.blocks[b].valid \in Int

LEMMA TokensSplit ==
  ASSUME NEW m, TokensAreInt(m), NEW A \in SUBSET Block, NEW B \in SUBSET Block, A \cap B = {}
  PROVE  /\ TokensIn(m, A) \in Int /\ TokensIn(m, B) \in Int
         /\ TokensIn(m, A \cup B) = TokensIn(m, A) + TokensIn(m, B)
<1> DEFINE fun == [b \in Block |-> m.blocks[b].valid]
<1>1. \A x \in A \cup B : fun[x] \in Int
  BY DEF TokensAreInt
<1>2. IsFiniteSet(A) /\ IsFiniteSet(B)
  BY BlocksAreFinite
<1> HIDE DEF fun
<1>3. QED
  BY <1>1, <1>2, SumUnion DEF TokensIn, fun

LEMMA TokensAgree ==
  ASSUME NEW m, NEW c, NEW S \in SUBSET Block,
         \A b \in S : c.blocks[b].valid = m.blocks[b].valid
  PROVE  TokensIn(c, S) = TokensIn(m, S)
<1>1. \A b \in S : [a \in Block |-> c.blocks[a].valid][b] = [a \in Block |-> m.blocks[a].valid][b]
  OBVIOUS
<1>2. IsFiniteSet(S)
  BY BlocksAreFinite
<1>3. QED
  BY <1>1, <1>2, SumAgree DEF TokensIn

LEMMA NoTokens ==
  ASSUME NEW m, NEW S \in SUBSET Block, \A b \in S : m.blocks[b].valid = 0
  PROVE  TokensIn(m, S) = 0
<1>1. \A b \in S : [a \in Block |-> m.blocks[a].valid][b] = 0
  OBVIOUS
<1>2. IsFiniteSet(S)
  BY BlocksAreFinite
<1>3. QED
  BY <1>1, <1>2, ZeroSum DEF TokensIn

LEMMA TokensInOne ==
  ASSUME NEW m, TokensAreInt(m), NEW b \in Block
  PROVE  TokensIn(m, {b}) = m.blocks[b].valid
<1> DEFINE fun == [a \in Block |-> m.blocks[a].valid]
<1>1. fun[b] = m.blocks[b].valid /\ fun[b] \in Int
  BY DEF TokensAreInt
<1>2. IsFiniteSet({b})
  BY FS_Singleton
<1> HIDE DEF fun
<1>3. /\ SumFunctionOnSet(fun, {}) = 0
      /\ SumFunctionOnSet(fun, {b}) = fun[b] + SumFunctionOnSet(fun, {b} \ {b})
  BY <1>1, <1>2, SumRemove
<1>4. SumFunctionOnSet(fun, {b} \ {b}) = SumFunctionOnSet(fun, {})
  <2>1. {b} \ {b} = {}
    OBVIOUS
  <2>2. QED
    BY <2>1
<1>5. SumFunctionOnSet(fun, {b}) = m.blocks[b].valid
  BY <1>1, <1>3, <1>4
<1>6. QED
  BY <1>5 DEF TokensIn, fun

\* Tokens in a pool whose blocks all hold a natural number of them.
LEMMA TokensAreNatural ==
  ASSUME NEW m, NEW S \in SUBSET Block, \A b \in Block : m.blocks[b].valid \in Nat
  PROVE  TokensIn(m, S) \in Nat
<1> DEFINE N == {n \in Nat : \A s \in SUBSET Block : Cardinality(s) = n => TokensIn(m, s) \in Nat}
<1>1. \A s \in SUBSET Block : /\ IsFiniteSet(s) /\ Cardinality(s) \in Nat
                              /\ s = {} <=> Cardinality(s) = 0
                              /\ \A x \in s : Cardinality(s \ {x}) = Cardinality(s) - 1
  BY BlocksAreFinite, FS_EmptySet, FS_RemoveElement
<1>2. TokensAreInt(m)
  BY DEF TokensAreInt
<1>3. 0 \in N
  <2>1. TokensIn(m, {}) = 0
    BY NoTokens
  <2>2. ASSUME NEW s \in SUBSET Block, Cardinality(s) = 0
        PROVE  TokensIn(m, s) \in Nat
    <3>1. s = {}
      BY <1>1, <2>2
    <3>2. QED
      BY <2>1, <3>1
  <2>3. QED
    BY <2>2
<1>4. ASSUME NEW n \in Nat, n \in N
      PROVE  n + 1 \in N
  <2>1. ASSUME NEW s \in SUBSET Block, Cardinality(s) = n + 1
        PROVE  TokensIn(m, s) \in Nat
    <3>1. PICK x \in s : TRUE
      BY <1>1, <2>1
    <3>2. Cardinality(s \ {x}) = n
      BY <1>1, <2>1, <3>1
    <3>3. TokensIn(m, s \ {x}) \in Nat
      BY <1>4, <3>2
    <3>4. s = (s \ {x}) \cup {x} /\ (s \ {x}) \cap {x} = {} /\ {x} \in SUBSET Block
      BY <3>1
    <3>5. TokensIn(m, s) = TokensIn(m, s \ {x}) + TokensIn(m, {x})
      BY <1>2, <3>4, TokensSplit
    <3>6. TokensIn(m, {x}) \in Nat
      BY <1>2, <3>1, TokensInOne
    <3>7. QED
      BY <3>3, <3>5, <3>6
  <2>2. QED
    BY <2>1
<1> HIDE DEF N
<1>5. Nat \subseteq N
  BY <1>3, <1>4, NatSetInduction
<1>6. QED
  BY <1>1, <1>5 DEF N

-----------------------------------------------------------------------------
(* Tokens, blocks and the choice of blocks *)

LEMMA ProductGrows ==
  ASSUME NEW i \in Nat, NEW j \in Nat, i <= j, NEW k \in Nat
  PROVE  i * k \in Nat /\ j * k \in Nat /\ i * k <= j * k
<1>1. i * k \in Nat /\ (j - i) * k \in Nat /\ j - i \in Nat
  <2>1. \A x, y \in Nat : x * y \in Nat
    OBVIOUS
  <2>2. j - i \in Nat
    OBVIOUS
  <2>3. QED
    BY <2>1, <2>2
<1>2. j * k = i * k + (j - i) * k
  OBVIOUS
<1>3. QED
  BY <1>1, <1>2

\* As many blocks as the tokens need, and no more.
LEMMA BlocksSuffice ==
  ASSUME NEW tokens \in Nat
  PROVE  /\ BlocksRequired(tokens) \in Nat
         /\ tokens <= BlocksRequired(tokens) * BlockSize
         /\ BlocksRequired(tokens) > 0 => (BlocksRequired(tokens) - 1) * BlockSize < tokens
<1> DEFINE d == tokens \div BlockSize
           e == tokens % BlockSize
<1>1. BlockSize \in Nat /\ BlockSize > 0
  BY KVAssumption
<1>2. d \in Nat /\ e \in Nat /\ e < BlockSize /\ tokens = BlockSize * d + e
  BY <1>1
<1>3. BlocksRequired(tokens) = d + (IF e = 0 THEN 0 ELSE 1)
  BY DEF BlocksRequired
<1> HIDE DEF d, e
<1>4. BlockSize * d = d * BlockSize /\ d * BlockSize \in Nat
  <2>1. \A x, y \in Nat : x * y \in Nat /\ x * y = y * x
    OBVIOUS
  <2>2. QED
    BY <1>1, <1>2, <2>1
<1>5. (d + 1) * BlockSize = d * BlockSize + BlockSize /\ (d + 1) - 1 = d
  BY <1>1, <1>2
<1>6. (d - 1) * BlockSize = d * BlockSize - BlockSize
  BY <1>1, <1>2
<1>7. CASE e = 0
  <2>1. BlocksRequired(tokens) = d
    BY <1>2, <1>3, <1>7
  <2>2. QED
    BY <1>1, <1>2, <1>4, <1>6, <1>7, <2>1
<1>8. CASE e # 0
  <2>1. BlocksRequired(tokens) = d + 1
    BY <1>2, <1>3, <1>8
  <2>2. QED
    BY <1>1, <1>2, <1>4, <1>5, <1>8, <2>1
<1>9. QED
  BY <1>7, <1>8

LEMMA TokensAtType ==
  ASSUME NEW tokens \in Nat, NEW i \in 1 .. BlocksRequired(tokens)
  PROVE  TokensAt(tokens, i) \in 1 .. BlockSize
<1>1. /\ BlocksRequired(tokens) \in Nat
      /\ BlocksRequired(tokens) > 0 => (BlocksRequired(tokens) - 1) * BlockSize < tokens
  BY BlocksSuffice
<1>2. BlockSize \in Nat /\ BlockSize > 0 /\ i - 1 \in Nat /\ BlocksRequired(tokens) - 1 \in Nat
  BY <1>1, KVAssumption
<1>3. (i - 1) * BlockSize \in Nat /\ (i - 1) * BlockSize <= (BlocksRequired(tokens) - 1) * BlockSize
  BY <1>1, <1>2, ProductGrows
<1>4. (i - 1) * BlockSize < tokens
  <2>1. (BlocksRequired(tokens) - 1) * BlockSize \in Nat
    BY <1>2, ProductGrows
  <2>2. QED
    BY <1>1, <1>2, <1>3, <2>1
<1>5. QED
  BY <1>2, <1>3, <1>4 DEF TokensAt

\* The blocks handed out for some tokens hold these tokens together.
LEMMA TokensOfIds ==
  ASSUME NEW m, TokensAreInt(m), NEW ids \in Seq(Block), IsInjective(ids),
         NEW tokens \in Nat, Len(ids) = BlocksRequired(tokens),
         \A i \in DOMAIN ids : m.blocks[ids[i]].valid = TokensAt(tokens, i)
  PROVE  TokensIn(m, Range(ids)) = tokens
<1> DEFINE n == Len(ids)
           first(k) == {ids[i] : i \in 1 .. k}
           sum(k) == IF k * BlockSize < tokens THEN k * BlockSize ELSE tokens
           N == {k \in Nat : k <= n => TokensIn(m, first(k)) = sum(k)}
<1>1. n \in Nat /\ tokens <= n * BlockSize /\ (n > 0 => (n - 1) * BlockSize < tokens)
  BY BlocksSuffice
<1>2. BlockSize \in Nat /\ BlockSize > 0
  BY KVAssumption
<1>3. \A k \in Nat : k <= n => first(k) \in SUBSET Block
  OBVIOUS
<1> HIDE DEF n
<1>4. 0 \in N
  <2>1. first(0) = {}
    OBVIOUS
  <2>2. TokensIn(m, first(0)) = 0
    BY <2>1, NoTokens
  <2>3. sum(0) = 0
    BY <1>2
  <2>4. QED
    BY <2>2, <2>3
<1>5. ASSUME NEW k \in Nat, k \in N
      PROVE  k + 1 \in N
  <2>1. SUFFICES ASSUME k + 1 <= n
                 PROVE  TokensIn(m, first(k + 1)) = sum(k + 1)
    OBVIOUS
  <2>2. k <= n /\ k <= n - 1 /\ n - 1 \in Nat /\ k + 1 \in 1 .. n
    BY <1>1, <2>1
  <2>3. TokensIn(m, first(k)) = sum(k)
    BY <1>5, <2>2
  <2>4. k * BlockSize \in Nat /\ (n - 1) * BlockSize \in Nat /\ k * BlockSize <= (n - 1) * BlockSize
    BY <1>2, <2>2, ProductGrows
  <2>5. k * BlockSize < tokens
    BY <1>1, <2>1, <2>4
  <2>6. first(k + 1) = first(k) \cup {ids[k + 1]}
    OBVIOUS
  <2>7. first(k) \cap {ids[k + 1]} = {}
    <3>1. \A i \in 1 .. k : i \in DOMAIN ids /\ k + 1 \in DOMAIN ids /\ i # k + 1
      BY <1>1, <2>2 DEF n
    <3>2. \A i \in 1 .. k : ids[i] # ids[k + 1]
      BY <3>1 DEF IsInjective
    <3>3. QED
      BY <3>2
  <2>8. ids[k + 1] \in Block /\ m.blocks[ids[k + 1]].valid = TokensAt(tokens, k + 1)
    BY <2>2 DEF n
  <2>9. first(k) \in SUBSET Block
    BY <1>3, <2>2
  <2>10. /\ TokensIn(m, first(k + 1)) = TokensIn(m, first(k)) + TokensIn(m, {ids[k + 1]})
         /\ TokensIn(m, {ids[k + 1]}) = TokensAt(tokens, k + 1)
    <3>1. {ids[k + 1]} \in SUBSET Block
      BY <2>8
    <3> HIDE DEF first
    <3>2. TokensIn(m, first(k) \cup {ids[k + 1]}) = TokensIn(m, first(k)) + TokensIn(m, {ids[k + 1]})
      BY <2>7, <2>9, <3>1, TokensSplit
    <3>3. TokensIn(m, {ids[k + 1]}) = m.blocks[ids[k + 1]].valid
      BY <2>8, TokensInOne
    <3>4. QED
      BY <2>6, <2>8, <3>2, <3>3
  <2>11. /\ (k + 1) * BlockSize = k * BlockSize + BlockSize
         /\ (k + 1) - 1 = k
    BY <1>2
  <2>12. TokensAt(tokens, k + 1) = IF tokens - k * BlockSize < BlockSize
                                   THEN tokens - k * BlockSize ELSE BlockSize
    BY <2>11 DEF TokensAt
  <2> HIDE DEF first
  <2>13. sum(k) = k * BlockSize
    BY <2>5
  <2>14. QED
    BY <1>2, <2>3, <2>4, <2>5, <2>10, <2>11, <2>12, <2>13
<1> HIDE DEF N
<1>6. Nat \subseteq N
  BY <1>4, <1>5, NatSetInduction
<1>7. TokensIn(m, first(n)) = sum(n)
  BY <1>1, <1>6 DEF N
<1>8. first(n) = Range(ids)
  BY DEF Range, n
<1>9. sum(n) = tokens
  <2>1. n * BlockSize \in Nat
    BY <1>1, <1>2, ProductGrows
  <2>2. QED
    BY <1>1, <2>1
<1>10. QED
  BY <1>7, <1>8, <1>9

LEMMA FunctionIsSequence ==
  ASSUME NEW n \in Nat, NEW T, NEW f \in [1 .. n -> T]
  PROVE  f \in Seq(T) /\ Len(f) = n /\ DOMAIN f = 1 .. n
OBVIOUS

LEMMA InjectionTells ==
  ASSUME NEW f, NEW D, DOMAIN f = D, \A i, j \in D : f[i] = f[j] => i = j
  PROVE  IsInjective(f)
BY DEF IsInjective

\* The choice of free and evicted blocks for a claim: as many as required, each
\* once.
LEMMA ChoiceSuffices ==
  ASSUME NEW m \in Manager, NEW S \in SUBSET Block, S \cap m.free = {},
         NEW required \in Nat, NEW short, short = Shortage(m, required),
         ~(short > Cardinality(S)),
         NEW evictions, evictions = LeastRecentlyUsed(m, S, short),
         NEW ids, ids = Ascending(Lowest(m.free \cup evictions, required))
  PROVE  /\ evictions \in SUBSET S
         /\ ids \in Seq(Block) /\ Len(ids) = required /\ IsInjective(ids)
         /\ Range(ids) \subseteq m.free \cup evictions
<1> DEFINE R == Ages(m)
           F == Cardinality(m.free)
           pool == m.free \cup evictions
           low == Lowest(pool, required)
<1>1. /\ IsFiniteSet(S) /\ IsOrder(R, S)
      /\ \A n : LeastRecentlyUsed(m, S, n) = Firsts(R, S, n)
  BY AgesAreOrdered
<1>2. m.free \in SUBSET Block /\ IsFiniteSet(m.free) /\ F \in Nat /\ Cardinality(S) \in Nat
  BY BlocksAreFinite DEF Manager
<1> HIDE DEF F
<1>3. short = IF required > F THEN required - F ELSE 0
  BY DEF Shortage, F
<1>4. short \in Nat /\ short <= Cardinality(S)
  BY <1>2, <1>3
<1>5. Cardinality(evictions) = short
  BY <1>1, <1>4, FirstsAreCounted
<1>6. evictions \in SUBSET S
  BY DEF LeastRecentlyUsed
<1>7. pool \in SUBSET Block /\ IsFiniteSet(pool) /\ IsFiniteSet(evictions)
  BY <1>2, <1>6, BlocksAreFinite
<1>8. Cardinality(pool) = F + short
  <2>1. m.free \cap evictions = {}
    BY <1>6
  <2>2. Cardinality(m.free \cap evictions) = 0
    BY <2>1, FS_EmptySet
  <2>3. Cardinality(pool) = Cardinality(m.free) + Cardinality(evictions)
                              - Cardinality(m.free \cap evictions)
    BY <1>2, <1>7, FS_Union
  <2>4. QED
    BY <1>2, <1>4, <1>5, <2>2, <2>3 DEF F
<1>9. required <= Cardinality(pool)
  BY <1>2, <1>3, <1>8
<1> HIDE DEF pool
<1>10. /\ IsFiniteSet(pool) /\ IsOrder(Ids, pool)
       /\ \A b \in pool : Rank(Ids, pool, b) = Cardinality({a \in pool : a < b})
  BY <1>7, IdsAreOrdered
<1>11. low = Firsts(Ids, pool, required)
  BY <1>10 DEF Lowest, Firsts
<1>12. Cardinality(low) = required
  BY <1>9, <1>10, <1>11, FirstsAreCounted
<1>13. low \in SUBSET pool
  BY DEF Lowest
<1> HIDE DEF low
<1>14. low \in SUBSET Block
  BY <1>7, <1>13
<1>15. Range(ids) = low /\ ids \in Seq(Range(ids))
  BY <1>14, AscendingRange, AscendingType DEF low, pool
<1>16. ids = Ascending(low) /\ ids = [i \in 1 .. required |-> NthLowest(low, i)]
  BY <1>12 DEF Ascending, low, pool
<1>17. ids \in Seq(Block) /\ Len(ids) = required /\ DOMAIN ids = 1 .. required
  <2>1. \A i \in 1 .. required : ids[i] \in Block
    BY <1>14, <1>15, <1>16 DEF Range
  <2> DEFINE nth(i) == NthLowest(low, i)
  <2>2. ids = [i \in 1 .. required |-> nth(i)]
    BY <1>16
  <2> HIDE DEF nth
  <2>3. ids \in [1 .. required -> Block]
    BY <2>1, <2>2
  <2>4. QED
    BY <2>3, FunctionIsSequence
<1>18. IsInjective(ids)
  <2>1. ASSUME NEW i \in 1 .. required
        PROVE  Cardinality({a \in low : a < ids[i]}) = i - 1
    <3>1. i - 1 \in Nat /\ i - 1 < Cardinality(low)
      BY <1>12
    <3>2. /\ IsFiniteSet(low) /\ IsOrder(Ids, low)
          /\ \A b \in low : Rank(Ids, low, b) = Cardinality({a \in low : a < b})
      BY <1>14, IdsAreOrdered
    <3>3. \E b \in low : Rank(Ids, low, b) = i - 1
      BY <3>1, <3>2, RanksAreTaken
    <3>4. \E b \in low : Cardinality({a \in low : a < b}) = i - 1
      BY <3>2, <3>3
    <3>5. Cardinality({a \in low : a < NthLowest(low, i)}) = i - 1
      BY <3>4 DEF NthLowest
    <3>6. QED
      BY <1>16, <3>5
  <2>2. \A i, j \in 1 .. required : ids[i] = ids[j] => i = j
    <3>1. ASSUME NEW i \in 1 .. required, NEW j \in 1 .. required, ids[i] = ids[j]
          PROVE  i = j
      <4>1. i - 1 = j - 1
        BY <2>1, <3>1
      <4>2. QED
        BY <4>1
    <3>2. QED
      BY <3>1
  <2>3. \A i, j \in DOMAIN ids : ids[i] = ids[j] => i = j
    <3>1. DOMAIN ids = 1 .. required
      BY <1>17
    <3>2. SUFFICES ASSUME NEW i \in DOMAIN ids, NEW j \in DOMAIN ids, ids[i] = ids[j]
                   PROVE  i = j
      BY Zenon
    <3>3. i \in 1 .. required /\ j \in 1 .. required
      BY <3>1
    <3>4. QED
      BY <2>2, <3>2, <3>3
  <2>4. QED
    BY <2>3, Zenon DEF IsInjective
<1>19. QED
  BY <1>6, <1>13, <1>15, <1>17, <1>18 DEF pool

-----------------------------------------------------------------------------
(* Validity: blocks, the index, tables, and an eviction *)

-----------------------------------------------------------------------------
(* Copies are valid: what each call does to a valid manager leaves it valid, *)
(* unless the eviction takes a block that a live request relies on.          *)

LEMMA HoldersAreFinite ==
  ASSUME NEW m, IsFiniteSet(Live(m)), NEW b
  PROVE  IsFiniteSet(Holders(m, b)) /\ Cardinality(Holders(m, b)) \in Nat
<1>1. Holders(m, b) \in SUBSET Live(m)
  BY DEF Holders
<1>2. QED
  BY <1>1, FS_Subset, FS_CardinalityType

\* What a valid manager says of one block.
LEMMA BlockFacts ==
  ASSUME NEW m \in Manager, Valid(m), NEW b \in Block
  PROVE  /\ BlockValid(m, b) /\ m.blocks[b] \in BlockMetadata
         /\ m.blocks[b].valid \in Nat
         /\ b \in m.free <=> m.blocks[b].state = "Free"
         /\ b \in m.free => m.blocks[b] = FreeBlock /\ Holders(m, b) = {}
         /\ m.blocks[b].key # None => b \notin m.free /\ m.blocks[b].prov \in FullProvenance
         /\ m.blocks[b].state = "Cached" => Holders(m, b) = {} /\ m.blocks[b].key # None
<1>1. BlockValid(m, b) /\ m.blocks[b] \in BlockMetadata
  BY DEF Valid, Manager
<1>2. m.blocks[b].valid \in Nat /\ m.blocks[b].state \in {"Free", "InUse", "Cached"}
  BY <1>1, KVAssumption DEF BlockMetadata
<1>3. FreeBlock.key = None /\ FreeBlock.state = "Free"
  BY DEF FreeBlock
<1>4. QED
  BY <1>1, <1>2, <1>3 DEF BlockValid

\* Indexed blocks have keys, so they are not free.
LEMMA IndexedBlocks ==
  ASSUME NEW m \in Manager, Valid(m), NEW h \in HashValues, NEW b \in m.index[h]
  PROVE  b \in Block /\ m.blocks[b].key # None /\ b \notin m.free /\ HashOf(m.blocks[b].key) = h
<1>1. b \in Block
  BY DEF Manager
<1>2. m.blocks[b].key # None /\ HashOf(m.blocks[b].key) = h
  BY DEF Valid, IndexValid
<1>3. QED
  BY <1>1, <1>2, BlockFacts

LEMMA HashType ==
  ASSUME NEW key \in Key
  PROVE  HashOf(key) \in HashValues
BY KVAssumption DEF HashOf, Key

LEMMA EvictFields ==
  ASSUME NEW m, Draft(m), NEW E \in SUBSET Block, NEW e, e = EvictBlocks(m, E)
  PROVE  /\ e.blocks = [b \in Block |-> IF b \in E THEN FreeBlock ELSE m.blocks[b]]
         /\ e.free = m.free \cup E
         /\ e.index = [h \in HashValues |-> m.index[h] \ E]
         /\ e.tables = m.tables /\ e.prov = m.prov /\ e.epoch = m.epoch
         /\ e.failures = m.failures
         /\ e.represented = m.represented - TokensIn(m, E)
BY DEF EvictBlocks, Draft, IsRecord

\* A table is as valid as it was when its blocks keep their kind and lose no
\* tokens.
LEMMA TableValidDepends ==
  ASSUME NEW m \in Manager, NEW c, NEW r \in Live(m), TableValid(m, r),
         c.prov[r] = m.prov[r], c.tables[r] = m.tables[r],
         \A i \in DOMAIN m.tables[r] :
           LET d == m.blocks[m.tables[r][i]]
               a == c.blocks[m.tables[r][i]]
           IN  /\ a.prov = d.prov \/ {a.prov, d.prov} \subseteq FullProvenance
               /\ a.valid \in Nat /\ a.valid >= d.valid
  PROVE  TableValid(c, r)
<1> DEFINE t == m.tables[r]
           q == m.prov[r]
<1>1. q \in RequestProvenance /\ t \in Seq(Block)
  BY DEF Manager, Live
<1>2. q.total \in Nat
  BY <1>1 DEF RequestProvenance
<1>3. ASSUME NEW i \in DOMAIN t
      PROVE  TokensAt(q.total, i) \in Int /\ m.blocks[t[i]].valid \in Nat
  <2>1. BlockSize \in Nat /\ i \in Nat
    BY <1>1, KVAssumption
  <2>2. (i - 1) * BlockSize \in Int
    <3>1. \A x, y \in Int : x * y \in Int
      OBVIOUS
    <3>2. QED
      BY <2>1, <3>1
  <2>3. TokensAt(q.total, i) \in Int
    BY <1>2, <2>1, <2>2 DEF TokensAt
  <2>4. t[i] \in Block
    BY <1>1
  <2>5. m.blocks[t[i]].valid \in Nat
    BY <2>4, KVAssumption DEF Manager, BlockMetadata
  <2>6. QED
    BY <2>3, <2>5
<1> DEFINE Kind(k, i) ==
             IF i <= Len(q.chunks) THEN k.blocks[t[i]].prov \in FullProvenance
             ELSE IF i <= PromptBlocks(q)
             THEN /\ k.blocks[t[i]].prov = IF q.exact THEN "PrivatePromptTail"
                                           ELSE "PrivatePromptCountOnly"
                  /\ k.blocks[t[i]].valid >= TokensAt(q.total, i)
             ELSE k.blocks[t[i]].prov = "PrivateDecode"
<1>4. \A i \in DOMAIN t : Kind(m, i)
  BY DEF TableValid
<1>5. ASSUME NEW i \in DOMAIN t
      PROVE  Kind(c, i)
  <2>1. Kind(m, i)
    BY <1>4
  <2> HIDE DEF q, t
  <2>2. /\ c.blocks[t[i]].prov = m.blocks[t[i]].prov
           \/ {c.blocks[t[i]].prov, m.blocks[t[i]].prov} \subseteq FullProvenance
        /\ c.blocks[t[i]].valid \in Nat /\ c.blocks[t[i]].valid >= m.blocks[t[i]].valid
    BY DEF t
  <2>3. QED
    BY <1>3, <2>1, <2>2 DEF FullProvenance
<1>6. QED
  BY <1>5 DEF TableValid

LEMMA EvictionIsValid ==
  ASSUME NEW m \in Manager, Valid(m), NEW E \in SUBSET Cached(m),
         \A b \in E : ~DuplicateHolder(m, b),
         NEW e, e = EvictBlocks(m, E)
  PROVE  /\ e \in Manager /\ Valid(e) /\ Live(e) = Live(m)
         /\ \A b \in E : e.blocks[b] = FreeBlock
         /\ \A b \in Block \ E : e.blocks[b] = m.blocks[b]
<1>1. E \in SUBSET Block /\ Draft(m)
  BY ManagerIsDraft DEF Cached
<1>2. /\ e.blocks = [b \in Block |-> IF b \in E THEN FreeBlock ELSE m.blocks[b]]
      /\ e.free = m.free \cup E
      /\ e.index = [h \in HashValues |-> m.index[h] \ E]
      /\ e.tables = m.tables /\ e.prov = m.prov /\ e.epoch = m.epoch
      /\ e.represented = m.represented - TokensIn(m, E)
  BY <1>1, EvictFields
<1>3. Draft(e)
  BY <1>1, EvictDraft
<1>4. Live(e) = Live(m) /\ \A b : Holders(e, b) = Holders(m, b)
  BY <1>2 DEF Live, Holders
<1>5. ASSUME NEW r \in Live(m), NEW b \in Range(m.tables[r])
      PROVE  b \in Block /\ b \notin E /\ e.blocks[b] = m.blocks[b]
  <2>1. b \in Block /\ m.blocks[b].state = "InUse"
    BY HeldBlocksAreInUse
  <2>2. QED
    BY <1>2, <2>1 DEF Cached
<1>6. \A b \in E : m.blocks[b].state = "Cached" /\ Holders(m, b) = {} /\ e.blocks[b] = FreeBlock
  BY <1>1, <1>2, BlockFacts DEF Cached
<1>7. ASSUME NEW key \in Key
      PROVE  Matches(e, key) = Matches(m, key) \ E
  <2>1. HashOf(key) \in HashValues
    BY HashType
  <2>2. m.index[HashOf(key)] \in SUBSET Block
    BY <2>1 DEF Manager
  <2>3. QED
    BY <1>2, <2>1, <2>2 DEF Matches
<1>8. ASSUME NEW r \in Live(m)
      PROVE  TableValid(e, r) /\ KeysValid(e, r)
  <2> DEFINE q == m.prov[r]
             t == m.tables[r]
  <2>1. TableValid(m, r) /\ KeysValid(m, r)
    BY DEF Valid, Live
  <2>2. \A i \in DOMAIN t : e.blocks[t[i]] = m.blocks[t[i]]
    BY <1>5 DEF Range
  <2>3. TableValid(e, r)
    <3>1. e.prov[r] = q /\ e.tables[r] = t
      BY <1>2
    <3>2. \A i \in DOMAIN t : m.blocks[t[i]].valid \in Nat
      BY <1>5, BlockFacts DEF Range
    <3>3. \A i \in DOMAIN t : m.blocks[t[i]].valid >= m.blocks[t[i]].valid
      BY <3>2
    <3> HIDE DEF q, t
    <3>4. QED
      BY <2>1, <2>2, <3>1, <3>2, <3>3, TableValidDepends DEF q, t
  <2>4. q \in RequestProvenance
    BY DEF Manager, Live
  <2>5. q.chunks \in Seq(Chunks) /\ q.matched \in Nat
    BY <2>4 DEF RequestProvenance
  <2>6. ASSUME NEW i \in 1 .. Len(q.chunks)
        PROVE  LET expected == KeyAt(q.chunks, i)
                   key == e.blocks[e.tables[r][i]].key
               IN  /\ key \in {None, expected}
                   /\ i <= q.matched => key # None
                   /\ i > q.matched /\ ~q.published => key = None
                   /\ i > q.matched /\ q.published /\ key = None
                        => Matches(e, expected) # {}
    <3> DEFINE expected == KeyAt(q.chunks, i)
    <3>1. i \in DOMAIN t
      BY PromptBlocksAreHeld
    <3>2. e.blocks[e.tables[r][i]] = m.blocks[t[i]]
      BY <1>2, <2>2, <3>1
    <3>3. expected \in Key
      BY <2>5, KeyType
    <3> HIDE DEF expected
    <3>4. ASSUME i > q.matched, q.published, m.blocks[t[i]].key = None
          PROVE  Matches(e, expected) # {}
      <4>1. Matches(m, expected) # {}
        BY <2>1, <3>4 DEF KeysValid, expected
      <4>2. PICK b \in Matches(m, expected) : TRUE
        BY <4>1
      <4>3. i \in (q.matched + 1) .. Len(q.chunks)
        BY <2>5, <3>4
      <4>4. m.blocks[b].key = expected
        BY <4>2 DEF Matches
      <4>5. DuplicateHolder(m, b)
        BY <3>4, <4>3, <4>4 DEF DuplicateHolder, expected
      <4>6. b \notin E
        BY <4>5
      <4>7. QED
        BY <1>7, <3>3, <4>2, <4>6
    <3>5. QED
      BY <2>1, <3>2, <3>4 DEF KeysValid, expected
  <2>7. KeysValid(e, r)
    BY <1>2, <2>6 DEF KeysValid
  <2>8. QED
    BY <2>3, <2>7
<1>9. \A r \in Requests \ Live(m) : e.tables[r] = <<>>
  BY <1>2 DEF Valid
<1>10. ASSUME NEW b \in Block
       PROVE  BlockValid(e, b)
  <2>1. CASE b \in E
    BY <1>2, <1>4, <1>6, <2>1 DEF BlockValid, FreeBlock
  <2>2. CASE b \notin E
    <3>1. BlockValid(m, b) /\ e.blocks[b] = m.blocks[b] /\ (b \in e.free <=> b \in m.free)
      BY <1>2, <2>2 DEF Valid
    <3>2. m.blocks[b].key # None /\ b \in m.index[HashOf(m.blocks[b].key)]
            => b \in e.index[HashOf(m.blocks[b].key)]
      <4>1. m.blocks[b].key \in Key \cup {None}
        BY DEF Manager, BlockMetadata
      <4>2. QED
        BY <1>2, <2>2, <4>1, HashType
    <3>3. QED
      BY <1>2, <1>4, <3>1, <3>2 DEF BlockValid
  <2>3. QED
    BY <2>1, <2>2
<1>11. IndexValid(e)
  <2>1. ASSUME NEW h \in HashValues, NEW b \in e.index[h]
        PROVE  b \in m.index[h] /\ e.blocks[b] = m.blocks[b]
    <3>1. b \in m.index[h] /\ b \notin E
      BY <1>2
    <3>2. b \in Block
      BY <3>1 DEF Manager
    <3>3. QED
      BY <1>2, <3>1, <3>2
  <2>2. DOMAIN e.index = HashValues /\ DOMAIN m.index = HashValues
    BY <1>2 DEF Manager
  <2>3. \A b \in UNION Range(e.index) : b \in UNION Range(m.index) /\ e.blocks[b] = m.blocks[b]
    BY <2>1, <2>2 DEF Range
  <2>4. IndexValid(m)
    BY DEF Valid
  <2>5. QED
    BY <2>1, <2>3, <2>4 DEF IndexValid
<1>12. e.represented = TokensIn(e, Block) /\ e.represented \in Nat
  <2> DEFINE rest == Block \ E
  <2>1. rest \in SUBSET Block /\ rest \cap E = {} /\ rest \cup E = Block
    BY <1>1
  <2> HIDE DEF rest
  <2>2. \A b \in Block : m.blocks[b].valid \in Nat /\ e.blocks[b].valid \in Nat
    <3>1. \A b \in Block : m.blocks[b].valid \in Nat
      BY BlockFacts
    <3>2. FreeBlock.valid \in Nat
      BY DEF FreeBlock
    <3>3. QED
      BY <1>2, <3>1, <3>2
  <2>3. TokensAreInt(m) /\ TokensAreInt(e)
    BY <2>2 DEF TokensAreInt
  <2>4. /\ TokensIn(m, rest) \in Int /\ TokensIn(m, E) \in Int
        /\ TokensIn(m, Block) = TokensIn(m, rest) + TokensIn(m, E)
    BY <1>1, <2>1, <2>3, TokensSplit
  <2>5. /\ TokensIn(e, rest) \in Int /\ TokensIn(e, E) \in Int
        /\ TokensIn(e, Block) = TokensIn(e, rest) + TokensIn(e, E)
    BY <1>1, <2>1, <2>3, TokensSplit
  <2>6. TokensIn(e, rest) = TokensIn(m, rest)
    <3>1. \A b \in rest : e.blocks[b].valid = m.blocks[b].valid
      BY <1>2, <2>1
    <3>2. QED
      BY <2>1, <3>1, TokensAgree
  <2>7. TokensIn(e, E) = 0
    BY <1>1, <1>6, NoTokens DEF FreeBlock
  <2>8. m.represented = TokensIn(m, Block)
    BY DEF Valid
  <2>9. TokensIn(e, Block) \in Nat
    BY <2>2, TokensAreNatural
  <2>10. QED
    BY <1>2, <2>4, <2>5, <2>6, <2>7, <2>8, <2>9
<1>13. Valid(e)
  BY <1>4, <1>8, <1>9, <1>10, <1>11, <1>12 DEF Valid
<1>14. e \in Manager
  <2>1. e.tables \in [Requests -> Seq(Block)]
    BY <1>2 DEF Manager
  <2>2. QED
    BY <1>3, <1>12, <1>13, <2>1, ValidDraftIsManager
<1>15. QED
  BY <1>1, <1>2, <1>4, <1>13, <1>14

-----------------------------------------------------------------------------
(* A request joins blocks: validity of the claimed and acquired blocks *)

\* c is e after r took the cached blocks `hits` and, for `tokens` new tokens, the
\* free blocks `ids`.
Joins(e, c, r, hits, ids, tokens) ==
  /\ \A s \in Requests \ {r} : c.prov[s] = e.prov[s] /\ c.tables[s] = e.tables[s]
  /\ c.prov[r] # None
  /\ c.tables[r] = e.tables[r] \o (hits \o ids)
  /\ c.free = e.free \ Range(ids) /\ c.index = e.index
  /\ c.epoch \in Nat /\ c.epoch >= e.epoch
  /\ c.represented = e.represented + tokens
  /\ \A i \in DOMAIN ids : LET d == c.blocks[ids[i]] IN
       /\ d.state = "InUse" /\ d.owner = r /\ d.refs = 1 /\ d.key = None
       /\ d.valid = TokensAt(tokens, i) /\ d.epoch \in 1 .. c.epoch /\ d.prov # None
       /\ d.prov \in FullProvenance => d.valid = BlockSize
  /\ \A b \in Range(hits) : LET d == c.blocks[b] IN
       /\ d.state = "InUse" /\ d.owner = None /\ d.refs = e.blocks[b].refs + 1
       /\ d.key = e.blocks[b].key /\ d.valid = e.blocks[b].valid
       /\ d.epoch \in 1 .. c.epoch /\ d.prov \in FullProvenance
  /\ \A b \in Block \ (Range(hits) \cup Range(ids)) : c.blocks[b] = e.blocks[b]

LEMMA KeysValidDepends ==
  ASSUME NEW m, NEW c, NEW r, KeysValid(m, r),
         c.prov[r] = m.prov[r], c.tables[r] = m.tables[r],
         \A i \in 1 .. Len(m.prov[r].chunks) :
           /\ c.blocks[m.tables[r][i]].key = m.blocks[m.tables[r][i]].key
           /\ Matches(m, KeyAt(m.prov[r].chunks, i)) # {}
                => Matches(c, KeyAt(m.prov[r].chunks, i)) # {}
  PROVE  KeysValid(c, r)
<1> DEFINE q == m.prov[r]
           t == m.tables[r]
<1>1. ASSUME NEW i \in 1 .. Len(q.chunks)
      PROVE  LET expected == KeyAt(q.chunks, i)
                 key == c.blocks[t[i]].key
             IN  /\ key \in {None, expected}
                 /\ i <= q.matched => key # None
                 /\ i > q.matched /\ ~q.published => key = None
                 /\ i > q.matched /\ q.published /\ key = None
                      => Matches(c, expected) # {}
  <2> DEFINE expected == KeyAt(q.chunks, i)
             key == m.blocks[t[i]].key
  <2>1. /\ key \in {None, expected}
        /\ i <= q.matched => key # None
        /\ i > q.matched /\ ~q.published => key = None
        /\ i > q.matched /\ q.published /\ key = None => Matches(m, expected) # {}
    BY DEF KeysValid
  <2>2. c.blocks[t[i]].key = key /\ (Matches(m, expected) # {} => Matches(c, expected) # {})
    OBVIOUS
  <2> HIDE DEF key, expected
  <2>3. QED
    BY <2>1, <2>2 DEF expected
<1>2. QED
  BY <1>1 DEF KeysValid

LEMMA JoinIsValid ==
  ASSUME NEW e \in Manager, Valid(e), IsFiniteSet(Live(e)), NEW r \in Requests,
         NEW hits \in Seq(Block), \A b \in Range(hits) : e.blocks[b].key # None,
         hits = <<>> \/ r \notin Live(e),
         NEW ids \in Seq(Block), IsInjective(ids), Range(ids) \subseteq e.free,
         NEW tokens \in Nat, Len(ids) = BlocksRequired(tokens),
         NEW c, Joins(e, c, r, hits, ids, tokens),
         TableValid(c, r), KeysValid(c, r)
  PROVE  Valid(c) /\ c.represented \in Nat
<1> DEFINE H == Range(hits)
           J == Range(ids)
<1>1. H \in SUBSET Block /\ J \in SUBSET Block
  BY DEF Range
<1>2. H \cap J = {} /\ H \cap e.free = {}
  BY <1>1, BlockFacts
<1>3. Live(c) = Live(e) \cup {r}
  BY DEF Joins, Live
<1>4. e.tables \in [Requests -> Seq(Block)] /\ (r \notin Live(e) => e.tables[r] = <<>>)
  BY DEF Manager, Valid
<1>5. Range(c.tables[r]) = Range(e.tables[r]) \cup H \cup J
  <2> DEFINE new == hits \o ids
  <2>1. new \in Seq(Block) /\ Range(new) = H \cup J
    BY ConcatRange
  <2>2. c.tables[r] = e.tables[r] \o new /\ e.tables[r] \in Seq(Block)
    BY <1>4 DEF Joins
  <2> HIDE DEF new
  <2>3. Range(e.tables[r] \o new) = Range(e.tables[r]) \cup Range(new)
    BY <2>1, <2>2, ConcatRange
  <2>4. QED
    BY <2>1, <2>2, <2>3
<1>6. \A s \in Requests \ {r} : c.prov[s] = e.prov[s] /\ c.tables[s] = e.tables[s]
  BY DEF Joins
<1>7. Range(<<>>) = {}
  BY DEF Range
<1> HIDE DEF H, J
<1>8. ASSUME NEW b \in Block
      PROVE  /\ b \in J => Holders(c, b) = {r}
             /\ b \in H => Holders(c, b) = Holders(e, b) \cup {r} /\ r \notin Holders(e, b)
             /\ b \notin H \cup J => Holders(c, b) = Holders(e, b)
  <2>1. \A s \in Requests \ {r} : s \in Holders(c, b) <=> s \in Holders(e, b)
    BY <1>3, <1>6 DEF Holders
  <2>2. r \in Holders(c, b) <=> b \in Range(e.tables[r]) \cup H \cup J
    BY <1>3, <1>5 DEF Holders
  <2>3. r \in Holders(e, b) <=> r \in Live(e) /\ b \in Range(e.tables[r])
    BY DEF Holders
  <2>4. Holders(c, b) \in SUBSET Requests /\ Holders(e, b) \in SUBSET Requests
    BY DEF Holders, Live
  <2>5. r \notin Live(e) => Range(e.tables[r]) = {}
    BY <1>4, <1>7
  <2>6. b \in J => Holders(e, b) = {}
    <3>1. b \in J => b \in e.free
      BY DEF J
    <3>2. QED
      BY <3>1, BlockFacts
  <2>7. b \in H => r \notin Live(e)
    BY <1>7 DEF H
  <2>8. b \in J => b \notin H
    BY <1>2
  <2>9. CASE b \in J
    BY <2>1, <2>2, <2>4, <2>6, <2>8, <2>9
  <2>10. CASE b \in H
    BY <2>1, <2>2, <2>3, <2>4, <2>7, <2>8, <2>10
  <2>11. CASE b \notin H \cup J
    <3>1. r \in Holders(c, b) <=> r \in Holders(e, b)
      BY <2>2, <2>3, <2>5, <2>11
    <3>2. Holders(c, b) = Holders(e, b)
      <4> DEFINE C == Holders(c, b)
                 E == Holders(e, b)
      <4>1. /\ \A s \in Requests \ {r} : s \in C <=> s \in E
            /\ C \in SUBSET Requests /\ E \in SUBSET Requests /\ (r \in C <=> r \in E)
        BY <2>1, <2>4, <3>1
      <4> HIDE DEF C, E
      <4>2. C \subseteq E /\ E \subseteq C
        BY <4>1
      <4>3. QED
        BY <4>2 DEF C, E
    <3>3. QED
      BY <2>11, <3>2
  <2>12. QED
    BY <2>9, <2>10, <2>11
<1>9. ASSUME NEW b \in Block
      PROVE  /\ b \in J => /\ c.blocks[b].state = "InUse" /\ c.blocks[b].owner = r
                           /\ c.blocks[b].refs = 1 /\ c.blocks[b].key = None
                           /\ c.blocks[b].valid \in 1 .. BlockSize
                           /\ c.blocks[b].epoch \in 1 .. c.epoch /\ c.blocks[b].prov # None
                           /\ c.blocks[b].prov \in FullProvenance => c.blocks[b].valid = BlockSize
             /\ b \in H => /\ c.blocks[b].state = "InUse" /\ c.blocks[b].owner = None
                           /\ c.blocks[b].refs = e.blocks[b].refs + 1
                           /\ c.blocks[b].key = e.blocks[b].key
                           /\ c.blocks[b].valid = e.blocks[b].valid
                           /\ c.blocks[b].epoch \in 1 .. c.epoch
                           /\ c.blocks[b].prov \in FullProvenance
             /\ b \notin H \cup J => c.blocks[b] = e.blocks[b]
  <2>1. ASSUME b \in J
        PROVE  \E i \in DOMAIN ids : b = ids[i] /\ TokensAt(tokens, i) \in 1 .. BlockSize
    <3>1. PICK i \in DOMAIN ids : b = ids[i]
      BY <2>1 DEF J, Range
    <3>2. i \in 1 .. BlocksRequired(tokens)
      OBVIOUS
    <3>3. QED
      BY <3>1, <3>2, TokensAtType
  <2>2. QED
    BY <2>1 DEF Joins, H, J
<1>10. \A b \in e.free : e.blocks[b].key = None /\ e.blocks[b].valid = 0
  <2>1. e.free \in SUBSET Block
    BY DEF Manager
  <2>2. QED
    BY <2>1, BlockFacts DEF FreeBlock
<1>11. \A b \in Block : c.blocks[b].key = e.blocks[b].key
  BY <1>9, <1>10 DEF J
<1>12. \A key \in Key : Matches(c, key) = Matches(e, key)
  <2>1. c.index = e.index
    BY DEF Joins
  <2>2. ASSUME NEW key \in Key
        PROVE  Matches(c, key) = Matches(e, key)
    <3>1. e.index[HashOf(key)] \in SUBSET Block
      BY HashType DEF Manager
    <3>2. QED
      BY <1>11, <2>1, <3>1 DEF Matches
  <2>3. QED
    BY <2>2
<1>13. ASSUME NEW s \in Live(e), s # r
       PROVE  TableValid(c, s) /\ KeysValid(c, s)
  <2> DEFINE q == e.prov[s]
             t == e.tables[s]
  <2>1. TableValid(e, s) /\ KeysValid(e, s)
    BY DEF Valid, Live
  <2>2. c.prov[s] = q /\ c.tables[s] = t /\ q \in RequestProvenance
    BY <1>6, <1>13 DEF Live, Manager
  <2>3. ASSUME NEW i \in DOMAIN t
        PROVE  /\ t[i] \in Block
               /\ LET d == e.blocks[t[i]]
                      a == c.blocks[t[i]]
                  IN  /\ a.prov = d.prov \/ {a.prov, d.prov} \subseteq FullProvenance
                      /\ a.valid \in Nat /\ a.valid >= d.valid
    <3>1. t[i] \in Range(t)
      BY DEF Range
    <3>2. t[i] \in Block /\ e.blocks[t[i]].state = "InUse"
      BY <3>1, HeldBlocksAreInUse
    <3> DEFINE b == t[i]
    <3> HIDE DEF b, t
    <3>3. b \in Block /\ e.blocks[b].state = "InUse"
      BY <3>2 DEF b
    <3>4. b \notin J /\ e.blocks[b].valid \in Nat
      BY <3>3, BlockFacts DEF J
    <3>5. CASE b \in H
      <4>1. e.blocks[b].key # None
        BY <3>5 DEF H
      <4>2. e.blocks[b].prov \in FullProvenance
        BY <3>3, <4>1, BlockFacts
      <4>3. QED
        BY <1>9, <3>3, <3>4, <3>5, <4>2 DEF b
    <3>6. CASE b \notin H
      BY <1>9, <3>3, <3>4, <3>6 DEF b
    <3>7. QED
      BY <3>5, <3>6
  <2>4. TableValid(c, s)
    BY <2>1, <2>2, <2>3, TableValidDepends
  <2>5. q.chunks \in Seq(Chunks)
    BY <2>2 DEF RequestProvenance
  <2>6. \A i \in 1 .. Len(q.chunks) : i \in DOMAIN t /\ KeyAt(q.chunks, i) \in Key
    BY <2>5, PromptBlocksAreHeld, KeyType
  <2>7. ASSUME NEW i \in 1 .. Len(q.chunks)
        PROVE  /\ c.blocks[t[i]].key = e.blocks[t[i]].key
               /\ Matches(c, KeyAt(q.chunks, i)) = Matches(e, KeyAt(q.chunks, i))
    BY <1>11, <1>12, <2>3, <2>6
  <2>8. KeysValid(c, s)
    BY <2>1, <2>2, <2>7, KeysValidDepends
  <2>9. QED
    BY <2>4, <2>8
<1>14. \A s \in Requests : IF s \in Live(c) THEN TableValid(c, s) /\ KeysValid(c, s)
                                            ELSE c.tables[s] = <<>>
  <2>1. \A s \in Requests \ Live(e) : e.tables[s] = <<>>
    BY DEF Valid
  <2>2. QED
    BY <1>3, <1>6, <1>13, <2>1
<1>15. ASSUME NEW b \in Block
       PROVE  BlockValid(c, b)
  <2>1. /\ BlockValid(e, b) /\ e.blocks[b] \in BlockMetadata
        /\ c.index = e.index /\ c.free = e.free \ J /\ c.epoch \in Nat /\ c.epoch >= e.epoch
    BY BlockFacts DEF Joins, J
  <2>2. CASE b \in J
    <3>1. Holders(c, b) = {r} /\ Cardinality({r}) = 1
      BY <1>8, <2>2, FS_Singleton
    <3>2. r # None
      BY NoneAssumption
    <3> DEFINE d == c.blocks[b]
    <3>3. /\ d.state = "InUse" /\ d.owner = r /\ d.refs = 1 /\ d.key = None
          /\ d.valid \in 1 .. BlockSize /\ d.epoch \in 1 .. c.epoch /\ d.prov # None
          /\ d.prov \in FullProvenance => d.valid = BlockSize
      BY <1>9, <2>2
    <3> HIDE DEF d
    <3>4. QED
      BY <2>1, <2>2, <3>1, <3>3 DEF BlockValid, d
  <2>3. CASE b \in H
    <3>1. e.blocks[b].key # None
      BY <2>3 DEF H
    <3>2. /\ b \notin e.free /\ e.blocks[b].prov \in FullProvenance
          /\ e.blocks[b].state \in {"InUse", "Cached"}
      BY <2>1, <3>1, BlockFacts DEF BlockMetadata
    <3> DEFINE k == Cardinality(Holders(e, b))
    <3>3. /\ e.blocks[b].refs = k /\ k \in Nat
      BY <2>1, <3>2, HoldersAreFinite, FS_EmptySet DEF BlockValid
    <3>4. Holders(c, b) = Holders(e, b) \cup {r} /\ r \notin Holders(e, b)
      BY <1>8, <2>3
    <3>5. Cardinality(Holders(c, b)) = k + 1
      BY <3>4, HoldersAreFinite, FS_AddElement
    <3> HIDE DEF k
    <3> DEFINE d == c.blocks[b]
    <3>6. /\ d.state = "InUse" /\ d.owner = None /\ d.refs = e.blocks[b].refs + 1
          /\ d.key = e.blocks[b].key /\ d.valid = e.blocks[b].valid
          /\ d.epoch \in 1 .. c.epoch /\ d.prov \in FullProvenance
      BY <1>9, <2>3
    <3> HIDE DEF d
    <3>7. /\ d.valid = BlockSize /\ d.valid \in 1 .. BlockSize /\ d.prov # None
          /\ b \in c.index[HashOf(d.key)] /\ d.refs = k + 1 /\ k + 1 > 0
      <4>1. /\ e.blocks[b].valid = BlockSize /\ e.blocks[b].valid \in 1 .. BlockSize
            /\ b \in e.index[HashOf(e.blocks[b].key)]
        BY <2>1, <3>1, <3>2 DEF BlockValid
      <4>2. None \notin FullProvenance
        BY NoneAssumption DEF BlockProvenance
      <4>3. QED
        BY <2>1, <3>3, <3>6, <4>1, <4>2
    <3>8. QED
      BY <2>1, <3>1, <3>2, <3>5, <3>6, <3>7 DEF BlockValid, d
  <2>4. CASE b \notin H \cup J
    <3>1. c.blocks[b] = e.blocks[b] /\ Holders(c, b) = Holders(e, b) /\ (b \in c.free <=> b \in e.free)
      BY <1>8, <1>9, <2>1, <2>4
    <3>2. e.blocks[b].epoch \in Nat /\ e.epoch \in Nat
      BY <2>1, KVAssumption DEF BlockMetadata, Manager
    <3>3. QED
      BY <2>1, <3>1, <3>2 DEF BlockValid
  <2>5. QED
    BY <2>2, <2>3, <2>4
<1>16. IndexValid(c)
  <2>1. c.index = e.index /\ IndexValid(e)
    BY DEF Joins, Valid
  <2>2. DOMAIN e.index = HashValues /\ \A h \in HashValues : e.index[h] \in SUBSET Block
    BY DEF Manager
  <2>3. \A b \in UNION Range(e.index) : b \in Block
    BY <2>2 DEF Range
  <2>4. QED
    BY <1>11, <2>1, <2>2, <2>3 DEF IndexValid
<1>17. c.represented = TokensIn(c, Block) /\ c.represented \in Nat
  <2> DEFINE rest == Block \ J
  <2>1. rest \in SUBSET Block /\ rest \cap J = {} /\ rest \cup J = Block
    BY <1>1
  <2> HIDE DEF rest
  <2>2. \A b \in Block : e.blocks[b].valid \in Nat /\ c.blocks[b].valid \in Nat
    <3>1. \A b \in Block : e.blocks[b].valid \in Nat
      BY BlockFacts
    <3>2. \A n \in 1 .. BlockSize : n \in Nat
      OBVIOUS
    <3>3. QED
      BY <1>9, <3>1, <3>2
  <2>3. TokensAreInt(e) /\ TokensAreInt(c)
    BY <2>2 DEF TokensAreInt
  <2>4. /\ TokensIn(e, rest) \in Int /\ TokensIn(e, J) \in Int
        /\ TokensIn(e, Block) = TokensIn(e, rest) + TokensIn(e, J)
    BY <1>1, <2>1, <2>3, TokensSplit
  <2>5. /\ TokensIn(c, rest) \in Int /\ TokensIn(c, J) \in Int
        /\ TokensIn(c, Block) = TokensIn(c, rest) + TokensIn(c, J)
    BY <1>1, <2>1, <2>3, TokensSplit
  <2>6. TokensIn(c, rest) = TokensIn(e, rest)
    <3>1. \A b \in rest : c.blocks[b].valid = e.blocks[b].valid
      BY <1>9, <2>1
    <3>2. QED
      BY <2>1, <3>1, TokensAgree
  <2>7. TokensIn(e, J) = 0
    BY <1>1, <1>10, NoTokens DEF J
  <2>8. TokensIn(c, J) = tokens
    <3>1. \A i \in DOMAIN ids : c.blocks[ids[i]].valid = TokensAt(tokens, i)
      BY DEF Joins
    <3>2. QED
      BY <2>3, <3>1, TokensOfIds DEF J
  <2>9. e.represented = TokensIn(e, Block) /\ c.represented = e.represented + tokens
    BY DEF Valid, Joins
  <2>10. TokensIn(c, Block) \in Nat
    BY <2>2, TokensAreNatural
  <2>11. QED
    BY <2>4, <2>5, <2>6, <2>7, <2>8, <2>9, <2>10
<1>18. QED
  BY <1>14, <1>15, <1>16, <1>17 DEF Valid

-----------------------------------------------------------------------------
(* How evict_unused_blocks and allocate_prompt end *)

\* The fields of a copy after ClaimBlocks.
Claimed(m, c, r, ids, tokens, provenance) ==
  /\ \A i \in DOMAIN ids : LET d == c.blocks[ids[i]] IN
       /\ d.state = "InUse" /\ d.owner = r /\ d.refs = 1 /\ d.key = None
       /\ d.valid = TokensAt(tokens, i) /\ d.epoch = m.epoch + 1 /\ d.prov = provenance[i]
  /\ \A b \in Block \ Range(ids) : c.blocks[b] = m.blocks[b]
  /\ c.free = m.free \ Range(ids) /\ c.index = m.index
  /\ c.tables = [m.tables EXCEPT ![r] = @ \o ids] /\ c.prov = m.prov
  /\ c.represented = m.represented + tokens
  /\ c.epoch = IF ids = <<>> THEN m.epoch ELSE m.epoch + 1

LEMMA ClaimFields ==
  ASSUME NEW m, Draft(m), NEW r \in Requests, NEW ids \in Seq(Block), IsInjective(ids),
         NEW tokens, NEW provenance,
         NEW c, c = ClaimBlocks(m, r, ids, tokens, provenance)
  PROVE  Claimed(m, c, r, ids, tokens, provenance)
<1> DEFINE claimed(i) ==
             [ state |-> "InUse", owner |-> r, refs |-> 1, valid |-> TokensAt(tokens, i),
               epoch |-> m.epoch + 1, key |-> None, prov |-> provenance[i] ]
           position(b) == CHOOSE i \in DOMAIN ids : ids[i] = b
<1>1. /\ c.blocks = [b \in Block |-> IF b \in Range(ids)
                                     THEN claimed(position(b)) ELSE m.blocks[b]]
      /\ c.free = m.free \ Range(ids) /\ c.index = m.index
      /\ c.tables = [m.tables EXCEPT ![r] = @ \o ids] /\ c.prov = m.prov
      /\ c.represented = m.represented + tokens
      /\ c.epoch = IF ids = <<>> THEN m.epoch ELSE m.epoch + 1
  BY DEF ClaimBlocks, Draft, IsRecord
<1>2. ASSUME NEW i \in DOMAIN ids
      PROVE  ids[i] \in Block /\ ids[i] \in Range(ids) /\ position(ids[i]) = i
  <2>1. ids[i] \in Block /\ ids[i] \in Range(ids)
    BY DEF Range
  <2>2. position(ids[i]) \in DOMAIN ids /\ ids[position(ids[i])] = ids[i]
    OBVIOUS
  <2>3. QED
    BY <2>1, <2>2 DEF IsInjective
<1> HIDE DEF claimed, position
<1>3. \A i \in DOMAIN ids : c.blocks[ids[i]] = claimed(i)
  BY <1>1, <1>2
<1>4. \A b \in Block \ Range(ids) : c.blocks[b] = m.blocks[b]
  BY <1>1
<1>5. ASSUME NEW i \in DOMAIN ids
      PROVE  LET d == c.blocks[ids[i]] IN
             /\ d.state = "InUse" /\ d.owner = r /\ d.refs = 1 /\ d.key = None
             /\ d.valid = TokensAt(tokens, i) /\ d.epoch = m.epoch + 1 /\ d.prov = provenance[i]
  <2>1. c.blocks[ids[i]] = claimed(i)
    BY <1>3
  <2>2. QED
    BY <2>1 DEF claimed
<1>6. QED
  BY <1>1, <1>4, <1>5 DEF Claimed

\* The fields of a copy after AcquireBlocks.
Acquired(m, a, r, ids) ==
  /\ \A b \in Range(ids) : LET d == a.blocks[b] IN
       /\ d.state = "InUse" /\ d.owner = None /\ d.refs = m.blocks[b].refs + 1
       /\ d.key = m.blocks[b].key /\ d.valid = m.blocks[b].valid
       /\ d.epoch = m.epoch + 1
       /\ m.blocks[b].prov \in FullProvenance => d.prov \in FullProvenance
  /\ \A b \in Block \ Range(ids) : a.blocks[b] = m.blocks[b]
  /\ a.free = m.free /\ a.index = m.index
  /\ a.tables = [m.tables EXCEPT ![r] = ids] /\ a.prov = m.prov
  /\ a.represented = m.represented
  /\ a.epoch = IF ids = <<>> THEN m.epoch ELSE m.epoch + 1

LEMMA AcquireFields ==
  ASSUME NEW m, Draft(m), NEW r \in Requests, NEW ids \in Seq(Block),
         NEW a, a = AcquireBlocks(m, r, ids)
  PROVE  Acquired(m, a, r, ids)
<1> DEFINE acquired(d) ==
             [d EXCEPT !.state = "InUse", !.owner = None, !.refs = @ + 1,
                       !.epoch = m.epoch + 1,
                       !.prov  = IF d.state = "Cached" /\ @ = "ComputedPromptFull"
                                 THEN "SharedPromptFull" ELSE @]
<1>1. /\ a.blocks = [b \in Block |-> IF b \in Range(ids)
                                     THEN acquired(m.blocks[b]) ELSE m.blocks[b]]
      /\ a.free = m.free /\ a.index = m.index
      /\ a.tables = [m.tables EXCEPT ![r] = ids] /\ a.prov = m.prov
      /\ a.represented = m.represented
      /\ a.epoch = IF ids = <<>> THEN m.epoch ELSE m.epoch + 1
  BY DEF AcquireBlocks, Draft, IsRecord
<1>2. ASSUME NEW d \in DraftMetadata
      PROVE  LET n == acquired(d) IN
             /\ n.state = "InUse" /\ n.owner = None /\ n.refs = d.refs + 1
             /\ n.key = d.key /\ n.valid = d.valid /\ n.epoch = m.epoch + 1
             /\ d.prov \in FullProvenance => n.prov \in FullProvenance
  BY DEF DraftMetadata, FullProvenance
<1>3. \A b \in Range(ids) : b \in Block /\ m.blocks[b] \in DraftMetadata
  BY DEF Range, Draft
<1> HIDE DEF acquired
<1>4. QED
  BY <1>1, <1>2, <1>3 DEF Acquired

\* How a call that does not commit ends, and how one that does.
LEMMA OutcomeOfRefusal ==
  ASSUME NEW m
  PROVE  /\ NoteCapacityError(m).outcome \in {"overflow", "capacity"}
         /\ \A o : Refuse(m, o).outcome = o
         /\ \A copy : Valid(copy) /\ copy.represented \in Nat
                        => Commit(m, copy).outcome = "ok"
BY DEF NoteCapacityError, Refuse, Commit

\* Evicting any cached block is safe when no live request holds a duplicate of it.
NoDuplicates(m) == \A b \in Cached(m) : ~DuplicateHolder(m, b)

LEMMA EvictUnusedBlocksIsValid ==
  ASSUME NEW m \in Manager, Valid(m), NoDuplicates(m), NEW count \in Nat
  PROVE  EvictUnusedBlocks(m, count).outcome \in {"ok", "insufficient"}
<1> DEFINE E == LeastRecentlyUsed(m, Cached(m), count)
           e == EvictBlocks(m, E)
<1>1. E \in SUBSET Cached(m) /\ \A b \in E : ~DuplicateHolder(m, b)
  BY DEF LeastRecentlyUsed, NoDuplicates
<1> HIDE DEF E
<1>2. e \in Manager /\ Valid(e)
  BY <1>1, EvictionIsValid
<1>3. e.represented \in Nat
  BY <1>2 DEF Manager
<1> HIDE DEF e
<1>4. Commit(m, e).outcome = "ok"
  BY <1>2, <1>3, OutcomeOfRefusal
<1>5. QED
  BY <1>4, OutcomeOfRefusal DEF EvictUnusedBlocks, e, E

\* A manager with a request admitted, or one with some blocks evicted, is not valid:
\* what follows goes from the evicted valid manager to the final copy.
LEMMA AllocatePromptIsValid ==
  ASSUME NEW m \in Manager, Valid(m), IsFiniteSet(Live(m)), NoDuplicates(m),
         NEW r \in Requests, NEW tokens \in Nat, m.prov[r] = None
  PROVE  AllocatePrompt(m, r, tokens).outcome \in {"ok", "capacity", "overflow"}
<1> DEFINE required == BlocksRequired(tokens)
           short == Shortage(m, required)
           E == LeastRecentlyUsed(m, Cached(m), short)
           ids == Ascending(Lowest(m.free \cup E, required))
           provenance == [i \in DOMAIN ids |-> "PrivatePromptCountOnly"]
           fresh == [ exact |-> FALSE, chunks |-> <<>>, total |-> tokens,
                      matched |-> 0, published |-> FALSE ]
           admitted == [m EXCEPT !.prov[r] = fresh]
           evicted == EvictBlocks(admitted, E)
           c == ClaimBlocks(evicted, r, ids, tokens, provenance)
           e == EvictBlocks(m, E)
<1>1. CASE short > Cardinality(Cached(m)) \/ (required > 0 /\ m.epoch = EpochLimit)
  BY <1>1, OutcomeOfRefusal DEF AllocatePrompt
<1>2. CASE ~(short > Cardinality(Cached(m))) /\ ~(required > 0 /\ m.epoch = EpochLimit)
  <2>1. AllocatePrompt(m, r, tokens) = Commit(m, c)
    BY <1>2 DEF AllocatePrompt
  <2>2. required \in Nat
    BY BlocksSuffice
  <2>3. Cached(m) \in SUBSET Block /\ Cached(m) \cap m.free = {}
    BY BlockFacts DEF Cached
  <2> HIDE DEF required
  <2>4. /\ E \in SUBSET Cached(m)
        /\ ids \in Seq(Block) /\ Len(ids) = required /\ IsInjective(ids)
        /\ Range(ids) \subseteq m.free \cup E
    BY <1>2, <2>2, <2>3, ChoiceSuffices
  <2> HIDE DEF E, ids
  <2>5. \A b \in E : ~DuplicateHolder(m, b)
    BY <2>4 DEF NoDuplicates
  <2>6. /\ e \in Manager /\ Valid(e) /\ Live(e) = Live(m)
        /\ \A b \in E : e.blocks[b] = FreeBlock
        /\ \A b \in Block \ E : e.blocks[b] = m.blocks[b]
    BY <2>4, <2>5, EvictionIsValid
  <2>7. fresh \in RequestProvenance
    BY DEF RequestProvenance
  <2>8. admitted \in Manager
    BY <2>7 DEF Manager
  <2>9. /\ admitted.blocks = m.blocks /\ admitted.free = m.free /\ admitted.index = m.index
        /\ admitted.tables = m.tables /\ admitted.prov = [m.prov EXCEPT ![r] = fresh]
        /\ admitted.epoch = m.epoch /\ admitted.represented = m.represented
    BY DEF Manager
  <2> HIDE DEF admitted, fresh
  <2>10. E \in SUBSET Block /\ Draft(admitted) /\ Draft(m)
    BY <2>3, <2>4, <2>8, ManagerIsDraft
  <2>11. Draft(evicted)
    BY <2>10, EvictDraft
  <2>12. /\ evicted.blocks = [b \in Block |-> IF b \in E THEN FreeBlock ELSE admitted.blocks[b]]
         /\ evicted.free = admitted.free \cup E
         /\ evicted.index = [h \in HashValues |-> admitted.index[h] \ E]
         /\ evicted.tables = admitted.tables /\ evicted.prov = admitted.prov
         /\ evicted.epoch = admitted.epoch
         /\ evicted.represented = admitted.represented - TokensIn(admitted, E)
    BY <2>10, EvictFields
  <2>13. /\ e.blocks = [b \in Block |-> IF b \in E THEN FreeBlock ELSE m.blocks[b]]
         /\ e.free = m.free \cup E
         /\ e.index = [h \in HashValues |-> m.index[h] \ E]
         /\ e.tables = m.tables /\ e.prov = m.prov /\ e.epoch = m.epoch
         /\ e.represented = m.represented - TokensIn(m, E)
    BY <2>10, EvictFields
  <2>14. TokensIn(admitted, E) = TokensIn(m, E)
    BY <2>9 DEF TokensIn
  <2> HIDE DEF e, evicted
  <2>15. /\ evicted.blocks = e.blocks /\ evicted.free = e.free /\ evicted.index = e.index
         /\ evicted.tables = e.tables /\ evicted.prov = [e.prov EXCEPT ![r] = fresh]
         /\ evicted.epoch = e.epoch /\ evicted.represented = e.represented
    BY <2>9, <2>12, <2>13, <2>14
  <2>16. Claimed(evicted, c, r, ids, tokens, provenance)
    <3>1. c = ClaimBlocks(evicted, r, ids, tokens, provenance)
      OBVIOUS
    <3> HIDE DEF c, provenance
    <3>2. QED
      BY <2>4, <2>11, <3>1, ClaimFields
  <2>17. \A i \in DOMAIN ids : provenance[i] = "PrivatePromptCountOnly"
    OBVIOUS
  <2> HIDE DEF c, provenance
  <2>18. e.prov[r] = None /\ e.tables[r] = <<>> /\ r \notin Live(e) /\ e.epoch \in Nat
    <3>1. r \notin Live(m)
      BY DEF Live
    <3>2. m.tables[r] = <<>>
      BY <3>1 DEF Valid
    <3>3. QED
      BY <2>6, <2>13, <3>1, <3>2, KVAssumption DEF Manager
  <2>19. c.tables[r] = ids /\ c.prov[r] = fresh /\ fresh # None
    <3>1. <<>> \o ids = ids
      BY <2>4
    <3>2. c.tables[r] = e.tables[r] \o ids /\ c.prov[r] = fresh
      BY <2>6, <2>15, <2>16 DEF Claimed, Manager
    <3>3. QED
      BY <2>7, <2>18, <3>1, <3>2, NoneAssumption
  <2>20. Joins(e, c, r, <<>>, ids, tokens)
    <3>1. c.epoch \in Nat /\ c.epoch >= e.epoch
      BY <2>15, <2>16, <2>18 DEF Claimed
    <3>2. ASSUME NEW i \in DOMAIN ids
          PROVE  e.epoch + 1 \in 1 .. c.epoch
      <4>1. ids # <<>>
        BY <3>2
      <4>2. QED
        BY <2>15, <2>16, <2>18, <4>1 DEF Claimed
    <3>3. "PrivatePromptCountOnly" # None /\ "PrivatePromptCountOnly" \notin FullProvenance
      BY NoneAssumption DEF BlockProvenance, FullProvenance
    <3>4. Range(<<>>) = {} /\ <<>> \o ids = ids
      BY <2>4 DEF Range
    <3>5. \A s \in Requests \ {r} : c.prov[s] = e.prov[s] /\ c.tables[s] = e.tables[s]
      BY <2>15, <2>16 DEF Claimed
    <3>6. c.tables[r] = e.tables[r] \o (<<>> \o ids)
      BY <2>4, <2>18, <2>19, <3>4
    <3>7. \A i \in DOMAIN ids : LET d == c.blocks[ids[i]] IN
            /\ d.state = "InUse" /\ d.owner = r /\ d.refs = 1 /\ d.key = None
            /\ d.valid = TokensAt(tokens, i) /\ d.epoch \in 1 .. c.epoch /\ d.prov # None
            /\ d.prov \in FullProvenance => d.valid = BlockSize
      BY <2>15, <2>16, <2>17, <3>2, <3>3 DEF Claimed
    <3>8. /\ c.free = e.free \ Range(ids) /\ c.index = e.index
          /\ c.represented = e.represented + tokens
          /\ \A b \in Block \ Range(ids) : c.blocks[b] = e.blocks[b]
      BY <2>15, <2>16 DEF Claimed
    <3>9. QED
      BY <2>19, <3>1, <3>4, <3>5, <3>6, <3>7, <3>8 DEF Joins
  <2>21. TableValid(c, r)
    <3>1. Len(fresh.chunks) = 0 /\ fresh.total = tokens /\ fresh.matched = 0
          /\ fresh.published = FALSE /\ fresh.exact = FALSE
      BY DEF fresh
    <3>2. PromptBlocks(fresh) = Len(ids)
      BY <2>4, <3>1 DEF PromptBlocks, required
    <3>3. ASSUME NEW i \in DOMAIN ids
          PROVE  /\ ids[i] \in Block /\ ~(i <= 0) /\ i <= Len(ids)
                 /\ c.blocks[ids[i]].prov = "PrivatePromptCountOnly"
                 /\ c.blocks[ids[i]].valid >= TokensAt(tokens, i)
      <4>1. i \in 1 .. required
        BY <2>4
      <4>2. TokensAt(tokens, i) \in 1 .. BlockSize
        BY <4>1, TokensAtType DEF required
      <4>3. c.blocks[ids[i]].valid = TokensAt(tokens, i)
        BY <2>16 DEF Claimed
      <4>4. c.blocks[ids[i]].valid >= TokensAt(tokens, i)
        BY <4>2, <4>3
      <4>5. c.blocks[ids[i]].prov = "PrivatePromptCountOnly"
        BY <2>16, <2>17 DEF Claimed
      <4>6. ids[i] \in Block /\ ~(i <= 0) /\ i <= Len(ids)
        BY <2>4, <4>1
      <4>7. QED
        BY <4>4, <4>5, <4>6
    <3>4. Range(ids) \subseteq Block
      BY <2>4 DEF Range
    <3>5. Len(ids) <= Len(ids)
      BY <2>4
    <3> HIDE DEF fresh
    <3>6. QED
      BY <2>4, <2>19, <3>1, <3>2, <3>3, <3>4, <3>5 DEF TableValid
  <2>22. KeysValid(c, r)
    <3>1. 1 .. Len(fresh.chunks) = {}
      BY DEF fresh
    <3>2. QED
      BY <2>19, <3>1 DEF KeysValid
  <2>23. Valid(c) /\ c.represented \in Nat
    <3>1. Range(ids) \subseteq e.free
      BY <2>4, <2>13
    <3>2. <<>> \in Seq(Block) /\ \A b \in Range(<<>>) : e.blocks[b].key # None
      BY DEF Range
    <3>3. Len(ids) = BlocksRequired(tokens)
      BY <2>4 DEF required
    <3>4. IsFiniteSet(Live(e))
      BY <2>6
    <3>5. QED
      BY <2>4, <2>6, <2>20, <2>21, <2>22, <3>1, <3>2, <3>3, <3>4, JoinIsValid
  <2>24. QED
    BY <2>1, <2>23, OutcomeOfRefusal
<1>3. QED
  BY <1>1, <1>2

-----------------------------------------------------------------------------
(* Prompts and lookups *)

\* Division is by what it says: k blocks and a tail.
LEMMA BlocksAndTail ==
  ASSUME NEW k \in Nat, NEW tail \in 0 .. BlockSize - 1,
         NEW n, n = k * BlockSize + tail
  PROVE  /\ n \in Nat /\ n \div BlockSize = k
         /\ BlocksRequired(n) = k + (IF tail = 0 THEN 0 ELSE 1)
<1> DEFINE d == n \div BlockSize
           e == n % BlockSize
<1>1. BlockSize \in Nat /\ BlockSize > 0 /\ tail \in Nat /\ tail < BlockSize
  BY KVAssumption
<1>2. k * BlockSize \in Nat /\ n \in Nat
  <2>1. k * BlockSize \in Nat
    BY <1>1, ProductGrows
  <2>2. QED
    BY <1>1, <2>1
<1>3. d \in Nat /\ e \in Nat /\ e < BlockSize /\ n = BlockSize * d + e
  BY <1>1, <1>2
<1>4. BlocksRequired(n) = d + (IF e = 0 THEN 0 ELSE 1)
  BY DEF BlocksRequired
<1> HIDE DEF d, e
<1>5. BlockSize * d = d * BlockSize
  <2>1. \A x, y \in Nat : x * y = y * x
    OBVIOUS
  <2>2. QED
    BY <1>1, <1>3, <2>1
<1>6. d = k
  <2>1. ASSUME d < k PROVE FALSE
    <3>1. (d + 1) * BlockSize <= k * BlockSize
      BY <1>1, <1>3, <2>1, ProductGrows
    <3>2. (d + 1) * BlockSize = d * BlockSize + BlockSize /\ d * BlockSize \in Nat
      BY <1>1, <1>3, ProductGrows
    <3>3. QED
      BY <1>1, <1>2, <1>3, <1>5, <3>1, <3>2
  <2>2. ASSUME d > k PROVE FALSE
    <3>1. (k + 1) * BlockSize <= d * BlockSize
      BY <1>1, <1>3, <2>2, ProductGrows
    <3>2. (k + 1) * BlockSize = k * BlockSize + BlockSize /\ d * BlockSize \in Nat
      BY <1>1, <1>3, ProductGrows
    <3>3. QED
      BY <1>1, <1>2, <1>3, <1>5, <3>1, <3>2
  <2>3. QED
    BY <1>3, <2>1, <2>2
<1>7. e = tail
  BY <1>1, <1>2, <1>3, <1>5, <1>6
<1>8. QED
  BY <1>1, <1>2, <1>4, <1>6, <1>7 DEF d

\* A prompt of L full blocks and a tail, n of the blocks found in the cache.
LEMMA SuffixOfPrompt ==
  ASSUME NEW L \in Nat, NEW n \in 0 .. L, NEW tail \in 0 .. BlockSize - 1,
         NEW total, total = L * BlockSize + tail,
         NEW suffix, suffix = total - n * BlockSize
  PROVE  /\ total \in Nat /\ suffix \in Nat /\ total \div BlockSize = L
         /\ BlocksRequired(total) = n + BlocksRequired(suffix)
         /\ L <= BlocksRequired(total)
         /\ \A i \in 1 .. BlocksRequired(suffix) :
              /\ TokensAt(total, n + i) = TokensAt(suffix, i)
              /\ n + i <= L => TokensAt(suffix, i) = BlockSize
<1>1. BlockSize \in Nat /\ BlockSize > 0 /\ tail \in Nat /\ n \in Nat /\ L - n \in Nat
  BY KVAssumption
<1>2. L * BlockSize \in Nat /\ n * BlockSize \in Nat /\ (L - n) * BlockSize \in Nat
  BY <1>1, ProductGrows
<1>3. (L - n) * BlockSize = L * BlockSize - n * BlockSize
  BY <1>1
<1>4. suffix = (L - n) * BlockSize + tail
  BY <1>1, <1>2, <1>3
<1>5. /\ total \in Nat /\ total \div BlockSize = L
      /\ BlocksRequired(total) = L + (IF tail = 0 THEN 0 ELSE 1)
  BY BlocksAndTail
<1>6. /\ suffix \in Nat
      /\ BlocksRequired(suffix) = (L - n) + (IF tail = 0 THEN 0 ELSE 1)
  BY <1>1, <1>4, BlocksAndTail
<1>7. ASSUME NEW i \in 1 .. BlocksRequired(suffix)
      PROVE  /\ TokensAt(total, n + i) = TokensAt(suffix, i)
             /\ n + i <= L => TokensAt(suffix, i) = BlockSize
  <2>1. i \in Nat /\ i - 1 \in Nat /\ (n + i) - 1 = n + (i - 1)
    BY <1>1, <1>6
  <2>2. (i - 1) * BlockSize \in Nat
    BY <1>1, <2>1, ProductGrows
  <2>3. (n + (i - 1)) * BlockSize = n * BlockSize + (i - 1) * BlockSize
    BY <1>1, <2>1
  <2>4. TokensAt(total, n + i) = TokensAt(suffix, i)
    <3>1. total - ((n + i) - 1) * BlockSize = suffix - (i - 1) * BlockSize
      BY <1>2, <1>5, <2>1, <2>2, <2>3
    <3>2. QED
      BY <3>1 DEF TokensAt
  <2>5. ASSUME n + i <= L
        PROVE  TokensAt(suffix, i) = BlockSize
    <3>1. i * BlockSize <= (L - n) * BlockSize
      BY <1>1, <2>1, <2>5, ProductGrows
    <3>2. i * BlockSize = (i - 1) * BlockSize + BlockSize
      BY <1>1, <2>1
    <3>3. suffix - (i - 1) * BlockSize >= BlockSize
      BY <1>1, <1>2, <1>4, <2>2, <3>1, <3>2
    <3>4. suffix - (i - 1) * BlockSize \in Int
      BY <1>6, <2>2
    <3>5. QED
      BY <1>1, <3>3, <3>4 DEF TokensAt
  <2>6. QED
    BY <2>4, <2>5
<1>8. BlocksRequired(total) = n + BlocksRequired(suffix) /\ L <= BlocksRequired(total)
  BY <1>1, <1>5, <1>6
<1>9. QED
  BY <1>5, <1>6, <1>7, <1>8

\* No two blocks of a prompt have the same key.
DistinctKeys(chunks) ==
  \A i, j \in 1 .. Len(chunks) : KeyAt(chunks, i) = KeyAt(chunks, j) => i = j

\* Blocks with the same key are one block.
LEMMA CanonicalBlock ==
  ASSUME NEW m \in Manager, Valid(m), NEW key \in Key,
         NEW a \in Matches(m, key), NEW b \in Matches(m, key)
  PROVE  a = b
<1>1. HashOf(key) \in HashValues
  BY HashType
<1>2. {a, b} \subseteq m.index[HashOf(key)] /\ m.blocks[a].key = key /\ m.blocks[b].key = key
  BY DEF Matches
<1>3. a \in UNION Range(m.index) /\ b \in UNION Range(m.index)
  BY <1>1, <1>2 DEF Range, Manager
<1>4. QED
  BY <1>2, <1>3 DEF Valid, IndexValid

\* A lookup finds blocks with the keys of the prompt.
LEMMA LookupHits ==
  ASSUME NEW m \in Manager, Valid(m), NEW chunks \in Seq(Chunks)
  PROVE  LET found == Lookup(m, chunks) IN
         /\ found \in Seq(Block) /\ Len(found) \in 0 .. Len(chunks)
         /\ \A i \in DOMAIN found : m.blocks[found[i]].key = KeyAt(chunks, i)
<1> DEFINE hit(i) == Matches(m, KeyAt(chunks, i)) # {}
           hits == {i \in 1 .. Len(chunks) : \A j \in 1 .. i : hit(j)}
           n == Cardinality(hits)
           at(i) == Min(Matches(m, KeyAt(chunks, i)))
           found == Lookup(m, chunks)
<1>1. Len(chunks) \in Nat
  OBVIOUS
<1>2. CASE ~PrefixEnabled
  <2>1. found = <<>>
    BY <1>2 DEF Lookup
  <2>2. DOMAIN <<>> = {} /\ <<>> \in Seq(Block) /\ Len(<<>>) = 0
    OBVIOUS
  <2> HIDE DEF found
  <2>3. QED
    BY <1>1, <2>1, <2>2 DEF found
<1>3. CASE PrefixEnabled
  <2>1. found = [i \in 1 .. n |-> at(i)]
    BY <1>3 DEF Lookup
  <2>2. IsFiniteSet(1 .. Len(chunks)) /\ Cardinality(1 .. Len(chunks)) = Len(chunks)
    BY <1>1, FS_Interval
  <2>3. IsFiniteSet(hits) /\ n \in Nat /\ n <= Len(chunks)
    <3>1. hits \in SUBSET (1 .. Len(chunks))
      OBVIOUS
    <3> HIDE DEF hits
    <3>2. IsFiniteSet(hits) /\ n \in Nat
      BY <2>2, <3>1, FS_Subset, FS_CardinalityType
    <3>3. n <= Len(chunks)
      BY <2>2, <3>1, FS_Subset
    <3>4. QED
      BY <3>2, <3>3
  <2> HIDE DEF n, found
  <2>4. ASSUME NEW i \in 1 .. n
        PROVE  hit(i)
    <3>1. SUFFICES ASSUME i \notin hits PROVE FALSE
      OBVIOUS
    <3>2. i \in 1 .. Len(chunks) /\ i \in Nat /\ i - 1 \in Nat
      BY <1>1, <2>3
    <3>3. ASSUME NEW x \in hits
          PROVE  x \in 1 .. i - 1
      <4>1. x >= i => i \in hits
        BY <1>1, <3>2
      <4>2. QED
        BY <1>1, <3>1, <3>2, <4>1
    <3>4. IsFiniteSet(1 .. i - 1) /\ Cardinality(1 .. i - 1) = i - 1
      BY <3>2, FS_Interval
    <3>5. hits \in SUBSET (1 .. i - 1)
      BY <3>3
    <3> HIDE DEF hits
    <3>6. Cardinality(hits) <= i - 1
      BY <3>4, <3>5, FS_Subset
    <3>7. QED
      BY <2>3, <3>2, <3>6 DEF n
  <2>5. ASSUME NEW i \in 1 .. n
        PROVE  at(i) \in Block /\ m.blocks[at(i)].key = KeyAt(chunks, i)
    <3> DEFINE S == Matches(m, KeyAt(chunks, i))
    <3>1. i \in 1 .. Len(chunks)
      BY <1>1, <2>3
    <3>2. KeyAt(chunks, i) \in Key
      BY <3>1, KeyType
    <3>3. S # {}
      BY <2>4
    <3>4. S \in SUBSET Block
      BY <3>2, HashType DEF Matches, Manager
    <3>5. \A x, y \in S : x = y
      BY <3>2, CanonicalBlock
    <3>6. PICK b \in S : S = {b}
      BY <3>3, <3>5
    <3>7. Min(S) \in S
      <4>1. b <= b
        BY <3>4, <3>6 DEF Block
      <4> HIDE DEF S
      <4>2. QED
        BY <3>6, <4>1 DEF Min
    <3>8. QED
      BY <3>4, <3>7 DEF Matches
  <2> HIDE DEF at, hits, hit
  <2>6. found \in [1 .. n -> Block]
    BY <2>1, <2>5
  <2>7. found \in Seq(Block) /\ Len(found) = n /\ DOMAIN found = 1 .. n
    BY <2>3, <2>6, FunctionIsSequence
  <2>8. \A i \in 1 .. n : m.blocks[found[i]].key = KeyAt(chunks, i)
    BY <2>1, <2>5
  <2>9. QED
    BY <1>1, <2>3, <2>7, <2>8 DEF found
<1>4. QED
  BY <1>2, <1>3

\* No block is found twice.
LEMMA LookupFinds ==
  ASSUME NEW m \in Manager, Valid(m), NEW chunks \in Seq(Chunks), DistinctKeys(chunks)
  PROVE  LET found == Lookup(m, chunks) IN
         /\ found \in Seq(Block) /\ Len(found) \in 0 .. Len(chunks)
         /\ IsInjective(found)
         /\ \A i \in DOMAIN found : m.blocks[found[i]].key = KeyAt(chunks, i)
<1> DEFINE found == Lookup(m, chunks)
<1>1. /\ found \in Seq(Block) /\ Len(found) \in 0 .. Len(chunks)
      /\ \A i \in DOMAIN found : m.blocks[found[i]].key = KeyAt(chunks, i)
  BY LookupHits
<1> HIDE DEF found
<1>2. ASSUME NEW i \in DOMAIN found, NEW j \in DOMAIN found, found[i] = found[j]
      PROVE  i = j
  <2>1. i \in 1 .. Len(chunks) /\ j \in 1 .. Len(chunks)
    BY <1>1
  <2>2. KeyAt(chunks, i) = KeyAt(chunks, j)
    BY <1>1, <1>2
  <2>3. QED
    BY <2>1, <2>2 DEF DistinctKeys
<1>3. IsInjective(found)
  BY <1>2, Zenon DEF IsInjective
<1>4. QED
  BY <1>1, <1>3 DEF found

-----------------------------------------------------------------------------
(* The table of an admitted request *)

\* c is a copy in which r was admitted with a prompt of which `hits` were found.
AdmissionOf(c, r, chunks, tail, total, hits, suffix, ids) ==
  /\ chunks \in Seq(Chunks) /\ tail \in 0 .. BlockSize - 1
  /\ total = Len(chunks) * BlockSize + tail
  /\ hits \in Seq(Block) /\ Len(hits) \in 0 .. Len(chunks)
  /\ suffix = total - Len(hits) * BlockSize
  /\ ids \in Seq(Block) /\ Len(ids) = BlocksRequired(suffix)
  /\ IsInjective(hits \o ids) /\ c.tables[r] = hits \o ids
  /\ LET q == c.prov[r] IN
     /\ q.exact = TRUE /\ q.chunks = chunks /\ q.total = total
     /\ q.matched = Len(hits) /\ q.published = FALSE
  /\ \A i \in DOMAIN hits : LET d == c.blocks[hits[i]] IN
       d.prov \in FullProvenance /\ d.key = KeyAt(chunks, i) /\ d.key # None
  /\ \A i \in DOMAIN ids : LET d == c.blocks[ids[i]] IN
       /\ d.key = None /\ d.valid = TokensAt(suffix, i)
       /\ d.prov = IF Len(hits) + i <= Len(chunks) THEN "ComputedPromptFull"
                                                   ELSE "PrivatePromptTail"

\* The table of a request admitted with a prompt of which `hits` were found.
LEMMA AdmittedTableIsValid ==
  ASSUME PrefixEnabled, NEW c, NEW r, NEW chunks, NEW tail, NEW total, NEW hits,
         NEW suffix, NEW ids, AdmissionOf(c, r, chunks, tail, total, hits, suffix, ids)
  PROVE  TableValid(c, r) /\ KeysValid(c, r)
<1> DEFINE t == hits \o ids
           q == c.prov[r]
           L == Len(chunks)
           n == Len(hits)
           k == Len(ids)
<1>0. /\ chunks \in Seq(Chunks) /\ tail \in 0 .. BlockSize - 1
      /\ total = Len(chunks) * BlockSize + tail
      /\ hits \in Seq(Block) /\ Len(hits) \in 0 .. Len(chunks)
      /\ suffix = total - Len(hits) * BlockSize
      /\ ids \in Seq(Block) /\ Len(ids) = BlocksRequired(suffix)
      /\ IsInjective(t) /\ c.tables[r] = t /\ t = hits \o ids /\ c.prov[r] = q
      /\ q.exact = TRUE /\ q.chunks = chunks /\ q.total = total
      /\ q.matched = Len(hits) /\ q.published = FALSE
  BY DEF AdmissionOf
<1>a. \A i \in DOMAIN hits : LET d == c.blocks[hits[i]] IN
        d.prov \in FullProvenance /\ d.key = KeyAt(chunks, i) /\ d.key # None
  BY DEF AdmissionOf
<1>b. \A i \in DOMAIN ids : LET d == c.blocks[ids[i]] IN
        /\ d.key = None /\ d.valid = TokensAt(suffix, i)
        /\ d.prov = IF Len(hits) + i <= Len(chunks) THEN "ComputedPromptFull"
                                                    ELSE "PrivatePromptTail"
  BY DEF AdmissionOf
<1> HIDE DEF t, q
<1> USE <1>0, <1>a, <1>b
<1>1. L \in Nat /\ n \in 0 .. L /\ n \in Nat /\ k \in Nat
  OBVIOUS
<1>2. /\ q.exact = TRUE /\ q.chunks = chunks /\ q.total = total /\ q.matched = n
      /\ q.published = FALSE
  OBVIOUS
<1>3. /\ total \in Nat /\ suffix \in Nat /\ total \div BlockSize = L
      /\ BlocksRequired(total) = n + BlocksRequired(suffix)
      /\ L <= BlocksRequired(total)
      /\ \A i \in 1 .. BlocksRequired(suffix) : TokensAt(total, n + i) = TokensAt(suffix, i)
  <2>1. total = L * BlockSize + tail /\ suffix = total - n * BlockSize
    OBVIOUS
  <2> HIDE DEF L, n
  <2>2. ASSUME NEW i \in 1 .. BlocksRequired(suffix)
        PROVE  TokensAt(total, n + i) = TokensAt(suffix, i)
    BY <1>1, <2>1, SuffixOfPrompt
  <2>3. /\ total \in Nat /\ suffix \in Nat /\ total \div BlockSize = L
        /\ BlocksRequired(total) = n + BlocksRequired(suffix)
        /\ L <= BlocksRequired(total)
    BY <1>1, <2>1, SuffixOfPrompt
  <2>4. QED
    BY <2>2, <2>3
<1>4. t \in Seq(Block) /\ Len(t) = n + k /\ DOMAIN t = 1 .. (n + k)
  OBVIOUS
<1>5. PromptBlocks(q) = n + k
  BY <1>2, <1>3 DEF PromptBlocks
<1>6. ASSUME NEW i \in 1 .. n
      PROVE  /\ t[i] = hits[i] /\ c.blocks[t[i]].prov \in FullProvenance
             /\ c.blocks[t[i]].key = KeyAt(chunks, i) /\ c.blocks[t[i]].key # None
  <2>1. i \in DOMAIN hits /\ t[i] = hits[i]
    OBVIOUS
  <2>2. QED
    BY <2>1
<1>7. ASSUME NEW i \in DOMAIN t, ~(i <= n)
      PROVE  /\ c.blocks[t[i]].key = None
             /\ c.blocks[t[i]].valid >= TokensAt(total, i)
             /\ c.blocks[t[i]].prov = IF i <= L THEN "ComputedPromptFull"
                                               ELSE "PrivatePromptTail"
  <2> DEFINE j == i - n
  <2>1. j \in 1 .. k /\ n + j = i /\ j \in DOMAIN ids
    BY <1>1, <1>4, <1>7
  <2>2. t[i] = ids[j]
    BY <1>1, <1>4, <1>7
  <2> HIDE DEF j
  <2>3. /\ c.blocks[ids[j]].key = None /\ c.blocks[ids[j]].valid = TokensAt(suffix, j)
        /\ c.blocks[ids[j]].prov = IF n + j <= L THEN "ComputedPromptFull"
                                                 ELSE "PrivatePromptTail"
    BY <2>1
  <2>4. TokensAt(total, i) = TokensAt(suffix, j) /\ TokensAt(suffix, j) \in 1 .. BlockSize
    BY <1>3, <2>1, TokensAtType
  <2>5. QED
    BY <2>1, <2>2, <2>3, <2>4
<1> HIDE DEF L, n, k
<1>8. TableValid(c, r)
  <2>1. Range(t) \subseteq Block
    BY <1>4 DEF Range
  <2>2. ASSUME NEW i \in DOMAIN t
        PROVE  IF i <= L THEN c.blocks[t[i]].prov \in FullProvenance
               ELSE IF i <= PromptBlocks(q)
               THEN /\ c.blocks[t[i]].prov = IF q.exact THEN "PrivatePromptTail"
                                             ELSE "PrivatePromptCountOnly"
                    /\ c.blocks[t[i]].valid >= TokensAt(total, i)
               ELSE c.blocks[t[i]].prov = "PrivateDecode"
    <3>1. i \in 1 .. n + k
      BY <1>4
    <3>2. CASE i <= n
      <4>1. i \in 1 .. n /\ i <= L
        BY <1>1, <3>1, <3>2
      <4>2. c.blocks[t[i]].prov \in FullProvenance
        BY <1>6, <4>1
      <4>3. QED
        BY <4>1, <4>2
    <3>3. CASE ~(i <= n)
      <4>1. /\ c.blocks[t[i]].valid >= TokensAt(total, i)
            /\ c.blocks[t[i]].prov = IF i <= L THEN "ComputedPromptFull"
                                               ELSE "PrivatePromptTail"
        BY <1>7, <3>3
      <4>2. i <= PromptBlocks(q)
        BY <1>1, <1>5, <3>1
      <4>3. QED
        BY <1>2, <4>1, <4>2 DEF FullProvenance
    <3>4. QED
      BY <3>2, <3>3
  <2>3. PromptBlocks(q) <= Len(t) /\ n <= L
    BY <1>1, <1>4, <1>5
  <2>4. Len(q.chunks) = L /\ q.total \div BlockSize = L
    BY <1>2, <1>3 DEF L
  <2>5. \A i \in DOMAIN t :
           IF i <= Len(q.chunks) THEN c.blocks[t[i]].prov \in FullProvenance
           ELSE IF i <= PromptBlocks(q)
           THEN /\ c.blocks[t[i]].prov = IF q.exact THEN "PrivatePromptTail"
                                             ELSE "PrivatePromptCountOnly"
                /\ c.blocks[t[i]].valid >= TokensAt(q.total, i)
           ELSE c.blocks[t[i]].prov = "PrivateDecode"
    BY <1>2, <2>2, <2>4
  <2>6. /\ q.matched <= Len(q.chunks) /\ q.published = FALSE /\ q.exact = TRUE
        /\ Len(q.chunks) = q.total \div BlockSize
    BY <1>2, <2>3, <2>4
  <2>7. c.tables[r] = t
    OBVIOUS
  <2>8. QED
    BY <2>1, <2>3, <2>5, <2>6, <2>7, SMTT(30) DEF TableValid
<1>9. KeysValid(c, r)
  <2>1. ASSUME NEW i \in 1 .. L
        PROVE  /\ c.blocks[t[i]].key \in {None, KeyAt(chunks, i)}
               /\ i <= n => c.blocks[t[i]].key # None
               /\ i > n => c.blocks[t[i]].key = None
    <3>1. i \in DOMAIN t
      <4>1. L <= n + k
        BY <1>3, <1>5, <1>2 DEF PromptBlocks
      <4>2. QED
        BY <1>1, <1>4, <4>1
    <3>2. CASE i <= n
      <4>1. i \in 1 .. n /\ ~(i > n)
        BY <1>1, <3>2
      <4>2. QED
        BY <1>6, <4>1
    <3>3. CASE ~(i <= n)
      BY <1>1, <1>7, <3>1, <3>3
    <3>4. QED
      BY <3>2, <3>3
  <2>2. Len(q.chunks) = L
    BY <1>2 DEF L
  <2>3. QED
    BY <1>2, <2>1, <2>2 DEF KeysValid
<1>10. QED
  BY <1>8, <1>9

-----------------------------------------------------------------------------
(* How allocate_prompt_with_prefix ends *)

LEMMA ConcatIsInjective ==
  ASSUME NEW T, NEW s \in Seq(T), IsInjective(s), NEW t \in Seq(T), IsInjective(t),
         Range(s) \cap Range(t) = {}
  PROVE  IsInjective(s \o t)
<1> DEFINE u == s \o t
           n == Len(s)
           k == Len(t)
<1>1. u \in Seq(T) /\ n \in Nat /\ k \in Nat /\ Len(u) = n + k /\ DOMAIN u = 1 .. (n + k)
      /\ DOMAIN s = 1 .. n /\ DOMAIN t = 1 .. k
  OBVIOUS
<1>2. \A i \in 1 .. n : u[i] = s[i] /\ u[i] \in Range(s)
  BY DEF Range
<1>3. \A i \in DOMAIN u : ~(i <= n) => i - n \in 1 .. k /\ u[i] = t[i - n] /\ u[i] \in Range(t)
  BY DEF Range
<1> HIDE DEF u, n, k
<1>4. ASSUME NEW i \in DOMAIN u, NEW j \in DOMAIN u, u[i] = u[j]
      PROVE  i = j
  <2>1. i \in 1 .. (n + k) /\ j \in 1 .. (n + k) /\ i \in Int /\ j \in Int
    BY <1>1
  <2>2. CASE i <= n /\ j <= n
    <3>1. i \in 1 .. n /\ j \in 1 .. n /\ s[i] = s[j]
      BY <1>1, <1>2, <1>4, <2>1, <2>2
    <3>2. QED
      BY <1>1, <3>1 DEF IsInjective
  <2>3. CASE ~(i <= n) /\ ~(j <= n)
    <3>1. i - n \in 1 .. k /\ j - n \in 1 .. k /\ t[i - n] = t[j - n]
      BY <1>3, <1>4, <2>3
    <3>2. i - n = j - n
      BY <1>1, <3>1 DEF IsInjective
    <3>3. QED
      BY <1>1, <2>1, <3>2
  <2>4. CASE i <= n /\ ~(j <= n)
    <3>1. i \in 1 .. n
      BY <1>1, <2>1, <2>4
    <3>2. QED
      BY <1>2, <1>3, <1>4, <2>4, <3>1
  <2>5. CASE ~(i <= n) /\ j <= n
    <3>1. j \in 1 .. n
      BY <1>1, <2>1, <2>5
    <3>2. QED
      BY <1>2, <1>3, <1>4, <2>5, <3>1
  <2>6. QED
    BY <2>2, <2>3, <2>4, <2>5
<1>5. QED
  BY <1>4, Zenon DEF IsInjective, u

\* An exact admission is never an internal error when no duplicate is at stake.
LEMMA AllocatePromptWithPrefixIsValid ==
  ASSUME PrefixEnabled, NEW m \in Manager, Valid(m), IsFiniteSet(Live(m)), NoDuplicates(m),
         NEW r \in Requests, m.prov[r] = None,
         NEW chunks \in Seq(Chunks), DistinctKeys(chunks), NEW tail \in 0 .. BlockSize - 1,
         NEW prompt, prompt = [chunks |-> chunks, tail |-> tail], NEW supplied
  PROVE  LET outcome == AllocatePromptWithPrefix(m, r, prompt, supplied).outcome
             matched == Lookup(m, chunks)
             suffix == Total(prompt) - Len(matched) * BlockSize
         IN  /\ outcome \in {"ok", "stale", "capacity", "overflow"}
             /\ supplied = matched
                /\ ~(Shortage(m, BlocksRequired(suffix)) > Cardinality(Cached(m) \ Range(matched)))
                => outcome \in {"ok", "overflow"}
<1> DEFINE matched == Lookup(m, chunks)
           total == Total(prompt)
           suffix == total - Len(matched) * BlockSize
           required == BlocksRequired(suffix)
           short == Shortage(m, required)
           unmatched == Cached(m) \ Range(matched)
           E == LeastRecentlyUsed(m, unmatched, short)
           ids == Ascending(Lowest(m.free \cup E, required))
           epochs == (IF matched = <<>> THEN 0 ELSE 1) + (IF required = 0 THEN 0 ELSE 1)
           fresh == [ exact |-> TRUE, chunks |-> chunks, total |-> total,
                      matched |-> Len(matched), published |-> FALSE ]
           admitted == [m EXCEPT !.prov[r] = fresh]
           acquired == AcquireBlocks(admitted, r, matched)
           evicted == EvictBlocks(acquired, E)
           provenance == [i \in DOMAIN ids |-> IF Len(matched) + i <= Len(chunks)
                                               THEN "ComputedPromptFull"
                                               ELSE "PrivatePromptTail"]
           c == ClaimBlocks(evicted, r, ids, suffix, provenance)
           e == EvictBlocks(m, E)
           reply == AllocatePromptWithPrefix(m, r, prompt, supplied)
<1>1. prompt.chunks = chunks /\ prompt.tail = tail
  OBVIOUS
<1>2. CASE supplied # matched
  BY <1>1, <1>2, OutcomeOfRefusal DEF AllocatePromptWithPrefix
<1>3. CASE supplied = matched /\ short > Cardinality(unmatched)
  BY <1>1, <1>3, OutcomeOfRefusal DEF AllocatePromptWithPrefix
<1>4. CASE /\ supplied = matched /\ ~(short > Cardinality(unmatched))
           /\ epochs > EpochLimit - m.epoch
  BY <1>1, <1>4, OutcomeOfRefusal DEF AllocatePromptWithPrefix
<1>5. CASE /\ supplied = matched /\ ~(short > Cardinality(unmatched))
           /\ ~(epochs > EpochLimit - m.epoch)
  <2>1. reply = Commit(m, c)
    BY <1>1, <1>5 DEF AllocatePromptWithPrefix
  <2>2. /\ matched \in Seq(Block) /\ Len(matched) \in 0 .. Len(chunks) /\ IsInjective(matched)
        /\ \A i \in DOMAIN matched : m.blocks[matched[i]].key = KeyAt(chunks, i)
    BY LookupFinds
  <2> HIDE DEF matched
  <2>3. total = Len(chunks) * BlockSize + tail
    BY <1>1 DEF Total
  <2> DEFINE L == Len(chunks)
             n == Len(matched)
  <2>4. L \in Nat /\ n \in 0 .. L /\ n \in Nat
    BY <2>2
  <2>5. total \in Nat /\ suffix \in Nat
    <3> HIDE DEF L, n, total
    <3>1. total = L * BlockSize + tail
      BY <2>3 DEF L
    <3>2. suffix = total - n * BlockSize
      BY DEF n
    <3> HIDE DEF suffix
    <3>3. QED
      BY <2>4, <3>1, <3>2, SuffixOfPrompt
  <2> HIDE DEF total
  <2>6. suffix = total - Len(matched) * BlockSize
    OBVIOUS
  <2> HIDE DEF suffix
  <2>7. required \in Nat
    BY <2>5, BlocksSuffice
  <2>8. Cached(m) \in SUBSET Block /\ Cached(m) \cap m.free = {} /\ unmatched \in SUBSET Cached(m)
    BY BlockFacts DEF Cached
  <2>9. unmatched \in SUBSET Block /\ unmatched \cap m.free = {}
        /\ unmatched \cap Range(matched) = {}
    BY <2>8
  <2> HIDE DEF required, unmatched
  <2>10. /\ E \in SUBSET unmatched
         /\ ids \in Seq(Block) /\ Len(ids) = required /\ IsInjective(ids)
         /\ Range(ids) \subseteq m.free \cup E
    BY <1>5, <2>7, <2>9, ChoiceSuffices
  <2> HIDE DEF E, ids
  <2>11. /\ E \in SUBSET Cached(m) /\ \A b \in E : ~DuplicateHolder(m, b)
         /\ E \in SUBSET Block /\ E \cap Range(matched) = {} /\ E \cap m.free = {}
    BY <2>8, <2>9, <2>10 DEF NoDuplicates
  <2>12. /\ e \in Manager /\ Valid(e) /\ Live(e) = Live(m)
         /\ \A b \in E : e.blocks[b] = FreeBlock
         /\ \A b \in Block \ E : e.blocks[b] = m.blocks[b]
    BY <2>11, EvictionIsValid
  <2>13. fresh \in RequestProvenance
    BY <2>4, <2>5 DEF RequestProvenance
  <2>14. /\ fresh.exact = TRUE /\ fresh.chunks = chunks /\ fresh.total = total
         /\ fresh.matched = Len(matched) /\ fresh.published = FALSE
    OBVIOUS
  <2> HIDE DEF fresh
  <2>15. admitted \in Manager
    BY <2>13 DEF Manager
  <2>16. /\ admitted.blocks = m.blocks /\ admitted.free = m.free /\ admitted.index = m.index
         /\ admitted.tables = m.tables /\ admitted.prov = [m.prov EXCEPT ![r] = fresh]
         /\ admitted.epoch = m.epoch /\ admitted.represented = m.represented
    BY DEF Manager
  <2> HIDE DEF admitted
  <2>17. Draft(admitted) /\ Draft(m)
    BY <2>15, ManagerIsDraft
  <2>18. matched = <<>> \/ admitted.epoch < EpochLimit
    <3>1. epochs >= 1 \/ matched = <<>>
      OBVIOUS
    <3>2. epochs \in Nat /\ m.epoch \in Nat
      BY KVAssumption DEF Manager
    <3> HIDE DEF epochs
    <3>3. QED
      BY <1>5, <2>16, <3>1, <3>2, KVAssumption
  <2>19. Draft(acquired) /\ Acquired(admitted, acquired, r, matched)
    <3>1. acquired = AcquireBlocks(admitted, r, matched)
      OBVIOUS
    <3> HIDE DEF acquired
    <3>2. QED
      BY <2>2, <2>17, <2>18, <3>1, AcquireDraft, AcquireFields
  <2> HIDE DEF acquired
  <2>20. Draft(evicted)
    BY <2>11, <2>19, EvictDraft
  <2>21. /\ evicted.blocks = [b \in Block |-> IF b \in E THEN FreeBlock ELSE acquired.blocks[b]]
         /\ evicted.free = acquired.free \cup E
         /\ evicted.index = [h \in HashValues |-> acquired.index[h] \ E]
         /\ evicted.tables = acquired.tables /\ evicted.prov = acquired.prov
         /\ evicted.epoch = acquired.epoch
         /\ evicted.represented = acquired.represented - TokensIn(acquired, E)
    BY <2>11, <2>19, EvictFields
  <2>22. /\ e.blocks = [b \in Block |-> IF b \in E THEN FreeBlock ELSE m.blocks[b]]
         /\ e.free = m.free \cup E
         /\ e.index = [h \in HashValues |-> m.index[h] \ E]
         /\ e.tables = m.tables /\ e.prov = m.prov /\ e.epoch = m.epoch
         /\ e.represented = m.represented - TokensIn(m, E)
    BY <2>11, <2>17, EvictFields
  <2>23. TokensIn(acquired, E) = TokensIn(m, E)
    <3>1. \A b \in E : acquired.blocks[b].valid = m.blocks[b].valid
      BY <2>11, <2>16, <2>19 DEF Acquired
    <3>2. QED
      BY <2>11, <3>1, TokensAgree
  <2> HIDE DEF e, evicted
  <2>24. /\ evicted.free = e.free /\ evicted.index = e.index
         /\ evicted.tables = [e.tables EXCEPT ![r] = matched]
         /\ evicted.prov = [e.prov EXCEPT ![r] = fresh]
         /\ evicted.epoch = IF matched = <<>> THEN e.epoch ELSE e.epoch + 1
         /\ evicted.represented = e.represented
    BY <2>16, <2>19, <2>21, <2>22, <2>23 DEF Acquired
  <2>25. \A b \in Block \ Range(matched) : evicted.blocks[b] = e.blocks[b]
    BY <2>16, <2>19, <2>21, <2>22 DEF Acquired
  <2>26. Range(matched) \in SUBSET Block /\ Range(ids) \in SUBSET Block
    BY <2>2, <2>10 DEF Range
  <2>27. ASSUME NEW b \in Range(matched)
         PROVE  /\ b \in Block /\ b \notin E /\ b \notin m.free /\ b \notin Range(ids)
                /\ m.blocks[b].key # None /\ e.blocks[b] = m.blocks[b]
                /\ evicted.blocks[b] = acquired.blocks[b]
                /\ m.blocks[b].prov \in FullProvenance
    <3>1. PICK i \in DOMAIN matched : b = matched[i]
      BY DEF Range
    <3>2. i \in 1 .. Len(chunks)
      BY <2>2
    <3>3. KeyAt(chunks, i) # None
      BY <3>2, KeyType, NoneAssumption
    <3>4. m.blocks[b].key # None /\ b \in Block
      BY <2>2, <2>26, <3>1, <3>3
    <3>5. b \notin m.free /\ m.blocks[b].prov \in FullProvenance
      BY <3>4, BlockFacts
    <3>6. QED
      BY <2>10, <2>11, <2>12, <2>21, <3>4, <3>5
  <2>28. Claimed(evicted, c, r, ids, suffix, provenance)
    <3>1. c = ClaimBlocks(evicted, r, ids, suffix, provenance)
      OBVIOUS
    <3> HIDE DEF c, provenance
    <3>2. QED
      BY <2>10, <2>20, <3>1, ClaimFields
  <2>29. \A i \in DOMAIN ids :
           provenance[i] = IF n + i <= L THEN "ComputedPromptFull" ELSE "PrivatePromptTail"
    OBVIOUS
  <2> HIDE DEF c, provenance
  <2>30. e.prov[r] = None /\ e.tables[r] = <<>> /\ r \notin Live(e) /\ e.epoch \in Nat
    <3>1. r \notin Live(m)
      BY DEF Live
    <3>2. m.tables[r] = <<>>
      BY <3>1 DEF Valid
    <3>3. QED
      BY <2>12, <2>22, <3>1, <3>2, KVAssumption DEF Manager
  <2>31. c.tables[r] = matched \o ids /\ c.prov[r] = fresh /\ fresh # None
    <3>1. c.tables = [evicted.tables EXCEPT ![r] = @ \o ids] /\ c.prov = evicted.prov
      BY <2>28 DEF Claimed
    <3>2. e.tables \in [Requests -> Seq(Block)] /\ DOMAIN e.prov = Requests
      BY <2>12 DEF Manager
    <3>3. evicted.tables[r] = matched /\ DOMAIN evicted.tables = Requests /\ evicted.prov[r] = fresh
      BY <2>24, <3>2
    <3>4. c.tables[r] = matched \o ids
      BY <3>1, <3>3
    <3>5. QED
      BY <2>13, <3>1, <3>3, <3>4, NoneAssumption
  <2>32. /\ evicted.epoch \in Nat /\ evicted.epoch >= e.epoch
         /\ matched # <<>> => evicted.epoch = e.epoch + 1
         /\ c.epoch \in Nat /\ c.epoch >= evicted.epoch
         /\ ids # <<>> => c.epoch = evicted.epoch + 1
    BY <2>24, <2>28, <2>30 DEF Claimed
  <2>33. ASSUME NEW i \in DOMAIN ids
         PROVE  LET d == c.blocks[ids[i]] IN
                /\ d.state = "InUse" /\ d.owner = r /\ d.refs = 1 /\ d.key = None
                /\ d.valid = TokensAt(suffix, i) /\ d.epoch \in 1 .. c.epoch /\ d.prov # None
                /\ d.prov = IF n + i <= L THEN "ComputedPromptFull" ELSE "PrivatePromptTail"
                /\ d.prov \in FullProvenance => d.valid = BlockSize
    <3> DEFINE d == c.blocks[ids[i]]
    <3>1. /\ d.state = "InUse" /\ d.owner = r /\ d.refs = 1 /\ d.key = None
          /\ d.valid = TokensAt(suffix, i) /\ d.epoch = evicted.epoch + 1
          /\ d.prov = IF n + i <= L THEN "ComputedPromptFull" ELSE "PrivatePromptTail"
      BY <2>28, <2>29 DEF Claimed
    <3>2. ids # <<>> /\ i \in 1 .. required
      BY <2>10
    <3>3. d.epoch \in 1 .. c.epoch
      BY <2>32, <3>1, <3>2
    <3>4. n + i <= L => TokensAt(suffix, i) = BlockSize
      <4>1. i \in 1 .. BlocksRequired(suffix)
        BY <3>2 DEF required
      <4>2. total = L * BlockSize + tail /\ suffix = total - n * BlockSize
        BY <2>3, <2>6 DEF L, n
      <4> HIDE DEF L, n, d
      <4>3. QED
        BY <2>4, <4>1, <4>2, SuffixOfPrompt
    <3> HIDE DEF d, L, n
    <3>5. /\ "ComputedPromptFull" # None /\ "PrivatePromptTail" # None
          /\ "PrivatePromptTail" \notin FullProvenance
      BY NoneAssumption DEF BlockProvenance, FullProvenance
    <3>6. d.prov # None /\ (d.prov \in FullProvenance => d.valid = BlockSize)
      BY <3>1, <3>4, <3>5
    <3>7. QED
      BY <3>1, <3>3, <3>6 DEF d
  <2>34. ASSUME NEW b \in Range(matched)
         PROVE  LET d == c.blocks[b] IN
                /\ d.state = "InUse" /\ d.owner = None /\ d.refs = e.blocks[b].refs + 1
                /\ d.key = e.blocks[b].key /\ d.valid = e.blocks[b].valid
                /\ d.epoch \in 1 .. c.epoch /\ d.prov \in FullProvenance
    <3> DEFINE d == c.blocks[b]
    <3>1. d = acquired.blocks[b] /\ e.blocks[b] = m.blocks[b]
      BY <2>27, <2>28 DEF Claimed
    <3>2. matched # <<>>
      BY DEF Range
    <3> HIDE DEF d
    <3>3. /\ d.state = "InUse" /\ d.owner = None /\ d.refs = m.blocks[b].refs + 1
          /\ d.key = m.blocks[b].key /\ d.valid = m.blocks[b].valid
          /\ d.epoch = e.epoch + 1 /\ d.prov \in FullProvenance
      <4>1. admitted.blocks[b] = m.blocks[b] /\ admitted.epoch = e.epoch
            /\ m.blocks[b].prov \in FullProvenance
        BY <2>16, <2>22, <2>27
      <4>2. QED
        BY <2>19, <3>1, <4>1 DEF Acquired
    <3>4. d.epoch \in 1 .. c.epoch
      BY <2>30, <2>32, <3>2, <3>3
    <3>5. QED
      BY <3>1, <3>3, <3>4 DEF d
  <2>35. Joins(e, c, r, matched, ids, suffix)
    <3>1. \A s \in Requests \ {r} : c.prov[s] = e.prov[s] /\ c.tables[s] = e.tables[s]
      <4>1. e.tables \in [Requests -> Seq(Block)] /\ DOMAIN e.prov = Requests
        BY <2>12 DEF Manager
      <4>2. QED
        BY <2>24, <2>28, <4>1 DEF Claimed
    <3>2. c.tables[r] = e.tables[r] \o (matched \o ids)
      <4>1. matched \o ids \in Seq(Block)
        BY <2>2, <2>10
      <4>2. <<>> \o (matched \o ids) = matched \o ids
        BY <4>1
      <4>3. QED
        BY <2>30, <2>31, <4>2
    <3>3. c.prov[r] # None
      BY <2>31
    <3>4. /\ c.free = e.free \ Range(ids) /\ c.index = e.index
          /\ c.represented = e.represented + suffix
          /\ \A b \in Block \ (Range(matched) \cup Range(ids)) : c.blocks[b] = e.blocks[b]
      BY <2>24, <2>25, <2>28 DEF Claimed
    <3>5. c.epoch \in Nat /\ c.epoch >= e.epoch
      BY <2>30, <2>32
    <3>6. QED
      BY <2>33, <2>34, <3>1, <3>2, <3>3, <3>4, <3>5 DEF Joins
  <2>36. TableValid(c, r) /\ KeysValid(c, r)
    <3>1. IsInjective(matched \o ids)
      BY <2>2, <2>10, <2>27, ConcatIsInjective
    <3>2. ASSUME NEW i \in DOMAIN matched
          PROVE  LET d == c.blocks[matched[i]] IN
                 d.prov \in FullProvenance /\ d.key = KeyAt(chunks, i) /\ d.key # None
      <4>1. matched[i] \in Range(matched)
        BY DEF Range
      <4>2. QED
        BY <2>2, <2>27, <2>34, <4>1
    <3>3. ASSUME NEW i \in DOMAIN ids
          PROVE  LET d == c.blocks[ids[i]] IN
                 /\ d.key = None /\ d.valid = TokensAt(suffix, i)
                 /\ d.prov = IF Len(matched) + i <= Len(chunks) THEN "ComputedPromptFull"
                                                                ELSE "PrivatePromptTail"
      BY <2>33
    <3>4. Len(ids) = BlocksRequired(suffix)
      BY <2>10 DEF required
    <3>5. AdmissionOf(c, r, chunks, tail, total, matched, suffix, ids)
      BY <2>2, <2>3, <2>6, <2>10, <2>14, <2>31, <3>1, <3>2, <3>3, <3>4 DEF AdmissionOf
    <3>6. QED
      BY <3>5, AdmittedTableIsValid
  <2>37. Valid(c) /\ c.represented \in Nat
    <3>1. Range(ids) \subseteq e.free
      BY <2>10, <2>22
    <3>2. \A b \in Range(matched) : e.blocks[b].key # None
      BY <2>27
    <3>3. Len(ids) = BlocksRequired(suffix) /\ IsFiniteSet(Live(e))
      BY <2>10, <2>12 DEF required
    <3>4. QED
      BY <2>2, <2>5, <2>10, <2>12, <2>30, <2>35, <2>36, <3>1, <3>2, <3>3, JoinIsValid
  <2>38. reply.outcome = "ok"
    <3>1. Commit(m, c).outcome = "ok"
      BY <2>37, OutcomeOfRefusal
    <3> HIDE DEF reply
    <3>2. QED
      BY <2>1, <3>1
  <2> HIDE DEF reply
  <2>39. QED
    BY <2>38 DEF reply
<1>6. QED
  BY <1>2, <1>3, <1>4, <1>5

-----------------------------------------------------------------------------
(* A decode token in place *)

\* One more token in a private block that is not full.
LEMMA TokenInPlaceIsValid ==
  ASSUME NEW m \in Manager, Valid(m), NEW last \in Block, m.blocks[last].state = "InUse",
         m.blocks[last].key = None, m.blocks[last].valid # BlockSize,
         NEW c, c.free = m.free, c.tables = m.tables, c.prov = m.prov, c.index = m.index,
         c.epoch = m.epoch + 1, c.represented = m.represented + 1,
         \A b \in Block \ {last} : c.blocks[b] = m.blocks[b],
         LET d == m.blocks[last]
             a == c.blocks[last]
         IN  /\ a.state = d.state /\ a.owner = d.owner /\ a.refs = d.refs /\ a.key = d.key
             /\ a.prov = d.prov /\ a.valid = d.valid + 1 /\ a.epoch = m.epoch + 1
  PROVE  Valid(c) /\ c.represented \in Nat
<1>1. Live(c) = Live(m) /\ \A b \in Block : Holders(c, b) = Holders(m, b)
  BY DEF Live, Holders
<1>2. m.epoch \in Nat /\ m.represented \in Nat
  BY KVAssumption DEF Manager
<1>3. m.blocks[last].valid \in 1 .. BlockSize /\ m.blocks[last].prov \notin FullProvenance
  BY BlockFacts DEF BlockValid
<1>4. \A b \in Block : /\ c.blocks[b].key = m.blocks[b].key /\ c.blocks[b].prov = m.blocks[b].prov
                       /\ c.blocks[b].valid \in Nat /\ c.blocks[b].valid >= m.blocks[b].valid
  <2>1. \A b \in Block : m.blocks[b].valid \in Nat
    BY BlockFacts
  <2>2. QED
    BY <2>1
<1>5. \A key \in Key : Matches(c, key) = Matches(m, key)
  <2>1. ASSUME NEW key \in Key
        PROVE  Matches(c, key) = Matches(m, key)
    <3>1. m.index[HashOf(key)] \in SUBSET Block
      BY HashType DEF Manager
    <3>2. QED
      BY <1>4, <3>1 DEF Matches
  <2>2. QED
    BY <2>1
<1>6. ASSUME NEW r \in Live(m)
      PROVE  TableValid(c, r) /\ KeysValid(c, r)
  <2>1. /\ TableValid(m, r) /\ KeysValid(m, r) /\ r \in Requests
        /\ m.tables[r] \in Seq(Block) /\ m.prov[r] \in RequestProvenance
    BY DEF Valid, Live, Manager
  <2>2. \A i \in DOMAIN m.tables[r] : m.tables[r][i] \in Block
    BY <2>1
  <2>2a. /\ c.prov[r] = m.prov[r] /\ c.tables[r] = m.tables[r]
         /\ \A i \in DOMAIN m.tables[r] :
              LET d == m.blocks[m.tables[r][i]]
                  a == c.blocks[m.tables[r][i]]
              IN  /\ a.prov = d.prov \/ {a.prov, d.prov} \subseteq FullProvenance
                  /\ a.valid \in Nat /\ a.valid >= d.valid
    BY <1>4, <2>2
  <2>3. TableValid(c, r)
    BY <2>1, <2>2a, TableValidDepends
  <2>4. m.prov[r].chunks \in Seq(Chunks)
    BY <2>1 DEF RequestProvenance
  <2>5. ASSUME NEW i \in 1 .. Len(m.prov[r].chunks)
        PROVE  /\ c.blocks[m.tables[r][i]].key = m.blocks[m.tables[r][i]].key
               /\ Matches(c, KeyAt(m.prov[r].chunks, i)) = Matches(m, KeyAt(m.prov[r].chunks, i))
    <3>1. i \in DOMAIN m.tables[r]
      BY PromptBlocksAreHeld
    <3>2. KeyAt(m.prov[r].chunks, i) \in Key
      BY <2>4, KeyType
    <3>3. QED
      BY <1>4, <1>5, <2>2, <3>1, <3>2
  <2>6. KeysValid(c, r)
    BY ONLY <2>1, <2>2a, <2>5, KeysValidDepends
  <2>7. QED
    BY <2>3, <2>6
<1>7. \A r \in Requests : IF r \in Live(c) THEN TableValid(c, r) /\ KeysValid(c, r)
                                           ELSE c.tables[r] = <<>>
  BY <1>1, <1>6 DEF Valid
<1>8. ASSUME NEW b \in Block
      PROVE  BlockValid(c, b)
  <2>1. BlockValid(m, b) /\ m.blocks[b] \in BlockMetadata /\ Holders(c, b) = Holders(m, b)
    BY <1>1, BlockFacts
  <2>2. CASE b = last
    <3> DEFINE d == m.blocks[last]
               a == c.blocks[last]
    <3>1. /\ a.state = "InUse" /\ a.owner = d.owner /\ a.refs = d.refs /\ a.key = None
          /\ a.prov = d.prov /\ a.valid = d.valid + 1 /\ a.epoch = m.epoch + 1
      OBVIOUS
    <3>2. /\ d.state = "InUse" /\ d.key = None /\ d.prov \notin FullProvenance
          /\ d.valid \in 1 .. BlockSize /\ d.valid # BlockSize
      BY <1>3
    <3>3. /\ last \notin m.free /\ d.prov # None
          /\ d.refs > 0 /\ d.refs = Cardinality(Holders(m, last))
          /\ Holders(m, last) = {d.owner}
      BY <2>1, <2>2, <3>2 DEF BlockValid
    <3>4. a.valid \in 1 .. BlockSize
      BY <3>1, <3>2, KVAssumption
    <3>5. a.epoch \in 1 .. c.epoch
      BY <1>2, <3>1
    <3> HIDE DEF a, d
    <3>6. QED
      BY <2>1, <2>2, <3>1, <3>2, <3>3, <3>4, <3>5 DEF BlockValid, a
  <2>3. CASE b # last
    <3>1. c.blocks[b] = m.blocks[b] /\ m.blocks[b].epoch \in Nat
      BY <2>1, <2>3, KVAssumption DEF BlockMetadata
    <3>2. QED
      BY <1>2, <2>1, <3>1 DEF BlockValid
  <2>4. QED
    BY <2>2, <2>3
<1>9. IndexValid(c)
  <2>1. IndexValid(m) /\ DOMAIN m.index = HashValues /\ \A h \in HashValues : m.index[h] \in SUBSET Block
    BY DEF Valid, Manager
  <2>2. \A b \in UNION Range(m.index) : b \in Block
    BY <2>1 DEF Range
  <2>3. QED
    BY <1>4, <2>1, <2>2 DEF IndexValid
<1>10. c.represented = TokensIn(c, Block) /\ c.represented \in Nat
  <2> DEFINE rest == Block \ {last}
  <2>1. rest \in SUBSET Block /\ {last} \in SUBSET Block /\ rest \cap {last} = {}
        /\ rest \cup {last} = Block
    OBVIOUS
  <2>2. \A b \in rest : c.blocks[b].valid = m.blocks[b].valid
    OBVIOUS
  <2> HIDE DEF rest
  <2>3. TokensAreInt(m) /\ TokensAreInt(c)
    <3>1. \A b \in Block : m.blocks[b].valid \in Int /\ c.blocks[b].valid \in Int
      BY <1>4, BlockFacts
    <3>2. QED
      BY <3>1 DEF TokensAreInt
  <2>4. /\ TokensIn(m, rest) \in Int
        /\ TokensIn(m, Block) = TokensIn(m, rest) + TokensIn(m, {last})
    BY ONLY <2>1, <2>3, TokensSplit
  <2>5. TokensIn(c, Block) = TokensIn(c, rest) + TokensIn(c, {last})
    BY <2>1, <2>3, TokensSplit
  <2>6. TokensIn(c, rest) = TokensIn(m, rest)
    BY <2>1, <2>2, TokensAgree
  <2>7. TokensIn(m, {last}) = m.blocks[last].valid /\ TokensIn(c, {last}) = c.blocks[last].valid
    BY <2>3, TokensInOne
  <2>8. m.represented = TokensIn(m, Block)
    BY DEF Valid
  <2>9. m.blocks[last].valid \in Int /\ c.blocks[last].valid = m.blocks[last].valid + 1
    BY <1>3
  <2>10. QED
    BY <1>2, <2>4, <2>5, <2>6, <2>7, <2>8, <2>9
<1>11. QED
  BY <1>7, <1>8, <1>9, <1>10 DEF Valid

-----------------------------------------------------------------------------
(* How append_decode_token ends *)

LEMMA OneBlock ==
  BlocksRequired(1) = 1
<1>1. BlockSize \in Nat /\ BlockSize > 0
  BY KVAssumption
<1>2. CASE BlockSize = 1
  <2>1. 0 \in 0 .. BlockSize - 1 /\ 1 = 1 * BlockSize + 0
    BY <1>2
  <2>2. BlocksRequired(1) = 1 + (IF 0 = 0 THEN 0 ELSE 1)
    BY <2>1, BlocksAndTail
  <2>3. QED
    BY <2>2
<1>3. CASE BlockSize # 1
  <2>1. 1 \in 0 .. BlockSize - 1 /\ 1 = 0 * BlockSize + 1
    BY <1>1, <1>3
  <2>2. BlocksRequired(1) = 0 + (IF 1 = 0 THEN 0 ELSE 1)
    BY <2>1, BlocksAndTail
  <2>3. QED
    BY <2>2
<1>4. QED
  BY <1>2, <1>3

LEMMA ConcatIndex ==
  ASSUME NEW s \in Seq(Block), NEW t \in Seq(Block)
  PROVE  /\ s \o t \in Seq(Block) /\ Len(s \o t) = Len(s) + Len(t) /\ Len(s) \in Nat
         /\ \A i \in 1 .. Len(s) : (s \o t)[i] = s[i] /\ s[i] \in Block
         /\ \A i \in 1 .. Len(t) : (s \o t)[Len(s) + i] = t[i]
OBVIOUS

LEMMA ConcatOfOne ==
  ASSUME NEW s \in Seq(Block), NEW ids \in Seq(Block), Len(ids) = 1
  PROVE  LET u == s \o ids
             n == Len(s)
         IN  /\ u \in Seq(Block) /\ Len(u) = n + 1 /\ DOMAIN u = 1 .. (n + 1) /\ n \in Nat
             /\ DOMAIN s = 1 .. n /\ \A i \in 1 .. n : u[i] = s[i] /\ s[i] \in Block
             /\ u[n + 1] = ids[1] /\ 1 \in DOMAIN ids
<1> DEFINE u == s \o ids
           n == Len(s)
           k == Len(ids)
<1>1. /\ u \in Seq(Block) /\ n \in Nat /\ Len(u) = n + k
      /\ \A i \in 1 .. n : u[i] = s[i] /\ s[i] \in Block
      /\ \A i \in 1 .. k : u[n + i] = ids[i]
  <2> HIDE DEF u, n, k
  <2>1. QED
    BY ConcatIndex DEF u, n, k
<1>2. DOMAIN s = 1 .. n /\ DOMAIN ids = 1 .. k /\ k = 1
  OBVIOUS
<1> HIDE DEF u, n, k
<1>3. QED
  BY <1>1, <1>2 DEF u, n
\* A table that one decode block was added to.
LEMMA ExtendedTableIsValid ==
  ASSUME NEW e \in Manager, Valid(e), NEW r \in Live(e),
         NEW ids \in Seq(Block), Len(ids) = 1, IsInjective(ids), Range(ids) \subseteq e.free,
         NEW c, c.prov = e.prov, c.tables[r] = e.tables[r] \o ids, c.index = e.index,
         \A i \in DOMAIN ids : c.blocks[ids[i]].prov = "PrivateDecode",
         \A b \in Block \ Range(ids) : c.blocks[b] = e.blocks[b]
  PROVE  TableValid(c, r) /\ KeysValid(c, r)
<1> DEFINE q == e.prov[r]
           t == e.tables[r]
           u == t \o ids
           n == Len(t)
           full == Len(q.chunks)
<1>1. t \in Seq(Block) /\ q \in RequestProvenance /\ TableValid(e, r) /\ KeysValid(e, r)
      /\ c.prov[r] = q /\ c.tables[r] = u
  BY DEF Manager, Valid, Live
<1> HIDE DEF q, t
<1>2. /\ u \in Seq(Block) /\ Len(u) = n + 1 /\ DOMAIN u = 1 .. (n + 1) /\ n \in Nat
      /\ DOMAIN t = 1 .. n /\ \A i \in 1 .. n : u[i] = t[i] /\ t[i] \in Block
      /\ u[n + 1] = ids[1] /\ 1 \in DOMAIN ids
  BY <1>1, ConcatOfOne
<1> HIDE DEF u, n
<1>3. \A i \in 1 .. n : t[i] \in Range(t) /\ e.blocks[t[i]].state = "InUse"
  <2>1. ASSUME NEW i \in 1 .. n
        PROVE  t[i] \in Range(t)
    BY <1>2 DEF Range
  <2>2. QED
    BY <2>1, HeldBlocksAreInUse DEF t
<1>4. Range(t) \cap Range(ids) = {}
  <2>1. \A b \in Range(ids) : b \in Block /\ e.blocks[b].state = "Free"
    <3>1. Range(ids) \subseteq Block
      BY DEF Manager
    <3>2. QED
      BY <3>1, BlockFacts
  <2>2. \A b \in Range(t) : e.blocks[b].state = "InUse"
    BY HeldBlocksAreInUse DEF t
  <2>3. QED
    BY <2>1, <2>2
<1>5. \A i \in 1 .. n : c.blocks[u[i]] = e.blocks[t[i]]
  BY <1>2, <1>3, <1>4
<1>6. /\ Range(t) \subseteq Block /\ IsInjective(t) /\ PromptBlocks(q) <= n
      /\ q.matched <= full /\ (q.published => q.matched < full)
      /\ IF q.exact THEN PrefixEnabled /\ full = q.total \div BlockSize
                    ELSE full = 0 /\ ~q.published
  BY <1>1 DEF TableValid, q, t, n
<1>7. \A i \in 1 .. n :
         IF i <= full THEN e.blocks[t[i]].prov \in FullProvenance
         ELSE IF i <= PromptBlocks(q)
         THEN /\ e.blocks[t[i]].prov = IF q.exact THEN "PrivatePromptTail"
                                             ELSE "PrivatePromptCountOnly"
              /\ e.blocks[t[i]].valid >= TokensAt(q.total, i)
         ELSE e.blocks[t[i]].prov = "PrivateDecode"
  BY <1>1, <1>2 DEF TableValid, q, t
<1>8. q.total \in Nat /\ full \in Nat /\ q.chunks \in Seq(Chunks)
  BY <1>1 DEF RequestProvenance
<1>9. PromptBlocks(q) \in Nat /\ full <= n
  <2>1. PromptBlocks(q) \in Nat
    BY <1>8, BlocksSuffice DEF PromptBlocks
  <2>2. full = 0 \/ full \in 1 .. full
    BY <1>8
  <2>3. full \in 1 .. full => full \in 1 .. n
    BY <1>2, PromptBlocksAreHeld DEF q, t
  <2>4. QED
    BY <1>2, <2>1, <2>2, <2>3
<1> HIDE DEF full
<1>10. ASSUME NEW i \in DOMAIN u
       PROVE  IF i <= full THEN c.blocks[u[i]].prov \in FullProvenance
              ELSE IF i <= PromptBlocks(q)
              THEN /\ c.blocks[u[i]].prov = IF q.exact THEN "PrivatePromptTail"
                                                  ELSE "PrivatePromptCountOnly"
                   /\ c.blocks[u[i]].valid >= TokensAt(q.total, i)
              ELSE c.blocks[u[i]].prov = "PrivateDecode"
  <2>1. i \in 1 .. n \/ i = n + 1
    BY <1>2
  <2>2. CASE i \in 1 .. n
    BY <1>5, <1>7, <2>2
  <2>3. CASE i = n + 1
    <3>1. ~(i <= full) /\ ~(i <= PromptBlocks(q))
      BY <1>2, <1>6, <1>8, <1>9, <2>3
    <3>2. QED
      BY <1>2, <2>3, <3>1
  <2>4. QED
    BY <2>1, <2>2, <2>3
<1>11. TableValid(c, r)
  <2>1. Range(u) \subseteq Block
    BY <1>2 DEF Range
  <2>2. IsInjective(u)
    BY <1>1, <1>4, <1>6, ConcatIsInjective DEF u
  <2>3. PromptBlocks(q) <= Len(u)
    BY <1>2, <1>6, <1>9
  <2>4. QED
    BY <1>1, <1>6, <1>10, <2>1, <2>2, <2>3 DEF TableValid, full
<1>12. \A key \in Key : Matches(c, key) = Matches(e, key)
  <2>1. ASSUME NEW key \in Key
        PROVE  Matches(c, key) = Matches(e, key)
    <3>1. HashOf(key) \in HashValues
      BY HashType
    <3>2. \A b \in e.index[HashOf(key)] : c.blocks[b] = e.blocks[b]
      BY <3>1, IndexedBlocks
    <3>3. QED
      BY <3>2 DEF Matches
  <2>2. QED
    BY <2>1
<1>13. KeysValid(c, r)
  <2>1. ASSUME NEW i \in 1 .. full
        PROVE  LET expected == KeyAt(q.chunks, i)
                   key == c.blocks[u[i]].key
               IN  /\ key \in {None, expected}
                   /\ i <= q.matched => key # None
                   /\ i > q.matched /\ ~q.published => key = None
                   /\ i > q.matched /\ q.published /\ key = None
                        => Matches(c, expected) # {}
    <3>1. LET expected == KeyAt(q.chunks, i)
              key == e.blocks[t[i]].key
          IN  /\ key \in {None, expected}
              /\ i <= q.matched => key # None
              /\ i > q.matched /\ ~q.published => key = None
              /\ i > q.matched /\ q.published /\ key = None
                   => Matches(e, expected) # {}
      BY <1>1 DEF KeysValid, q, t, full
    <3>2. i \in 1 .. n
      BY <1>2, <1>8, <1>9
    <3>3. c.blocks[u[i]] = e.blocks[t[i]]
      BY <1>5, <3>2
    <3>4. KeyAt(q.chunks, i) \in Key
      BY <1>8, KeyType DEF full
    <3>5. Matches(c, KeyAt(q.chunks, i)) = Matches(e, KeyAt(q.chunks, i))
      BY <1>12, <3>4
    <3>6. QED
      BY <3>1, <3>3, <3>5
  <2>2. QED
    BY <1>1, <2>1 DEF KeysValid, full
<1>14. QED
  BY <1>11, <1>13

\* A decode step is never an internal error when no duplicate is at stake.
LEMMA AppendDecodeTokenIsValid ==
  ASSUME NEW m \in Manager, Valid(m), IsFiniteSet(Live(m)), NoDuplicates(m), NEW r \in Live(m)
  PROVE  AppendDecodeToken(m, r).outcome \in {"ok", "capacity", "overflow"}
<1> DEFINE new == DecodeRequiresNewBlock(m, r)
           required == IF new THEN 1 ELSE 0
           short == Shortage(m, required)
           E == LeastRecentlyUsed(m, Cached(m), short)
           ids == Ascending(Lowest(m.free \cup E, 1))
           last == Last(m.tables[r])
           provenance == [i \in DOMAIN ids |-> "PrivateDecode"]
           e == EvictBlocks(m, E)
           c == ClaimBlocks(e, r, ids, 1, provenance)
           appended == [m EXCEPT !.blocks[last].valid = @ + 1,
                                 !.blocks[last].epoch = m.epoch + 1,
                                 !.represented = @ + 1,
                                 !.epoch = @ + 1]
           reply == AppendDecodeToken(m, r)
<1>1. CASE m.epoch = EpochLimit \/ short > Cardinality(Cached(m))
  BY <1>1, OutcomeOfRefusal DEF AppendDecodeToken
<1>2. r \in Requests /\ m.prov[r] # None /\ Draft(m)
  BY ManagerIsDraft DEF Live
<1>3. CASE m.epoch # EpochLimit /\ ~(short > Cardinality(Cached(m))) /\ new
  <2>1. reply = Commit(m, c)
    BY <1>3 DEF AppendDecodeToken
  <2>2. required = 1
    BY <1>3
  <2> HIDE DEF new, required
  <2>3. Cached(m) \in SUBSET Block /\ Cached(m) \cap m.free = {}
    BY BlockFacts DEF Cached
  <2>4. ids = Ascending(Lowest(m.free \cup E, required))
    BY <2>2
  <2> HIDE DEF ids
  <2>5. /\ E \in SUBSET Cached(m)
        /\ ids \in Seq(Block) /\ Len(ids) = 1 /\ IsInjective(ids)
        /\ Range(ids) \subseteq m.free \cup E
    <3>1. required \in Nat
      BY <2>2
    <3>2. /\ E \in SUBSET Cached(m)
          /\ ids \in Seq(Block) /\ Len(ids) = required /\ IsInjective(ids)
          /\ Range(ids) \subseteq m.free \cup E
      BY <1>3, <2>3, <2>4, <3>1, ChoiceSuffices
    <3>3. QED
      BY <2>2, <3>2
  <2> HIDE DEF E
  <2>6. /\ \A b \in E : ~DuplicateHolder(m, b)
        /\ E \in SUBSET Block
    BY <2>3, <2>5 DEF NoDuplicates
  <2>7. /\ e \in Manager /\ Valid(e) /\ Live(e) = Live(m)
    BY <2>5, <2>6, EvictionIsValid
  <2>8. e.free = m.free \cup E /\ e.epoch = m.epoch
    <3>1. Draft(m) /\ E \in SUBSET Block
      BY <1>2, <2>6
    <3>2. /\ e.blocks = [b \in Block |-> IF b \in E THEN FreeBlock ELSE m.blocks[b]]
          /\ e.free = m.free \cup E
          /\ e.index = [h \in HashValues |-> m.index[h] \ E]
          /\ e.tables = m.tables /\ e.prov = m.prov /\ e.epoch = m.epoch
          /\ e.represented = m.represented - TokensIn(m, E)
      BY <3>1, EvictFields
    <3>3. QED
      BY <3>2
  <2>9. Draft(e)
    BY <2>7, ManagerIsDraft
  <2> HIDE DEF e
  <2>10. Claimed(e, c, r, ids, 1, provenance)
    <3>1. c = ClaimBlocks(e, r, ids, 1, provenance)
      OBVIOUS
    <3> HIDE DEF c, provenance
    <3>2. QED
      BY <1>2, <2>5, <2>9, <3>1, ClaimFields
  <2>11. \A i \in DOMAIN ids : provenance[i] = "PrivateDecode"
    OBVIOUS
  <2> HIDE DEF c, provenance, reply
  <2>12. /\ e.epoch \in Nat /\ e.tables \in [Requests -> Seq(Block)] /\ e.prov[r] # None
         /\ r \in Live(e) /\ DOMAIN e.prov = Requests
    BY <2>7, KVAssumption DEF Manager, Live
  <2>13. c.epoch = e.epoch + 1
    <3>1. ids # <<>>
      BY ONLY <2>5
    <3>2. QED
      BY <2>10, <3>1 DEF Claimed
  <2>14. \A i \in DOMAIN ids : LET d == c.blocks[ids[i]] IN
           /\ d.state = "InUse" /\ d.owner = r /\ d.refs = 1 /\ d.key = None
           /\ d.valid = TokensAt(1, i) /\ d.epoch \in 1 .. c.epoch /\ d.prov # None
           /\ d.prov = "PrivateDecode"
           /\ d.prov \in FullProvenance => d.valid = BlockSize
    <3>1. "PrivateDecode" # None /\ "PrivateDecode" \notin FullProvenance
      BY NoneAssumption DEF BlockProvenance, FullProvenance
    <3>2. e.epoch + 1 \in 1 .. c.epoch
      BY <2>12, <2>13
    <3>3. QED
      BY <2>10, <2>11, <3>1, <3>2 DEF Claimed
  <2>15. /\ c.tables[r] = e.tables[r] \o ids /\ c.prov = e.prov /\ c.index = e.index
         /\ \A s \in Requests \ {r} : c.tables[s] = e.tables[s]
         /\ c.free = e.free \ Range(ids) /\ c.represented = e.represented + 1
         /\ \A b \in Block \ Range(ids) : c.blocks[b] = e.blocks[b]
    BY <1>2, <2>10, <2>12 DEF Claimed
  <2>16. Range(ids) \subseteq e.free
    BY <2>5, <2>8
  <2>17. TableValid(c, r) /\ KeysValid(c, r)
    <3>1. \A i \in DOMAIN ids : c.blocks[ids[i]].prov = "PrivateDecode"
      BY <2>14
    <3>2. QED
      BY <2>5, <2>7, <2>12, <2>15, <2>16, <3>1, ExtendedTableIsValid
  <2>18. Range(<<>>) = {} /\ <<>> \in Seq(Block) /\ <<>> \o ids = ids
    BY <2>5 DEF Range
  <2>19. Joins(e, c, r, <<>>, ids, 1)
    <3>1. /\ c.epoch \in Nat /\ c.epoch >= e.epoch
      BY <2>12, <2>13
    <3>2. c.tables[r] = e.tables[r] \o (<<>> \o ids)
      BY <2>15, <2>18
    <3>3. QED
      BY <2>12, <2>14, <2>15, <2>18, <3>1, <3>2 DEF Joins
  <2>20. Valid(c) /\ c.represented \in Nat
    <3>1. Len(ids) = BlocksRequired(1) /\ \A b \in Range(<<>>) : e.blocks[b].key # None
      BY <2>5, <2>18, OneBlock
    <3>2. IsFiniteSet(Live(e))
      BY <2>7
    <3>3. QED
      BY <1>2, <2>5, <2>7, <2>16, <2>17, <2>18, <2>19, <3>1, <3>2, JoinIsValid
  <2>21. Commit(m, c).outcome = "ok"
    BY <2>20, OutcomeOfRefusal
  <2>22. QED
    BY <2>1, <2>21 DEF reply
<1>4. CASE m.epoch # EpochLimit /\ ~(short > Cardinality(Cached(m))) /\ ~new
  <2>1. reply = Commit(m, appended)
    BY <1>4 DEF AppendDecodeToken
  <2>2. /\ m.tables[r] # <<>> /\ m.blocks[last].key = None /\ m.blocks[last].valid # BlockSize
    BY <1>4 DEF DecodeRequiresNewBlock
  <2>3. last \in Range(m.tables[r])
    <3>1. m.tables[r] \in Seq(Block)
      BY <1>2 DEF Manager
    <3>2. Len(m.tables[r]) \in DOMAIN m.tables[r]
      BY <2>2, <3>1
    <3>3. last = m.tables[r][Len(m.tables[r])]
      BY DEF Last
    <3> HIDE DEF last
    <3>4. QED
      BY <3>2, <3>3 DEF Range
  <2> HIDE DEF last
  <2>4. last \in Block /\ m.blocks[last].state = "InUse"
    BY <2>3, HeldBlocksAreInUse
  <2>5. /\ appended.free = m.free /\ appended.tables = m.tables
        /\ appended.prov = m.prov /\ appended.index = m.index
        /\ appended.epoch = m.epoch + 1 /\ appended.represented = m.represented + 1
        /\ \A b \in Block \ {last} : appended.blocks[b] = m.blocks[b]
        /\ appended.blocks[last] = [m.blocks[last] EXCEPT !.valid = @ + 1, !.epoch = m.epoch + 1]
    BY <2>4 DEF Manager
  <2>6. m.blocks[last] \in BlockMetadata
    BY <2>4, BlockFacts
  <2> HIDE DEF appended
  <2>7. LET d == m.blocks[last]
            a == appended.blocks[last]
        IN  /\ a.state = d.state /\ a.owner = d.owner /\ a.refs = d.refs /\ a.key = d.key
            /\ a.prov = d.prov /\ a.valid = d.valid + 1 /\ a.epoch = m.epoch + 1
    <3>1. \A d \in BlockMetadata :
            LET a == [d EXCEPT !.valid = @ + 1, !.epoch = m.epoch + 1]
            IN  /\ a.state = d.state /\ a.owner = d.owner /\ a.refs = d.refs /\ a.key = d.key
                /\ a.prov = d.prov /\ a.valid = d.valid + 1 /\ a.epoch = m.epoch + 1
      BY DEF BlockMetadata
    <3>2. QED
      BY <2>5, <2>6, <3>1
  <2>8. Valid(appended) /\ appended.represented \in Nat
    BY <2>2, <2>4, <2>5, <2>7, TokenInPlaceIsValid
  <2>9. Commit(m, appended).outcome = "ok"
    BY <2>8, OutcomeOfRefusal
  <2> HIDE DEF reply
  <2>10. QED
    BY <2>1, <2>9 DEF reply
<1>5. QED
  BY <1>1, <1>3, <1>4

-----------------------------------------------------------------------------
(* How release_request ends *)

\* c is m after r handed back its blocks, the `freed` ones to the free list.
Releases(m, c, r, freed) ==
  /\ c.prov[r] = None /\ c.tables[r] = <<>>
  /\ \A s \in Requests \ {r} : c.prov[s] = m.prov[s] /\ c.tables[s] = m.tables[s]
  /\ c.index = m.index /\ c.epoch = m.epoch /\ c.free = m.free \cup freed
  /\ c.represented = m.represented - TokensIn(m, freed)
  /\ \A b \in freed : c.blocks[b] = FreeBlock
  /\ \A b \in Block \ Range(m.tables[r]) : c.blocks[b] = m.blocks[b]
  /\ \A b \in Range(m.tables[r]) \ freed :
       LET d == m.blocks[b]
           a == c.blocks[b]
       IN  /\ a.state = IF d.refs = 1 THEN "Cached" ELSE "InUse"
           /\ a.owner = None /\ a.refs = d.refs - 1 /\ a.key = d.key
           /\ a.valid = d.valid /\ a.epoch = d.epoch /\ a.prov = d.prov

LEMMA ReleaseIsValid ==
  ASSUME NEW m \in Manager, Valid(m), IsFiniteSet(Live(m)), NEW r \in Live(m),
         NEW freed, freed = {b \in Range(m.tables[r]) : m.blocks[b].refs = 1 /\ m.blocks[b].key = None},
         NEW c, Releases(m, c, r, freed)
  PROVE  Valid(c) /\ c.represented \in Nat
<1> DEFINE held == Range(m.tables[r])
<1>1. Live(c) = Live(m) \ {r} /\ r \in Requests
  BY DEF Live, Releases
<1>2. \A b \in held : b \in Block /\ m.blocks[b].state = "InUse" /\ r \in Holders(m, b)
  BY HeldBlocksAreInUse DEF Holders
<1>3. held \in SUBSET Block /\ freed \in SUBSET held /\ freed \in SUBSET Block
  BY <1>2
<1>4. ASSUME NEW b \in Block
      PROVE  Holders(c, b) = Holders(m, b) \ {r}
  <2>1. Holders(m, b) \in SUBSET Requests /\ Holders(c, b) \in SUBSET Requests
    BY DEF Holders, Live
  <2>2. \A s \in Requests \ {r} : s \in Holders(c, b) <=> s \in Holders(m, b)
    BY <1>1 DEF Releases, Holders
  <2>3. r \notin Holders(c, b)
    BY <1>1 DEF Holders
  <2>4. QED
    BY <2>1, <2>2, <2>3
<1>5. ASSUME NEW b \in held
      PROVE  /\ BlockValid(m, b) /\ b \notin m.free /\ m.blocks[b] \in BlockMetadata
             /\ m.blocks[b].refs \in Nat /\ m.blocks[b].refs > 0
             /\ m.blocks[b].refs = Cardinality(Holders(m, b))
             /\ b \in freed => Holders(m, b) = {r}
             /\ b \notin freed => m.blocks[b].key # None
             /\ Cardinality(Holders(c, b)) = m.blocks[b].refs - 1
             /\ m.blocks[b].refs = 1 => Holders(c, b) = {}
  <2>1. b \in Block /\ m.blocks[b].state = "InUse" /\ r \in Holders(m, b)
    BY <1>2
  <2>2. BlockValid(m, b) /\ b \notin m.free /\ m.blocks[b] \in BlockMetadata
    BY <2>1, BlockFacts
  <2>3. /\ m.blocks[b].refs > 0 /\ m.blocks[b].refs = Cardinality(Holders(m, b))
        /\ m.blocks[b].key = None => Holders(m, b) = {m.blocks[b].owner}
    BY <2>1, <2>2 DEF BlockValid
  <2>4. m.blocks[b].refs \in Nat
    BY <2>2 DEF BlockMetadata
  <2>5. m.blocks[b].key = None => Holders(m, b) = {r} /\ m.blocks[b].refs = 1
    <3>1. Cardinality({r}) = 1
      BY FS_Singleton
    <3>2. QED
      BY <2>1, <2>3, <3>1
  <2>6. IsFiniteSet(Holders(m, b)) /\ IsFiniteSet(Holders(c, b))
    BY <1>4, <2>1, HoldersAreFinite, FS_Subset
  <2>7. Cardinality(Holders(c, b)) = m.blocks[b].refs - 1
    BY <1>4, <2>1, <2>3, <2>6, FS_RemoveElement
  <2>8. m.blocks[b].refs = 1 => Holders(c, b) = {}
    BY <2>6, <2>7, FS_EmptySet
  <2>9. QED
    BY <2>2, <2>3, <2>4, <2>5, <2>7, <2>8
<1> HIDE DEF held
<1>6. ASSUME NEW b \in Block
      PROVE  /\ b \in freed => c.blocks[b] = FreeBlock
             /\ b \notin held => c.blocks[b] = m.blocks[b]
             /\ b \in held /\ b \notin freed =>
                  /\ c.blocks[b].state = IF m.blocks[b].refs = 1 THEN "Cached" ELSE "InUse"
                  /\ c.blocks[b].owner = None /\ c.blocks[b].refs = m.blocks[b].refs - 1
                  /\ c.blocks[b].key = m.blocks[b].key /\ c.blocks[b].valid = m.blocks[b].valid
                  /\ c.blocks[b].epoch = m.blocks[b].epoch /\ c.blocks[b].prov = m.blocks[b].prov
  BY DEF Releases, held
<1>7. \A b \in Block : c.blocks[b].key = m.blocks[b].key
  <2>1. FreeBlock.key = None /\ \A b \in freed : m.blocks[b].key = None
    BY DEF FreeBlock
  <2>2. QED
    BY <1>6, <2>1
<1>8. \A key \in Key : Matches(c, key) = Matches(m, key)
  <2>1. c.index = m.index
    BY DEF Releases
  <2>2. ASSUME NEW key \in Key
        PROVE  Matches(c, key) = Matches(m, key)
    <3>1. m.index[HashOf(key)] \in SUBSET Block
      BY HashType DEF Manager
    <3>2. QED
      BY <1>7, <2>1, <3>1 DEF Matches
  <2>3. QED
    BY <2>2
<1>9. ASSUME NEW s \in Live(m), s # r
      PROVE  TableValid(c, s) /\ KeysValid(c, s)
  <2>1. /\ TableValid(m, s) /\ KeysValid(m, s) /\ s \in Requests
        /\ m.tables[s] \in Seq(Block) /\ m.prov[s] \in RequestProvenance
    BY DEF Valid, Live, Manager
  <2>2. c.prov[s] = m.prov[s] /\ c.tables[s] = m.tables[s]
    BY <1>9, <2>1 DEF Releases
  <2>3. ASSUME NEW i \in DOMAIN m.tables[s]
        PROVE  /\ m.tables[s][i] \in Block
               /\ LET d == m.blocks[m.tables[s][i]]
                      a == c.blocks[m.tables[s][i]]
                  IN  a.prov = d.prov /\ a.valid \in Nat /\ a.valid >= d.valid
    <3> DEFINE b == m.tables[s][i]
    <3>1. b \in Range(m.tables[s]) /\ b \in Block
      BY <2>1 DEF Range
    <3>2. s \in Holders(m, b) /\ m.blocks[b].valid \in Nat
      BY <3>1, BlockFacts DEF Holders
    <3> HIDE DEF b
    <3>3. b \notin freed
      BY <1>3, <1>5, <1>9, <3>2
    <3>4. c.blocks[b].prov = m.blocks[b].prov /\ c.blocks[b].valid = m.blocks[b].valid
      BY <1>6, <3>1, <3>3
    <3>5. QED
      BY <3>1, <3>2, <3>4 DEF b
  <2>4. TableValid(c, s)
    BY <2>1, <2>2, <2>3, TableValidDepends
  <2>5. m.prov[s].chunks \in Seq(Chunks)
    BY <2>1 DEF RequestProvenance
  <2>6. ASSUME NEW i \in 1 .. Len(m.prov[s].chunks)
        PROVE  /\ c.blocks[m.tables[s][i]].key = m.blocks[m.tables[s][i]].key
               /\ Matches(c, KeyAt(m.prov[s].chunks, i)) = Matches(m, KeyAt(m.prov[s].chunks, i))
    <3>1. i \in DOMAIN m.tables[s]
      BY PromptBlocksAreHeld
    <3>2. KeyAt(m.prov[s].chunks, i) \in Key
      BY <2>5, KeyType
    <3>3. QED
      BY <1>7, <1>8, <2>3, <3>1, <3>2
  <2>7. KeysValid(c, s)
    BY <2>1, <2>2, <2>6, KeysValidDepends
  <2>8. QED
    BY <2>4, <2>7
<1>10. \A s \in Requests : IF s \in Live(c) THEN TableValid(c, s) /\ KeysValid(c, s)
                                            ELSE c.tables[s] = <<>>
  <2>1. \A s \in Requests \ Live(m) : m.tables[s] = <<>> /\ s # r
    BY DEF Valid
  <2>2. QED
    BY <1>1, <1>9, <2>1 DEF Releases
<1>11. ASSUME NEW b \in Block
       PROVE  BlockValid(c, b)
  <2>1. /\ BlockValid(m, b) /\ c.index = m.index /\ c.epoch = m.epoch
        /\ c.free = m.free \cup freed /\ Holders(c, b) = Holders(m, b) \ {r}
    BY <1>4, BlockFacts DEF Releases
  <2>2. CASE b \in freed
    <3>1. c.blocks[b] = FreeBlock /\ FreeBlock.state = "Free"
      BY <1>6, <2>2 DEF FreeBlock
    <3>2. Holders(c, b) = {} /\ b \in c.free
      BY <1>3, <1>5, <2>1, <2>2
    <3>3. QED
      BY <3>1, <3>2 DEF BlockValid
  <2>3. CASE b \in held /\ b \notin freed
    <3> DEFINE d == m.blocks[b]
               a == c.blocks[b]
    <3>1. /\ a.state = IF d.refs = 1 THEN "Cached" ELSE "InUse"
          /\ a.owner = None /\ a.refs = d.refs - 1 /\ a.key = d.key
          /\ a.valid = d.valid /\ a.epoch = d.epoch /\ a.prov = d.prov
      BY <1>6, <2>3
    <3>2. /\ d.state = "InUse" /\ b \notin c.free /\ d.key # None
          /\ d.refs \in Nat /\ d.refs > 0 /\ Cardinality(Holders(c, b)) = d.refs - 1
          /\ d.refs = 1 => Holders(c, b) = {}
      BY <1>2, <1>5, <2>1, <2>3 DEF held
    <3>3. /\ d.valid \in 1 .. BlockSize /\ d.epoch \in 1 .. m.epoch /\ d.prov # None
          /\ d.prov \in FullProvenance => d.valid = BlockSize
          /\ d.prov \notin FullProvenance => d.key = None
          /\ b \in m.index[HashOf(d.key)]
      BY <2>1, <3>2 DEF BlockValid
    <3> HIDE DEF a, d
    <3>4. CASE d.refs = 1
      <4>1. a.state = "Cached" /\ a.refs = 0 /\ Holders(c, b) = {}
        BY <3>1, <3>2, <3>4
      <4>2. QED
        BY <2>1, <3>1, <3>2, <3>3, <4>1 DEF BlockValid, a
    <3>5. CASE d.refs # 1
      <4>1. a.state = "InUse" /\ a.refs > 0 /\ a.refs = Cardinality(Holders(c, b))
        BY <3>1, <3>2, <3>5
      <4>2. QED
        BY <2>1, <3>1, <3>2, <3>3, <4>1 DEF BlockValid, a
    <3>6. QED
      BY <3>4, <3>5
  <2>4. CASE b \notin held
    <3>1. r \notin Holders(m, b)
      BY <2>4 DEF Holders, held
    <3>2. Holders(c, b) = Holders(m, b)
      BY <2>1, <3>1
    <3>3. c.blocks[b] = m.blocks[b] /\ b \notin freed
      BY <1>3, <1>6, <2>4
    <3>4. QED
      BY <2>1, <3>2, <3>3 DEF BlockValid
  <2>5. QED
    BY <2>2, <2>3, <2>4
<1>12. IndexValid(c)
  <2>1. /\ IndexValid(m) /\ DOMAIN m.index = HashValues /\ c.index = m.index
        /\ \A h \in HashValues : m.index[h] \in SUBSET Block
    BY DEF Valid, Manager, Releases
  <2>2. \A b \in UNION Range(m.index) : b \in Block
    BY <2>1 DEF Range
  <2>3. QED
    BY <1>7, <2>1, <2>2 DEF IndexValid
<1>13. c.represented = TokensIn(c, Block) /\ c.represented \in Nat
  <2> DEFINE rest == Block \ freed
  <2>1. rest \in SUBSET Block /\ rest \cap freed = {} /\ rest \cup freed = Block
    BY <1>3
  <2>2. FreeBlock.valid = 0
    BY DEF FreeBlock
  <2>3. \A b \in rest : c.blocks[b].valid = m.blocks[b].valid
    BY <1>6
  <2>4. \A b \in freed : c.blocks[b].valid = 0
    BY <1>3, <1>6, <2>2
  <2>5. \A b \in Block : m.blocks[b].valid \in Nat /\ c.blocks[b].valid \in Nat
    <3>1. \A b \in Block : m.blocks[b].valid \in Nat
      BY BlockFacts
    <3>2. QED
      BY <2>3, <2>4, <3>1
  <2> HIDE DEF rest
  <2>6. TokensAreInt(m) /\ TokensAreInt(c)
    BY <2>5 DEF TokensAreInt
  <2>7. /\ TokensIn(m, rest) \in Int /\ TokensIn(m, freed) \in Int
        /\ TokensIn(m, Block) = TokensIn(m, rest) + TokensIn(m, freed)
    BY <1>3, <2>1, <2>6, TokensSplit
  <2>8. TokensIn(c, Block) = TokensIn(c, rest) + TokensIn(c, freed)
    BY <1>3, <2>1, <2>6, TokensSplit
  <2>9. TokensIn(c, rest) = TokensIn(m, rest) /\ TokensIn(c, freed) = 0
    BY <1>3, <2>1, <2>3, <2>4, TokensAgree, NoTokens
  <2>10. m.represented = TokensIn(m, Block) /\ c.represented = m.represented - TokensIn(m, freed)
    BY DEF Valid, Releases
  <2>11. TokensIn(c, Block) \in Nat
    BY <2>5, TokensAreNatural
  <2>12. QED
    BY <2>7, <2>8, <2>9, <2>10, <2>11
<1>14. QED
  BY <1>10, <1>11, <1>12, <1>13 DEF Valid

\* Releasing a request is never an internal error.
LEMMA ReleaseRequestIsValid ==
  ASSUME NEW m \in Manager, Valid(m), IsFiniteSet(Live(m)), NEW r \in Live(m)
  PROVE  ReleaseRequest(m, r).outcome = "ok"
<1> DEFINE held == Range(m.tables[r])
           freed == {b \in held : m.blocks[b].refs = 1 /\ m.blocks[b].key = None}
           released(d) ==
             [d EXCEPT !.state = IF d.refs = 1 THEN "Cached" ELSE "InUse",
                       !.owner = None, !.refs = @ - 1]
           blocks == [b \in Block |-> IF b \in freed THEN FreeBlock
                                      ELSE IF b \in held THEN released(m.blocks[b])
                                      ELSE m.blocks[b]]
           c == [m EXCEPT !.blocks = blocks,
                          !.free   = @ \cup freed,
                          !.tables[r] = <<>>,
                          !.prov[r] = None,
                          !.represented = @ - TokensIn(m, freed)]
<1>1. ReleaseRequest(m, r) = Commit(m, c)
  BY DEF ReleaseRequest
<1>2. r \in Requests /\ held \in SUBSET Block /\ freed \in SUBSET held
  BY HeldBlocksAreInUse DEF Live
<1>3. \A d \in BlockMetadata :
        LET a == released(d)
        IN  /\ a.state = IF d.refs = 1 THEN "Cached" ELSE "InUse"
            /\ a.owner = None /\ a.refs = d.refs - 1 /\ a.key = d.key
            /\ a.valid = d.valid /\ a.epoch = d.epoch /\ a.prov = d.prov
  BY DEF BlockMetadata
<1>4. \A b \in Block : m.blocks[b] \in BlockMetadata
  BY BlockFacts
<1> HIDE DEF released
<1>5. /\ \A b \in freed : blocks[b] = FreeBlock
      /\ \A b \in Block \ held : blocks[b] = m.blocks[b]
      /\ \A b \in held \ freed : blocks[b] = released(m.blocks[b])
  BY <1>2
<1> HIDE DEF blocks
<1>6. /\ c.blocks = blocks /\ c.free = m.free \cup freed /\ c.index = m.index
      /\ c.epoch = m.epoch /\ c.represented = m.represented - TokensIn(m, freed)
      /\ c.tables[r] = <<>> /\ c.prov[r] = None
      /\ \A s \in Requests \ {r} : c.prov[s] = m.prov[s] /\ c.tables[s] = m.tables[s]
  <2> HIDE DEF freed
  <2>1. QED
    BY <1>2 DEF Manager
<1> HIDE DEF c
<1>7. Releases(m, c, r, freed)
  <2>1. ASSUME NEW b \in held \ freed
        PROVE  LET d == m.blocks[b]
                   a == c.blocks[b]
               IN  /\ a.state = IF d.refs = 1 THEN "Cached" ELSE "InUse"
                   /\ a.owner = None /\ a.refs = d.refs - 1 /\ a.key = d.key
                   /\ a.valid = d.valid /\ a.epoch = d.epoch /\ a.prov = d.prov
    <3>1. c.blocks[b] = released(m.blocks[b]) /\ m.blocks[b] \in BlockMetadata
      BY <1>2, <1>4, <1>5, <1>6
    <3>2. QED
      BY <1>3, <3>1
  <2> HIDE DEF freed
  <2>2. QED
    BY <1>5, <1>6, <2>1 DEF Releases
<1>8. Valid(c) /\ c.represented \in Nat
  BY <1>7, ReleaseIsValid
<1>9. QED
  BY <1>1, <1>8, OutcomeOfRefusal

-----------------------------------------------------------------------------
(* Publication *)

LEMMA LeastExists ==
  ASSUME NEW S \in SUBSET Nat, NEW s \in S
  PROVE  \E x \in S : \A y \in S : x <= y
<1> DEFINE N == {n \in Nat : \A k \in 0 .. n : k \notin S}
<1>1. SUFFICES ASSUME \A x \in S : \E y \in S : y < x
               PROVE  FALSE
  OBVIOUS
<1>2. 0 \in N
  BY <1>1
<1>3. ASSUME NEW n \in Nat, n \in N
      PROVE  n + 1 \in N
  <2>1. ASSUME n + 1 \in S PROVE FALSE
    <3>1. PICK y \in S : y < n + 1
      BY <1>1, <2>1
    <3>2. y \in 0 .. n
      BY <3>1
    <3>3. QED
      BY <1>3, <3>2
  <2>2. \A k \in 0 .. n + 1 : k \in 0 .. n \/ k = n + 1
    OBVIOUS
  <2>3. QED
    BY <1>3, <2>1, <2>2
<1>4. Nat \subseteq N
  <2> HIDE DEF N
  <2>1. QED
    BY <1>2, <1>3, NatSetInduction
<1>5. s \in N /\ s \in 0 .. s
  BY <1>4
<1>6. QED
  BY <1>5

\* The positions whose keys a publication adds to the index.
Fresh(m, r) ==
  LET q == m.prov[r]
      computed == (q.matched + 1) .. Len(q.chunks)
  IN  {i \in computed : /\ Matches(m, KeyAt(q.chunks, i)) = {}
                        /\ \A j \in computed : KeyAt(q.chunks, j) = KeyAt(q.chunks, i) => i <= j}

\* c is m after r published the blocks at its fresh positions.
Publishes(m, c, r) ==
  LET q == m.prov[r]
      t == m.tables[r]
      key(i) == KeyAt(q.chunks, i)
  IN
  /\ c.free = m.free /\ c.tables = m.tables /\ c.represented = m.represented
  /\ c.epoch \in Nat /\ c.epoch >= m.epoch
  /\ \A s \in Requests \ {r} : c.prov[s] = m.prov[s]
  /\ c.prov[r] = [q EXCEPT !.published = TRUE]
  /\ \A h \in HashValues :
       c.index[h] = m.index[h] \cup {b \in Block : \E i \in Fresh(m, r) :
                                                     t[i] = b /\ HashOf(key(i)) = h}
  /\ DOMAIN c.index = HashValues
  /\ \A i \in Fresh(m, r) :
       LET d == m.blocks[t[i]]
           a == c.blocks[t[i]]
       IN  /\ a.key = key(i) /\ a.owner = None /\ a.epoch \in 1 .. c.epoch
           /\ a.state = d.state /\ a.refs = d.refs /\ a.valid = d.valid /\ a.prov = d.prov
  /\ \A b \in Block : (\A i \in Fresh(m, r) : t[i] # b) => c.blocks[b] = m.blocks[b]

LEMMA PublicationIsValid ==
  ASSUME NEW m \in Manager, Valid(m), NEW r \in Live(m),
         m.prov[r].exact, ~m.prov[r].published, m.prov[r].matched < Len(m.prov[r].chunks),
         NEW c, Publishes(m, c, r)
  PROVE  Valid(c) /\ c.represented \in Nat
<1> DEFINE q == m.prov[r]
           t == m.tables[r]
           key(i) == KeyAt(q.chunks, i)
           full == Len(q.chunks)
           computed == (q.matched + 1) .. full
           fresh == Fresh(m, r)
<1>1. /\ r \in Requests /\ q \in RequestProvenance /\ t \in Seq(Block)
      /\ TableValid(m, r) /\ KeysValid(m, r)
  BY DEF Live, Manager, Valid
<1>2. q.matched \in Nat /\ full \in Nat /\ q.chunks \in Seq(Chunks)
  BY <1>1 DEF RequestProvenance
<1>3. computed \subseteq 1 .. full /\ \A i \in computed : i > q.matched /\ i \in Nat
  BY <1>2
<1>4. /\ fresh \subseteq computed
      /\ \A i \in computed : i \in fresh <=>
           /\ Matches(m, key(i)) = {}
           /\ \A j \in computed : key(j) = key(i) => i <= j
  BY DEF Fresh
<1>5. \A i \in 1 .. full : key(i) \in Key /\ key(i) # None /\ HashOf(key(i)) \in HashValues
  BY <1>2, KeyType, HashType, NoneAssumption
<1>6. \A i \in 1 .. full : /\ i \in DOMAIN t /\ t[i] \in Range(t) /\ t[i] \in Block
                           /\ m.blocks[t[i]].state = "InUse"
                           /\ m.blocks[t[i]].prov \in FullProvenance
  <2>1. ASSUME NEW i \in 1 .. full
        PROVE  /\ i \in DOMAIN t /\ t[i] \in Range(t) /\ t[i] \in Block
               /\ m.blocks[t[i]].state = "InUse"
    BY PromptBlocksAreHeld
  <2>2. \A i \in DOMAIN t : i <= full => m.blocks[t[i]].prov \in FullProvenance
    BY <1>1 DEF TableValid
  <2>3. QED
    BY <1>2, <2>1, <2>2
<1>7. \A i \in 1 .. full : /\ m.blocks[t[i]].key \in {None, key(i)}
                           /\ i <= q.matched => m.blocks[t[i]].key # None
                           /\ i > q.matched => m.blocks[t[i]].key = None
  BY <1>1 DEF KeysValid
<1>8. \A i, j \in 1 .. full : t[i] = t[j] => i = j
  BY <1>1, <1>6 DEF TableValid, IsInjective
<1>9. /\ c.free = m.free /\ c.tables = m.tables /\ c.represented = m.represented
      /\ c.epoch \in Nat /\ c.epoch >= m.epoch
      /\ \A s \in Requests \ {r} : c.prov[s] = m.prov[s]
      /\ c.prov[r] = [q EXCEPT !.published = TRUE]
  BY DEF Publishes
<1>10. /\ DOMAIN c.index = HashValues
       /\ \A h \in HashValues :
            c.index[h] = m.index[h] \cup {b \in Block : \E i \in fresh :
                                                          t[i] = b /\ HashOf(key(i)) = h}
  BY DEF Publishes
<1>11. \A i \in fresh :
         LET d == m.blocks[t[i]]
             a == c.blocks[t[i]]
         IN  /\ a.key = key(i) /\ a.owner = None /\ a.epoch \in 1 .. c.epoch
             /\ a.state = d.state /\ a.refs = d.refs /\ a.valid = d.valid /\ a.prov = d.prov
  BY DEF Publishes
<1>12. \A b \in Block : (\A i \in fresh : t[i] # b) => c.blocks[b] = m.blocks[b]
  BY DEF Publishes
<1> DEFINE p == c.prov[r]
<1>13. /\ p.exact = q.exact /\ p.chunks = q.chunks /\ p.total = q.total
       /\ p.matched = q.matched /\ p.published = TRUE /\ p \in RequestProvenance
  <2>1. \A x \in RequestProvenance :
          LET y == [x EXCEPT !.published = TRUE]
          IN  /\ y.exact = x.exact /\ y.chunks = x.chunks /\ y.total = x.total
              /\ y.matched = x.matched /\ y.published = TRUE /\ y \in RequestProvenance
    BY DEF RequestProvenance
  <2>2. QED
    BY <1>1, <1>9, <2>1
<1> HIDE DEF p, q, t, key, full, computed, fresh
<1>14. Live(c) = Live(m) /\ \A b \in Block : Holders(c, b) = Holders(m, b)
  <2>1. c.prov[r] # None /\ m.prov[r] # None
    BY <1>13, NoneAssumption DEF p, Live
  <2>2. Live(c) = Live(m)
    BY <1>1, <1>9, <2>1 DEF Live
  <2>3. QED
    BY <1>9, <2>2 DEF Holders
<1>15. \A i \in fresh : i \in 1 .. full /\ m.blocks[t[i]].key = None /\ i \in computed
  BY <1>3, <1>4, <1>7
<1>16. \A b \in Block : m.blocks[b].key # None => c.blocks[b] = m.blocks[b]
  BY <1>12, <1>15
<1>17. \A b \in Block : /\ c.blocks[b].valid = m.blocks[b].valid /\ c.blocks[b].prov = m.blocks[b].prov
                        /\ m.blocks[b].valid \in Nat
  <2>1. \A b \in Block : m.blocks[b].valid \in Nat
    BY BlockFacts
  <2>2. ASSUME NEW b \in Block
        PROVE  c.blocks[b].valid = m.blocks[b].valid /\ c.blocks[b].prov = m.blocks[b].prov
    BY <1>11, <1>12
  <2>3. QED
    BY <2>1, <2>2
<1>18. \A k \in Key : Matches(m, k) \subseteq Matches(c, k)
  <2>1. ASSUME NEW k \in Key, NEW b \in Matches(m, k)
        PROVE  b \in Matches(c, k)
    <3>1. HashOf(k) \in HashValues /\ b \in m.index[HashOf(k)] /\ m.blocks[b].key = k
      BY HashType DEF Matches
    <3>2. b \in Block /\ m.blocks[b].key # None
      BY <3>1, IndexedBlocks
    <3>3. QED
      BY <1>10, <1>16, <3>1, <3>2 DEF Matches
  <2>2. QED
    BY <2>1
<1>19. ASSUME NEW s \in Live(m), s # r
       PROVE  TableValid(c, s) /\ KeysValid(c, s)
  <2>1. /\ TableValid(m, s) /\ KeysValid(m, s) /\ s \in Requests
        /\ m.tables[s] \in Seq(Block) /\ m.prov[s] \in RequestProvenance
    BY DEF Valid, Live, Manager
  <2>2. c.prov[s] = m.prov[s] /\ c.tables[s] = m.tables[s]
    BY <1>9, <1>19, <2>1
  <2>3. \A i \in DOMAIN m.tables[s] : m.tables[s][i] \in Block /\ m.tables[s][i] \in Range(m.tables[s])
    BY <2>1 DEF Range
  <2>4. TableValid(c, s)
    BY <1>17, <2>1, <2>2, <2>3, TableValidDepends
  <2>5. m.prov[s].chunks \in Seq(Chunks)
    BY <2>1 DEF RequestProvenance
  <2>6. ASSUME NEW i \in 1 .. Len(m.prov[s].chunks)
        PROVE  /\ c.blocks[m.tables[s][i]].key = m.blocks[m.tables[s][i]].key
               /\ Matches(m, KeyAt(m.prov[s].chunks, i)) # {}
                    => Matches(c, KeyAt(m.prov[s].chunks, i)) # {}
    <3>1. i \in DOMAIN m.tables[s]
      BY PromptBlocksAreHeld
    <3>2. KeyAt(m.prov[s].chunks, i) \in Key
      BY <2>5, KeyType
    <3> DEFINE b == m.tables[s][i]
    <3>3. b \in Block /\ b \in Range(m.tables[s])
      BY <2>3, <3>1
    <3> HIDE DEF b
    <3>4. ASSUME NEW j \in fresh, t[j] = b
          PROVE  FALSE
      <4>1. m.blocks[b].state = "InUse" /\ m.blocks[b].key = None /\ b \in Range(m.tables[r])
        BY <1>6, <1>15, <3>4 DEF t
      <4>2. QED
        BY <1>19, <3>3, <4>1, KeylessBlocksHaveOneHolder
    <3>5. c.blocks[b] = m.blocks[b]
      BY <1>12, <3>3, <3>4
    <3>6. QED
      BY <1>18, <3>2, <3>5 DEF b
  <2>7. KeysValid(c, s)
    BY <2>1, <2>2, <2>6, KeysValidDepends
  <2>8. QED
    BY <2>4, <2>7
<1>20. TableValid(c, r)
  <2>1. c.tables[r] = t /\ c.prov[r] = p
    BY <1>9 DEF t, p
  <2>2. /\ Range(t) \subseteq Block /\ IsInjective(t) /\ PromptBlocks(q) <= Len(t)
        /\ q.matched <= full /\ PrefixEnabled /\ full = q.total \div BlockSize
    BY <1>1 DEF TableValid, q, t, full
  <2>3. \A i \in DOMAIN t :
          IF i <= full THEN m.blocks[t[i]].prov \in FullProvenance
          ELSE IF i <= PromptBlocks(q)
          THEN /\ m.blocks[t[i]].prov = IF q.exact THEN "PrivatePromptTail"
                                             ELSE "PrivatePromptCountOnly"
               /\ m.blocks[t[i]].valid >= TokensAt(q.total, i)
          ELSE m.blocks[t[i]].prov = "PrivateDecode"
    BY <1>1 DEF TableValid, q, t, full
  <2>4. \A i \in DOMAIN t : t[i] \in Block
    BY <1>1
  <2>5. PromptBlocks(p) = PromptBlocks(q) /\ Len(p.chunks) = full
    BY <1>13 DEF PromptBlocks, full
  <2>6. q.matched < full /\ q.exact
    BY DEF q, full
  <2>7. \A i \in DOMAIN t :
          IF i <= full THEN c.blocks[t[i]].prov \in FullProvenance
          ELSE IF i <= PromptBlocks(p)
          THEN /\ c.blocks[t[i]].prov = IF p.exact THEN "PrivatePromptTail"
                                             ELSE "PrivatePromptCountOnly"
               /\ c.blocks[t[i]].valid >= TokensAt(p.total, i)
          ELSE c.blocks[t[i]].prov = "PrivateDecode"
    <3>1. \A i \in DOMAIN t : /\ c.blocks[t[i]].prov = m.blocks[t[i]].prov
                              /\ c.blocks[t[i]].valid = m.blocks[t[i]].valid
      BY <1>17, <2>4
    <3>2. p.exact = q.exact /\ p.total = q.total
      BY <1>13
    <3>3. QED
      BY <2>3, <2>5, <3>1, <3>2
  <2>8. /\ p.matched <= full /\ p.matched < full /\ full = p.total \div BlockSize /\ p.exact
        /\ PromptBlocks(p) <= Len(t)
    BY <1>13, <2>2, <2>5, <2>6
  <2>9. QED
    BY <2>1, <2>2, <2>5, <2>7, <2>8 DEF TableValid
<1>21. KeysValid(c, r)
  <2>1. ASSUME NEW i \in 1 .. full
        PROVE  LET a == c.blocks[t[i]].key IN
               /\ a \in {None, key(i)}
               /\ i <= q.matched => a # None
               /\ i > q.matched /\ a = None => Matches(c, key(i)) # {}
    <3> DEFINE a == c.blocks[t[i]].key
    <3>1. t[i] \in Block /\ i \in Nat /\ q.matched \in Nat
      BY <1>2, <1>6
    <3>2. CASE i <= q.matched
      <4>1. a = m.blocks[t[i]].key /\ a # None /\ a \in {None, key(i)} /\ ~(i > q.matched)
        BY <1>7, <1>16, <3>1, <3>2
      <4> HIDE DEF a
      <4>2. QED
        BY <4>1 DEF a
    <3>3. CASE i \in fresh
      <4>1. a = key(i) /\ key(i) # None /\ i > q.matched
        BY <1>3, <1>5, <1>11, <1>15, <3>3
      <4> HIDE DEF a
      <4>2. ~(i <= q.matched)
        BY <3>1, <4>1
      <4>3. QED
        BY <4>1, <4>2 DEF a
    <3>4. CASE i > q.matched /\ i \notin fresh
      <4>1. i \in computed
        BY <1>2, <3>1, <3>4 DEF computed
      <4>2. a = None
        <5>1. \A j \in fresh : t[j] # t[i]
          BY <1>8, <1>15, <3>4
        <5>2. c.blocks[t[i]] = m.blocks[t[i]]
          BY <1>12, <3>1, <5>1
        <5>3. QED
          BY <1>7, <3>4, <5>2
      <4>3. Matches(c, key(i)) # {}
        <5>1. CASE Matches(m, key(i)) # {}
          BY <1>5, <1>18, <5>1
        <5>2. CASE Matches(m, key(i)) = {}
          <6> DEFINE S == {j \in computed : key(j) = key(i)}
          <6>1. S \in SUBSET Nat /\ i \in S
            BY <1>3, <4>1
          <6>2. PICK j \in S : \A k \in S : j <= k
            BY <6>1, LeastExists
          <6>3. j \in fresh
            BY <1>4, <5>2, <6>2
          <6>4. t[j] \in Block /\ c.blocks[t[j]].key = key(i) /\ key(j) = key(i)
            BY <1>6, <1>11, <1>15, <6>2, <6>3
          <6>5. t[j] \in c.index[HashOf(key(i))]
            BY <1>5, <1>10, <6>3, <6>4
          <6>6. QED
            BY <6>4, <6>5 DEF Matches
        <5>3. QED
          BY <5>1, <5>2
      <4> HIDE DEF a
      <4>4. ~(i <= q.matched)
        BY <3>1, <3>4
      <4>5. QED
        BY <4>2, <4>3, <4>4 DEF a
    <3>5. QED
      BY <3>1, <3>2, <3>3, <3>4
  <2>2. c.tables[r] = t /\ c.prov[r] = p /\ Len(p.chunks) = full /\ p.matched = q.matched
        /\ p.published = TRUE /\ \A i : KeyAt(p.chunks, i) = key(i)
    BY <1>9, <1>13 DEF t, p, full, key
  <2>3. QED
    BY <2>1, <2>2 DEF KeysValid
<1>22. \A s \in Requests : IF s \in Live(c) THEN TableValid(c, s) /\ KeysValid(c, s)
                                            ELSE c.tables[s] = <<>>
  BY <1>9, <1>14, <1>19, <1>20, <1>21 DEF Valid
<1>23. ASSUME NEW b \in Block
       PROVE  BlockValid(c, b)
  <2>1. /\ BlockValid(m, b) /\ m.blocks[b] \in BlockMetadata /\ Holders(c, b) = Holders(m, b)
        /\ c.free = m.free
    BY <1>9, <1>14, BlockFacts
  <2>2. CASE \E i \in fresh : t[i] = b
    <3>1. PICK i \in fresh : t[i] = b
      BY <2>2
    <3> DEFINE d == m.blocks[b]
               a == c.blocks[b]
    <3>2. /\ a.key = key(i) /\ a.owner = None /\ a.epoch \in 1 .. c.epoch
          /\ a.state = d.state /\ a.refs = d.refs /\ a.valid = d.valid /\ a.prov = d.prov
      BY <1>11, <3>1
    <3>3. d.state = "InUse" /\ d.prov \in FullProvenance /\ key(i) # None
      BY <1>5, <1>6, <1>15, <3>1
    <3>4. b \in c.index[HashOf(key(i))]
      BY <1>5, <1>10, <1>15, <3>1
    <3>5. /\ b \notin m.free /\ d.valid \in 1 .. BlockSize /\ d.prov # None
          /\ d.valid = BlockSize
          /\ d.refs > 0 /\ d.refs = Cardinality(Holders(m, b))
      BY <2>1, <3>3 DEF BlockValid
    <3> HIDE DEF a, d
    <3>6. QED
      BY <2>1, <3>2, <3>3, <3>4, <3>5 DEF BlockValid, a
  <2>3. CASE ~(\E i \in fresh : t[i] = b)
    <3>1. c.blocks[b] = m.blocks[b]
      BY <1>12, <2>3
    <3>2. m.blocks[b].epoch \in Nat /\ m.epoch \in Nat
      BY <2>1, KVAssumption DEF BlockMetadata, Manager
    <3>3. m.blocks[b].key # None => HashOf(m.blocks[b].key) \in HashValues
      BY <2>1, HashType DEF BlockMetadata
    <3>4. m.blocks[b].key # None /\ b \in m.index[HashOf(m.blocks[b].key)]
            => b \in c.index[HashOf(m.blocks[b].key)]
      BY <1>10, <3>3
    <3>5. \A x : x \in 1 .. m.epoch => x \in 1 .. c.epoch
      BY <1>9, <3>2
    <3>6. QED
      BY <2>1, <3>1, <3>4, <3>5 DEF BlockValid
  <2>4. QED
    BY <2>2, <2>3
<1>24. IndexValid(c)
  <2> DEFINE Old(b) == b \in Block /\ m.blocks[b].key # None /\ c.blocks[b] = m.blocks[b]
                       /\ b \in m.index[HashOf(m.blocks[b].key)]
             New(b) == \E i \in fresh : b = t[i] /\ c.blocks[b].key = key(i)
  <2>1. ASSUME NEW h \in HashValues, NEW b \in c.index[h]
        PROVE  (Old(b) \/ New(b)) /\ c.blocks[b].key # None /\ HashOf(c.blocks[b].key) = h
    <3>1. CASE b \in m.index[h]
      <4>1. b \in Block /\ m.blocks[b].key # None /\ HashOf(m.blocks[b].key) = h
        BY <3>1, IndexedBlocks
      <4>2. QED
        BY <1>16, <3>1, <4>1
    <3>2. CASE b \notin m.index[h]
      <4>1. PICK i \in fresh : t[i] = b /\ HashOf(key(i)) = h
        BY <1>10, <3>2
      <4>2. c.blocks[b].key = key(i) /\ key(i) # None
        BY <1>5, <1>11, <1>15, <4>1
      <4>3. QED
        BY <4>1, <4>2
    <3>3. QED
      BY <3>1, <3>2
  <2>2. ASSUME NEW a, NEW b, Old(a) \/ New(a), Old(b) \/ New(b), c.blocks[a].key = c.blocks[b].key
        PROVE  a = b
    <3>1. CASE Old(a) /\ Old(b)
      <4>1. m.blocks[a].key = m.blocks[b].key /\ m.blocks[a].key # None
        BY <2>2, <3>1
      <4>2. m.blocks[a] \in BlockMetadata /\ m.blocks[b] \in BlockMetadata
        BY <3>1, BlockFacts
      <4>3. m.blocks[a].key \in Key
        BY <4>1, <4>2 DEF BlockMetadata
      <4>4. a \in Matches(m, m.blocks[a].key) /\ b \in Matches(m, m.blocks[a].key)
        BY <3>1, <4>1 DEF Matches
      <4>5. QED
        BY <4>3, <4>4, CanonicalBlock
    <3>2. ASSUME NEW x, NEW y, Old(x), New(y), c.blocks[x].key = c.blocks[y].key
          PROVE  FALSE
      <4>1. PICK i \in fresh : y = t[i] /\ c.blocks[y].key = key(i)
        BY <3>2
      <4>2. x \in Matches(m, key(i))
        BY <3>2, <4>1 DEF Matches
      <4>3. Matches(m, key(i)) = {}
        BY <1>4, <1>15, <4>1
      <4>4. QED
        BY <4>2, <4>3
    <3>3. CASE New(a) /\ New(b)
      <4>1. PICK i \in fresh : a = t[i] /\ c.blocks[a].key = key(i)
        BY <3>3
      <4>2. PICK j \in fresh : b = t[j] /\ c.blocks[b].key = key(j)
        BY <3>3
      <4>3. i \in computed /\ j \in computed /\ key(i) = key(j) /\ i \in Nat /\ j \in Nat
        BY <1>3, <1>15, <2>2, <4>1, <4>2
      <4>4. i <= j /\ j <= i
        BY <1>4, <4>3
      <4>5. i = j
        BY <4>3, <4>4
      <4>6. QED
        BY <4>1, <4>2, <4>5
    <3> HIDE DEF Old, New
    <3>4. QED
      BY <2>2, <3>1, <3>2, <3>3
  <2>3. ASSUME NEW b \in UNION Range(c.index)
        PROVE  Old(b) \/ New(b)
    <3>1. PICK h \in HashValues : b \in c.index[h]
      BY <1>10 DEF Range
    <3>2. QED
      BY <2>1, <3>1
  <2> HIDE DEF Old, New
  <2>4. QED
    BY <2>1, <2>2, <2>3 DEF IndexValid
<1>25. c.represented = TokensIn(c, Block) /\ c.represented \in Nat
  <2>1. TokensIn(c, Block) = TokensIn(m, Block)
    BY <1>17, TokensAgree
  <2>2. m.represented = TokensIn(m, Block) /\ m.represented \in Nat
    BY DEF Valid, Manager
  <2>3. QED
    BY <1>9, <2>1, <2>2
<1>26. QED
  BY <1>22, <1>23, <1>24, <1>25 DEF Valid

-----------------------------------------------------------------------------
(* How insert_completed_prompt_blocks ends *)

\* Publishing a prompt is never an internal error.
LEMMA InsertCompletedPromptBlocksIsValid ==
  ASSUME NEW m \in Manager, Valid(m), NEW r \in Live(m),
         m.prov[r].exact, m.prov[r].matched < Len(m.prov[r].chunks)
  PROVE  InsertCompletedPromptBlocks(m, r).outcome \in {"ok", "overflow"}
<1> DEFINE q == m.prov[r]
           t == m.tables[r]
           key(i) == KeyAt(q.chunks, i)
           computed == (q.matched + 1) .. Len(q.chunks)
           fresh == {i \in computed : /\ Matches(m, key(i)) = {}
                                      /\ \A j \in computed : key(j) = key(i) => i <= j}
           rank(i) == Cardinality({j \in fresh : j <= i})
           at(b) == CHOOSE j \in fresh : t[j] = b
           published(b) ==
             [m.blocks[b] EXCEPT !.key = key(at(b)), !.owner = None,
                                 !.epoch = m.epoch + rank(at(b))]
           blocks == [b \in Block |-> IF \E i \in fresh : t[i] = b
                                      THEN published(b) ELSE m.blocks[b]]
           index == [h \in HashValues |->
                       m.index[h] \cup {b \in Block : \E i \in fresh :
                                          t[i] = b /\ HashOf(key(i)) = h}]
           c == [m EXCEPT !.blocks = blocks, !.index = index,
                          !.epoch  = @ + Cardinality(fresh),
                          !.prov[r].published = TRUE]
<1>1. CASE q.published \/ Cardinality(fresh) > EpochLimit - m.epoch
  BY <1>1, OutcomeOfRefusal DEF InsertCompletedPromptBlocks
<1>2. CASE ~q.published /\ ~(Cardinality(fresh) > EpochLimit - m.epoch)
  <2>1. InsertCompletedPromptBlocks(m, r) = Commit(m, c)
    BY <1>2 DEF InsertCompletedPromptBlocks
  <2>2. fresh = Fresh(m, r)
    BY DEF Fresh
  <2>3. /\ r \in Requests /\ q \in RequestProvenance /\ t \in Seq(Block) /\ TableValid(m, r)
    BY DEF Live, Manager, Valid
  <2>4. q.matched \in Nat /\ Len(q.chunks) \in Nat
    BY <2>3 DEF RequestProvenance
  <2>5. fresh \in SUBSET computed /\ computed \subseteq 1 .. Len(q.chunks)
    BY <2>4
  <2>6. IsFiniteSet(computed)
    <3>1. q.matched + 1 \in Int /\ Len(q.chunks) \in Int
      BY <2>4
    <3> HIDE DEF q
    <3>2. QED
      BY <3>1, FS_Interval
  <2> HIDE DEF fresh, computed, key
  <2>7. IsFiniteSet(fresh) /\ Cardinality(fresh) \in Nat
    BY <2>5, <2>6, FS_Subset, FS_CardinalityType
  <2>8. ASSUME NEW i \in fresh
        PROVE  rank(i) \in 1 .. Cardinality(fresh)
    <3> DEFINE S == {j \in fresh : j <= i}
    <3>1. S \in SUBSET fresh /\ i \in S
      BY <2>4, <2>5
    <3> HIDE DEF S
    <3>2. IsFiniteSet(S) /\ Cardinality(S) \in Nat /\ Cardinality(S) <= Cardinality(fresh)
      BY <2>7, <3>1, FS_Subset, FS_CardinalityType
    <3>3. Cardinality(S) # 0
      BY <3>1, <3>2, FS_EmptySet
    <3>4. QED
      BY <2>7, <3>2, <3>3 DEF S
  <2> HIDE DEF rank
  <2>9. ASSUME NEW i \in fresh
        PROVE  /\ t[i] \in Block /\ at(t[i]) = i
    <3>1. i \in 1 .. Len(q.chunks) /\ \A j \in fresh : j \in 1 .. Len(q.chunks)
      BY <2>5
    <3>2. t[i] \in Block /\ \A j \in fresh : j \in DOMAIN t
      BY <3>1, PromptBlocksAreHeld
    <3>3. at(t[i]) \in fresh /\ t[at(t[i])] = t[i]
      OBVIOUS
    <3> HIDE DEF at
    <3>4. IsInjective(t)
      BY <2>3 DEF TableValid
    <3>5. QED
      BY <3>2, <3>3, <3>4 DEF IsInjective
  <2> HIDE DEF at
  <2>10. \A b \in Block : m.blocks[b] \in BlockMetadata
    BY BlockFacts
  <2>11. \A i \in fresh :
           LET d == m.blocks[t[i]]
               a == blocks[t[i]]
           IN  /\ a.key = key(i) /\ a.owner = None /\ a.epoch = m.epoch + rank(i)
               /\ a.state = d.state /\ a.refs = d.refs /\ a.valid = d.valid /\ a.prov = d.prov
    <3>1. \A d \in BlockMetadata : \A k, x :
            LET a == [d EXCEPT !.key = k, !.owner = None, !.epoch = x]
            IN  /\ a.key = k /\ a.owner = None /\ a.epoch = x
                /\ a.state = d.state /\ a.refs = d.refs /\ a.valid = d.valid /\ a.prov = d.prov
      BY DEF BlockMetadata
    <3>2. ASSUME NEW i \in fresh
          PROVE  blocks[t[i]] = [m.blocks[t[i]] EXCEPT !.key = key(i), !.owner = None,
                                                       !.epoch = m.epoch + rank(i)]
      BY <2>9
    <3> HIDE DEF blocks
    <3>3. ASSUME NEW i \in fresh
          PROVE  LET d == m.blocks[t[i]]
                     a == blocks[t[i]]
                 IN  /\ a.key = key(i) /\ a.owner = None /\ a.epoch = m.epoch + rank(i)
                     /\ a.state = d.state /\ a.refs = d.refs /\ a.valid = d.valid
                     /\ a.prov = d.prov
      <4> DEFINE d == m.blocks[t[i]]
                 k == key(i)
                 x == m.epoch + rank(i)
                 a == [d EXCEPT !.key = k, !.owner = None, !.epoch = x]
      <4>1. d \in BlockMetadata
        BY <2>9, <2>10
      <4>2. blocks[t[i]] = a
        BY <3>2
      <4> HIDE DEF d, k, x
      <4>3. /\ a.key = k /\ a.owner = None /\ a.epoch = x
            /\ a.state = d.state /\ a.refs = d.refs /\ a.valid = d.valid /\ a.prov = d.prov
        BY <3>1, <4>1
      <4> HIDE DEF a
      <4>4. QED
        BY <4>2, <4>3 DEF d, k, x
    <3>4. QED
      BY <3>3
  <2>12. \A b \in Block : (\A i \in fresh : t[i] # b) => blocks[b] = m.blocks[b]
    OBVIOUS
  <2> HIDE DEF blocks
  <2>13. /\ DOMAIN index = HashValues
         /\ \A h \in HashValues :
              index[h] = m.index[h] \cup {b \in Block : \E i \in fresh :
                                            t[i] = b /\ HashOf(key(i)) = h}
    OBVIOUS
  <2> HIDE DEF index
  <2>14. /\ c.blocks = blocks /\ c.index = index /\ c.free = m.free /\ c.tables = m.tables
         /\ c.represented = m.represented /\ c.epoch = m.epoch + Cardinality(fresh)
         /\ c.prov = [m.prov EXCEPT ![r] = [q EXCEPT !.published = TRUE]]
    <3> HIDE DEF q
    <3>1. QED
      BY DEF Manager, q
  <2> HIDE DEF c
  <2>15. c.epoch \in Nat /\ c.epoch >= m.epoch /\ m.epoch \in Nat
    BY <2>7, <2>14, KVAssumption DEF Manager
  <2>16. Publishes(m, c, r)
    <3>1. \A i \in fresh : m.epoch + rank(i) \in 1 .. c.epoch
      BY <2>7, <2>8, <2>14, <2>15
    <3>2. \A i \in fresh :
            LET d == m.blocks[t[i]]
                a == c.blocks[t[i]]
            IN  /\ a.key = key(i) /\ a.owner = None /\ a.epoch \in 1 .. c.epoch
                /\ a.state = d.state /\ a.refs = d.refs /\ a.valid = d.valid /\ a.prov = d.prov
      BY <2>11, <2>14, <3>1
    <3>3. /\ \A s \in Requests \ {r} : c.prov[s] = m.prov[s]
          /\ c.prov[r] = [q EXCEPT !.published = TRUE]
      BY <2>3, <2>14 DEF Manager
    <3>4. QED
      BY <2>2, <2>12, <2>13, <2>14, <2>15, <3>2, <3>3, SMTT(30) DEF Publishes, key
  <2>17. Valid(c) /\ c.represented \in Nat
    BY <1>2, <2>16, PublicationIsValid
  <2>18. Commit(m, c).outcome = "ok"
    BY <2>17, OutcomeOfRefusal
  <2>19. QED
    BY <2>1, <2>18
<1>3. QED
  BY <1>1, <1>2

\* With no live request, what is not free is cached.
LEMMA IdlePool ==
  ASSUME NEW m \in Manager, Valid(m), Live(m) = {}
  PROVE  /\ NoDuplicates(m) /\ Block = m.free \cup Cached(m) /\ m.free \cap Cached(m) = {}
         /\ Cardinality(m.free) + Cardinality(Cached(m)) = NumBlocks
<1>1. NoDuplicates(m)
  BY DEF NoDuplicates, DuplicateHolder
<1>2. m.free \in SUBSET Block
  BY DEF Manager
<1>3. ASSUME NEW b \in Block
      PROVE  m.blocks[b].state = "Free" \/ m.blocks[b].state = "Cached"
  <2>1. Holders(m, b) = {}
    BY DEF Holders
  <2>2. BlockValid(m, b) /\ m.blocks[b] \in BlockMetadata
    BY BlockFacts
  <2>3. CASE m.blocks[b].state = "InUse"
    <3>1. m.blocks[b].refs > 0 /\ m.blocks[b].refs = Cardinality({})
      BY <2>1, <2>2, <2>3 DEF BlockValid
    <3>2. Cardinality({}) = 0
      BY FS_EmptySet
    <3>3. QED
      BY <3>1, <3>2
  <2>4. QED
    BY <2>2, <2>3 DEF BlockMetadata
<1>4. Block = m.free \cup Cached(m) /\ m.free \cap Cached(m) = {}
  <2>1. \A b \in Block : b \in m.free <=> m.blocks[b].state = "Free"
    BY BlockFacts
  <2>2. QED
    BY <1>2, <1>3, <2>1 DEF Cached
<1>5. Cardinality(Block) = NumBlocks
  <2>1. NumBlocks \in Nat /\ 0 \in Int /\ NumBlocks - 1 \in Int
    BY KVAssumption
  <2>2. Cardinality(0 .. NumBlocks - 1) = IF 0 > NumBlocks - 1 THEN 0 ELSE (NumBlocks - 1) - 0 + 1
    BY <2>1, FS_Interval
  <2>3. QED
    BY <2>2, KVAssumption DEF Block
<1>6. IsFiniteSet(m.free) /\ IsFiniteSet(Cached(m))
  BY <1>2, BlocksAreFinite DEF Cached
<1>7. Cardinality(m.free \cup Cached(m))
        = Cardinality(m.free) + Cardinality(Cached(m)) - Cardinality(m.free \cap Cached(m))
  BY <1>6, FS_Union
<1>8. Cardinality(m.free) \in Nat /\ Cardinality(Cached(m)) \in Nat
  BY <1>6, FS_CardinalityType
<1>9. Cardinality(m.free \cap Cached(m)) = 0
  BY <1>4, FS_EmptySet
<1>10. QED
  BY <1>1, <1>4, <1>5, <1>7, <1>8, <1>9

=============================================================================
