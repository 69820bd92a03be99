----------------------- MODULE ContinuousBatching_proof -----------------------
(***************************************************************************)
(* Theorems about the iteration engine, for every pool, policy, budget and *)
(* workload.  The heart is the invariant of the plan under construction:   *)
(* its items are exactly what happened on the scratch manager, so the      *)
(* replay succeeds, publications and releases cannot fail, and an          *)
(* iteration commits its work or fails for a reason that is so.  From this *)
(* the invariant of the engine, and from that the properties.              *)
(***************************************************************************)
EXTENDS ContinuousBatching, KVManager_proof


-----------------------------------------------------------------------------
(* The plan and the loops over it are tables: step k of each applies one     *)
(* operation to the result of step k - 1.                                    *)

\* What a table does with its k-th piece of work.
Step(kind, e, s, x) ==
  IF s.outcome = "ok"
  THEN IF kind = "plan" THEN Visit(e, s, x) ELSE LoopCall(e, kind, s.kv, x)
  ELSE s

IsTable(g, kind, e, base, work, n) ==
  g = [i \in 0 .. n |-> IF i = 0 THEN base ELSE Step(kind, e, g[i - 1], work[i])]

\* Every table exists: it is built one step at a time.
LEMMA TableExists ==
  ASSUME NEW kind, NEW e, NEW base, NEW work, NEW n \in Nat
  PROVE  \E g : IsTable(g, kind, e, base, work, n)
<1> DEFINE T == {k \in Nat : \E g : IsTable(g, kind, e, base, work, k)}
<1>1. 0 \in T
  <2> DEFINE g == [i \in 0 .. 0 |-> base]
  <2>1. IsTable(g, kind, e, base, work, 0)
    BY DEF IsTable
  <2>2. QED
    BY <2>1
<1>2. ASSUME NEW k \in Nat, k \in T
      PROVE  k + 1 \in T
  <2>1. PICK g : IsTable(g, kind, e, base, work, k)
    BY <1>2
  <2>2. g = [i \in 0 .. k |-> IF i = 0 THEN base ELSE Step(kind, e, g[i - 1], work[i])]
    BY <2>1 DEF IsTable
  <2> DEFINE h == [i \in 0 .. k + 1 |->
                     IF i = 0 THEN base ELSE Step(kind, e, g[i - 1], work[i])]
  <2>3. \A i \in 0 .. k : h[i] = g[i]
    BY <2>2
  <2>4. \A i \in 0 .. k + 1 : i # 0 => h[i - 1] = g[i - 1]
    <3>1. ASSUME NEW i \in 0 .. k + 1, i # 0
          PROVE  i - 1 \in 0 .. k
      BY <3>1
    <3> HIDE DEF h
    <3>2. QED
      BY <2>3, <3>1
  <2>5. h = [i \in 0 .. k + 1 |-> IF i = 0 THEN base ELSE Step(kind, e, h[i - 1], work[i])]
    <3> DEFINE u == [i \in 0 .. k + 1 |-> IF i = 0 THEN base ELSE Step(kind, e, h[i - 1], work[i])]
    <3>1. DOMAIN h = DOMAIN u
      OBVIOUS
    <3>2. \A i \in 0 .. k + 1 : h[i] = IF i = 0 THEN base ELSE Step(kind, e, g[i - 1], work[i])
      OBVIOUS
    <3>3. \A i \in 0 .. k + 1 : h[i] = u[i]
      <4> HIDE DEF h
      <4>1. QED
        BY <2>4, <3>2
    <3> HIDE DEF h
    <3>4. h \in [0 .. k + 1 -> Range(h)]
      BY DEF h, Range
    <3>5. h = [i \in 0 .. k + 1 |-> h[i]]
      BY <3>4
    <3>6. QED
      BY <3>3, <3>5
  <2> HIDE DEF h
  <2>6. IsTable(h, kind, e, base, work, k + 1)
    BY <2>5 DEF IsTable
  <2>7. QED
    BY <2>6
<1> HIDE DEF T
<1>3. Nat \subseteq T
  BY <1>1, <1>2, NatSetInduction
<1>4. QED
  BY <1>3 DEF T

\* The entries of a table.
LEMMA TableEntries ==
  ASSUME NEW kind, NEW e, NEW base, NEW work, NEW n \in Nat,
         NEW g, IsTable(g, kind, e, base, work, n)
  PROVE  /\ g[0] = base
         /\ \A i \in 0 .. n : i + 1 \in 0 .. n => g[i + 1] = Step(kind, e, g[i], work[i + 1])
<1>1. \A i \in 0 .. n : g[i] = IF i = 0 THEN base ELSE Step(kind, e, g[i - 1], work[i])
  BY DEF IsTable
<1>2. g[0] = base
  BY <1>1
<1>3. ASSUME NEW i \in 0 .. n, i + 1 \in 0 .. n
      PROVE  g[i + 1] = Step(kind, e, g[i], work[i + 1])
  <2>1. i + 1 # 0 /\ (i + 1) - 1 = i
    OBVIOUS
  <2>2. g[i + 1] = IF i + 1 = 0 THEN base ELSE Step(kind, e, g[(i + 1) - 1], work[i + 1])
    BY <1>1, <1>3
  <2>3. QED
    BY <2>1, <2>2
<1>4. QED
  BY <1>2, <1>3

\* Tables over the same work have the same entries.
LEMMA TablesAgree ==
  ASSUME NEW kind, NEW e, NEW base, NEW work, NEW more, NEW n \in Nat, NEW k \in Nat,
         NEW g, NEW h, IsTable(g, kind, e, base, work, n), IsTable(h, kind, e, base, more, k),
         n <= k, \A i \in 1 .. n : work[i] = more[i]
  PROVE  \A i \in 0 .. n : g[i] = h[i]
<1> DEFINE T == {i \in Nat : i <= n => g[i] = h[i]}
<1>1. 0 \in T
  <2>1. g[0] = base
    BY DEF IsTable
  <2>2. h[0] = base
    BY DEF IsTable
  <2>3. QED
    BY <2>1, <2>2
<1>2. ASSUME NEW i \in Nat, i \in T
      PROVE  i + 1 \in T
  <2>1. SUFFICES ASSUME i + 1 <= n PROVE g[i + 1] = h[i + 1]
    OBVIOUS
  <2>2. g[i] = h[i]
    BY <1>2, <2>1
  <2>3. i \in 0 .. n /\ i + 1 \in 0 .. n /\ i \in 0 .. k /\ i + 1 \in 0 .. k /\ i + 1 \in 1 .. n
    BY <2>1
  <2>4. g[i + 1] = Step(kind, e, g[i], work[i + 1])
    BY <2>3, TableEntries
  <2>5. h[i + 1] = Step(kind, e, h[i], more[i + 1])
    BY <2>3, TableEntries
  <2>6. work[i + 1] = more[i + 1]
    BY <2>3
  <2>7. QED
    BY <2>2, <2>4, <2>5, <2>6
<1> HIDE DEF T
<1>3. Nat \subseteq T
  BY <1>1, <1>2, NatSetInduction
<1>4. QED
  BY <1>3 DEF T

\* PlanOver is the table of the planner's visits.
LEMMA PlanOverIsTable ==
  ASSUME NEW e, NEW order, Len(order) \in Nat
  PROVE  IsTable(PlanOver(e, order), "plan", e, EmptyPlan(e), order, Len(order))
<1> DEFINE F(g) == [n \in 0 .. Len(order) |->
                      IF n = 0 THEN EmptyPlan(e)
                      ELSE IF g[n - 1].outcome = "ok" THEN Visit(e, g[n - 1], order[n])
                      ELSE g[n - 1]]
<1>1. PICK g : IsTable(g, "plan", e, EmptyPlan(e), order, Len(order))
  BY TableExists
<1>2. g = F(g)
  BY <1>1, Zenon DEF IsTable, Step
<1>3. PlanOver(e, order) = CHOOSE h : h = F(h)
  BY Zenon DEF PlanOver
<1>4. PlanOver(e, order) = F(PlanOver(e, order))
  BY <1>2, <1>3, Zenon
<1>5. QED
  BY <1>4, Zenon DEF IsTable, Step

\* AfterLoop is the last entry of the table of the loop's calls.
LEMMA AfterLoopIsEntry ==
  ASSUME NEW e, NEW loop, loop # "plan", NEW before, NEW items, Len(items) \in Nat
  PROVE  \E h : /\ IsTable(h, loop, e, before, items, Len(items))
                /\ AfterLoop(e, loop, before, items) = h[Len(items)]
<1> DEFINE F(g) == [n \in 0 .. Len(items) |->
                      IF n = 0 THEN before
                      ELSE IF g[n - 1].outcome = "ok" THEN LoopCall(e, loop, g[n - 1].kv, items[n])
                      ELSE g[n - 1]]
           H == CHOOSE h : h = F(h)
<1>1. PICK g : IsTable(g, loop, e, before, items, Len(items))
  BY TableExists
<1>2. g = F(g)
  BY <1>1, Zenon DEF IsTable, Step
<1>3. H = F(H)
  BY <1>2, Zenon
<1>4. AfterLoop(e, loop, before, items) = H[Len(items)]
  BY Zenon DEF AfterLoop
<1>5. IsTable(H, loop, e, before, items, Len(items))
  <2> HIDE DEF H
  <2>1. QED
    BY <1>3, Zenon DEF IsTable, Step
<1>6. QED
  BY <1>4, <1>5

\* The sequence `more`, of length k, is `items`, of length n, and x.
Extends(more, k, items, n, x) ==
  /\ n = Len(items) /\ k = Len(more) /\ k = n + 1 /\ more[k] = x
  /\ \A i \in 1 .. n : items[i] = more[i]

\* A loop over nothing does nothing; one more item is one more call.
LEMMA LoopOverMore ==
  ASSUME NEW e, NEW loop, loop # "plan", NEW before, NEW items, NEW more, NEW x,
         NEW n \in Nat, NEW k \in Nat, Extends(more, k, items, n, x)
  PROVE  LET reply == AfterLoop(e, loop, before, items) IN
         AfterLoop(e, loop, before, more)
           = IF reply.outcome = "ok" THEN LoopCall(e, loop, reply.kv, x) ELSE reply
<1>1. PICK g : IsTable(g, loop, e, before, items, n) /\ AfterLoop(e, loop, before, items) = g[n]
  <2>1. Len(items) \in Nat /\ Len(items) = n
    BY DEF Extends
  <2>2. QED
    BY <2>1, AfterLoopIsEntry
<1>2. PICK h : IsTable(h, loop, e, before, more, k) /\ AfterLoop(e, loop, before, more) = h[k]
  <2>1. Len(more) \in Nat /\ Len(more) = k
    BY DEF Extends
  <2>2. QED
    BY <2>1, AfterLoopIsEntry
<1>3. n <= k /\ n \in 0 .. n /\ n \in 0 .. k /\ n + 1 \in 0 .. k
      /\ \A i \in 1 .. n : items[i] = more[i]
  BY DEF Extends
<1>4. h[n] = g[n]
  <2>1. \A i \in 0 .. n : g[i] = h[i]
    BY <1>1, <1>2, <1>3, TablesAgree
  <2>2. QED
    BY <1>3, <2>1
<1>5. h[k] = Step(loop, e, h[n], x)
  <2>1. \A i \in 0 .. k : i + 1 \in 0 .. k => h[i + 1] = Step(loop, e, h[i], more[i + 1])
    BY <1>2, TableEntries
  <2>2. h[n + 1] = Step(loop, e, h[n], more[n + 1])
    BY <1>3, <2>1
  <2>3. QED
    BY <2>2 DEF Extends
<1>6. QED
  BY <1>1, <1>2, <1>4, <1>5 DEF Step

\* A loop over one more item: what it did before, and a call for that item.
LEMMA LoopGrows ==
  ASSUME NEW e, NEW loop, loop # "plan", NEW before, NEW T, NEW items \in Seq(T), NEW x \in T
  PROVE  /\ AfterLoop(e, loop, before, <<>>) = before
         /\ LET reply == AfterLoop(e, loop, before, items) IN
            AfterLoop(e, loop, before, Append(items, x))
              = IF reply.outcome = "ok" THEN LoopCall(e, loop, reply.kv, x) ELSE reply
<1>1. AfterLoop(e, loop, before, <<>>) = before
  <2>1. Len(<<>>) = 0 /\ Len(<<>>) \in Nat
    OBVIOUS
  <2>2. PICK h : /\ IsTable(h, loop, e, before, <<>>, Len(<<>>))
                 /\ AfterLoop(e, loop, before, <<>>) = h[Len(<<>>)]
    BY <2>1, AfterLoopIsEntry
  <2>3. QED
    BY <2>1, <2>2 DEF IsTable
<1>2. PICK more : more = Append(items, x)
  OBVIOUS
<1>3. PICK n \in Nat, k \in Nat : Extends(more, k, items, n, x)
  <2>1. Extends(more, Len(more), items, Len(items), x) /\ Len(more) \in Nat /\ Len(items) \in Nat
    BY <1>2 DEF Extends
  <2>2. QED
    BY <2>1
<1>4. AfterLoop(e, loop, before, more)
        = IF AfterLoop(e, loop, before, items).outcome = "ok"
          THEN LoopCall(e, loop, AfterLoop(e, loop, before, items).kv, x)
          ELSE AfterLoop(e, loop, before, items)
  BY <1>3, LoopOverMore
<1>5. QED
  BY <1>1, <1>2, <1>4

-----------------------------------------------------------------------------
(* The candidates: every runnable request once, in the order of the policy.  *)

\* s lists the elements of S, each once.
Lists(s, S) ==
  /\ s \in Seq(S) /\ Len(s) \in Nat /\ DOMAIN s = 1 .. Len(s)
  /\ \A r \in S : \E i \in 1 .. Len(s) : s[i] = r
  /\ \A i, j \in 1 .. Len(s) : s[i] = s[j] => i = j

\* Every request of S has a number and an arrival time.
Comparable(e, S) == \A r \in S : r \in Int /\ e.requests[r].arrival \in Int

EarlierPairs(e, S) == {p \in S \X S : Earlier(e, p[1], p[2])}

\* candidate_less orders the requests: distinct ones differ in arrival or id.
LEMMA ArrivalsAreOrdered ==
  ASSUME NEW e, NEW S, Comparable(e, S)
  PROVE  /\ IsOrder(EarlierPairs(e, S), S)
         /\ \A r \in S : Rank(EarlierPairs(e, S), S, r)
                           = Cardinality({other \in S : Earlier(e, other, r)})
         /\ \A a, b \in S : <<a, b>> \in EarlierPairs(e, S) <=> Earlier(e, a, b)
<1>1. \A a, b \in S : <<a, b>> \in EarlierPairs(e, S) <=> Earlier(e, a, b)
  BY DEF EarlierPairs
<1>2. \A a \in S : ~Earlier(e, a, a)
  BY DEF Earlier, Comparable
<1>3. \A a, b \in S : a = b \/ Earlier(e, a, b) \/ Earlier(e, b, a)
  BY DEF Earlier, Comparable
<1>4. \A a, b, d \in S : Earlier(e, a, b) /\ Earlier(e, b, d) => Earlier(e, a, d)
  BY DEF Earlier, Comparable
<1>5. IsOrder(EarlierPairs(e, S), S)
  BY <1>1, <1>2, <1>3, <1>4 DEF IsOrder
<1>6. \A r \in S : Below(EarlierPairs(e, S), S, r) = {other \in S : Earlier(e, other, r)}
  BY <1>1 DEF Below
<1>7. QED
  BY <1>1, <1>5, <1>6 DEF Rank

\* Sorting by rank lists every request once, the earlier before the later.
LEMMA InOrderLists ==
  ASSUME NEW e, NEW S, IsFiniteSet(S), Comparable(e, S)
  PROVE  /\ Lists(InOrder(e, S), S)
         /\ \A i, j \in 1 .. Len(InOrder(e, S)) :
              i < j => Earlier(e, InOrder(e, S)[i], InOrder(e, S)[j])
<1> DEFINE n == Cardinality(S)
           rank(r) == Cardinality({other \in S : Earlier(e, other, r)})
           nth(i) == CHOOSE r \in S : rank(r) = i - 1
           R == EarlierPairs(e, S)
           s == InOrder(e, S)
<1>1. IsOrder(R, S) /\ \A r \in S : Rank(R, S, r) = rank(r)
      /\ \A a, b \in S : <<a, b>> \in R <=> Earlier(e, a, b)
  BY ArrivalsAreOrdered
<1>2. s = [i \in 1 .. n |-> nth(i)]
  BY DEF InOrder
<1> HIDE DEF R
<1>3. n \in Nat /\ \A r \in S : rank(r) \in Nat
  <2>1. Cardinality(S) \in Nat /\ \A r : Rank(R, S, r) \in Nat
    BY RankType
  <2>2. QED
    BY <1>1, <2>1
<1>4. \A r \in S : rank(r) < n
  BY <1>1, RankIsBelow
<1>5. ASSUME NEW a \in S, NEW b \in S
      PROVE  /\ rank(a) = rank(b) => a = b
             /\ rank(a) < rank(b) => Earlier(e, a, b)
  <2>1. IsFiniteSet(S) /\ IsOrder(R, S)
    BY <1>1
  <2>2. /\ Rank(R, S, a) = Rank(R, S, b) => a = b
        /\ Rank(R, S, a) < Rank(R, S, b) => <<a, b>> \in R
    BY ONLY <1>5, <2>1, RankTells
  <2> HIDE DEF rank
  <2>3. QED
    BY <1>1, <2>2
<1>6. \A k \in Nat : k < n => \E r \in S : rank(r) = k
  BY <1>1, RanksAreTaken
<1> HIDE DEF rank, n, s
<1>7. ASSUME NEW i \in 1 .. n
      PROVE  nth(i) \in S /\ rank(nth(i)) = i - 1
  <2>1. i - 1 \in Nat /\ i - 1 < n
    BY <1>3
  <2>2. \E r \in S : rank(r) = i - 1
    BY <1>6, <2>1
  <2>3. QED
    BY <2>2
<1> HIDE DEF nth
<1>8. ASSUME NEW r \in S
      PROVE  \E i \in 1 .. n : nth(i) = r
  <2> DEFINE i == rank(r) + 1
  <2>1. i \in 1 .. n /\ i - 1 = rank(r)
    BY <1>3, <1>4
  <2> HIDE DEF i
  <2>2. nth(i) \in S /\ rank(nth(i)) = rank(r)
    BY <1>7, <2>1
  <2>3. nth(i) = r
    BY <1>5, <2>2
  <2>4. QED
    BY <2>1, <2>3
<1>9. s \in [1 .. n -> S]
  BY <1>2, <1>7
<1>10. s \in Seq(S) /\ Len(s) = n /\ DOMAIN s = 1 .. n
  BY <1>3, <1>9, FunctionIsSequence
<1>11. \A i \in 1 .. n : s[i] = nth(i)
  BY <1>2
<1>12. \A i, j \in 1 .. n : s[i] = s[j] => i = j
  <2>1. \A i \in 1 .. n : rank(s[i]) = i - 1
    BY <1>7, <1>11
  <2>2. \A i \in 1 .. n : i \in Int
    OBVIOUS
  <2>3. QED
    BY <2>1, <2>2
<1>13. ASSUME NEW i \in 1 .. n, NEW j \in 1 .. n, i < j
       PROVE  Earlier(e, s[i], s[j])
  <2>1. s[i] \in S /\ s[j] \in S /\ rank(s[i]) = i - 1 /\ rank(s[j]) = j - 1
    BY <1>7, <1>11
  <2>2. rank(s[i]) < rank(s[j])
    BY <1>13, <2>1
  <2>3. QED
    BY <1>5, <2>1, <2>2
<1>14. Lists(s, S)
  BY <1>3, <1>8, <1>10, <1>11, <1>12 DEF Lists
<1>15. QED
  BY <1>10, <1>13, <1>14 DEF s

\* u is s, then t.
Joined(u, s, t) ==
  /\ Len(u) = Len(s) + Len(t)
  /\ \A i \in 1 .. Len(s) : u[i] = s[i]
  /\ \A i \in 1 .. Len(t) : u[Len(s) + i] = t[i]

\* Two lists of disjoint sets, one after the other, list the union.
LEMMA ListsConcat ==
  ASSUME NEW A, NEW B, NEW s, NEW t, Lists(s, A), Lists(t, B), A \cap B = {}
  PROVE  Lists(s \o t, A \cup B) /\ Joined(s \o t, s, t)
<1> DEFINE u == s \o t
           m == Len(s)
           n == Len(t)
<1>1. m \in Nat /\ n \in Nat /\ s \in Seq(A) /\ t \in Seq(B) /\ s \in Seq(A \cup B) /\ t \in Seq(A \cup B)
  BY DEF Lists
<1>2. u \in Seq(A \cup B) /\ Len(u) = m + n /\ DOMAIN u = 1 .. (m + n)
  BY <1>1
<1>3. \A i \in 1 .. m : u[i] = s[i] /\ s[i] \in A
  BY <1>1
<1>4. \A i \in 1 .. n : u[m + i] = t[i] /\ t[i] \in B
  BY <1>1
<1> HIDE DEF u, m, n
<1>5. \A i \in 1 .. (m + n) : i \in 1 .. m \/ \E k \in 1 .. n : i = m + k
  <2>1. ASSUME NEW i \in 1 .. (m + n), i \notin 1 .. m
        PROVE  i - m \in 1 .. n /\ i = m + (i - m)
    BY <1>1, <2>1
  <2>2. QED
    BY <2>1
<1>6. \A i \in 1 .. m : i \in 1 .. (m + n)
  BY <1>1
<1>7. \A i \in 1 .. n : m + i \in 1 .. (m + n)
  BY <1>1
<1>8. ASSUME NEW r \in A \cup B
      PROVE  \E i \in 1 .. (m + n) : u[i] = r
  <2>1. CASE r \in A
    <3>1. PICK i \in 1 .. m : s[i] = r
      BY <2>1 DEF Lists, m
    <3>2. QED
      BY <1>3, <1>6, <3>1
  <2>2. CASE r \in B
    <3>1. PICK i \in 1 .. n : t[i] = r
      BY <2>2 DEF Lists, n
    <3>2. QED
      BY <1>4, <1>7, <3>1
  <2>3. QED
    BY <2>1, <2>2
<1>9. ASSUME NEW i \in 1 .. (m + n), NEW j \in 1 .. (m + n), u[i] = u[j]
      PROVE  i = j
  <2>1. CASE i \in 1 .. m /\ j \in 1 .. m
    <3>1. s[i] = s[j]
      BY <1>3, <1>9, <2>1
    <3>2. QED
      BY <2>1, <3>1 DEF Lists, m
  <2>2. CASE i \in 1 .. m /\ j \notin 1 .. m
    <3>1. PICK k \in 1 .. n : j = m + k
      BY <1>5, <2>2
    <3>2. u[i] \in A /\ u[j] \in B
      BY <1>3, <1>4, <2>2, <3>1
    <3>3. QED
      BY <1>9, <3>2
  <2>3. CASE i \notin 1 .. m /\ j \in 1 .. m
    <3>1. PICK k \in 1 .. n : i = m + k
      BY <1>5, <2>3
    <3>2. u[i] \in B /\ u[j] \in A
      BY <1>3, <1>4, <2>3, <3>1
    <3>3. QED
      BY <1>9, <3>2
  <2>4. CASE i \notin 1 .. m /\ j \notin 1 .. m
    <3>1. PICK k \in 1 .. n : i = m + k
      BY <1>5, <2>4
    <3>2. PICK l \in 1 .. n : j = m + l
      BY <1>5, <2>4
    <3>3. t[k] = t[l]
      BY <1>4, <1>9, <3>1, <3>2
    <3>4. k = l
      BY <3>3 DEF Lists, n
    <3>5. QED
      BY <3>1, <3>2, <3>4
  <2>5. QED
    BY <2>1, <2>2, <2>3, <2>4
<1>10. Lists(u, A \cup B)
  <2>1. m + n \in Nat
    BY <1>1
  <2>2. QED
    BY <1>2, <1>8, <1>9, <2>1 DEF Lists
<1>11. QED
  BY <1>2, <1>3, <1>4, <1>10 DEF u, m, n, Joined

\* The candidates are the runnable requests; among those that wait, and among
\* those that decode, the earlier one comes first; under DecodeFirst the
\* decoding ones come first, in the same order whoever waits.
LEMMA CandidatesList ==
  ASSUME NEW e, NEW ids, IsFiniteSet(ids), Comparable(e, ids)
  PROVE  LET s == Candidates(e, ids)
             decodes == ids \cap InPhase(e, {"Decoding"})
         IN  /\ Lists(s, ids)
             /\ \A i, j \in 1 .. Len(s) :
                  /\ s[i] \notin InPhase(e, {"Decoding"})
                  /\ s[j] \notin InPhase(e, {"Decoding"})
                  /\ Earlier(e, s[i], s[j])
                  => i < j
             /\ Policy = "DecodeFirst" =>
                  /\ Lists(InOrder(e, decodes), decodes)
                  /\ Len(s) >= Len(InOrder(e, decodes))
                  /\ \A i \in 1 .. Len(s) :
                       IF i <= Len(InOrder(e, decodes)) THEN s[i] = InOrder(e, decodes)[i]
                       ELSE s[i] \notin decodes
<1> DEFINE decodes == ids \cap InPhase(e, {"Decoding"})
           others == ids \ decodes
           D == InOrder(e, decodes)
           W == InOrder(e, others)
           s == Candidates(e, ids)
<1>1. IsFiniteSet(decodes) /\ IsFiniteSet(others)
      /\ Comparable(e, decodes) /\ Comparable(e, others)
  BY FS_Subset DEF Comparable
<1>2. Lists(D, decodes) /\ \A i, j \in 1 .. Len(D) : i < j => Earlier(e, D[i], D[j])
  BY <1>1, InOrderLists
<1>3. Lists(W, others) /\ \A i, j \in 1 .. Len(W) : i < j => Earlier(e, W[i], W[j])
  BY <1>1, InOrderLists
<1>4. ASSUME NEW a \in ids, NEW b \in ids, Earlier(e, a, b)
      PROVE  ~Earlier(e, b, a) /\ a # b
  BY <1>4 DEF Comparable, Earlier
<1>5. CASE Policy # "DecodeFirst"
  <2>1. s = InOrder(e, ids)
    BY <1>5 DEF Candidates
  <2>2. Lists(s, ids) /\ \A i, j \in 1 .. Len(s) : i < j => Earlier(e, s[i], s[j])
    BY <2>1, InOrderLists
  <2> HIDE DEF s
  <2>3. ASSUME NEW i \in 1 .. Len(s), NEW j \in 1 .. Len(s), Earlier(e, s[i], s[j])
        PROVE  i < j
    <3>1. s[i] \in ids /\ s[j] \in ids /\ Len(s) \in Nat
      BY <2>2 DEF Lists
    <3>2. ~(j < i) /\ i # j
      BY <1>4, <2>2, <2>3, <3>1
    <3>3. QED
      BY <3>1, <3>2
  <2>4. QED
    BY <1>5, <2>2, <2>3 DEF s
<1>6. CASE Policy = "DecodeFirst"
  <2>1. s = D \o W
    BY <1>6 DEF Candidates
  <2>2. decodes \cap others = {} /\ decodes \cup others = ids
    OBVIOUS
  <2> HIDE DEF s, D, W, decodes, others
  <2>3. Lists(D \o W, decodes \cup others) /\ Joined(D \o W, D, W)
    BY <1>2, <1>3, <2>2, ListsConcat
  <2>4. Lists(s, ids) /\ Len(s) = Len(D) + Len(W)
        /\ (\A i \in 1 .. Len(D) : s[i] = D[i]) /\ (\A i \in 1 .. Len(W) : s[Len(D) + i] = W[i])
    BY <2>1, <2>2, <2>3 DEF Joined
  <2>5. Len(D) \in Nat /\ Len(W) \in Nat
    BY <1>2, <1>3 DEF Lists
  <2>6. ASSUME NEW i \in 1 .. Len(s), ~(i <= Len(D))
        PROVE  \E k \in 1 .. Len(W) : i = Len(D) + k
    <3>1. i - Len(D) \in 1 .. Len(W) /\ i = Len(D) + (i - Len(D))
      BY <2>4, <2>5, <2>6
    <3>2. QED
      BY <3>1
  <2>7. ASSUME NEW i \in 1 .. Len(s)
        PROVE  IF i <= Len(D) THEN s[i] = D[i] /\ s[i] \in decodes ELSE s[i] \notin decodes
    <3>1. CASE i <= Len(D)
      <4>1. i \in 1 .. Len(D)
        BY <2>5, <3>1
      <4>2. QED
        BY <1>2, <2>4, <3>1, <4>1 DEF Lists
    <3>2. CASE ~(i <= Len(D))
      <4>1. PICK k \in 1 .. Len(W) : i = Len(D) + k
        BY <2>6, <3>2
      <4>2. W[k] \in others
        BY <1>3 DEF Lists
      <4>3. QED
        BY <2>2, <2>4, <3>2, <4>1, <4>2
    <3>3. QED
      BY <3>1, <3>2
  <2>8. ASSUME NEW i \in 1 .. Len(s), NEW j \in 1 .. Len(s),
               s[i] \notin InPhase(e, {"Decoding"}), s[j] \notin InPhase(e, {"Decoding"}),
               Earlier(e, s[i], s[j])
        PROVE  i < j
    <3>1. s[i] \in ids /\ s[j] \in ids /\ Len(s) \in Nat
      BY <2>4 DEF Lists
    <3>2. ~(i <= Len(D)) /\ ~(j <= Len(D))
      BY <2>7, <2>8 DEF decodes
    <3>3. PICK k \in 1 .. Len(W) : i = Len(D) + k
      BY <2>6, <3>2
    <3>4. PICK l \in 1 .. Len(W) : j = Len(D) + l
      BY <2>6, <3>2
    <3>5. s[i] = W[k] /\ s[j] = W[l]
      BY <2>4, <3>3, <3>4
    <3>6. l < k => Earlier(e, s[j], s[i])
      BY <1>3, <3>5
    <3>7. ~(l < k) /\ k # l
      BY <1>4, <2>8, <3>1, <3>5, <3>6
    <3>8. QED
      BY <2>5, <3>3, <3>4, <3>7
  <2>9. Len(s) >= Len(D)
    BY <2>4, <2>5
  <2>10. QED
    BY <1>2, <2>4, <2>7, <2>8, <2>9 DEF s, D, decodes
<1>7. QED
  BY <1>5, <1>6

-----------------------------------------------------------------------------
(* What an accepted call of the manager does for one request.                *)

\* What a call wants fits into the free blocks and n more: no more than n are short.
LEMMA ShortageFits ==
  ASSUME NEW m \in Manager, NEW required \in Nat, NEW n \in Nat,
         required <= Cardinality(m.free) + n
  PROVE  ~(Shortage(m, required) > n)
<1>1. Cardinality(m.free) \in Nat
  BY BlocksAreFinite DEF Manager
<1>2. QED
  BY <1>1 DEF Shortage

\* The blocks that are evicted are those of the new blocks that were not free.
LEMMA EvictedAreUsed ==
  ASSUME NEW m \in Manager, NEW S \in SUBSET Block, S \cap m.free = {},
         NEW required \in Nat, NEW short, short = Shortage(m, required),
         ~(short > Cardinality(S)),
         NEW evictions, evictions = LeastRecentlyUsed(m, S, short),
         NEW ids, ids = Ascending(Lowest(m.free \cup evictions, required))
  PROVE  evictions = Range(ids) \ m.free
<1>1. evictions \in SUBSET S /\ Range(ids) \subseteq m.free \cup evictions
  BY ChoiceSuffices
<1>2. CASE evictions = {}
  BY <1>1, <1>2
<1>3. CASE evictions # {}
  <2>1. required \in Int
    OBVIOUS
  <2>2. Lowest(m.free \cup evictions, required) = m.free \cup evictions
    BY <1>3, <2>1, PoolIsUsedUp
  <2>3. m.free \cup evictions \in SUBSET Block
    BY <1>1 DEF Manager
  <2>4. Range(ids) = m.free \cup evictions
    BY <2>2, <2>3, AscendingRange
  <2>5. QED
    BY <1>1, <2>4
<1>4. QED
  BY <1>2, <1>3

\* The planner's choice of blocks: `evictions` are the least recently used of S,
\* `ids` the lowest blocks that are free then.
Reserved(m, S, required, evictions, ids) ==
  /\ evictions = LeastRecentlyUsed(m, S, Shortage(m, required))
  /\ ids = Ascending(Lowest(m.free \cup evictions, required))
  /\ ~(Shortage(m, required) > Cardinality(S))

Chooses(m, S, required, evictions, ids) ==
  /\ evictions = Range(ids) \ m.free
  /\ evictions \in SUBSET S
  /\ ids \in Seq(Block) /\ Len(ids) = required /\ IsInjective(ids)
  /\ Range(ids) \subseteq m.free \cup evictions

\* What Reserve picks is what the manager itself would pick.
LEMMA ReservedBlocks ==
  ASSUME NEW m \in Manager, NEW S \in SUBSET Block, S \cap m.free = {}, NEW required \in Nat,
         NEW evictions, NEW ids, Reserved(m, S, required, evictions, ids)
  PROVE  Chooses(m, S, required, evictions, ids)
<1> DEFINE short == Shortage(m, required)
           E == LeastRecentlyUsed(m, S, short)
           A == Ascending(Lowest(m.free \cup E, required))
<1>1. evictions = E /\ ids = A /\ ~(short > Cardinality(S))
  BY DEF Reserved
<1> HIDE DEF A, E, short
<1>2. E = Range(A) \ m.free
  BY <1>1, EvictedAreUsed DEF A, E, short
<1>3. /\ E \in SUBSET S /\ A \in Seq(Block) /\ Len(A) = required /\ IsInjective(A)
      /\ Range(A) \subseteq m.free \cup E
  BY <1>1, ChoiceSuffices DEF A, E, short
<1>4. QED
  BY <1>1, <1>2, <1>3 DEF Chooses

\* The request at work: `hits` are blocks that are shared, `ids` blocks that are
\* new; r's table becomes t, then ids.
Grown(m, c, r, t, hits, ids) ==
  /\ c.tables = [m.tables EXCEPT ![r] = t \o ids]
  /\ \A b \in Range(ids) :
       c.blocks[b].state = "InUse" /\ c.blocks[b].key = None /\ m.blocks[b].state # "InUse"
       /\ b \notin hits
  /\ \A b \in hits : LET d == c.blocks[b] IN
       d.state = "InUse" /\ d.key # None /\ d.key = m.blocks[b].key /\ d.valid = m.blocks[b].valid
  /\ \A b \in Block : b \in hits \/ b \in Range(ids) \/ c.blocks[b] = m.blocks[b]

\* The copy before eviction and claims: the hits are acquired.
Sharing(m, a, r, t, hits) ==
  /\ Draft(a) /\ a.free = m.free /\ a.tables = [m.tables EXCEPT ![r] = t]
  /\ \A b \in hits : LET d == a.blocks[b] IN
       b \in Block /\ d.state = "InUse" /\ d.key # None /\ d.key = m.blocks[b].key
       /\ d.valid = m.blocks[b].valid
  /\ \A b \in Block \ hits : a.blocks[b] = m.blocks[b]

\* c is the copy a after eviction and claims.
Granting(a, c, r, evictions, ids, tokens, provenance) ==
  c = ClaimBlocks(EvictBlocks(a, evictions), r, ids, tokens, provenance)

Provided(a, c, r, evictions, ids, tokens) ==
  /\ c.prov = a.prov /\ c.tables = [a.tables EXCEPT ![r] = @ \o ids]
  /\ \A i \in DOMAIN ids : c.blocks[ids[i]].valid = TokensAt(tokens, i)
  /\ \A i \in DOMAIN ids : LET d == c.blocks[ids[i]] IN d.state = "InUse" /\ d.key = None
  /\ \A b \in Block \ Range(ids) :
       c.blocks[b] = IF b \in evictions THEN FreeBlock ELSE a.blocks[b]

\* The blocks a call evicts and claims: nobody else is touched.
LEMMA GrantClaims ==
  ASSUME NEW a, Draft(a), NEW r \in Requests, NEW evictions \in SUBSET Block,
         NEW ids \in Seq(Block), IsInjective(ids), NEW tokens, NEW provenance,
         NEW c, Granting(a, c, r, evictions, ids, tokens, provenance)
  PROVE  Provided(a, c, r, evictions, ids, tokens)
<1> DEFINE e == EvictBlocks(a, evictions)
           d == ClaimBlocks(e, r, ids, tokens, provenance)
<1>1. c = d
  BY DEF Granting
<1>2. /\ Draft(e) /\ e.prov = a.prov /\ e.tables = a.tables
      /\ e.blocks = [b \in Block |-> IF b \in evictions THEN FreeBlock ELSE a.blocks[b]]
  BY EvictDraft
<1> HIDE DEF e, d
<1>3. Claimed(e, d, r, ids, tokens, provenance)
  BY <1>2, ClaimFields DEF d
<1>4. QED
  BY <1>1, <1>2, <1>3 DEF Claimed, Provided

Delivers(m, c, r, t, hits, ids, prov, tokens) ==
  /\ Grown(m, c, r, t, hits, ids) /\ c.prov = prov
  /\ \A i \in DOMAIN ids : c.blocks[ids[i]].valid = TokensAt(tokens, i)

\* A table grows by the blocks found and the blocks claimed.
LEMMA GrantGrows ==
  ASSUME NEW m \in Manager, Valid(m), NEW r \in Requests, NEW t, NEW hits \in SUBSET Block,
         NEW a, Sharing(m, a, r, t, hits), NEW required \in Nat, NEW evictions, NEW ids,
         Reserved(m, Cached(m) \ hits, required, evictions, ids),
         NEW tokens \in Nat, NEW provenance,
         NEW c, Granting(a, c, r, evictions, ids, tokens, provenance)
  PROVE  Delivers(m, c, r, t, hits, ids, a.prov, tokens)
<1> DEFINE S == Cached(m) \ hits
<1>1. S \in SUBSET Block /\ S \cap m.free = {} /\ S \cap hits = {}
      /\ \A b \in S : m.blocks[b].state = "Cached"
  BY BlockFacts DEF Cached
<1>2. Reserved(m, S, required, evictions, ids)
  OBVIOUS
<1> HIDE DEF S
<1>3. /\ evictions = Range(ids) \ m.free
      /\ evictions \in SUBSET S /\ ids \in Seq(Block) /\ Len(ids) = required /\ IsInjective(ids)
      /\ Range(ids) \subseteq m.free \cup evictions
  BY <1>1, <1>2, ReservedBlocks DEF Chooses
<1>4. evictions \in SUBSET Block /\ Draft(a)
  BY ONLY <1>1, <1>3, Sharing(m, a, r, t, hits) DEF Sharing
<1>5. /\ c.prov = a.prov /\ c.tables = [a.tables EXCEPT ![r] = @ \o ids]
      /\ \A i \in DOMAIN ids : c.blocks[ids[i]].valid = TokensAt(tokens, i)
      /\ \A i \in DOMAIN ids : LET d == c.blocks[ids[i]] IN d.state = "InUse" /\ d.key = None
      /\ \A b \in Block \ Range(ids) :
           c.blocks[b] = IF b \in evictions THEN FreeBlock ELSE a.blocks[b]
  <2>1. Granting(a, c, r, evictions, ids, tokens, provenance)
    OBVIOUS
  <2>2. ids \in Seq(Block) /\ IsInjective(ids)
    BY <1>3
  <2>3. Provided(a, c, r, evictions, ids, tokens)
    BY ONLY <1>4, r \in Requests, <2>1, <2>2, GrantClaims
  <2>4. QED
    BY <2>3 DEF Provided
<1>6. a.tables = [m.tables EXCEPT ![r] = t] /\ DOMAIN m.tables = Requests
  BY DEF Sharing, Manager
<1>7. c.tables = [m.tables EXCEPT ![r] = t \o ids]
  BY <1>5, <1>6
<1>8. \A b \in m.free \cup S : b \in Block /\ m.blocks[b].state # "InUse" /\ b \notin hits
  <2>1. ASSUME NEW b \in m.free
        PROVE  b \in Block /\ m.blocks[b].state = "Free" /\ m.blocks[b].key = None
    <3>1. b \in Block
      BY <2>1 DEF Manager
    <3>2. m.blocks[b] = FreeBlock
      BY <2>1, <3>1, BlockFacts
    <3>3. QED
      BY <3>1, <3>2 DEF FreeBlock
  <2>2. \A b \in hits : m.blocks[b].key # None
    BY DEF Sharing
  <2>3. QED
    BY <1>1, <2>1, <2>2
<1>9. ASSUME NEW b \in Range(ids)
      PROVE  /\ c.blocks[b].state = "InUse" /\ c.blocks[b].key = None
             /\ m.blocks[b].state # "InUse" /\ b \notin hits
  <2>1. PICK i \in DOMAIN ids : b = ids[i]
    BY DEF Range
  <2>2. c.blocks[b].state = "InUse" /\ c.blocks[b].key = None
    BY <1>5, <2>1
  <2>3. b \in m.free \cup S
    BY <1>3
  <2>4. QED
    BY <1>8, <2>2, <2>3
<1>10. \A b \in Block \ Range(ids) : c.blocks[b] = a.blocks[b]
  BY <1>3, <1>5
<1>11. \A b \in hits : c.blocks[b] = a.blocks[b]
  BY <1>9, <1>10
<1>12. Grown(m, c, r, t, hits, ids)
  <2>1. \A b \in hits : LET d == c.blocks[b] IN
          d.state = "InUse" /\ d.key # None /\ d.key = m.blocks[b].key /\ d.valid = m.blocks[b].valid
    BY <1>11 DEF Sharing
  <2>2. \A b \in Block : b \in hits \/ b \in Range(ids) \/ c.blocks[b] = m.blocks[b]
    BY <1>10 DEF Sharing
  <2>3. QED
    BY ONLY <1>7, <1>9, <2>1, <2>2 DEF Grown
<1>13. QED
  BY ONLY <1>5, <1>12 DEF Delivers

\* Whatever an admission or an append replies, its manager is sound.
LEMMA RepliesAreManagers ==
  ASSUME NEW m \in Manager, Valid(m), NEW r, NEW reply,
         Refused(m, reply) \/ Granted(m, r, reply) \/ Appended(m, r, reply)
  PROVE  reply.kv \in Manager /\ Valid(reply.kv)
<1>1. CASE Refused(m, reply)
  BY <1>1, RefusedKeepsManager
<1>2. CASE Granted(m, r, reply)
  <2>1. PICK T, copy : /\ Draft(copy) /\ copy.tables \in [Requests -> Seq(T)]
                       /\ Accepted(reply, copy)
    BY <1>2 DEF Granted
  <2>2. QED
    BY <2>1, ReplyKeepsManager
<1>3. CASE Appended(m, r, reply)
  <2>1. PICK T, copy : /\ Draft(copy) /\ copy.tables \in [Requests -> Seq(T)]
                       /\ Accepted(reply, copy)
    BY <1>3 DEF Appended
  <2>2. QED
    BY <2>1, ReplyKeepsManager
<1>4. QED
  BY <1>1, <1>2, <1>3

\* A call that found blocks enough: it ends well, or a number does not fit, or its
\* copy is not valid; if it ends well, r's table is t and then ids.
Served(m, reply, r, t, hits, ids, prov, tokens) ==
  /\ reply.outcome \in {"ok", "overflow", "logic_error"}
  /\ reply.kv \in Manager /\ Valid(reply.kv)
  /\ reply.outcome = "ok" =>
       Delivers(m, reply.kv, r, t, hits, ids, prov, tokens)

\* How a call on a copy that was granted blocks ends.
LEMMA GrantIsServed ==
  ASSUME NEW m \in Manager, Valid(m), NEW r \in Requests, NEW t, NEW hits \in SUBSET Block,
         NEW a, Sharing(m, a, r, t, hits), NEW required \in Nat, NEW evictions, NEW ids,
         Reserved(m, Cached(m) \ hits, required, evictions, ids),
         NEW tokens \in Nat, NEW provenance,
         NEW c, Granting(a, c, r, evictions, ids, tokens, provenance),
         Commit(m, c).kv \in Manager, Valid(Commit(m, c).kv)
  PROVE  Served(m, Commit(m, c), r, t, hits, ids, a.prov, tokens)
<1>1. Delivers(m, c, r, t, hits, ids, a.prov, tokens)
  BY GrantGrows
<1>2. Commit(m, c).outcome = "ok" => Commit(m, c).kv = c
  BY DEF Commit, Refuse
<1>3. Commit(m, c).outcome \in {"ok", "overflow", "logic_error"}
  BY DEF Commit, Refuse
<1>4. QED
  BY <1>1, <1>2, <1>3 DEF Served

CountOnly(tokens) ==
  [exact |-> FALSE, chunks |-> <<>>, total |-> tokens, matched |-> 0, published |-> FALSE]

\* allocate_prompt gives the blocks that were reserved for the prompt.
LEMMA PromptIsServed ==
  ASSUME NEW m \in Manager, Valid(m), NEW r \in Requests, m.prov[r] = None, NEW tokens \in Nat,
         NEW evictions, NEW ids, Reserved(m, Cached(m), BlocksRequired(tokens), evictions, ids)
  PROVE  Served(m, AllocatePrompt(m, r, tokens), r, <<>>, {}, ids,
                [m.prov EXCEPT ![r] = CountOnly(tokens)], tokens)
<1> DEFINE required == BlocksRequired(tokens)
           short == Shortage(m, required)
           E == LeastRecentlyUsed(m, Cached(m), short)
           A == Ascending(Lowest(m.free \cup E, required))
           provenance == [i \in DOMAIN A |-> "PrivatePromptCountOnly"]
           admitted == [m EXCEPT !.prov[r] = CountOnly(tokens)]
           c == ClaimBlocks(EvictBlocks(admitted, E), r, A, tokens, provenance)
           reply == AllocatePrompt(m, r, tokens)
<1>1. required \in Nat
  BY BlocksSuffice
<1>2. reply.kv \in Manager /\ Valid(reply.kv)
  <2>1. Refused(m, reply) \/ (Granted(m, r, reply) /\ reply.kv.prov[r].chunks = <<>>)
    BY AllocatePromptReply
  <2> HIDE DEF reply
  <2>2. QED
    BY <2>1, RepliesAreManagers
<1>3. ~(short > Cardinality(Cached(m))) /\ evictions = E /\ ids = A
  BY DEF Reserved
<1>4. CASE required > 0 /\ m.epoch = EpochLimit
  <2>1. reply = Refuse(m, "overflow")
    BY <1>3, <1>4 DEF AllocatePrompt
  <2>2. reply.outcome = "overflow"
    BY <2>1 DEF Refuse
  <2> HIDE DEF reply
  <2>3. QED
    BY <1>2, <2>2 DEF Served, reply
<1>5. CASE ~(required > 0 /\ m.epoch = EpochLimit)
  <2>1. reply = Commit(m, c)
    BY <1>3, <1>5 DEF AllocatePrompt, CountOnly
  <2>2. Sharing(m, admitted, r, <<>>, {}) /\ admitted.prov = [m.prov EXCEPT ![r] = CountOnly(tokens)]
    <3>1. CountOnly(tokens) \in RequestProvenance
      BY DEF RequestProvenance, CountOnly
    <3>2. admitted \in Manager
      BY <3>1 DEF Manager
    <3>3. m.tables[r] = <<>> /\ m.tables \in [Requests -> Seq(Block)]
      BY DEF Valid, Live, Manager
    <3>4. /\ admitted.blocks = m.blocks /\ admitted.free = m.free /\ admitted.tables = m.tables
          /\ admitted.prov = [m.prov EXCEPT ![r] = CountOnly(tokens)]
      BY DEF Manager
    <3> HIDE DEF admitted
    <3>5. m.tables = [m.tables EXCEPT ![r] = <<>>]
      BY <3>3
    <3>6. QED
      BY <3>2, <3>4, <3>5, ManagerIsDraft DEF Sharing
  <2>3. Granting(admitted, c, r, E, A, tokens, provenance)
    BY DEF Granting
  <2>4. Reserved(m, Cached(m) \ {}, required, E, A)
    BY <1>3 DEF Reserved
  <2> HIDE DEF admitted, c, E, A, required, provenance, reply
  <2>5. Served(m, Commit(m, c), r, <<>>, {}, A, admitted.prov, tokens)
    <3>1. Commit(m, c).kv \in Manager /\ Valid(Commit(m, c).kv)
      BY <1>2, <2>1
    <3>2. {} \in SUBSET Block
      OBVIOUS
    <3>3. QED
      BY ONLY <1>1, <2>2, <2>3, <2>4, <3>1, <3>2, m \in Manager, Valid(m), r \in Requests,
              tokens \in Nat, GrantIsServed
  <2>6. QED
    BY <1>3, <2>1, <2>2, <2>5 DEF reply
<1>6. QED
  BY <1>4, <1>5

\* Whether a prompt is exact is not looked at by an exact admission.
LEMMA OnlyChunksAndTail ==
  ASSUME NEW m, NEW r, NEW prompt, NEW supplied
  PROVE  AllocatePromptWithPrefix(m, r, prompt, supplied)
           = AllocatePromptWithPrefix(m, r, [chunks |-> prompt.chunks, tail |-> prompt.tail], supplied)
<1>1. PICK copy : copy = [chunks |-> prompt.chunks, tail |-> prompt.tail]
  OBVIOUS
<1>2. copy.chunks = prompt.chunks /\ copy.tail = prompt.tail
  BY <1>1
<1>3. Total(copy) = Total(prompt)
  BY <1>2 DEF Total
<1>4. AllocatePromptWithPrefix(m, r, prompt, supplied) = AllocatePromptWithPrefix(m, r, copy, supplied)
  BY ONLY <1>2, <1>3 DEF AllocatePromptWithPrefix
<1>5. QED
  BY <1>1, <1>4

Exact(prompt, matched) ==
  [exact |-> TRUE, chunks |-> prompt.chunks, total |-> Total(prompt), matched |-> matched,
   published |-> FALSE]

\* A prompt with full blocks and a tail.
ExactPrompt(prompt) ==
  prompt.chunks \in Seq(Chunks) /\ prompt.tail \in 0 .. BlockSize - 1

\* allocate_prompt_with_prefix never leaves an unsound manager.
LEMMA ExactReplyIsManager ==
  ASSUME NEW m \in Manager, Valid(m), NEW r \in Requests, m.prov[r] = None,
         NEW prompt, ExactPrompt(prompt), NEW supplied
  PROVE  /\ AllocatePromptWithPrefix(m, r, prompt, supplied).kv \in Manager
         /\ Valid(AllocatePromptWithPrefix(m, r, prompt, supplied).kv)
<1>1. PICK copy : copy = [chunks |-> prompt.chunks, tail |-> prompt.tail]
  OBVIOUS
<1>2. PICK reply : reply = AllocatePromptWithPrefix(m, r, copy, supplied)
  OBVIOUS
<1>3. reply = AllocatePromptWithPrefix(m, r, prompt, supplied)
  BY <1>1, <1>2, OnlyChunksAndTail
<1>4. prompt.chunks \in Seq(Chunks) /\ prompt.tail \in 0 .. BlockSize - 1
  BY DEF ExactPrompt
<1>5. Refused(m, reply) \/ Granted(m, r, reply)
  BY <1>1, <1>2, <1>4, AllocatePromptWithPrefixReply
<1>6. reply.kv \in Manager /\ Valid(reply.kv)
  BY ONLY <1>5, m \in Manager, Valid(m), RepliesAreManagers
<1>7. QED
  BY <1>3, <1>6

\* What is left of an exact prompt after its hits.
LEMMA SuffixType ==
  ASSUME NEW prompt, ExactPrompt(prompt), NEW n \in 0 .. Len(prompt.chunks)
  PROVE  /\ Total(prompt) \in Nat /\ Total(prompt) - n * BlockSize \in Nat
         /\ n * BlockSize \in Nat
<1>1. PICK L : L = Len(prompt.chunks) /\ L \in Nat /\ n \in 0 .. L
  BY DEF ExactPrompt
<1>2. PICK tail \in 0 .. BlockSize - 1 : tail = prompt.tail
  BY DEF ExactPrompt
<1>3. Total(prompt) = L * BlockSize + tail
  BY <1>1, <1>2 DEF Total
<1>4. PICK total : total = L * BlockSize + tail
  OBVIOUS
<1>5. PICK suffix : suffix = total - n * BlockSize
  OBVIOUS
<1>6. total \in Nat /\ suffix \in Nat
  BY <1>1, <1>2, <1>4, <1>5, SuffixOfPrompt
<1>7. n * BlockSize \in Nat
  BY <1>1, KVAssumption
<1>8. QED
  BY <1>3, <1>4, <1>5, <1>6, <1>7

Suffix(prompt, matched) == Total(prompt) - Len(matched) * BlockSize
Found(m, prompt, matched) == matched = Lookup(m, prompt.chunks)

\* lookup_prefix: the blocks found are cached or in use, and not more than the prompt.
LEMMA FoundBlocks ==
  ASSUME NEW m \in Manager, Valid(m), NEW prompt, ExactPrompt(prompt),
         NEW matched, Found(m, prompt, matched)
  PROVE  /\ matched \in Seq(Block) /\ Len(matched) \in 0 .. Len(prompt.chunks)
         /\ Range(matched) \in SUBSET Block
         /\ \A b \in Range(matched) : m.blocks[b].key # None /\ m.blocks[b].state # "Free"
         /\ Suffix(prompt, matched) \in Nat
<1>1. prompt.chunks \in Seq(Chunks)
  BY DEF ExactPrompt
<1>2. PICK chunks \in Seq(Chunks) : chunks = prompt.chunks
  BY <1>1
<1>3. /\ Lookup(m, chunks) \in Seq(Block) /\ Len(Lookup(m, chunks)) \in 0 .. Len(chunks)
      /\ \A i \in DOMAIN Lookup(m, chunks) : m.blocks[Lookup(m, chunks)[i]].key = KeyAt(chunks, i)
  BY LookupHits
<1>4. matched = Lookup(m, chunks)
  BY <1>2 DEF Found
<1>5. /\ matched \in Seq(Block) /\ Len(matched) \in 0 .. Len(chunks)
      /\ \A i \in DOMAIN matched : m.blocks[matched[i]].key = KeyAt(chunks, i)
  BY <1>3, <1>4
<1>6. Range(matched) \in SUBSET Block
  BY <1>5 DEF Range
<1>7. ASSUME NEW b \in Range(matched)
      PROVE  m.blocks[b].key # None /\ m.blocks[b].state # "Free"
  <2>1. PICK i \in DOMAIN matched : b = matched[i]
    BY DEF Range
  <2>2. i \in 1 .. Len(chunks)
    BY <1>5
  <2>3. KeyAt(chunks, i) # None
    BY <2>2, KeyType, NoneAssumption
  <2>4. m.blocks[b].key # None /\ b \in Block
    BY <1>5, <1>6, <2>1, <2>3
  <2>5. QED
    BY <2>4, BlockFacts
<1>8. Suffix(prompt, matched) \in Nat
  <2>1. PICK n \in 0 .. Len(prompt.chunks) : n = Len(matched)
    BY <1>2, <1>5
  <2>2. Total(prompt) - n * BlockSize \in Nat
    BY SuffixType
  <2>3. QED
    BY <2>1, <2>2 DEF Suffix
<1>9. QED
  BY <1>2, <1>5, <1>6, <1>7, <1>8

\* A request is admitted with its hits: its record, then the blocks it shares.
Admitted(m, r, q, matched) == AcquireBlocks([m EXCEPT !.prov[r] = q], r, matched)
MayAcquire(m, matched) ==
  /\ matched \in Seq(Block) /\ Range(matched) \in SUBSET Block
  /\ \A b \in Range(matched) : m.blocks[b].key # None /\ m.blocks[b].state # "Free"
  /\ matched = <<>> \/ m.epoch < EpochLimit

\* Taking up the blocks found leaves everybody else as they are.
LEMMA AcquireShares ==
  ASSUME NEW m \in Manager, Valid(m), NEW r \in Requests, NEW q \in RequestProvenance,
         NEW matched, MayAcquire(m, matched)
  PROVE  /\ Sharing(m, Admitted(m, r, q, matched), r, matched, Range(matched))
         /\ Admitted(m, r, q, matched).prov = [m.prov EXCEPT ![r] = q]
<1> DEFINE admitted == [m EXCEPT !.prov[r] = q]
           a == AcquireBlocks(admitted, r, matched)
<1>1. admitted \in Manager
  BY DEF Manager
<1>2. /\ admitted.blocks = m.blocks /\ admitted.free = m.free /\ admitted.tables = m.tables
      /\ admitted.prov = [m.prov EXCEPT ![r] = q] /\ admitted.epoch = m.epoch
  BY DEF Manager
<1> HIDE DEF admitted
<1>0. /\ matched \in Seq(Block) /\ Range(matched) \in SUBSET Block
      /\ \A b \in Range(matched) : m.blocks[b].key # None /\ m.blocks[b].state # "Free"
      /\ matched = <<>> \/ m.epoch < EpochLimit
  BY DEF MayAcquire
<1>3. Draft(admitted)
  BY <1>1, ManagerIsDraft
<1>4. matched = <<>> \/ admitted.epoch < EpochLimit
  BY <1>0, <1>2
<1>5. Draft(a) /\ Acquired(admitted, a, r, matched)
  BY <1>0, <1>3, <1>4, AcquireDraft, AcquireFields
<1> HIDE DEF a
<1>6. /\ a.free = m.free /\ a.prov = [m.prov EXCEPT ![r] = q]
      /\ a.tables = [m.tables EXCEPT ![r] = matched]
  BY <1>2, <1>5 DEF Acquired
<1>7. \A b \in Range(matched) : LET d == a.blocks[b] IN
        b \in Block /\ d.state = "InUse" /\ d.key # None /\ d.key = m.blocks[b].key
        /\ d.valid = m.blocks[b].valid
  BY <1>0, <1>2, <1>5 DEF Acquired
<1>8. \A b \in Block \ Range(matched) : a.blocks[b] = m.blocks[b]
  BY <1>2, <1>5 DEF Acquired
<1>9. QED
  BY <1>5, <1>6, <1>7, <1>8 DEF Sharing, a, admitted, Admitted

\* allocate_prompt_with_prefix gives the blocks found and those reserved.
LEMMA PrefixIsServed ==
  ASSUME NEW m \in Manager, Valid(m), NEW r \in Requests, m.prov[r] = None,
         NEW prompt, ExactPrompt(prompt), NEW matched, Found(m, prompt, matched),
         NEW evictions, NEW ids,
         Reserved(m, Cached(m) \ Range(matched), BlocksRequired(Suffix(prompt, matched)),
                  evictions, ids)
  PROVE  Served(m, AllocatePromptWithPrefix(m, r, prompt, matched), r, matched, Range(matched),
                ids, [m.prov EXCEPT ![r] = Exact(prompt, Len(matched))], Suffix(prompt, matched))
<1> DEFINE tokens == Suffix(prompt, matched)
           required == BlocksRequired(tokens)
           unmatched == Cached(m) \ Range(matched)
           E == LeastRecentlyUsed(m, unmatched, Shortage(m, required))
           A == Ascending(Lowest(m.free \cup E, required))
           epochs == (IF matched = <<>> THEN 0 ELSE 1) + (IF required = 0 THEN 0 ELSE 1)
           q == Exact(prompt, Len(matched))
           provenance == [i \in DOMAIN A |-> IF Len(matched) + i <= Len(prompt.chunks)
                                             THEN "ComputedPromptFull" ELSE "PrivatePromptTail"]
           a == Admitted(m, r, q, matched)
           c == ClaimBlocks(EvictBlocks(a, E), r, A, tokens, provenance)
           reply == AllocatePromptWithPrefix(m, r, prompt, matched)
<1>1. /\ matched \in Seq(Block) /\ Len(matched) \in 0 .. Len(prompt.chunks)
      /\ Range(matched) \in SUBSET Block
      /\ \A b \in Range(matched) : m.blocks[b].key # None /\ m.blocks[b].state # "Free"
      /\ tokens \in Nat
  BY FoundBlocks
<1>2. reply.kv \in Manager /\ Valid(reply.kv)
  BY ExactReplyIsManager
<1>3. ~(Shortage(m, required) > Cardinality(unmatched)) /\ evictions = E /\ ids = A
  BY DEF Reserved
<1>4. matched = Lookup(m, prompt.chunks)
  BY DEF Found
<1>5. CASE epochs > EpochLimit - m.epoch
  <2>1. reply = Refuse(m, "overflow")
    BY ONLY <1>3, <1>4, <1>5 DEF AllocatePromptWithPrefix, Suffix
  <2>2. reply.outcome = "overflow"
    BY <2>1 DEF Refuse
  <2> HIDE DEF reply
  <2>3. QED
    BY <1>2, <2>2 DEF Served, reply
<1>6. CASE ~(epochs > EpochLimit - m.epoch)
  <2>1. reply = Commit(m, c)
    BY ONLY <1>3, <1>4, <1>6 DEF AllocatePromptWithPrefix, Suffix, Exact, Admitted
  <2>2. matched = <<>> \/ m.epoch < EpochLimit
    <3>1. epochs >= 1 \/ matched = <<>>
      OBVIOUS
    <3>2. epochs \in Nat /\ m.epoch \in Nat
      BY KVAssumption DEF Manager
    <3> HIDE DEF epochs
    <3>3. QED
      BY <1>6, <3>1, <3>2, KVAssumption
  <2>3. q \in RequestProvenance
    <3>1. Total(prompt) \in Nat /\ prompt.chunks \in Seq(Chunks) /\ Len(matched) \in Nat
      BY <1>1, SuffixType DEF ExactPrompt
    <3>2. QED
      BY <3>1 DEF Exact, RequestProvenance
  <2> HIDE DEF q
  <2>4. Sharing(m, a, r, matched, Range(matched)) /\ a.prov = [m.prov EXCEPT ![r] = q]
    <3>1. MayAcquire(m, matched)
      BY <1>1, <2>2 DEF MayAcquire
    <3>2. QED
      BY ONLY <2>3, <3>1, m \in Manager, Valid(m), r \in Requests, AcquireShares
  <2>5. Granting(a, c, r, E, A, tokens, provenance)
    BY DEF Granting
  <2>6. Reserved(m, Cached(m) \ Range(matched), required, E, A)
    BY <1>3 DEF Reserved
  <2>7. required \in Nat
    BY <1>1, BlocksSuffice
  <2>8. Commit(m, c).kv \in Manager /\ Valid(Commit(m, c).kv)
    BY <1>2, <2>1
  <2> HIDE DEF a, c, E, A, required, provenance, reply, tokens
  <2>9. Served(m, Commit(m, c), r, matched, Range(matched), A, a.prov, tokens)
    BY ONLY <1>1, <2>4, <2>5, <2>6, <2>7, <2>8, m \in Manager, Valid(m), r \in Requests,
            GrantIsServed
  <2>10. QED
    BY <1>3, <2>1, <2>4, <2>9 DEF reply, q, tokens
<1>7. QED
  BY <1>5, <1>6

\* c has one more token in a block of r that nobody else reads.
InPlace(m, c, r) ==
  /\ c.tables = m.tables /\ c.prov = m.prov
  /\ \E last \in Range(m.tables[r]) :
       /\ m.blocks[last].key = None /\ m.blocks[last].state = "InUse"
       /\ LET d == c.blocks[last] IN
          d.key = None /\ d.state = "InUse" /\ d.valid = m.blocks[last].valid + 1
       /\ \A b \in Block \ {last} : c.blocks[b] = m.blocks[b]

TokenServed(m, reply, r, ids) ==
  /\ reply.outcome \in {"ok", "overflow", "logic_error"}
  /\ reply.kv \in Manager /\ Valid(reply.kv)
  /\ reply.outcome = "ok" =>
       \/ Len(ids) = 1 /\ Delivers(m, reply.kv, r, m.tables[r], {}, ids, m.prov, 1)
       \/ ids = <<>> /\ InPlace(m, reply.kv, r)

NewBlocks(m, r) == IF DecodeRequiresNewBlock(m, r) THEN 1 ELSE 0

\* A token that fits into the last block changes that block only.
LEMMA AppendedInPlace ==
  ASSUME NEW m \in Manager, Valid(m), NEW r \in Live(m), ~DecodeRequiresNewBlock(m, r)
  PROVE  InPlace(m, [m EXCEPT !.blocks[Last(m.tables[r])].valid = @ + 1,
                              !.blocks[Last(m.tables[r])].epoch = m.epoch + 1,
                              !.represented = @ + 1,
                              !.epoch = @ + 1], r)
<1> DEFINE last == Last(m.tables[r])
           c == [m EXCEPT !.blocks[last].valid = @ + 1, !.blocks[last].epoch = m.epoch + 1,
                          !.represented = @ + 1, !.epoch = @ + 1]
<1>1. r \in Requests /\ m.tables[r] \in Seq(Block)
  BY DEF Live, Manager
<1>2. m.tables[r] # <<>> /\ m.blocks[last].key = None
  BY DEF DecodeRequiresNewBlock
<1>3. last \in Range(m.tables[r])
  <2>1. Len(m.tables[r]) \in DOMAIN m.tables[r]
    BY <1>1, <1>2
  <2>2. last = m.tables[r][Len(m.tables[r])]
    BY DEF Last
  <2> HIDE DEF last
  <2>3. QED
    BY <2>1, <2>2 DEF Range
<1> HIDE DEF last
<1>4. last \in Block /\ m.blocks[last].state = "InUse"
  BY <1>3, HeldBlocksAreInUse
<1>5. m.blocks[last] \in BlockMetadata
  BY <1>4, BlockFacts
<1>6. /\ c.tables = m.tables /\ c.prov = m.prov
      /\ \A b \in Block \ {last} : c.blocks[b] = m.blocks[b]
      /\ c.blocks[last] = [m.blocks[last] EXCEPT !.valid = @ + 1, !.epoch = m.epoch + 1]
  BY <1>4 DEF Manager
<1> HIDE DEF c
<1>7. \A d \in BlockMetadata :
        LET a == [d EXCEPT !.valid = @ + 1, !.epoch = m.epoch + 1]
        IN  a.state = d.state /\ a.key = d.key /\ a.valid = d.valid + 1
  BY DEF BlockMetadata
<1>8. c.blocks[last].key = None /\ c.blocks[last].state = "InUse"
      /\ c.blocks[last].valid = m.blocks[last].valid + 1
  BY <1>2, <1>4, <1>5, <1>6, <1>7
<1>9. InPlace(m, c, r)
  BY <1>2, <1>3, <1>4, <1>6, <1>8 DEF InPlace
<1>10. QED
  BY <1>9 DEF c, last

\* append_decode_token gives the block reserved, or uses the last one.
LEMMA TokenIsServed ==
  ASSUME NEW m \in Manager, Valid(m), NEW r \in Live(m), NEW evictions, NEW ids,
         Reserved(m, Cached(m), NewBlocks(m, r), evictions, ids)
  PROVE  TokenServed(m, AppendDecodeToken(m, r), r, ids)
<1> DEFINE new == DecodeRequiresNewBlock(m, r)
           required == IF new THEN 1 ELSE 0
           E == LeastRecentlyUsed(m, Cached(m), Shortage(m, required))
           A == Ascending(Lowest(m.free \cup E, required))
           provenance == [i \in DOMAIN A |-> "PrivateDecode"]
           c == ClaimBlocks(EvictBlocks(m, E), r, A, 1, provenance)
           last == Last(m.tables[r])
           appended == [m EXCEPT !.blocks[last].valid = @ + 1,
                                 !.blocks[last].epoch = m.epoch + 1,
                                 !.represented = @ + 1,
                                 !.epoch = @ + 1]
           reply == AppendDecodeToken(m, r)
<1>1. r \in Requests /\ m.prov[r] # None
  BY DEF Live
<1>2. reply.kv \in Manager /\ Valid(reply.kv)
  <2>1. Refused(m, reply) \/ Granted(m, r, reply) \/ Appended(m, r, reply)
    BY <1>1, AppendDecodeTokenReply
  <2> HIDE DEF reply
  <2>2. QED
    BY ONLY <2>1, m \in Manager, Valid(m), RepliesAreManagers
<1>3. ~(Shortage(m, required) > Cardinality(Cached(m))) /\ evictions = E /\ ids = A
  BY DEF Reserved, NewBlocks
<1>4. CASE m.epoch = EpochLimit
  <2>1. reply = Refuse(m, "overflow")
    BY <1>4 DEF AppendDecodeToken
  <2>2. reply.outcome = "overflow"
    BY <2>1 DEF Refuse
  <2> HIDE DEF reply
  <2>3. QED
    BY <1>2, <2>2 DEF TokenServed, reply
<1>5. CASE m.epoch # EpochLimit /\ new
  <2>1. reply = Commit(m, c)
    <3>1. required = 1
      BY <1>5
    <3>2. QED
      BY ONLY <1>3, <1>5, <3>1 DEF AppendDecodeToken
  <2>2. Sharing(m, m, r, m.tables[r], {})
    BY <1>1, ManagerIsDraft DEF Sharing, Manager
  <2>3. Granting(m, c, r, E, A, 1, provenance)
    BY DEF Granting
  <2>4. Reserved(m, Cached(m) \ {}, required, E, A)
    BY <1>3 DEF Reserved
  <2>5. required \in Nat /\ 1 \in Nat /\ {} \in SUBSET Block
    OBVIOUS
  <2>6. Commit(m, c).kv \in Manager /\ Valid(Commit(m, c).kv)
    BY <1>2, <2>1
  <2>7. required = 1
    BY <1>5
  <2>8. Cached(m) \in SUBSET Block /\ Cached(m) \cap m.free = {} /\ Cached(m) \ {} = Cached(m)
    BY BlockFacts DEF Cached
  <2> HIDE DEF c, E, A, required, provenance, reply
  <2>9. Served(m, Commit(m, c), r, m.tables[r], {}, A, m.prov, 1)
    BY ONLY <1>1, <2>2, <2>3, <2>4, <2>5, <2>6, m \in Manager, Valid(m), GrantIsServed
  <2>10. /\ E = Range(A) \ m.free /\ E \in SUBSET Cached(m)
         /\ A \in Seq(Block) /\ Len(A) = required /\ IsInjective(A)
         /\ Range(A) \subseteq m.free \cup E
    BY <2>4, <2>5, <2>8, ReservedBlocks DEF Chooses
  <2>11. Len(A) = 1
    BY <2>7, <2>10
  <2>12. QED
    BY <1>3, <2>1, <2>9, <2>11 DEF reply, Served, TokenServed
<1>6. CASE m.epoch # EpochLimit /\ ~new
  <2>1. reply = Commit(m, appended)
    <3>1. required = 0
      BY <1>6
    <3>2. QED
      BY ONLY <1>3, <1>6, <3>1 DEF AppendDecodeToken
  <2>2. InPlace(m, appended, r)
    BY <1>6, AppendedInPlace
  <2>3. A = <<>>
    <3>1. required = 0 /\ m.free \cup E \in SUBSET Block
      BY <1>6 DEF LeastRecentlyUsed, Cached, Manager
    <3> HIDE DEF E, required
    <3>2. required \in Int
      BY <3>1
    <3>3. QED
      BY <3>1, <3>2, LowestIsOfBlocks
  <2> HIDE DEF appended, A, reply
  <2>4. reply.outcome \in {"ok", "logic_error"} /\ (reply.outcome = "ok" => reply.kv = appended)
    BY <2>1 DEF Commit, Refuse
  <2>5. QED
    BY <1>2, <1>3, <2>2, <2>3, <2>4 DEF TokenServed, reply
<1>7. QED
  BY <1>4, <1>5, <1>6

-----------------------------------------------------------------------------
(* The tokens that a call leaves in a request's blocks.                      *)

LEMMA TokensOfManager ==
  ASSUME NEW c \in Manager
  PROVE  TokensAreInt(c) /\ \A b \in Block : c.blocks[b].valid \in Nat
<1>1. \A b \in Block : c.blocks[b] \in BlockMetadata
  BY DEF Manager
<1>2. \A d \in BlockMetadata : d.valid \in Nat
  BY KVAssumption DEF BlockMetadata
<1>3. QED
  BY <1>1, <1>2 DEF TokensAreInt

\* k full blocks hold k * BlockSize tokens.
LEMMA FullBlocks ==
  ASSUME NEW k \in Nat
  PROVE  /\ k * BlockSize \in Nat /\ BlocksRequired(k * BlockSize) = k
         /\ \A i \in 1 .. k : TokensAt(k * BlockSize, i) = BlockSize
<1>1. PICK n : n = k * BlockSize
  OBVIOUS
<1>2. 0 \in 0 .. BlockSize - 1 /\ n = k * BlockSize + 0 /\ n \in Nat
  BY <1>1, KVAssumption
<1>3. BlocksRequired(n) = k + (IF 0 = 0 THEN 0 ELSE 1)
  BY <1>2, BlocksAndTail
<1>4. ASSUME NEW i \in 1 .. k
      PROVE  TokensAt(n, i) = BlockSize
  <2>1. PICK d \in Nat : d = k - (i - 1) /\ d >= 1
    OBVIOUS
  <2>2. n - (i - 1) * BlockSize = d * BlockSize
    BY <1>1, <2>1, KVAssumption
  <2>3. d * BlockSize >= 1 * BlockSize
    BY <2>1, ProductGrows, KVAssumption
  <2>4. ~(n - (i - 1) * BlockSize < BlockSize)
    BY <2>2, <2>3, <2>1, KVAssumption
  <2>5. QED
    BY <2>4 DEF TokensAt
<1>5. QED
  BY <1>1, <1>2, <1>3, <1>4

\* Blocks with a key are full.
LEMMA TokensOfHits ==
  ASSUME NEW c \in Manager, Valid(c), NEW hits \in Seq(Block), IsInjective(hits),
         \A b \in Range(hits) : c.blocks[b].key # None
  PROVE  TokensIn(c, Range(hits)) = Len(hits) * BlockSize
<1>1. PICK k \in Nat : k = Len(hits)
  OBVIOUS
<1>2. PICK n \in Nat : n = k * BlockSize /\ BlocksRequired(n) = k
                       /\ \A i \in 1 .. k : TokensAt(n, i) = BlockSize
  BY FullBlocks
<1>3. DOMAIN hits = 1 .. k
  BY <1>1
<1>4. ASSUME NEW i \in DOMAIN hits
      PROVE  c.blocks[hits[i]].valid = TokensAt(n, i)
  <2>1. hits[i] \in Range(hits) /\ hits[i] \in Block
    BY DEF Range
  <2>2. BlockValid(c, hits[i]) /\ c.blocks[hits[i]].key # None
        /\ c.blocks[hits[i]].prov \in FullProvenance /\ hits[i] \notin c.free
    BY <2>1, BlockFacts
  <2>3. c.blocks[hits[i]].valid = BlockSize
    BY <2>2 DEF BlockValid
  <2>4. QED
    BY <1>2, <1>3, <2>3
<1>5. TokensAreInt(c)
  BY TokensOfManager
<1>6. Len(hits) = BlocksRequired(n)
  BY <1>1, <1>2
<1>7. TokensIn(c, Range(hits)) = n
  BY ONLY <1>4, <1>5, <1>6, n \in Nat, hits \in Seq(Block), IsInjective(hits), TokensOfIds
<1>8. QED
  BY <1>1, <1>2, <1>7

\* The request of a valid manager holds no block twice.
LEMMA TablesAreInjective ==
  ASSUME NEW c \in Manager, Valid(c), NEW r \in Live(c)
  PROVE  c.tables[r] \in Seq(Block) /\ IsInjective(c.tables[r]) /\ Range(c.tables[r]) \in SUBSET Block
BY DEF Live, Manager, Valid, TableValid

\* The parts of a table without repetitions have no block in common.
LEMMA ConcatParts ==
  ASSUME NEW s \in Seq(Block), NEW t \in Seq(Block), IsInjective(s \o t)
  PROVE  IsInjective(s) /\ IsInjective(t) /\ Range(s) \cap Range(t) = {}
         /\ Range(s \o t) = Range(s) \cup Range(t)
<1> DEFINE u == s \o t
           n == Len(s)
           k == Len(t)
<1>1. /\ u \in Seq(Block) /\ Len(u) = n + k /\ n \in Nat /\ k \in Nat
      /\ DOMAIN u = 1 .. (n + k) /\ DOMAIN s = 1 .. n /\ DOMAIN t = 1 .. k
  OBVIOUS
<1>2. \A i \in 1 .. n : u[i] = s[i]
  OBVIOUS
<1>3. \A i \in 1 .. k : u[n + i] = t[i]
  OBVIOUS
<1>4. Range(u) = Range(s) \cup Range(t)
  BY ConcatRange
<1> HIDE DEF u, n, k
<1>5. \A i, j \in 1 .. (n + k) : u[i] = u[j] => i = j
  BY <1>1 DEF IsInjective, u
<1>6. \A i, j \in DOMAIN s : s[i] = s[j] => i = j
  <2>1. \A i \in 1 .. n : i \in 1 .. (n + k)
    BY <1>1
  <2>2. QED
    BY <1>1, <1>2, <1>5, <2>1
<1>7. \A i, j \in DOMAIN t : t[i] = t[j] => i = j
  <2>1. \A i \in 1 .. k : n + i \in 1 .. (n + k)
    BY <1>1
  <2>2. ASSUME NEW i \in 1 .. k, NEW j \in 1 .. k, t[i] = t[j]
        PROVE  i = j
    <3>1. n + i = n + j
      BY <1>3, <1>5, <2>1, <2>2
    <3>2. QED
      BY <1>1, <3>1
  <2>3. QED
    BY <1>1, <2>2
<1>8. ASSUME NEW b \in Range(s), b \in Range(t)
      PROVE  FALSE
  <2>1. PICK i \in 1 .. n : b = s[i]
    BY <1>1 DEF Range
  <2>2. PICK j \in 1 .. k : b = t[j]
    BY <1>1, <1>8 DEF Range
  <2>3. i \in 1 .. (n + k) /\ n + j \in 1 .. (n + k)
    BY <1>1
  <2>6. u[i] = b /\ u[n + j] = b
    BY <1>2, <1>3, <2>1, <2>2
  <2>4. i = n + j
    BY <1>5, <2>3, <2>6
  <2>5. QED
    BY <1>1, <2>1, <2>2, <2>4
<1>9. QED
  BY <1>4, <1>6, <1>7, <1>8 DEF IsInjective, u

\* r's table is t, then `ids`, which hold so many tokens.
Holding(c, r, t, ids, tokens) ==
  /\ c.tables[r] = t \o ids /\ Len(ids) = BlocksRequired(tokens)
  /\ \A i \in DOMAIN ids : c.blocks[ids[i]].valid = TokensAt(tokens, i)

\* A table of shared blocks and new ones holds the tokens of both.
LEMMA TokensOfTable ==
  ASSUME NEW c \in Manager, Valid(c), NEW r \in Live(c),
         NEW t \in Seq(Block), NEW ids \in Seq(Block), NEW tokens \in Nat,
         Holding(c, r, t, ids, tokens)
  PROVE  /\ TokensHeld(c, r) = TokensIn(c, Range(t)) + tokens
         /\ IsInjective(t) /\ IsInjective(ids) /\ TokensIn(c, Range(t)) \in Int
<1>1. IsInjective(t \o ids)
  BY TablesAreInjective DEF Holding
<1>2. /\ IsInjective(t) /\ IsInjective(ids) /\ Range(t) \cap Range(ids) = {}
      /\ Range(t \o ids) = Range(t) \cup Range(ids)
  BY <1>1, ConcatParts
<1>3. TokensAreInt(c)
  BY TokensOfManager
<1>4. TokensIn(c, Range(ids)) = tokens
  BY <1>2, <1>3, TokensOfIds DEF Holding
<1>5. Range(t) \in SUBSET Block /\ Range(ids) \in SUBSET Block
  BY DEF Range
<1>6. /\ TokensIn(c, Range(t)) \in Int
      /\ TokensIn(c, Range(t) \cup Range(ids)) = TokensIn(c, Range(t)) + TokensIn(c, Range(ids))
  BY <1>2, <1>3, <1>5, TokensSplit
<1>7. QED
  BY <1>2, <1>4, <1>6 DEF TokensHeld, Holding

\* A token in the last block is one token more in the table.
LEMMA TokensInPlace ==
  ASSUME NEW m \in Manager, NEW c \in Manager, NEW r \in Requests,
         m.tables[r] \in Seq(Block), InPlace(m, c, r)
  PROVE  TokensHeld(c, r) = TokensHeld(m, r) + 1
<1>1. PICK last \in Range(m.tables[r]) :
         /\ c.blocks[last].valid = m.blocks[last].valid + 1
         /\ \A b \in Block \ {last} : c.blocks[b] = m.blocks[b]
  BY DEF InPlace
<1> DEFINE T == Range(m.tables[r])
           U == T \ {last}
<1>2. T \in SUBSET Block /\ last \in Block /\ U \in SUBSET Block /\ {last} \in SUBSET Block
      /\ U \cap {last} = {} /\ T = U \cup {last}
  BY DEF Range
<1> HIDE DEF T, U
<1>3. TokensAreInt(m) /\ TokensAreInt(c)
  BY TokensOfManager
<1>4. TokensIn(c, U) = TokensIn(m, U)
  <2>1. \A b \in U : c.blocks[b].valid = m.blocks[b].valid
    BY <1>1, <1>2
  <2>2. QED
    BY <1>2, <2>1, TokensAgree
<1>5. /\ TokensIn(m, U) \in Int
      /\ TokensIn(m, U \cup {last}) = TokensIn(m, U) + TokensIn(m, {last})
  BY <1>2, <1>3, TokensSplit
<1>6. TokensIn(c, U \cup {last}) = TokensIn(c, U) + TokensIn(c, {last})
  BY <1>2, <1>3, TokensSplit
<1>7. TokensIn(m, {last}) = m.blocks[last].valid /\ TokensIn(c, {last}) = c.blocks[last].valid
  BY <1>2, <1>3, TokensInOne
<1>8. m.blocks[last].valid \in Int
  BY <1>2, <1>3 DEF TokensAreInt
<1>9. TokensIn(c, T) = TokensIn(m, T) + 1
  BY <1>1, <1>2, <1>4, <1>5, <1>6, <1>7, <1>8
<1>10. c.tables = m.tables
  BY DEF InPlace
<1>11. QED
  BY <1>9, <1>10 DEF TokensHeld, T

\* An exact prompt is a sequence of full chunks and a shorter tail.
LEMMA PromptTypes ==
  ASSUME NEW prompt \in Prompts
  PROVE  /\ prompt.chunks \in Seq(Chunks) /\ prompt.tail \in Nat /\ prompt.exact \in BOOLEAN
         /\ Total(prompt) \in Nat
         /\ prompt.exact => ExactPrompt(prompt)
<1>1. /\ prompt.chunks \in Seq(Chunks) /\ prompt.tail \in Nat /\ prompt.exact \in BOOLEAN
      /\ prompt.exact => prompt.tail < BlockSize
  BY BatchingAssumption
<1>2. PICK L \in Nat : L = Len(prompt.chunks)
  BY <1>1
<1>3. L * BlockSize \in Nat
  BY KVAssumption
<1>4. Total(prompt) \in Nat
  BY <1>1, <1>2, <1>3 DEF Total
<1>5. prompt.exact => ExactPrompt(prompt)
  BY <1>1, KVAssumption DEF ExactPrompt
<1>6. QED
  BY <1>1, <1>4, <1>5

-----------------------------------------------------------------------------
(* One item of the plan: what is reserved for it, and what the call does.    *)

\* What the planner reserves for a prefill, and for a token, before it calls.
ReadyPrefill(e, m, item) ==
  LET req == e.requests[item.id] IN
  /\ item.id \in Requests /\ item.prefill /\ m.prov[item.id] = None /\ req.prompt \in Prompts
  /\ IF UsesPrefix(req) THEN Found(m, req.prompt, item.matched) ELSE item.matched = <<>>
  /\ item.cost = Suffix(req.prompt, item.matched)
  /\ Reserved(m, Cached(m) \ Range(item.matched), BlocksRequired(item.cost),
              item.evicted, item.allocated)

ReadyDecode(e, m, item) ==
  /\ item.id \in Live(m) /\ ~item.prefill /\ item.matched = <<>> /\ item.cost = 1
  /\ Reserved(m, Cached(m), NewBlocks(m, item.id), item.evicted, item.allocated)

\* What the request's record is once it is admitted.
RecordOf(e, item) ==
  LET prompt == e.requests[item.id].prompt
  IN  IF UsesPrefix(e.requests[item.id]) THEN Exact(prompt, Len(item.matched))
      ELSE CountOnly(Total(prompt))

\* What the blocks of m become in c.
Touches(m, c, item) ==
  /\ \A b \in Range(item.allocated) :
       /\ c.blocks[b].state = "InUse" /\ c.blocks[b].key = None /\ m.blocks[b].state # "InUse"
       /\ b \notin Range(item.matched)
  /\ \A b \in Range(item.matched) : LET d == c.blocks[b] IN
       d.state = "InUse" /\ d.key # None /\ d.key = m.blocks[b].key /\ d.valid = m.blocks[b].valid
  /\ \A b \in Block :
       \/ b \in Range(item.allocated) \/ b \in Range(item.matched) \/ c.blocks[b] = m.blocks[b]
       \/ /\ ~item.prefill /\ b \in Range(m.tables[item.id])
          /\ m.blocks[b].key = None /\ m.blocks[b].state = "InUse"
          /\ c.blocks[b].key = None /\ c.blocks[b].state = "InUse"

\* What the request's table, record and tokens become.
Progresses(e, m, c, item) ==
  LET r == item.id IN
  /\ c.tables = [m.tables EXCEPT ![r] = @ \o item.matched \o item.allocated]
  /\ IF item.prefill THEN c.prov = [m.prov EXCEPT ![r] = RecordOf(e, item)] /\ RecordOf(e, item) # None
                     ELSE c.prov = m.prov
  /\ TokensHeld(c, r) = IF item.prefill THEN Total(e.requests[r].prompt) ELSE TokensHeld(m, r) + 1

Blocks(m, item) ==
  /\ item.matched \in Seq(Block) /\ item.allocated \in Seq(Block)
  /\ item.evicted = Range(item.allocated) \ m.free

Works(e, m, c, item) == Touches(m, c, item) /\ Progresses(e, m, c, item)

\* How the manager's call ends, whether as planned or not.
Serves(e, m, reply, item) ==
  /\ reply.outcome \in {"ok", "overflow", "logic_error"}
  /\ reply.kv \in Manager /\ Valid(reply.kv)
  /\ reply.outcome = "ok" => Works(e, m, reply.kv, item)

\* A request that is not live has no table.
LEMMA NotLiveHoldsNothing ==
  ASSUME NEW m \in Manager, Valid(m), NEW r \in Requests, m.prov[r] = None
  PROVE  m.tables[r] = <<>>
BY DEF Valid, Live

LEMMA NoHits == Range(<<>>) = {} /\ Len(<<>>) = 0 /\ <<>> \in Seq(Block) /\ Range(<<>>) \in SUBSET Block
BY DEF Range

\* The call for a prefill does its work and takes the blocks reserved.
LEMMA PrefillServes ==
  ASSUME NEW e, NEW m \in Manager, Valid(m), NEW item, ReadyPrefill(e, m, item)
  PROVE  Serves(e, m, ManagerCall(e, m, item), item) /\ Blocks(m, item)
<1> DEFINE r == item.id
           req == e.requests[r]
           prompt == req.prompt
           matched == item.matched
           ids == item.allocated
           tokens == Suffix(prompt, matched)
           reply == ManagerCall(e, m, item)
           prov == [m.prov EXCEPT ![r] = RecordOf(e, item)]
<1>1. /\ r \in Requests /\ item.prefill /\ m.prov[r] = None /\ prompt \in Prompts
      /\ IF UsesPrefix(req) THEN Found(m, prompt, matched) ELSE matched = <<>>
      /\ Reserved(m, Cached(m) \ Range(matched), BlocksRequired(tokens), item.evicted, ids)
  BY DEF ReadyPrefill
<1>2. Total(prompt) \in Nat /\ (UsesPrefix(req) => ExactPrompt(prompt))
  BY <1>1, PromptTypes DEF UsesPrefix
<1>3. /\ matched \in Seq(Block) /\ Range(matched) \in SUBSET Block
      /\ \A b \in Range(matched) : m.blocks[b].key # None
      /\ tokens \in Nat /\ Len(matched) \in Nat
  <2>1. CASE UsesPrefix(req)
    <3>1. Found(m, prompt, matched) /\ ExactPrompt(prompt)
      BY <1>1, <1>2, <2>1
    <3> HIDE DEF matched, prompt
    <3>2. /\ matched \in Seq(Block) /\ Len(matched) \in 0 .. Len(prompt.chunks)
          /\ Range(matched) \in SUBSET Block
          /\ \A b \in Range(matched) : m.blocks[b].key # None /\ m.blocks[b].state # "Free"
          /\ Suffix(prompt, matched) \in Nat
      BY <3>1, FoundBlocks
    <3>3. QED
      BY <3>2
  <2>2. CASE ~UsesPrefix(req)
    <3>1. matched = <<>>
      BY <1>1, <2>2
    <3>2. tokens = Total(prompt)
      BY <1>2, <3>1, NoHits, KVAssumption DEF Suffix
    <3>3. QED
      BY <1>2, <3>1, <3>2, NoHits
  <2>3. QED
    BY <2>1, <2>2
<1>4. RecordOf(e, item) \in RequestProvenance /\ RecordOf(e, item) # None
  <2>1. UsesPrefix(req) => RecordOf(e, item) \in RequestProvenance
    BY <1>2, <1>3 DEF RecordOf, Exact, RequestProvenance, ExactPrompt
  <2>2. ~UsesPrefix(req) => RecordOf(e, item) \in RequestProvenance
    BY <1>2 DEF RecordOf, CountOnly, RequestProvenance
  <2>3. QED
    BY <2>1, <2>2, NoneAssumption
<1>5. m.tables[r] = <<>> /\ <<>> \o matched = matched
  BY <1>1, <1>3, NotLiveHoldsNothing
<1>6. Served(m, reply, r, matched, Range(matched), ids, prov, tokens)
  <2>1. CASE UsesPrefix(req)
    <3>1. reply = AllocatePromptWithPrefix(m, r, prompt, matched)
      BY <1>1, <2>1 DEF ManagerCall
    <3>2. prov = [m.prov EXCEPT ![r] = Exact(prompt, Len(matched))]
      BY <2>1 DEF RecordOf
    <3>3. Found(m, prompt, matched) /\ ExactPrompt(prompt)
      BY <1>1, <1>2, <2>1
    <3> HIDE DEF reply, prov, matched, prompt, ids, r
    <3>4. Served(m, AllocatePromptWithPrefix(m, r, prompt, matched), r, matched, Range(matched),
                 ids, [m.prov EXCEPT ![r] = Exact(prompt, Len(matched))], Suffix(prompt, matched))
      BY <1>1, <3>3, PrefixIsServed
    <3>5. QED
      BY <3>1, <3>2, <3>4
  <2>2. CASE ~UsesPrefix(req)
    <3>1. reply = AllocatePrompt(m, r, Total(prompt))
      BY <1>1, <2>2 DEF ManagerCall
    <3>2. prov = [m.prov EXCEPT ![r] = CountOnly(Total(prompt))]
      BY <2>2 DEF RecordOf
    <3>3. matched = <<>>
      BY <1>1, <2>2
    <3>4. tokens = Total(prompt)
      BY <1>2, <3>3, NoHits, KVAssumption DEF Suffix
    <3>5. Reserved(m, Cached(m), BlocksRequired(Total(prompt)), item.evicted, ids)
      <4>1. Cached(m) \ Range(matched) = Cached(m)
        BY <3>3, NoHits
      <4>2. QED
        BY <1>1, <3>4, <4>1
    <3> HIDE DEF reply, prov, matched, prompt, ids, r, tokens
    <3>6. Served(m, AllocatePrompt(m, r, Total(prompt)), r, <<>>, {}, ids,
                 [m.prov EXCEPT ![r] = CountOnly(Total(prompt))], Total(prompt))
      BY <1>1, <1>2, <3>5, PromptIsServed
    <3>7. QED
      BY <3>1, <3>2, <3>3, <3>4, <3>6, NoHits
  <2>3. QED
    BY <2>1, <2>2
<1>7. /\ item.evicted = Range(ids) \ m.free
      /\ ids \in Seq(Block) /\ Len(ids) = BlocksRequired(tokens)
  <2>1. Cached(m) \ Range(matched) \in SUBSET Block /\ (Cached(m) \ Range(matched)) \cap m.free = {}
        /\ BlocksRequired(tokens) \in Nat
    BY <1>3, BlockFacts, BlocksSuffice DEF Cached
  <2>2. PICK S \in SUBSET Block : S = Cached(m) \ Range(matched)
    BY <2>1
  <2>3. Reserved(m, S, BlocksRequired(tokens), item.evicted, ids) /\ S \cap m.free = {}
    BY <1>1, <2>1, <2>2
  <2>4. PICK evictions, new : evictions = item.evicted /\ new = ids
    OBVIOUS
  <2>5. Reserved(m, S, BlocksRequired(tokens), evictions, new)
    BY <2>3, <2>4
  <2>6. Chooses(m, S, BlocksRequired(tokens), evictions, new)
    BY ONLY <2>1, <2>3, <2>5, m \in Manager, S \in SUBSET Block, ReservedBlocks
  <2>7. QED
    BY <2>4, <2>6 DEF Chooses
<1>8. ASSUME reply.outcome = "ok"
      PROVE  Works(e, m, reply.kv, item)
  <2> DEFINE c == reply.kv
  <2>1. /\ c \in Manager /\ Valid(c) /\ Grown(m, c, r, matched, Range(matched), ids)
        /\ c.prov = prov /\ \A i \in DOMAIN ids : c.blocks[ids[i]].valid = TokensAt(tokens, i)
    BY <1>6, <1>8 DEF Served, Delivers
  <2> HIDE DEF c, reply
  <2>2. Touches(m, c, item)
    BY <2>1 DEF Touches, Grown
  <2>3. r \in Live(c)
    BY <1>1, <1>4, <2>1 DEF Live, Manager
  <2>4. c.tables = [m.tables EXCEPT ![r] = @ \o matched \o ids] /\ c.tables[r] = matched \o ids
    <3>1. c.tables = [m.tables EXCEPT ![r] = matched \o ids] /\ DOMAIN m.tables = Requests
      BY <2>1 DEF Grown, Manager
    <3>2. m.tables[r] \o matched \o ids = matched \o ids
      BY <1>5
    <3>3. QED
      BY <1>1, <3>1, <3>2
  <2>5. TokensHeld(c, r) = Total(prompt)
    <3> HIDE DEF r, matched, ids, tokens, prompt, prov
    <3>1. /\ TokensHeld(c, r) = TokensIn(c, Range(matched)) + tokens /\ IsInjective(matched)
      <4>1. Holding(c, r, matched, ids, tokens)
        BY <1>7, <2>1, <2>4 DEF Holding
      <4>2. matched \in Seq(Block) /\ ids \in Seq(Block) /\ tokens \in Nat /\ c \in Manager /\ Valid(c)
        BY <1>3, <1>7, <2>1
      <4>3. QED
        BY ONLY <2>3, <4>1, <4>2, TokensOfTable
    <3>2. \A b \in Range(matched) : c.blocks[b].key # None
      BY <1>3, <2>1 DEF Grown
    <3>3. TokensIn(c, Range(matched)) = Len(matched) * BlockSize
      BY <1>3, <2>1, <3>1, <3>2, TokensOfHits
    <3>4. Len(matched) * BlockSize \in Nat
      BY <1>3, KVAssumption
    <3>5. QED
      BY <1>2, <3>1, <3>3, <3>4 DEF Suffix, tokens
  <2>6. Progresses(e, m, c, item)
    BY <1>1, <1>4, <2>1, <2>4, <2>5 DEF Progresses
  <2>7. QED
    BY <2>2, <2>6 DEF Works, c
<1>9. Serves(e, m, reply, item)
  BY <1>6, <1>8 DEF Served, Serves
<1>10. QED
  BY <1>3, <1>7, <1>9 DEF Blocks

\* The call for a decode does its work and takes the block reserved.
LEMMA DecodeServes ==
  ASSUME NEW e, NEW m \in Manager, Valid(m), NEW item, ReadyDecode(e, m, item)
  PROVE  Serves(e, m, ManagerCall(e, m, item), item) /\ Blocks(m, item)
<1> DEFINE r == item.id
           ids == item.allocated
           reply == ManagerCall(e, m, item)
<1>1. /\ r \in Live(m) /\ r \in Requests /\ m.prov[r] # None /\ ~item.prefill /\ item.matched = <<>>
      /\ Reserved(m, Cached(m), NewBlocks(m, r), item.evicted, ids)
  BY DEF ReadyDecode, Live
<1>2. TokenServed(m, reply, r, ids)
  <2>1. TokenServed(m, AppendDecodeToken(m, r), r, ids)
    BY <1>1, TokenIsServed
  <2>2. reply = AppendDecodeToken(m, r)
    BY <1>1 DEF ManagerCall
  <2>3. QED
    BY <2>1, <2>2
<1>3. m.tables[r] \in Seq(Block) /\ IsInjective(m.tables[r]) /\ Range(m.tables[r]) \in SUBSET Block
  BY <1>1, TablesAreInjective
<1>4. Blocks(m, item)
  <2>1. Cached(m) \in SUBSET Block /\ Cached(m) \cap m.free = {} /\ NewBlocks(m, r) \in Nat
    BY BlockFacts DEF Cached, NewBlocks
  <2>2. PICK evictions, new : evictions = item.evicted /\ new = ids
    OBVIOUS
  <2>3. Reserved(m, Cached(m), NewBlocks(m, r), evictions, new)
    BY <1>1, <2>2
  <2>4. Chooses(m, Cached(m), NewBlocks(m, r), evictions, new)
    BY ONLY <2>1, <2>3, m \in Manager, ReservedBlocks
  <2>5. QED
    BY <1>1, <2>2, <2>4, NoHits DEF Chooses, Blocks
<1>5. ids \in Seq(Block)
  BY <1>4 DEF Blocks
<1>6. ASSUME reply.outcome = "ok"
      PROVE  Works(e, m, reply.kv, item)
  <2> DEFINE c == reply.kv
  <2>1. /\ c \in Manager /\ Valid(c)
        /\ \/ Len(ids) = 1 /\ Delivers(m, c, r, m.tables[r], {}, ids, m.prov, 1)
           \/ ids = <<>> /\ InPlace(m, c, r)
    BY <1>2, <1>6 DEF TokenServed
  <2> HIDE DEF c, reply
  <2>2. ASSUME Len(ids) = 1, Delivers(m, c, r, m.tables[r], {}, ids, m.prov, 1)
        PROVE  Works(e, m, c, item)
    <3>1. /\ Grown(m, c, r, m.tables[r], {}, ids) /\ c.prov = m.prov
          /\ \A i \in DOMAIN ids : c.blocks[ids[i]].valid = TokensAt(1, i)
      BY <2>2 DEF Delivers
    <3>2. Touches(m, c, item)
      BY <1>1, <3>1, NoHits DEF Grown, Touches
    <3>3. c.tables = [m.tables EXCEPT ![r] = @ \o item.matched \o ids] /\ c.tables[r] = m.tables[r] \o ids
      <4>1. m.tables[r] \o item.matched = m.tables[r]
        BY <1>1, <1>3
      <4>2. c.tables = [m.tables EXCEPT ![r] = m.tables[r] \o ids] /\ DOMAIN m.tables = Requests
        BY <3>1 DEF Grown, Manager
      <4>3. QED
        BY <1>1, <4>1, <4>2
    <3>4. TokensHeld(c, r) = TokensHeld(m, r) + 1
      <4>1. PICK t \in Seq(Block) : t = m.tables[r]
        BY <1>3
      <4>2. Holding(c, r, t, ids, 1)
        BY <2>2, <3>1, <3>3, <4>1, OneBlock DEF Holding
      <4>3. r \in Live(c) /\ 1 \in Nat
        BY <1>1, <3>1 DEF Live
      <4>4. TokensHeld(c, r) = TokensIn(c, Range(t)) + 1
        BY ONLY <1>5, <2>1, <4>2, <4>3, t \in Seq(Block), TokensOfTable
      <4>5. ASSUME NEW b \in Range(t)
            PROVE  c.blocks[b] = m.blocks[b]
        <5>1. b \in Block /\ m.blocks[b].state = "InUse"
          BY <1>1, <4>1, HeldBlocksAreInUse
        <5>2. QED
          BY <3>1, <5>1 DEF Grown
      <4>6. TokensIn(c, Range(t)) = TokensIn(m, Range(t))
        <5>1. Range(t) \in SUBSET Block
          BY <1>3, <4>1
        <5>2. QED
          BY <4>5, <5>1, TokensAgree
      <4>7. QED
        BY <4>1, <4>4, <4>6 DEF TokensHeld
    <3>5. QED
      BY <1>1, <3>1, <3>2, <3>3, <3>4 DEF Works, Progresses
  <2>3. ASSUME ids = <<>>, InPlace(m, c, r)
        PROVE  Works(e, m, c, item)
    <3>1. TokensHeld(c, r) = TokensHeld(m, r) + 1
      BY <1>1, <1>3, <2>1, <2>3, TokensInPlace
    <3>2. c.tables = m.tables /\ c.prov = m.prov
      BY <2>3 DEF InPlace
    <3>3. c.tables = [m.tables EXCEPT ![r] = @ \o item.matched \o ids]
      <4>1. m.tables[r] \o item.matched \o ids = m.tables[r]
        BY <1>1, <1>3, <2>3
      <4>2. m.tables = [m.tables EXCEPT ![r] = m.tables[r]]
        BY DEF Manager
      <4>3. QED
        BY <3>2, <4>1, <4>2
    <3>4. Touches(m, c, item)
      <4>1. PICK last \in Range(m.tables[r]) :
              /\ m.blocks[last].key = None /\ m.blocks[last].state = "InUse"
              /\ c.blocks[last].key = None /\ c.blocks[last].state = "InUse"
              /\ \A b \in Block \ {last} : c.blocks[b] = m.blocks[b]
        BY <2>3 DEF InPlace
      <4>2. Range(ids) = {} /\ Range(item.matched) = {}
        BY <1>1, <2>3, NoHits
      <4>3. QED
        BY <1>1, <4>1, <4>2 DEF Touches
    <3>5. QED
      BY <1>1, <3>1, <3>2, <3>3, <3>4 DEF Works, Progresses
  <2>4. Works(e, m, c, item)
    BY <2>1, <2>2, <2>3
  <2>5. QED
    BY <2>4 DEF c
<1>7. Serves(e, m, reply, item)
  BY <1>2, <1>6 DEF TokenServed, Serves
<1>8. QED
  BY <1>4, <1>7

Ready(e, m, item) == ReadyPrefill(e, m, item) \/ ReadyDecode(e, m, item)

\* What is planned is what happens: the call takes the blocks that were reserved.
LEMMA ExactServes ==
  ASSUME NEW e, NEW m \in Manager, Valid(m), NEW item, Ready(e, m, item)
  PROVE  /\ Serves(e, m, ExactCall(e, m, item), item) /\ Blocks(m, item)
         /\ ExactCall(e, m, item).outcome = ManagerCall(e, m, item).outcome
<1> DEFINE reply == ManagerCall(e, m, item)
<1>1. Serves(e, m, reply, item) /\ Blocks(m, item)
  BY PrefillServes, DecodeServes DEF Ready
<1>2. item.id \in Requests
  BY DEF Ready, ReadyPrefill, ReadyDecode, Live
<1> HIDE DEF reply
<1>3. AsPlanned(m, item, reply) = reply
  <2>1. CASE reply.outcome # "ok"
    BY <2>1 DEF AsPlanned
  <2>2. CASE reply.outcome = "ok"
    <3>1. reply.kv.tables = [m.tables EXCEPT ![item.id] = @ \o item.matched \o item.allocated]
      BY <1>1, <2>2 DEF Serves, Works, Progresses
    <3>2. item.evicted = Range(item.allocated) \ m.free
      BY <1>1 DEF Blocks
    <3>3. reply.kv.tables[item.id] = m.tables[item.id] \o item.matched \o item.allocated
      BY <1>2, <3>1 DEF Manager
    <3>4. QED
      BY <2>2, <3>2, <3>3 DEF AsPlanned
  <2>3. QED
    BY <2>1, <2>2
<1>4. ExactCall(e, m, item) = reply
  BY <1>3 DEF ExactCall, reply
<1>5. QED
  BY <1>1, <1>4 DEF reply

\* The call is not an internal error when no duplicate is at stake.
LEMMA ExactSucceeds ==
  ASSUME NEW e, NEW m \in Manager, Valid(m), IsFiniteSet(Live(m)), NoDuplicates(m),
         NEW item, Ready(e, m, item),
         DistinctKeys(e.requests[item.id].prompt.chunks) \/ ~item.prefill
  PROVE  ExactCall(e, m, item).outcome \in {"ok", "overflow"}
<1> DEFINE r == item.id
           req == e.requests[r]
           prompt == req.prompt
<1>1. ManagerCall(e, m, item).outcome # "logic_error"
  <2>1. CASE ReadyDecode(e, m, item)
    <3>1. r \in Live(m) /\ ~item.prefill
      BY <2>1 DEF ReadyDecode
    <3>2. AppendDecodeToken(m, r).outcome \in {"ok", "capacity", "overflow"}
      BY <3>1, AppendDecodeTokenIsValid
    <3>3. QED
      BY <3>1, <3>2 DEF ManagerCall
  <2>2. CASE ReadyPrefill(e, m, item) /\ ~UsesPrefix(req)
    <3>1. r \in Requests /\ item.prefill /\ m.prov[r] = None /\ prompt \in Prompts
      BY <2>2 DEF ReadyPrefill
    <3>2. Total(prompt) \in Nat
      BY <3>1, PromptTypes
    <3> HIDE DEF prompt, r
    <3>3. AllocatePrompt(m, r, Total(prompt)).outcome \in {"ok", "capacity", "overflow"}
      BY <3>1, <3>2, AllocatePromptIsValid
    <3>4. QED
      BY <2>2, <3>1, <3>3 DEF ManagerCall, prompt, r
  <2>3. CASE ReadyPrefill(e, m, item) /\ UsesPrefix(req)
    <3>1. r \in Requests /\ item.prefill /\ m.prov[r] = None /\ prompt \in Prompts
      BY <2>3 DEF ReadyPrefill
    <3>2. PrefixEnabled /\ ExactPrompt(prompt) /\ DistinctKeys(prompt.chunks)
      BY <2>3, <3>1, PromptTypes DEF UsesPrefix
    <3> HIDE DEF prompt, r
    <3>3. PICK chunks \in Seq(Chunks), tail \in 0 .. BlockSize - 1 :
            chunks = prompt.chunks /\ tail = prompt.tail /\ DistinctKeys(chunks)
      BY <3>2 DEF ExactPrompt
    <3>4. PICK copy : copy = [chunks |-> chunks, tail |-> tail]
      OBVIOUS
    <3>5. AllocatePromptWithPrefix(m, r, copy, item.matched).outcome \in {"ok", "stale", "capacity", "overflow"}
      BY <3>1, <3>2, <3>3, <3>4, AllocatePromptWithPrefixIsValid
    <3>6. AllocatePromptWithPrefix(m, r, prompt, item.matched)
            = AllocatePromptWithPrefix(m, r, copy, item.matched)
      BY <3>3, <3>4, OnlyChunksAndTail
    <3>7. QED
      BY <2>3, <3>1, <3>5, <3>6 DEF ManagerCall, prompt, r
  <2>4. QED
    BY <2>1, <2>2, <2>3 DEF Ready
<1>2. ExactCall(e, m, item).outcome \in {"ok", "overflow", "logic_error"}
      /\ ExactCall(e, m, item).outcome = ManagerCall(e, m, item).outcome
  BY ExactServes DEF Serves
<1>3. QED
  BY <1>1, <1>2

\* The facts about one successful call that the plan's invariant is made of.
Called(e, m, c, item) ==
  /\ m \in Manager /\ Valid(m) /\ c \in Manager /\ Valid(c)
  /\ Ready(e, m, item) /\ Works(e, m, c, item) /\ Blocks(m, item)

\* The request gets its blocks; no other request is affected.
CallShape(m, c, item) ==
  /\ item.id \in Requests
  /\ item.prefill => item.id \notin Live(m) /\ ~c.prov[item.id].published
  /\ ~item.prefill => item.id \in Live(m) /\ c.prov = m.prov
  /\ Live(c) = Live(m) \cup {item.id}
  /\ \A s \in Requests : s # item.id => c.prov[s] = m.prov[s] /\ c.tables[s] = m.tables[s]
  /\ c.tables[item.id] = m.tables[item.id] \o item.matched \o item.allocated

\* A call that does its work for one item changes no other table.
LEMMA CalledId ==
  ASSUME NEW e, NEW m, NEW c, NEW item, Called(e, m, c, item)
  PROVE  CallShape(m, c, item)
<1>1. /\ item.id \in Requests
      /\ item.prefill => item.id \notin Live(m)
      /\ ~item.prefill => item.id \in Live(m)
  BY DEF Called, Ready, ReadyPrefill, ReadyDecode, Live
<1>2. /\ c.tables = [m.tables EXCEPT ![item.id] = @ \o item.matched \o item.allocated]
      /\ item.prefill => c.prov = [m.prov EXCEPT ![item.id] = RecordOf(e, item)]
                         /\ RecordOf(e, item) # None
      /\ ~item.prefill => c.prov = m.prov
  BY DEF Called, Works, Progresses
<1>3. DOMAIN m.prov = Requests /\ DOMAIN m.tables = Requests
  BY DEF Called, Manager
<1>4. ~RecordOf(e, item).published
  BY DEF RecordOf, Exact, CountOnly
<1>5. CASE item.prefill
  <2>1. c.prov = [m.prov EXCEPT ![item.id] = RecordOf(e, item)] /\ RecordOf(e, item) # None
    BY <1>2, <1>5
  <2>2. c.prov[item.id] = RecordOf(e, item) /\ \A s \in Requests : s # item.id => c.prov[s] = m.prov[s]
    BY <1>1, <1>3, <2>1
  <2>3. Live(c) = Live(m) \cup {item.id}
    BY <1>1, <2>1, <2>2 DEF Live
  <2>4. ~c.prov[item.id].published
    BY <1>4, <2>2
  <2>5. c.tables[item.id] = m.tables[item.id] \o item.matched \o item.allocated
    BY <1>1, <1>2, <1>3
  <2>6. \A s \in Requests : s # item.id => c.tables[s] = m.tables[s]
    BY <1>2, <1>3
  <2>7. QED
    BY <1>1, <1>5, <2>2, <2>3, <2>4, <2>5, <2>6 DEF CallShape
<1>6. CASE ~item.prefill
  <2>1. Live(c) = Live(m) \cup {item.id}
    BY <1>1, <1>2, <1>6 DEF Live
  <2>2. QED
    BY <1>1, <1>2, <1>3, <1>6, <2>1 DEF CallShape
<1>7. QED
  BY <1>5, <1>6

\* A block in use keeps its key, or stays without one.
LEMMA CalledKeepsUse ==
  ASSUME NEW e, NEW m, NEW c, NEW item, Called(e, m, c, item),
         NEW b \in Block, m.blocks[b].state = "InUse"
  PROVE  /\ c.blocks[b].state = "InUse" /\ c.blocks[b].key = m.blocks[b].key
         /\ b \notin Range(item.allocated)
         /\ \A s \in Live(m) : s # item.id /\ b \in Range(m.tables[s])
              => c.blocks[b].valid = m.blocks[b].valid
<1>1. Touches(m, c, item)
  BY DEF Called, Works
<1>2. b \notin Range(item.allocated)
  BY <1>1 DEF Touches
<1>3. CASE b \in Range(item.matched)
  BY <1>1, <1>2, <1>3 DEF Touches
<1>4. CASE c.blocks[b] = m.blocks[b]
  BY <1>2, <1>4
<1>5. CASE /\ ~item.prefill /\ b \in Range(m.tables[item.id])
           /\ m.blocks[b].key = None /\ m.blocks[b].state = "InUse"
           /\ c.blocks[b].key = None /\ c.blocks[b].state = "InUse"
  <2>1. item.id \in Live(m) /\ m \in Manager /\ Valid(m)
    BY <1>5, CalledId DEF Called, CallShape
  <2>2. \A s \in Live(m) : b \in Range(m.tables[s]) => s = item.id
    BY <1>5, <2>1, KeylessBlocksHaveOneHolder
  <2>3. QED
    BY <1>2, <1>5, <2>2
<1>6. QED
  BY <1>1, <1>2, <1>3, <1>4, <1>5 DEF Touches

\* A call for one item leaves the tokens of everybody else.
LEMMA CalledKeepsTokens ==
  ASSUME NEW e, NEW m, NEW c, NEW item, Called(e, m, c, item),
         NEW s \in Live(m), s # item.id
  PROVE  c.tables[s] = m.tables[s] /\ TokensHeld(c, s) = TokensHeld(m, s)
<1>1. m \in Manager /\ Valid(m) /\ s \in Requests
  BY DEF Called, Live
<1>2. c.tables[s] = m.tables[s]
  <2>1. CallShape(m, c, item)
    BY CalledId
  <2>2. QED
    BY <1>1, <2>1 DEF CallShape
<1>3. Range(m.tables[s]) \in SUBSET Block
  BY <1>1, TablesAreInjective
<1>4. \A b \in Range(m.tables[s]) : c.blocks[b].valid = m.blocks[b].valid
  BY <1>1, HeldBlocksAreInUse, CalledKeepsUse
<1>5. TokensIn(c, Range(m.tables[s])) = TokensIn(m, Range(m.tables[s]))
  BY <1>3, <1>4, TokensAgree
<1>6. QED
  BY <1>2, <1>5 DEF TokensHeld

\* A call publishes nothing, so it makes no duplicate.
LEMMA CalledKeepsDuplicates ==
  ASSUME NEW e, NEW m, NEW c, NEW item, Called(e, m, c, item), NoDuplicates(m)
  PROVE  NoDuplicates(c)
<1>1. /\ m \in Manager /\ Valid(m) /\ Touches(m, c, item)
      /\ item.matched \in Seq(Block) /\ item.allocated \in Seq(Block)
  BY DEF Called, Works, Blocks
<1>2. SUFFICES ASSUME NEW b \in Cached(c), DuplicateHolder(c, b)
               PROVE  FALSE
  BY DEF NoDuplicates
<1>3. b \in Block /\ c.blocks[b].state = "Cached"
  BY DEF Cached
<1>4. c.blocks[b] = m.blocks[b]
  BY <1>1, <1>3 DEF Touches
<1>5. PICK s \in Live(c) :
        /\ c.prov[s].published
        /\ \E i \in (c.prov[s].matched + 1) .. Len(c.prov[s].chunks) :
             /\ c.blocks[c.tables[s][i]].key = None
             /\ c.blocks[b].key = KeyAt(c.prov[s].chunks, i)
  BY <1>2 DEF DuplicateHolder
<1>6. s \in Live(m) /\ c.prov[s] = m.prov[s] /\ s \in Requests
  <2>1. s \in Requests /\ (s = item.id => ~item.prefill)
    <3>1. CallShape(m, c, item)
      BY CalledId
    <3>2. QED
      BY <1>5, <3>1 DEF Live, CallShape
  <2>2. QED
    <3>1. CallShape(m, c, item)
      BY CalledId
    <3>2. QED
      BY <2>1, <3>1 DEF CallShape
<1>7. PICK i \in (m.prov[s].matched + 1) .. Len(m.prov[s].chunks) :
        /\ c.blocks[c.tables[s][i]].key = None
        /\ c.blocks[b].key = KeyAt(m.prov[s].chunks, i)
  BY <1>5, <1>6
<1>8. i \in 1 .. Len(m.prov[s].chunks)
  BY <1>1, <1>6 DEF Manager, RequestProvenance, Live
<1>9. /\ i \in DOMAIN m.tables[s] /\ m.tables[s][i] \in Block
      /\ m.blocks[m.tables[s][i]].state = "InUse"
  BY <1>1, <1>6, <1>8, PromptBlocksAreHeld
<1>10. c.tables[s][i] = m.tables[s][i]
  <2>1. CASE s # item.id
    <3>1. CallShape(m, c, item)
      BY CalledId
    <3>2. QED
      BY <1>6, <2>1, <3>1 DEF CallShape
  <2>2. CASE s = item.id
    <3>1. c.tables[s] = m.tables[s] \o item.matched \o item.allocated
      <4>1. CallShape(m, c, item)
        BY CalledId
      <4>2. QED
        BY ONLY <2>2, <4>1 DEF CallShape
    <3>2. m.tables[s] \in Seq(Block)
      BY <1>1, <1>6 DEF Manager
    <3>3. PICK t \in Seq(Block), u \in Seq(Block), w \in Seq(Block) :
            t = m.tables[s] /\ u = item.matched /\ w = item.allocated
      BY <1>1, <3>2
    <3>4. i \in DOMAIN t
      BY <1>9, <3>3
    <3>5. (t \o u \o w)[i] = t[i]
      BY ONLY <3>4, t \in Seq(Block), u \in Seq(Block), w \in Seq(Block)
    <3>6. QED
      BY <3>1, <3>3, <3>5
  <2>3. QED
    BY <2>1, <2>2
<1>11. m.blocks[m.tables[s][i]].key = None
  BY <1>7, <1>9, <1>10, CalledKeepsUse
<1>12. DuplicateHolder(m, b)
  BY <1>4, <1>5, <1>6, <1>7, <1>11 DEF DuplicateHolder
<1>13. b \in Cached(m)
  BY <1>3, <1>4 DEF Cached
<1>14. QED
  BY <1>12, <1>13 DEF NoDuplicates

-----------------------------------------------------------------------------
(* One candidate: it is refused, put off, or selected.                       *)

\* What holds of an engine that has not failed.
Sound(e) ==
  /\ e.kv \in Manager /\ Valid(e.kv) /\ IsFiniteSet(Submitted(e))
  /\ \A r \in Submitted(e) : e.requests[r] \in Request
  /\ Live(e.kv) = InPhase(e, {"Decoding"})

IsWaiting(e, r) == e.requests[r].state = "Waiting"

\* A candidate as the planner meets it, with the manager m of the plan so far.
Pending(e, m, r) ==
  /\ r \in InPhase(e, {"Waiting", "Decoding"})
  /\ IF IsWaiting(e, r) THEN m.prov[r] = None ELSE r \in Live(m)

Hits(e, m, r) ==
  IF IsWaiting(e, r) /\ UsesPrefix(e.requests[r])
  THEN Lookup(m, e.requests[r].prompt.chunks) ELSE <<>>
CostOf(e, m, r) ==
  IF IsWaiting(e, r) THEN Total(e.requests[r].prompt) - Len(Hits(e, m, r)) * BlockSize ELSE 1
RequiredOf(e, m, r) ==
  IF IsWaiting(e, r) THEN BlocksRequired(CostOf(e, m, r))
  ELSE IF DecodeRequiresNewBlock(m, r) THEN 1 ELSE 0
WorkOf(e, m, r) ==
  [id |-> r, prefill |-> IsWaiting(e, r), cost |-> CostOf(e, m, r),
   matched |-> Hits(e, m, r), evicted |-> {}, allocated |-> <<>>]

\* More blocks are needed than are free or can be evicted.
Short(e, m, r) ==
  RequiredOf(e, m, r) > Cardinality(m.free) + Cardinality(Cached(m) \ Range(Hits(e, m, r)))

TooLarge(e, r) == IsWaiting(e, r) /\ Total(e.requests[r].prompt) > MaxTokens

\* The item that a selected candidate becomes.
Offers(e, p, r, item) ==
  /\ item \in WorkItem /\ item.id = r /\ item.prefill = IsWaiting(e, r)
  /\ Ready(e, p.kv, item)
  /\ item.cost <= MaxTokens - p.tokens /\ Len(p.items) < MaxSequences

Reasons == {"TokenBudget", "SequenceBudget", "KVCapacity"}

Visits(e, p, r, q) ==
  \/ TooLarge(e, r) /\ q = [p EXCEPT !.outcome = "oversized"]
  \/ \E reason \in Reasons :
       /\ q = Defer(p, r, reason)
       /\ p.items = <<>> => reason = "KVCapacity"
       /\ reason = "KVCapacity" => Short(e, p.kv, r)
  \/ \E item : Offers(e, p, r, item) /\ q = Select(e, p, item)

\* The budgets and the items of a plan.
Budgeted(p) ==
  /\ p.items \in Seq(WorkItem) /\ p.tokens \in Nat
  /\ p.tokens <= MaxTokens /\ Len(p.items) <= MaxSequences
  /\ p.items = <<>> => p.tokens = 0

\* A visit, case by case, by the names used here.
LEMMA VisitIs ==
  ASSUME NEW e, NEW p, NEW r
  PROVE  Visit(e, p, r) =
    IF TooLarge(e, r) /\ (Hits(e, p.kv, r) = <<>> \/ CostOf(e, p.kv, r) > MaxTokens)
    THEN [p EXCEPT !.outcome = "oversized"]
    ELSE IF CostOf(e, p.kv, r) > MaxTokens - p.tokens THEN Defer(p, r, "TokenBudget")
    ELSE IF Len(p.items) >= MaxSequences THEN Defer(p, r, "SequenceBudget")
    ELSE IF Short(e, p.kv, r) THEN Defer(p, r, "KVCapacity")
    ELSE Select(e, p, Reserve(p, WorkOf(e, p.kv, r), RequiredOf(e, p.kv, r)))
BY DEF Visit, TooLarge, Hits, CostOf, RequiredOf, Short, WorkOf, Available, IsWaiting

\* The blocks a candidate finds, and what they save.
LEMMA CandidateFacts ==
  ASSUME NEW e, Sound(e), NEW m \in Manager, Valid(m), NEW r, Pending(e, m, r)
  PROVE  /\ r \in Requests /\ e.requests[r] \in Request /\ e.requests[r].prompt \in Prompts
         /\ Hits(e, m, r) \in Seq(Block) /\ Range(Hits(e, m, r)) \in SUBSET Block
         /\ CostOf(e, m, r) \in Nat /\ RequiredOf(e, m, r) \in Nat
         /\ Total(e.requests[r].prompt) \in Nat
         /\ IsWaiting(e, r) => CostOf(e, m, r) = Suffix(e.requests[r].prompt, Hits(e, m, r))
                               /\ CostOf(e, m, r) <= Total(e.requests[r].prompt)
<1> DEFINE req == e.requests[r]
           hits == Hits(e, m, r)
<1>1. r \in Requests /\ req \in Request /\ req.prompt \in Prompts
  BY DEF Pending, InPhase, Submitted, Sound, Request
<1>2. Total(req.prompt) \in Nat /\ (UsesPrefix(req) => ExactPrompt(req.prompt))
  BY <1>1, PromptTypes DEF UsesPrefix
<1>3. CASE IsWaiting(e, r) /\ UsesPrefix(req)
  <2>1. hits = Lookup(m, req.prompt.chunks)
    BY <1>3 DEF Hits
  <2>2. Found(m, req.prompt, hits) /\ ExactPrompt(req.prompt)
    BY <1>2, <1>3, <2>1 DEF Found
  <2>3. PICK found, prompt : found = hits /\ prompt = req.prompt
    OBVIOUS
  <2>4. Found(m, prompt, found) /\ ExactPrompt(prompt)
    BY <2>2, <2>3
  <2>5. /\ found \in Seq(Block) /\ Len(found) \in 0 .. Len(prompt.chunks)
        /\ Range(found) \in SUBSET Block /\ Suffix(prompt, found) \in Nat
    BY ONLY <2>4, m \in Manager, Valid(m), FoundBlocks
  <2>6. CostOf(e, m, r) = Suffix(prompt, found)
    BY <1>3, <2>3 DEF CostOf, Suffix
  <2>7. Suffix(prompt, found) <= Total(prompt)
    <3>1. PICK n \in Nat : n = Len(found)
      BY <2>5
    <3>2. n * BlockSize \in Nat
      BY KVAssumption
    <3>3. QED
      BY <1>2, <2>3, <3>1, <3>2 DEF Suffix
  <2>8. RequiredOf(e, m, r) \in Nat
    BY <1>3, <2>5, <2>6, BlocksSuffice DEF RequiredOf
  <2>9. QED
    BY <1>1, <1>2, <2>3, <2>5, <2>6, <2>7, <2>8
<1>4. CASE ~(IsWaiting(e, r) /\ UsesPrefix(req))
  <2>1. hits = <<>>
    BY <1>4 DEF Hits
  <2>2. IsWaiting(e, r) => CostOf(e, m, r) = Total(req.prompt) - Len(hits) * BlockSize
    BY DEF CostOf
  <2>3. IsWaiting(e, r) => CostOf(e, m, r) = Total(req.prompt)
    BY <1>2, <2>1, <2>2, NoHits, KVAssumption
  <2>4. CostOf(e, m, r) \in Nat
    BY <1>2, <2>3 DEF CostOf
  <2>5. RequiredOf(e, m, r) \in Nat
    BY <2>4, BlocksSuffice DEF RequiredOf
  <2>6. QED
    BY <1>1, <1>2, <2>1, <2>2, <2>3, <2>4, <2>5, NoHits DEF Suffix
<1>5. QED
  BY <1>3, <1>4

\* A visit refuses, defers for a reason that is so, or selects.
LEMMA VisitCases ==
  ASSUME NEW e, Sound(e), NEW p, p.kv \in Manager, Valid(p.kv), Budgeted(p),
         NEW r, Pending(e, p.kv, r)
  PROVE  Visits(e, p, r, Visit(e, p, r))
<1> DEFINE m == p.kv
           hits == Hits(e, m, r)
           cost == CostOf(e, m, r)
           required == RequiredOf(e, m, r)
           item == Reserve(p, WorkOf(e, m, r), required)
           q == Visit(e, p, r)
<1>1. /\ r \in Requests /\ e.requests[r] \in Request /\ e.requests[r].prompt \in Prompts
      /\ hits \in Seq(Block) /\ Range(hits) \in SUBSET Block
      /\ cost \in Nat /\ required \in Nat /\ Total(e.requests[r].prompt) \in Nat
      /\ IsWaiting(e, r) => cost = Suffix(e.requests[r].prompt, hits)
                            /\ cost <= Total(e.requests[r].prompt)
  BY CandidateFacts
<1>2. /\ MaxTokens \in Nat \ {0} /\ MaxSequences \in Nat \ {0} /\ p.tokens \in Nat /\ Len(p.items) \in Nat
      /\ p.items = <<>> => p.tokens = 0
  BY BatchingAssumption DEF ContinuousBatchingConfig, Budgeted
<1>3. CASE TooLarge(e, r) /\ (hits = <<>> \/ cost > MaxTokens)
  BY <1>3, VisitIs DEF Visits
<1>4. CASE ~(TooLarge(e, r) /\ (hits = <<>> \/ cost > MaxTokens))
  <2>1. CASE cost > MaxTokens - p.tokens
    <3>1. q = Defer(p, r, "TokenBudget")
      BY <1>4, <2>1, VisitIs
    <3>2. p.items # <<>>
      <4>1. SUFFICES ASSUME p.tokens = 0
                     PROVE  FALSE
        BY <1>2
      <4>2. cost > MaxTokens
        BY <1>1, <1>2, <2>1, <4>1
      <4>3. IsWaiting(e, r)
        BY <1>2, <4>2 DEF CostOf
      <4>4. QED
        BY <1>1, <1>2, <1>4, <4>2, <4>3 DEF TooLarge
    <3>3. QED
      BY <3>1, <3>2 DEF Visits, Reasons
  <2>2. CASE ~(cost > MaxTokens - p.tokens) /\ Len(p.items) >= MaxSequences
    <3>1. q = Defer(p, r, "SequenceBudget")
      BY <1>4, <2>2, VisitIs
    <3>2. p.items # <<>>
      BY <1>2, <2>2, NoHits
    <3>3. QED
      BY <3>1, <3>2 DEF Visits, Reasons
  <2>3. CASE ~(cost > MaxTokens - p.tokens) /\ ~(Len(p.items) >= MaxSequences) /\ Short(e, m, r)
    <3>1. q = Defer(p, r, "KVCapacity")
      BY <1>4, <2>3, VisitIs
    <3>2. QED
      BY <2>3, <3>1 DEF Visits, Reasons
  <2>4. CASE ~(cost > MaxTokens - p.tokens) /\ ~(Len(p.items) >= MaxSequences) /\ ~Short(e, m, r)
    <3>1. q = Select(e, p, item)
      BY <1>4, <2>4, VisitIs
    <3>2. /\ item.id = r /\ item.prefill = IsWaiting(e, r) /\ item.cost = cost /\ item.matched = hits
          /\ item.evicted = LeastRecentlyUsed(m, Cached(m) \ Range(hits), Shortage(m, required))
          /\ item.allocated = Ascending(Lowest(m.free \cup item.evicted, required))
          /\ item = [id |-> r, prefill |-> IsWaiting(e, r), cost |-> cost, matched |-> hits,
                     evicted |-> item.evicted, allocated |-> item.allocated]
      <4>1. PICK evicted : evicted = LeastRecentlyUsed(m, Cached(m) \ Range(hits), Shortage(m, required))
        OBVIOUS
      <4>2. PICK ids : ids = Ascending(Lowest(m.free \cup evicted, required))
        OBVIOUS
      <4>3. PICK work : work = WorkOf(e, m, r)
        OBVIOUS
      <4>4. item = [work EXCEPT !.evicted = evicted, !.allocated = ids]
        <5>1. work.matched = hits
          BY <4>3 DEF WorkOf
        <5>2. QED
          BY <4>1, <4>2, <4>3, <5>1 DEF Reserve
      <4>5. PICK found, price, first : found = hits /\ price = cost /\ first = IsWaiting(e, r)
        OBVIOUS
      <4>6. work = [id |-> r, prefill |-> first, cost |-> price,
                    matched |-> found, evicted |-> {}, allocated |-> <<>>]
        BY <4>3, <4>5 DEF WorkOf
      <4>7. item = [id |-> r, prefill |-> first, cost |-> price,
                    matched |-> found, evicted |-> evicted, allocated |-> ids]
        BY <4>4, <4>6
      <4>8. QED
        BY <4>1, <4>2, <4>5, <4>7
    <3>3. PICK S \in SUBSET Block : S = Cached(m) \ Range(hits)
      BY DEF Cached
    <3>4. Cardinality(S) \in Nat /\ Cardinality(m.free) \in Nat /\ S \cap m.free = {}
      <4>1. S \cap m.free = {}
        BY <3>3, BlockFacts DEF Cached
      <4>2. m.free \in SUBSET Block
        BY DEF Manager
      <4>3. QED
        BY <4>1, <4>2, BlocksAreFinite
    <3>5. required <= Cardinality(m.free) + Cardinality(S)
      BY <1>1, <2>4, <3>3, <3>4 DEF Short
    <3>6. ~(Shortage(m, required) > Cardinality(S))
      BY <1>1, <3>4, <3>5, ShortageFits
    <3>7. Reserved(m, S, required, item.evicted, item.allocated)
      BY <3>2, <3>3, <3>6 DEF Reserved
    <3>8. PICK E, A : E = item.evicted /\ A = item.allocated
      OBVIOUS
    <3>9. Chooses(m, S, required, E, A)
      <4>1. Reserved(m, S, required, E, A)
        BY <3>7, <3>8
      <4>2. QED
        BY ONLY <1>1, <3>4, <4>1, m \in Manager, S \in SUBSET Block, ReservedBlocks
    <3>10. E \in SUBSET Block /\ A \in Seq(Block)
      BY <3>9 DEF Chooses
    <3>11. item \in WorkItem
      <4>1. IsWaiting(e, r) \in BOOLEAN
        BY DEF IsWaiting
      <4> HIDE DEF item, hits, cost
      <4>2. QED
        BY <1>1, <3>2, <3>8, <3>10, <4>1 DEF WorkItem
    <3>12. Ready(e, m, item)
      <4> HIDE DEF item
      <4>1. CASE IsWaiting(e, r)
        <5>1. m.prov[r] = None
          BY <4>1 DEF Pending
        <5>2. required = BlocksRequired(cost)
          BY <4>1 DEF RequiredOf
        <5>3. IF UsesPrefix(e.requests[r]) THEN Found(m, e.requests[r].prompt, hits) ELSE hits = <<>>
          BY <4>1 DEF Hits, Found
        <5>4. ReadyPrefill(e, m, item)
          BY <1>1, <3>2, <3>3, <3>7, <4>1, <5>1, <5>2, <5>3 DEF ReadyPrefill
        <5>5. QED
          BY <5>4 DEF Ready
      <4>2. CASE ~IsWaiting(e, r)
        <5>1. r \in Live(m) /\ hits = <<>> /\ cost = 1 /\ required = NewBlocks(m, r)
          BY <4>2 DEF Pending, Hits, CostOf, RequiredOf, NewBlocks
        <5>2. S = Cached(m)
          BY <3>3, <5>1, NoHits
        <5>3. ReadyDecode(e, m, item)
          BY <3>2, <3>7, <4>2, <5>1, <5>2 DEF ReadyDecode
        <5>4. QED
          BY <5>3 DEF Ready
      <4>3. QED
        BY <4>1, <4>2
    <3>13. Offers(e, p, r, item)
      <4> HIDE DEF item
      <4>1. item.cost <= MaxTokens - p.tokens /\ Len(p.items) < MaxSequences
        BY <1>1, <1>2, <2>4, <3>2
      <4>2. QED
        BY <3>2, <3>11, <3>12, <4>1 DEF Offers
    <3>14. QED
      BY <3>1, <3>13 DEF Visits
  <2>5. QED
    BY <2>1, <2>2, <2>3, <2>4
<1>5. QED
  BY <1>3, <1>4

-----------------------------------------------------------------------------
(* The invariant of the plan.                                                *)

IdsOf(s) == {x.id : x \in Range(s)}
Once(s) == \A i, j \in DOMAIN s : s[i].id = s[j].id => i = j
Deferral == [id : Requests, reason : Reasons]

\* The scratch manager: the plan's prefills are live as well.
Scratch(e, m, items) ==
  /\ m \in Manager /\ Valid(m) /\ Live(m) = Live(e.kv) \cup IdsOf(items)
  /\ NoDuplicates(e.kv) => NoDuplicates(m)

\* Requests that are not in the plan are not affected.
Others(e, m, items) ==
  \A s \in Requests \ IdsOf(items) :
    /\ m.prov[s] = e.kv.prov[s] /\ m.tables[s] = e.kv.tables[s]
    /\ s \in Live(e.kv) => TokensHeld(m, s) = TokensHeld(e.kv, s)

\* An item was carried out on the scratch manager.
Done(e, m, i) ==
  /\ i \in WorkItem
  /\ i.id \in InPhase(e, {"Waiting", "Decoding"}) /\ i.prefill = IsWaiting(e, i.id)
  /\ \A b \in Range(i.allocated) : m.blocks[b].state = "InUse" /\ m.blocks[b].key = None
  /\ \A b \in Range(i.matched) : m.blocks[b].state = "InUse" /\ m.blocks[b].key # None
  /\ i.evicted \subseteq Range(i.allocated)
  /\ IF i.prefill
     THEN /\ m.prov[i.id] = RecordOf(e, i)
          /\ i.cost = Suffix(e.requests[i.id].prompt, i.matched)
          /\ TokensHeld(m, i.id) = Total(e.requests[i.id].prompt)
     ELSE /\ i.cost = 1
          /\ TokensHeld(m, i.id) = TokensHeld(e.kv, i.id) + 1

\* Every item was, and no two were given the same block.
Entries(e, m, items) ==
  /\ \A i \in Range(items) : Done(e, m, i)
  /\ \A i, j \in Range(items) :
       i.id # j.id => Range(i.allocated) \cap Range(j.allocated) = {}

\* A replay of the plan on the engine's manager ends with the scratch manager.
Replayed(e, m, items) ==
  LET reply == AfterLoop(e, "replay", Refuse(e.kv, "ok"), items)
  IN  reply.outcome = "ok" /\ reply.kv = m

\* A token is charged for every decoding request.
DecodesOf(S) == {i \in S : ~i.prefill}
Tally(items, tokens) ==
  IsFiniteSet(DecodesOf(Range(items))) /\ Cardinality(DecodesOf(Range(items))) <= tokens

\* The candidates that were visited are those selected and those put off, each once.
Named(items, deferred, V) ==
  /\ Once(items) /\ Once(deferred) /\ IdsOf(items) \cap IdsOf(deferred) = {}
  /\ V = IdsOf(items) \cup IdsOf(deferred)

\* A plan without an item has put work off for lack of blocks only.
Nothing(e, m, items, deferred) ==
  items = <<>> => /\ m = e.kv
                  /\ \A d \in Range(deferred) : d.reason = "KVCapacity" /\ Short(e, e.kv, d.id)

IsPlan(p) ==
  p = [kv |-> p.kv, outcome |-> p.outcome, items |-> p.items, deferred |-> p.deferred,
       tokens |-> p.tokens]

PlanInv(e, V, p) ==
  /\ IsPlan(p) /\ Budgeted(p) /\ p.deferred \in Seq(Deferral)
  /\ Scratch(e, p.kv, p.items) /\ Others(e, p.kv, p.items) /\ Entries(e, p.kv, p.items)
  /\ Replayed(e, p.kv, p.items) /\ Tally(p.items, p.tokens)
  /\ Named(p.items, p.deferred, V) /\ Nothing(e, p.kv, p.items, p.deferred)

\* What a sequence of items or deferrals gains by one more.
LEMMA AppendFacts ==
  ASSUME NEW T, NEW s \in Seq(T), NEW x \in T
  PROVE  /\ Append(s, x) \in Seq(T) /\ Len(Append(s, x)) = Len(s) + 1 /\ Len(s) \in Nat
         /\ Range(Append(s, x)) = Range(s) \cup {x}
         /\ IdsOf(Append(s, x)) = IdsOf(s) \cup {x.id}
         /\ Once(s) /\ x.id \notin IdsOf(s) => Once(Append(s, x))
         /\ Append(s, x) # <<>>
<1> DEFINE t == Append(s, x)
           n == Len(s)
<1>1. /\ t \in Seq(T) /\ Len(t) = n + 1 /\ n \in Nat
      /\ DOMAIN s = 1 .. n /\ DOMAIN t = 1 .. n + 1
      /\ t[n + 1] = x /\ \A i \in 1 .. n : t[i] = s[i]
  OBVIOUS
<1> HIDE DEF t, n
<1>2. Range(t) = Range(s) \cup {x}
  <2>1. Range(t) \subseteq Range(s) \cup {x}
    <3>1. SUFFICES ASSUME NEW i \in 1 .. n + 1
                   PROVE  t[i] \in Range(s) \cup {x}
      BY <1>1 DEF Range
    <3>2. CASE i = n + 1
      BY <1>1, <3>2
    <3>3. CASE i # n + 1
      <4>1. i \in 1 .. n
        BY <1>1, <3>3
      <4>2. QED
        BY <1>1, <4>1 DEF Range
    <3>4. QED
      BY <3>2, <3>3
  <2>2. x \in Range(t)
    BY <1>1 DEF Range
  <2>3. Range(s) \subseteq Range(t)
    <3>1. SUFFICES ASSUME NEW i \in 1 .. n
                   PROVE  s[i] \in Range(t)
      BY <1>1 DEF Range
    <3>2. i \in 1 .. n + 1 /\ t[i] = s[i]
      BY <1>1
    <3>3. QED
      BY <1>1, <3>2 DEF Range
  <2>4. QED
    BY <2>1, <2>2, <2>3
<1>3. IdsOf(t) = IdsOf(s) \cup {x.id}
  BY <1>2 DEF IdsOf
<1>4. ASSUME Once(s), x.id \notin IdsOf(s)
      PROVE  Once(t)
  <2>1. SUFFICES ASSUME NEW i \in 1 .. n + 1, NEW j \in 1 .. n + 1, t[i].id = t[j].id
                 PROVE  i = j
    BY <1>1 DEF Once
  <2>2. \A k \in 1 .. n : t[k].id \in IdsOf(s)
    BY <1>1 DEF IdsOf, Range
  <2>3. CASE i \in 1 .. n /\ j \in 1 .. n
    <3>1. s[i].id = s[j].id
      BY <1>1, <2>1, <2>3
    <3>2. QED
      BY <1>1, <1>4, <2>3, <3>1 DEF Once
  <2>4. CASE i \in 1 .. n /\ j = n + 1
    BY <1>1, <1>4, <2>1, <2>2, <2>4
  <2>5. CASE i = n + 1 /\ j \in 1 .. n
    BY <1>1, <1>4, <2>1, <2>2, <2>5
  <2>6. QED
    BY <1>1, <2>3, <2>4, <2>5
<1>5. t # <<>>
  BY <1>1, NoHits
<1>6. QED
  BY <1>1, <1>2, <1>3, <1>4, <1>5 DEF t, n

LEMMA EmptySequence == Range(<<>>) = {} /\ IdsOf(<<>>) = {} /\ Once(<<>>) /\ \A T : <<>> \in Seq(T)
BY NoHits DEF IdsOf, Once

\* A loop over no item does nothing.
LEMMA AfterNothing ==
  ASSUME NEW e, NEW loop, loop # "plan", NEW before
  PROVE  AfterLoop(e, loop, before, <<>>) = before
<1>1. Len(<<>>) = 0 /\ Len(<<>>) \in Nat
  OBVIOUS
<1>2. PICK h : /\ IsTable(h, loop, e, before, <<>>, Len(<<>>))
               /\ AfterLoop(e, loop, before, <<>>) = h[Len(<<>>)]
  BY <1>1, AfterLoopIsEntry
<1>3. QED
  BY <1>1, <1>2 DEF IsTable

\* The plan before the first candidate.
LEMMA EmptyPlanHolds ==
  ASSUME NEW e, Sound(e)
  PROVE  PlanInv(e, {}, EmptyPlan(e))
<1> DEFINE p == EmptyPlan(e)
<1>1. /\ p.kv = e.kv /\ p.items = <<>> /\ p.deferred = <<>> /\ p.tokens = 0
  BY DEF EmptyPlan
<1>2. Budgeted(p)
  BY <1>1, EmptySequence, NoHits, BatchingAssumption DEF Budgeted, ContinuousBatchingConfig
<1>3. Scratch(e, e.kv, <<>>) /\ Others(e, e.kv, <<>>) /\ Entries(e, e.kv, <<>>)
  BY EmptySequence DEF Scratch, Others, Entries, Sound
<1>4. Replayed(e, e.kv, <<>>)
  <2>1. <<>> \in Seq(WorkItem)
    BY EmptySequence
  <2>2. AfterLoop(e, "replay", Refuse(e.kv, "ok"), <<>>) = Refuse(e.kv, "ok")
    BY AfterNothing
  <2>3. QED
    BY <2>2 DEF Replayed, Refuse
<1>5. Tally(<<>>, 0)
  <2>1. DecodesOf(Range(<<>>)) = {}
    BY EmptySequence DEF DecodesOf
  <2>2. QED
    BY <2>1, FS_EmptySet DEF Tally
<1>6. Named(<<>>, <<>>, {}) /\ Nothing(e, e.kv, <<>>, <<>>) /\ <<>> \in Seq(Deferral)
  BY EmptySequence DEF Named, Nothing
<1>7. QED
  <2>1. IsPlan(p)
    BY DEF IsPlan, EmptyPlan
  <2>2. QED
    BY <1>1, <1>2, <1>3, <1>4, <1>5, <1>6, <2>1 DEF PlanInv

\* What deferring and selecting change of a plan, field by field.
LEMMA PlanFields ==
  ASSUME NEW p, IsPlan(p)
  PROVE  /\ \A r, reason : LET q == Defer(p, r, reason) IN
              /\ IsPlan(q) /\ q.kv = p.kv /\ q.items = p.items /\ q.tokens = p.tokens
              /\ q.outcome = p.outcome
              /\ q.deferred = Append(p.deferred, [id |-> r, reason |-> reason])
         /\ \A item, reply : LET q == Selected(p, item, reply) IN
              /\ IsPlan(q) /\ q.deferred = p.deferred
              /\ reply.outcome = "ok" =>
                   /\ q.outcome = p.outcome /\ q.kv = reply.kv
                   /\ q.items = Append(p.items, item) /\ q.tokens = p.tokens + item.cost
              /\ reply.outcome # "ok" => q.outcome = reply.outcome
<1>1. PICK kv, outcome, items, deferred, tokens :
        p = [kv |-> kv, outcome |-> outcome, items |-> items, deferred |-> deferred, tokens |-> tokens]
  BY DEF IsPlan
<1>2. ASSUME NEW r, NEW reason, NEW q, q = Defer(p, r, reason)
      PROVE  /\ IsPlan(q) /\ q.kv = p.kv /\ q.items = p.items /\ q.tokens = p.tokens
             /\ q.outcome = p.outcome
             /\ q.deferred = Append(p.deferred, [id |-> r, reason |-> reason])
  <2>1. PICK x : x = [id |-> r, reason |-> reason]
    OBVIOUS
  <2>2. q = [kv |-> kv, outcome |-> outcome, items |-> items, deferred |-> Append(deferred, x),
             tokens |-> tokens]
    BY <1>1, <1>2, <2>1 DEF Defer
  <2>3. QED
    BY <1>1, <2>1, <2>2 DEF IsPlan
<1>3. ASSUME NEW item, NEW reply, NEW q, q = Selected(p, item, reply)
      PROVE  /\ IsPlan(q) /\ q.deferred = p.deferred
             /\ reply.outcome = "ok" =>
                  /\ q.outcome = p.outcome /\ q.kv = reply.kv
                  /\ q.items = Append(p.items, item) /\ q.tokens = p.tokens + item.cost
             /\ reply.outcome # "ok" => q.outcome = reply.outcome
  <2>1. CASE reply.outcome = "ok"
    <3>1. q = [kv |-> reply.kv, outcome |-> outcome, items |-> Append(items, item),
               deferred |-> deferred, tokens |-> tokens + item.cost]
      BY <1>1, <1>3, <2>1 DEF Selected
    <3>2. QED
      BY <1>1, <2>1, <3>1 DEF IsPlan
  <2>2. CASE reply.outcome # "ok"
    <3>1. q = [kv |-> kv, outcome |-> reply.outcome, items |-> items, deferred |-> deferred,
               tokens |-> tokens]
      BY <1>1, <1>3, <2>2 DEF Selected
    <3>2. QED
      BY <1>1, <2>2, <3>1 DEF IsPlan
  <2>3. QED
    BY <2>1, <2>2
<1>4. QED
  BY <1>2, <1>3

\* A candidate that has not been visited is still pending.
LEMMA StillPending ==
  ASSUME NEW e, Sound(e), NEW V, NEW p, PlanInv(e, V, p),
         NEW r \in InPhase(e, {"Waiting", "Decoding"}), r \notin V
  PROVE  Pending(e, p.kv, r)
<1>1. r \notin IdsOf(p.items)
  BY DEF PlanInv, Named
<1>2. Live(p.kv) = Live(e.kv) \cup IdsOf(p.items) /\ Live(e.kv) = InPhase(e, {"Decoding"})
  BY DEF PlanInv, Scratch, Sound
<1>3. r \in Requests
  BY DEF InPhase, Submitted
<1>4. CASE IsWaiting(e, r)
  <2>1. r \notin Live(p.kv)
    BY <1>1, <1>2, <1>4 DEF InPhase, IsWaiting
  <2>2. QED
    BY <1>3, <1>4, <2>1 DEF Pending, Live
<1>5. CASE ~IsWaiting(e, r)
  <2>1. r \in Live(p.kv)
    BY <1>1, <1>2, <1>5 DEF InPhase, IsWaiting
  <2>2. QED
    BY <1>5, <2>1 DEF Pending
<1>6. QED
  BY <1>4, <1>5

\* Deferring a candidate keeps the invariant of the plan.
LEMMA DeferKeeps ==
  ASSUME NEW e, Sound(e), NEW V, NEW p, PlanInv(e, V, p),
         NEW r \in Requests, r \notin V, NEW reason \in Reasons,
         p.items = <<>> => reason = "KVCapacity",
         reason = "KVCapacity" => Short(e, p.kv, r)
  PROVE  PlanInv(e, V \cup {r}, Defer(p, r, reason))
<1>1. PICK x : x = [id |-> r, reason |-> reason]
  OBVIOUS
<1>2. x \in Deferral /\ x.id = r /\ x.reason = reason
  BY <1>1 DEF Deferral
<1>3. PICK q : q = Defer(p, r, reason)
  OBVIOUS
<1>4. /\ IsPlan(q) /\ q.kv = p.kv /\ q.items = p.items /\ q.tokens = p.tokens
      /\ q.deferred = Append(p.deferred, x)
  BY <1>1, <1>3, PlanFields DEF PlanInv
<1>5. PICK s \in Seq(Deferral) : s = p.deferred
  BY DEF PlanInv
<1>6. /\ Append(s, x) \in Seq(Deferral) /\ Range(Append(s, x)) = Range(s) \cup {x}
      /\ IdsOf(Append(s, x)) = IdsOf(s) \cup {r}
      /\ Once(s) /\ r \notin IdsOf(s) => Once(Append(s, x))
  BY <1>2, AppendFacts
<1>7. Named(p.items, Append(s, x), V \cup {r})
  <2>1. /\ Once(p.items) /\ Once(s) /\ IdsOf(p.items) \cap IdsOf(s) = {}
        /\ V = IdsOf(p.items) \cup IdsOf(s)
    BY <1>5 DEF PlanInv, Named
  <2>2. QED
    BY <1>6, <2>1 DEF Named
<1>8. Nothing(e, p.kv, p.items, Append(s, x))
  <2>1. SUFFICES ASSUME p.items = <<>>
                 PROVE  /\ p.kv = e.kv
                        /\ \A d \in Range(s) \cup {x} : d.reason = "KVCapacity" /\ Short(e, e.kv, d.id)
    BY <1>6 DEF Nothing
  <2>2. p.kv = e.kv /\ \A d \in Range(s) : d.reason = "KVCapacity" /\ Short(e, e.kv, d.id)
    BY <1>5, <2>1 DEF PlanInv, Nothing
  <2>3. x.reason = "KVCapacity" /\ Short(e, e.kv, x.id)
    BY <1>2, <2>1, <2>2
  <2>4. QED
    BY <2>2, <2>3
<1>9. PlanInv(e, V \cup {r}, q)
  BY <1>4, <1>5, <1>6, <1>7, <1>8 DEF PlanInv, Budgeted
<1>10. QED
  BY <1>3, <1>9

-----------------------------------------------------------------------------
(* A candidate is selected: p grows by an item, and c is the manager then.   *)

Selects(e, V, p, r, item, c) ==
  /\ Sound(e) /\ PlanInv(e, V, p) /\ r \in InPhase(e, {"Waiting", "Decoding"}) /\ r \notin V
  /\ Offers(e, p, r, item)
  /\ ExactCall(e, p.kv, item).outcome = "ok" /\ c = ExactCall(e, p.kv, item).kv

\* A selection calls the manager for its item.
LEMMA SelectionIsCalled ==
  ASSUME NEW e, NEW V, NEW p, NEW r, NEW item, NEW c, Selects(e, V, p, r, item, c)
  PROVE  /\ Called(e, p.kv, c, item) /\ CallShape(p.kv, c, item)
         /\ item \in WorkItem /\ item.id = r /\ p.items \in Seq(WorkItem)
         /\ r \notin IdsOf(p.items)
<1>1. p.kv \in Manager /\ Valid(p.kv) /\ Ready(e, p.kv, item) /\ item \in WorkItem /\ item.id = r
  BY DEF Selects, PlanInv, Scratch, Offers
<1>2. Serves(e, p.kv, ExactCall(e, p.kv, item), item) /\ Blocks(p.kv, item)
  BY <1>1, ExactServes
<1>3. c \in Manager /\ Valid(c) /\ Works(e, p.kv, c, item)
  BY <1>2 DEF Selects, Serves
<1>4. Called(e, p.kv, c, item)
  BY <1>1, <1>2, <1>3 DEF Called
<1>5. CallShape(p.kv, c, item)
  BY <1>4, CalledId
<1>6. p.items \in Seq(WorkItem) /\ r \notin IdsOf(p.items)
  BY DEF Selects, PlanInv, Budgeted, Named
<1>7. QED
  BY <1>1, <1>4, <1>5, <1>6

\* The scratch manager has one more live request at most.
LEMMA SelectKeepsScratch ==
  ASSUME NEW e, NEW V, NEW p, NEW r, NEW item, NEW c, Selects(e, V, p, r, item, c)
  PROVE  Scratch(e, c, Append(p.items, item)) /\ Others(e, c, Append(p.items, item))
<1>1. /\ Called(e, p.kv, c, item) /\ CallShape(p.kv, c, item)
      /\ item \in WorkItem /\ item.id = r /\ p.items \in Seq(WorkItem)
  BY SelectionIsCalled
<1>2. IdsOf(Append(p.items, item)) = IdsOf(p.items) \cup {item.id}
  BY <1>1, AppendFacts
<1>3. Scratch(e, p.kv, p.items) /\ Others(e, p.kv, p.items)
  BY DEF Selects, PlanInv
<1>4. Scratch(e, c, Append(p.items, item))
  <2>1. c \in Manager /\ Valid(c) /\ Live(c) = Live(p.kv) \cup {item.id}
    BY <1>1 DEF Called, CallShape
  <2>2. NoDuplicates(p.kv) => NoDuplicates(c)
    BY <1>1, CalledKeepsDuplicates
  <2>3. QED
    BY <1>2, <1>3, <2>1, <2>2 DEF Scratch
<1>5. ASSUME NEW s \in Requests \ IdsOf(Append(p.items, item))
      PROVE  /\ c.prov[s] = e.kv.prov[s] /\ c.tables[s] = e.kv.tables[s]
             /\ s \in Live(e.kv) => TokensHeld(c, s) = TokensHeld(e.kv, s)
  <2>1. s \in Requests \ IdsOf(p.items) /\ s # item.id
    BY <1>2, <1>5
  <2>2. c.prov[s] = p.kv.prov[s] /\ c.tables[s] = p.kv.tables[s]
    BY <1>1, <2>1 DEF CallShape
  <2>3. ASSUME s \in Live(e.kv)
        PROVE  TokensHeld(c, s) = TokensHeld(p.kv, s)
    <3>1. s \in Live(p.kv)
      BY <1>3, <2>3 DEF Scratch
    <3>2. QED
      BY <1>1, <2>1, <3>1, CalledKeepsTokens
  <2>4. QED
    BY <1>3, <2>1, <2>2, <2>3 DEF Others
<1>6. QED
  BY <1>4, <1>5 DEF Others

\* The blocks of earlier items stay as they are, and are not given again.
LEMMA SelectKeepsDone ==
  ASSUME NEW e, NEW V, NEW p, NEW r, NEW item, NEW c, Selects(e, V, p, r, item, c),
         NEW i \in Range(p.items)
  PROVE  Done(e, c, i) /\ Range(i.allocated) \cap Range(item.allocated) = {}
<1>1. /\ Called(e, p.kv, c, item) /\ CallShape(p.kv, c, item)
      /\ item.id = r /\ r \notin IdsOf(p.items)
  BY SelectionIsCalled
<1>2. Done(e, p.kv, i) /\ Live(p.kv) = Live(e.kv) \cup IdsOf(p.items)
  BY DEF Selects, PlanInv, Entries, Scratch
<1>3. i.id # item.id /\ i.id \in Live(p.kv) /\ i.id \in Requests
  BY <1>1, <1>2 DEF IdsOf, Done, WorkItem
<1>4. /\ Range(i.allocated) \in SUBSET Block /\ Range(i.matched) \in SUBSET Block
  BY <1>2 DEF Done, WorkItem, Range
<1>5. ASSUME NEW b \in Block, p.kv.blocks[b].state = "InUse"
      PROVE  /\ c.blocks[b].state = "InUse" /\ c.blocks[b].key = p.kv.blocks[b].key
             /\ b \notin Range(item.allocated)
  BY <1>1, <1>5, CalledKeepsUse
<1>6. TokensHeld(c, i.id) = TokensHeld(p.kv, i.id)
  BY <1>1, <1>3, CalledKeepsTokens
<1>7. c.prov[i.id] = p.kv.prov[i.id]
  BY <1>1, <1>3 DEF CallShape
<1>8. \A b \in Range(i.allocated) : /\ c.blocks[b].state = "InUse" /\ c.blocks[b].key = None
                                    /\ b \notin Range(item.allocated)
  BY <1>2, <1>4, <1>5 DEF Done
<1>9. \A b \in Range(i.matched) : c.blocks[b].state = "InUse" /\ c.blocks[b].key # None
  BY <1>2, <1>4, <1>5 DEF Done
<1>10. QED
  BY <1>2, <1>6, <1>7, <1>8, <1>9 DEF Done

\* The selected item has its blocks on the scratch manager.
LEMMA SelectedIsDone ==
  ASSUME NEW e, NEW V, NEW p, NEW r, NEW item, NEW c, Selects(e, V, p, r, item, c)
  PROVE  Done(e, c, item)
<1>1. /\ Called(e, p.kv, c, item) /\ item \in WorkItem /\ item.id = r /\ r \notin IdsOf(p.items)
  BY SelectionIsCalled
<1>2. /\ r \in InPhase(e, {"Waiting", "Decoding"}) /\ item.prefill = IsWaiting(e, r)
      /\ Others(e, p.kv, p.items) /\ r \in Requests
  BY DEF Selects, Offers, PlanInv, InPhase, Submitted
<1>3. /\ Touches(p.kv, c, item) /\ Progresses(e, p.kv, c, item)
      /\ item.evicted = Range(item.allocated) \ p.kv.free
      /\ Ready(e, p.kv, item) /\ DOMAIN p.kv.prov = Requests
  BY <1>1 DEF Called, Works, Blocks, Manager
<1>4. /\ \A b \in Range(item.allocated) : c.blocks[b].state = "InUse" /\ c.blocks[b].key = None
      /\ \A b \in Range(item.matched) : c.blocks[b].state = "InUse" /\ c.blocks[b].key # None
      /\ item.evicted \subseteq Range(item.allocated)
  BY <1>3 DEF Touches
<1>5. CASE item.prefill
  <2>1. c.prov = [p.kv.prov EXCEPT ![r] = RecordOf(e, item)]
        /\ TokensHeld(c, r) = Total(e.requests[r].prompt)
    BY <1>1, <1>3, <1>5 DEF Progresses
  <2>2. c.prov[r] = RecordOf(e, item)
    BY <1>2, <1>3, <2>1
  <2>3. item.cost = Suffix(e.requests[r].prompt, item.matched)
    BY <1>1, <1>3, <1>5 DEF Ready, ReadyPrefill, ReadyDecode
  <2>4. QED
    BY <1>1, <1>2, <1>4, <1>5, <2>1, <2>2, <2>3 DEF Done
<1>6. CASE ~item.prefill
  <2>1. TokensHeld(c, r) = TokensHeld(p.kv, r) + 1
    BY <1>1, <1>3, <1>6 DEF Progresses
  <2>2. r \in Live(e.kv) /\ item.cost = 1
    <3>1. item.cost = 1
      BY <1>3, <1>6 DEF Ready, ReadyPrefill, ReadyDecode
    <3>2. r \in InPhase(e, {"Decoding"})
      BY <1>2, <1>6 DEF InPhase, IsWaiting
    <3>3. QED
      BY <3>1, <3>2 DEF Selects, Sound
  <2>3. TokensHeld(p.kv, r) = TokensHeld(e.kv, r)
    BY <1>1, <1>2, <2>2 DEF Others
  <2>4. QED
    BY <1>1, <1>2, <1>4, <1>6, <2>1, <2>2, <2>3 DEF Done
<1>7. QED
  BY <1>5, <1>6

\* No block has two roles among the items, the new one included.
LEMMA SelectKeepsEntries ==
  ASSUME NEW e, NEW V, NEW p, NEW r, NEW item, NEW c, Selects(e, V, p, r, item, c)
  PROVE  Entries(e, c, Append(p.items, item))
<1>1. item \in WorkItem /\ p.items \in Seq(WorkItem)
  BY SelectionIsCalled
<1>2. Range(Append(p.items, item)) = Range(p.items) \cup {item}
  BY <1>1, AppendFacts
<1>3. \A i \in Range(p.items) : Done(e, c, i) /\ Range(i.allocated) \cap Range(item.allocated) = {}
  BY SelectKeepsDone
<1>4. \A i, j \in Range(p.items) :
        i.id # j.id => Range(i.allocated) \cap Range(j.allocated) = {}
  BY DEF Selects, PlanInv, Entries
<1>5. Done(e, c, item)
  BY SelectedIsDone
<1>6. QED
  BY <1>2, <1>3, <1>4, <1>5 DEF Entries

\* The replay of the items takes the same calls, the new one last.
LEMMA SelectKeepsReplay ==
  ASSUME NEW e, NEW V, NEW p, NEW r, NEW item, NEW c, Selects(e, V, p, r, item, c)
  PROVE  Replayed(e, c, Append(p.items, item))
<1>1. item \in WorkItem /\ p.items \in Seq(WorkItem)
  BY SelectionIsCalled
<1>2. PICK before, items : before = Refuse(e.kv, "ok") /\ items = p.items
  OBVIOUS
<1>3. PICK reply : reply = AfterLoop(e, "replay", before, items)
  OBVIOUS
<1>4. reply.outcome = "ok" /\ reply.kv = p.kv
  BY <1>2, <1>3 DEF Selects, PlanInv, Replayed
<1>5. AfterLoop(e, "replay", before, Append(items, item))
        = IF reply.outcome = "ok" THEN LoopCall(e, "replay", reply.kv, item) ELSE reply
  <2>1. items \in Seq(WorkItem)
    BY <1>1, <1>2
  <2>2. QED
    BY ONLY <1>1, <1>3, <2>1, LoopGrows
<1>6. AfterLoop(e, "replay", before, Append(items, item)) = ExactCall(e, p.kv, item)
  BY <1>4, <1>5 DEF LoopCall
<1>7. QED
  BY <1>2, <1>6 DEF Replayed, Selects

\* The decodes are counted among the tokens.
LEMMA SelectKeepsTally ==
  ASSUME NEW e, NEW V, NEW p, NEW r, NEW item, NEW c, Selects(e, V, p, r, item, c)
  PROVE  Tally(Append(p.items, item), p.tokens + item.cost)
<1>1. item \in WorkItem /\ p.items \in Seq(WorkItem)
  BY SelectionIsCalled
<1>2. Range(Append(p.items, item)) = Range(p.items) \cup {item}
  BY <1>1, AppendFacts
<1>3. PICK S, D : S = Range(p.items) /\ D = DecodesOf(S)
  OBVIOUS
<1>4. IsFiniteSet(D) /\ Cardinality(D) <= p.tokens /\ p.tokens \in Nat /\ Cardinality(D) \in Nat
  BY <1>3, FS_CardinalityType DEF Selects, PlanInv, Tally, Budgeted
<1>5. item.cost \in Nat /\ (~item.prefill => item.cost = 1)
  BY <1>1, SelectedIsDone DEF WorkItem, Done
<1>6. IsFiniteSet(D \cup {item}) /\ Cardinality(D \cup {item}) <= Cardinality(D) + 1
      /\ Cardinality(D \cup {item}) \in Nat
  <2>1. IsFiniteSet(D \cup {item}) /\ (item \in D \/ Cardinality(D \cup {item}) = Cardinality(D) + 1)
    BY <1>4, FS_AddElement
  <2>2. CASE item \in D
    <3>1. D \cup {item} = D
      BY <2>2
    <3>2. QED
      BY <1>4, <3>1
  <2>3. QED
    BY <1>4, <2>1, <2>2
<1>7. IF item.prefill THEN DecodesOf(S \cup {item}) = D ELSE DecodesOf(S \cup {item}) = D \cup {item}
  BY <1>3 DEF DecodesOf
<1>8. PICK T : T = DecodesOf(Range(Append(p.items, item)))
  OBVIOUS
<1>9. IsFiniteSet(T) /\ Cardinality(T) <= p.tokens + item.cost
  <2>1. T = D \/ (~item.prefill /\ T = D \cup {item})
    BY <1>2, <1>3, <1>7, <1>8
  <2>2. PICK price \in Nat, charged \in Nat : price = item.cost /\ charged = p.tokens
    BY <1>4, <1>5
  <2>3. CASE T = D
    <3>1. Cardinality(T) <= charged + price
      BY <1>4, <2>2, <2>3
    <3>2. QED
      BY <1>4, <2>2, <2>3, <3>1
  <2>4. CASE ~item.prefill /\ T = D \cup {item}
    <3>1. PICK E : E = D \cup {item}
      OBVIOUS
    <3>2. IsFiniteSet(E) /\ Cardinality(E) <= Cardinality(D) + 1 /\ Cardinality(E) \in Nat
          /\ price = 1 /\ T = E
      BY <1>5, <1>6, <2>2, <2>4, <3>1
    <3>3. Cardinality(E) <= charged + price
      BY <1>4, <2>2, <3>2
    <3>4. QED
      BY <2>2, <3>2, <3>3
  <2>5. QED
    BY <2>1, <2>3, <2>4
<1>10. QED
  BY <1>8, <1>9 DEF Tally

\* Selecting a candidate keeps the invariant of the plan.
LEMMA SelectKeeps ==
  ASSUME NEW e, NEW V, NEW p, NEW r, NEW item, NEW c, Selects(e, V, p, r, item, c),
         NEW q, q = Selected(p, item, ExactCall(e, p.kv, item))
  PROVE  PlanInv(e, V \cup {r}, q)
<1>1. item \in WorkItem /\ item.id = r /\ p.items \in Seq(WorkItem) /\ r \notin IdsOf(p.items)
  BY SelectionIsCalled
<1>2. /\ IsPlan(q) /\ q.deferred = p.deferred /\ q.kv = c
      /\ q.items = Append(p.items, item) /\ q.tokens = p.tokens + item.cost
  BY PlanFields DEF Selects, PlanInv
<1>3. /\ Append(p.items, item) \in Seq(WorkItem) /\ Len(Append(p.items, item)) = Len(p.items) + 1
      /\ Len(p.items) \in Nat
      /\ IdsOf(Append(p.items, item)) = IdsOf(p.items) \cup {r}
      /\ Once(p.items) => Once(Append(p.items, item))
      /\ Append(p.items, item) # <<>>
  BY <1>1, AppendFacts
<1>4. Budgeted(q)
  <2>1. item.cost \in Nat /\ item.cost <= MaxTokens - p.tokens /\ Len(p.items) < MaxSequences
        /\ p.tokens \in Nat /\ MaxTokens \in Nat /\ MaxSequences \in Nat
    BY <1>1, BatchingAssumption DEF Selects, Offers, PlanInv, Budgeted, WorkItem, ContinuousBatchingConfig
  <2>2. QED
    BY <1>2, <1>3, <2>1 DEF Budgeted
<1>5. Named(q.items, q.deferred, V \cup {r})
  <2>1. /\ Once(p.items) /\ Once(p.deferred) /\ IdsOf(p.items) \cap IdsOf(p.deferred) = {}
        /\ V = IdsOf(p.items) \cup IdsOf(p.deferred) /\ r \notin V
    BY DEF Selects, PlanInv, Named
  <2>2. QED
    BY <1>2, <1>3, <2>1 DEF Named
<1>6. Nothing(e, q.kv, q.items, q.deferred)
  BY <1>2, <1>3 DEF Nothing
<1>7. /\ Scratch(e, c, Append(p.items, item)) /\ Others(e, c, Append(p.items, item))
      /\ Entries(e, c, Append(p.items, item)) /\ Replayed(e, c, Append(p.items, item))
      /\ Tally(Append(p.items, item), p.tokens + item.cost)
  BY SelectKeepsScratch, SelectKeepsEntries, SelectKeepsReplay, SelectKeepsTally
<1>8. p.deferred \in Seq(Deferral)
  BY DEF Selects, PlanInv
<1>9. QED
  BY <1>2, <1>4, <1>5, <1>6, <1>7, <1>8 DEF PlanInv

\* The keys of every prompt are distinct, as they are with a hash that does not collide.
PromptsAreDistinct == \A prompt \in Prompts : DistinctKeys(prompt.chunks)

\* Why a plan, or an iteration, does not succeed.
Trouble(e, outcome) ==
  \/ outcome = "overflow"
  \/ outcome = "oversized" /\ \E r \in InPhase(e, {"Waiting"}) : Total(e.requests[r].prompt) > MaxTokens
  \/ outcome = "logic_error" /\ (PromptsAreDistinct => ~NoDuplicates(e.kv))

PlanSoFar(e, V, p) ==
  IF p.outcome = "ok" THEN PlanInv(e, V, p) ELSE Trouble(e, p.outcome)

\* Only requests that were submitted hold blocks.
LEMMA LiveIsFinite ==
  ASSUME NEW e, Sound(e), NEW V, NEW p, PlanInv(e, V, p)
  PROVE  IsFiniteSet(Live(p.kv)) /\ Live(p.kv) \subseteq Submitted(e)
<1>1. Live(p.kv) = Live(e.kv) \cup IdsOf(p.items) /\ Live(e.kv) = InPhase(e, {"Decoding"})
  BY DEF PlanInv, Scratch, Sound
<1>2. IdsOf(p.items) \subseteq Submitted(e)
  BY DEF IdsOf, PlanInv, Entries, Done, InPhase
<1>3. Live(p.kv) \subseteq Submitted(e)
  BY <1>1, <1>2 DEF InPhase
<1>4. QED
  BY <1>3, FS_Subset DEF Sound

\* Putting work off is not a failure.
LEMMA DeferOutcome ==
  ASSUME NEW p, IsPlan(p), p.outcome = "ok", NEW r, NEW reason
  PROVE  Defer(p, r, reason).outcome = "ok"
<1>1. PICK kv, outcome, items, deferred, tokens :
        p = [kv |-> kv, outcome |-> outcome, items |-> items, deferred |-> deferred, tokens |-> tokens]
  BY DEF IsPlan
<1>2. QED
  BY <1>1 DEF Defer

\* A visit keeps the invariant of the plan, or fails for a reason that is so.
LEMMA VisitKeeps ==
  ASSUME NEW e, Sound(e), NEW V, NEW p, PlanInv(e, V, p), p.outcome = "ok",
         NEW r \in InPhase(e, {"Waiting", "Decoding"}), r \notin V
  PROVE  PlanSoFar(e, V \cup {r}, Visit(e, p, r))
<1>1. Pending(e, p.kv, r)
  BY StillPending
<1>2. p.kv \in Manager /\ Valid(p.kv) /\ Budgeted(p) /\ IsPlan(p)
  BY DEF PlanInv, Scratch
<1>3. Visits(e, p, r, Visit(e, p, r))
  BY <1>1, <1>2, VisitCases
<1>4. r \in Requests
  BY DEF InPhase, Submitted
<1>5. CASE TooLarge(e, r) /\ Visit(e, p, r) = [p EXCEPT !.outcome = "oversized"]
  <2>1. PICK q : q = Visit(e, p, r)
    OBVIOUS
  <2>2. q.outcome = "oversized"
    <3>1. PICK kv, outcome, items, deferred, tokens :
            p = [kv |-> kv, outcome |-> outcome, items |-> items, deferred |-> deferred, tokens |-> tokens]
      BY <1>2 DEF IsPlan
    <3>2. QED
      BY <1>5, <2>1, <3>1
  <2>3. r \in InPhase(e, {"Waiting"}) /\ Total(e.requests[r].prompt) > MaxTokens
    BY <1>5 DEF TooLarge, IsWaiting, InPhase
  <2>4. PlanSoFar(e, V \cup {r}, q)
    BY <2>2, <2>3 DEF PlanSoFar, Trouble
  <2>5. QED
    BY <2>1, <2>4
<1>6. ASSUME NEW reason \in Reasons, Visit(e, p, r) = Defer(p, r, reason),
             p.items = <<>> => reason = "KVCapacity", reason = "KVCapacity" => Short(e, p.kv, r)
      PROVE  PlanSoFar(e, V \cup {r}, Visit(e, p, r))
  <2>1. PlanInv(e, V \cup {r}, Defer(p, r, reason))
    BY <1>4, <1>6, DeferKeeps
  <2>2. Defer(p, r, reason).outcome = "ok"
    BY <1>2, DeferOutcome
  <2>3. QED
    BY <1>6, <2>1, <2>2 DEF PlanSoFar
<1>7. ASSUME NEW item, Offers(e, p, r, item), Visit(e, p, r) = Select(e, p, item)
      PROVE  PlanSoFar(e, V \cup {r}, Visit(e, p, r))
  <2>1. PICK q : q = Selected(p, item, ExactCall(e, p.kv, item))
    OBVIOUS
  <2>2. Visit(e, p, r) = q
    BY <1>7, <2>1 DEF Select
  <2>3. Ready(e, p.kv, item)
    BY <1>7 DEF Offers
  <2>4. CASE ExactCall(e, p.kv, item).outcome = "ok"
    <3>1. PICK c : c = ExactCall(e, p.kv, item).kv
      OBVIOUS
    <3>2. Selects(e, V, p, r, item, c)
      BY <1>7, <2>4, <3>1 DEF Selects
    <3>3. PlanInv(e, V \cup {r}, q)
      BY <2>1, <3>2, SelectKeeps
    <3>4. q.outcome = "ok"
      BY <1>2, <2>1, <2>4, PlanFields
    <3>5. QED
      BY <2>2, <3>3, <3>4 DEF PlanSoFar
  <2>5. CASE ExactCall(e, p.kv, item).outcome # "ok"
    <3>1. q.outcome = ExactCall(e, p.kv, item).outcome
      BY <1>2, <2>1, <2>5, PlanFields
    <3>2. q.outcome \in {"overflow", "logic_error"}
      BY <1>2, <2>3, <2>5, <3>1, ExactServes DEF Serves
    <3>3. ASSUME PromptsAreDistinct, NoDuplicates(e.kv)
          PROVE  q.outcome = "overflow"
      <4>1. NoDuplicates(p.kv) /\ IsFiniteSet(Live(p.kv))
        BY <3>3, LiveIsFinite DEF PlanInv, Scratch
      <4>2. e.requests[item.id].prompt \in Prompts
        <5>1. item.id = r
          BY <1>7 DEF Offers
        <5>2. QED
          BY <1>1, <1>2, <5>1, CandidateFacts
      <4>3. DistinctKeys(e.requests[item.id].prompt.chunks)
        BY <3>3, <4>2 DEF PromptsAreDistinct
      <4>4. ExactCall(e, p.kv, item).outcome \in {"ok", "overflow"}
        BY <1>2, <2>3, <4>1, <4>3, ExactSucceeds
      <4>5. QED
        BY <2>5, <3>1, <4>4
    <3>4. PlanSoFar(e, V \cup {r}, q)
      BY <3>2, <3>3 DEF PlanSoFar, Trouble
    <3>5. QED
      BY <2>2, <3>4
  <2>6. QED
    BY <2>4, <2>5
<1>8. QED
  BY <1>3, <1>5, <1>6, <1>7 DEF Visits

\* A sequence of different candidates.
Orders(e, order) ==
  /\ Len(order) \in Nat
  /\ \A i \in 1 .. Len(order) : order[i] \in InPhase(e, {"Waiting", "Decoding"})
  /\ \A i, j \in 1 .. Len(order) : order[i] = order[j] => i = j

FirstOf(order, n) == {order[i] : i \in 1 .. n}

\* So the plan is sound after every candidate, up to the first that fails.
LEMMA PlanHolds ==
  ASSUME NEW e, Sound(e), NEW order, Orders(e, order), NEW n \in 0 .. Len(order)
  PROVE  PlanSoFar(e, FirstOf(order, n), PlanOver(e, order)[n])
<1>1. PICK k \in Nat : k = Len(order)
  BY DEF Orders
<1>2. PICK g : g = PlanOver(e, order)
  OBVIOUS
<1>3. IsTable(g, "plan", e, EmptyPlan(e), order, k)
  BY <1>1, <1>2, PlanOverIsTable
<1>4. g[0] = EmptyPlan(e) /\ \A i \in 0 .. k : i + 1 \in 0 .. k => g[i + 1] = Step("plan", e, g[i], order[i + 1])
  <2>1. PICK kind, base : kind = "plan" /\ base = EmptyPlan(e)
    OBVIOUS
  <2>2. IsTable(g, kind, e, base, order, k)
    BY <1>3, <2>1
  <2>3. g[0] = base /\ \A i \in 0 .. k : i + 1 \in 0 .. k => g[i + 1] = Step(kind, e, g[i], order[i + 1])
    <3>1. g[0] = base
      BY <2>2, TableEntries
    <3>2. \A i \in 0 .. k : i + 1 \in 0 .. k => g[i + 1] = Step(kind, e, g[i], order[i + 1])
      BY <2>2, TableEntries
    <3>3. QED
      BY <3>1, <3>2
  <2>4. QED
    BY <2>1, <2>3
<1> DEFINE T == {i \in Nat : i <= k => PlanSoFar(e, FirstOf(order, i), g[i])}
<1>5. 0 \in T
  <2>1. FirstOf(order, 0) = {}
    BY DEF FirstOf
  <2>2. EmptyPlan(e).outcome = "ok"
    BY DEF EmptyPlan
  <2>3. QED
    BY <1>4, <2>1, <2>2, EmptyPlanHolds DEF PlanSoFar
<1>6. ASSUME NEW i \in Nat, i \in T
      PROVE  i + 1 \in T
  <2>1. SUFFICES ASSUME i + 1 <= k
                 PROVE  PlanSoFar(e, FirstOf(order, i + 1), g[i + 1])
    OBVIOUS
  <2>2. i \in 0 .. k /\ i + 1 \in 0 .. k /\ i + 1 \in 1 .. k /\ i <= k
    BY <1>1, <2>1
  <2>3. g[i + 1] = Step("plan", e, g[i], order[i + 1])
    BY <1>4, <2>2
  <2>4. PlanSoFar(e, FirstOf(order, i), g[i])
    BY <1>6, <2>2
  <2>5. CASE g[i].outcome # "ok"
    <3>1. g[i + 1] = g[i]
      BY <2>3, <2>5 DEF Step
    <3>2. QED
      BY <2>4, <2>5, <3>1 DEF PlanSoFar
  <2>6. CASE g[i].outcome = "ok"
    <3>1. g[i + 1] = Visit(e, g[i], order[i + 1])
      BY <2>3, <2>6 DEF Step
    <3>2. PICK r, p, V : r = order[i + 1] /\ p = g[i] /\ V = FirstOf(order, i)
      OBVIOUS
    <3>3. r \in InPhase(e, {"Waiting", "Decoding"}) /\ r \notin V
      <4>1. \A j \in 1 .. i : j \in 1 .. k /\ j # i + 1
        BY <1>1, <2>2
      <4>2. QED
        BY <1>1, <2>2, <3>2, <4>1 DEF Orders, FirstOf
    <3>4. PlanInv(e, V, p) /\ p.outcome = "ok"
      BY <2>4, <2>6, <3>2 DEF PlanSoFar
    <3>5. PlanSoFar(e, V \cup {r}, Visit(e, p, r))
      BY ONLY Sound(e), <3>3, <3>4, VisitKeeps
    <3>6. FirstOf(order, i + 1) = FirstOf(order, i) \cup {order[i + 1]}
      <4>1. 1 .. i + 1 = (1 .. i) \cup {i + 1}
        BY <2>2
      <4>2. QED
        BY <4>1 DEF FirstOf
    <3>7. QED
      BY <3>1, <3>2, <3>5, <3>6
  <2>7. QED
    BY <2>5, <2>6
<1>7. n \in T
  <2>1. n \in Nat
    BY <1>1
  <2> HIDE DEF T
  <2>2. QED
    BY <1>5, <1>6, <2>1, NatSetInduction
<1>8. QED
  BY <1>1, <1>2, <1>7

-----------------------------------------------------------------------------
(* The finished plan passes its own checks.                                  *)

IdSeq(work) == [i \in DOMAIN work |-> work[i].id]

\* Entries that name a request once are a sequence without repetitions.
LEMMA IdSeqFacts ==
  ASSUME NEW T, NEW s \in Seq(T), \A x \in T : x.id \in Requests, Once(s)
  PROVE  IdSeq(s) \in Seq(Requests) /\ IsInjective(IdSeq(s)) /\ Range(IdSeq(s)) = IdsOf(s)
<1>1. PICK k \in Nat : k = Len(s)
  OBVIOUS
<1>2. DOMAIN s = 1 .. k /\ \A i \in 1 .. k : s[i] \in T
  BY <1>1
<1>3. PICK u : u = IdSeq(s)
  OBVIOUS
<1>4. DOMAIN u = 1 .. k /\ \A i \in 1 .. k : u[i] = s[i].id
  BY <1>2, <1>3 DEF IdSeq
<1>5. u \in [1 .. k -> Requests]
  <2>1. \A i \in 1 .. k : s[i].id \in Requests
    BY <1>2
  <2>2. QED
    BY <1>2, <1>3, <2>1 DEF IdSeq
<1>6. u \in Seq(Requests)
  BY <1>5, FunctionIsSequence
<1>7. IsInjective(u)
  <2>1. \A i, j \in 1 .. k : u[i] = u[j] => i = j
    BY <1>2, <1>4 DEF Once
  <2>2. QED
    BY ONLY <1>4, <2>1, InjectionTells
<1>8. Range(u) = IdsOf(s)
  BY <1>2, <1>4 DEF Range, IdsOf
<1>9. QED
  BY <1>3, <1>6, <1>7, <1>8

\* BatchPlan::create_with_deferred accepts the plan.
LEMMA PlanIsWellFormed ==
  ASSUME NEW e, NEW V, NEW p, PlanInv(e, V, p)
  PROVE  WellFormed(p)
<1>1. /\ p.items \in Seq(WorkItem) /\ p.deferred \in Seq(Deferral)
      /\ p.tokens <= MaxTokens /\ Len(p.items) <= MaxSequences
  BY DEF PlanInv, Budgeted
<1>2. Once(p.items) /\ Once(p.deferred) /\ IdsOf(p.items) \cap IdsOf(p.deferred) = {}
  BY DEF PlanInv, Named
<1>3. PICK items \in Seq(WorkItem) : items = p.items
  BY <1>1
<1>4. PICK deferred \in Seq(Deferral) : deferred = p.deferred
  BY <1>1
<1>5. Once(items) /\ Once(deferred) /\ IdsOf(items) \cap IdsOf(deferred) = {}
  BY <1>2, <1>3, <1>4
<1>6. \A x \in WorkItem : x.id \in Requests
  BY DEF WorkItem
<1>7. \A x \in Deferral : x.id \in Requests
  BY DEF Deferral
<1>8. IdSeq(items) \in Seq(Requests) /\ IsInjective(IdSeq(items)) /\ Range(IdSeq(items)) = IdsOf(items)
  BY ONLY <1>5, <1>6, items \in Seq(WorkItem), IdSeqFacts
<1>9. IdSeq(deferred) \in Seq(Requests) /\ IsInjective(IdSeq(deferred))
      /\ Range(IdSeq(deferred)) = IdsOf(deferred)
  BY ONLY <1>5, <1>7, deferred \in Seq(Deferral), IdSeqFacts
<1>10. PICK s \in Seq(Requests), t \in Seq(Requests) : s = IdSeq(items) /\ t = IdSeq(deferred)
  BY <1>8, <1>9
<1>11. IsInjective(s) /\ IsInjective(t) /\ Range(s) \cap Range(t) = {}
  BY <1>5, <1>8, <1>9, <1>10
<1>12. IsInjective(s \o t)
  BY ONLY <1>11, s \in Seq(Requests), t \in Seq(Requests), ConcatIsInjective
<1>13. IsInjective(IdSeq(p.items) \o IdSeq(p.deferred))
  BY <1>3, <1>4, <1>10, <1>12
<1>14. p.items = <<>> => \A d \in Range(p.deferred) : d.reason = "KVCapacity"
  BY DEF PlanInv, Nothing
<1>15. QED
  BY <1>1, <1>13, <1>14 DEF WellFormed, IdSeq

NoConflict(S, allocated) ==
  /\ \A i, j \in S : i.id # j.id =>
       i.evicted \cap j.evicted = {} /\ Range(i.allocated) \cap Range(j.allocated) = {}
  /\ \A i, j \in S : Range(i.matched) \cap (allocated \cup j.evicted) = {}

\* The consistency check of the plan accepts it: no block has two roles.
LEMMA PlanIsConsistent ==
  ASSUME NEW e, NEW V, NEW p, PlanInv(e, V, p)
  PROVE  Consistent(p)
<1>1. PICK S, m : S = Range(p.items) /\ m = p.kv
  OBVIOUS
<1>2. /\ \A i \in S : Done(e, m, i)
      /\ \A i, j \in S : i.id # j.id => Range(i.allocated) \cap Range(j.allocated) = {}
  BY <1>1 DEF PlanInv, Entries
<1>3. ASSUME NEW i \in S, NEW j \in S, i.id # j.id
      PROVE  i.evicted \cap j.evicted = {} /\ Range(i.allocated) \cap Range(j.allocated) = {}
  <2>1. i.evicted \subseteq Range(i.allocated) /\ j.evicted \subseteq Range(j.allocated)
    BY <1>2 DEF Done
  <2>2. QED
    BY <1>2, <1>3, <2>1
<1>4. PICK allocated : allocated = UNION {Range(x.allocated) : x \in S}
  OBVIOUS
<1>5. ASSUME NEW i \in S, NEW j \in S
      PROVE  Range(i.matched) \cap (allocated \cup j.evicted) = {}
  <2>1. SUFFICES ASSUME NEW b \in Range(i.matched), b \in allocated \/ b \in j.evicted
                 PROVE  FALSE
    OBVIOUS
  <2>2. \A x \in S : b \notin Range(x.allocated)
    BY <1>2, <2>1 DEF Done
  <2>3. j.evicted \subseteq Range(j.allocated)
    BY <1>2 DEF Done
  <2>4. b \notin j.evicted
    BY <2>2, <2>3
  <2>5. b \notin allocated
    BY <1>4, <2>2
  <2>6. QED
    BY <2>1, <2>4, <2>5
<1>6. \A i, j \in S : i.id # j.id =>
        i.evicted \cap j.evicted = {} /\ Range(i.allocated) \cap Range(j.allocated) = {}
  BY <1>3
<1>7. NoConflict(S, allocated)
  BY <1>5, <1>6 DEF NoConflict
<1>8. NoConflict(Range(p.items), UNION {Range(x.allocated) : x \in Range(p.items)})
  BY <1>1, <1>4, <1>7
<1>9. QED
  BY <1>8 DEF Consistent, NoConflict

\* The checks of the finished plan change nothing.
LEMMA ApprovalIsFormal ==
  ASSUME NEW e, NEW V, NEW p, PlanSoFar(e, V, p)
  PROVE  Approved(p) = p
<1>1. CASE p.outcome = "ok"
  <2>1. PlanInv(e, V, p)
    BY <1>1 DEF PlanSoFar
  <2>2. Consistent(p) /\ WellFormed(p)
    BY <2>1, PlanIsConsistent, PlanIsWellFormed
  <2>3. QED
    BY <2>2 DEF Approved
<1>2. CASE p.outcome # "ok"
  BY <1>2 DEF Approved
<1>3. QED
  BY <1>1, <1>2

\* Candidates in phase Waiting or Decoding can be compared, and are in some order.
LEMMA CandidatesAreOrdered ==
  ASSUME NEW e, Sound(e), NEW ids \in SUBSET InPhase(e, {"Waiting", "Decoding"})
  PROVE  /\ IsFiniteSet(ids) /\ Comparable(e, ids)
         /\ Orders(e, Candidates(e, ids)) /\ Lists(Candidates(e, ids), ids)
<1>1. IsFiniteSet(ids)
  BY FS_Subset DEF Sound, InPhase
<1>2. Comparable(e, ids)
  BY BatchingAssumption, IntMaxAssumption DEF Comparable, InPhase, Submitted, Sound, Request, Time
<1>3. PICK s : s = Candidates(e, ids)
  OBVIOUS
<1>4. Lists(s, ids)
  BY <1>1, <1>2, <1>3, CandidatesList
<1>5. Orders(e, s)
  <2>1. \A i \in 1 .. Len(s) : s[i] \in ids
    BY <1>4 DEF Lists
  <2>2. QED
    BY <1>4, <2>1 DEF Orders, Lists
<1>6. QED
  BY <1>1, <1>2, <1>3, <1>4, <1>5

\* The plan for a set of runnable requests.
LEMMA PlanFacts ==
  ASSUME NEW e, Sound(e), NEW ids \in SUBSET InPhase(e, {"Waiting", "Decoding"})
  PROVE  PlanSoFar(e, ids, Plan(e, ids))
<1>1. PICK s, n : s = Candidates(e, ids) /\ n = Len(s) /\ Orders(e, s) /\ Lists(s, ids)
  <2>1. Orders(e, Candidates(e, ids)) /\ Lists(Candidates(e, ids), ids)
    BY CandidatesAreOrdered
  <2>2. QED
    BY <2>1
<1>2. n \in 0 .. Len(s)
  BY <1>1 DEF Lists
<1>3. PlanSoFar(e, FirstOf(s, n), PlanOver(e, s)[n])
  BY <1>1, <1>2, PlanHolds
<1>4. FirstOf(s, n) = ids
  BY <1>1 DEF Lists, FirstOf
<1>5. PICK p : p = PlanOver(e, s)[n]
  OBVIOUS
<1>6. PlanSoFar(e, ids, p)
  BY <1>3, <1>4, <1>5
<1>7. Approved(p) = p
  BY <1>6, ApprovalIsFormal
<1>8. Plan(e, ids) = p
  BY <1>1, <1>5, <1>7 DEF Plan
<1>9. QED
  BY <1>6, <1>8

-----------------------------------------------------------------------------
(* Publication and release: what the loops after the replay do to a manager. *)

\* Requests that are still live have the same blocks, and as many tokens in them.
Keeping(m, c) ==
  /\ c \in Manager /\ Valid(c) /\ Live(c) \subseteq Live(m)
  /\ \A s \in Live(c) : c.tables[s] = m.tables[s] /\ TokensHeld(c, s) = TokensHeld(m, s)

\* A manager that only reclaims cached blocks keeps every table.
LEMMA ReclaimKeeps ==
  ASSUME NEW m \in Manager, Valid(m), NEW reply, Refused(m, reply) \/ Reclaimed(m, reply)
  PROVE  Keeping(m, reply.kv)
<1>1. PICK c : c = reply.kv
  OBVIOUS
<1>2. CASE Refused(m, reply)
  <2>1. c \in Manager /\ Valid(c) /\ c.tables = m.tables /\ c.prov = m.prov /\ c.blocks = m.blocks
    BY <1>1, <1>2, RefusedKeepsManager
  <2>2. Live(c) = Live(m)
    BY <2>1 DEF Live
  <2>3. \A s \in Live(c) : TokensHeld(c, s) = TokensHeld(m, s)
    BY <2>1 DEF TokensHeld, TokensIn
  <2>4. QED
    BY <1>1, <2>1, <2>2, <2>3 DEF Keeping
<1>3. CASE Reclaimed(m, reply)
  <2>1. PICK T, copy : /\ Draft(copy) /\ copy.tables \in [Requests -> Seq(T)]
                       /\ Accepted(reply, copy) /\ Reclaims(m, copy)
    BY <1>3 DEF Reclaimed
  <2>2. c \in Manager /\ Valid(c)
    BY <1>1, <2>1, ReplyKeepsManager
  <2>3. Reclaims(m, c)
    BY <1>1, <2>1 DEF Accepted
  <2>4. /\ \A s \in Requests : c.prov[s] # None => c.tables[s] = m.tables[s] /\ m.prov[s] # None
        /\ \A b \in Block : c.blocks[b].valid = m.blocks[b].valid \/ c.blocks[b] = FreeBlock
    BY <2>3 DEF Reclaims
  <2>5. Live(c) \subseteq Live(m) /\ \A s \in Live(c) : c.tables[s] = m.tables[s]
    BY <2>4 DEF Live
  <2>6. ASSUME NEW s \in Live(c)
        PROVE  TokensHeld(c, s) = TokensHeld(m, s)
    <3>1. Range(c.tables[s]) \in SUBSET Block
      BY <2>2, TablesAreInjective
    <3>2. \A b \in Range(c.tables[s]) : c.blocks[b].valid = m.blocks[b].valid
      BY <2>2, <2>4, <3>1, FreeBlocksAreUnheld
    <3>3. TokensIn(c, Range(c.tables[s])) = TokensIn(m, Range(c.tables[s]))
      BY <3>1, <3>2, TokensAgree
    <3>4. QED
      BY <2>5, <3>3 DEF TokensHeld
  <2>7. QED
    BY <1>1, <2>2, <2>5, <2>6 DEF Keeping
<1>4. QED
  BY <1>2, <1>3

\* What a record says of the prompt; publication does not change it.
SameRecords(m, c) ==
  Live(c) = Live(m) /\ \A s \in Live(m) :
    /\ c.prov[s].exact = m.prov[s].exact /\ c.prov[s].chunks = m.prov[s].chunks
    /\ c.prov[s].matched = m.prov[s].matched

\* insert_completed_prompt_blocks succeeds, or a counter overflows.
LEMMA PublicationKeeps ==
  ASSUME NEW m \in Manager, Valid(m), NEW r \in Live(m),
         m.prov[r].exact, m.prov[r].matched < Len(m.prov[r].chunks),
         NEW reply, reply = InsertCompletedPromptBlocks(m, r)
  PROVE  /\ reply.outcome \in {"ok", "overflow"}
         /\ reply.outcome = "ok" => Keeping(m, reply.kv) /\ SameRecords(m, reply.kv)
<1>1. reply.outcome \in {"ok", "overflow"}
  BY InsertCompletedPromptBlocksIsValid
<1>2. r \in Requests /\ m.prov[r] # None
  BY DEF Live
<1>3. Keeping(m, reply.kv)
  BY <1>2, InsertCompletedPromptBlocksReply, ReclaimKeeps
<1>4. PICK blocks, index, epoch :
        LET copy == [m EXCEPT !.blocks = blocks, !.index = index, !.epoch = epoch,
                              !.prov[r].published = TRUE]
        IN  reply \in {Refuse(m, "ok"), Refuse(m, "overflow"), Commit(m, copy)}
  BY DEF InsertCompletedPromptBlocks
<1>5. PICK copy : copy = [m EXCEPT !.blocks = blocks, !.index = index, !.epoch = epoch,
                                   !.prov[r].published = TRUE]
  OBVIOUS
<1>6. copy.prov = [m.prov EXCEPT ![r].published = TRUE]
  BY <1>5 DEF Manager
<1>7. reply.outcome = "ok" => reply.kv = m \/ reply.kv.prov = copy.prov
  <2>1. reply \in {Refuse(m, "ok"), Refuse(m, "overflow"), Commit(m, copy)}
    BY <1>4, <1>5
  <2>2. Commit(m, copy).kv = copy \/ Commit(m, copy).outcome = "logic_error"
    BY DEF Commit, Refuse
  <2>3. Refuse(m, "ok").kv = m /\ Refuse(m, "overflow").kv = m
    BY DEF Refuse
  <2>4. QED
    BY <2>1, <2>2, <2>3
<1>8. m.prov \in [Requests -> RequestProvenance \cup {None}]
  BY DEF Manager
<1>9. m.prov[r] \in RequestProvenance
  BY <1>2, <1>8
<1>10. PICK q : q = [m.prov[r] EXCEPT !.published = TRUE]
  OBVIOUS
<1>11. /\ q \in RequestProvenance /\ q # None /\ q.exact = m.prov[r].exact /\ q.chunks = m.prov[r].chunks
       /\ q.matched = m.prov[r].matched
  <2>1. q \in RequestProvenance /\ q.exact = m.prov[r].exact /\ q.chunks = m.prov[r].chunks
        /\ q.matched = m.prov[r].matched
    BY <1>9, <1>10 DEF RequestProvenance
  <2>2. QED
    BY <2>1, NoneAssumption
<1>12. copy.prov[r] = q /\ \A s \in Requests : s # r => copy.prov[s] = m.prov[s]
  BY <1>2, <1>6, <1>8, <1>10
<1>13. ASSUME reply.outcome = "ok"
       PROVE  SameRecords(m, reply.kv)
  <2>1. CASE reply.kv = m
    BY <2>1 DEF SameRecords
  <2>2. CASE reply.kv.prov = copy.prov
    <3>1. Live(reply.kv) = Live(m)
      BY <1>2, <1>11, <1>12, <2>2 DEF Live
    <3>2. QED
      BY <1>11, <1>12, <2>2, <3>1 DEF SameRecords, Live
  <2>3. QED
    BY <1>7, <1>13, <2>1, <2>2
<1>14. QED
  BY <1>1, <1>3, <1>13

\* release_request succeeds, and the others keep their blocks.
LEMMA ReleaseKeeps ==
  ASSUME NEW m \in Manager, Valid(m), IsFiniteSet(Live(m)), NEW r \in Live(m),
         NEW reply, reply = ReleaseRequest(m, r)
  PROVE  /\ reply.outcome = "ok" /\ Keeping(m, reply.kv)
         /\ Live(reply.kv) = Live(m) \ {r}
         /\ \A s \in Live(reply.kv) : reply.kv.prov[s] = m.prov[s]
<1>1. reply.outcome = "ok"
  BY ReleaseRequestIsValid
<1>2. r \in Requests
  BY DEF Live
<1>3. Keeping(m, reply.kv)
  BY ReleaseRequestReply, ReclaimKeeps
<1>4. PICK blocks, free, represented :
        reply = Commit(m, [m EXCEPT !.blocks = blocks, !.free = free, !.tables[r] = <<>>,
                                    !.prov[r] = None, !.represented = represented])
  BY DEF ReleaseRequest
<1>5. PICK copy : copy = [m EXCEPT !.blocks = blocks, !.free = free, !.tables[r] = <<>>,
                                   !.prov[r] = None, !.represented = represented]
  OBVIOUS
<1>6. copy.prov = [m.prov EXCEPT ![r] = None] /\ DOMAIN m.prov = Requests
  BY <1>5 DEF Manager
<1>7. reply.kv = copy
  BY <1>1, <1>4, <1>5 DEF Commit, Refuse
<1>8. QED
  BY <1>1, <1>2, <1>3, <1>6, <1>7 DEF Live

-----------------------------------------------------------------------------
(* The loops over the plan's items.                                          *)

\* c is the plan's manager p.kv after the requests of `gone` were released.
Settled(p, gone, c) ==
  /\ Keeping(p.kv, c) /\ Live(c) = Live(p.kv) \ gone
  /\ \A s \in Live(c) :
       /\ c.prov[s].exact = p.kv.prov[s].exact /\ c.prov[s].chunks = p.kv.prov[s].chunks
       /\ c.prov[s].matched = p.kv.prov[s].matched

\* The loop releases the item's request.
Releasing(e, loop, item) ==
  \/ loop = "release prefills" /\ item.prefill /\ Ends(e, item)
  \/ loop = "release decodes" /\ ~item.prefill /\ Ends(e, item)

Loops == {"publish", "release prefills", "release decodes"}

\* How a loop ends, or is so far.
Progress(p, gone, reply) ==
  reply.outcome \in {"ok", "overflow"} /\ (reply.outcome = "ok" => Settled(p, gone, reply.kv))

\* One more publication or release.
LEMMA SettledMore ==
  ASSUME NEW p, NEW gone, NEW m, Settled(p, gone, m), NEW c, Keeping(m, c), NEW more,
         Live(c) = Live(m) \ more,
         \A s \in Live(c) : /\ c.prov[s].exact = m.prov[s].exact /\ c.prov[s].chunks = m.prov[s].chunks
                            /\ c.prov[s].matched = m.prov[s].matched
  PROVE  Settled(p, gone \cup more, c)
<1>1. Live(c) \subseteq Live(m) /\ Live(m) \subseteq Live(p.kv) /\ Live(c) = Live(p.kv) \ (gone \cup more)
  BY DEF Settled, Keeping
<1>2. Keeping(p.kv, c)
  BY <1>1 DEF Settled, Keeping
<1>3. QED
  BY <1>1, <1>2 DEF Settled

\* What a loop calls for an item succeeds, or a counter overflows.
LEMMA LoopCallSettles ==
  ASSUME NEW e, Sound(e), NEW V, NEW p, PlanInv(e, V, p), NEW item \in Range(p.items),
         NEW loop \in Loops, NEW gone, NEW m, Settled(p, gone, m),
         loop = "publish" \/ Releasing(e, loop, item) => item.id \notin gone
  PROVE  Progress(p, gone \cup (IF Releasing(e, loop, item) THEN {item.id} ELSE {}),
                  LoopCall(e, loop, m, item))
<1> DEFINE r == item.id
           reply == LoopCall(e, loop, m, item)
<1>1. m \in Manager /\ Valid(m) /\ Live(m) = Live(p.kv) \ gone /\ IsFiniteSet(Live(m))
  <2>1. IsFiniteSet(Live(p.kv))
    BY LiveIsFinite
  <2>2. m \in Manager /\ Valid(m) /\ Live(m) = Live(p.kv) \ gone
    BY DEF Settled, Keeping
  <2>3. QED
    BY <2>1, <2>2, FS_Difference
<1>2. r \in Live(p.kv) /\ Done(e, p.kv, item)
  BY DEF PlanInv, Scratch, Entries, IdsOf
<1>3. CASE loop = "publish" /\ ToPublish(e, item)
  <2>1. ~Releasing(e, loop, item) /\ r \in Live(m)
    BY <1>1, <1>2, <1>3 DEF Releasing
  <2>2. reply = InsertCompletedPromptBlocks(m, r)
    BY <1>3 DEF LoopCall
  <2>3. /\ item.prefill /\ UsesPrefix(e.requests[r])
        /\ Len(item.matched) < Len(e.requests[r].prompt.chunks)
    BY <1>3 DEF ToPublish
  <2>4. p.kv.prov[r] = Exact(e.requests[r].prompt, Len(item.matched))
    BY <1>2, <2>3 DEF Done, RecordOf
  <2>5. m.prov[r].exact /\ m.prov[r].matched < Len(m.prov[r].chunks)
    <3>1. /\ m.prov[r].exact = p.kv.prov[r].exact /\ m.prov[r].chunks = p.kv.prov[r].chunks
          /\ m.prov[r].matched = p.kv.prov[r].matched
      BY <2>1 DEF Settled
    <3>2. QED
      BY <2>3, <2>4, <3>1 DEF Exact
  <2>6. PICK s : s = r
    OBVIOUS
  <2>7. PICK answer : answer = InsertCompletedPromptBlocks(m, s)
    OBVIOUS
  <2>8. s \in Live(m) /\ m.prov[s].exact /\ m.prov[s].matched < Len(m.prov[s].chunks)
    BY <2>1, <2>5, <2>6
  <2>9. /\ answer.outcome \in {"ok", "overflow"}
        /\ answer.outcome = "ok" => Keeping(m, answer.kv) /\ SameRecords(m, answer.kv)
    BY ONLY <1>1, <2>7, <2>8, PublicationKeeps
  <2>10. ASSUME answer.outcome = "ok"
         PROVE  Settled(p, gone, answer.kv)
    <3>1. PICK c : c = answer.kv
      OBVIOUS
    <3>2. Keeping(m, c) /\ SameRecords(m, c)
      BY <2>9, <2>10, <3>1
    <3>3. Live(c) = Live(m) \ {}
      BY <3>2 DEF SameRecords
    <3>4. Settled(p, gone \cup {}, c)
      <4>1. \A t \in Live(c) : /\ c.prov[t].exact = m.prov[t].exact /\ c.prov[t].chunks = m.prov[t].chunks
                               /\ c.prov[t].matched = m.prov[t].matched
        BY <3>2 DEF SameRecords
      <4>2. QED
        BY ONLY Settled(p, gone, m), <3>2, <3>3, <4>1, SettledMore
    <3>5. gone \cup {} = gone
      OBVIOUS
    <3>6. QED
      BY <3>1, <3>4, <3>5
  <2>11. Progress(p, gone, answer)
    BY <2>9, <2>10 DEF Progress
  <2>12. reply = answer
    BY <2>2, <2>6, <2>7
  <2> HIDE DEF reply
  <2>13. gone \cup (IF Releasing(e, loop, item) THEN {item.id} ELSE {}) = gone
    BY <2>1
  <2>14. QED
    BY <2>11, <2>12, <2>13 DEF reply
<1>4. CASE Releasing(e, loop, item)
  <2>1. r \in Live(m) /\ loop # "publish" /\ loop # "replay"
    BY <1>1, <1>2, <1>4 DEF Releasing
  <2>2. reply = ReleaseRequest(m, r)
    BY <1>4, <2>1 DEF LoopCall, Releasing
  <2>3. PICK s : s = r
    OBVIOUS
  <2>4. PICK answer : answer = ReleaseRequest(m, s)
    OBVIOUS
  <2>5. s \in Live(m)
    BY <2>1, <2>3
  <2>6. /\ answer.outcome = "ok" /\ Keeping(m, answer.kv)
        /\ Live(answer.kv) = Live(m) \ {s}
        /\ \A t \in Live(answer.kv) : answer.kv.prov[t] = m.prov[t]
    BY ONLY <1>1, <2>4, <2>5, ReleaseKeeps
  <2>7. Settled(p, gone \cup {s}, answer.kv)
    <3>1. PICK c : c = answer.kv
      OBVIOUS
    <3>2. Keeping(m, c) /\ Live(c) = Live(m) \ {s}
      BY <2>6, <3>1
    <3>3. \A t \in Live(c) : /\ c.prov[t].exact = m.prov[t].exact /\ c.prov[t].chunks = m.prov[t].chunks
                             /\ c.prov[t].matched = m.prov[t].matched
      BY <2>6, <3>1
    <3>4. Settled(p, gone \cup {s}, c)
      BY ONLY Settled(p, gone, m), <3>2, <3>3, SettledMore
    <3>5. QED
      BY <3>1, <3>4
  <2>8. Progress(p, gone \cup {s}, answer)
    BY <2>6, <2>7 DEF Progress
  <2>9. reply = answer
    BY <2>2, <2>3, <2>4
  <2> HIDE DEF reply
  <2>10. gone \cup (IF Releasing(e, loop, item) THEN {item.id} ELSE {}) = gone \cup {s}
    BY <1>4, <2>3
  <2>11. QED
    BY <2>8, <2>9, <2>10 DEF reply
<1>5. CASE ~(loop = "publish" /\ ToPublish(e, item)) /\ ~Releasing(e, loop, item)
  <2>1. reply = Refuse(m, "ok")
    BY <1>5 DEF LoopCall, Releasing, Loops
  <2>2. reply.outcome = "ok" /\ reply.kv = m
    BY <2>1 DEF Refuse
  <2> HIDE DEF reply
  <2>3. Progress(p, gone, reply)
    BY <2>2 DEF Progress
  <2>4. gone \cup (IF Releasing(e, loop, item) THEN {item.id} ELSE {}) = gone
    BY <1>5
  <2>5. QED
    BY <2>3, <2>4 DEF reply
<1>6. QED
  BY <1>3, <1>4, <1>5

\* Those that a loop has released after n items.
Released(e, loop, items, n) ==
  {items[j].id : j \in {k \in 1 .. n : Releasing(e, loop, items[k])}}

\* So does the loop.
LEMMA LoopSettles ==
  ASSUME NEW e, Sound(e), NEW V, NEW p, PlanInv(e, V, p), NEW loop \in Loops, NEW gone,
         loop = "publish" => gone = {},
         \A i \in Range(p.items) : Releasing(e, loop, i) => i.id \notin gone,
         NEW before, Progress(p, gone, before)
  PROVE  Progress(p, gone \cup Released(e, loop, p.items, Len(p.items)),
                  AfterLoop(e, loop, before, p.items))
<1>1. PICK items \in Seq(WorkItem) : items = p.items /\ Once(items)
  BY DEF PlanInv, Budgeted, Named
<1>2. PICK k \in Nat : k = Len(items) /\ DOMAIN items = 1 .. k
  OBVIOUS
<1>3. PICK h : IsTable(h, loop, e, before, items, k) /\ AfterLoop(e, loop, before, items) = h[k]
  <2>1. loop # "plan" /\ Len(items) \in Nat
    BY <1>2 DEF Loops
  <2>2. PICK h : /\ IsTable(h, loop, e, before, items, Len(items))
                 /\ AfterLoop(e, loop, before, items) = h[Len(items)]
    BY <2>1, AfterLoopIsEntry
  <2>3. QED
    BY <1>2, <2>2
<1>4. h[0] = before
  <2>1. IsTable(h, loop, e, before, items, k)
    BY <1>3
  <2>2. QED
    BY ONLY <2>1, k \in Nat, TableEntries
<1>5. \A i \in 0 .. k : i + 1 \in 0 .. k => h[i + 1] = Step(loop, e, h[i], items[i + 1])
  BY <1>3, TableEntries
<1> DEFINE T == {i \in Nat : i <= k => Progress(p, gone \cup Released(e, loop, items, i), h[i])}
<1>6. 0 \in T
  <2>1. Released(e, loop, items, 0) = {}
    BY DEF Released
  <2>2. gone \cup Released(e, loop, items, 0) = gone
    BY <2>1
  <2>3. QED
    BY <1>4, <2>2
<1>7. ASSUME NEW i \in Nat, i \in T
      PROVE  i + 1 \in T
  <2>1. SUFFICES ASSUME i + 1 <= k
                 PROVE  Progress(p, gone \cup Released(e, loop, items, i + 1), h[i + 1])
    OBVIOUS
  <2>2. i \in 0 .. k /\ i + 1 \in 0 .. k /\ i + 1 \in 1 .. k /\ i <= k
    BY <1>2, <2>1
  <2>3. h[i + 1] = Step(loop, e, h[i], items[i + 1])
    BY <1>5, <2>2
  <2>4. Progress(p, gone \cup Released(e, loop, items, i), h[i])
    BY <1>7, <2>2
  <2>5. CASE h[i].outcome # "ok"
    <3>1. h[i + 1] = h[i]
      BY <2>3, <2>5 DEF Step
    <3>2. QED
      BY <2>4, <2>5, <3>1 DEF Progress
  <2>6. CASE h[i].outcome = "ok"
    <3>1. h[i + 1] = LoopCall(e, loop, h[i].kv, items[i + 1])
      BY <2>3, <2>6 DEF Step, Loops
    <3>2. PICK item, m, lost : item = items[i + 1] /\ m = h[i].kv /\ lost = gone \cup Released(e, loop, items, i)
      OBVIOUS
    <3>3. item \in Range(p.items) /\ Settled(p, lost, m)
      BY <1>1, <1>2, <2>2, <2>4, <2>6, <3>2 DEF Range, Progress
    <3>4. loop = "publish" \/ Releasing(e, loop, item) => item.id \notin lost
      <4>1. CASE loop = "publish"
        <5>1. lost = {}
          BY <3>2, <4>1 DEF Released, Releasing
        <5>2. QED
          BY <5>1
      <4>2. CASE Releasing(e, loop, item)
        <5>1. item.id \notin gone
          BY <3>3, <4>2
        <5>2. ASSUME NEW j \in 1 .. i, items[j].id = item.id
              PROVE  FALSE
          <6>1. j \in 1 .. k /\ j # i + 1
            BY <1>2, <2>2
          <6>2. QED
            BY <1>1, <1>2, <2>2, <3>2, <5>2, <6>1 DEF Once
        <5>3. QED
          BY <3>2, <5>1, <5>2 DEF Released
      <4>3. QED
        BY <4>1, <4>2
    <3>5. Progress(p, lost \cup (IF Releasing(e, loop, item) THEN {item.id} ELSE {}),
                   LoopCall(e, loop, m, item))
      BY ONLY Sound(e), PlanInv(e, V, p), loop \in Loops, <3>3, <3>4, LoopCallSettles
    <3>6. Released(e, loop, items, i + 1)
            = Released(e, loop, items, i) \cup (IF Releasing(e, loop, item) THEN {item.id} ELSE {})
      <4>1. 1 .. i + 1 = (1 .. i) \cup {i + 1}
        BY <2>2
      <4>2. QED
        BY <3>2, <4>1 DEF Released
    <3>7. lost \cup (IF Releasing(e, loop, item) THEN {item.id} ELSE {})
            = gone \cup Released(e, loop, items, i + 1)
      BY <3>2, <3>6
    <3>8. Progress(p, gone \cup Released(e, loop, items, i + 1), LoopCall(e, loop, m, item))
      BY <3>5, <3>7
    <3>9. QED
      BY <3>1, <3>2, <3>8
  <2>7. QED
    BY <2>5, <2>6
<1>8. k \in T
  <2> HIDE DEF T
  <2>1. QED
    BY <1>6, <1>7, NatSetInduction
<1>9. Progress(p, gone \cup Released(e, loop, items, k), h[k])
  BY <1>8
<1>10. Progress(p, gone \cup Released(e, loop, items, Len(items)), AfterLoop(e, loop, before, items))
  BY <1>2, <1>3, <1>9
<1>11. QED
  BY <1>1, <1>10

-----------------------------------------------------------------------------
(* The manager that an iteration prepares.                                   *)

\* The requests that end with this iteration.
Ended(e, items) == {i.id : i \in {j \in Range(items) : Ends(e, j)}}

\* Without an item nothing is called.
LEMMA NothingIsPrepared ==
  ASSUME NEW e, NEW p, p.items = <<>>
  PROVE  PreparedManager(e, p) = Refuse(e.kv, "ok")
<1>1. \A before : /\ AfterLoop(e, "replay", before, <<>>) = before
                  /\ AfterLoop(e, "publish", before, <<>>) = before
                  /\ AfterLoop(e, "release prefills", before, <<>>) = before
                  /\ AfterLoop(e, "release decodes", before, <<>>) = before
  BY AfterNothing
<1>2. \A before : /\ AfterLoop(e, "replay", before, p.items) = before
                  /\ AfterLoop(e, "publish", before, p.items) = before
                  /\ AfterLoop(e, "release prefills", before, p.items) = before
                  /\ AfterLoop(e, "release decodes", before, p.items) = before
  BY <1>1
<1>3. QED
  BY <1>2 DEF PreparedManager

\* The replayed manager, before anything is published or released.
LEMMA NothingIsGone ==
  ASSUME NEW e, NEW V, NEW p, PlanInv(e, V, p)
  PROVE  Settled(p, {}, p.kv)
BY DEF PlanInv, Scratch, Settled, Keeping

\* The prepared manager: the scratch manager without those who ended.
LEMMA PreparedFacts ==
  ASSUME NEW e, Sound(e), NEW V, NEW p, PlanInv(e, V, p)
  PROVE  Progress(p, Ended(e, p.items), PreparedManager(e, p))
<1>1. PICK items \in Seq(WorkItem) : items = p.items /\ Once(items)
  BY DEF PlanInv, Budgeted, Named
<1> DEFINE replayed == AfterLoop(e, "replay", Refuse(e.kv, "ok"), p.items)
           published == AfterLoop(e, "publish", replayed, p.items)
           prefills == AfterLoop(e, "release prefills", published, p.items)
           decodes == AfterLoop(e, "release decodes", prefills, p.items)
           first == Released(e, "release prefills", p.items, Len(p.items))
           second == Released(e, "release decodes", p.items, Len(p.items))
<1>2. Progress(p, {}, replayed)
  <2>1. replayed.outcome = "ok" /\ replayed.kv = p.kv
    BY DEF PlanInv, Replayed
  <2>2. Settled(p, {}, p.kv)
    BY NothingIsGone
  <2> HIDE DEF replayed
  <2>3. QED
    BY <2>1, <2>2 DEF Progress
<1> HIDE DEF replayed
<1>3. Progress(p, {}, published)
  <2>1. PICK loop, gone : loop = "publish" /\ gone = {} /\ loop \in Loops
    BY DEF Loops
  <2>2. /\ loop = "publish" => gone = {}
        /\ \A i \in Range(p.items) : Releasing(e, loop, i) => i.id \notin gone
        /\ Progress(p, gone, replayed)
    BY <1>2, <2>1
  <2>3. Progress(p, gone \cup Released(e, loop, p.items, Len(p.items)),
                 AfterLoop(e, loop, replayed, p.items))
    BY ONLY <2>1, <2>2, Sound(e), PlanInv(e, V, p), loop \in Loops, LoopSettles
  <2>4. Released(e, loop, p.items, Len(p.items)) = {}
    BY <2>1 DEF Released, Releasing
  <2>5. gone \cup Released(e, loop, p.items, Len(p.items)) = {}
    BY <2>1, <2>4
  <2>6. QED
    BY <2>1, <2>3, <2>5
<1> HIDE DEF published
<1>4. Progress(p, first, prefills)
  <2>1. PICK loop, gone : loop = "release prefills" /\ gone = {} /\ loop \in Loops
    BY DEF Loops
  <2>2. /\ loop = "publish" => gone = {}
        /\ \A i \in Range(p.items) : Releasing(e, loop, i) => i.id \notin gone
        /\ Progress(p, gone, published)
    BY <1>3, <2>1
  <2>3. Progress(p, gone \cup Released(e, loop, p.items, Len(p.items)),
                 AfterLoop(e, loop, published, p.items))
    BY ONLY <2>1, <2>2, Sound(e), PlanInv(e, V, p), loop \in Loops, LoopSettles
  <2>5. gone \cup Released(e, loop, p.items, Len(p.items)) = first
    BY <2>1
  <2>6. QED
    BY <2>1, <2>3, <2>5
<1> HIDE DEF prefills
<1>5. first = {i.id : i \in {j \in Range(p.items) : j.prefill /\ Ends(e, j)}}
  BY <1>1 DEF Released, Releasing, Range
<1>6. second = {i.id : i \in {j \in Range(p.items) : ~j.prefill /\ Ends(e, j)}}
  BY <1>1 DEF Released, Releasing, Range
<1>7. Progress(p, first \cup second, decodes)
  <2>1. PICK loop, gone : loop = "release decodes" /\ gone = first /\ loop \in Loops
    BY DEF Loops
  <2>2. loop = "publish" => gone = {}
    BY <2>1
  <2>3. ASSUME NEW i \in Range(p.items), Releasing(e, loop, i)
        PROVE  i.id \notin gone
    <3>1. ~i.prefill
      BY <2>1, <2>3 DEF Releasing
    <3>2. ASSUME NEW j \in Range(p.items), j.prefill, j.id = i.id
          PROVE  FALSE
      BY <1>1, <3>1, <3>2 DEF Once, Range
    <3>3. QED
      BY <1>5, <2>1, <3>2
  <2>4. Progress(p, gone, prefills)
    BY <1>4, <2>1
  <2>5. Progress(p, gone \cup Released(e, loop, p.items, Len(p.items)),
                 AfterLoop(e, loop, prefills, p.items))
    BY ONLY <2>1, <2>2, <2>3, <2>4, Sound(e), PlanInv(e, V, p), loop \in Loops, LoopSettles
  <2>6. gone \cup Released(e, loop, p.items, Len(p.items)) = first \cup second
    BY <2>1
  <2>7. QED
    BY <2>1, <2>5, <2>6
<1>8. first \cup second = Ended(e, p.items)
  BY <1>5, <1>6 DEF Ended
<1>9. decodes = PreparedManager(e, p)
  BY DEF PreparedManager, replayed, published, prefills
<1>10. QED
  BY <1>7, <1>8, <1>9

-----------------------------------------------------------------------------
(* The time of a batch.                                                      *)

\* A time is a natural number, no marker.
LEMMA TimeIsNatural == Time \subseteq Nat /\ None \notin Time /\ Overflow \notin Time
BY IntMaxAssumption, OverflowAssumption, NoRequestAssumption DEF Time

\* Checked operations on numbers yield a number, or report that it does not fit.
LEMMA CheckedSum ==
  ASSUME NEW x \in Nat \cup {Overflow}, NEW y \in Nat \cup {Overflow}
  PROVE  /\ Plus(x, y) \in Nat \cup {Overflow}
         /\ x \in Time /\ Plus(x, y) # Overflow => Plus(x, y) \in Time /\ Plus(x, y) >= x
<1>1. \A n \in Nat : n # Overflow
  BY OverflowAssumption
<1>2. CASE x = Overflow \/ y = Overflow
  BY <1>1, <1>2 DEF Plus
<1>3. CASE x \in Nat /\ y \in Nat
  <2>1. Plus(x, y) = IF AddOverflows(x, y) THEN Overflow ELSE x + y
    BY <1>1, <1>3 DEF Plus, CheckedAdd
  <2>2. ~AddOverflows(x, y) /\ x \in Time => x + y \in Time
    BY <1>3, IntMaxAssumption DEF AddOverflows, Time
  <2>3. x + y \in Nat /\ x + y # Overflow /\ x + y >= x
    BY <1>1, <1>3
  <2>4. QED
    BY <1>3, <2>1, <2>2, <2>3
<1>4. QED
  BY <1>1, <1>2, <1>3

\* A checked product is a number, or it overflows.
LEMMA CheckedProduct ==
  ASSUME NEW x \in Nat \cup {Overflow}, NEW y \in Nat \cup {Overflow}
  PROVE  Times(x, y) \in Nat \cup {Overflow}
<1>1. CASE x = Overflow \/ y = Overflow
  BY <1>1 DEF Times
<1>2. CASE x \in Nat /\ y \in Nat
  <2>1. Times(x, y) \in {0, Overflow, x * y}
    <3>1. \A n \in Nat : n # Overflow
      BY OverflowAssumption
    <3>2. Times(x, y) = CheckedMultiply(x, y)
      BY <1>2, <3>1 DEF Times
    <3>3. QED
      BY <3>2 DEF CheckedMultiply
  <2>2. x * y \in Nat
    BY <1>2
  <2>3. QED
    BY <2>1, <2>2
<1>3. QED
  BY <1>1, <1>2

\* The time of a batch is a number, or it overflows.
LEMMA BatchTimeIsNatural ==
  ASSUME NEW tokens \in Nat, NEW decodes \in Nat, NEW sequences \in Nat
  PROVE  EstimateBatchTime(tokens, decodes, sequences) \in Nat \cup {Overflow}
<1>1. \A n \in Nat : CheckedCount(n) \in Nat \cup {Overflow}
  BY DEF CheckedCount
<1>2. {BatchBase, BatchPerToken, BatchPerDecode, BatchPerSequence} \subseteq Nat
  BY BackendAssumption, IntMaxAssumption DEF ValidConfiguration
<1>3. /\ Times(BatchPerToken, CheckedCount(tokens)) \in Nat \cup {Overflow}
      /\ Times(BatchPerDecode, CheckedCount(decodes)) \in Nat \cup {Overflow}
      /\ Times(BatchPerSequence, CheckedCount(sequences)) \in Nat \cup {Overflow}
  BY <1>1, <1>2, CheckedProduct
<1>4. Plus(BatchBase, Times(BatchPerToken, CheckedCount(tokens))) \in Nat \cup {Overflow}
  BY <1>2, <1>3, CheckedSum
<1>5. Plus(Plus(BatchBase, Times(BatchPerToken, CheckedCount(tokens))),
           Times(BatchPerDecode, CheckedCount(decodes))) \in Nat \cup {Overflow}
  BY <1>3, <1>4, CheckedSum
<1>6. QED
  BY <1>3, <1>5, CheckedSum DEF EstimateBatchTime

\* A batch ends at a time that is not before it starts, or its time does not fit.
LEMMA BatchEndIsTime ==
  ASSUME NEW e, e.clock \in Time, NEW V, NEW p, PlanInv(e, V, p)
  PROVE  /\ BatchEnd(e, p) \in Time \cup {Overflow}
         /\ BatchEnd(e, p) # Overflow => BatchEnd(e, p) >= e.clock
<1> DEFINE decodes == Cardinality({i \in Range(p.items) : ~i.prefill})
           cost == EstimateBatchTime(p.tokens - decodes, decodes, Len(p.items))
<1>1. decodes \in Nat /\ decodes <= p.tokens /\ p.tokens \in Nat /\ Len(p.items) \in Nat
  <2>1. IsFiniteSet(DecodesOf(Range(p.items))) /\ decodes <= p.tokens
    BY DEF PlanInv, Tally, DecodesOf
  <2>2. decodes \in Nat
    BY <2>1, FS_CardinalityType DEF DecodesOf
  <2>3. p.items \in Seq(WorkItem) /\ p.tokens \in Nat
    BY DEF PlanInv, Budgeted
  <2>4. QED
    BY <2>1, <2>2, <2>3
<1>2. p.tokens - decodes \in Nat
  <2> HIDE DEF decodes
  <2>1. QED
    BY <1>1
<1>3. cost \in Nat \cup {Overflow}
  BY <1>1, <1>2, BatchTimeIsNatural
<1>4. BatchEnd(e, p) = Plus(e.clock, cost)
  BY DEF BatchEnd
<1> HIDE DEF cost
<1>5. e.clock \in Nat \cup {Overflow}
  BY TimeIsNatural
<1>6. QED
  BY <1>3, <1>4, <1>5, CheckedSum

-----------------------------------------------------------------------------
(* The engine's inductive invariant, and the work of an iteration.           *)

\* What was recorded of a request, by the phase it is in.
Lifecycle(req) ==
  /\ req.state \in {"Waiting", "Decoding", "Finished", "Cancelled"}
  /\ req.state = "Waiting" => req.admitted = None
  /\ req.admitted = None => req.generated = 0
  /\ req.state = "Decoding" => req.admitted # None /\ req.generated < req.limit
  /\ req.state = "Finished" => req.admitted # None

EngineInv(e) ==
  /\ e \in Engine /\ Sound(e)
  /\ \A r \in Submitted(e) : Lifecycle(e.requests[r])

\* The blocks of a decoding request hold its prompt and the tokens generated.
Holds(e) ==
  \A r \in Live(e.kv) :
    TokensHeld(e.kv, r) = Total(e.requests[r].prompt) + e.requests[r].generated

\* The work of an iteration: a plan, or nothing at all.
Workload(e, arrivals, work) ==
  /\ work.items \in Seq(WorkItem) /\ Once(work.items) /\ work.deferred \in Seq(Deferral)
  /\ \A i \in Range(work.items) :
       /\ i.id \in InPhase(e, {"Waiting", "Decoding"}) /\ i.prefill = IsWaiting(e, i.id)
       /\ i.prefill => /\ i.id \in arrivals
                       /\ i.cost = Suffix(e.requests[i.id].prompt, i.matched)

\* The manager after the work: who is live, with how many tokens.
Carried(e, items, c) ==
  /\ c \in Manager /\ Valid(c)
  /\ Live(c) = (Live(e.kv) \cup IdsOf(items)) \ Ended(e, items)
  /\ \A s \in Live(c) \ IdsOf(items) : TokensHeld(c, s) = TokensHeld(e.kv, s)
  /\ \A i \in Range(items) : i.id \in Live(c) =>
       TokensHeld(c, i.id) = IF i.prefill THEN Total(e.requests[i.id].prompt)
                             ELSE TokensHeld(e.kv, i.id) + 1

Prepared(e, items, reply) ==
  reply.outcome \in {"ok", "overflow"} /\ (reply.outcome = "ok" => Carried(e, items, reply.kv))

\* What is known of a request that was submitted.
LEMMA RequestTypes ==
  ASSUME NEW e, Sound(e), NEW r \in Submitted(e)
  PROVE  /\ r \in Requests /\ e.requests[r] \in Request /\ e.requests[r].prompt \in Prompts
         /\ e.requests[r].limit \in Nat /\ e.requests[r].generated \in Nat
         /\ Total(e.requests[r].prompt) \in Nat
<1>1. r \in Requests /\ e.requests[r] \in Request
  BY DEF Sound, Submitted
<1>2. PICK req \in Request : req = e.requests[r]
  BY <1>1
<1>3. req.prompt \in Prompts /\ req.limit \in OutputLimits /\ req.generated \in Nat
  BY DEF Request
<1>4. Total(req.prompt) \in Nat
  BY <1>3, PromptTypes
<1>5. req.limit \in Nat
  BY <1>3, BatchingAssumption
<1>6. QED
  BY <1>1, <1>2, <1>3, <1>4, <1>5

\* A plan is work.
LEMMA PlanIsWorkload ==
  ASSUME NEW e, Sound(e), NEW arrivals, NEW p, PlanInv(e, Runnable(e, arrivals), p)
  PROVE  Workload(e, arrivals, p)
<1>1. p.items \in Seq(WorkItem) /\ Once(p.items) /\ p.deferred \in Seq(Deferral)
  BY DEF PlanInv, Budgeted, Named
<1>2. ASSUME NEW i \in Range(p.items)
      PROVE  /\ i.id \in InPhase(e, {"Waiting", "Decoding"}) /\ i.prefill = IsWaiting(e, i.id)
             /\ i.prefill => /\ i.id \in arrivals
                             /\ i.cost = Suffix(e.requests[i.id].prompt, i.matched)
  <2>1. Done(e, p.kv, i)
    BY <1>2 DEF PlanInv, Entries
  <2>2. i.id \in Runnable(e, arrivals)
    BY <1>2 DEF PlanInv, Named, IdsOf
  <2>3. i.id \in InPhase(e, {"Waiting", "Decoding"}) /\ i.prefill = IsWaiting(e, i.id)
    BY <2>1 DEF Done
  <2>4. i.prefill => i.id \notin InPhase(e, {"Decoding"})
    BY <2>3 DEF IsWaiting, InPhase
  <2>5. i.prefill => i.cost = Suffix(e.requests[i.id].prompt, i.matched)
    BY <2>1 DEF Done
  <2>6. QED
    BY <2>2, <2>3, <2>4, <2>5 DEF Runnable
<1>3. QED
  BY <1>1, <1>2 DEF Workload

\* So is an idle iteration.
LEMMA NothingIsWorkload ==
  ASSUME NEW e, NEW arrivals
  PROVE  Workload(e, arrivals, EmptyWork)
<1>1. PICK none : none = <<>>
  OBVIOUS
<1>2. EmptyWork.items = none /\ EmptyWork.deferred = none
  BY <1>1 DEF EmptyWork
<1>3. Range(none) = {} /\ Once(none) /\ \A T : none \in Seq(T)
  BY <1>1, EmptySequence
<1>4. QED
  BY <1>2, <1>3 DEF Workload

\* A manager that settles the plan has carried its work out.
LEMMA SettledIsCarried ==
  ASSUME NEW e, Sound(e), NEW V, NEW p, PlanInv(e, V, p),
         NEW c, Settled(p, Ended(e, p.items), c)
  PROVE  Carried(e, p.items, c)
<1>1. c \in Manager /\ Valid(c) /\ \A s \in Live(c) : TokensHeld(c, s) = TokensHeld(p.kv, s)
  BY DEF Settled, Keeping
<1>2. Live(c) = (Live(e.kv) \cup IdsOf(p.items)) \ Ended(e, p.items)
  BY DEF Settled, PlanInv, Scratch
<1>3. ASSUME NEW s \in Live(c) \ IdsOf(p.items)
      PROVE  TokensHeld(c, s) = TokensHeld(e.kv, s)
  <2>1. s \in Live(e.kv) /\ s \in Requests
    BY <1>2, <1>3 DEF Live
  <2>2. TokensHeld(p.kv, s) = TokensHeld(e.kv, s)
    BY <1>3, <2>1 DEF PlanInv, Others
  <2>3. QED
    BY <1>1, <2>2
<1>4. ASSUME NEW i \in Range(p.items), i.id \in Live(c)
      PROVE  TokensHeld(c, i.id) = IF i.prefill THEN Total(e.requests[i.id].prompt)
                                   ELSE TokensHeld(e.kv, i.id) + 1
  <2>1. Done(e, p.kv, i)
    BY <1>4 DEF PlanInv, Entries
  <2>2. TokensHeld(p.kv, i.id) = IF i.prefill THEN Total(e.requests[i.id].prompt)
                                 ELSE TokensHeld(e.kv, i.id) + 1
    BY <2>1 DEF Done
  <2>3. QED
    BY <1>1, <1>4, <2>2
<1>5. QED
  BY <1>1, <1>2, <1>3, <1>4 DEF Carried

\* Preparing a plan succeeds, or a counter overflows.
LEMMA PlanIsPrepared ==
  ASSUME NEW e, Sound(e), NEW V, NEW p, PlanInv(e, V, p)
  PROVE  Prepared(e, p.items, PreparedManager(e, p))
<1>1. Progress(p, Ended(e, p.items), PreparedManager(e, p))
  BY PreparedFacts
<1>2. QED
  BY <1>1, SettledIsCarried DEF Prepared, Progress

\* Preparing nothing succeeds.
LEMMA NothingIsCarried ==
  ASSUME NEW e, Sound(e), NEW work, work.items = <<>>
  PROVE  /\ Prepared(e, work.items, PreparedManager(e, work))
         /\ PreparedManager(e, work).outcome = "ok" /\ PreparedManager(e, work).kv = e.kv
<1>1. PICK reply : reply = PreparedManager(e, work)
  OBVIOUS
<1>2. reply.outcome = "ok" /\ reply.kv = e.kv
  BY <1>1, NothingIsPrepared DEF Refuse
<1>3. PICK items : items = work.items
  OBVIOUS
<1>4. Range(items) = {} /\ IdsOf(items) = {} /\ Ended(e, items) = {}
  <2>1. Range(items) = {} /\ IdsOf(items) = {}
    BY <1>3, EmptySequence
  <2>2. QED
    BY <2>1 DEF Ended
<1>5. Carried(e, items, e.kv)
  BY <1>4 DEF Carried, Sound
<1>6. QED
  BY <1>1, <1>2, <1>3, <1>5 DEF Prepared

-----------------------------------------------------------------------------
(* Sums over finite sets.                                                    *)

\* A family of subsets that a further element keeps, contains the whole set.
LEMMA SubsetInduction ==
  ASSUME NEW S, IsFiniteSet(S), NEW F, {} \in F,
         \A s \in SUBSET S : \A x \in s : s \ {x} \in F => s \in F
  PROVE  S \in F
<1> DEFINE N == {n \in Nat : \A s \in SUBSET S : Cardinality(s) = n => s \in F}
<1>1. \A s \in SUBSET S : /\ IsFiniteSet(s) /\ Cardinality(s) \in Nat
                          /\ s = {} <=> Cardinality(s) = 0
                          /\ \A x \in s : Cardinality(s \ {x}) = Cardinality(s) - 1
  BY FS_Subset, FS_CardinalityType, FS_EmptySet, FS_RemoveElement
<1>2. 0 \in N
  BY <1>1
<1>3. ASSUME NEW n \in Nat, n \in N
      PROVE  n + 1 \in N
  <2>1. ASSUME NEW s \in SUBSET S, Cardinality(s) = n + 1
        PROVE  s \in F
    <3>1. PICK x \in s : TRUE
      BY <1>1, <2>1
    <3>2. Cardinality(s \ {x}) = n /\ s \ {x} \in SUBSET S
      BY <1>1, <2>1, <3>1
    <3>3. s \ {x} \in F
      BY <1>3, <3>2
    <3>4. QED
      BY <3>1, <3>3
  <2>2. QED
    BY <2>1
<1> HIDE DEF N
<1>4. Nat \subseteq N
  BY <1>2, <1>3, NatSetInduction
<1>5. QED
  BY <1>1, <1>4 DEF N

\* A sum of natural numbers is one.
LEMMA SumIsNatural ==
  ASSUME NEW fun, NEW S, IsFiniteSet(S), \A x \in S : fun[x] \in Nat
  PROVE  SumFunctionOnSet(fun, S) \in Nat
<1> DEFINE F == {s \in SUBSET S : SumFunctionOnSet(fun, s) \in Nat}
<1>1. \A s \in SUBSET S : IsFiniteSet(s)
  BY FS_Subset
<1>2. {} \in F
  <2>1. SumFunctionOnSet(fun, {}) = 0
    BY FS_EmptySet, SumRemove
  <2>2. QED
    BY <2>1
<1>3. ASSUME NEW s \in SUBSET S, NEW x \in s, s \ {x} \in F
      PROVE  s \in F
  <2>1. IsFiniteSet(s) /\ \A y \in s : fun[y] \in Int
    BY <1>1
  <2>2. SumFunctionOnSet(fun, s) = fun[x] + SumFunctionOnSet(fun, s \ {x})
    BY <2>1, SumRemove
  <2>3. fun[x] \in Nat
    OBVIOUS
  <2>4. QED
    BY <1>3, <2>2, <2>3
<1> HIDE DEF F
<1>4. S \in F
  BY <1>2, <1>3, SubsetInduction
<1>5. QED
  BY <1>4 DEF F

\* The sum of sums.
LEMMA SumOfSums ==
  ASSUME NEW f, NEW g, NEW h, NEW S, IsFiniteSet(S),
         \A x \in S : f[x] \in Int /\ g[x] \in Int /\ h[x] = f[x] + g[x]
  PROVE  SumFunctionOnSet(h, S) = SumFunctionOnSet(f, S) + SumFunctionOnSet(g, S)
<1> DEFINE F == {s \in SUBSET S :
                   SumFunctionOnSet(h, s) = SumFunctionOnSet(f, s) + SumFunctionOnSet(g, s)}
<1>1. \A s \in SUBSET S : IsFiniteSet(s)
  BY FS_Subset
<1>2. {} \in F
  <2>1. \A fun : SumFunctionOnSet(fun, {}) = 0
    BY FS_EmptySet, SumRemove
  <2>2. QED
    BY <2>1
<1>3. ASSUME NEW s \in SUBSET S, NEW x \in s, s \ {x} \in F
      PROVE  s \in F
  <2>1. IsFiniteSet(s) /\ \A y \in s : f[y] \in Int /\ g[y] \in Int /\ h[y] \in Int
    BY <1>1
  <2>2. SumFunctionOnSet(f, s) = f[x] + SumFunctionOnSet(f, s \ {x})
    BY <2>1, SumRemove
  <2>3. SumFunctionOnSet(g, s) = g[x] + SumFunctionOnSet(g, s \ {x})
    BY <2>1, SumRemove
  <2>4. SumFunctionOnSet(h, s) = h[x] + SumFunctionOnSet(h, s \ {x})
    BY <2>1, SumRemove
  <2>5. IsFiniteSet(s \ {x}) /\ \A y \in s \ {x} : f[y] \in Int /\ g[y] \in Int
    BY <1>1
  <2>6. SumFunctionOnSet(f, s \ {x}) \in Int /\ SumFunctionOnSet(g, s \ {x}) \in Int
    BY <2>5, SumRemove
  <2>7. h[x] = f[x] + g[x] /\ f[x] \in Int /\ g[x] \in Int
    OBVIOUS
  <2>8. SumFunctionOnSet(h, s \ {x}) = SumFunctionOnSet(f, s \ {x}) + SumFunctionOnSet(g, s \ {x})
    BY <1>3
  <2>9. SumFunctionOnSet(h, s) = SumFunctionOnSet(f, s) + SumFunctionOnSet(g, s)
    BY <2>2, <2>3, <2>4, <2>6, <2>7, <2>8
  <2>10. QED
    BY <2>9
<1> HIDE DEF F
<1>4. S \in F
  BY <1>2, <1>3, SubsetInduction
<1>5. QED
  BY <1>4 DEF F

\* A sum of ones counts.
LEMMA SumOfOnes ==
  ASSUME NEW fun, NEW S, IsFiniteSet(S), \A x \in S : fun[x] = 1
  PROVE  SumFunctionOnSet(fun, S) = Cardinality(S)
<1> DEFINE F == {s \in SUBSET S : SumFunctionOnSet(fun, s) = Cardinality(s)}
<1>1. \A s \in SUBSET S : IsFiniteSet(s) /\ Cardinality(s) \in Nat
  BY FS_Subset, FS_CardinalityType
<1>2. {} \in F
  <2>1. SumFunctionOnSet(fun, {}) = 0 /\ Cardinality({}) = 0
    BY FS_EmptySet, SumRemove
  <2>2. QED
    BY <2>1
<1>3. ASSUME NEW s \in SUBSET S, NEW x \in s, s \ {x} \in F
      PROVE  s \in F
  <2>1. IsFiniteSet(s) /\ \A y \in s : fun[y] \in Int
    BY <1>1
  <2>2. SumFunctionOnSet(fun, s) = fun[x] + SumFunctionOnSet(fun, s \ {x})
    BY <2>1, SumRemove
  <2>3. Cardinality(s \ {x}) = Cardinality(s) - 1 /\ Cardinality(s) \in Nat
    BY <1>1, FS_RemoveElement
  <2>4. fun[x] = 1
    OBVIOUS
  <2>5. QED
    BY <1>3, <2>2, <2>3, <2>4
<1> HIDE DEF F
<1>4. S \in F
  BY <1>2, <1>3, SubsetInduction
<1>5. QED
  BY <1>4 DEF F

\* k renames the elements of S.
LEMMA SumOfImage ==
  ASSUME NEW f, NEW g, NEW k, NEW S, IsFiniteSet(S),
         \A x, y \in S : k[x] = k[y] => x = y,
         \A x \in S : f[x] \in Int /\ f[x] = g[k[x]]
  PROVE  /\ SumFunctionOnSet(f, S) = SumFunctionOnSet(g, {k[x] : x \in S})
         /\ IsFiniteSet({k[x] : x \in S}) /\ Cardinality({k[x] : x \in S}) = Cardinality(S)
<1> DEFINE image(s) == {k[x] : x \in s}
           F == {s \in SUBSET S :
                   /\ SumFunctionOnSet(f, s) = SumFunctionOnSet(g, image(s))
                   /\ IsFiniteSet(image(s)) /\ Cardinality(image(s)) = Cardinality(s)}
<1>1. \A s \in SUBSET S : IsFiniteSet(s) /\ Cardinality(s) \in Nat
  BY FS_Subset, FS_CardinalityType
<1>2. {} \in F
  <2>1. SumFunctionOnSet(f, {}) = 0 /\ SumFunctionOnSet(g, {}) = 0 /\ IsFiniteSet({})
    BY FS_EmptySet, SumRemove
  <2>2. image({}) = {}
    OBVIOUS
  <2>3. QED
    BY <2>1, <2>2
<1>3. ASSUME NEW s \in SUBSET S, NEW x \in s, s \ {x} \in F
      PROVE  s \in F
  <2>1. IsFiniteSet(s) /\ \A y \in s : f[y] \in Int
    BY <1>1
  <2>2. SumFunctionOnSet(f, s) = f[x] + SumFunctionOnSet(f, s \ {x})
    BY <2>1, SumRemove
  <2>3. PICK rest : rest = image(s \ {x})
    OBVIOUS
  <2>4. k[x] \notin rest /\ image(s) = rest \cup {k[x]}
    BY <2>3
  <2>5. IsFiniteSet(rest) /\ Cardinality(rest) = Cardinality(s \ {x})
    BY <1>3, <2>3
  <2>6. IsFiniteSet(rest \cup {k[x]}) /\ Cardinality(rest \cup {k[x]}) = Cardinality(rest) + 1
    BY <2>4, <2>5, FS_AddElement
  <2>7. \A z \in rest \cup {k[x]} : g[z] \in Int
    BY <2>3
  <2>8. SumFunctionOnSet(g, rest \cup {k[x]})
          = g[k[x]] + SumFunctionOnSet(g, (rest \cup {k[x]}) \ {k[x]})
    BY <2>6, <2>7, SumRemove
  <2>9. (rest \cup {k[x]}) \ {k[x]} = rest
    BY <2>4
  <2>10. Cardinality(s \ {x}) = Cardinality(s) - 1 /\ Cardinality(s) \in Nat
    BY <1>1, FS_RemoveElement
  <2>11. SumFunctionOnSet(f, s \ {x}) = SumFunctionOnSet(g, rest)
    BY <1>3, <2>3
  <2>12. SumFunctionOnSet(f, s) = SumFunctionOnSet(g, image(s))
    <3>1. f[x] = g[k[x]]
      OBVIOUS
    <3>2. QED
      BY <2>2, <2>4, <2>8, <2>9, <2>11, <3>1
  <2>13. IsFiniteSet(image(s)) /\ Cardinality(image(s)) = Cardinality(s)
    <3>1. PICK more : more = image(s)
      OBVIOUS
    <3>2. IsFiniteSet(more) /\ Cardinality(more) = Cardinality(rest) + 1
      BY <2>4, <2>6, <3>1
    <3>3. Cardinality(more) = Cardinality(s)
      BY <2>5, <2>10, <3>2
    <3>4. QED
      BY <3>1, <3>2, <3>3
  <2>14. QED
    BY <2>12, <2>13
<1> HIDE DEF F
<1>4. S \in F
  BY <1>2, <1>3, SubsetInduction
<1>5. QED
  BY <1>4 DEF F

-----------------------------------------------------------------------------
(* What an iteration adds to the statistics.                                 *)

Fields ==
  {"iterations", "batches", "idle", "stalled", "prefill", "decode", "sequences",
   "original", "matched", "deferred", "kvDeferred", "completed", "cancelled"}

PrefillsOf(S) == {i \in S : i.prefill}
One(b) == IF b THEN 1 ELSE 0

MoreOf(e, work) ==
  [ iterations |-> 1,
    batches    |-> One(work.items # <<>>),
    idle       |-> One(work.items = <<>> /\ work.deferred = <<>>),
    stalled    |-> One(work.items = <<>> /\ work.deferred # <<>>),
    prefill    |-> SumFunction([i \in PrefillsOf(Range(work.items)) |-> i.cost]),
    decode     |-> Cardinality(DecodesOf(Range(work.items))),
    sequences  |-> Cardinality(Range(work.items)),
    original   |-> OriginalTokens(e, PrefillsOf(Range(work.items))),
    matched    |-> SumFunction([i \in PrefillsOf(Range(work.items)) |-> Len(i.matched) * BlockSize]),
    deferred   |-> Len(work.deferred),
    kvDeferred |-> Cardinality({d \in Range(work.deferred) : d.reason = "KVCapacity"}),
    completed  |-> Cardinality({i \in Range(work.items) : Ends(e, i)}),
    cancelled  |-> 0 ]

\* prepare_statistics adds to every counter.
LEMMA CountedIs ==
  ASSUME NEW e, NEW work
  PROVE  Counted(e, work) = [f \in Fields |-> e.stats[f] + MoreOf(e, work)[f]]
<1>1. PrefillsOf(Range(work.items)) = {i \in Range(work.items) : i.prefill}
  BY DEF PrefillsOf
<1>2. DecodesOf(Range(work.items)) = Range(work.items) \ {i \in Range(work.items) : i.prefill}
  BY DEF DecodesOf
<1>3. DOMAIN MoreOf(e, work) = Fields
  BY DEF MoreOf, Fields
<1>4. Counted(e, work) = [f \in DOMAIN MoreOf(e, work) |-> e.stats[f] + MoreOf(e, work)[f]]
  BY <1>1, <1>2, Zenon DEF Counted, MoreOf, One
<1>5. QED
  BY <1>3, <1>4

\* A sequence has finitely many entries.
LEMMA WorkIsFinite ==
  ASSUME NEW T, NEW s \in Seq(T)
  PROVE  IsFiniteSet(Range(s)) /\ \A S \in SUBSET Range(s) : IsFiniteSet(S) /\ Cardinality(S) \in Nat
<1>1. PICK n \in Nat : n = Len(s) /\ DOMAIN s = 1 .. n
  OBVIOUS
<1>2. IsFiniteSet(1 .. n)
  BY FS_Interval
<1>3. s \in Surjection(1 .. n, Range(s))
  <2>1. s \in [1 .. n -> Range(s)]
    BY <1>1 DEF Range
  <2>2. \A x \in Range(s) : \E j \in 1 .. n : s[j] = x
    BY <1>1 DEF Range
  <2>3. QED
    BY <2>1, <2>2 DEF Surjection
<1>4. IsFiniteSet(Range(s))
  BY <1>2, <1>3, FS_Surjection
<1>5. QED
  BY <1>4, FS_Subset, FS_CardinalityType

\* An iteration adds natural numbers: until one of them is too large, the statistics are sound.
LEMMA MoreIsNatural ==
  ASSUME NEW e, Sound(e), NEW arrivals, NEW work, Workload(e, arrivals, work)
  PROVE  \A f \in Fields : MoreOf(e, work)[f] \in Nat
<1>1. PICK items \in Seq(WorkItem) : items = work.items
  BY DEF Workload
<1>2. PICK deferred \in Seq(Deferral) : deferred = work.deferred
  BY DEF Workload
<1>3. PICK P : P = PrefillsOf(Range(items))
  OBVIOUS
<1>4. P \in SUBSET Range(items) /\ IsFiniteSet(P)
  BY <1>3, WorkIsFinite DEF PrefillsOf
<1>5. \A i \in Range(items) : /\ i \in WorkItem /\ i.cost \in Nat /\ Len(i.matched) * BlockSize \in Nat
                              /\ Total(e.requests[i.id].prompt) \in Nat
  <2>1. ASSUME NEW i \in Range(items)
        PROVE  /\ i \in WorkItem /\ i.cost \in Nat /\ Len(i.matched) * BlockSize \in Nat
               /\ Total(e.requests[i.id].prompt) \in Nat
    <3>1. i \in WorkItem
      BY <2>1 DEF Range
    <3>2. i.cost \in Nat /\ i.matched \in Seq(Block)
      BY <3>1 DEF WorkItem
    <3>3. Len(i.matched) \in Nat
      BY <3>2
    <3>4. Len(i.matched) * BlockSize \in Nat
      BY <3>3, KVAssumption
    <3>5. i.id \in Submitted(e)
      BY <1>1, <2>1 DEF Workload, InPhase
    <3>6. Total(e.requests[i.id].prompt) \in Nat
      BY <3>5, RequestTypes
    <3>7. QED
      BY <3>1, <3>2, <3>4, <3>6
  <2>2. QED
    BY <2>1
<1>6. SumFunction([i \in P |-> i.cost]) \in Nat
  <2>1. PICK f : f = [i \in P |-> i.cost]
    OBVIOUS
  <2>2. \A i \in P : f[i] \in Nat
    BY <1>4, <1>5, <2>1
  <2>3. DOMAIN f = P
    BY <2>1
  <2>4. QED
    BY <1>4, <2>1, <2>2, <2>3, SumIsNatural DEF SumFunction
<1>7. SumFunction([i \in P |-> Len(i.matched) * BlockSize]) \in Nat
  <2>1. PICK f : f = [i \in P |-> Len(i.matched) * BlockSize]
    OBVIOUS
  <2>2. \A i \in P : f[i] \in Nat
    BY <1>4, <1>5, <2>1
  <2>3. DOMAIN f = P
    BY <2>1
  <2>4. QED
    BY <1>4, <2>1, <2>2, <2>3, SumIsNatural DEF SumFunction
<1>8. OriginalTokens(e, P) \in Nat
  <2>1. PICK f : f = [i \in P |-> Total(e.requests[i.id].prompt)]
    OBVIOUS
  <2>2. \A i \in P : f[i] \in Nat
    BY <1>4, <1>5, <2>1
  <2>3. DOMAIN f = P
    BY <2>1
  <2>4. QED
    BY <1>4, <2>1, <2>2, <2>3, SumIsNatural DEF SumFunction, OriginalTokens
<1>9. /\ Cardinality(DecodesOf(Range(items))) \in Nat /\ Cardinality(Range(items)) \in Nat
      /\ Cardinality({i \in Range(items) : Ends(e, i)}) \in Nat
  <2>1. /\ DecodesOf(Range(items)) \in SUBSET Range(items) /\ Range(items) \in SUBSET Range(items)
        /\ {i \in Range(items) : Ends(e, i)} \in SUBSET Range(items)
    BY DEF DecodesOf
  <2>2. QED
    BY <2>1, WorkIsFinite
<1>10. Len(deferred) \in Nat /\ Cardinality({d \in Range(deferred) : d.reason = "KVCapacity"}) \in Nat
  <2>1. {d \in Range(deferred) : d.reason = "KVCapacity"} \in SUBSET Range(deferred)
    OBVIOUS
  <2>2. QED
    BY <2>1, WorkIsFinite
<1>11. \A b : One(b) \in Nat
  BY DEF One
<1>12. QED
  BY <1>1, <1>2, <1>3, <1>6, <1>7, <1>8, <1>9, <1>10, <1>11, SMTT(30) DEF MoreOf, Fields

\* If no counter is exhausted, the statistics are of their type.
LEMMA CountedFits ==
  ASSUME NEW e, EngineInv(e), NEW arrivals, NEW work, Workload(e, arrivals, work),
         ~Exhausted(Counted(e, work))
  PROVE  Counted(e, work) \in Statistics
<1>1. PICK more : more = MoreOf(e, work)
  OBVIOUS
<1>2. \A f \in Fields : more[f] \in Nat
  BY <1>1, MoreIsNatural DEF EngineInv
<1>3. \A f \in Fields : e.stats[f] \in Nat
  <2>1. e.stats \in Statistics
    BY DEF EngineInv, Engine
  <2>2. Statistics = [Fields -> 0 .. CounterLimit]
    BY DEF Statistics, Fields
  <2>3. CounterLimit \in Nat
    BY BatchingAssumption
  <2>4. QED
    BY <2>1, <2>2, <2>3
<1>4. PICK counted : counted = Counted(e, work)
  OBVIOUS
<1>5. counted = [f \in Fields |-> e.stats[f] + more[f]]
  BY <1>1, <1>4, CountedIs
<1>6. \A f \in Fields : counted[f] \in 0 .. CounterLimit
  <2>1. \A f \in Fields : counted[f] \in Nat /\ ~(counted[f] > CounterLimit)
    BY <1>2, <1>3, <1>4, <1>5 DEF Exhausted
  <2>2. QED
    BY <2>1, BatchingAssumption
<1>7. counted \in [Fields -> 0 .. CounterLimit]
  BY <1>5, <1>6
<1>8. QED
  BY <1>4, <1>7 DEF Statistics, Fields

-----------------------------------------------------------------------------
(* What an iteration records of the requests it served.                      *)

Worked(e, i, u) ==
  LET req == e.requests[i.id]
  IN  /\ u \in Request /\ Lifecycle(u)
      /\ u.arrival = req.arrival /\ u.prompt = req.prompt /\ u.limit = req.limit
      /\ u.state = IF Ends(e, i) THEN "Finished" ELSE "Decoding"
      /\ u.generated = IF i.prefill THEN 0 ELSE req.generated + 1
      /\ u.admitted # None

\* The requests after a batch that ends at `end`.
AfterWork(e, items, end) ==
  [r \in Requests |-> IF {i \in Range(items) : i.id = r} = {} THEN e.requests[r]
                      ELSE Updated(e, CHOOSE i \in {j \in Range(items) : j.id = r} : TRUE, end)]

\* prepare_request_updates, for an item of the work.
LEMMA UpdatedIsWorked ==
  ASSUME NEW e, EngineInv(e), NEW arrivals, NEW work, Workload(e, arrivals, work),
         NEW i \in Range(work.items), NEW end \in Time
  PROVE  Worked(e, i, Updated(e, i, end))
<1>1. i.id \in InPhase(e, {"Waiting", "Decoding"}) /\ i.prefill = IsWaiting(e, i.id)
  BY DEF Workload
<1>2. PICK req : req = e.requests[i.id]
  OBVIOUS
<1>3. req \in Request /\ Lifecycle(req) /\ req.limit \in Nat /\ req.generated \in Nat
  <2>1. i.id \in Submitted(e)
    BY <1>1 DEF InPhase
  <2>2. QED
    BY <1>2, <2>1, RequestTypes DEF EngineInv
<1>4. req.state \in {"Waiting", "Decoding"} /\ (i.prefill <=> req.state = "Waiting")
  BY <1>1, <1>2 DEF InPhase, IsWaiting
<1>5. e.clock \in Time /\ e.clock # None /\ end # None
  BY TimeIsNatural DEF EngineInv, Engine
<1>6. Ends(e, i) <=> IF i.prefill THEN req.limit = 0 ELSE req.generated + 1 = req.limit
  BY <1>2 DEF Ends
<1>7. CASE i.prefill
  <2>1. req.state = "Waiting" /\ req.generated = 0 /\ req.admitted = None
    BY <1>3, <1>4, <1>7 DEF Lifecycle
  <2>2. PICK w : w = [req EXCEPT !.state = "Decoding", !.admitted = e.clock]
    OBVIOUS
  <2>3. w \in Request /\ w.state = "Decoding" /\ w.admitted = e.clock /\ w.generated = 0
        /\ w.arrival = req.arrival /\ w.prompt = req.prompt /\ w.limit = req.limit
    BY <1>3, <1>5, <2>1, <2>2 DEF Request, RequestState
  <2>4. CASE Ends(e, i)
    <3>1. PICK u : u = [w EXCEPT !.state = "Finished", !.finish = end]
      OBVIOUS
    <3>2. Updated(e, i, end) = u
      BY <1>2, <1>7, <2>2, <2>4, <3>1 DEF Updated
    <3>3. u \in Request /\ u.state = "Finished" /\ u.admitted = e.clock /\ u.generated = 0
          /\ u.arrival = req.arrival /\ u.prompt = req.prompt /\ u.limit = req.limit
      BY <2>3, <3>1 DEF Request, RequestState
    <3>4. Lifecycle(u)
      BY <1>5, <3>3 DEF Lifecycle
    <3>5. Worked(e, i, u)
      BY <1>2, <1>5, <1>7, <2>4, <3>3, <3>4 DEF Worked
    <3>6. QED
      BY <3>2, <3>5
  <2>5. CASE ~Ends(e, i)
    <3>1. Updated(e, i, end) = w
      BY <1>2, <1>7, <2>2, <2>5 DEF Updated
    <3>2. w.generated < w.limit
      BY <1>3, <1>6, <1>7, <2>3, <2>5
    <3>3. Lifecycle(w)
      BY <1>5, <2>3, <3>2 DEF Lifecycle
    <3>4. Worked(e, i, w)
      BY <1>2, <1>5, <1>7, <2>3, <2>5, <3>3 DEF Worked
    <3>5. QED
      BY <3>1, <3>4
  <2>6. QED
    BY <2>4, <2>5
<1>8. CASE ~i.prefill
  <2>1. req.state = "Decoding" /\ req.generated < req.limit /\ req.admitted # None
    BY <1>3, <1>4, <1>8 DEF Lifecycle
  <2>2. PICK w : w = [req EXCEPT !.generated = @ + 1, !.token = IF @ = None THEN end ELSE @]
    OBVIOUS
  <2>3. PICK n, t : n = req.generated + 1 /\ t = IF req.token = None THEN end ELSE req.token
    OBVIOUS
  <2>4. w = [req EXCEPT !.generated = n, !.token = t]
    BY <2>2, <2>3
  <2>5. n \in Nat /\ t \in Time \cup {None}
    BY <1>3, <2>3 DEF Request
  <2>6. w \in Request /\ w.state = "Decoding" /\ w.admitted = req.admitted
        /\ w.generated = req.generated + 1
        /\ w.arrival = req.arrival /\ w.prompt = req.prompt /\ w.limit = req.limit
    BY <1>3, <1>5, <2>1, <2>3, <2>4, <2>5 DEF Request
  <2>7. CASE Ends(e, i)
    <3>1. PICK u : u = [w EXCEPT !.state = "Finished", !.finish = end]
      OBVIOUS
    <3>2. Updated(e, i, end) = u
      BY <1>2, <1>8, <2>2, <2>7, <3>1 DEF Updated
    <3>3. u \in Request /\ u.state = "Finished" /\ u.admitted = req.admitted
          /\ u.generated = req.generated + 1
          /\ u.arrival = req.arrival /\ u.prompt = req.prompt /\ u.limit = req.limit
      BY <2>6, <3>1 DEF Request, RequestState
    <3>4. Lifecycle(u)
      BY <2>1, <3>3 DEF Lifecycle
    <3>5. Worked(e, i, u)
      BY <1>2, <2>1, <1>8, <2>7, <3>3, <3>4 DEF Worked
    <3>6. QED
      BY <3>2, <3>5
  <2>8. CASE ~Ends(e, i)
    <3>1. Updated(e, i, end) = w
      BY <1>2, <1>8, <2>2, <2>8 DEF Updated
    <3>2. w.generated < w.limit
      BY <1>3, <1>6, <1>8, <2>1, <2>6, <2>8
    <3>3. Lifecycle(w)
      BY <2>1, <2>6, <3>2 DEF Lifecycle
    <3>4. Worked(e, i, w)
      BY <1>2, <2>1, <1>8, <2>6, <2>8, <3>3 DEF Worked
    <3>5. QED
      BY <3>1, <3>4
  <2>9. QED
    BY <2>7, <2>8
<1>9. QED
  BY <1>7, <1>8

\* The requests after the work: those it names are updated, the others stay.
LEMMA AfterWorkFacts ==
  ASSUME NEW e, EngineInv(e), NEW arrivals, NEW work, Workload(e, arrivals, work),
         NEW end \in Time, NEW after, after = AfterWork(e, work.items, end)
  PROVE  /\ \A r \in Requests \ IdsOf(work.items) : after[r] = e.requests[r]
         /\ \A i \in Range(work.items) : Worked(e, i, after[i.id])
         /\ after \in [Requests -> Request \cup {None}]
<1>1. \A r \in Requests \ IdsOf(work.items) : after[r] = e.requests[r]
  BY DEF AfterWork, IdsOf
<1>2. ASSUME NEW i \in Range(work.items)
      PROVE  Worked(e, i, after[i.id]) /\ i.id \in Requests
  <2>1. PICK j : j = CHOOSE x \in {y \in Range(work.items) : y.id = i.id} : TRUE
    OBVIOUS
  <2>2. j \in Range(work.items) /\ j.id = i.id
    BY <2>1
  <2>3. j = i
    <3>1. PICK items : items = work.items /\ Once(items)
      BY DEF Workload
    <3>2. QED
      BY <2>2, <3>1 DEF Once, Range
  <2>4. i.id \in Requests
    BY DEF Workload, InPhase, Submitted
  <2>5. after[i.id] = Updated(e, i, end)
    BY <2>1, <2>3, <2>4 DEF AfterWork
  <2>6. Worked(e, i, Updated(e, i, end))
    BY UpdatedIsWorked
  <2>7. QED
    BY <2>4, <2>5, <2>6
<1>3. after \in [Requests -> Request \cup {None}]
  <2>1. \A r \in Requests : e.requests[r] \in Request \cup {None}
    BY DEF EngineInv, Engine
  <2>2. ASSUME NEW r \in Requests
        PROVE  after[r] \in Request \cup {None}
    <3>1. CASE r \in IdsOf(work.items)
      BY <1>2, <3>1 DEF IdsOf, Worked
    <3>2. CASE r \notin IdsOf(work.items)
      BY <1>1, <2>1, <3>2
    <3>3. QED
      BY <3>1, <3>2
  <2>3. after = [r \in Requests |-> after[r]]
    BY DEF AfterWork
  <2>4. QED
    BY <2>2, <2>3
<1>4. QED
  BY <1>1, <1>2, <1>3

-----------------------------------------------------------------------------
(* An iteration commits, or fails with an overflow.                          *)

Advanced(e, arrivals, work, end, c) ==
  /\ end \in Time /\ end >= e.clock
  /\ Carried(e, work.items, c.kv)
  /\ c.stats = Counted(e, work) /\ c.stats \in Statistics
  /\ c.clock = end /\ c.arrived = arrivals /\ c.failed = e.failed
  /\ c.requests = AfterWork(e, work.items, end)
  /\ work.items = <<>> => c.kv = e.kv
  /\ c = [clock |-> c.clock, requests |-> c.requests, arrived |-> c.arrived, kv |-> c.kv,
          stats |-> c.stats, failed |-> c.failed]

\* prepare_request_updates accepts every item of a plan.
LEMMA WorkIsApplicable ==
  ASSUME NEW e, EngineInv(e), NEW arrivals, NEW work, Workload(e, arrivals, work),
         NEW i \in Range(work.items)
  PROVE  Applicable(e, arrivals, i)
<1>1. /\ i.id \in InPhase(e, {"Waiting", "Decoding"}) /\ i.prefill = IsWaiting(e, i.id)
      /\ i.prefill => i.id \in arrivals
  BY DEF Workload
<1>2. PICK req : req = e.requests[i.id]
  OBVIOUS
<1>3. req.state \in {"Waiting", "Decoding"} /\ (i.prefill <=> req.state = "Waiting")
  BY <1>1, <1>2 DEF InPhase, IsWaiting
<1>4. req.state = "Decoding" => req.generated < req.limit
  BY <1>1, <1>2 DEF EngineInv, Lifecycle, InPhase
<1>5. Ends(e, i) /\ i.prefill => req.limit = 0
  BY <1>2 DEF Ends
<1>6. /\ MayBecome("Waiting", "Prefilling", req.limit)
      /\ MayBecome("Prefilling", "Decoding", req.limit)
      /\ req.limit = 0 => MayBecome("Prefilling", "Finished", req.limit)
      /\ MayBecome("Decoding", "Finished", req.limit)
  BY DEF MayBecome, Successors
<1>7. QED
  BY <1>1, <1>2, <1>3, <1>4, <1>5, <1>6 DEF Applicable

\* So an iteration commits all of its work, or fails with an overflow.
LEMMA IterationCommits ==
  ASSUME NEW e, EngineInv(e), NEW arrivals, NEW work, Workload(e, arrivals, work),
         Prepared(e, work.items, PreparedManager(e, work)),
         NEW end \in Time \cup {Overflow}, end # Overflow => end >= e.clock
  PROVE  \/ Iterated(e, arrivals, work, end) = Fail(e, "overflow")
         \/ Advanced(e, arrivals, work, end, Iterated(e, arrivals, work, end))
<1>1. PICK manager : manager = PreparedManager(e, work)
  OBVIOUS
<1>2. PICK stats : stats = Counted(e, work)
  OBVIOUS
<1>3. manager.outcome \in {"ok", "overflow"} /\ (manager.outcome = "ok" => Carried(e, work.items, manager.kv))
  BY <1>1 DEF Prepared
<1>4. Iterated(e, arrivals, work, end) = Committed(e, arrivals, work, end, manager, stats)
  BY <1>1, <1>2 DEF Iterated
<1>5. CASE manager.outcome # "ok"
  BY <1>3, <1>4, <1>5 DEF Committed
<1>6. CASE manager.outcome = "ok" /\ (end = Overflow \/ Exhausted(stats))
  BY <1>4, <1>6 DEF Committed
<1>7. CASE manager.outcome = "ok" /\ end # Overflow /\ ~Exhausted(stats)
  <2>1. end \in Time /\ end >= e.clock /\ e.clock \in Time
    BY <1>7 DEF EngineInv, Engine
  <2>2. ~(end < e.clock) /\ ~\E i \in Range(work.items) : ~Applicable(e, arrivals, i)
    <3>1. \A i \in Range(work.items) : Applicable(e, arrivals, i)
      BY WorkIsApplicable
    <3>2. end \in Nat /\ e.clock \in Nat
      BY <2>1, TimeIsNatural
    <3>3. QED
      BY <2>1, <3>1, <3>2
  <2>3. PICK after : after = AfterWork(e, work.items, end)
    OBVIOUS
  <2>4. PICK c : c = [e EXCEPT !.clock = end, !.arrived = arrivals, !.kv = manager.kv,
                               !.stats = stats, !.requests = after]
    OBVIOUS
  <2>5. Committed(e, arrivals, work, end, manager, stats) = c
    <3>1. after = [r \in Requests |-> IF {i \in Range(work.items) : i.id = r} = {} THEN e.requests[r]
                      ELSE Updated(e, CHOOSE i \in {j \in Range(work.items) : j.id = r} : TRUE, end)]
      BY <2>3 DEF AfterWork
    <3>2. QED
      BY <1>7, <2>2, <2>4, <3>1 DEF Committed
  <2>6. e \in Engine
    BY DEF EngineInv
  <2>7. c = [clock |-> end, requests |-> after, arrived |-> arrivals, kv |-> manager.kv,
             stats |-> stats, failed |-> e.failed]
    BY <2>4, <2>6 DEF Engine
  <2>8. stats \in Statistics
    BY <1>2, <1>7, CountedFits
  <2>9. Carried(e, work.items, manager.kv)
    BY <1>3, <1>7
  <2>10. work.items = <<>> => manager.kv = e.kv
    BY <1>1, NothingIsCarried DEF EngineInv
  <2>11. Advanced(e, arrivals, work, end, c)
    BY <1>2, <2>1, <2>3, <2>7, <2>8, <2>9, <2>10 DEF Advanced
  <2>12. QED
    BY <1>4, <2>5, <2>11
<1>8. QED
  BY <1>5, <1>6, <1>7

\* A failed engine is left as it was.
LEMMA FailureKeepsEngine ==
  ASSUME NEW e \in Engine,
         NEW cause \in {"no", "oversized", "overflow", "capacity", "stale", "logic_error"}
  PROVE  LET c == Fail(e, cause) IN
         /\ c \in Engine /\ c.failed = cause
         /\ c.clock = e.clock /\ c.requests = e.requests /\ c.arrived = e.arrived
         /\ c.kv = e.kv /\ c.stats = e.stats
BY DEF Fail, Engine

\* The invariant is about the requests and the manager.
LEMMA SameRequests ==
  ASSUME NEW e, EngineInv(e), NEW c \in Engine, c.requests = e.requests, c.kv = e.kv
  PROVE  /\ EngineInv(c) /\ (Holds(e) => Holds(c))
         /\ Submitted(c) = Submitted(e) /\ \A states : InPhase(c, states) = InPhase(e, states)
<1>1. Submitted(c) = Submitted(e)
  BY DEF Submitted
<1>2. \A states : InPhase(c, states) = InPhase(e, states)
  BY <1>1 DEF InPhase
<1>3. Sound(c)
  BY <1>1, <1>2 DEF EngineInv, Sound
<1>4. EngineInv(c)
  BY <1>1, <1>3 DEF EngineInv
<1>5. Holds(e) => Holds(c)
  BY DEF Holds
<1>6. QED
  BY <1>1, <1>2, <1>4, <1>5

\* The requests after an iteration.
LEMMA AdvancedRequests ==
  ASSUME NEW e, EngineInv(e), NEW arrivals, NEW work, Workload(e, arrivals, work),
         NEW end, NEW c, Advanced(e, arrivals, work, end, c)
  PROVE  /\ \A r \in Requests \ IdsOf(work.items) : c.requests[r] = e.requests[r]
         /\ \A i \in Range(work.items) : Worked(e, i, c.requests[i.id])
         /\ c.requests \in [Requests -> Request \cup {None}]
<1>1. end \in Time
  BY DEF Advanced
<1>2. PICK after : after = AfterWork(e, work.items, end)
  OBVIOUS
<1>3. c.requests = after
  BY <1>2 DEF Advanced
<1>4. /\ \A r \in Requests \ IdsOf(work.items) : after[r] = e.requests[r]
      /\ \A i \in Range(work.items) : Worked(e, i, after[i.id])
      /\ after \in [Requests -> Request \cup {None}]
  BY <1>1, <1>2, AfterWorkFacts
<1>5. QED
  BY <1>3, <1>4

\* The phases after an iteration.
LEMMA AdvancedPhases ==
  ASSUME NEW e, EngineInv(e), NEW arrivals, NEW work, Workload(e, arrivals, work),
         NEW end, NEW c, Advanced(e, arrivals, work, end, c)
  PROVE  /\ Submitted(c) = Submitted(e)
         /\ \A r \in Submitted(c) : c.requests[r] \in Request /\ Lifecycle(c.requests[r])
         /\ InPhase(c, {"Decoding"})
              = (InPhase(e, {"Decoding"}) \cup IdsOf(work.items)) \ Ended(e, work.items)
         /\ InPhase(c, {"Finished"}) = InPhase(e, {"Finished"}) \cup Ended(e, work.items)
         /\ InPhase(c, {"Cancelled"}) = InPhase(e, {"Cancelled"})
         /\ Ended(e, work.items) \cap InPhase(e, {"Finished"}) = {}
<1> DEFINE A == IdsOf(work.items)
           E == Ended(e, work.items)
<1>1. /\ \A r \in Requests \ A : c.requests[r] = e.requests[r]
      /\ \A i \in Range(work.items) : Worked(e, i, c.requests[i.id])
  BY AdvancedRequests
<1>2. /\ \A r \in A : \E i \in Range(work.items) : i.id = r
      /\ \A i \in Range(work.items) : /\ i.id \in A /\ i.id \in InPhase(e, {"Waiting", "Decoding"})
                                      /\ i.id \in E <=> Ends(e, i)
  <2>1. PICK items : items = work.items /\ Once(items)
    BY DEF Workload
  <2>2. \A i, j \in Range(items) : i.id = j.id => i = j
    BY <2>1 DEF Once, Range
  <2>3. QED
    BY <2>1, <2>2 DEF Workload, IdsOf, Ended
<1>3. A \subseteq InPhase(e, {"Waiting", "Decoding"}) /\ E \subseteq A
  BY <1>2 DEF Ended, IdsOf
<1>4. \A r \in A : /\ c.requests[r] \in Request /\ Lifecycle(c.requests[r])
                   /\ c.requests[r].state = IF r \in E THEN "Finished" ELSE "Decoding"
  BY <1>1, <1>2 DEF Worked
<1>5. \A r \in Submitted(e) : e.requests[r] \in Request /\ Lifecycle(e.requests[r])
  BY DEF EngineInv, Sound
<1> HIDE DEF A, E
<1>6. Submitted(c) = Submitted(e)
  <2>1. A \subseteq Submitted(e) /\ A \subseteq Requests
    BY <1>3 DEF InPhase, Submitted
  <2>2. \A r \in A : c.requests[r] # None
    BY <1>4, NoRequestAssumption
  <2>3. QED
    BY <1>1, <2>1, <2>2 DEF Submitted
<1>7. \A r \in Submitted(e) \ A : c.requests[r] = e.requests[r]
  BY <1>1 DEF Submitted
<1>8. \A r \in A : r \in Submitted(e) /\ e.requests[r].state \in {"Waiting", "Decoding"}
  BY <1>3 DEF InPhase
<1>9. \A r \in Submitted(c) : c.requests[r] \in Request /\ Lifecycle(c.requests[r])
  BY <1>4, <1>5, <1>6, <1>7
<1>10. InPhase(c, {"Decoding"}) = (InPhase(e, {"Decoding"}) \cup A) \ E
  BY <1>3, <1>4, <1>6, <1>7, <1>8 DEF InPhase
<1>11. InPhase(c, {"Finished"}) = InPhase(e, {"Finished"}) \cup E
  BY <1>3, <1>4, <1>6, <1>7, <1>8 DEF InPhase
<1>12. InPhase(c, {"Cancelled"}) = InPhase(e, {"Cancelled"})
  BY <1>3, <1>4, <1>6, <1>7, <1>8 DEF InPhase
<1>13. E \cap InPhase(e, {"Finished"}) = {}
  BY <1>3, <1>8 DEF InPhase
<1>14. QED
  BY <1>6, <1>9, <1>10, <1>11, <1>12, <1>13 DEF A, E

\* An iteration keeps the invariant of the engine.
LEMMA AdvancedKeepsEngine ==
  ASSUME NEW e, EngineInv(e), NEW arrivals \in SUBSET Requests, NEW work,
         Workload(e, arrivals, work), NEW end, NEW c, Advanced(e, arrivals, work, end, c)
  PROVE  EngineInv(c)
<1>1. Live(c.kv) = InPhase(c, {"Decoding"})
  <2>1. Live(c.kv) = (Live(e.kv) \cup IdsOf(work.items)) \ Ended(e, work.items)
    BY DEF Advanced, Carried
  <2>2. Live(e.kv) = InPhase(e, {"Decoding"})
    BY DEF EngineInv, Sound
  <2>3. QED
    BY <2>1, <2>2, AdvancedPhases
<1>2. c.kv \in Manager /\ Valid(c.kv)
  BY DEF Advanced, Carried
<1>3. IsFiniteSet(Submitted(c)) /\ \A r \in Submitted(c) : c.requests[r] \in Request /\ Lifecycle(c.requests[r])
  BY AdvancedPhases DEF EngineInv, Sound
<1>4. Sound(c)
  BY <1>1, <1>2, <1>3 DEF Sound
<1>5. c.requests \in [Requests -> Request \cup {None}]
  BY AdvancedRequests
<1>6. PICK clock, requests, arrived, kv, stats, failed :
        /\ clock = c.clock /\ requests = c.requests /\ arrived = c.arrived /\ kv = c.kv
        /\ stats = c.stats /\ failed = c.failed
  OBVIOUS
<1>7. c = [clock |-> clock, requests |-> requests, arrived |-> arrived, kv |-> kv,
           stats |-> stats, failed |-> failed]
  BY <1>6 DEF Advanced
<1>8. clock \in Time /\ stats \in Statistics /\ arrived \in SUBSET Requests
  BY <1>6 DEF Advanced
<1>9. failed \in {"no", "oversized", "overflow", "capacity", "stale", "logic_error"}
  BY <1>6 DEF Advanced, EngineInv, Engine
<1>10. c \in Engine
  BY <1>2, <1>5, <1>6, <1>7, <1>8, <1>9 DEF Engine
<1>11. QED
  BY <1>3, <1>4, <1>10 DEF EngineInv

\* An iteration keeps the blocks and the requests in step.
LEMMA AdvancedHolds ==
  ASSUME NEW e, EngineInv(e), Holds(e), NEW arrivals, NEW work, Workload(e, arrivals, work),
         NEW end, NEW c, Advanced(e, arrivals, work, end, c)
  PROVE  Holds(c)
<1>1. Live(c.kv) = (Live(e.kv) \cup IdsOf(work.items)) \ Ended(e, work.items)
  BY DEF Advanced, Carried
<1>2. Live(e.kv) = InPhase(e, {"Decoding"})
  BY DEF EngineInv, Sound
<1>3. ASSUME NEW r \in Live(c.kv)
      PROVE  TokensHeld(c.kv, r) = Total(c.requests[r].prompt) + c.requests[r].generated
  <2>1. CASE r \notin IdsOf(work.items)
    <3>1. r \in Live(e.kv) /\ r \in Requests
      BY <1>1, <1>3, <2>1 DEF Live
    <3>2. TokensHeld(c.kv, r) = TokensHeld(e.kv, r)
      BY <1>3, <2>1 DEF Advanced, Carried
    <3>3. c.requests[r] = e.requests[r]
      BY <2>1, <3>1, AdvancedRequests
    <3>4. QED
      BY <3>1, <3>2, <3>3 DEF Holds
  <2>2. CASE r \in IdsOf(work.items)
    <3>1. PICK i \in Range(work.items) : i.id = r
      BY <2>2 DEF IdsOf
    <3>2. TokensHeld(c.kv, r) = IF i.prefill THEN Total(e.requests[r].prompt)
                                ELSE TokensHeld(e.kv, r) + 1
      BY <1>3, <3>1 DEF Advanced, Carried
    <3>3. Worked(e, i, c.requests[r])
      BY <3>1, AdvancedRequests
    <3>4. /\ c.requests[r].prompt = e.requests[r].prompt
          /\ c.requests[r].generated = IF i.prefill THEN 0 ELSE e.requests[r].generated + 1
      BY <3>1, <3>3 DEF Worked
    <3>5. /\ r \in InPhase(e, {"Waiting", "Decoding"}) /\ i.prefill = IsWaiting(e, r)
      BY <3>1 DEF Workload
    <3>6. /\ Total(e.requests[r].prompt) \in Nat /\ e.requests[r].generated \in Nat
      BY <3>5, RequestTypes DEF InPhase, EngineInv
    <3>7. CASE i.prefill
      BY <3>2, <3>4, <3>6, <3>7
    <3>8. CASE ~i.prefill
      <4>1. r \in Live(e.kv)
        BY <1>2, <3>5, <3>8 DEF InPhase, IsWaiting
      <4>2. TokensHeld(e.kv, r) = Total(e.requests[r].prompt) + e.requests[r].generated
        BY <4>1 DEF Holds
      <4>3. QED
        BY <3>2, <3>4, <3>6, <3>8, <4>2
    <3>9. QED
      BY <3>7, <3>8
  <2>3. QED
    BY <2>1, <2>2
<1>4. QED
  BY <1>3 DEF Holds

-----------------------------------------------------------------------------
(* The public operations: what an action does to the engine.                 *)

\* The least of a set of natural numbers.
LEMMA MinIsLeast ==
  ASSUME NEW S \in SUBSET Nat, S # {}
  PROVE  Min(S) \in S /\ \A n \in S : Min(S) <= n
<1>1. PICK x \in S : \A y \in S : ~(<<y, x>> \in OpToRel(<, Nat))
  BY WFMin, NatLessThanWellFounded, Zenon
<1>2. \A y \in S : x <= y
  <2>1. \A y \in Nat : y < x => <<y, x>> \in OpToRel(<, Nat)
    BY <1>1, Zenon DEF OpToRel
  <2>2. \A y \in S : ~(y < x)
    BY <1>1, <2>1
  <2>3. x \in Nat /\ S \subseteq Nat
    BY <1>1
  <2>4. QED
    BY <2>2, <2>3
<1>3. QED
  BY <1>1, <1>2, Zenon DEF Min

\* Who was submitted arrives at some time.
LEMMA ArrivalIsTime ==
  ASSUME NEW e, Sound(e), NEW r \in Submitted(e)
  PROVE  e.requests[r].arrival \in Time
BY RequestTypes DEF Request

\* The engine sleeps until a time to come, the first arrival.
LEMMA NextArrivalIsTime ==
  ASSUME NEW e, EngineInv(e), NEW arrivals, Future(e, arrivals) # {}
  PROVE  /\ NextArrival(e, arrivals) \in Time /\ NextArrival(e, arrivals) > e.clock
         /\ \A r \in Future(e, arrivals) : NextArrival(e, arrivals) <= e.requests[r].arrival
<1> DEFINE S == {e.requests[r].arrival : r \in Future(e, arrivals)}
<1>1. \A r \in Future(e, arrivals) : e.requests[r].arrival \in Time /\ e.requests[r].arrival > e.clock
  BY ArrivalIsTime DEF EngineInv, Future, InPhase
<1>2. S \in SUBSET Nat /\ S # {}
  BY <1>1, TimeIsNatural
<1>3. NextArrival(e, arrivals) = Min(S)
  BY DEF NextArrival
<1>4. Min(S) \in S /\ \A n \in S : Min(S) <= n
  <2> HIDE DEF S
  <2>1. QED
    BY <1>2, MinIsLeast
<1>5. QED
  BY <1>1, <1>3, <1>4

\* What run_next_iteration fails for.
Causes == {"oversized", "overflow", "logic_error"}

\* An overflow needs no further reason.
LEMMA OverflowIsTrouble ==
  ASSUME NEW e
  PROVE  "overflow" \in Causes /\ Trouble(e, "overflow")
BY DEF Causes, Trouble

\* An idle iteration moves the clock on, or overflows.
LEMMA IdleFacts ==
  ASSUME NEW e, EngineInv(e), NEW arrivals, Future(e, arrivals) # {}
  PROVE  LET c == IdleIteration(e, arrivals) IN
         \/ c = Fail(e, "overflow")
         \/ Advanced(e, arrivals, EmptyWork, NextArrival(e, arrivals), c)
<1>1. Workload(e, arrivals, EmptyWork)
  BY NothingIsWorkload
<1>2. PICK end : end = NextArrival(e, arrivals)
  OBVIOUS
<1>3. end \in Time /\ end > e.clock /\ e.clock \in Time
  BY <1>2, NextArrivalIsTime DEF EngineInv, Engine
<1>4. end \in Time \cup {Overflow} /\ (end # Overflow => end >= e.clock)
  <2>1. PICK now : now = e.clock
    OBVIOUS
  <2>2. end \in Nat /\ now \in Nat /\ end > now
    BY <1>3, <2>1, TimeIsNatural
  <2>3. end >= now
    BY <2>2
  <2>4. QED
    BY <1>3, <2>1, <2>3
<1>5. PICK work : work = EmptyWork
  OBVIOUS
<1>6. Workload(e, arrivals, work) /\ Prepared(e, work.items, PreparedManager(e, work))
  <2>1. work.items = <<>>
    BY <1>5 DEF EmptyWork
  <2>2. Prepared(e, work.items, PreparedManager(e, work))
    BY ONLY EngineInv(e), <2>1, NothingIsCarried DEF EngineInv
  <2>3. QED
    BY <1>1, <1>5, <2>2
<1>7. \/ Iterated(e, arrivals, work, end) = Fail(e, "overflow")
      \/ Advanced(e, arrivals, work, end, Iterated(e, arrivals, work, end))
  BY ONLY EngineInv(e), <1>4, <1>6, IterationCommits
<1>8. QED
  BY <1>2, <1>5, <1>7 DEF IdleIteration

\* A batch fails for a reason that is so, or carries out a sound plan.
LEMMA BatchFacts ==
  ASSUME NEW e, EngineInv(e), NEW arrivals
  PROVE  LET plan == Plan(e, Runnable(e, arrivals))
             c == BatchIteration(e, arrivals, plan)
         IN  \/ \E cause \in Causes : Trouble(e, cause) /\ c = Fail(e, cause)
             \/ /\ PlanInv(e, Runnable(e, arrivals), plan) /\ Workload(e, arrivals, plan)
                /\ \E end : /\ Advanced(e, arrivals, plan, end, c)
                            /\ plan.items = <<>> => end = e.clock
<1>1. Sound(e) /\ e.clock \in Time
  BY DEF EngineInv, Engine
<1>2. PICK ids : ids = Runnable(e, arrivals)
  OBVIOUS
<1>3. ids \in SUBSET InPhase(e, {"Waiting", "Decoding"})
  BY <1>2 DEF Runnable, InPhase
<1>4. PICK plan : plan = Plan(e, ids)
  OBVIOUS
<1>5. PlanSoFar(e, ids, plan)
  <2>1. PlanSoFar(e, ids, Plan(e, ids))
    BY ONLY <1>1, <1>3, PlanFacts
  <2>2. QED
    BY <1>4, <2>1
<1>6. CASE plan.outcome # "ok"
  <2>1. Trouble(e, plan.outcome)
    BY <1>5, <1>6 DEF PlanSoFar
  <2>2. plan.outcome \in Causes
    BY <2>1 DEF Trouble, Causes
  <2>3. BatchIteration(e, arrivals, plan) = Fail(e, plan.outcome)
    BY <1>6 DEF BatchIteration
  <2>4. QED
    BY <1>2, <1>4, <2>1, <2>2, <2>3
<1>7. CASE plan.outcome = "ok"
  <2>1. PlanInv(e, ids, plan)
    BY <1>5, <1>7 DEF PlanSoFar
  <2>2. Prepared(e, plan.items, PreparedManager(e, plan))
    BY ONLY <1>1, <2>1, PlanIsPrepared
  <2>3. Workload(e, arrivals, plan)
    BY <1>1, <1>2, <2>1, PlanIsWorkload
  <2>4. PICK end : end = IF plan.items = <<>> THEN e.clock ELSE BatchEnd(e, plan)
    OBVIOUS
  <2>5. end \in Time \cup {Overflow} /\ (end # Overflow => end >= e.clock)
    <3>1. /\ BatchEnd(e, plan) \in Time \cup {Overflow}
          /\ BatchEnd(e, plan) # Overflow => BatchEnd(e, plan) >= e.clock
      BY ONLY <1>1, <2>1, BatchEndIsTime
    <3>2. e.clock >= e.clock
      <4>1. PICK now \in Nat : now = e.clock
        BY <1>1, TimeIsNatural
      <4>2. QED
        BY <4>1
    <3>3. QED
      BY <1>1, <2>4, <3>1, <3>2
  <2>6. \/ Iterated(e, arrivals, plan, end) = Fail(e, "overflow")
        \/ Advanced(e, arrivals, plan, end, Iterated(e, arrivals, plan, end))
    BY ONLY EngineInv(e), <2>2, <2>3, <2>5, IterationCommits
  <2>7. BatchIteration(e, arrivals, plan) = Iterated(e, arrivals, plan, end)
    BY <1>7, <2>4 DEF BatchIteration
  <2>8. plan.items = <<>> => end = e.clock
    BY <2>4
  <2>9. QED
    BY <1>2, <1>4, <2>1, <2>3, <2>6, <2>7, <2>8, OverflowIsTrouble
<1>8. QED
  BY <1>6, <1>7

-----------------------------------------------------------------------------
(* submit_request and cancel_request: one request changes.                   *)

Replaced(e, c, r, q) ==
  /\ c.clock = e.clock /\ c.requests = [e.requests EXCEPT ![r] = q]

\* One record is replaced, the others stay.
LEMMA OneRequest ==
  ASSUME NEW e, EngineInv(e), NEW c, NEW r \in Requests, NEW q \in Request, Lifecycle(q),
         Replaced(e, c, r, q)
  PROVE  /\ c.requests \in [Requests -> Request \cup {None}] /\ c.requests[r] = q
         /\ \A s \in Requests \ {r} : c.requests[s] = e.requests[s]
         /\ Submitted(c) = Submitted(e) \cup {r} /\ IsFiniteSet(Submitted(c))
         /\ \A s \in Submitted(c) : c.requests[s] \in Request /\ Lifecycle(c.requests[s])
         /\ \A states : InPhase(c, states)
                          = (InPhase(e, states) \ {r}) \cup (IF q.state \in states THEN {r} ELSE {})
<1>1. e.requests \in [Requests -> Request \cup {None}]
  BY DEF EngineInv, Engine
<1>2. /\ c.requests \in [Requests -> Request \cup {None}] /\ c.requests[r] = q
      /\ \A s \in Requests \ {r} : c.requests[s] = e.requests[s]
  BY <1>1 DEF Replaced
<1>3. q # None
  BY NoRequestAssumption
<1>4. Submitted(c) = Submitted(e) \cup {r}
  BY <1>2, <1>3 DEF Submitted
<1>5. IsFiniteSet(Submitted(c))
  BY <1>4, FS_AddElement DEF EngineInv, Sound
<1>6. ASSUME NEW s \in Submitted(c)
      PROVE  c.requests[s] \in Request /\ Lifecycle(c.requests[s])
  <2>1. CASE s = r
    BY <1>2, <2>1
  <2>2. CASE s # r
    <3>1. s \in Submitted(e) /\ c.requests[s] = e.requests[s]
      BY <1>2, <1>4, <1>6, <2>2 DEF Submitted
    <3>2. QED
      BY <3>1 DEF EngineInv, Sound
  <2>3. QED
    BY <2>1, <2>2
<1>7. ASSUME NEW states
      PROVE  InPhase(c, states)
               = (InPhase(e, states) \ {r}) \cup (IF q.state \in states THEN {r} ELSE {})
  <2>1. \A s \in Submitted(c) \ {r} : s \in Submitted(e) /\ c.requests[s] = e.requests[s]
    BY <1>2, <1>4 DEF Submitted
  <2>2. QED
    BY <1>2, <1>4, <2>1 DEF InPhase
<1>8. QED
  BY <1>2, <1>4, <1>5, <1>6, <1>7

\* submit_request keeps the invariant of the engine.
LEMMA SubmitFacts ==
  ASSUME EngineInv(engine), NEW r \in Requests, NEW arrival \in ArrivalTimes, NEW prompt \in Prompts,
         NEW limit \in OutputLimits, Submit(r, arrival, prompt, limit)
  PROVE  /\ EngineInv(engine') /\ (Holds(engine) => Holds(engine'))
         /\ Replaced(engine, engine', r, NewRequest(arrival, prompt, limit))
         /\ NewRequest(arrival, prompt, limit) \in Request
         /\ Lifecycle(NewRequest(arrival, prompt, limit))
         /\ r \notin Submitted(engine)
         /\ engine'.kv = engine.kv /\ engine'.stats = engine.stats /\ engine'.failed = engine.failed
         /\ result' = "none"
<1>1. PICK e : e = engine
  OBVIOUS
<1>2. PICK c : c = engine'
  OBVIOUS
<1>3. PICK q : q = NewRequest(arrival, prompt, limit)
  OBVIOUS
<1>4. arrival \in Time
  BY BatchingAssumption DEF Time
<1>5. q \in Request /\ Lifecycle(q) /\ q.state = "Waiting"
  BY <1>3, <1>4 DEF NewRequest, Request, RequestState, Lifecycle
<1>6. c = [e EXCEPT !.requests[r] = q] /\ r \notin Submitted(e) /\ result' = "none"
  BY <1>1, <1>2, <1>3 DEF Submit
<1>7. e \in Engine /\ EngineInv(e)
  BY <1>1 DEF EngineInv
<1>8. Replaced(e, c, r, q)
  BY <1>6, <1>7 DEF Replaced, Engine
<1>9. c.kv = e.kv /\ c.stats = e.stats /\ c.failed = e.failed /\ c.arrived = e.arrived
  BY <1>6, <1>7 DEF Engine
<1>10. /\ c.requests \in [Requests -> Request \cup {None}] /\ c.requests[r] = q
       /\ \A s \in Requests \ {r} : c.requests[s] = e.requests[s]
       /\ Submitted(c) = Submitted(e) \cup {r} /\ IsFiniteSet(Submitted(c))
       /\ \A s \in Submitted(c) : c.requests[s] \in Request /\ Lifecycle(c.requests[s])
       /\ \A states : InPhase(c, states)
                        = (InPhase(e, states) \ {r}) \cup (IF q.state \in states THEN {r} ELSE {})
  BY ONLY <1>5, <1>7, <1>8, r \in Requests, OneRequest
<1>11. InPhase(c, {"Decoding"}) = InPhase(e, {"Decoding"})
  <2>1. r \notin InPhase(e, {"Decoding"})
    BY <1>6 DEF InPhase
  <2>2. InPhase(c, {"Decoding"}) = (InPhase(e, {"Decoding"}) \ {r}) \cup (IF q.state \in {"Decoding"} THEN {r} ELSE {})
    BY <1>10
  <2>3. QED
    BY <1>5, <2>1, <2>2
<1>12. c \in Engine
  <2>1. c = [clock |-> e.clock, requests |-> c.requests, arrived |-> e.arrived, kv |-> e.kv,
             stats |-> e.stats, failed |-> e.failed]
    BY <1>6, <1>7 DEF Engine
  <2>2. PICK requests : requests = c.requests
    OBVIOUS
  <2>3. c = [clock |-> e.clock, requests |-> requests, arrived |-> e.arrived, kv |-> e.kv,
             stats |-> e.stats, failed |-> e.failed]
    BY <2>1, <2>2
  <2>4. QED
    BY <1>7, <1>10, <2>2, <2>3 DEF Engine
<1>13. Sound(c)
  BY <1>7, <1>9, <1>10, <1>11 DEF EngineInv, Sound
<1>14. EngineInv(c)
  BY <1>10, <1>12, <1>13 DEF EngineInv
<1>15. Holds(e) => Holds(c)
  <2>1. ASSUME NEW s \in Live(e.kv)
        PROVE  c.requests[s] = e.requests[s]
    <3>1. s \in InPhase(e, {"Decoding"})
      BY <1>7, <2>1 DEF EngineInv, Sound
    <3>2. s \in Requests \ {r}
      BY <1>6, <3>1 DEF InPhase, Submitted
    <3>3. QED
      BY <1>10, <3>2
  <2>2. QED
    BY <1>9, <2>1 DEF Holds
<1>16. QED
  BY <1>1, <1>2, <1>3, <1>5, <1>6, <1>8, <1>9, <1>14, <1>15

\* The blocks of the cancelled request are released, those of the others kept.
Cancelled(e, r) == [e.requests[r] EXCEPT !.state = "Cancelled", !.finish = e.clock]

\* cancel_request releases exactly the blocks of the request.
LEMMA CancelManager ==
  ASSUME NEW e, EngineInv(e), NEW r \in InPhase(e, {"Waiting", "Decoding"}),
         NEW manager, manager = ManagerWithout(e, r)
  PROVE  /\ manager.outcome = "ok" /\ manager.kv \in Manager /\ Valid(manager.kv)
         /\ Live(manager.kv) = Live(e.kv) \ {r}
         /\ \A s \in Live(manager.kv) : TokensHeld(manager.kv, s) = TokensHeld(e.kv, s)
<1>1. PICK m : m = e.kv
  OBVIOUS
<1>2. m \in Manager /\ Valid(m) /\ IsFiniteSet(Live(m)) /\ Live(m) = InPhase(e, {"Decoding"})
  <2>1. m \in Manager /\ Valid(m) /\ Live(m) = InPhase(e, {"Decoding"}) /\ IsFiniteSet(Submitted(e))
    BY <1>1 DEF EngineInv, Sound
  <2>2. InPhase(e, {"Decoding"}) \in SUBSET Submitted(e)
    BY DEF InPhase
  <2>3. QED
    BY <2>1, <2>2, FS_Subset
<1>3. CASE e.requests[r].state = "Decoding"
  <2>1. r \in Live(m)
    BY <1>2, <1>3 DEF InPhase
  <2>2. PICK reply : reply = ReleaseRequest(m, r)
    OBVIOUS
  <2>3. /\ reply.outcome = "ok" /\ Keeping(m, reply.kv) /\ Live(reply.kv) = Live(m) \ {r}
    BY ONLY <1>2, <2>1, <2>2, ReleaseKeeps
  <2>4. manager = reply
    BY <1>1, <1>3, <2>2 DEF ManagerWithout
  <2>5. QED
    BY <1>1, <2>3, <2>4 DEF Keeping
<1>4. CASE e.requests[r].state # "Decoding"
  <2>1. manager.outcome = "ok" /\ manager.kv = m
    BY <1>1, <1>4 DEF ManagerWithout, Refuse
  <2>2. r \notin Live(m)
    BY <1>2, <1>4 DEF InPhase
  <2>3. QED
    BY <1>1, <1>2, <2>1, <2>2
<1>5. QED
  BY <1>3, <1>4

\* cancel_request keeps the invariant of the engine.
LEMMA CancelFacts ==
  ASSUME EngineInv(engine), NEW r \in Requests, Cancel(r)
  PROVE  /\ EngineInv(engine') /\ (Holds(engine) => Holds(engine'))
         /\ r \in InPhase(engine, {"Waiting", "Decoding"})
         /\ Replaced(engine, engine', r, Cancelled(engine, r))
         /\ Cancelled(engine, r) \in Request /\ Lifecycle(Cancelled(engine, r))
         /\ engine'.stats = [engine.stats EXCEPT !.cancelled = @ + 1]
         /\ engine'.failed = engine.failed /\ result' = "none"
<1>1. PICK e : e = engine
  OBVIOUS
<1>2. PICK c : c = engine'
  OBVIOUS
<1>3. PICK q : q = Cancelled(e, r)
  OBVIOUS
<1>4. PICK manager : manager = ManagerWithout(e, r)
  OBVIOUS
<1>5. e \in Engine /\ EngineInv(e) /\ e.clock \in Time
  BY <1>1 DEF EngineInv, Engine
<1>6. r \in InPhase(e, {"Waiting", "Decoding"}) /\ e.stats.cancelled < CounterLimit /\ result' = "none"
  BY <1>1 DEF Cancel
<1>7. /\ manager.outcome = "ok" /\ manager.kv \in Manager /\ Valid(manager.kv)
      /\ Live(manager.kv) = Live(e.kv) \ {r}
      /\ \A s \in Live(manager.kv) : TokensHeld(manager.kv, s) = TokensHeld(e.kv, s)
  BY ONLY <1>4, <1>5, <1>6, CancelManager
<1>8. e.requests[r] \in Request /\ Lifecycle(e.requests[r])
  BY <1>5, <1>6 DEF EngineInv, Sound, InPhase
<1>9. q \in Request /\ Lifecycle(q) /\ q.state = "Cancelled"
  BY <1>3, <1>5, <1>8 DEF Cancelled, Request, RequestState, Lifecycle
<1>10. PICK requests, arrived, kv, stats :
         /\ requests = [e.requests EXCEPT ![r] = q] /\ arrived = e.arrived \ {r} /\ kv = manager.kv
         /\ stats = [e.stats EXCEPT !.cancelled = @ + 1]
  OBVIOUS
<1>11. c = [clock |-> e.clock, requests |-> requests, arrived |-> arrived, kv |-> kv,
            stats |-> stats, failed |-> e.failed]
  <2>1. c = [e EXCEPT !.requests[r].state = "Cancelled", !.requests[r].finish = e.clock,
                      !.arrived = @ \ {r}, !.kv = manager.kv, !.stats.cancelled = @ + 1]
    BY <1>1, <1>2, <1>4 DEF Cancel
  <2>2. r \in Requests /\ e.requests \in [Requests -> Request \cup {None}] /\ e.stats \in Statistics
    BY <1>5 DEF Engine
  <2>3. PICK x : x = [[e.requests EXCEPT ![r].state = "Cancelled"] EXCEPT ![r].finish = e.clock]
    OBVIOUS
  <2>4. x = requests
    BY <1>3, <1>10, <2>2, <2>3 DEF Cancelled
  <2>5. c = [clock |-> e.clock, requests |-> x, arrived |-> arrived, kv |-> kv,
             stats |-> stats, failed |-> e.failed]
    BY <1>5, <1>10, <2>1, <2>3 DEF Engine
  <2>6. QED
    BY <2>4, <2>5
<1>12. Replaced(e, c, r, q)
  BY <1>10, <1>11 DEF Replaced
<1>13. /\ c.requests \in [Requests -> Request \cup {None}] /\ c.requests[r] = q
       /\ \A s \in Requests \ {r} : c.requests[s] = e.requests[s]
       /\ Submitted(c) = Submitted(e) \cup {r} /\ IsFiniteSet(Submitted(c))
       /\ \A s \in Submitted(c) : c.requests[s] \in Request /\ Lifecycle(c.requests[s])
       /\ \A states : InPhase(c, states)
                        = (InPhase(e, states) \ {r}) \cup (IF q.state \in states THEN {r} ELSE {})
  BY ONLY <1>5, <1>9, <1>12, r \in Requests, OneRequest
<1>14. stats \in Statistics
  <2>1. e.stats \in Statistics
    BY <1>5 DEF Engine
  <2>2. e.stats.cancelled + 1 \in 0 .. CounterLimit
    <3>1. e.stats.cancelled \in 0 .. CounterLimit
      BY <2>1 DEF Statistics
    <3>2. PICK n \in 0 .. CounterLimit : n = e.stats.cancelled
      BY <3>1
    <3>3. n + 1 \in 0 .. CounterLimit
      BY <1>6, <3>2, BatchingAssumption
    <3>4. QED
      BY <3>2, <3>3
  <2>3. QED
    BY <1>10, <2>1, <2>2 DEF Statistics
<1>15. c \in Engine
  <2>1. requests \in [Requests -> Request \cup {None}] /\ arrived \in SUBSET Requests /\ kv \in Manager
    BY <1>5, <1>7, <1>10, <1>11, <1>13 DEF Engine
  <2>2. QED
    BY <1>5, <1>11, <1>14, <2>1 DEF Engine
<1>16. Live(c.kv) = InPhase(c, {"Decoding"})
  <2>1. InPhase(c, {"Decoding"})
          = (InPhase(e, {"Decoding"}) \ {r}) \cup (IF q.state \in {"Decoding"} THEN {r} ELSE {})
    BY <1>13
  <2>2. Live(e.kv) = InPhase(e, {"Decoding"})
    BY <1>5 DEF EngineInv, Sound
  <2>3. c.kv = manager.kv
    BY <1>10, <1>11
  <2>4. QED
    BY <1>7, <1>9, <2>1, <2>2, <2>3
<1>17. Sound(c)
  BY <1>7, <1>10, <1>11, <1>13, <1>16 DEF Sound
<1>18. EngineInv(c)
  BY <1>13, <1>15, <1>17 DEF EngineInv
<1>19. Holds(e) => Holds(c)
  <2>1. ASSUME Holds(e), NEW s \in Live(c.kv)
        PROVE  TokensHeld(c.kv, s) = Total(c.requests[s].prompt) + c.requests[s].generated
    <3>1. c.kv = manager.kv
      BY <1>10, <1>11
    <3>2. s \in Live(e.kv) /\ s # r /\ s \in Requests
      BY <1>7, <2>1, <3>1 DEF Live
    <3>3. c.requests[s] = e.requests[s]
      BY <1>13, <3>2
    <3>4. TokensHeld(c.kv, s) = TokensHeld(e.kv, s)
      BY <1>7, <2>1, <3>1
    <3>5. TokensHeld(e.kv, s) = Total(e.requests[s].prompt) + e.requests[s].generated
      BY <2>1, <3>2 DEF Holds
    <3>6. QED
      BY <3>3, <3>4, <3>5
  <2>2. QED
    BY <2>1 DEF Holds
<1>20. c.stats = [e.stats EXCEPT !.cancelled = @ + 1] /\ c.failed = e.failed
  BY <1>10, <1>11
<1>21. QED
  BY <1>1, <1>2, <1>3, <1>6, <1>9, <1>12, <1>18, <1>19, <1>20

-----------------------------------------------------------------------------
(* run_next_iteration                                                        *)

Failed(e, c) == \E cause \in Causes : Trouble(e, cause) /\ c = Fail(e, cause)

\* Nobody may run: the clock moves on to the next arrival.
Slept(e, c) ==
  /\ Runnable(e, Arrivals(e)) = {} /\ Future(e, Arrivals(e)) # {}
  /\ Advanced(e, Arrivals(e), EmptyWork, NextArrival(e, Arrivals(e)), c)

\* The plan for those who may run was carried out.
Ran(e, plan, c) ==
  /\ Runnable(e, Arrivals(e)) # {} /\ plan = Plan(e, Runnable(e, Arrivals(e)))
  /\ PlanInv(e, Runnable(e, Arrivals(e)), plan) /\ Workload(e, Arrivals(e), plan)
  /\ \E end : /\ Advanced(e, Arrivals(e), plan, end, c)
              /\ plan.items = <<>> => end = e.clock

\* The four ways in which run_next_iteration ends.
LEMMA RunFacts ==
  ASSUME EngineInv(engine), RunNextIteration
  PROVE  \/ /\ engine' = engine /\ result' = "complete"
            /\ Runnable(engine, Arrivals(engine)) = {} /\ Future(engine, Arrivals(engine)) = {}
         \/ Failed(engine, engine') /\ result' = "none"
         \/ Slept(engine, engine') /\ result' = "progressed"
         \/ \E plan : /\ Ran(engine, plan, engine')
                      /\ result' = IF plan.items = <<>> THEN "stalled" ELSE "progressed"
<1>1. PICK e : e = engine
  OBVIOUS
<1>2. PICK c : c = engine'
  OBVIOUS
<1>3. PICK arrivals : arrivals = Arrivals(e)
  OBVIOUS
<1>4. PICK runnable : runnable = Runnable(e, arrivals)
  OBVIOUS
<1>5. PICK future : future = Future(e, arrivals)
  OBVIOUS
<1>6. EngineInv(e) /\ Ok(e)
  BY <1>1 DEF RunNextIteration
<1>7. \/ runnable = {} /\ future = {} /\ c = e /\ result' = "complete"
      \/ /\ runnable = {} /\ future # {} /\ c = IdleIteration(e, arrivals)
         /\ result' = IF Ok(c) THEN "progressed" ELSE "none"
      \/ /\ runnable # {} /\ c = BatchIteration(e, arrivals, Plan(e, runnable))
         /\ result' = IF ~Ok(c) THEN "none"
                      ELSE IF Plan(e, runnable).items = <<>> THEN "stalled" ELSE "progressed"
  BY <1>1, <1>2, <1>3, <1>4, <1>5 DEF RunNextIteration, RunBatch
<1>8. Failed(e, c) => ~Ok(c)
  <2>1. ASSUME NEW cause \in Causes, c = Fail(e, cause)
        PROVE  ~Ok(c)
    <3>1. cause # "no" /\ cause \in {"no", "oversized", "overflow", "capacity", "stale", "logic_error"}
      BY DEF Causes
    <3>2. Fail(e, cause).failed = cause
      BY <1>6, <3>1, FailureKeepsEngine DEF EngineInv
    <3>3. QED
      BY <2>1, <3>1, <3>2 DEF Ok
  <2>2. QED
    BY <2>1 DEF Failed
<1>9. \A work, end : Advanced(e, arrivals, work, end, c) => Ok(c)
  BY <1>6 DEF Advanced, Ok
<1>10. CASE runnable = {} /\ future # {} /\ c = IdleIteration(e, arrivals)
  <2>1. result' = IF Ok(c) THEN "progressed" ELSE "none"
    BY <1>7, <1>10
  <2>2. \/ c = Fail(e, "overflow")
        \/ Advanced(e, arrivals, EmptyWork, NextArrival(e, arrivals), c)
    BY <1>5, <1>6, <1>10, IdleFacts
  <2>3. CASE c = Fail(e, "overflow")
    <3>1. Failed(e, c)
      BY <2>3, OverflowIsTrouble DEF Failed
    <3>2. QED
      BY <1>1, <1>2, <1>8, <2>1, <3>1
  <2>4. CASE Advanced(e, arrivals, EmptyWork, NextArrival(e, arrivals), c)
    <3>1. Slept(e, c)
      BY <1>3, <1>4, <1>5, <1>10, <2>4 DEF Slept
    <3>2. QED
      BY <1>1, <1>2, <1>9, <2>1, <2>4, <3>1
  <2>5. QED
    BY <2>2, <2>3, <2>4
<1>11. CASE runnable # {} /\ c = BatchIteration(e, arrivals, Plan(e, runnable))
  <2>1. PICK plan : plan = Plan(e, runnable)
    OBVIOUS
  <2>2. result' = IF ~Ok(c) THEN "none" ELSE IF plan.items = <<>> THEN "stalled" ELSE "progressed"
    BY <1>7, <1>11, <2>1
  <2>3. c = BatchIteration(e, arrivals, plan)
    BY <1>11, <2>1
  <2>4. \/ \E cause \in Causes : Trouble(e, cause) /\ c = Fail(e, cause)
        \/ /\ PlanInv(e, runnable, plan) /\ Workload(e, arrivals, plan)
           /\ \E end : /\ Advanced(e, arrivals, plan, end, c)
                       /\ plan.items = <<>> => end = e.clock
    BY <1>4, <1>6, <2>1, <2>3, BatchFacts
  <2>5. CASE \E cause \in Causes : Trouble(e, cause) /\ c = Fail(e, cause)
    <3>1. Failed(e, c)
      BY <2>5 DEF Failed
    <3>2. QED
      BY <1>1, <1>2, <1>8, <2>2, <3>1
  <2>6. CASE /\ PlanInv(e, runnable, plan) /\ Workload(e, arrivals, plan)
             /\ \E end : /\ Advanced(e, arrivals, plan, end, c)
                         /\ plan.items = <<>> => end = e.clock
    <3>1. Ran(e, plan, c)
      BY <1>3, <1>4, <1>11, <2>1, <2>6 DEF Ran
    <3>2. QED
      BY <1>1, <1>2, <1>9, <2>2, <2>6, <3>1
  <2>7. QED
    BY <2>4, <2>5, <2>6
<1>12. CASE runnable = {} /\ future = {} /\ c = e /\ result' = "complete"
  BY <1>1, <1>2, <1>3, <1>4, <1>5, <1>12
<1>13. QED
  BY <1>7, <1>10, <1>11, <1>12

\* arrivals_at_current_timestamp names requests.
LEMMA ArrivalsAreRequests ==
  ASSUME NEW e, EngineInv(e)
  PROVE  Arrivals(e) \in SUBSET Requests
BY DEF Arrivals, InPhase, Submitted, EngineInv, Engine

\* An iteration that failed committed nothing.
LEMMA FailedKeeps ==
  ASSUME NEW e, EngineInv(e), NEW c, Failed(e, c)
  PROVE  /\ EngineInv(c) /\ (Holds(e) => Holds(c)) /\ c.failed \in Causes /\ Trouble(e, c.failed)
         /\ c.kv = e.kv /\ c.requests = e.requests /\ c.stats = e.stats /\ c.clock = e.clock
         /\ \A states : InPhase(c, states) = InPhase(e, states)
<1>1. PICK cause \in Causes : Trouble(e, cause) /\ c = Fail(e, cause)
  BY DEF Failed
<1>2. cause \in {"no", "oversized", "overflow", "capacity", "stale", "logic_error"}
  BY DEF Causes
<1>3. e \in Engine
  BY DEF EngineInv
<1>4. /\ c \in Engine /\ c.failed = cause
      /\ c.clock = e.clock /\ c.requests = e.requests /\ c.kv = e.kv /\ c.stats = e.stats
  BY <1>1, <1>2, <1>3, FailureKeepsEngine
<1>5. QED
  BY <1>1, <1>4, SameRequests

\* An idle iteration keeps the invariant.
LEMMA SleptKeeps ==
  ASSUME NEW e, EngineInv(e), NEW c, Slept(e, c)
  PROVE  EngineInv(c) /\ (Holds(e) => Holds(c)) /\ c.failed = e.failed
<1>1. PICK arrivals, work, end :
        /\ arrivals = Arrivals(e) /\ work = EmptyWork /\ end = NextArrival(e, Arrivals(e))
  OBVIOUS
<1>2. Advanced(e, arrivals, work, end, c) /\ Workload(e, arrivals, work)
  BY <1>1, NothingIsWorkload DEF Slept
<1>3. arrivals \in SUBSET Requests
  BY <1>1, ArrivalsAreRequests
<1>4. EngineInv(c)
  BY ONLY EngineInv(e), <1>2, <1>3, AdvancedKeepsEngine
<1>5. ASSUME Holds(e)
      PROVE  Holds(c)
  BY ONLY EngineInv(e), <1>2, <1>5, AdvancedHolds
<1>6. QED
  BY <1>2, <1>4, <1>5 DEF Advanced

\* A batch keeps the invariant.
LEMMA RanKeeps ==
  ASSUME NEW e, EngineInv(e), NEW plan, NEW c, Ran(e, plan, c)
  PROVE  EngineInv(c) /\ (Holds(e) => Holds(c)) /\ c.failed = e.failed
<1>1. PICK arrivals : arrivals = Arrivals(e)
  OBVIOUS
<1>2. PICK end : Advanced(e, arrivals, plan, end, c)
  BY <1>1 DEF Ran
<1>3. arrivals \in SUBSET Requests /\ Workload(e, arrivals, plan)
  BY <1>1, ArrivalsAreRequests DEF Ran
<1>4. EngineInv(c)
  BY ONLY EngineInv(e), <1>2, <1>3, AdvancedKeepsEngine
<1>5. ASSUME Holds(e)
      PROVE  Holds(c)
  BY ONLY EngineInv(e), <1>2, <1>3, <1>5, AdvancedHolds
<1>6. QED
  BY <1>2, <1>4, <1>5 DEF Advanced

-----------------------------------------------------------------------------
(* What an iteration reports.                                                *)

\* A request ends as finished or as cancelled.
LEMMA TerminalStates == Terminal = {"Finished", "Cancelled"}
BY DEF Terminal, RequestState, Successors

\* Nobody may run and nobody arrives: every request has ended.
LEMMA CompleteIsTrue ==
  ASSUME NEW e, EngineInv(e), Runnable(e, Arrivals(e)) = {}, Future(e, Arrivals(e)) = {}
  PROVE  Submitted(e) = InPhase(e, Terminal)
<1>1. ASSUME NEW r \in Submitted(e)
      PROVE  e.requests[r].state \in {"Finished", "Cancelled"}
  <2>1. Lifecycle(e.requests[r])
    BY <1>1 DEF EngineInv
  <2>2. e.requests[r].state # "Decoding"
    BY DEF Runnable, InPhase
  <2>3. ASSUME e.requests[r].state = "Waiting"
        PROVE  FALSE
    <3>1. r \in InPhase(e, {"Waiting"})
      BY <2>3 DEF InPhase
    <3>2. r \notin Arrivals(e)
      BY <3>1 DEF Runnable
    <3>3. ~(e.requests[r].arrival <= e.clock)
      BY <3>1, <3>2 DEF Arrivals
    <3>4. e.requests[r].arrival \in Nat /\ e.clock \in Nat
      BY ArrivalIsTime, TimeIsNatural DEF EngineInv, Engine
    <3>5. PICK arrival \in Nat, now \in Nat : arrival = e.requests[r].arrival /\ now = e.clock
      BY <3>4
    <3>6. e.requests[r].arrival > e.clock
      BY <3>3, <3>5
    <3>7. QED
      BY <3>1, <3>2, <3>6 DEF Future
  <2>4. QED
    BY <2>1, <2>2, <2>3 DEF Lifecycle
<1>2. QED
  BY <1>1, TerminalStates DEF InPhase

\* Full blocks and the rest of a prompt need the blocks of both.
LEMMA BlocksOfBoth ==
  ASSUME NEW k \in Nat, NEW n \in Nat
  PROVE  BlocksRequired(k * BlockSize + n) = k + BlocksRequired(n) /\ BlocksRequired(n) \in Nat
<1>1. PICK d \in Nat, t \in 0 .. BlockSize - 1 : n = d * BlockSize + t
  <2> DEFINE q == n \div BlockSize
             t == n % BlockSize
  <2>1. BlockSize \in Nat /\ BlockSize > 0
    BY KVAssumption
  <2>2. q \in Nat /\ t \in Nat /\ t < BlockSize /\ n = BlockSize * q + t
    BY <2>1
  <2> HIDE DEF q, t
  <2>3. BlockSize * q = q * BlockSize
    <3>1. \A x, y \in Nat : x * y = y * x
      OBVIOUS
    <3>2. QED
      BY <2>1, <2>2, <3>1
  <2>4. t \in 0 .. BlockSize - 1 /\ n = q * BlockSize + t
    BY <2>1, <2>2, <2>3
  <2>5. QED
    BY <2>2, <2>4
<1>2. BlocksRequired(n) = d + (IF t = 0 THEN 0 ELSE 1)
  BY <1>1, BlocksAndTail
<1>3. PICK s \in Nat : s = k + d
  OBVIOUS
<1>4. k * BlockSize + n = s * BlockSize + t
  BY <1>1, <1>3, KVAssumption
<1>5. BlocksRequired(s * BlockSize + t) = s + (IF t = 0 THEN 0 ELSE 1)
  <2>1. PICK x : x = s * BlockSize + t
    OBVIOUS
  <2>2. QED
    BY <2>1, BlocksAndTail
<1>6. QED
  BY <1>2, <1>3, <1>4, <1>5

\* With nothing live, a prompt that cannot get its blocks exceeds the pool.
LEMMA ShortOfEverything ==
  ASSUME NEW e, EngineInv(e), Live(e.kv) = {}, NEW r \in InPhase(e, {"Waiting"}),
         Short(e, e.kv, r)
  PROVE  BlocksRequired(Total(e.requests[r].prompt)) > NumBlocks
<1>1. PICK m : m = e.kv
  OBVIOUS
<1>2. m \in Manager /\ Valid(m) /\ Live(m) = {} /\ Sound(e)
  BY <1>1 DEF EngineInv, Sound
<1>3. Pending(e, m, r) /\ IsWaiting(e, r)
  BY <1>2 DEF Pending, IsWaiting, InPhase, Live, Submitted
<1>4. PICK hits : hits = Hits(e, m, r)
  OBVIOUS
<1>5. PICK cost : cost = CostOf(e, m, r)
  OBVIOUS
<1>6. /\ hits \in Seq(Block) /\ cost \in Nat /\ Total(e.requests[r].prompt) \in Nat
      /\ cost = Total(e.requests[r].prompt) - Len(hits) * BlockSize
  <2>1. /\ Hits(e, m, r) \in Seq(Block) /\ CostOf(e, m, r) \in Nat
        /\ Total(e.requests[r].prompt) \in Nat
    BY ONLY <1>2, <1>3, CandidateFacts
  <2>2. QED
    BY <1>3, <1>4, <1>5, <2>1 DEF CostOf
<1>7. PICK k \in Nat : k = Len(hits)
  BY <1>6
<1>8. BlocksRequired(Total(e.requests[r].prompt)) = k + BlocksRequired(cost) /\ BlocksRequired(cost) \in Nat
  <2>1. k * BlockSize \in Nat
    BY KVAssumption
  <2>2. Total(e.requests[r].prompt) = k * BlockSize + cost
    BY <1>6, <1>7, <2>1
  <2>3. BlocksRequired(k * BlockSize + cost) = k + BlocksRequired(cost) /\ BlocksRequired(cost) \in Nat
    BY <1>6, BlocksOfBoth
  <2>4. QED
    BY <2>2, <2>3
<1>9. BlocksRequired(cost) > Cardinality(m.free) + Cardinality(Cached(m) \ Range(hits))
  BY <1>1, <1>3, <1>4, <1>5 DEF Short, RequiredOf
<1>10. Cardinality(m.free) + Cardinality(Cached(m)) = NumBlocks
  BY <1>2, IdlePool
<1>11. Cardinality(Cached(m)) <= Cardinality(Cached(m) \ Range(hits)) + k
  <2>1. IsFiniteSet(Range(hits)) /\ Cardinality(Range(hits)) <= k /\ Cardinality(Range(hits)) \in Nat
    <3>1. DOMAIN hits = 1 .. k
      BY <1>6, <1>7
    <3>2. hits \in Surjection(1 .. k, Range(hits))
      <4>1. hits \in [1 .. k -> Range(hits)]
        BY <1>6, <3>1 DEF Range
      <4>2. \A x \in Range(hits) : \E j \in 1 .. k : hits[j] = x
        BY <3>1 DEF Range
      <4>3. QED
        BY <4>1, <4>2 DEF Surjection
    <3>3. IsFiniteSet(1 .. k) /\ Cardinality(1 .. k) = k
      <4>1. IsFiniteSet(1 .. k) /\ Cardinality(1 .. k) = IF 1 > k THEN 0 ELSE k - 1 + 1
        BY FS_Interval
      <4>2. QED
        BY <4>1
    <3>4. QED
      BY <3>2, <3>3, FS_Surjection, FS_CardinalityType
  <2>2. IsFiniteSet(Cached(m))
    BY BlocksAreFinite DEF Cached
  <2>3. PICK A, B : A = Cached(m) \ Range(hits) /\ B = Cached(m) \cap Range(hits)
    OBVIOUS
  <2>4. IsFiniteSet(A) /\ IsFiniteSet(B) /\ A \cup B = Cached(m) /\ A \cap B = {}
    BY <2>2, <2>3, FS_Subset
  <2>5. Cardinality(A \cup B) = Cardinality(A) + Cardinality(B) - Cardinality(A \cap B)
    BY <2>4, FS_Union
  <2>6. Cardinality(A \cap B) = 0 /\ Cardinality(A) \in Nat /\ Cardinality(B) \in Nat
    BY <2>4, FS_EmptySet, FS_CardinalityType
  <2>7. Cardinality(B) <= Cardinality(Range(hits))
    <3>1. B \in SUBSET Range(hits)
      BY <2>3
    <3>2. QED
      BY <2>1, <3>1, FS_Subset
  <2>8. Cardinality(Cached(m)) = Cardinality(A) + Cardinality(B)
    <3>1. Cardinality(Cached(m)) = Cardinality(A \cup B)
      BY <2>4
    <3>2. Cardinality(A \cup B) = Cardinality(A) + Cardinality(B)
      BY <2>5, <2>6
    <3>3. QED
      BY <3>1, <3>2
  <2>9. QED
    BY <2>1, <2>3, <2>6, <2>7, <2>8
<1>12. Cardinality(m.free) \in Nat /\ Cardinality(Cached(m)) \in Nat /\ Cardinality(Cached(m) \ Range(hits)) \in Nat
  <2>1. m.free \in SUBSET Block /\ Cached(m) \in SUBSET Block /\ Cached(m) \ Range(hits) \in SUBSET Block
    BY <1>2 DEF Manager, Cached
  <2>2. QED
    BY <2>1, BlocksAreFinite
<1>13. QED
  BY <1>8, <1>9, <1>10, <1>11, <1>12, KVAssumption

\* A stall changes no request and no block, and leaves every runnable request short.
LEMMA StallChangesNothing ==
  ASSUME NEW e, EngineInv(e), NEW plan, NEW c, Ran(e, plan, c), plan.items = <<>>
  PROVE  /\ \A s \in Requests : c.requests[s] = e.requests[s]
         /\ c.kv = e.kv /\ Runnable(c, c.arrived) = Runnable(e, Arrivals(e))
         /\ \A states : InPhase(c, states) = InPhase(e, states)
         /\ \A r \in Runnable(e, Arrivals(e)) : Short(e, e.kv, r)
<1>1. PICK arrivals : arrivals = Arrivals(e)
  OBVIOUS
<1>2. PICK end : Advanced(e, arrivals, plan, end, c)
  BY <1>1 DEF Ran
<1>3. Workload(e, arrivals, plan) /\ PlanInv(e, Runnable(e, arrivals), plan)
  BY <1>1 DEF Ran
<1>4. PICK items : items = plan.items
  OBVIOUS
<1>5. IdsOf(items) = {} /\ Range(items) = {} /\ Ended(e, items) = {}
  <2>1. Range(items) = {} /\ IdsOf(items) = {}
    BY <1>4, EmptySequence
  <2>2. QED
    BY <2>1 DEF Ended
<1>6. \A s \in Requests : c.requests[s] = e.requests[s]
  BY <1>2, <1>3, <1>4, <1>5, AdvancedRequests
<1>7. Submitted(c) = Submitted(e) /\ \A states : InPhase(c, states) = InPhase(e, states)
  <2>1. Submitted(c) = Submitted(e)
    BY <1>6 DEF Submitted
  <2>2. \A s \in Submitted(e) : c.requests[s] = e.requests[s]
    BY <1>6 DEF Submitted
  <2>3. QED
    BY <2>1, <2>2 DEF InPhase
<1>8. c.arrived = arrivals /\ c.kv = e.kv
  BY <1>2 DEF Advanced
<1>9. Runnable(c, c.arrived) = Runnable(e, arrivals)
  BY <1>7, <1>8 DEF Runnable
<1>10. ASSUME NEW r \in Runnable(e, arrivals)
       PROVE  Short(e, e.kv, r)
  <2>1. r \in IdsOf(plan.deferred)
    BY <1>3, <1>4, <1>5 DEF PlanInv, Named
  <2>2. PICK d \in Range(plan.deferred) : d.id = r
    BY <2>1 DEF IdsOf
  <2>3. QED
    BY <1>3, <2>2 DEF PlanInv, Nothing
<1>11. QED
  BY <1>1, <1>6, <1>7, <1>8, <1>9, <1>10

\* After a stall without decoding requests, only prompts larger than the pool wait.
LEMMA StallIsTrue ==
  ASSUME NEW e, EngineInv(e), NEW plan, NEW c, Ran(e, plan, c), plan.items = <<>>,
         InPhase(c, {"Decoding"}) = {}, NEW r \in Runnable(c, c.arrived)
  PROVE  BlocksRequired(Total(c.requests[r].prompt)) > NumBlocks
<1>1. /\ r \in Runnable(e, Arrivals(e)) /\ InPhase(e, {"Decoding"}) = {}
      /\ Short(e, e.kv, r) /\ \A s \in Requests : c.requests[s] = e.requests[s]
  BY StallChangesNothing
<1>2. r \in InPhase(e, {"Waiting"}) /\ r \in Requests
  BY <1>1 DEF Runnable, InPhase, Submitted
<1>3. Live(e.kv) = {}
  BY <1>1 DEF EngineInv, Sound
<1>4. QED
  BY <1>1, <1>2, <1>3, ShortOfEverything

\* After a stall with decoding requests each of them needs a block, and none is left.
LEMMA StallIsHeld ==
  ASSUME NEW e, EngineInv(e), NEW plan, NEW c, Ran(e, plan, c), plan.items = <<>>,
         NEW r \in InPhase(c, {"Decoding"})
  PROVE  c.kv.free = {} /\ Cached(c.kv) = {} /\ DecodeRequiresNewBlock(c.kv, r)
<1>1. PICK m : m = e.kv
  OBVIOUS
<1>2. /\ c.kv = m /\ r \in InPhase(e, {"Decoding"})
      /\ \A s \in Runnable(e, Arrivals(e)) : Short(e, m, s)
  BY <1>1, StallChangesNothing
<1>3. m \in Manager
  BY <1>1 DEF EngineInv, Sound
<1>4. r \in Runnable(e, Arrivals(e)) /\ ~IsWaiting(e, r)
  BY <1>2 DEF Runnable, InPhase, IsWaiting
<1>5. Hits(e, m, r) = <<>> /\ RequiredOf(e, m, r) = IF DecodeRequiresNewBlock(m, r) THEN 1 ELSE 0
  BY <1>4 DEF Hits, RequiredOf
<1>6. PICK free, cached : free = m.free /\ cached = Cached(m)
  OBVIOUS
<1>7. /\ free \in SUBSET Block /\ cached \in SUBSET Block
  BY <1>3, <1>6 DEF Manager, Cached
<1>8. /\ IsFiniteSet(free) /\ Cardinality(free) \in Nat
      /\ IsFiniteSet(cached) /\ Cardinality(cached) \in Nat
  BY <1>7, BlocksAreFinite
<1>9. RequiredOf(e, m, r) > Cardinality(free) + Cardinality(cached)
  <2>1. Short(e, m, r)
    BY <1>2, <1>4
  <2>2. cached \ Range(Hits(e, m, r)) = cached
    BY <1>5, EmptySequence
  <2>3. QED
    BY <1>6, <2>1, <2>2 DEF Short
<1>10. DecodeRequiresNewBlock(m, r) /\ Cardinality(free) = 0 /\ Cardinality(cached) = 0
  BY <1>5, <1>8, <1>9
<1>11. free = {} /\ cached = {}
  BY <1>8, <1>10, FS_EmptySet
<1>12. QED
  BY <1>2, <1>6, <1>10, <1>11

-----------------------------------------------------------------------------
(* The invariant of the engine, and the theorems that follow from it.        *)

\* The engine is sound, its blocks and requests in step, its last report true.
BatchingInv ==
  /\ EngineInv(engine) /\ Holds(engine) /\ OutcomeIsTrue
  /\ result \in {"none", "progressed", "stalled", "complete"}

\* A new engine is sound.
LEMMA InitiallySound == Init => BatchingInv
<1> SUFFICES ASSUME Init
             PROVE  BatchingInv
  OBVIOUS
<1>1. PICK e : e = engine
  OBVIOUS
<1>2. PICK m : m = EmptyManager
  OBVIOUS
<1>3. m \in Manager /\ Valid(m) /\ Live(m) = {}
  <2>1. Live(EmptyManager) = {}
    BY DEF EmptyManager, Live
  <2>2. QED
    BY <1>2, <2>1, EmptyManagerIsValid
<1>4. PICK stats : stats = [iterations |-> 0, batches |-> 0, idle |-> 0, stalled |-> 0,
                            prefill |-> 0, decode |-> 0, sequences |-> 0,
                            original |-> 0, matched |-> 0, deferred |-> 0,
                            kvDeferred |-> 0, completed |-> 0, cancelled |-> 0]
  OBVIOUS
<1>5. stats \in Statistics
  <2>1. stats = [f \in Fields |-> 0]
    BY <1>4 DEF Fields
  <2>2. 0 \in 0 .. CounterLimit
    BY BatchingAssumption
  <2>3. QED
    BY <2>1, <2>2 DEF Statistics, Fields
<1>6. e = [clock |-> 0, requests |-> [r \in Requests |-> None], arrived |-> {}, kv |-> m,
           stats |-> stats, failed |-> "no"]
  BY <1>1, <1>2, <1>4 DEF Init
<1>7. e \in Engine
  <2>1. 0 \in Time
    BY IntMaxAssumption DEF Time
  <2>2. QED
    BY <1>3, <1>5, <1>6, <2>1 DEF Engine
<1>8. Submitted(e) = {} /\ \A states : InPhase(e, states) = {}
  <2>1. \A r \in Requests : e.requests[r] = None
    BY <1>6
  <2>2. Submitted(e) = {}
    BY <2>1 DEF Submitted
  <2>3. QED
    BY <2>2 DEF InPhase
<1>9. e.kv = m
  BY <1>6
<1>10. Sound(e)
  BY <1>3, <1>8, <1>9, FS_EmptySet DEF Sound
<1>11. EngineInv(e) /\ Holds(e)
  BY <1>3, <1>7, <1>8, <1>9, <1>10 DEF EngineInv, Holds
<1>12. result = "none"
  BY DEF Init
<1>13. QED
  BY <1>1, <1>11, <1>12 DEF BatchingInv, OutcomeIsTrue

\* Every public operation keeps the invariant.
LEMMA StepKeepsInvariant ==
  ASSUME BatchingInv, [Next]_vars
  PROVE  BatchingInv'
<1>1. CASE UNCHANGED vars
  BY <1>1 DEF vars, BatchingInv, OutcomeIsTrue
<1>2. CASE \E r \in Requests, arrival \in ArrivalTimes, prompt \in Prompts, limit \in OutputLimits :
             Submit(r, arrival, prompt, limit)
  <2>1. EngineInv(engine') /\ Holds(engine') /\ result' = "none"
    BY <1>2, SubmitFacts DEF BatchingInv
  <2>2. QED
    BY <2>1 DEF BatchingInv, OutcomeIsTrue
<1>3. CASE \E r \in Requests : Cancel(r)
  <2>1. EngineInv(engine') /\ Holds(engine') /\ result' = "none"
    BY <1>3, CancelFacts DEF BatchingInv
  <2>2. QED
    BY <2>1 DEF BatchingInv, OutcomeIsTrue
<1>4. CASE RunNextIteration
  <2>1. EngineInv(engine) /\ Holds(engine)
    BY DEF BatchingInv
  <2>2. CASE /\ engine' = engine /\ result' = "complete"
             /\ Runnable(engine, Arrivals(engine)) = {} /\ Future(engine, Arrivals(engine)) = {}
    <3>1. Submitted(engine) = InPhase(engine, Terminal)
      BY <2>1, <2>2, CompleteIsTrue
    <3>2. Submitted(engine') = InPhase(engine', Terminal)
      BY <2>2, <3>1
    <3>3. EngineInv(engine') /\ Holds(engine') /\ result' = "complete"
      BY <2>1, <2>2
    <3>4. QED
      BY <3>2, <3>3 DEF BatchingInv, OutcomeIsTrue
  <2>3. CASE Failed(engine, engine') /\ result' = "none"
    <3>1. EngineInv(engine') /\ Holds(engine')
      BY <2>1, <2>3, FailedKeeps
    <3>2. QED
      BY <2>3, <3>1 DEF BatchingInv, OutcomeIsTrue
  <2>4. CASE Slept(engine, engine') /\ result' = "progressed"
    <3>1. EngineInv(engine') /\ Holds(engine')
      BY <2>1, <2>4, SleptKeeps
    <3>2. QED
      BY <2>4, <3>1 DEF BatchingInv, OutcomeIsTrue
  <2>5. CASE \E plan : /\ Ran(engine, plan, engine')
                       /\ result' = IF plan.items = <<>> THEN "stalled" ELSE "progressed"
    <3>1. PICK plan : /\ Ran(engine, plan, engine')
                      /\ result' = IF plan.items = <<>> THEN "stalled" ELSE "progressed"
      BY <2>5
    <3>2. EngineInv(engine') /\ Holds(engine')
      BY <2>1, <3>1, RanKeeps
    <3>3. ASSUME result' = "stalled", InPhase(engine', {"Decoding"}) = {},
                 NEW r \in Runnable(engine', engine'.arrived)
          PROVE  BlocksRequired(Total(engine'.requests[r].prompt)) > NumBlocks
      BY <2>1, <3>1, <3>3, StallIsTrue
    <3>4. ASSUME result' = "stalled", NEW r \in InPhase(engine', {"Decoding"})
          PROVE  /\ engine'.kv.free = {} /\ Cached(engine'.kv) = {}
                 /\ DecodeRequiresNewBlock(engine'.kv, r)
      BY <2>1, <3>1, <3>4, StallIsHeld
    <3>5. result' \in {"none", "progressed", "stalled", "complete"} /\ result' # "complete"
      BY <3>1
    <3>6. QED
      BY <3>2, <3>3, <3>4, <3>5 DEF BatchingInv, OutcomeIsTrue
  <2>6. QED
    BY <1>4, <2>1, <2>2, <2>3, <2>4, <2>5, RunFacts
<1>5. QED
  BY <1>1, <1>2, <1>3, <1>4 DEF Next

\* The inductive invariant: after every submit_request, cancel_request and
\* run_next_iteration the engine has its type, its KV manager is valid, holds exactly the
\* blocks of the decoding requests, and every record fits the phase it is in.
THEOREM InductiveInvariant == Spec => []BatchingInv
<1>1. BatchingInv /\ [Next]_vars => BatchingInv'
  BY StepKeepsInvariant
<1>2. QED
  BY <1>1, InitiallySound, PTL DEF Spec

\* Every public operation leaves an engine of its type: the clock within the largest
\* time, every counter within its limit, whatever clients submit or cancel.
THEOREM TypeCorrect == Spec => []TypeOK
<1>1. BatchingInv => TypeOK
  BY DEF BatchingInv, EngineInv, TypeOK
<1>2. QED
  BY <1>1, InductiveInvariant, PTL

\* The KV manager and the requests agree after every operation: the blocks of a
\* decoding request hold its prompt and the tokens generated, and nobody else holds any,
\* although run_next_iteration plans on one copy of the manager and replays on another.
THEOREM ManagerMatchesProgress == Spec => []KVMatchesProgress
<1>1. BatchingInv => KVMatchesProgress
  BY DEF BatchingInv, EngineInv, Sound, Holds, KVMatchesProgress
<1>2. QED
  BY <1>1, InductiveInvariant, PTL

\* What run_next_iteration reports is so: "complete" only when every request has ended;
\* a stall only when the decoding requests hold all blocks and each needs one more or,
\* without any, when every waiting prompt exceeds the pool, so that prefix blocks that
\* nobody uses never block a request.
THEOREM OutcomesAreTrue == Spec => []OutcomeIsTrue
<1>1. BatchingInv => OutcomeIsTrue
  BY DEF BatchingInv
<1>2. QED
  BY <1>1, InductiveInvariant, PTL

\* The reasons hold when the engine fails, and no operation follows.
LEMMA FailureExplained ==
  ASSUME PromptsAreDistinct, BatchingInv, FailureIsExplained, [Next]_vars
  PROVE  FailureIsExplained'
<1>1. CASE engine' = engine
  BY <1>1 DEF FailureIsExplained
<1>2. CASE engine'.failed = engine.failed /\ Ok(engine)
  BY <1>2 DEF FailureIsExplained, Ok
<1>3. CASE Failed(engine, engine')
  <2>1. /\ engine'.failed \in Causes /\ Trouble(engine, engine'.failed)
        /\ engine'.kv = engine.kv /\ engine'.requests = engine.requests
        /\ InPhase(engine', {"Waiting"}) = InPhase(engine, {"Waiting"})
    BY <1>3, FailedKeeps DEF BatchingInv
  <2>2. engine'.failed = "logic_error" =>
          \E b \in Cached(engine'.kv) : DuplicateHolder(engine'.kv, b)
    BY <2>1 DEF Trouble, NoDuplicates
  <2>3. engine'.failed = "oversized" =>
          \E r \in InPhase(engine', {"Waiting"}) : Total(engine'.requests[r].prompt) > MaxTokens
    BY <2>1 DEF Trouble
  <2>4. QED
    BY <2>1, <2>2, <2>3 DEF FailureIsExplained, Causes
<1>4. CASE Next
  <2>1. EngineInv(engine) /\ Ok(engine)
    BY <1>4 DEF BatchingInv, Next, Submit, Cancel, RunNextIteration
  <2>2. CASE \E r \in Requests, arrival \in ArrivalTimes, prompt \in Prompts, limit \in OutputLimits :
               Submit(r, arrival, prompt, limit)
    BY <1>2, <2>1, <2>2, SubmitFacts
  <2>3. CASE \E r \in Requests : Cancel(r)
    BY <1>2, <2>1, <2>3, CancelFacts
  <2>4. CASE RunNextIteration
    BY <1>1, <1>2, <1>3, <2>1, <2>4, RunFacts, SleptKeeps, RanKeeps
  <2>5. QED
    BY <1>4, <2>2, <2>3, <2>4 DEF Next
<1>5. QED
  BY <1>1, <1>4 DEF vars

\* When run_next_iteration throws, the engine shows why: the plan never conflicts
\* with itself, its replay never differs from the scratch copy, and the checks of
\* prepare_request_updates never fire.  Assumes that no prompt repeats a block key.
THEOREM FailuresExplained ==
  ASSUME PromptsAreDistinct
  PROVE  Spec => []FailureIsExplained
<1>1. Init => FailureIsExplained
  BY DEF Init, FailureIsExplained
<1>2. BatchingInv /\ FailureIsExplained /\ [Next]_vars => FailureIsExplained'
  BY FailureExplained
<1>3. QED
  BY <1>1, <1>2, InductiveInvariant, PTL DEF Spec

-----------------------------------------------------------------------------
(* The statistics account for the requests.                                  *)

\* Who was prefilled, with how long a prompt, and how many tokens since.
PrefilledOf(e) == {r \in Submitted(e) : e.requests[r].admitted # None}
Prompted(e) == [r \in PrefilledOf(e) |-> Total(e.requests[r].prompt)]
Generated(e) == [r \in PrefilledOf(e) |-> e.requests[r].generated]

\* StatisticsAgree, of an engine.
Agree(e) ==
  /\ e.stats.completed = Cardinality(InPhase(e, {"Finished"}))
  /\ e.stats.cancelled = Cardinality(InPhase(e, {"Cancelled"}))
  /\ e.stats.original = SumFunctionOnSet(Prompted(e), PrefilledOf(e))
  /\ e.stats.original = e.stats.prefill + e.stats.matched
  /\ e.stats.decode = SumFunctionOnSet(Generated(e), PrefilledOf(e))
  /\ e.stats.sequences = Cardinality(PrefilledOf(e)) + e.stats.decode
  /\ e.stats.iterations = e.stats.batches + e.stats.idle + e.stats.stalled

\* The property, with its sums over a named set.
LEMMA AgreeIs == StatisticsAgree <=> Agree(engine)
<1>1. DOMAIN Prompted(engine) = PrefilledOf(engine) /\ DOMAIN Generated(engine) = PrefilledOf(engine)
  BY DEF Prompted, Generated
<1>2. /\ SumFunctionOnSet(Prompted(engine), PrefilledOf(engine)) = SumFunction(Prompted(engine))
      /\ SumFunctionOnSet(Generated(engine), PrefilledOf(engine)) = SumFunction(Generated(engine))
  BY <1>1 DEF SumFunction
<1>3. /\ Prompted(engine) = [r \in PrefilledOf(engine) |-> Total(engine.requests[r].prompt)]
      /\ Generated(engine) = [r \in PrefilledOf(engine) |-> engine.requests[r].generated]
  BY DEF Prompted, Generated
<1>4. PrefilledOf(engine) = {r \in Submitted(engine) : engine.requests[r].admitted # None}
  BY DEF PrefilledOf
<1>5. PICK P : P = PrefilledOf(engine)
  OBVIOUS
<1>6. StatisticsAgree <=>
        /\ engine.stats.completed = Cardinality(InPhase(engine, {"Finished"}))
        /\ engine.stats.cancelled = Cardinality(InPhase(engine, {"Cancelled"}))
        /\ engine.stats.original = SumFunction([r \in P |-> Total(engine.requests[r].prompt)])
        /\ engine.stats.original = engine.stats.prefill + engine.stats.matched
        /\ engine.stats.decode = SumFunction([r \in P |-> engine.requests[r].generated])
        /\ engine.stats.sequences = Cardinality(P) + engine.stats.decode
        /\ engine.stats.iterations = engine.stats.batches + engine.stats.idle + engine.stats.stalled
  BY <1>4, <1>5, Zenon DEF StatisticsAgree
<1>7. QED
  BY <1>2, <1>3, <1>5, <1>6 DEF Agree

\* Same phases, admissions, prompts and tokens: the same account.
LEMMA SameAccount ==
  ASSUME NEW e, NEW c, PrefilledOf(c) = PrefilledOf(e),
         \A r \in PrefilledOf(e) : /\ c.requests[r].prompt = e.requests[r].prompt
                                   /\ c.requests[r].generated = e.requests[r].generated
  PROVE  Prompted(c) = Prompted(e) /\ Generated(c) = Generated(e)
BY DEF Prompted, Generated

\* Finitely many requests were prefilled, or are in a phase.
LEMMA PrefilledIsFinite ==
  ASSUME NEW e, EngineInv(e)
  PROVE  /\ IsFiniteSet(PrefilledOf(e)) /\ Cardinality(PrefilledOf(e)) \in Nat
         /\ PrefilledOf(e) \in SUBSET Submitted(e)
         /\ \A states : IsFiniteSet(InPhase(e, states)) /\ Cardinality(InPhase(e, states)) \in Nat
<1>1. PrefilledOf(e) \in SUBSET Submitted(e) /\ \A states : InPhase(e, states) \in SUBSET Submitted(e)
  BY DEF PrefilledOf, InPhase
<1>2. IsFiniteSet(Submitted(e))
  BY DEF EngineInv, Sound
<1>3. QED
  BY <1>1, <1>2, FS_Subset, FS_CardinalityType

\* submit_request changes nothing that is counted.
LEMMA SubmitAgrees ==
  ASSUME BatchingInv, Agree(engine), NEW r \in Requests, NEW arrival \in ArrivalTimes,
         NEW prompt \in Prompts, NEW limit \in OutputLimits, Submit(r, arrival, prompt, limit)
  PROVE  Agree(engine')
<1>1. PICK e, c, q : e = engine /\ c = engine' /\ q = NewRequest(arrival, prompt, limit)
  OBVIOUS
<1>2. /\ EngineInv(e) /\ Replaced(e, c, r, q) /\ q \in Request /\ Lifecycle(q)
      /\ r \notin Submitted(e) /\ c.stats = e.stats
  BY <1>1, SubmitFacts DEF BatchingInv
<1>3. q.state = "Waiting" /\ q.admitted = None
  BY <1>1 DEF NewRequest
<1>4. /\ c.requests[r] = q
      /\ \A s \in Requests \ {r} : c.requests[s] = e.requests[s]
      /\ Submitted(c) = Submitted(e) \cup {r}
      /\ \A states : InPhase(c, states)
                       = (InPhase(e, states) \ {r}) \cup (IF q.state \in states THEN {r} ELSE {})
  BY ONLY <1>2, r \in Requests, OneRequest
<1>5. \A s \in Submitted(e) : c.requests[s] = e.requests[s]
  BY <1>2, <1>4 DEF Submitted
<1>6. PrefilledOf(c) = PrefilledOf(e)
  BY <1>3, <1>4, <1>5 DEF PrefilledOf
<1>7. Prompted(c) = Prompted(e) /\ Generated(c) = Generated(e)
  BY <1>5, <1>6, SameAccount DEF PrefilledOf
<1>8. InPhase(c, {"Finished"}) = InPhase(e, {"Finished"}) /\ InPhase(c, {"Cancelled"}) = InPhase(e, {"Cancelled"})
  <2>1. r \notin InPhase(e, {"Finished"}) /\ r \notin InPhase(e, {"Cancelled"})
    BY <1>2 DEF InPhase
  <2>2. InPhase(c, {"Finished"})
          = (InPhase(e, {"Finished"}) \ {r}) \cup (IF q.state \in {"Finished"} THEN {r} ELSE {})
    BY <1>4
  <2>3. InPhase(c, {"Cancelled"})
          = (InPhase(e, {"Cancelled"}) \ {r}) \cup (IF q.state \in {"Cancelled"} THEN {r} ELSE {})
    BY <1>4
  <2>4. QED
    BY <1>3, <2>1, <2>2, <2>3
<1>9. Agree(e) => Agree(c)
  BY <1>2, <1>6, <1>7, <1>8 DEF Agree
<1>10. QED
  BY <1>1, <1>9

\* cancel_request counts the request, and keeps what it generated.
LEMMA CancelAgrees ==
  ASSUME BatchingInv, Agree(engine), NEW r \in Requests, Cancel(r)
  PROVE  Agree(engine')
<1>1. PICK e, c, q : e = engine /\ c = engine' /\ q = Cancelled(e, r)
  OBVIOUS
<1>2. /\ EngineInv(e) /\ Replaced(e, c, r, q) /\ q \in Request /\ Lifecycle(q)
      /\ r \in InPhase(e, {"Waiting", "Decoding"})
      /\ c.stats = [e.stats EXCEPT !.cancelled = @ + 1]
  BY <1>1, CancelFacts DEF BatchingInv
<1>3. /\ q.state = "Cancelled" /\ q.admitted = e.requests[r].admitted
      /\ q.prompt = e.requests[r].prompt /\ q.generated = e.requests[r].generated
      /\ r \in Submitted(e)
  <2>1. r \in Submitted(e) /\ e.requests[r] \in Request
    BY <1>2 DEF InPhase, EngineInv, Sound
  <2>2. QED
    BY <1>1, <2>1 DEF Cancelled, Request
<1>4. /\ c.requests[r] = q
      /\ \A s \in Requests \ {r} : c.requests[s] = e.requests[s]
      /\ Submitted(c) = Submitted(e) \cup {r}
      /\ \A states : InPhase(c, states)
                       = (InPhase(e, states) \ {r}) \cup (IF q.state \in states THEN {r} ELSE {})
  BY ONLY <1>2, r \in Requests, OneRequest
<1>5. Submitted(c) = Submitted(e) /\ \A s \in Submitted(e) \ {r} : c.requests[s] = e.requests[s]
  BY <1>3, <1>4 DEF Submitted
<1>6. PrefilledOf(c) = PrefilledOf(e)
  BY <1>3, <1>4, <1>5 DEF PrefilledOf
<1>7. Prompted(c) = Prompted(e) /\ Generated(c) = Generated(e)
  <2>1. \A s \in PrefilledOf(e) : /\ c.requests[s].prompt = e.requests[s].prompt
                                  /\ c.requests[s].generated = e.requests[s].generated
    BY <1>3, <1>4, <1>5 DEF PrefilledOf
  <2>2. QED
    BY <1>6, <2>1, SameAccount
<1>8. /\ InPhase(c, {"Finished"}) = InPhase(e, {"Finished"})
      /\ InPhase(c, {"Cancelled"}) = InPhase(e, {"Cancelled"}) \cup {r}
      /\ r \notin InPhase(e, {"Cancelled"})
  <2>1. r \notin InPhase(e, {"Finished"}) /\ r \notin InPhase(e, {"Cancelled"})
    BY <1>2 DEF InPhase
  <2>2. InPhase(c, {"Finished"})
          = (InPhase(e, {"Finished"}) \ {r}) \cup (IF q.state \in {"Finished"} THEN {r} ELSE {})
    BY <1>4
  <2>3. InPhase(c, {"Cancelled"})
          = (InPhase(e, {"Cancelled"}) \ {r}) \cup (IF q.state \in {"Cancelled"} THEN {r} ELSE {})
    BY <1>4
  <2>4. QED
    BY <1>3, <2>1, <2>2, <2>3
<1>9. Cardinality(InPhase(c, {"Cancelled"})) = Cardinality(InPhase(e, {"Cancelled"})) + 1
  BY <1>2, <1>8, PrefilledIsFinite, FS_AddElement
<1>10. /\ \A f \in Fields \ {"cancelled"} : c.stats[f] = e.stats[f]
       /\ c.stats["cancelled"] = e.stats["cancelled"] + 1
  <2>1. e.stats \in Statistics
    BY <1>2 DEF EngineInv, Engine
  <2>2. QED
    BY <1>2, <2>1 DEF Statistics, Fields
<1>11. Agree(e) => Agree(c)
  BY <1>6, <1>7, <1>8, <1>9, <1>10 DEF Agree, Fields
<1>12. QED
  BY <1>1, <1>11

\* The items of an iteration: who is prefilled, who gets a token, who ends.
Parts(e, items, P, D, E) ==
  /\ IsFiniteSet(Range(items)) /\ \A i, j \in Range(items) : i.id = j.id => i = j
  /\ P = PrefillsOf(Range(items)) /\ D = DecodesOf(Range(items))
  /\ E = {i \in Range(items) : Ends(e, i)}

\* The requests that items of S name.
NamedBy(S) == {i.id : i \in S}

\* These parts cover the work, and their items are named by distinct requests.
Divided(e, items, P, D, E) ==
  /\ Parts(e, items, P, D, E)
  /\ IsFiniteSet(P) /\ IsFiniteSet(D) /\ IsFiniteSet(E)
  /\ Cardinality(P) \in Nat /\ Cardinality(D) \in Nat /\ Cardinality(E) \in Nat
  /\ Cardinality(Range(items)) = Cardinality(P) + Cardinality(D)
  /\ IdsOf(items) = NamedBy(P) \cup NamedBy(D) /\ Ended(e, items) = NamedBy(E)
  /\ NamedBy(P) \cap NamedBy(D) = {}
  /\ Cardinality(NamedBy(P)) = Cardinality(P) /\ IsFiniteSet(NamedBy(P))
  /\ Cardinality(NamedBy(D)) = Cardinality(D) /\ IsFiniteSet(NamedBy(D))
  /\ Cardinality(NamedBy(E)) = Cardinality(E) /\ IsFiniteSet(NamedBy(E))

\* Every work has such parts, and their items are named by distinct requests.
LEMMA PartsOfWork ==
  ASSUME NEW e, NEW arrivals, NEW work, Workload(e, arrivals, work)
  PROVE  \E P, D, E : Divided(e, work.items, P, D, E)
<1>1. PICK items \in Seq(WorkItem) : items = work.items /\ Once(items)
  BY DEF Workload
<1>2. PICK P, D, E, S : /\ S = Range(items) /\ P = PrefillsOf(S) /\ D = DecodesOf(S)
                        /\ E = {i \in S : Ends(e, i)}
  OBVIOUS
<1>3. \A i, j \in S : i.id = j.id => i = j
  BY <1>1, <1>2 DEF Once, Range
<1>4. P \in SUBSET S /\ D \in SUBSET S /\ E \in SUBSET S /\ S = P \cup D /\ P \cap D = {}
  BY <1>2 DEF PrefillsOf, DecodesOf
<1>5. IsFiniteSet(S) /\ \A T \in SUBSET S : IsFiniteSet(T) /\ Cardinality(T) \in Nat
  BY <1>2, WorkIsFinite
<1>6. Cardinality(S) = Cardinality(P) + Cardinality(D)
  <2>1. Cardinality(P \cup D) = Cardinality(P) + Cardinality(D) - Cardinality(P \cap D)
    BY <1>4, <1>5, FS_Union
  <2>2. Cardinality(P \cap D) = 0 /\ Cardinality(P) \in Nat /\ Cardinality(D) \in Nat
    BY <1>4, <1>5, FS_EmptySet
  <2>3. Cardinality(P \cup D) = Cardinality(P) + Cardinality(D)
    BY <2>1, <2>2
  <2>4. QED
    BY <1>4, <2>3
<1>7. ASSUME NEW T \in SUBSET S
      PROVE  IsFiniteSet(NamedBy(T)) /\ Cardinality(NamedBy(T)) = Cardinality(T)
  <2>1. PICK k, z : k = [i \in T |-> i.id] /\ z = [i \in T |-> 0]
    OBVIOUS
  <2>2. PICK g : g = [r \in {k[x] : x \in T} |-> 0]
    OBVIOUS
  <2>3. \A x, y \in T : k[x] = k[y] => x = y
    BY <1>3, <2>1
  <2>4. \A x \in T : z[x] \in Int /\ z[x] = g[k[x]]
    BY <2>1, <2>2
  <2>5. /\ SumFunctionOnSet(z, T) = SumFunctionOnSet(g, {k[x] : x \in T})
        /\ IsFiniteSet({k[x] : x \in T}) /\ Cardinality({k[x] : x \in T}) = Cardinality(T)
    <3>1. IsFiniteSet(T)
      BY <1>5
    <3>2. QED
      BY ONLY <2>3, <2>4, <3>1, SumOfImage, SMTT(30)
  <2>6. {k[x] : x \in T} = NamedBy(T)
    BY <2>1 DEF NamedBy
  <2>7. QED
    BY <2>5, <2>6
<1>8. /\ IdsOf(items) = NamedBy(P) \cup NamedBy(D) /\ Ended(e, items) = NamedBy(E)
      /\ NamedBy(P) \cap NamedBy(D) = {}
  <2>1. IdsOf(items) = NamedBy(P) \cup NamedBy(D)
    <3>1. IdsOf(items) = NamedBy(S)
      BY <1>2 DEF IdsOf, NamedBy
    <3>2. NamedBy(P \cup D) = NamedBy(P) \cup NamedBy(D)
      BY DEF NamedBy
    <3>3. S = P \cup D
      BY <1>4
    <3>4. QED
      BY <3>1, <3>2, <3>3
  <2>2. Ended(e, items) = NamedBy(E)
    BY <1>2 DEF Ended, NamedBy
  <2>3. NamedBy(P) \cap NamedBy(D) = {}
    <3>1. ASSUME NEW i \in P, NEW j \in D, i.id = j.id
          PROVE  FALSE
      BY <1>3, <1>4, <3>1
    <3>2. QED
      BY <3>1 DEF NamedBy
  <2>4. QED
    BY <2>1, <2>2, <2>3
<1>9. Parts(e, items, P, D, E)
  BY <1>2, <1>3, <1>5 DEF Parts
<1>10. E \in SUBSET S
  BY <1>2
<1>11. Divided(e, items, P, D, E)
  BY <1>2, <1>4, <1>5, <1>6, <1>7, <1>8, <1>9, <1>10 DEF Divided
<1>12. QED
  BY <1>1, <1>11

\* Who is prefilled after an iteration, and how far everybody is.
NowPrefilled(e, c, P, D) ==
  /\ PrefilledOf(c) = PrefilledOf(e) \cup NamedBy(P)
  /\ PrefilledOf(e) \cap NamedBy(P) = {} /\ NamedBy(D) \in SUBSET PrefilledOf(e)
  /\ \A r \in PrefilledOf(c) : c.requests[r].prompt = e.requests[r].prompt
  /\ \A r \in NamedBy(P) : c.requests[r].generated = 0
  /\ \A r \in PrefilledOf(e) :
       c.requests[r].generated
         = e.requests[r].generated + (IF r \in NamedBy(D) THEN 1 ELSE 0)

\* An iteration prefills those of P, and gives a token to those of D.
LEMMA AdvancedProgress ==
  ASSUME NEW e, EngineInv(e), NEW arrivals, NEW work, Workload(e, arrivals, work),
         NEW end, NEW c, Advanced(e, arrivals, work, end, c),
         NEW P, NEW D, NEW E, Parts(e, work.items, P, D, E)
  PROVE  NowPrefilled(e, c, P, D)
<1>1. PICK S : S = Range(work.items)
  OBVIOUS
<1>2. /\ \A i \in S : i \in P <=> i.prefill
      /\ \A i \in S : i \in D <=> ~i.prefill
      /\ P \in SUBSET S /\ D \in SUBSET S /\ \A i, j \in S : i.id = j.id => i = j
  BY <1>1 DEF Parts, PrefillsOf, DecodesOf
<1>3. /\ \A r \in Requests \ IdsOf(work.items) : c.requests[r] = e.requests[r]
      /\ \A i \in S : Worked(e, i, c.requests[i.id])
  BY <1>1, AdvancedRequests
<1>4. \A i \in S : /\ i.id \in InPhase(e, {"Waiting", "Decoding"}) /\ i.prefill = IsWaiting(e, i.id)
                   /\ i.id \in IdsOf(work.items)
  BY <1>1 DEF Workload, IdsOf
<1>5. \A r \in IdsOf(work.items) : \E i \in S : i.id = r
  BY <1>1 DEF IdsOf
<1>6. Submitted(c) = Submitted(e)
  BY AdvancedPhases
<1>7. \A i \in S : i.id \in Submitted(e) /\ Lifecycle(e.requests[i.id])
  BY <1>4 DEF InPhase, EngineInv
<1>8. \A i \in P : /\ i.id \in Submitted(e) /\ e.requests[i.id].admitted = None
                   /\ c.requests[i.id].admitted # None /\ c.requests[i.id].generated = 0
  <2>1. ASSUME NEW i \in P
        PROVE  /\ i.id \in Submitted(e) /\ e.requests[i.id].admitted = None
               /\ c.requests[i.id].admitted # None /\ c.requests[i.id].generated = 0
    <3>1. i \in S /\ i.prefill
      BY <1>2
    <3>2. e.requests[i.id].admitted = None
      BY <1>4, <1>7, <3>1 DEF Lifecycle, IsWaiting
    <3>3. QED
      BY <1>3, <1>7, <3>1, <3>2 DEF Worked
  <2>2. QED
    BY <2>1
<1>9. \A i \in D : /\ i.id \in Submitted(e) /\ e.requests[i.id].admitted # None
                   /\ c.requests[i.id].admitted # None
                   /\ c.requests[i.id].generated = e.requests[i.id].generated + 1
  <2>1. ASSUME NEW i \in D
        PROVE  /\ i.id \in Submitted(e) /\ e.requests[i.id].admitted # None
               /\ c.requests[i.id].admitted # None
               /\ c.requests[i.id].generated = e.requests[i.id].generated + 1
    <3>1. i \in S /\ ~i.prefill
      BY <1>2
    <3>2. e.requests[i.id].state = "Decoding"
      BY <1>4, <3>1 DEF InPhase, IsWaiting
    <3>3. QED
      BY <1>3, <1>7, <3>1, <3>2 DEF Worked, Lifecycle
  <2>2. QED
    BY <2>1
<1>10. \A i \in S : c.requests[i.id].prompt = e.requests[i.id].prompt
  BY <1>3 DEF Worked
<1>11. \A r \in Submitted(e) : \/ c.requests[r] = e.requests[r] /\ r \notin NamedBy(P) /\ r \notin NamedBy(D)
                               \/ \E i \in P : i.id = r
                               \/ \E i \in D : i.id = r
  <2>1. \A i \in S : i \in P \/ i \in D
    BY <1>2
  <2>2. ASSUME NEW r \in Submitted(e), r \notin IdsOf(work.items)
        PROVE  c.requests[r] = e.requests[r] /\ r \notin NamedBy(P) /\ r \notin NamedBy(D)
    <3>1. c.requests[r] = e.requests[r]
      BY <1>3, <2>2 DEF Submitted
    <3>2. r \notin NamedBy(P) /\ r \notin NamedBy(D)
      BY <1>2, <1>4, <2>2 DEF NamedBy
    <3>3. QED
      BY <3>1, <3>2
  <2>3. QED
    BY <1>5, <2>1, <2>2
<1>12. PrefilledOf(c) = PrefilledOf(e) \cup NamedBy(P)
  <2>1. \A r \in NamedBy(P) : r \in Submitted(e) /\ c.requests[r].admitted # None
    BY <1>8 DEF NamedBy
  <2>2. \A r \in PrefilledOf(e) : r \in Submitted(e) /\ e.requests[r].admitted # None
    BY DEF PrefilledOf
  <2>3. \A r \in PrefilledOf(e) : c.requests[r].admitted # None
    BY <1>8, <1>9, <1>11, <2>2
  <2>4. ASSUME NEW r \in PrefilledOf(c), r \notin NamedBy(P)
        PROVE  r \in PrefilledOf(e)
    <3>1. r \in Submitted(e) /\ c.requests[r].admitted # None
      BY <1>6 DEF PrefilledOf
    <3>2. e.requests[r].admitted # None
      BY <1>9, <1>11, <2>4, <3>1 DEF NamedBy
    <3>3. QED
      BY <3>1, <3>2 DEF PrefilledOf
  <2>5. PrefilledOf(e) \cup NamedBy(P) \subseteq PrefilledOf(c)
    BY <1>6, <2>1, <2>2, <2>3 DEF PrefilledOf
  <2>6. QED
    BY <2>4, <2>5
<1>13. PrefilledOf(e) \cap NamedBy(P) = {} /\ NamedBy(D) \in SUBSET PrefilledOf(e)
  BY <1>8, <1>9 DEF NamedBy, PrefilledOf
<1>14. \A r \in PrefilledOf(c) : c.requests[r].prompt = e.requests[r].prompt
  <2>1. ASSUME NEW r \in PrefilledOf(c)
        PROVE  c.requests[r].prompt = e.requests[r].prompt
    <3>1. r \in Submitted(e)
      BY <1>6 DEF PrefilledOf
    <3>2. QED
      BY <1>2, <1>10, <1>11, <3>1
  <2>2. QED
    BY <2>1
<1>15. \A r \in NamedBy(P) : c.requests[r].generated = 0
  BY <1>8 DEF NamedBy
<1>16. \A r \in PrefilledOf(e) :
         c.requests[r].generated = e.requests[r].generated + (IF r \in NamedBy(D) THEN 1 ELSE 0)
  <2>1. ASSUME NEW r \in PrefilledOf(e)
        PROVE  c.requests[r].generated = e.requests[r].generated + (IF r \in NamedBy(D) THEN 1 ELSE 0)
    <3>1. r \in Submitted(e) /\ r \notin NamedBy(P)
      BY <1>13 DEF PrefilledOf
    <3>2. CASE \E i \in D : i.id = r
      BY <1>9, <3>2 DEF NamedBy
    <3>3. CASE ~\E i \in D : i.id = r
      <4>1. c.requests[r] = e.requests[r] /\ r \notin NamedBy(D)
        BY <1>11, <3>1, <3>3 DEF NamedBy
      <4>2. e.requests[r].generated \in Nat
        BY <3>1, RequestTypes DEF EngineInv
      <4>3. QED
        BY <4>1, <4>2
    <3>4. QED
      BY <3>2, <3>3
  <2>2. QED
    BY <2>1
<1>17. QED
  BY <1>12, <1>13, <1>14, <1>15, <1>16 DEF NowPrefilled

\* A sum over two parts: the old summands, and new ones.
LEMMA SumGrows ==
  ASSUME NEW f, NEW g, NEW A, IsFiniteSet(A), NEW B, IsFiniteSet(B), A \cap B = {},
         \A x \in A : f[x] \in Int /\ g[x] = f[x], \A x \in B : g[x] \in Int
  PROVE  SumFunctionOnSet(g, A \cup B) = SumFunctionOnSet(f, A) + SumFunctionOnSet(g, B)
<1>1. \A x \in A \cup B : g[x] \in Int
  OBVIOUS
<1>2. SumFunctionOnSet(g, A \cup B) = SumFunctionOnSet(g, A) + SumFunctionOnSet(g, B)
  BY <1>1, SumUnion
<1>3. SumFunctionOnSet(g, A) = SumFunctionOnSet(f, A)
  BY SumAgree
<1>4. QED
  BY <1>2, <1>3

\* One for each member of T.
LEMMA SumOfMembers ==
  ASSUME NEW S, IsFiniteSet(S), NEW T \in SUBSET S, NEW h,
         \A x \in T : h[x] = 1, \A x \in S \ T : h[x] = 0
  PROVE  SumFunctionOnSet(h, S) = Cardinality(T)
<1>1. IsFiniteSet(T) /\ IsFiniteSet(S \ T) /\ Cardinality(T) \in Nat
  BY FS_Subset, FS_CardinalityType
<1>2. SumFunctionOnSet(h, T) = Cardinality(T)
  BY <1>1, SumOfOnes
<1>3. SumFunctionOnSet(h, S \ T) = 0
  BY <1>1, ZeroSum
<1>4. T \cap (S \ T) = {} /\ S = T \cup (S \ T)
  OBVIOUS
<1>5. \A x \in T \cup (S \ T) : h[x] \in Int
  OBVIOUS
<1>6. SumFunctionOnSet(h, T \cup (S \ T)) = SumFunctionOnSet(h, T) + SumFunctionOnSet(h, S \ T)
  BY <1>1, <1>4, <1>5, SumUnion
<1>7. QED
  BY <1>1, <1>2, <1>3, <1>4, <1>6

\* The prompts of the requests prefilled now.
LEMMA PromptsCounted ==
  ASSUME NEW e, EngineInv(e), NEW arrivals, NEW work, Workload(e, arrivals, work),
         NEW end, NEW c, Advanced(e, arrivals, work, end, c),
         NEW P, NEW D, NEW E, Parts(e, work.items, P, D, E), IsFiniteSet(P),
         IsFiniteSet(NamedBy(P))
  PROVE  SumFunctionOnSet(Prompted(c), PrefilledOf(c))
           = SumFunctionOnSet(Prompted(e), PrefilledOf(e)) + OriginalTokens(e, P)
<1>1. /\ PrefilledOf(c) = PrefilledOf(e) \cup NamedBy(P)
      /\ PrefilledOf(e) \cap NamedBy(P) = {}
      /\ \A r \in PrefilledOf(c) : c.requests[r].prompt = e.requests[r].prompt
  <2>1. NowPrefilled(e, c, P, D)
    BY AdvancedProgress
  <2>2. QED
    BY ONLY <2>1 DEF NowPrefilled
<1>2. \A r \in PrefilledOf(c) : Total(e.requests[r].prompt) \in Nat
  <2>1. \A r \in PrefilledOf(c) : r \in Submitted(e)
    <3>1. Submitted(c) = Submitted(e)
      BY AdvancedPhases
    <3>2. QED
      BY <3>1 DEF PrefilledOf
  <2>2. QED
    BY <2>1, RequestTypes DEF EngineInv
<1>3. PICK A, B : A = PrefilledOf(e) /\ B = NamedBy(P)
  OBVIOUS
<1>4. PICK f, g : f = Prompted(e) /\ g = Prompted(c)
  OBVIOUS
<1>5. \A r \in A : f[r] \in Int /\ g[r] = f[r]
  <2>1. ASSUME NEW r \in A
        PROVE  f[r] \in Int /\ g[r] = f[r]
    <3>1. r \in PrefilledOf(e) /\ r \in PrefilledOf(c)
      BY <1>1, <1>3
    <3>2. f[r] = Total(e.requests[r].prompt) /\ g[r] = Total(c.requests[r].prompt)
      BY <1>4, <3>1 DEF Prompted
    <3>3. QED
      BY <1>1, <1>2, <3>1, <3>2
  <2>2. QED
    BY <2>1
<1>6. \A r \in B : g[r] \in Int /\ g[r] = Total(e.requests[r].prompt)
  <2>1. ASSUME NEW r \in B
        PROVE  g[r] \in Int /\ g[r] = Total(e.requests[r].prompt)
    <3>1. r \in PrefilledOf(c)
      BY <1>1, <1>3
    <3>2. g[r] = Total(c.requests[r].prompt)
      BY <1>4, <3>1 DEF Prompted
    <3>3. QED
      BY <1>1, <1>2, <3>1, <3>2
  <2>2. QED
    BY <2>1
<1>7. IsFiniteSet(A) /\ IsFiniteSet(B) /\ A \cap B = {}
  BY <1>1, <1>3, PrefilledIsFinite
<1>8. SumFunctionOnSet(g, A \cup B) = SumFunctionOnSet(f, A) + SumFunctionOnSet(g, B)
  BY ONLY <1>5, <1>6, <1>7, SumGrows
<1>9. SumFunctionOnSet(g, B) = OriginalTokens(e, P)
  <2>1. PICK k, w : k = [i \in P |-> i.id] /\ w = [i \in P |-> Total(e.requests[i.id].prompt)]
    OBVIOUS
  <2>2. B = {k[i] : i \in P}
    BY <1>3, <2>1 DEF NamedBy
  <2>3. \A i, j \in P : k[i] = k[j] => i = j
    BY <2>1 DEF Parts, PrefillsOf
  <2>4. \A i \in P : w[i] \in Int /\ w[i] = g[k[i]]
    BY <1>6, <2>1, <2>2
  <2>5. SumFunctionOnSet(w, P) = SumFunctionOnSet(g, {k[i] : i \in P})
    BY ONLY <2>3, <2>4, IsFiniteSet(P), SumOfImage
  <2>6. SumFunctionOnSet(w, P) = OriginalTokens(e, P)
    <3>1. DOMAIN w = P
      BY <2>1
    <3>2. QED
      BY <2>1, <3>1 DEF OriginalTokens, SumFunction
  <2>7. QED
    BY <2>2, <2>5, <2>6
<1>10. QED
  BY <1>1, <1>3, <1>4, <1>8, <1>9

\* A prompt is either computed or found in the cache.
LEMMA PromptsSplit ==
  ASSUME NEW e, EngineInv(e), NEW arrivals, NEW work, Workload(e, arrivals, work),
         NEW P, NEW D, NEW E, Parts(e, work.items, P, D, E), IsFiniteSet(P)
  PROVE  OriginalTokens(e, P) = SumFunction([i \in P |-> i.cost])
                                  + SumFunction([i \in P |-> Len(i.matched) * BlockSize])
<1>1. \A i \in P : /\ Total(e.requests[i.id].prompt) \in Int /\ i.cost \in Int
                   /\ Len(i.matched) * BlockSize \in Int
                   /\ Total(e.requests[i.id].prompt) = i.cost + Len(i.matched) * BlockSize
  <2>1. ASSUME NEW i \in P
        PROVE  /\ Total(e.requests[i.id].prompt) \in Int /\ i.cost \in Int
               /\ Len(i.matched) * BlockSize \in Int
               /\ Total(e.requests[i.id].prompt) = i.cost + Len(i.matched) * BlockSize
    <3>1. i \in Range(work.items) /\ i.prefill
      BY DEF Parts, PrefillsOf
    <3>2. i \in WorkItem
      <4>1. PICK items \in Seq(WorkItem) : items = work.items
        BY DEF Workload
      <4>2. i \in Range(items)
        BY <3>1, <4>1
      <4>3. QED
        BY <4>2 DEF Range
    <3>3. PICK matched \in Seq(Block) : matched = i.matched
      BY <3>2 DEF WorkItem
    <3>4. Len(matched) * BlockSize \in Int
      BY KVAssumption
    <3>5. i.id \in Submitted(e) /\ i.cost = Suffix(e.requests[i.id].prompt, i.matched)
      BY <3>1 DEF Workload, InPhase
    <3>6. PICK t \in Nat : t = Total(e.requests[i.id].prompt)
      BY <3>5, RequestTypes DEF EngineInv
    <3>7. PICK n \in Int : n = Len(matched) * BlockSize
      BY <3>4
    <3>8. i.cost = t - n
      BY <3>3, <3>5, <3>6, <3>7 DEF Suffix
    <3>9. QED
      BY <3>3, <3>6, <3>7, <3>8
  <2>2. QED
    BY <2>1
<1>2. PICK f, g, h : /\ f = [i \in P |-> i.cost] /\ g = [i \in P |-> Len(i.matched) * BlockSize]
                     /\ h = [i \in P |-> Total(e.requests[i.id].prompt)]
  OBVIOUS
<1>3. \A i \in P : f[i] \in Int /\ g[i] \in Int /\ h[i] = f[i] + g[i]
  BY <1>1, <1>2
<1>4. SumFunctionOnSet(h, P) = SumFunctionOnSet(f, P) + SumFunctionOnSet(g, P)
  BY ONLY <1>3, IsFiniteSet(P), SumOfSums
<1>5. DOMAIN f = P /\ DOMAIN g = P /\ DOMAIN h = P
  BY <1>2
<1>6. QED
  BY <1>2, <1>4, <1>5 DEF OriginalTokens, SumFunction

\* A token for each decoding request of the work.
LEMMA TokensCounted ==
  ASSUME NEW e, EngineInv(e), NEW arrivals, NEW work, Workload(e, arrivals, work),
         NEW end, NEW c, Advanced(e, arrivals, work, end, c),
         NEW P, NEW D, NEW E, Parts(e, work.items, P, D, E), IsFiniteSet(NamedBy(P))
  PROVE  SumFunctionOnSet(Generated(c), PrefilledOf(c))
           = SumFunctionOnSet(Generated(e), PrefilledOf(e)) + Cardinality(NamedBy(D))
<1>1. /\ PrefilledOf(c) = PrefilledOf(e) \cup NamedBy(P)
      /\ PrefilledOf(e) \cap NamedBy(P) = {} /\ NamedBy(D) \in SUBSET PrefilledOf(e)
      /\ \A r \in NamedBy(P) : c.requests[r].generated = 0
      /\ \A r \in PrefilledOf(e) :
           c.requests[r].generated
             = e.requests[r].generated + (IF r \in NamedBy(D) THEN 1 ELSE 0)
  <2>1. NowPrefilled(e, c, P, D)
    BY AdvancedProgress
  <2>2. QED
    BY ONLY <2>1 DEF NowPrefilled
<1>2. PICK A, B, T : A = PrefilledOf(e) /\ B = NamedBy(P) /\ T = NamedBy(D)
  OBVIOUS
<1>3. PICK f, g, h : /\ f = Generated(e) /\ g = Generated(c)
                     /\ h = [r \in A |-> IF r \in T THEN 1 ELSE 0]
  OBVIOUS
<1>4. \A r \in A : e.requests[r].generated \in Nat
  BY <1>2, PrefilledIsFinite, RequestTypes DEF EngineInv
<1>5. \A r \in A : f[r] \in Int /\ h[r] \in Int /\ g[r] = f[r] + h[r]
  BY <1>1, <1>2, <1>3, <1>4 DEF Generated
<1>6. \A r \in B : g[r] = 0
  BY <1>1, <1>2, <1>3 DEF Generated
<1>7. IsFiniteSet(A) /\ IsFiniteSet(B) /\ A \cap B = {} /\ T \in SUBSET A
  BY <1>1, <1>2, PrefilledIsFinite
<1>8. SumFunctionOnSet(g, A) = SumFunctionOnSet(f, A) + SumFunctionOnSet(h, A)
  BY ONLY <1>5, <1>7, SumOfSums
<1>9. SumFunctionOnSet(h, A) = Cardinality(T)
  <2>1. (\A r \in T : h[r] = 1) /\ (\A r \in A \ T : h[r] = 0)
    BY <1>3, <1>7
  <2>2. QED
    BY ONLY <1>7, <2>1, SumOfMembers
<1>10. SumFunctionOnSet(g, B) = 0
  BY ONLY <1>6, <1>7, ZeroSum
<1>11. SumFunctionOnSet(g, A) \in Int /\ SumFunctionOnSet(g, A \cup B)
          = SumFunctionOnSet(g, A) + SumFunctionOnSet(g, B)
  <2>1. \A r \in A \cup B : g[r] \in Int
    BY <1>5, <1>6
  <2>2. QED
    BY ONLY <1>7, <2>1, SumUnion
<1>12. SumFunctionOnSet(g, A \cup B) = SumFunctionOnSet(f, A) + Cardinality(T)
  BY <1>8, <1>9, <1>10, <1>11
<1>13. QED
  BY <1>1, <1>2, <1>3, <1>12

\* The counters after an iteration, field by field.
LEMMA AdvancedStatistics ==
  ASSUME NEW e, EngineInv(e), NEW arrivals, NEW work, Workload(e, arrivals, work),
         NEW end, NEW c, Advanced(e, arrivals, work, end, c),
         NEW P, NEW D, NEW E, Parts(e, work.items, P, D, E)
  PROVE  /\ c.stats.iterations = e.stats.iterations + 1
         /\ c.stats.batches + c.stats.idle + c.stats.stalled
              = e.stats.batches + e.stats.idle + e.stats.stalled + 1
         /\ c.stats.prefill = e.stats.prefill + SumFunction([i \in P |-> i.cost])
         /\ c.stats.matched = e.stats.matched
                                + SumFunction([i \in P |-> Len(i.matched) * BlockSize])
         /\ c.stats.original = e.stats.original + OriginalTokens(e, P)
         /\ c.stats.decode = e.stats.decode + Cardinality(D)
         /\ c.stats.sequences = e.stats.sequences + Cardinality(Range(work.items))
         /\ c.stats.completed = e.stats.completed + Cardinality(E)
         /\ c.stats.cancelled = e.stats.cancelled + 0
         /\ \A f \in Fields : e.stats[f] \in Nat /\ MoreOf(e, work)[f] \in Nat
<1>1. PICK more : more = MoreOf(e, work)
  OBVIOUS
<1>2. PICK es, cs : es = e.stats /\ cs = c.stats
  OBVIOUS
<1>3. \A f \in Fields : cs[f] = es[f] + more[f]
  <2>1. c.stats = Counted(e, work)
    BY DEF Advanced
  <2>2. QED
    BY <1>1, <1>2, <2>1, CountedIs
<1>4. \A f \in Fields : es[f] \in Nat /\ more[f] \in Nat
  <2>1. e.stats \in Statistics
    BY DEF EngineInv, Engine
  <2>2. \A f \in Fields : es[f] \in Nat
    <3>1. Statistics = [Fields -> 0 .. CounterLimit]
      BY DEF Statistics, Fields
    <3>2. CounterLimit \in Nat
      BY BatchingAssumption
    <3>3. QED
      BY <1>2, <2>1, <3>1, <3>2
  <2>3. QED
    BY <1>1, <2>2, MoreIsNatural DEF EngineInv
<1>5. P = PrefillsOf(Range(work.items)) /\ D = DecodesOf(Range(work.items))
      /\ E = {i \in Range(work.items) : Ends(e, i)}
  BY DEF Parts
<1>6. /\ more.iterations = 1
      /\ more.batches = One(work.items # <<>>)
      /\ more.idle = One(work.items = <<>> /\ work.deferred = <<>>)
      /\ more.stalled = One(work.items = <<>> /\ work.deferred # <<>>)
      /\ more.prefill = SumFunction([i \in P |-> i.cost])
      /\ more.decode = Cardinality(D) /\ more.sequences = Cardinality(Range(work.items))
      /\ more.original = OriginalTokens(e, P)
      /\ more.matched = SumFunction([i \in P |-> Len(i.matched) * BlockSize])
      /\ more.completed = Cardinality(E) /\ more.cancelled = 0
  BY <1>1, <1>5, Zenon DEF MoreOf
<1>7. more.batches + more.idle + more.stalled = 1
  BY <1>6 DEF One
<1>8. cs.batches + cs.idle + cs.stalled = es.batches + es.idle + es.stalled + 1
  <2>1. PICK a \in Nat, b \in Nat, d \in Nat : a = es.batches /\ b = es.idle /\ d = es.stalled
    BY <1>4 DEF Fields
  <2>2. PICK j \in Nat, k \in Nat, n \in Nat : j = more.batches /\ k = more.idle /\ n = more.stalled
    BY <1>4 DEF Fields
  <2>3. cs.batches = a + j /\ cs.idle = b + k /\ cs.stalled = d + n
    BY <1>3, <2>1, <2>2 DEF Fields
  <2>4. j + k + n = 1
    BY <1>7, <2>2
  <2>5. (a + j) + (b + k) + (d + n) = a + b + d + 1
    BY <2>4
  <2>6. QED
    BY <2>1, <2>3, <2>5
<1>9. QED
  BY <1>1, <1>2, <1>3, <1>4, <1>6, <1>8 DEF Fields

\* An iteration keeps the account.
LEMMA AdvancedAgrees ==
  ASSUME NEW e, EngineInv(e), Agree(e), NEW arrivals, NEW work, Workload(e, arrivals, work),
         NEW end, NEW c, Advanced(e, arrivals, work, end, c)
  PROVE  Agree(c)
<1>1. PICK P, D, E : Divided(e, work.items, P, D, E)
  BY PartsOfWork
<1>2. Parts(e, work.items, P, D, E) /\ IsFiniteSet(P) /\ IsFiniteSet(NamedBy(P))
  BY <1>1 DEF Divided
<1>3. PICK es, cs : es = e.stats /\ cs = c.stats
  OBVIOUS
<1>4. PICK cost, found, prompts, p, d, n :
        /\ cost = SumFunction([i \in P |-> i.cost])
        /\ found = SumFunction([i \in P |-> Len(i.matched) * BlockSize])
        /\ prompts = OriginalTokens(e, P)
        /\ p = Cardinality(P) /\ d = Cardinality(D) /\ n = Cardinality(E)
  OBVIOUS
<1>5. /\ cs.iterations = es.iterations + 1
      /\ cs.batches + cs.idle + cs.stalled = es.batches + es.idle + es.stalled + 1
      /\ cs.prefill = es.prefill + cost /\ cs.matched = es.matched + found
      /\ cs.original = es.original + prompts /\ cs.decode = es.decode + d
      /\ cs.sequences = es.sequences + Cardinality(Range(work.items))
      /\ cs.completed = es.completed + n /\ cs.cancelled = es.cancelled + 0
      /\ \A f \in Fields : es[f] \in Nat /\ MoreOf(e, work)[f] \in Nat
  BY ONLY EngineInv(e), Workload(e, arrivals, work), Advanced(e, arrivals, work, end, c),
          <1>2, <1>3, <1>4, AdvancedStatistics
<1>6. p \in Nat /\ d \in Nat /\ n \in Nat
      /\ Cardinality(Range(work.items)) = p + d /\ Cardinality(NamedBy(D)) = d
      /\ Cardinality(NamedBy(P)) = p /\ Cardinality(NamedBy(E)) = n
  BY <1>1, <1>4 DEF Divided
<1>7. /\ es.completed \in Nat /\ es.cancelled \in Nat /\ es.original \in Nat
      /\ es.prefill \in Nat /\ es.matched \in Nat /\ es.decode \in Nat /\ es.sequences \in Nat
      /\ es.iterations \in Nat
  BY <1>5 DEF Fields
<1>8. cost \in Nat /\ found \in Nat /\ prompts \in Nat
  <2>1. P = PrefillsOf(Range(work.items))
    BY <1>2 DEF Parts
  <2>2. MoreOf(e, work).prefill = cost /\ MoreOf(e, work).matched = found
        /\ MoreOf(e, work).original = prompts
    BY <1>4, <2>1, Zenon DEF MoreOf
  <2>3. QED
    BY <1>5, <2>2 DEF Fields
<1>9. Cardinality(InPhase(c, {"Finished"})) = es.completed + n
  <2>1. PICK A, B : A = InPhase(e, {"Finished"}) /\ B = Ended(e, work.items)
    OBVIOUS
  <2>2. InPhase(c, {"Finished"}) = A \cup B /\ A \cap B = {}
    BY <2>1, AdvancedPhases
  <2>3. IsFiniteSet(A) /\ Cardinality(A) \in Nat
    BY <2>1, PrefilledIsFinite
  <2>4. IsFiniteSet(B) /\ Cardinality(B) = n
    BY <1>1, <1>6, <2>1 DEF Divided
  <2>5. Cardinality(A \cup B) = Cardinality(A) + Cardinality(B) - Cardinality(A \cap B)
    BY <2>3, <2>4, FS_Union
  <2>6. Cardinality(A \cap B) = 0
    BY <2>2, FS_EmptySet
  <2>7. es.completed = Cardinality(A)
    BY <1>3, <2>1 DEF Agree
  <2>8. Cardinality(A \cup B) = es.completed + n
    BY <1>6, <2>3, <2>4, <2>5, <2>6, <2>7
  <2>9. QED
    BY <2>2, <2>8
<1>10. InPhase(c, {"Cancelled"}) = InPhase(e, {"Cancelled"})
  BY AdvancedPhases
<1>11. SumFunctionOnSet(Prompted(c), PrefilledOf(c)) = es.original + prompts
  <2>1. SumFunctionOnSet(Prompted(c), PrefilledOf(c))
          = SumFunctionOnSet(Prompted(e), PrefilledOf(e)) + OriginalTokens(e, P)
    BY <1>2, PromptsCounted
  <2>2. es.original = SumFunctionOnSet(Prompted(e), PrefilledOf(e))
    BY <1>3 DEF Agree
  <2>3. QED
    BY <1>4, <2>1, <2>2
<1>12. prompts = cost + found
  BY <1>2, <1>4, PromptsSplit
<1>13. SumFunctionOnSet(Generated(c), PrefilledOf(c)) = es.decode + d
  <2>1. SumFunctionOnSet(Generated(c), PrefilledOf(c))
          = SumFunctionOnSet(Generated(e), PrefilledOf(e)) + Cardinality(NamedBy(D))
    BY <1>2, TokensCounted
  <2>2. es.decode = SumFunctionOnSet(Generated(e), PrefilledOf(e))
    BY <1>3 DEF Agree
  <2>3. QED
    BY <1>6, <2>1, <2>2
<1>14. Cardinality(PrefilledOf(c)) = Cardinality(PrefilledOf(e)) + p
       /\ Cardinality(PrefilledOf(e)) \in Nat
  <2>1. PICK A, B : A = PrefilledOf(e) /\ B = NamedBy(P)
    OBVIOUS
  <2>2. PrefilledOf(c) = A \cup B /\ A \cap B = {}
    <3>1. NowPrefilled(e, c, P, D)
      BY <1>2, AdvancedProgress
    <3>2. QED
      BY <2>1, <3>1 DEF NowPrefilled
  <2>3. IsFiniteSet(A) /\ Cardinality(A) \in Nat /\ IsFiniteSet(B) /\ Cardinality(B) = p
    BY <1>2, <1>6, <2>1, PrefilledIsFinite
  <2>4. Cardinality(A \cup B) = Cardinality(A) + Cardinality(B) - Cardinality(A \cap B)
    BY <2>3, FS_Union
  <2>5. Cardinality(A \cap B) = 0
    BY <2>2, FS_EmptySet
  <2>6. Cardinality(A \cup B) = Cardinality(A) + p
    BY <1>6, <2>3, <2>4, <2>5
  <2>7. QED
    BY <2>1, <2>2, <2>3, <2>6
<1>15. /\ es.original = es.prefill + es.matched
       /\ es.sequences = Cardinality(PrefilledOf(e)) + es.decode
       /\ es.iterations = es.batches + es.idle + es.stalled
       /\ es.cancelled = Cardinality(InPhase(e, {"Cancelled"}))
  BY <1>3 DEF Agree
<1>16. cs.original = cs.prefill + cs.matched
  BY <1>5, <1>7, <1>8, <1>12, <1>15
<1>17. cs.sequences = Cardinality(PrefilledOf(c)) + cs.decode
  BY <1>5, <1>6, <1>7, <1>14, <1>15
<1>18. cs.iterations = cs.batches + cs.idle + cs.stalled
  BY <1>5, <1>15
<1>19. cs.cancelled = Cardinality(InPhase(c, {"Cancelled"}))
  BY <1>5, <1>7, <1>10, <1>15
<1>20. QED
  BY <1>3, <1>5, <1>9, <1>11, <1>13, <1>16, <1>17, <1>18, <1>19 DEF Agree

\* A new engine has nothing to account for.
LEMMA InitiallyAgrees == Init => StatisticsAgree
<1> SUFFICES ASSUME Init
             PROVE  Agree(engine)
  BY AgreeIs
<1>1. PICK e, stats : e = engine /\ stats = e.stats
  OBVIOUS
<1>2. /\ stats.completed = 0 /\ stats.cancelled = 0 /\ stats.original = 0
      /\ stats.prefill = 0 /\ stats.matched = 0 /\ stats.decode = 0 /\ stats.sequences = 0
      /\ stats.iterations = 0 /\ stats.batches = 0 /\ stats.idle = 0 /\ stats.stalled = 0
  BY <1>1 DEF Init
<1>3. \A r \in Requests : e.requests[r] = None
  BY <1>1 DEF Init
<1>4. PrefilledOf(e) = {} /\ \A states : InPhase(e, states) = {}
  <2>1. Submitted(e) = {}
    BY <1>3 DEF Submitted
  <2>2. QED
    BY <2>1 DEF PrefilledOf, InPhase
<1>5. /\ \A fun : SumFunctionOnSet(fun, {}) = 0
      /\ Cardinality({}) = 0
  BY FS_EmptySet, SumRemove
<1>6. Agree(e)
  BY <1>1, <1>2, <1>4, <1>5 DEF Agree
<1>7. QED
  BY <1>1, <1>6

\* Every public operation keeps the account.
LEMMA StepAgrees ==
  ASSUME BatchingInv, StatisticsAgree, [Next]_vars
  PROVE  StatisticsAgree'
<1>1. EngineInv(engine) /\ Agree(engine)
  BY AgreeIs DEF BatchingInv
<1>2. PICK e, c : e = engine /\ c = engine'
  OBVIOUS
<1>3. EngineInv(e) /\ Agree(e)
  BY <1>1, <1>2
<1>4. CASE UNCHANGED vars
  BY <1>4 DEF vars, StatisticsAgree, InPhase, Submitted
<1>5. Agree(c) => StatisticsAgree'
  <2>1. Agree(engine') => StatisticsAgree'
    <3>1. (StatisticsAgree <=> Agree(engine))'
      BY AgreeIs, PTL
    <3>2. QED
      BY <3>1
  <2>2. QED
    BY <1>2, <2>1
<1>6. CASE \E r \in Requests, arrival \in ArrivalTimes, prompt \in Prompts, limit \in OutputLimits :
             Submit(r, arrival, prompt, limit)
  BY <1>1, <1>2, <1>5, <1>6, SubmitAgrees
<1>7. CASE \E r \in Requests : Cancel(r)
  BY <1>1, <1>2, <1>5, <1>7, CancelAgrees
<1>8. CASE RunNextIteration
  <2>1. c = e => Agree(c)
    BY <1>3
  <2>2. ASSUME Failed(e, c)
        PROVE  Agree(c)
    <3>1. /\ c.requests = e.requests /\ c.stats = e.stats
          /\ \A states : InPhase(c, states) = InPhase(e, states)
      BY <1>3, <2>2, FailedKeeps
    <3>2. PrefilledOf(c) = PrefilledOf(e)
      BY <3>1 DEF PrefilledOf, Submitted
    <3>3. Prompted(c) = Prompted(e) /\ Generated(c) = Generated(e)
      BY <3>1, <3>2, SameAccount
    <3>4. QED
      BY <1>3, <3>1, <3>2, <3>3 DEF Agree
  <2>3. ASSUME Slept(e, c)
        PROVE  Agree(c)
    <3>1. PICK arrivals, end : Advanced(e, arrivals, EmptyWork, end, c)
      BY <2>3 DEF Slept
    <3>2. Workload(e, arrivals, EmptyWork)
      BY NothingIsWorkload
    <3>3. QED
      BY <1>3, <3>1, <3>2, AdvancedAgrees
  <2>4. ASSUME NEW plan, Ran(e, plan, c)
        PROVE  Agree(c)
    <3>1. PICK arrivals, end : Workload(e, arrivals, plan) /\ Advanced(e, arrivals, plan, end, c)
      BY <2>4 DEF Ran
    <3>2. QED
      BY <1>3, <3>1, AdvancedAgrees
  <2>5. \/ c = e \/ Failed(e, c) \/ Slept(e, c) \/ \E plan : Ran(e, plan, c)
    BY <1>1, <1>2, <1>8, RunFacts
  <2>6. QED
    BY <1>5, <2>1, <2>2, <2>3, <2>4, <2>5
<1>9. QED
  BY <1>4, <1>6, <1>7, <1>8 DEF Next

\* The counters that prepare_statistics and cancel_request keep account for the
\* requests: prompts prefilled, tokens generated, sequences, completions, cancellations.
THEOREM StatisticsAccountForRequests == Spec => []StatisticsAgree
<1>1. BatchingInv /\ StatisticsAgree /\ [Next]_vars => StatisticsAgree'
  BY StepAgrees
<1>2. QED
  BY <1>1, InitiallyAgrees, InductiveInvariant, PTL DEF Spec

-----------------------------------------------------------------------------
(* The clock does not run ahead of the work.                                 *)

NoIdleStep ==
  engine'.clock # engine.clock /\ engine'.requests = engine.requests =>
    \A r \in InPhase(engine, RequestState \ Terminal) :
      /\ engine.requests[r].arrival > engine.clock
      /\ engine.requests[r].arrival >= engine'.clock

\* Whoever is served, a record changes.
LEMMA WorkShows ==
  ASSUME NEW e, EngineInv(e), NEW arrivals, NEW work, Workload(e, arrivals, work),
         NEW end, NEW c, Advanced(e, arrivals, work, end, c), c.requests = e.requests
  PROVE  work.items = <<>>
<1>1. PICK items \in Seq(WorkItem) : items = work.items
  BY DEF Workload
<1>2. \A i \in Range(items) : Worked(e, i, e.requests[i.id])
  BY <1>1, AdvancedRequests
<1>3. ASSUME NEW i \in Range(items)
      PROVE  FALSE
  <2>1. /\ i.id \in InPhase(e, {"Waiting", "Decoding"}) /\ i.prefill = IsWaiting(e, i.id)
    BY <1>1 DEF Workload
  <2>2. PICK req : req = e.requests[i.id]
    OBVIOUS
  <2>3. /\ req.state = IF Ends(e, i) THEN "Finished" ELSE "Decoding"
        /\ req.generated = IF i.prefill THEN 0 ELSE req.generated + 1
    BY <1>2, <2>2 DEF Worked
  <2>4. i.id \in Submitted(e) /\ req.state \in {"Waiting", "Decoding"}
    BY <2>1, <2>2 DEF InPhase
  <2>5. i.prefill = (req.state = "Waiting")
    BY <2>1, <2>2, <2>4 DEF IsWaiting
  <2>6. req.generated \in Nat
    BY <2>2, <2>4, RequestTypes DEF EngineInv
  <2>7. req.state = "Decoding"
    BY <2>3, <2>4
  <2>8. ~i.prefill
    BY <2>5, <2>7
  <2>9. PICK n \in Nat : n = req.generated
    BY <2>6
  <2>10. n = n + 1
    BY <2>3, <2>8, <2>9
  <2>11. QED
    BY <2>10
<1>4. items = <<>>
  <2>1. ASSUME items # <<>>
        PROVE  FALSE
    <3>1. 1 \in DOMAIN items
      BY <2>1
    <3>2. items[1] \in Range(items)
      BY <3>1 DEF Range
    <3>3. QED
      BY <1>3, <3>2
  <2>2. QED
    BY <2>1
<1>5. QED
  BY <1>1, <1>4

\* An idle iteration passes nobody: all who have not ended arrive later.
LEMMA SleepIsShort ==
  ASSUME NEW e, EngineInv(e), NEW c, Slept(e, c), NEW r \in InPhase(e, RequestState \ Terminal)
  PROVE  e.requests[r].arrival > e.clock /\ e.requests[r].arrival >= c.clock
<1>1. r \in Submitted(e) /\ Lifecycle(e.requests[r])
      /\ e.requests[r].state \notin {"Finished", "Cancelled"}
  BY TerminalStates DEF InPhase, EngineInv
<1>2. Runnable(e, Arrivals(e)) = {} /\ Future(e, Arrivals(e)) # {} /\ c.clock = NextArrival(e, Arrivals(e))
  BY DEF Slept, Advanced
<1>3. e.requests[r].state = "Waiting"
  BY <1>1, <1>2 DEF Lifecycle, Runnable, InPhase
<1>4. r \in InPhase(e, {"Waiting"})
  BY <1>1, <1>3 DEF InPhase
<1>5. r \notin Arrivals(e)
  BY <1>2, <1>4 DEF Runnable
<1>6. PICK arrival \in Nat, now \in Nat : arrival = e.requests[r].arrival /\ now = e.clock
  BY <1>1, ArrivalIsTime, TimeIsNatural DEF EngineInv, Engine
<1>7. ~(e.requests[r].arrival <= e.clock)
  BY <1>4, <1>5 DEF Arrivals
<1>8. e.requests[r].arrival > e.clock
  BY <1>6, <1>7
<1>9. r \in Future(e, Arrivals(e))
  BY <1>4, <1>5, <1>8 DEF Future
<1>10. NextArrival(e, Arrivals(e)) \in Time /\ NextArrival(e, Arrivals(e)) <= e.requests[r].arrival
  BY <1>2, <1>9, NextArrivalIsTime
<1>11. PICK next \in Nat : next = NextArrival(e, Arrivals(e))
  BY <1>10, TimeIsNatural
<1>12. arrival >= next
  BY <1>6, <1>10, <1>11
<1>13. QED
  BY <1>2, <1>6, <1>8, <1>11, <1>12

\* Every public operation keeps the clock, or works, or sleeps like that.
LEMMA StepIsNotIdle ==
  ASSUME BatchingInv, [Next]_vars
  PROVE  NoIdleStep
<1>1. PICK e, c : e = engine /\ c = engine'
  OBVIOUS
<1>2. EngineInv(e) /\ EngineInv(engine)
  BY <1>1 DEF BatchingInv
<1>3. ASSUME c.clock = e.clock
      PROVE  NoIdleStep
  BY <1>1, <1>3 DEF NoIdleStep
<1>4. CASE UNCHANGED vars
  BY <1>1, <1>3, <1>4 DEF vars
<1>5. CASE \E r \in Requests, arrival \in ArrivalTimes, prompt \in Prompts, limit \in OutputLimits :
             Submit(r, arrival, prompt, limit)
  <2>1. \E r, q : Replaced(e, c, r, q)
    BY <1>1, <1>2, <1>5, SubmitFacts
  <2>2. QED
    BY <1>3, <2>1 DEF Replaced
<1>6. CASE \E r \in Requests : Cancel(r)
  <2>1. \E r, q : Replaced(e, c, r, q)
    BY <1>1, <1>2, <1>6, CancelFacts
  <2>2. QED
    BY <1>3, <2>1 DEF Replaced
<1>7. CASE RunNextIteration
  <2>1. ASSUME Slept(e, c)
        PROVE  NoIdleStep
    <3>1. \A r \in InPhase(e, RequestState \ Terminal) :
            e.requests[r].arrival > e.clock /\ e.requests[r].arrival >= c.clock
      BY <1>2, <2>1, SleepIsShort
    <3>2. QED
      BY <1>1, <3>1 DEF NoIdleStep
  <2>2. ASSUME NEW plan, Ran(e, plan, c), c.requests = e.requests
        PROVE  c.clock = e.clock
    <3>1. PICK arrivals, end : /\ Workload(e, arrivals, plan) /\ Advanced(e, arrivals, plan, end, c)
                               /\ plan.items = <<>> => end = e.clock
      BY <2>2 DEF Ran
    <3>2. plan.items = <<>>
      BY <1>2, <2>2, <3>1, WorkShows
    <3>3. QED
      BY <3>1, <3>2 DEF Advanced
  <2>3. Failed(e, c) => c.clock = e.clock
    BY <1>2, FailedKeeps
  <2>4. \/ c = e \/ Failed(e, c) \/ Slept(e, c) \/ \E plan : Ran(e, plan, c)
    BY <1>1, <1>2, <1>7, RunFacts
  <2>5. c.requests # e.requests => NoIdleStep
    BY <1>1 DEF NoIdleStep
  <2>6. QED
    BY <1>3, <2>1, <2>2, <2>3, <2>4, <2>5
<1>8. QED
  BY <1>4, <1>5, <1>6, <1>7 DEF Next

\* run_next_iteration moves the clock without work only up to the next arrival, and only
\* if no request that has arrived is unfinished; no other operation moves it.
THEOREM TheClockWaitsForWork == Spec => NoIdleWhileWorkWaits
<1>1. BatchingInv /\ [Next]_vars => [NoIdleStep]_vars
  BY StepIsNotIdle
<1>2. NoIdleWhileWorkWaits <=> [][NoIdleStep]_vars
  BY DEF NoIdleWhileWorkWaits, NoIdleStep
<1>3. QED
  BY <1>1, <1>2, InductiveInvariant, PTL DEF Spec

-----------------------------------------------------------------------------
(* What a candidate adds to a plan that does not fail.                       *)

\* The budgets or the blocks that are left do not suffice for r.
NoRoom(e, p, r) ==
  \/ CostOf(e, p.kv, r) > MaxTokens - p.tokens
  \/ Len(p.items) >= MaxSequences
  \/ Short(e, p.kv, r)

PutOff(p, r, q) ==
  /\ q.kv = p.kv /\ q.items = p.items /\ q.tokens = p.tokens
  /\ \E reason \in Reasons : q.deferred = Append(p.deferred, [id |-> r, reason |-> reason])

TakenOn(e, V, p, r, q) ==
  /\ q.deferred = p.deferred
  /\ \E item, c : /\ Selects(e, V, p, r, item, c) /\ q.kv = c
                  /\ q.items = Append(p.items, item) /\ q.tokens = p.tokens + item.cost

\* A plan the planner may visit r with, without failing.
Visited(e, V, p, r, q) ==
  /\ Sound(e) /\ PlanInv(e, V, p) /\ p.outcome = "ok"
  /\ r \in InPhase(e, {"Waiting", "Decoding"}) /\ r \notin V
  /\ q = Visit(e, p, r) /\ q.outcome = "ok"

\* Whoever finds no room is put off.
LEMMA NoRoomPutsOff ==
  ASSUME NEW e, NEW V, NEW p, NEW r, NEW q, Visited(e, V, p, r, q), NoRoom(e, p, r)
  PROVE  PutOff(p, r, q)
<1>1. IsPlan(p) /\ q.outcome = "ok" /\ q = Visit(e, p, r)
  BY DEF Visited, PlanInv
<1>2. ASSUME q = [p EXCEPT !.outcome = "oversized"]
      PROVE  FALSE
  <2>1. PICK kv, outcome, items, deferred, tokens :
          p = [kv |-> kv, outcome |-> outcome, items |-> items, deferred |-> deferred, tokens |-> tokens]
    BY <1>1 DEF IsPlan
  <2>2. q.outcome = "oversized"
    BY <1>2, <2>1
  <2>3. QED
    BY <1>1, <2>2
<1>3. \/ q = [p EXCEPT !.outcome = "oversized"]
      \/ q = Defer(p, r, "TokenBudget") \/ q = Defer(p, r, "SequenceBudget")
      \/ q = Defer(p, r, "KVCapacity")
  BY <1>1, VisitIs DEF NoRoom
<1>4. PICK reason \in Reasons : q = Defer(p, r, reason)
  BY <1>2, <1>3 DEF Reasons
<1>5. /\ q.kv = p.kv /\ q.items = p.items /\ q.tokens = p.tokens
      /\ q.deferred = Append(p.deferred, [id |-> r, reason |-> reason])
  BY <1>1, <1>4, PlanFields
<1>6. QED
  BY <1>5 DEF PutOff

\* Whoever finds room is taken on.
LEMMA RoomTakesOn ==
  ASSUME NEW e, NEW V, NEW p, NEW r, NEW q, Visited(e, V, p, r, q), ~NoRoom(e, p, r)
  PROVE  TakenOn(e, V, p, r, q)
<1>1. /\ IsPlan(p) /\ Budgeted(p) /\ p.kv \in Manager /\ Valid(p.kv) /\ Pending(e, p.kv, r)
      /\ Sound(e)
  BY StillPending DEF Visited, PlanInv, Scratch
<1>2. q.outcome = "ok" /\ q = Visit(e, p, r) /\ p.items \in Seq(WorkItem)
  BY <1>1 DEF Visited, Budgeted
<1>3. ASSUME q = [p EXCEPT !.outcome = "oversized"]
      PROVE  FALSE
  <2>1. PICK kv, outcome, items, deferred, tokens :
          p = [kv |-> kv, outcome |-> outcome, items |-> items, deferred |-> deferred, tokens |-> tokens]
    BY <1>1 DEF IsPlan
  <2>2. q.outcome = "oversized"
    BY <1>3, <2>1
  <2>3. QED
    BY <1>2, <2>2
<1>4. ASSUME NEW item, q = Select(e, p, item)
      PROVE  /\ ExactCall(e, p.kv, item).outcome = "ok"
             /\ q.deferred = p.deferred /\ q.kv = ExactCall(e, p.kv, item).kv
             /\ q.items = Append(p.items, item) /\ q.tokens = p.tokens + item.cost
  <2>1. PICK reply : reply = ExactCall(e, p.kv, item)
    OBVIOUS
  <2>2. q = Selected(p, item, reply)
    BY <1>4, <2>1 DEF Select
  <2>3. reply.outcome = "ok"
    BY <1>1, <1>2, <2>2, PlanFields
  <2>4. /\ q.deferred = p.deferred /\ q.kv = reply.kv
        /\ q.items = Append(p.items, item) /\ q.tokens = p.tokens + item.cost
    BY <1>1, <2>2, <2>3, PlanFields
  <2>5. QED
    BY <2>1, <2>3, <2>4
<1>5. \E item : q = Select(e, p, item)
  BY <1>2, <1>3, VisitIs DEF NoRoom
<1>6. Len(q.items) # Len(p.items)
  <2>1. PICK item : q.items = Append(p.items, item)
    BY <1>4, <1>5
  <2>2. Len(Append(p.items, item)) = Len(p.items) + 1 /\ Len(p.items) \in Nat
    BY <1>2
  <2>3. QED
    BY <2>1, <2>2
<1>7. \A reason \in Reasons : q # Defer(p, r, reason)
  <2>1. ASSUME NEW reason \in Reasons, q = Defer(p, r, reason)
        PROVE  FALSE
    <3>1. Defer(p, r, reason).items = p.items
      <4>1. \A x, y : Defer(p, x, y).items = p.items
        <5>1. PICK kv, outcome, items, deferred, tokens :
                p = [kv |-> kv, outcome |-> outcome, items |-> items, deferred |-> deferred, tokens |-> tokens]
          BY <1>1 DEF IsPlan
        <5>2. QED
          BY ONLY <5>1 DEF Defer
      <4>2. QED
        BY ONLY <4>1
    <3>2. q.items = p.items
      BY ONLY <2>1, <3>1
    <3>3. QED
      BY <1>6, <3>2
  <2>2. QED
    BY <2>1
<1>8. Visits(e, p, r, q)
  BY <1>1, <1>2, VisitCases
<1>9. PICK item : Offers(e, p, r, item) /\ q = Select(e, p, item)
  BY <1>3, <1>7, <1>8 DEF Visits
<1>10. PICK c : c = ExactCall(e, p.kv, item).kv
  OBVIOUS
<1>11. Selects(e, V, p, r, item, c)
  BY <1>4, <1>9, <1>10 DEF Selects, Visited
<1>12. QED
  BY <1>4, <1>9, <1>10, <1>11 DEF TakenOn

\* A waiting request never adds a decode.
LEMMA PrefillsAddNoDecode ==
  ASSUME NEW e, NEW V, NEW p, NEW r, NEW q, Visited(e, V, p, r, q), IsWaiting(e, r)
  PROVE  DecodesOf(Range(q.items)) = DecodesOf(Range(p.items))
<1>1. CASE NoRoom(e, p, r)
  BY <1>1, NoRoomPutsOff DEF PutOff
<1>2. CASE ~NoRoom(e, p, r)
  <2>1. PICK item, c : Selects(e, V, p, r, item, c) /\ q.items = Append(p.items, item)
    BY <1>2, RoomTakesOn DEF TakenOn
  <2>2. item \in WorkItem /\ p.items \in Seq(WorkItem)
    BY <2>1, SelectionIsCalled
  <2>3. Range(Append(p.items, item)) = Range(p.items) \cup {item}
    BY <2>2, AppendFacts
  <2>4. item.prefill
    BY <2>1 DEF Selects, Offers
  <2>5. QED
    BY <2>1, <2>3, <2>4 DEF DecodesOf
<1>3. QED
  BY <1>1, <1>2

-----------------------------------------------------------------------------
(* The plan of an iteration, candidate by candidate.                         *)

\* The plan is what the last candidate leaves.
LEMMA PlanIsEntry ==
  ASSUME NEW e, Sound(e), NEW ids \in SUBSET InPhase(e, {"Waiting", "Decoding"}),
         NEW s, s = Candidates(e, ids)
  PROVE  /\ Orders(e, s) /\ Lists(s, ids) /\ Len(s) \in Nat
         /\ Plan(e, ids) = PlanOver(e, s)[Len(s)]
         /\ PlanSoFar(e, ids, PlanOver(e, s)[Len(s)])
<1>1. PICK n : n = Len(s) /\ Orders(e, s) /\ Lists(s, ids)
  <2>1. Orders(e, Candidates(e, ids)) /\ Lists(Candidates(e, ids), ids)
    BY CandidatesAreOrdered
  <2>2. QED
    BY <2>1
<1>2. n \in 0 .. Len(s)
  BY <1>1 DEF Lists
<1>3. PlanSoFar(e, FirstOf(s, n), PlanOver(e, s)[n])
  BY <1>1, <1>2, PlanHolds
<1>4. FirstOf(s, n) = ids
  BY <1>1 DEF Lists, FirstOf
<1>5. PICK p : p = PlanOver(e, s)[n]
  OBVIOUS
<1>6. PlanSoFar(e, ids, p)
  BY <1>3, <1>4, <1>5
<1>7. Approved(p) = p
  BY <1>6, ApprovalIsFormal
<1>8. Plan(e, ids) = p
  BY <1>1, <1>5, <1>7 DEF Plan
<1>9. QED
  BY <1>1, <1>2, <1>5, <1>6, <1>8

\* A step of the table that does not fail is a visit.
LEMMA PlanStep ==
  ASSUME NEW e, Sound(e), NEW order, Orders(e, order),
         NEW i \in Nat, i + 1 <= Len(order),
         PlanOver(e, order)[i + 1].outcome = "ok"
  PROVE  Visited(e, FirstOf(order, i), PlanOver(e, order)[i], order[i + 1], PlanOver(e, order)[i + 1])
<1>1. PICK k \in Nat : k = Len(order)
  BY DEF Orders
<1>2. PICK g : g = PlanOver(e, order)
  OBVIOUS
<1>3. i \in 0 .. k /\ i + 1 \in 0 .. k /\ i + 1 \in 1 .. k
  BY <1>1
<1>4. g[i + 1] = Step("plan", e, g[i], order[i + 1])
  <2>1. PICK kind, base : kind = "plan" /\ base = EmptyPlan(e)
    OBVIOUS
  <2>2. IsTable(g, "plan", e, EmptyPlan(e), order, k)
    BY <1>1, <1>2, PlanOverIsTable
  <2>3. IsTable(g, kind, e, base, order, k)
    BY <2>1, <2>2
  <2>4. \A j \in 0 .. k : j + 1 \in 0 .. k => g[j + 1] = Step(kind, e, g[j], order[j + 1])
    BY <2>3, TableEntries
  <2>5. QED
    BY <1>3, <2>1, <2>4
<1>5. g[i + 1].outcome = "ok"
  BY <1>2
<1>6. g[i].outcome = "ok"
  BY <1>4, <1>5 DEF Step
<1>7. g[i + 1] = Visit(e, g[i], order[i + 1])
  BY <1>4, <1>6 DEF Step
<1>8. PlanInv(e, FirstOf(order, i), g[i])
  <2>1. PlanSoFar(e, FirstOf(order, i), PlanOver(e, order)[i])
    BY <1>1, <1>3, PlanHolds
  <2>2. QED
    BY <1>2, <1>6, <2>1 DEF PlanSoFar
<1>9. order[i + 1] \in InPhase(e, {"Waiting", "Decoding"}) /\ order[i + 1] \notin FirstOf(order, i)
  <2>1. \A j \in 1 .. i : j \in 1 .. k /\ j # i + 1
    BY <1>3
  <2>2. QED
    BY <1>1, <1>3, <2>1 DEF Orders, FirstOf
<1>10. QED
  BY <1>2, <1>5, <1>6, <1>7, <1>8, <1>9 DEF Visited

\* After a prefix of the order, when all others wait, the decodes are settled.
LEMMA DecodesAreSettled ==
  ASSUME NEW e, Sound(e), NEW order, Orders(e, order),
         NEW k \in Nat, k <= Len(order),
         \A i \in 1 .. Len(order) : i > k => IsWaiting(e, order[i]),
         PlanOver(e, order)[Len(order)].outcome = "ok"
  PROVE  /\ PlanOver(e, order)[k].outcome = "ok"
         /\ DecodesOf(Range(PlanOver(e, order)[Len(order)].items))
              = DecodesOf(Range(PlanOver(e, order)[k].items))
<1>1. PICK n \in Nat : n = Len(order)
  BY DEF Orders
<1>2. PICK g : g = PlanOver(e, order)
  OBVIOUS
<1> DEFINE Same(i) == /\ g[i].outcome = "ok"
                      /\ DecodesOf(Range(g[n].items)) = DecodesOf(Range(g[i].items))
           T == {d \in Nat : d <= n - k => Same(n - d)}
<1>3. 0 \in T
  BY <1>1, <1>2
<1>4. ASSUME NEW d \in Nat, d \in T
      PROVE  d + 1 \in T
  <2>1. SUFFICES ASSUME d + 1 <= n - k
                 PROVE  Same(n - (d + 1))
    OBVIOUS
  <2>2. PICK i \in Nat : i = n - (d + 1) /\ i + 1 = n - d /\ i + 1 <= n /\ i + 1 > k /\ i + 1 \in 1 .. n
    <3>1. n - (d + 1) \in Nat
      BY <1>1, <2>1
    <3>2. QED
      BY <1>1, <2>1, <3>1
  <2>3. Same(i + 1)
    BY <1>4, <2>1, <2>2
  <2>4. Visited(e, FirstOf(order, i), g[i], order[i + 1], g[i + 1])
    BY <1>1, <1>2, <2>2, <2>3, PlanStep
  <2>5. IsWaiting(e, order[i + 1])
    BY <1>1, <2>2
  <2>6. DecodesOf(Range(g[i + 1].items)) = DecodesOf(Range(g[i].items))
    BY <2>4, <2>5, PrefillsAddNoDecode
  <2>7. g[i].outcome = "ok"
    BY <2>4 DEF Visited
  <2>8. QED
    BY <2>2, <2>3, <2>6, <2>7
<1>5. n - k \in T
  <2>1. n - k \in Nat
    BY <1>1
  <2> HIDE DEF T
  <2>2. QED
    BY <1>3, <1>4, <2>1, NatSetInduction
<1>6. Same(n - (n - k))
  BY <1>1, <1>5
<1>7. n - (n - k) = k
  BY <1>1
<1>8. QED
  BY <1>1, <1>2, <1>6, <1>7

-----------------------------------------------------------------------------
(* Decoding requests under DecodeFirst.                                      *)

\* Under DecodeFirst the order of the decoding requests is a prefix of every order.
LEMMA DecodesComeFirst ==
  ASSUME NEW e, Sound(e), NEW ids \in SUBSET InPhase(e, {"Waiting", "Decoding"}),
         InPhase(e, {"Decoding"}) \subseteq ids, Policy = "DecodeFirst",
         NEW D, D = InPhase(e, {"Decoding"}), NEW s, s = Candidates(e, ids),
         NEW t, t = Candidates(e, D)
  PROVE  /\ Len(t) \in Nat /\ Len(t) <= Len(s)
         /\ \A i \in 1 .. Len(t) : t[i] = s[i]
         /\ \A i \in 1 .. Len(s) : i > Len(t) => IsWaiting(e, s[i])
         /\ FirstOf(s, Len(t)) = D
<1>1. D \in SUBSET InPhase(e, {"Waiting", "Decoding"})
  BY DEF InPhase
<1>2. ids \cap InPhase(e, {"Decoding"}) = D /\ D \cap InPhase(e, {"Decoding"}) = D
  OBVIOUS
<1>3. PICK o : o = InOrder(e, D)
  OBVIOUS
<1>4. IsFiniteSet(ids) /\ Comparable(e, ids) /\ Lists(s, ids)
  BY CandidatesAreOrdered
<1>5. IsFiniteSet(D) /\ Comparable(e, D) /\ Lists(t, D)
  BY <1>1, CandidatesAreOrdered
<1>6. /\ Lists(o, D) /\ Len(s) >= Len(o)
      /\ \A i \in 1 .. Len(s) : IF i <= Len(o) THEN s[i] = o[i] ELSE s[i] \notin D
  <2>1. PICK cs, d : cs = Candidates(e, ids) /\ d = ids \cap InPhase(e, {"Decoding"})
    OBVIOUS
  <2>2. /\ Lists(InOrder(e, d), d) /\ Len(cs) >= Len(InOrder(e, d))
        /\ \A i \in 1 .. Len(cs) :
             IF i <= Len(InOrder(e, d)) THEN cs[i] = InOrder(e, d)[i] ELSE cs[i] \notin d
    BY ONLY <1>4, <2>1, Policy = "DecodeFirst", CandidatesList
  <2>3. d = D /\ cs = s
    BY <1>2, <2>1
  <2>4. QED
    BY <1>3, <2>2, <2>3
<1>7. /\ Len(t) >= Len(o)
      /\ \A i \in 1 .. Len(t) : IF i <= Len(o) THEN t[i] = o[i] ELSE t[i] \notin D
  BY <1>2, <1>3, <1>5, CandidatesList
<1>8. PICK k \in Nat, l \in Nat, n \in Nat : k = Len(o) /\ l = Len(t) /\ n = Len(s)
  BY <1>4, <1>5, <1>6 DEF Lists
<1>9. l = k
  <2>1. ASSUME l # k
        PROVE  FALSE
    <3>1. k + 1 \in 1 .. l /\ ~(k + 1 <= k)
      BY <1>7, <1>8, <2>1
    <3>2. t[k + 1] \notin D
      BY <1>7, <1>8, <3>1
    <3>3. t[k + 1] \in D
      BY <1>5, <1>8, <3>1 DEF Lists
    <3>4. QED
      BY <3>2, <3>3
  <2>2. QED
    BY <2>1
<1>10. k <= n /\ \A i \in 1 .. k : i \in 1 .. n /\ i <= k
  BY <1>6, <1>8
<1>11. \A i \in 1 .. k : t[i] = s[i]
  BY <1>6, <1>7, <1>8, <1>9, <1>10
<1>12. ASSUME NEW i \in 1 .. n, i > k
       PROVE  IsWaiting(e, s[i])
  <2>1. s[i] \notin D
    BY <1>6, <1>8, <1>12
  <2>2. s[i] \in InPhase(e, {"Waiting", "Decoding"})
    BY <1>4, <1>8 DEF Lists
  <2>3. QED
    BY <2>1, <2>2 DEF InPhase, IsWaiting
<1>13. FirstOf(s, k) = D
  <2>1. FirstOf(s, k) = {t[i] : i \in 1 .. k}
    BY <1>11 DEF FirstOf
  <2>2. {t[i] : i \in 1 .. k} = D
    BY <1>5, <1>8, <1>9 DEF Lists
  <2>3. QED
    BY <2>1, <2>2
<1>14. QED
  BY <1>8, <1>9, <1>10, <1>11, <1>12, <1>13

\* The decoding requests in the plan are those that a plan without the others has.
LEMMA DecodesAsAlone ==
  ASSUME NEW e, Sound(e), NEW ids \in SUBSET InPhase(e, {"Waiting", "Decoding"}),
         InPhase(e, {"Decoding"}) \subseteq ids, Policy = "DecodeFirst",
         NEW plan, plan = Plan(e, ids), plan.outcome = "ok",
         NEW alone, alone = Plan(e, InPhase(e, {"Decoding"}))
  PROVE  DecodesOf(Range(plan.items)) = Range(alone.items)
<1>1. PICK D, s, t : D = InPhase(e, {"Decoding"}) /\ s = Candidates(e, ids) /\ t = Candidates(e, D)
  OBVIOUS
<1>2. D \in SUBSET InPhase(e, {"Waiting", "Decoding"})
  BY <1>1 DEF InPhase
<1>3. /\ Len(t) \in Nat /\ Len(t) <= Len(s)
      /\ \A i \in 1 .. Len(t) : t[i] = s[i]
      /\ \A i \in 1 .. Len(s) : i > Len(t) => IsWaiting(e, s[i])
      /\ FirstOf(s, Len(t)) = D
  BY <1>1, DecodesComeFirst
<1>4. /\ Orders(e, s) /\ Len(s) \in Nat /\ plan = PlanOver(e, s)[Len(s)]
  BY <1>1, PlanIsEntry
<1>5. /\ Len(t) \in Nat /\ alone = PlanOver(e, t)[Len(t)]
  BY <1>1, <1>2, PlanIsEntry
<1>6. PICK k \in Nat, n \in Nat : k = Len(t) /\ n = Len(s) /\ k <= n
  BY <1>3, <1>4
<1>7. PICK g, h : g = PlanOver(e, t) /\ h = PlanOver(e, s)
  OBVIOUS
<1>8. g[k] = h[k]
  <2>1. PICK kind, base : kind = "plan" /\ base = EmptyPlan(e)
    OBVIOUS
  <2>2. IsTable(g, "plan", e, EmptyPlan(e), t, k) /\ IsTable(h, "plan", e, EmptyPlan(e), s, n)
    BY <1>6, <1>7, PlanOverIsTable
  <2>3. IsTable(g, kind, e, base, t, k) /\ IsTable(h, kind, e, base, s, n)
    BY <2>1, <2>2
  <2>4. \A i \in 1 .. k : t[i] = s[i]
    BY <1>3, <1>6
  <2>5. \A i \in 0 .. k : g[i] = h[i]
    <3>1. k \in Nat /\ n \in Nat /\ k <= n
      BY <1>6
    <3>2. QED
      BY ONLY <2>3, <2>4, <3>1, TablesAgree
  <2>6. QED
    BY <2>5
<1>9. h[k].outcome = "ok" /\ DecodesOf(Range(h[n].items)) = DecodesOf(Range(h[k].items))
  BY <1>3, <1>4, <1>6, <1>7, DecodesAreSettled
<1>10. PlanInv(e, D, h[k])
  <2>1. PlanSoFar(e, FirstOf(s, k), PlanOver(e, s)[k])
    BY <1>4, <1>6, PlanHolds
  <2>2. QED
    BY <1>3, <1>6, <1>7, <1>9, <2>1 DEF PlanSoFar
<1>11. DecodesOf(Range(h[k].items)) = Range(h[k].items)
  <2>1. ASSUME NEW i \in Range(h[k].items)
        PROVE  ~i.prefill
    <3>1. i.id \in D /\ i.prefill = IsWaiting(e, i.id)
      BY <1>10 DEF PlanInv, Named, IdsOf, Entries, Done
    <3>2. QED
      BY <1>1, <3>1 DEF InPhase, IsWaiting
  <2>2. QED
    BY <2>1 DEF DecodesOf
<1>12. QED
  BY <1>4, <1>5, <1>6, <1>7, <1>8, <1>9, <1>11

\* A committed batch had a plan that did not fail.
LEMMA RanIsOk ==
  ASSUME EngineInv(engine), RunNextIteration, NEW plan, Ran(engine, plan, engine')
  PROVE  plan.outcome = "ok"
<1>1. PICK e, c : e = engine /\ c = engine'
  OBVIOUS
<1>2. EngineInv(e) /\ Sound(e) /\ e \in Engine /\ Ok(e) /\ Ran(e, plan, c)
  BY <1>1 DEF RunNextIteration, EngineInv
<1>3. PICK ids : ids = Runnable(e, Arrivals(e)) /\ ids # {} /\ plan = Plan(e, ids)
  BY <1>2 DEF Ran
<1>4. c = BatchIteration(e, Arrivals(e), plan)
  BY <1>1, <1>3 DEF RunNextIteration, RunBatch
<1>5. c.failed = "no"
  BY <1>2 DEF Ran, Advanced, Ok
<1>6. ASSUME plan.outcome # "ok"
      PROVE  FALSE
  <2>1. ids \in SUBSET InPhase(e, {"Waiting", "Decoding"})
    BY <1>3 DEF Runnable, InPhase
  <2>2. PICK cause : cause = plan.outcome
    OBVIOUS
  <2>3. PlanSoFar(e, ids, Plan(e, ids))
    BY <1>2, <2>1, PlanFacts
  <2>4. cause \in {"overflow", "oversized", "logic_error"}
    BY <1>3, <1>6, <2>2, <2>3 DEF PlanSoFar, Trouble
  <2>5. Fail(e, cause).failed = cause
    BY <1>2, <2>4, FailureKeepsEngine
  <2>6. c = Fail(e, cause)
    BY <1>4, <1>6, <2>2 DEF BatchIteration
  <2>7. QED
    BY <1>5, <2>4, <2>5, <2>6
<1>7. QED
  BY <1>6

\* Those who got a token, and those who get one when nobody waits.
Tokened(e, c) ==
  {r \in InPhase(e, {"Decoding"}) : c.requests[r].generated # e.requests[r].generated}
Alone(e) == {i.id : i \in Range(Plan(e, InPhase(e, {"Decoding"})).items)}

\* A token is generated for each decode of the work, and for nobody else.
LEMMA TokensForDecodes ==
  ASSUME NEW e, EngineInv(e), NEW arrivals, NEW work, Workload(e, arrivals, work),
         NEW end, NEW c, Advanced(e, arrivals, work, end, c)
  PROVE  Tokened(e, c) = {i.id : i \in DecodesOf(Range(work.items))}
<1>1. PICK S : S = Range(work.items)
  OBVIOUS
<1>2. /\ \A r \in Requests \ IdsOf(work.items) : c.requests[r] = e.requests[r]
      /\ \A i \in S : Worked(e, i, c.requests[i.id])
  BY <1>1, AdvancedRequests
<1>3. \A i \in S : i.id \in InPhase(e, {"Waiting", "Decoding"}) /\ i.prefill = IsWaiting(e, i.id)
  BY <1>1 DEF Workload
<1>4. ASSUME NEW r \in Tokened(e, c)
      PROVE  \E i \in S : i.id = r /\ ~i.prefill
  <2>1. /\ r \in Requests /\ ~IsWaiting(e, r)
        /\ c.requests[r].generated # e.requests[r].generated
    BY <1>4 DEF Tokened, InPhase, Submitted, IsWaiting
  <2>2. r \in IdsOf(work.items)
    BY <1>2, <2>1
  <2>3. QED
    BY <1>1, <1>3, <2>1, <2>2 DEF IdsOf
<1>5. ASSUME NEW i \in S, ~i.prefill
      PROVE  i.id \in Tokened(e, c)
  <2>1. i.id \in InPhase(e, {"Decoding"})
    BY <1>3, <1>5 DEF InPhase, IsWaiting
  <2>2. PICK g \in Nat : g = e.requests[i.id].generated
    <3>1. i.id \in Submitted(e)
      BY <2>1 DEF InPhase
    <3>2. QED
      BY <3>1, RequestTypes DEF EngineInv
  <2>3. c.requests[i.id].generated = g + 1
    BY <1>2, <1>5, <2>2 DEF Worked
  <2>4. c.requests[i.id].generated # g
    BY <2>3
  <2>5. QED
    BY <2>1, <2>2, <2>4 DEF Tokened
<1>6. QED
  BY <1>1, <1>4, <1>5 DEF DecodesOf

\* When nobody may run, nobody decodes, and a plan for nobody is empty.
LEMMA NobodyAlone ==
  ASSUME NEW e, Sound(e), InPhase(e, {"Decoding"}) = {}
  PROVE  Alone(e) = {}
<1>1. PICK D, t : D = InPhase(e, {"Decoding"}) /\ t = Candidates(e, D)
  OBVIOUS
<1>2. D \in SUBSET InPhase(e, {"Waiting", "Decoding"}) /\ D = {}
  BY <1>1 DEF InPhase
<1>3. /\ Orders(e, t) /\ Lists(t, D) /\ Len(t) \in Nat
      /\ Plan(e, D) = PlanOver(e, t)[Len(t)]
  BY <1>1, <1>2, PlanIsEntry
<1>4. Len(t) = 0
  <2>1. ASSUME Len(t) # 0
        PROVE  FALSE
    <3>1. 1 \in 1 .. Len(t)
      BY <1>3, <2>1
    <3>2. t[1] \in D
      BY <1>3, <3>1 DEF Lists
    <3>3. QED
      BY <1>2, <3>2
  <2>2. QED
    BY <2>1
<1>5. PlanOver(e, t)[0] = EmptyPlan(e)
  <2>1. IsTable(PlanOver(e, t), "plan", e, EmptyPlan(e), t, Len(t))
    BY <1>3, PlanOverIsTable
  <2>2. QED
    BY <1>4, <2>1 DEF IsTable
<1>6. EmptyPlan(e).items = <<>>
  BY DEF EmptyPlan
<1>7. QED
  BY <1>1, <1>3, <1>4, <1>5, <1>6, EmptySequence DEF Alone

\* The action of DecodesIgnorePrefills.
DecodeStep ==
  result' = "progressed" =>
    LET decoding == InPhase(engine, {"Decoding"})
        alone == {i.id : i \in Range(Plan(engine, decoding).items)}
    IN  {r \in decoding : engine'.requests[r].generated # engine.requests[r].generated} = alone

\* An iteration that makes progress gives a token to the same requests as if no
\* prompt were waiting.
LEMMA StepIgnoresPrefills ==
  ASSUME Policy = "DecodeFirst", BatchingInv, Next
  PROVE  DecodeStep
<1>1. PICK e, c : e = engine /\ c = engine'
  OBVIOUS
<1>2. EngineInv(e) /\ EngineInv(engine) /\ Sound(e)
  BY <1>1 DEF BatchingInv, EngineInv
<1>3. Tokened(e, c) = Alone(e) => DecodeStep
  BY <1>1 DEF DecodeStep, Tokened, Alone
<1>4. result' = "none" => DecodeStep
  BY DEF DecodeStep
<1>5. CASE \E r \in Requests, arrival \in ArrivalTimes, prompt \in Prompts, limit \in OutputLimits :
             Submit(r, arrival, prompt, limit)
  BY <1>2, <1>4, <1>5, SubmitFacts
<1>6. CASE \E r \in Requests : Cancel(r)
  BY <1>2, <1>4, <1>6, CancelFacts
<1>7. CASE RunNextIteration
  <2>1. ASSUME Slept(e, c)
        PROVE  Tokened(e, c) = Alone(e)
    <3>1. InPhase(e, {"Decoding"}) = {}
      BY <2>1 DEF Slept, Runnable
    <3>2. Tokened(e, c) = {}
      BY <3>1 DEF Tokened
    <3>3. QED
      BY <1>2, <3>1, <3>2, NobodyAlone
  <2>2. ASSUME NEW plan, Ran(e, plan, c)
        PROVE  Tokened(e, c) = Alone(e)
    <3>1. PICK arrivals, ids, end :
            /\ ids = Runnable(e, arrivals) /\ plan = Plan(e, ids)
            /\ Workload(e, arrivals, plan) /\ Advanced(e, arrivals, plan, end, c)
      BY <2>2 DEF Ran
    <3>2. plan.outcome = "ok"
      BY <1>1, <1>2, <1>7, <2>2, RanIsOk
    <3>3. /\ ids \in SUBSET InPhase(e, {"Waiting", "Decoding"})
          /\ InPhase(e, {"Decoding"}) \subseteq ids
      BY <3>1 DEF Runnable, InPhase
    <3>4. PICK alone : alone = Plan(e, InPhase(e, {"Decoding"}))
      OBVIOUS
    <3>5. DecodesOf(Range(plan.items)) = Range(alone.items)
      BY <1>2, <3>1, <3>2, <3>3, <3>4, DecodesAsAlone
    <3>6. Tokened(e, c) = {i.id : i \in DecodesOf(Range(plan.items))}
      <4>1. EngineInv(e) /\ Workload(e, arrivals, plan) /\ Advanced(e, arrivals, plan, end, c)
        BY <1>2, <3>1
      <4>2. QED
        BY ONLY <4>1, TokensForDecodes
    <3>7. QED
      BY <3>4, <3>5, <3>6 DEF Alone
  <2>3. \/ result' \in {"complete", "none", "stalled"}
        \/ Slept(e, c) \/ \E plan : Ran(e, plan, c)
    BY <1>1, <1>2, <1>7, RunFacts
  <2>4. result' \in {"complete", "none", "stalled"} => DecodeStep
    BY DEF DecodeStep
  <2>5. QED
    BY <1>3, <2>1, <2>2, <2>3, <2>4
<1>8. QED
  BY <1>5, <1>6, <1>7 DEF Next

\* Under DecodeFirst, build_decode_first visits the decoding requests before all others:
\* those that get a token are those that would without any prompt waiting.
THEOREM DecodesGoFirst ==
  ASSUME Policy = "DecodeFirst"
  PROVE  Spec => DecodesIgnorePrefills
<1>1. BatchingInv /\ [Next]_vars => [DecodeStep]_vars
  BY StepIgnoresPrefills
<1>2. DecodesIgnorePrefills <=> [][DecodeStep]_vars
  BY DEF DecodesIgnorePrefills, DecodeStep
<1>3. QED
  BY <1>1, <1>2, InductiveInvariant, PTL DEF Spec

-----------------------------------------------------------------------------
(* As the plan grows, the scratch manager has less and less to offer.        *)

\* c is a later scratch manager: blocks in use stay so, and no key is added.
Drains(m, c) ==
  /\ m \in Manager /\ Valid(m) /\ c \in Manager /\ Valid(c)
  /\ \A b \in Block : /\ m.blocks[b].state = "InUse" => c.blocks[b].state = "InUse"
                      /\ c.blocks[b].key # None => c.blocks[b].key = m.blocks[b].key

\* A call for one item of the plan does no more.
LEMMA CalledDrains ==
  ASSUME NEW e, NEW m, NEW c, NEW item, Called(e, m, c, item)
  PROVE  Drains(m, c)
<1>1. m \in Manager /\ Valid(m) /\ c \in Manager /\ Valid(c) /\ Touches(m, c, item)
  BY DEF Called, Works
<1>2. ASSUME NEW b \in Block
      PROVE  /\ m.blocks[b].state = "InUse" => c.blocks[b].state = "InUse"
             /\ c.blocks[b].key # None => c.blocks[b].key = m.blocks[b].key
  <2>1. CASE b \in Range(item.allocated)
    BY <1>1, <2>1 DEF Touches
  <2>2. CASE b \in Range(item.matched)
    BY <1>1, <2>2 DEF Touches
  <2>3. CASE c.blocks[b] = m.blocks[b]
    BY <2>3
  <2>4. QED
    BY <1>1, <2>1, <2>2, <2>3 DEF Touches
<1>3. QED
  BY <1>1, <1>2 DEF Drains

\* A block with a key is in the index, under that key alone.
LEMMA KeyedBlocks ==
  ASSUME NEW m \in Manager, Valid(m), NEW a \in Block, NEW key \in Key, m.blocks[a].key = key
  PROVE  a \in Matches(m, key)
<1>1. BlockValid(m, a) /\ key # None
  BY NoneAssumption DEF Valid
<1>2. m.blocks[a].state # "Free"
  BY <1>1 DEF BlockValid, FreeBlock
<1>3. a \in m.index[HashOf(key)]
  BY <1>1, <1>2 DEF BlockValid
<1>4. QED
  BY <1>3 DEF Matches

\* What the later manager finds for a key, the earlier one does.
LEMMA MatchesShrink ==
  ASSUME NEW m, NEW c, Drains(m, c), NEW key \in Key
  PROVE  Matches(c, key) \subseteq Matches(m, key)
<1>1. SUFFICES ASSUME NEW b \in Matches(c, key)
               PROVE  b \in Matches(m, key)
  OBVIOUS
<1>2. HashOf(key) \in HashValues /\ key # None
  BY HashType, NoneAssumption
<1>3. b \in Block /\ c.blocks[b].key = key
  BY <1>2 DEF Matches, Drains, Manager
<1>4. m.blocks[b].key = key
  BY <1>2, <1>3 DEF Drains
<1>5. QED
  BY <1>3, <1>4, KeyedBlocks DEF Drains

\* The first elements of t.
Shorter(s, t) ==
  /\ s \in Seq(Block) /\ t \in Seq(Block) /\ Len(s) <= Len(t)
  /\ \A i \in 1 .. Len(s) : s[i] = t[i]

\* A lookup finds the same blocks later, or fewer of them.
LEMMA LookupShrinks ==
  ASSUME NEW m, NEW c, Drains(m, c), NEW chunks \in Seq(Chunks)
  PROVE  Shorter(Lookup(c, chunks), Lookup(m, chunks))
<1> DEFINE hit(x, i) == Matches(x, KeyAt(chunks, i)) # {}
           hits(x) == {i \in 1 .. Len(chunks) : \A j \in 1 .. i : hit(x, j)}
<1>1. m \in Manager /\ Valid(m) /\ c \in Manager /\ Valid(c)
  BY DEF Drains
<1>2. \A i \in 1 .. Len(chunks) : KeyAt(chunks, i) \in Key
  BY KeyType
<1>3. CASE ~PrefixEnabled
  <2>1. Lookup(c, chunks) = <<>> /\ Lookup(m, chunks) = <<>>
    BY <1>3 DEF Lookup
  <2>2. QED
    BY <2>1 DEF Shorter
<1>4. CASE PrefixEnabled
  <2>1. PICK s, t : s = Lookup(c, chunks) /\ t = Lookup(m, chunks)
    OBVIOUS
  <2>2. /\ s \in Seq(Block) /\ Len(s) \in 0 .. Len(chunks)
        /\ \A i \in DOMAIN s : c.blocks[s[i]].key = KeyAt(chunks, i)
    BY <1>1, <2>1, LookupHits
  <2>3. /\ t \in Seq(Block) /\ Len(t) \in 0 .. Len(chunks)
        /\ \A i \in DOMAIN t : m.blocks[t[i]].key = KeyAt(chunks, i)
    BY <1>1, <2>1, LookupHits
  <2>4. Len(s) = Cardinality(hits(c)) /\ Len(t) = Cardinality(hits(m))
    <3>1. ASSUME NEW x \in {c, m}
          PROVE  Len(Lookup(x, chunks)) = Cardinality(hits(x))
      <4>1. Cardinality(hits(x)) \in Nat
        <5>1. IsFiniteSet(1 .. Len(chunks))
          BY FS_Interval
        <5>2. hits(x) \in SUBSET (1 .. Len(chunks))
          OBVIOUS
        <5> HIDE DEF hits
        <5>3. QED
          BY <5>1, <5>2, FS_Subset, FS_CardinalityType
      <4>2. Lookup(x, chunks)
              = [i \in 1 .. Cardinality(hits(x)) |-> Min(Matches(x, KeyAt(chunks, i)))]
        BY <1>4 DEF Lookup
      <4> HIDE DEF hits
      <4>3. QED
        BY <4>1, <4>2
    <3>2. QED
      BY <2>1, <3>1
  <2>5. Len(s) <= Len(t)
    <3>1. hits(c) \in SUBSET hits(m)
      <4>1. \A j \in 1 .. Len(chunks) : hit(c, j) => hit(m, j)
        BY <1>2, MatchesShrink
      <4>2. \A i \in 1 .. Len(chunks) : \A j \in 1 .. i : j \in 1 .. Len(chunks)
        OBVIOUS
      <4>3. QED
        BY <4>1, <4>2
    <3>2. IsFiniteSet(hits(m))
      BY FS_Interval, FS_Subset
    <3> HIDE DEF hits
    <3>3. Cardinality(hits(c)) <= Cardinality(hits(m))
      BY <3>1, <3>2, FS_Subset
    <3>4. QED
      BY <2>4, <3>3
  <2>6. ASSUME NEW i \in 1 .. Len(s)
        PROVE  s[i] = t[i]
    <3>1. i \in DOMAIN s /\ i \in DOMAIN t /\ i \in 1 .. Len(chunks)
      BY <2>2, <2>3, <2>5
    <3>2. PICK a \in Block, b \in Block : a = s[i] /\ b = t[i]
      BY <2>2, <2>3, <3>1
    <3>3. PICK key \in Key : key = KeyAt(chunks, i)
      BY <1>2, <3>1
    <3>4. c.blocks[a].key = key /\ m.blocks[b].key = key
      BY <2>2, <2>3, <3>1, <3>2, <3>3
    <3>5. m.blocks[a].key = key
      BY <3>4, NoneAssumption DEF Drains
    <3>6. a \in Matches(m, key) /\ b \in Matches(m, key)
      BY <1>1, <3>4, <3>5, KeyedBlocks
    <3>7. QED
      BY <1>1, <3>2, <3>6, CanonicalBlock
  <2>7. QED
    BY <2>1, <2>2, <2>3, <2>5, <2>6 DEF Shorter
<1>5. QED
  BY <1>3, <1>4

\* The blocks that are available beside those of s.
Spare(m, s) == m.free \cup (Cached(m) \ Range(s))

\* Free blocks and cached ones are counted apart.
LEMMA SpareCount ==
  ASSUME NEW m \in Manager, Valid(m), NEW s \in Seq(Block)
  PROVE  /\ Cardinality(Spare(m, s)) = Cardinality(m.free) + Cardinality(Cached(m) \ Range(s))
         /\ Cardinality(Spare(m, s)) \in Nat /\ Spare(m, s) \in SUBSET Block
<1>1. PICK A, B : A = m.free /\ B = Cached(m) \ Range(s)
  OBVIOUS
<1>2. A \in SUBSET Block /\ B \in SUBSET Block
  BY <1>1 DEF Manager, Cached
<1>3. A \cap B = {}
  <2>1. \A b \in Block : b \in m.free => m.blocks[b].state = "Free"
    BY BlockFacts
  <2>2. QED
    BY <1>1, <1>2, <2>1 DEF Cached
<1>4. /\ IsFiniteSet(A) /\ IsFiniteSet(B) /\ Cardinality(A) \in Nat /\ Cardinality(B) \in Nat
      /\ A \cup B \in SUBSET Block /\ Cardinality(A \cup B) \in Nat
  BY <1>2, BlocksAreFinite
<1>5. Cardinality(A \cup B) = Cardinality(A) + Cardinality(B) - Cardinality(A \cap B)
  BY <1>4, FS_Union
<1>6. Cardinality(A \cap B) = 0
  BY <1>3, FS_EmptySet
<1>7. Cardinality(A \cup B) = Cardinality(A) + Cardinality(B)
  BY <1>4, <1>5, <1>6
<1>8. Spare(m, s) = A \cup B
  BY <1>1 DEF Spare
<1>9. QED
  BY <1>1, <1>4, <1>7, <1>8

\* What the earlier manager finds beyond the later one.
Beyond(s, t) == {t[i] : i \in (Len(s) + 1) .. Len(t)}

\* They are at most as many as the two sequences differ in length.
LEMMA BeyondCount ==
  ASSUME NEW s, NEW t, Shorter(s, t)
  PROVE  /\ Beyond(s, t) \in SUBSET Block
         /\ IsFiniteSet(Beyond(s, t)) /\ Cardinality(Beyond(s, t)) \in Nat
         /\ Cardinality(Beyond(s, t)) <= Len(t) - Len(s)
<1>1. PICK i \in Nat, j \in Nat : i = Len(s) /\ j = Len(t) /\ i <= j
  BY DEF Shorter
<1>2. \A x \in (i + 1) .. j : t[x] \in Block
  BY <1>1 DEF Shorter
<1>3. IsFiniteSet((i + 1) .. j) /\ Cardinality((i + 1) .. j) = j - i
  <2>1. /\ IsFiniteSet((i + 1) .. j)
        /\ Cardinality((i + 1) .. j) = IF i + 1 > j THEN 0 ELSE j - (i + 1) + 1
    BY FS_Interval
  <2>2. QED
    BY <1>1, <2>1
<1>4. PICK f : f = [x \in (i + 1) .. j |-> t[x]]
  OBVIOUS
<1>5. f \in Surjection((i + 1) .. j, Beyond(s, t))
  BY <1>1, <1>4 DEF Surjection, Beyond
<1>6. /\ IsFiniteSet(Beyond(s, t))
      /\ Cardinality(Beyond(s, t)) <= Cardinality((i + 1) .. j)
  BY <1>3, <1>5, FS_Surjection
<1>7. QED
  BY <1>1, <1>2, <1>3, <1>6, FS_CardinalityType DEF Beyond

\* What a later manager spares, the earlier one spares or had found.
LEMMA SpareShrinks ==
  ASSUME NEW m, NEW c, Drains(m, c), NEW s, NEW t, Shorter(s, t),
         \A b \in Range(s) : b \notin c.free
  PROVE  Cardinality(Spare(c, s)) <= Cardinality(Spare(m, t)) + (Len(t) - Len(s))
<1>1. /\ m \in Manager /\ Valid(m) /\ c \in Manager /\ Valid(c)
      /\ s \in Seq(Block) /\ t \in Seq(Block)
  BY DEF Drains, Shorter
<1>2. PICK A, B, X : A = Spare(c, s) /\ B = Spare(m, t) /\ X = Beyond(s, t)
  OBVIOUS
<1>3. /\ Cardinality(A) \in Nat /\ Cardinality(B) \in Nat /\ A \in SUBSET Block /\ B \in SUBSET Block
  BY <1>1, <1>2, SpareCount
<1>4. /\ X \in SUBSET Block /\ IsFiniteSet(X) /\ Cardinality(X) \in Nat
      /\ Cardinality(X) <= Len(t) - Len(s)
  BY <1>2, BeyondCount
<1>5. ASSUME NEW b \in A, b \notin B
      PROVE  b \in X
  <2>1. b \in Block /\ c.blocks[b].state # "InUse" /\ b \notin Range(s)
    <3>1. b \in Block
      BY <1>3, <1>5
    <3>2. b \in c.free => c.blocks[b].state = "Free"
      BY <1>1, <3>1, BlockFacts
    <3>3. QED
      BY <1>2, <1>5, <3>1, <3>2 DEF Spare, Cached
  <2>2. m.blocks[b].state # "InUse" /\ m.blocks[b].state \in {"Free", "InUse", "Cached"}
    BY <1>1, <2>1, BlockFacts DEF Drains, BlockMetadata
  <2>3. b \in m.free \/ b \in Cached(m)
    BY <1>1, <2>1, <2>2, BlockFacts DEF Cached
  <2>4. b \in Range(t)
    BY <1>2, <1>5, <2>3 DEF Spare
  <2>5. PICK i \in 1 .. Len(t) : t[i] = b
    BY <1>1, <2>4 DEF Range
  <2>6. ~(i <= Len(s))
    <3>1. ASSUME i <= Len(s)
          PROVE  FALSE
      <4>1. i \in 1 .. Len(s) /\ s[i] = b
        BY <1>1, <2>5, <3>1 DEF Shorter
      <4>2. b \in Range(s)
        BY <1>1, <4>1 DEF Range
      <4>3. QED
        BY <2>1, <4>2
    <3>2. QED
      BY <3>1
  <2>7. i \in (Len(s) + 1) .. Len(t)
    BY <1>1, <2>6
  <2>8. QED
    BY <1>2, <2>5, <2>7 DEF Beyond
<1>6. IsFiniteSet(A) /\ IsFiniteSet(B) /\ A \in SUBSET (B \cup X)
  BY <1>3, <1>5, BlocksAreFinite
<1>7. /\ IsFiniteSet(B \cup X)
      /\ Cardinality(B \cup X) = Cardinality(B) + Cardinality(X) - Cardinality(B \cap X)
  BY <1>4, <1>6, FS_Union
<1>8. Cardinality(B \cap X) \in Nat
  BY <1>3, BlocksAreFinite
<1>9. Cardinality(A) <= Cardinality(B \cup X)
  BY <1>6, <1>7, FS_Subset
<1>10. Cardinality(A) <= Cardinality(B) + Cardinality(X)
  BY <1>3, <1>4, <1>7, <1>8, <1>9
<1>11. Len(s) \in Nat /\ Len(t) \in Nat
  BY <1>1
<1>12. QED
  BY <1>2, <1>3, <1>4, <1>10, <1>11

\* Two requests that wait with the same prompt.
Twins(e, a, b) ==
  /\ a \in InPhase(e, {"Waiting"}) /\ b \in InPhase(e, {"Waiting"})
  /\ e.requests[a].prompt = e.requests[b].prompt

\* Later on the second finds no more than the first did, and only blocks that are held.
LEMMA HitsShrink ==
  ASSUME NEW e, Sound(e), NEW a, NEW b, Twins(e, a, b), NEW m, NEW c, Drains(m, c)
  PROVE  /\ Shorter(Hits(e, c, b), Hits(e, m, a))
         /\ \A x \in Range(Hits(e, c, b)) : x \notin c.free
<1>1. /\ c \in Manager /\ Valid(c) /\ IsWaiting(e, a) /\ IsWaiting(e, b)
      /\ a \in Submitted(e) /\ b \in Submitted(e)
  BY DEF Drains, Twins, InPhase, IsWaiting
<1>2. PICK prompt \in Prompts : e.requests[a].prompt = prompt /\ e.requests[b].prompt = prompt
  BY <1>1, RequestTypes DEF Twins
<1>3. prompt.chunks \in Seq(Chunks)
  BY PromptTypes
<1>4. CASE PrefixEnabled /\ prompt.exact
  <2>1. Hits(e, c, b) = Lookup(c, prompt.chunks) /\ Hits(e, m, a) = Lookup(m, prompt.chunks)
    BY <1>1, <1>2, <1>4 DEF Hits, UsesPrefix
  <2>2. Shorter(Lookup(c, prompt.chunks), Lookup(m, prompt.chunks))
    BY <1>3, LookupShrinks
  <2>3. ASSUME NEW x \in Range(Lookup(c, prompt.chunks))
        PROVE  x \notin c.free
    <3>1. PICK s : s = Lookup(c, prompt.chunks)
      OBVIOUS
    <3>2. /\ s \in Seq(Block) /\ Len(s) \in 0 .. Len(prompt.chunks)
          /\ \A i \in DOMAIN s : c.blocks[s[i]].key = KeyAt(prompt.chunks, i)
      BY <1>1, <1>3, <3>1, LookupHits
    <3>3. PICK i \in DOMAIN s : x = s[i]
      BY <2>3, <3>1 DEF Range
    <3>4. i \in 1 .. Len(prompt.chunks) /\ x \in Block /\ c.blocks[x].key = KeyAt(prompt.chunks, i)
      BY <3>2, <3>3
    <3>5. c.blocks[x].key # None
      BY <1>3, <3>4, KeyType, NoneAssumption
    <3>6. QED
      BY <1>1, <3>4, <3>5, BlockFacts
  <2>4. QED
    BY <2>1, <2>2, <2>3
<1>5. CASE ~(PrefixEnabled /\ prompt.exact)
  <2>1. Hits(e, c, b) = <<>> /\ Hits(e, m, a) = <<>>
    BY <1>1, <1>2, <1>5 DEF Hits, UsesPrefix
  <2>2. QED
    BY <2>1, EmptySequence DEF Shorter
<1>6. QED
  BY <1>4, <1>5

\* q is a later plan than p: the budgets are used up further, and nobody is forgotten.
Later(p, q) ==
  /\ Drains(p.kv, q.kv)
  /\ p.tokens \in Nat /\ q.tokens \in Nat /\ p.tokens <= q.tokens
  /\ Len(p.items) \in Nat /\ Len(q.items) \in Nat /\ Len(p.items) <= Len(q.items)
  /\ IdsOf(p.items) \subseteq IdsOf(q.items) /\ IdsOf(p.deferred) \subseteq IdsOf(q.deferred)

\* Where the first of two equal prompts found no room, the second finds none later.
LEMMA RoomShrinks ==
  ASSUME NEW e, Sound(e), NEW a, NEW b, Twins(e, a, b), NEW p, NEW q, Later(p, q),
         NoRoom(e, p, a), Pending(e, p.kv, a), Pending(e, q.kv, b)
  PROVE  NoRoom(e, q, b)
<1>1. PICK m, c : m = p.kv /\ c = q.kv
  OBVIOUS
<1>2. /\ m \in Manager /\ Valid(m) /\ c \in Manager /\ Valid(c) /\ Drains(m, c)
      /\ IsWaiting(e, a) /\ IsWaiting(e, b) /\ Pending(e, m, a) /\ Pending(e, c, b)
  BY <1>1 DEF Later, Drains, Twins, InPhase, IsWaiting
<1>3. PICK s, t : s = Hits(e, c, b) /\ t = Hits(e, m, a)
  OBVIOUS
<1>4. Shorter(s, t) /\ \A x \in Range(s) : x \notin c.free
  BY <1>2, <1>3, HitsShrink
<1>5. PICK prompt : e.requests[a].prompt = prompt /\ e.requests[b].prompt = prompt
  BY DEF Twins
<1>6. /\ CostOf(e, m, a) = Suffix(prompt, t) /\ CostOf(e, m, a) \in Nat
      /\ CostOf(e, c, b) = Suffix(prompt, s) /\ CostOf(e, c, b) \in Nat
      /\ Total(prompt) \in Nat
  BY <1>2, <1>3, <1>5, CandidateFacts
<1>7. PICK i \in Nat, k \in Nat : i = Len(s) /\ k = Len(t) - Len(s)
  <2>1. Len(t) - Len(s) \in Nat /\ Len(s) \in Nat
    BY <1>4 DEF Shorter
  <2>2. QED
    BY <2>1
<1>8. PICK x \in Nat, y \in Nat : x = CostOf(e, m, a) /\ y = CostOf(e, c, b) /\ y = k * BlockSize + x
  <2>1. PICK n \in Nat : n = Total(prompt)
    BY <1>6
  <2>2. BlockSize \in Nat
    BY KVAssumption
  <2>3. Len(t) = i + k
    BY <1>4, <1>7 DEF Shorter
  <2>4. CostOf(e, m, a) = n - (i + k) * BlockSize /\ CostOf(e, c, b) = n - i * BlockSize
    BY <1>6, <1>7, <2>1, <2>3 DEF Suffix
  <2>5. (i + k) * BlockSize = i * BlockSize + k * BlockSize
    BY <2>2
  <2>6. i * BlockSize \in Nat /\ k * BlockSize \in Nat
    BY <2>2
  <2>7. CostOf(e, c, b) = k * BlockSize + CostOf(e, m, a)
    BY <1>6, <2>1, <2>4, <2>5, <2>6
  <2>8. QED
    BY <1>6, <2>7
<1>9. k * BlockSize \in Nat
  BY KVAssumption
<1>10. BlocksRequired(y) = k + BlocksRequired(x) /\ BlocksRequired(x) \in Nat
  BY <1>8, BlocksOfBoth
<1>11. Cardinality(Spare(c, s)) <= Cardinality(Spare(m, t)) + k
  BY <1>2, <1>4, <1>7, SpareShrinks
<1>12. /\ Cardinality(Spare(c, s)) \in Nat /\ Cardinality(Spare(m, t)) \in Nat
       /\ Short(e, m, a) <=> BlocksRequired(x) > Cardinality(Spare(m, t))
       /\ Short(e, c, b) <=> BlocksRequired(y) > Cardinality(Spare(c, s))
  <2>1. s \in Seq(Block) /\ t \in Seq(Block)
    BY <1>4 DEF Shorter
  <2>2. /\ Cardinality(Spare(c, s)) = Cardinality(c.free) + Cardinality(Cached(c) \ Range(s))
        /\ Cardinality(Spare(m, t)) = Cardinality(m.free) + Cardinality(Cached(m) \ Range(t))
        /\ Cardinality(Spare(c, s)) \in Nat /\ Cardinality(Spare(m, t)) \in Nat
    BY <1>2, <2>1, SpareCount
  <2>3. RequiredOf(e, m, a) = BlocksRequired(x) /\ RequiredOf(e, c, b) = BlocksRequired(y)
    BY <1>2, <1>8 DEF RequiredOf
  <2>4. QED
    BY <1>3, <2>2, <2>3 DEF Short
<1>13. CASE CostOf(e, p.kv, a) > MaxTokens - p.tokens
  <2>1. x > MaxTokens - p.tokens
    BY <1>1, <1>8, <1>13
  <2>2. p.tokens \in Nat /\ q.tokens \in Nat /\ p.tokens <= q.tokens /\ MaxTokens \in Nat
    BY BatchingAssumption DEF Later, ContinuousBatchingConfig
  <2>3. y > MaxTokens - q.tokens
    BY <1>8, <1>9, <2>1, <2>2
  <2>4. QED
    BY <1>1, <1>8, <2>3 DEF NoRoom
<1>14. CASE Len(p.items) >= MaxSequences
  <2>1. Len(q.items) >= MaxSequences
    BY <1>14, BatchingAssumption DEF Later, ContinuousBatchingConfig
  <2>2. QED
    BY <2>1 DEF NoRoom
<1>15. CASE Short(e, p.kv, a)
  <2>1. BlocksRequired(x) > Cardinality(Spare(m, t))
    BY <1>1, <1>12, <1>15
  <2>2. BlocksRequired(y) > Cardinality(Spare(c, s))
    BY <1>10, <1>11, <1>12, <2>1
  <2>3. QED
    BY <1>1, <1>12, <2>2 DEF NoRoom
<1>16. QED
  BY <1>13, <1>14, <1>15 DEF NoRoom

\* A plan is as late as itself.
LEMMA LaterIsReflexive ==
  ASSUME NEW e, NEW V, NEW p, PlanInv(e, V, p)
  PROVE  Later(p, p)
<1>1. p.kv \in Manager /\ Valid(p.kv) /\ p.tokens \in Nat /\ p.items \in Seq(WorkItem)
  BY DEF PlanInv, Scratch, Budgeted
<1>2. QED
  BY <1>1 DEF Later, Drains

\* What is later than a later plan is later.
LEMMA LaterIsTransitive ==
  ASSUME NEW p, NEW q, NEW o, Later(p, q), Later(q, o)
  PROVE  Later(p, o)
<1>1. Drains(p.kv, o.kv)
  BY DEF Later, Drains
<1>2. /\ p.tokens \in Nat /\ o.tokens \in Nat /\ p.tokens <= o.tokens
      /\ Len(p.items) \in Nat /\ Len(o.items) \in Nat /\ Len(p.items) <= Len(o.items)
  BY DEF Later
<1>3. IdsOf(p.items) \subseteq IdsOf(o.items) /\ IdsOf(p.deferred) \subseteq IdsOf(o.deferred)
  BY DEF Later
<1>4. QED
  BY <1>1, <1>2, <1>3 DEF Later

\* A visit leaves a later plan, which names the candidate.
LEMMA VisitIsLater ==
  ASSUME NEW e, NEW V, NEW p, NEW r, NEW q, Visited(e, V, p, r, q)
  PROVE  /\ Later(p, q)
         /\ IF NoRoom(e, p, r) THEN r \in IdsOf(q.deferred) ELSE r \in IdsOf(q.items)
<1>1. PlanInv(e, V, p)
  BY DEF Visited
<1>2. /\ p.kv \in Manager /\ Valid(p.kv) /\ p.tokens \in Nat /\ p.items \in Seq(WorkItem)
      /\ p.deferred \in Seq(Deferral) /\ Len(p.items) \in Nat /\ r \in Requests
  BY <1>1 DEF PlanInv, Scratch, Budgeted, Visited, InPhase, Submitted
<1>3. CASE NoRoom(e, p, r)
  <2>1. PutOff(p, r, q)
    BY <1>3, NoRoomPutsOff
  <2>2. PICK reason \in Reasons : q.deferred = Append(p.deferred, [id |-> r, reason |-> reason])
    BY <2>1 DEF PutOff
  <2>3. PICK d : d = [id |-> r, reason |-> reason] /\ d \in Deferral /\ d.id = r
    <3>1. [id |-> r, reason |-> reason] \in Deferral
      BY <1>2 DEF Deferral
    <3>2. [id |-> r, reason |-> reason].id = r
      OBVIOUS
    <3>3. QED
      BY <3>1, <3>2
  <2>4. Range(Append(p.deferred, d)) = Range(p.deferred) \cup {d}
    BY <1>2, <2>3, AppendFacts
  <2>5. IdsOf(p.deferred) \subseteq IdsOf(q.deferred) /\ r \in IdsOf(q.deferred)
    BY <2>2, <2>3, <2>4 DEF IdsOf
  <2>6. Drains(p.kv, p.kv)
    BY <1>2 DEF Drains
  <2>7. QED
    BY <1>2, <1>3, <2>1, <2>5, <2>6 DEF Later, PutOff
<1>4. CASE ~NoRoom(e, p, r)
  <2>1. PICK item, c : /\ Selects(e, V, p, r, item, c) /\ q.kv = c /\ q.deferred = p.deferred
                       /\ q.items = Append(p.items, item) /\ q.tokens = p.tokens + item.cost
    BY <1>4, RoomTakesOn DEF TakenOn
  <2>2. Called(e, p.kv, c, item) /\ item \in WorkItem /\ item.id = r
    BY <2>1, SelectionIsCalled
  <2>3. Drains(p.kv, c)
    BY <2>2, CalledDrains
  <2>4. Range(Append(p.items, item)) = Range(p.items) \cup {item}
    BY <1>2, <2>2, AppendFacts
  <2>5. IdsOf(p.items) \subseteq IdsOf(q.items) /\ r \in IdsOf(q.items)
    BY <2>1, <2>2, <2>4 DEF IdsOf
  <2>6. PICK n \in Nat : n = item.cost
    BY <2>2 DEF WorkItem
  <2>7. Len(q.items) = Len(p.items) + 1
    BY <1>2, <2>1, <2>2
  <2>8. q.tokens \in Nat /\ p.tokens <= q.tokens
    BY <1>2, <2>1, <2>6
  <2>9. Len(q.items) \in Nat /\ Len(p.items) <= Len(q.items)
    BY <1>2, <2>7
  <2>10. QED
    BY <1>2, <1>4, <2>1, <2>3, <2>5, <2>8, <2>9 DEF Later
<1>5. QED
  BY <1>3, <1>4

\* A plan that did not fail did not fail before.
LEMMA EntriesAreOk ==
  ASSUME NEW e, Sound(e), NEW order, Orders(e, order),
         PlanOver(e, order)[Len(order)].outcome = "ok",
         NEW k \in Nat, k <= Len(order)
  PROVE  PlanOver(e, order)[k].outcome = "ok"
<1>1. PICK n \in Nat : n = Len(order)
  BY DEF Orders
<1>2. PICK g : g = PlanOver(e, order)
  OBVIOUS
<1> DEFINE T == {d \in Nat : d <= n => g[n - d].outcome = "ok"}
<1>3. 0 \in T
  BY <1>1, <1>2
<1>4. ASSUME NEW d \in Nat, d \in T
      PROVE  d + 1 \in T
  <2>1. SUFFICES ASSUME d + 1 <= n
                 PROVE  g[n - (d + 1)].outcome = "ok"
    OBVIOUS
  <2>2. PICK i \in Nat : i = n - (d + 1) /\ i + 1 = n - d /\ i + 1 <= n
    <3>1. n - (d + 1) \in Nat
      BY <1>1, <2>1
    <3>2. PICK i \in Nat : i = n - (d + 1)
      BY <3>1
    <3>3. i + 1 = n - d /\ i + 1 <= n
      BY <1>1, <2>1, <3>2
    <3>4. QED
      BY <3>2, <3>3
  <2>3. g[i + 1].outcome = "ok"
    BY <1>4, <2>1, <2>2
  <2>4. Visited(e, FirstOf(order, i), g[i], order[i + 1], g[i + 1])
    BY <1>1, <1>2, <2>2, <2>3, PlanStep
  <2>5. QED
    BY <2>2, <2>4 DEF Visited
<1>5. n - k \in T
  <2>1. n - k \in Nat
    BY <1>1
  <2> HIDE DEF T
  <2>2. QED
    BY <1>3, <1>4, <2>1, NatSetInduction
<1>6. g[n - (n - k)].outcome = "ok"
  BY <1>1, <1>5
<1>7. n - (n - k) = k
  BY <1>1
<1>8. QED
  BY <1>2, <1>6, <1>7

\* The entries of the table are in order.
LEMMA EntriesAreLater ==
  ASSUME NEW e, Sound(e), NEW order, Orders(e, order),
         PlanOver(e, order)[Len(order)].outcome = "ok",
         NEW i \in Nat, NEW j \in Nat, i <= j, j <= Len(order)
  PROVE  Later(PlanOver(e, order)[i], PlanOver(e, order)[j])
<1>1. PICK n \in Nat : n = Len(order)
  BY DEF Orders
<1>2. PICK g : g = PlanOver(e, order)
  OBVIOUS
<1> DEFINE T == {d \in Nat : i + d <= n => Later(g[i], g[i + d])}
<1>3. 0 \in T
  <2>1. i \in 0 .. n
    BY <1>1
  <2>2. g[i].outcome = "ok"
    BY <1>1, <1>2, EntriesAreOk
  <2>3. PlanSoFar(e, FirstOf(order, i), PlanOver(e, order)[i])
    BY <1>1, <2>1, PlanHolds
  <2>4. PlanInv(e, FirstOf(order, i), g[i])
    BY <1>2, <2>2, <2>3 DEF PlanSoFar
  <2>5. Later(g[i], g[i])
    BY <2>4, LaterIsReflexive
  <2>6. QED
    BY <2>5
<1>4. ASSUME NEW d \in Nat, d \in T
      PROVE  d + 1 \in T
  <2>1. SUFFICES ASSUME i + (d + 1) <= n
                 PROVE  Later(g[i], g[i + (d + 1)])
    OBVIOUS
  <2>2. PICK k \in Nat : k = i + d /\ k + 1 = i + (d + 1) /\ k + 1 <= n /\ k <= n
    BY <2>1, <1>1
  <2>3. Later(g[i], g[k])
    BY <1>4, <2>2
  <2>4. g[k + 1].outcome = "ok"
    BY <1>1, <1>2, <2>2, EntriesAreOk
  <2>5. Visited(e, FirstOf(order, k), g[k], order[k + 1], g[k + 1])
    BY <1>1, <1>2, <2>2, <2>4, PlanStep
  <2>6. Later(g[k], g[k + 1])
    BY <2>5, VisitIsLater
  <2>7. QED
    BY <2>2, <2>3, <2>6, LaterIsTransitive
<1>5. j - i \in T
  <2>1. j - i \in Nat
    OBVIOUS
  <2> HIDE DEF T
  <2>2. QED
    BY <1>3, <1>4, <2>1, NatSetInduction
<1>6. i + (j - i) = j
  OBVIOUS
<1>7. QED
  BY <1>1, <1>2, <1>5, <1>6

\* Of two equal prompts the plan takes on the later one only with the earlier one.
LEMMA TwinsInOrder ==
  ASSUME NEW e, Sound(e), NEW ids \in SUBSET InPhase(e, {"Waiting", "Decoding"}),
         NEW plan, plan = Plan(e, ids), plan.outcome = "ok",
         NEW a \in ids, NEW b \in ids, Twins(e, a, b), Earlier(e, a, b), b \in IdsOf(plan.items)
  PROVE  a \in IdsOf(plan.items)
<1>1. PICK s : s = Candidates(e, ids)
  OBVIOUS
<1>2. /\ Orders(e, s) /\ Lists(s, ids) /\ Len(s) \in Nat
      /\ plan = PlanOver(e, s)[Len(s)] /\ PlanSoFar(e, ids, plan)
  BY <1>1, PlanIsEntry
<1>3. PICK n, g : n = Len(s) /\ n \in Nat /\ g = PlanOver(e, s) /\ plan = g[n]
  BY <1>2
<1>4. PICK i \in 1 .. n, j \in 1 .. n : s[i] = a /\ s[j] = b
  BY <1>2, <1>3 DEF Lists
<1>5. i < j
  <2>1. a \notin InPhase(e, {"Decoding"}) /\ b \notin InPhase(e, {"Decoding"})
    BY DEF Twins, InPhase
  <2>2. IsFiniteSet(ids) /\ Comparable(e, ids)
    BY CandidatesAreOrdered
  <2>3. \A x, y \in 1 .. Len(s) :
          /\ s[x] \notin InPhase(e, {"Decoding"}) /\ s[y] \notin InPhase(e, {"Decoding"})
          /\ Earlier(e, s[x], s[y])
          => x < y
    BY <1>1, <2>2, CandidatesList
  <2>4. QED
    BY <1>3, <1>4, <2>1, <2>3
<1>6. PICK k \in Nat, l \in Nat : k + 1 = i /\ l + 1 = j /\ k <= l /\ k <= n /\ l <= n
  <2>1. i - 1 \in Nat /\ j - 1 \in Nat
    BY <1>4
  <2>2. (i - 1) + 1 = i /\ (j - 1) + 1 = j /\ i - 1 <= j - 1 /\ i - 1 <= n /\ j - 1 <= n
    BY <1>3, <1>4, <1>5
  <2>3. QED
    BY <2>1, <2>2
<1>7. g[n].outcome = "ok"
  BY <1>3
<1>8. /\ Visited(e, FirstOf(s, k), g[k], a, g[k + 1])
      /\ Visited(e, FirstOf(s, l), g[l], b, g[l + 1])
  <2>1. ASSUME NEW x \in Nat, x + 1 <= n
        PROVE  Visited(e, FirstOf(s, x), g[x], s[x + 1], g[x + 1])
    <3>1. g[x + 1].outcome = "ok"
      BY <1>2, <1>3, <1>7, <2>1, EntriesAreOk
    <3>2. QED
      BY <1>2, <1>3, <2>1, <3>1, PlanStep
  <2>2. k + 1 <= n /\ l + 1 <= n
    BY <1>4, <1>6
  <2>3. QED
    BY <1>4, <1>6, <2>1, <2>2
<1>9. ASSUME NEW x \in Nat, NEW y \in Nat, x <= y, y <= n
      PROVE  Later(g[x], g[y])
  BY <1>2, <1>3, <1>7, <1>9, EntriesAreLater
<1>10. Later(g[k], g[l]) /\ Later(g[k + 1], plan) /\ Later(g[l + 1], plan)
  <2>1. k + 1 \in Nat /\ l + 1 \in Nat /\ k + 1 <= n /\ l + 1 <= n
    BY <1>4, <1>6
  <2>2. QED
    BY <1>3, <1>6, <1>9, <2>1
<1>11. CASE ~NoRoom(e, g[k], a)
  <2>1. a \in IdsOf(g[k + 1].items)
    BY <1>8, <1>11, VisitIsLater
  <2>2. QED
    BY <1>10, <2>1 DEF Later
<1>12. CASE NoRoom(e, g[k], a)
  <2>1. Pending(e, g[k].kv, a) /\ Pending(e, g[l].kv, b)
    BY <1>8, StillPending DEF Visited
  <2>2. NoRoom(e, g[l], b)
    BY <1>10, <1>12, <2>1, RoomShrinks
  <2>3. b \in IdsOf(g[l + 1].deferred)
    BY <1>8, <2>2, VisitIsLater
  <2>4. b \in IdsOf(plan.deferred)
    BY <1>10, <2>3 DEF Later
  <2>5. IdsOf(plan.items) \cap IdsOf(plan.deferred) = {}
    BY <1>2 DEF PlanSoFar, PlanInv, Named
  <2>6. QED
    BY <2>4, <2>5
<1>13. QED
  BY <1>11, <1>12

-----------------------------------------------------------------------------
(* Arrivals                                                                  *)

\* arrived_requests_ names requests whose time has come.
ArrivedAreDue(e) ==
  \A r \in e.arrived : r \in Submitted(e) /\ e.requests[r].arrival <= e.clock

\* Whoever came before a request that has arrived has arrived, too.
LEMMA EarlierHasArrived ==
  ASSUME NEW e, EngineInv(e), ArrivedAreDue(e),
         NEW a \in InPhase(e, {"Waiting"}), NEW b \in InPhase(e, {"Waiting"}),
         b \in Arrivals(e), Earlier(e, a, b)
  PROVE  a \in Arrivals(e)
<1>1. a \in Submitted(e) /\ b \in Submitted(e) /\ e \in Engine
  BY DEF InPhase, EngineInv
<1>2. e.requests[a].arrival \in Int /\ e.requests[b].arrival \in Int /\ e.clock \in Int
  <2>1. e.requests[a] \in Request /\ e.requests[b] \in Request
    BY <1>1, RequestTypes DEF EngineInv
  <2>2. QED
    BY <1>1, <2>1, IntMaxAssumption DEF Request, Engine, Time
<1>3. e.requests[b].arrival <= e.clock
  BY DEF Arrivals, ArrivedAreDue
<1>4. e.requests[a].arrival <= e.requests[b].arrival
  BY <1>2 DEF Earlier
<1>5. e.requests[a].arrival <= e.clock
  BY <1>2, <1>3, <1>4
<1>6. QED
  BY <1>5 DEF Arrivals

\* Work keeps the arrival of every request.
LEMMA ArrivalsStay ==
  ASSUME NEW e, EngineInv(e), NEW work, Workload(e, Arrivals(e), work),
         NEW end, NEW c, Advanced(e, Arrivals(e), work, end, c), ArrivedAreDue(e)
  PROVE  ArrivedAreDue(c)
<1>1. /\ \A r \in Requests \ IdsOf(work.items) : c.requests[r] = e.requests[r]
      /\ \A i \in Range(work.items) : Worked(e, i, c.requests[i.id])
      /\ c.requests \in [Requests -> Request \cup {None}]
  <2>1. PICK arrivals : arrivals = Arrivals(e)
    OBVIOUS
  <2>2. EngineInv(e) /\ Workload(e, arrivals, work) /\ Advanced(e, arrivals, work, end, c)
    BY <2>1
  <2>3. QED
    BY ONLY <2>2, AdvancedRequests
<1>2. c.arrived = Arrivals(e) /\ c.clock \in Time /\ c.clock >= e.clock /\ e.clock \in Time
  BY DEF Advanced, EngineInv, Engine
<1>3. ASSUME NEW r \in Arrivals(e)
      PROVE  r \in Submitted(c) /\ c.requests[r].arrival <= c.clock
  <2>1. r \in Submitted(e) /\ e.requests[r].arrival <= e.clock /\ r \in Requests
    BY <1>3 DEF Arrivals, ArrivedAreDue, InPhase, Submitted
  <2>2. c.requests[r].arrival = e.requests[r].arrival /\ c.requests[r] # None
    <3>1. CASE r \in IdsOf(work.items)
      <4>1. PICK i \in Range(work.items) : i.id = r
        BY <3>1 DEF IdsOf
      <4>2. c.requests[r] \in Request /\ c.requests[r].arrival = e.requests[r].arrival
        BY <1>1, <4>1 DEF Worked
      <4>3. QED
        BY <4>2, NoRequestAssumption
    <3>2. CASE r \notin IdsOf(work.items)
      BY <1>1, <2>1, <3>2 DEF Submitted
    <3>3. QED
      BY <3>1, <3>2
  <2>3. PICK at \in Int : at = e.requests[r].arrival
    <3>1. e.requests[r] \in Request
      BY <2>1, RequestTypes DEF EngineInv
    <3>2. QED
      BY <3>1, IntMaxAssumption DEF Request, Time
  <2>4. at <= c.clock
    BY <1>2, <2>1, <2>3, IntMaxAssumption DEF Time
  <2>5. QED
    BY <2>1, <2>2, <2>3, <2>4 DEF Submitted
<1>4. QED
  BY <1>2, <1>3 DEF ArrivedAreDue

\* A change of one request that is not among the arrived ones afterwards.
LEMMA DueBesideOne ==
  ASSUME NEW e, EngineInv(e), ArrivedAreDue(e), NEW c, NEW r \in Requests, NEW q \in Request,
         Lifecycle(q), Replaced(e, c, r, q), \A s \in c.arrived : s \in e.arrived /\ s # r
  PROVE  ArrivedAreDue(c)
<1>1. /\ \A s \in Requests \ {r} : c.requests[s] = e.requests[s]
      /\ Submitted(c) = Submitted(e) \cup {r}
  BY OneRequest
<1>2. c.clock = e.clock
  BY DEF Replaced
<1>3. QED
  BY <1>1, <1>2 DEF ArrivedAreDue, Submitted

\* Every operation keeps the arrived requests due.
LEMMA ArrivedStayDue ==
  ASSUME EngineInv(engine), ArrivedAreDue(engine), [Next]_vars
  PROVE  ArrivedAreDue(engine')
<1>1. PICK e, c : e = engine /\ c = engine'
  OBVIOUS
<1>2. EngineInv(e) /\ ArrivedAreDue(e) /\ e \in Engine
  BY <1>1 DEF EngineInv
<1>3. CASE UNCHANGED vars
  BY <1>3 DEF vars
<1>4. ASSUME NEW r \in Requests, NEW arrival \in ArrivalTimes, NEW prompt \in Prompts,
             NEW limit \in OutputLimits, Submit(r, arrival, prompt, limit)
      PROVE  ArrivedAreDue(c)
  <2>1. PICK q : q = NewRequest(arrival, prompt, limit)
    OBVIOUS
  <2>2. Replaced(e, c, r, q) /\ q \in Request /\ Lifecycle(q) /\ r \notin Submitted(e)
    BY <1>1, <1>2, <1>4, <2>1, SubmitFacts
  <2>3. c.arrived = e.arrived
    <3>1. c = [e EXCEPT !.requests[r] = q]
      BY <1>1, <1>4, <2>1 DEF Submit
    <3>2. QED
      BY <1>2, <3>1 DEF Engine
  <2>4. r \notin c.arrived
    BY <1>2, <2>2, <2>3 DEF ArrivedAreDue
  <2>5. QED
    BY <1>2, <2>2, <2>3, <2>4, DueBesideOne
<1>5. ASSUME NEW r \in Requests, Cancel(r)
      PROVE  ArrivedAreDue(c)
  <2>1. PICK q : q = Cancelled(e, r)
    OBVIOUS
  <2>2. Replaced(e, c, r, q) /\ q \in Request /\ Lifecycle(q)
    BY <1>1, <1>2, <1>5, <2>1, CancelFacts
  <2>3. c.arrived = e.arrived \ {r}
    <3>1. PICK manager : manager = ManagerWithout(e, r)
      OBVIOUS
    <3>2. c = [e EXCEPT !.requests[r].state = "Cancelled", !.requests[r].finish = e.clock,
                        !.arrived = @ \ {r}, !.kv = manager.kv, !.stats.cancelled = @ + 1]
      BY <1>1, <1>5, <3>1 DEF Cancel
    <3>3. QED
      BY <1>2, <3>2 DEF Engine
  <2>4. QED
    BY <1>2, <2>2, <2>3, DueBesideOne
<1>6. CASE RunNextIteration
  <2>1. ASSUME Failed(e, c)
        PROVE  ArrivedAreDue(c)
    <3>1. c.requests = e.requests /\ c.clock = e.clock
      BY <1>2, <2>1, FailedKeeps
    <3>2. c.arrived = e.arrived
      <4>1. PICK cause \in Causes : c = Fail(e, cause)
        BY <2>1 DEF Failed
      <4>2. QED
        BY <1>2, <4>1 DEF Fail, Engine
    <3>3. QED
      BY <1>2, <3>1, <3>2 DEF ArrivedAreDue, Submitted
  <2>2. ASSUME Slept(e, c)
        PROVE  ArrivedAreDue(c)
    <3>1. PICK work, end : /\ work = EmptyWork /\ Workload(e, Arrivals(e), work)
                           /\ Advanced(e, Arrivals(e), work, end, c)
      BY <2>2, NothingIsWorkload DEF Slept
    <3>2. QED
      BY <1>2, <3>1, ArrivalsStay
  <2>3. ASSUME NEW plan, Ran(e, plan, c)
        PROVE  ArrivedAreDue(c)
    <3>1. PICK end : Workload(e, Arrivals(e), plan) /\ Advanced(e, Arrivals(e), plan, end, c)
      BY <2>3 DEF Ran
    <3>2. QED
      BY <1>2, <3>1, ArrivalsStay
  <2>4. c = e \/ Failed(e, c) \/ Slept(e, c) \/ \E plan : Ran(e, plan, c)
    BY <1>1, <1>2, <1>6, RunFacts
  <2>5. QED
    BY <1>1, <1>2, <2>1, <2>2, <2>3, <2>4
<1>7. QED
  BY <1>1, <1>3, <1>4, <1>5, <1>6 DEF Next

\* The waiting requests that are prefilled.
Prefills(e, c) == {r \in InPhase(e, {"Waiting"}) : c.requests[r].admitted # None}

\* They are those that the work prefills.
LEMMA PrefillsOfWork ==
  ASSUME NEW e, EngineInv(e), NEW arrivals, NEW work, Workload(e, arrivals, work),
         NEW end, NEW c, Advanced(e, arrivals, work, end, c)
  PROVE  Prefills(e, c) = InPhase(e, {"Waiting"}) \cap IdsOf(work.items)
<1>1. /\ \A r \in Requests \ IdsOf(work.items) : c.requests[r] = e.requests[r]
      /\ \A i \in Range(work.items) : Worked(e, i, c.requests[i.id])
  BY AdvancedRequests
<1>2. ASSUME NEW r \in InPhase(e, {"Waiting"}), r \notin IdsOf(work.items)
      PROVE  c.requests[r].admitted = None
  <2>1. r \in Submitted(e) /\ e.requests[r].state = "Waiting" /\ r \in Requests
    BY <1>2 DEF InPhase, Submitted
  <2>2. e.requests[r].admitted = None
    BY <2>1 DEF EngineInv, Lifecycle
  <2>3. QED
    BY <1>1, <1>2, <2>1, <2>2
<1>3. ASSUME NEW r \in IdsOf(work.items)
      PROVE  c.requests[r].admitted # None
  BY <1>1, <1>3 DEF IdsOf, Worked
<1>4. QED
  BY <1>2, <1>3 DEF Prefills

\* Who keeps its record is not prefilled.
LEMMA KeptIsNotPrefilled ==
  ASSUME NEW e, EngineInv(e), NEW r \in InPhase(e, {"Waiting"}), NEW c,
         c.requests[r] = e.requests[r]
  PROVE  r \notin Prefills(e, c)
BY DEF Prefills, InPhase, EngineInv, Lifecycle

\* The action of EqualRequestsInOrder.
OrderStep ==
  \A r \in PrefilledNow, other \in InPhase(engine, {"Waiting"}) :
    engine.requests[other].prompt = engine.requests[r].prompt /\ Earlier(engine, other, r)
      => other \in PrefilledNow

\* Nobody is prefilled but by a batch, and a batch keeps the order.
LEMMA StepKeepsOrder ==
  ASSUME BatchingInv, ArrivedAreDue(engine), Next
  PROVE  OrderStep
<1>1. PICK e, c : e = engine /\ c = engine'
  OBVIOUS
<1>2. EngineInv(e) /\ EngineInv(engine) /\ Sound(e) /\ ArrivedAreDue(e)
  BY <1>1 DEF BatchingInv, EngineInv
<1>3. PrefilledNow = Prefills(e, c)
  BY <1>1 DEF PrefilledNow, Prefills
<1>4. Prefills(e, c) = {} => OrderStep
  BY <1>3 DEF OrderStep
<1>5. ASSUME NEW r \in Requests, NEW q \in Request, Lifecycle(q), Replaced(e, c, r, q),
             r \in InPhase(e, {"Waiting"}) => q.admitted = None
      PROVE  OrderStep
  <2>1. c.requests[r] = q /\ \A s \in Requests \ {r} : c.requests[s] = e.requests[s]
    BY <1>2, <1>5, OneRequest
  <2>2. ASSUME NEW s \in InPhase(e, {"Waiting"})
        PROVE  s \notin Prefills(e, c)
    <3>1. CASE s = r
      BY <1>5, <2>1, <2>2, <3>1 DEF Prefills
    <3>2. CASE s # r
      <4>1. c.requests[s] = e.requests[s]
        BY <2>1, <2>2, <3>2 DEF InPhase, Submitted
      <4>2. QED
        BY <1>2, <2>2, <4>1, KeptIsNotPrefilled
    <3>3. QED
      BY <3>1, <3>2
  <2>3. Prefills(e, c) = {}
    BY <2>2 DEF Prefills
  <2>4. QED
    BY <1>4, <2>3
<1>6. ASSUME NEW r \in Requests, NEW arrival \in ArrivalTimes, NEW prompt \in Prompts,
             NEW limit \in OutputLimits, Submit(r, arrival, prompt, limit)
      PROVE  OrderStep
  <2>1. PICK q : q = NewRequest(arrival, prompt, limit)
    OBVIOUS
  <2>2. Replaced(e, c, r, q) /\ q \in Request /\ Lifecycle(q) /\ r \notin Submitted(e)
    BY <1>1, <1>2, <1>6, <2>1, SubmitFacts
  <2>3. r \notin InPhase(e, {"Waiting"})
    BY <2>2 DEF InPhase
  <2>4. QED
    BY <1>5, <2>2, <2>3
<1>7. ASSUME NEW r \in Requests, Cancel(r)
      PROVE  OrderStep
  <2>1. PICK q : q = Cancelled(e, r)
    OBVIOUS
  <2>2. Replaced(e, c, r, q) /\ q \in Request /\ Lifecycle(q)
    BY <1>1, <1>2, <1>7, <2>1, CancelFacts
  <2>3. r \in InPhase(e, {"Waiting"}) => q.admitted = None
    <3>1. ASSUME r \in InPhase(e, {"Waiting"})
          PROVE  q.admitted = None
      <4>1. e.requests[r] \in Request /\ e.requests[r].admitted = None
        BY <1>2, <3>1 DEF InPhase, EngineInv, Sound, Lifecycle
      <4>2. q.admitted = e.requests[r].admitted
        BY <2>1, <4>1 DEF Cancelled, Request
      <4>3. QED
        BY <4>1, <4>2
    <3>2. QED
      BY <3>1
  <2>4. QED
    BY <1>5, <2>2, <2>3
<1>8. CASE RunNextIteration
  <2>1. ASSUME c.requests = e.requests
        PROVE  OrderStep
    <3>1. Prefills(e, c) = {}
      BY <1>2, <2>1, KeptIsNotPrefilled DEF Prefills
    <3>2. QED
      BY <1>4, <3>1
  <2>2. ASSUME Slept(e, c)
        PROVE  OrderStep
    <3>1. PICK arrivals, work, end :
            /\ work = EmptyWork /\ Workload(e, arrivals, work) /\ Advanced(e, arrivals, work, end, c)
      BY <2>2, NothingIsWorkload DEF Slept
    <3>2. Prefills(e, c) = InPhase(e, {"Waiting"}) \cap IdsOf(work.items)
      BY <1>2, <3>1, PrefillsOfWork
    <3>3. work.items = <<>>
      BY <3>1 DEF EmptyWork
    <3>4. QED
      BY <1>4, <3>2, <3>3, EmptySequence
  <2>3. ASSUME NEW plan, Ran(e, plan, c)
        PROVE  OrderStep
    <3>1. PICK arrivals, ids, end :
            /\ arrivals = Arrivals(e) /\ ids = Runnable(e, arrivals) /\ plan = Plan(e, ids)
            /\ Workload(e, arrivals, plan) /\ Advanced(e, arrivals, plan, end, c)
      BY <2>3 DEF Ran
    <3>2. plan.outcome = "ok"
      BY <1>1, <1>2, <1>8, <2>3, RanIsOk
    <3>3. Prefills(e, c) = InPhase(e, {"Waiting"}) \cap IdsOf(plan.items)
      <4>1. EngineInv(e) /\ Workload(e, arrivals, plan) /\ Advanced(e, arrivals, plan, end, c)
        BY <1>2, <3>1
      <4>2. QED
        BY ONLY <4>1, PrefillsOfWork
    <3>4. ids \in SUBSET InPhase(e, {"Waiting", "Decoding"})
      BY <3>1 DEF Runnable, InPhase
    <3>5. ASSUME NEW b \in Prefills(e, c), NEW a \in InPhase(e, {"Waiting"}),
                 e.requests[a].prompt = e.requests[b].prompt, Earlier(e, a, b)
          PROVE  a \in Prefills(e, c)
      <4>1. b \in InPhase(e, {"Waiting"}) /\ b \in IdsOf(plan.items)
        BY <3>3, <3>5
      <4>2. PICK item \in Range(plan.items) : item.id = b
        BY <4>1 DEF IdsOf
      <4>3. b \in arrivals
        <5>1. IsWaiting(e, b)
          BY <4>1 DEF InPhase, IsWaiting
        <5>2. QED
          BY <3>1, <4>2, <5>1 DEF Workload
      <4>4. a \in arrivals
        BY <1>2, <3>1, <3>5, <4>1, <4>3, EarlierHasArrived
      <4>5. a \in ids /\ b \in ids
        BY <3>1, <3>5, <4>1, <4>3, <4>4 DEF Runnable
      <4>6. Twins(e, a, b)
        BY <3>5, <4>1 DEF Twins
      <4>7. a \in IdsOf(plan.items)
        BY <1>2, <3>1, <3>2, <3>4, <3>5, <4>1, <4>5, <4>6, TwinsInOrder
      <4>8. QED
        BY <3>3, <3>5, <4>7
    <3>6. QED
      BY <1>1, <1>3, <3>5 DEF OrderStep
  <2>4. Failed(e, c) => c.requests = e.requests
    BY <1>2, FailedKeeps
  <2>5. c = e \/ Failed(e, c) \/ Slept(e, c) \/ \E plan : Ran(e, plan, c)
    BY <1>1, <1>2, <1>8, RunFacts
  <2>6. QED
    BY <2>1, <2>2, <2>3, <2>4, <2>5
<1>9. QED
  BY <1>6, <1>7, <1>8 DEF Next

\* build_from_candidates puts off a prompt that finds no room and goes on: even so the later
\* of two requests with the same prompt is not prefilled before the other.
THEOREM EqualPromptsKeepTheirOrder == Spec => EqualRequestsInOrder
<1>1. Init => ArrivedAreDue(engine)
  BY DEF Init, ArrivedAreDue
<1>2. BatchingInv /\ ArrivedAreDue(engine) /\ [Next]_vars => ArrivedAreDue(engine)'
  <2>1. BatchingInv => EngineInv(engine)
    BY DEF BatchingInv
  <2>2. ArrivedAreDue(engine)' <=> ArrivedAreDue(engine')
    BY DEF ArrivedAreDue, Submitted
  <2>3. QED
    BY <2>1, <2>2, ArrivedStayDue
<1>3. BatchingInv /\ ArrivedAreDue(engine) /\ [Next]_vars => [OrderStep]_vars
  BY StepKeepsOrder
<1>4. EqualRequestsInOrder <=> [][OrderStep]_vars
  BY DEF EqualRequestsInOrder, OrderStep
<1>5. QED
  BY <1>1, <1>2, <1>3, <1>4, InductiveInvariant, PTL DEF Spec

=============================================================================
