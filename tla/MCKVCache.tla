------------------------------ MODULE MCKVCache ------------------------------
(* Small instances of KVCache for TLC. *)
EXTENDS KVCache

CONSTANTS c1, c2, r1, r2, r3

Root == <<>>

Hashes == BoundedSeq(Chunks, 2)

\* Collision-free: the hash of a block is the chunk sequence it ends.
InjectiveHash ==
  [k \in Hashes \X Chunks |-> IF Len(k[1]) < 2 THEN Append(k[1], k[2]) ELSE k[1]]

\* Every key collides (but not with the root).
ConstantHash == [k \in Hashes \X Chunks |-> <<c1>>]

P(chunks, tail) == [chunks |-> chunks, tail |-> tail]
NestedPrompts == {P(<<c1>>, 0), P(<<c1, c2>>, 1)}
ThreePrompts  == {P(<<c1>>, 0), P(<<c1, c2>>, 1), P(<<c2>>, 1)}
ForkPrompts   == {P(<<c1, c1>>, 0), P(<<c2>>, 0), P(<<c2, c1>>, 0)}

Symmetry == Permutations(Requests)
=============================================================================
