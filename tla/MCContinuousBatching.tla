------------------------ MODULE MCContinuousBatching ------------------------
(* Small instances of ContinuousBatching for TLC. *)
EXTENDS ContinuousBatching

CONSTANTS c1, c2

Root == <<>>
Hashes == BoundedSeq(Chunks, 2)

\* Collision-free: the hash of a block is the chunk sequence it ends.
InjectiveHash ==
  [k \in Hashes \X Chunks |-> IF Len(k[1]) < 2 THEN Append(k[1], k[2]) ELSE k[1]]

Exact(chunks, tail) == [exact |-> TRUE, chunks |-> chunks, tail |-> tail]
CountOnly(tokens) == [exact |-> FALSE, chunks |-> <<>>, tail |-> tokens]

MixedPrompts  == {Exact(<<c1>>, 0), CountOnly(3)}
NestedPrompts == {Exact(<<c1>>, 0), Exact(<<c1, c2>>, 1)}
\* Two requests with one token each stall on each other.
LargePrompts  == NestedPrompts \cup {CountOnly(1), CountOnly(3)}
=============================================================================
