--------------------------- MODULE SimulatedBackend ---------------------------
(***************************************************************************)
(* The linear cost model of src/serving/simulated_backend.cpp.  An         *)
(* estimate is a number of microseconds or Overflow; a call that the code  *)
(* rejects as an invalid argument (no active sequence, more decoding than  *)
(* scheduled sequences) is outside the domain of the operators.            *)
(***************************************************************************)
EXTENDS CheckedMath

CONSTANTS
  PrefillBase, PrefillPerToken, PrefillPerSequence,
  DecodeBase, DecodePerSequence,
  BatchBase, BatchPerToken, BatchPerDecode, BatchPerSequence

\* validate_configuration
ValidConfiguration ==
  {PrefillBase, PrefillPerToken, PrefillPerSequence, DecodeBase, DecodePerSequence,
   BatchBase, BatchPerToken, BatchPerDecode, BatchPerSequence} \subseteq 0 .. IntMax

ASSUME BackendAssumption == ValidConfiguration

EstimateBatchTime(tokens, decodes, sequences) ==
  Plus(Plus(Plus(BatchBase, Times(BatchPerToken, CheckedCount(tokens))),
            Times(BatchPerDecode, CheckedCount(decodes))),
       Times(BatchPerSequence, CheckedCount(sequences)))

EstimatePrefill(tokens, active) ==
  Plus(Plus(PrefillBase, Times(PrefillPerToken, CheckedCount(tokens))),
       Times(PrefillPerSequence, CheckedCount(active)))

EstimateDecodeStep(active) ==
  Plus(DecodeBase, Times(DecodePerSequence, CheckedCount(active)))

-----------------------------------------------------------------------------
(* Correctness, a part of the engine's CostsAreExact *)

Representable(n) == IF n \in Machine THEN n ELSE Overflow

\* What is exact unless a count does not fit.
ExactCost(counts, cost) == IF \E n \in counts : n > IntMax THEN Overflow ELSE Representable(cost)

\* All counts that an unsigned argument can carry.
Unsigned == 0 .. IntMax - IntMin

\* For every pair of operands checked_add and checked_multiply return the mathematical
\* result, and throw exactly when it does not fit; and the same for the estimates of the
\* backend over all counts: a cost is never wrong by wrapping around, nor refused when
\* it fits.
BackendIsExact ==
  /\ \A lhs, rhs \in Machine :
       /\ CheckedAdd(lhs, rhs) = Representable(lhs + rhs)
       /\ CheckedMultiply(lhs, rhs) = Representable(lhs * rhs)
  /\ \A m \in Unsigned, n \in Unsigned \ {0} :
       /\ EstimatePrefill(m, n) =
            ExactCost({m, n}, PrefillBase + PrefillPerToken * m + PrefillPerSequence * n)
       /\ EstimateDecodeStep(n) = ExactCost({n}, DecodeBase + DecodePerSequence * n)
       /\ \A decodes \in 0 .. n :
            EstimateBatchTime(m, decodes, n) =
              ExactCost({m, decodes, n}, BatchBase + BatchPerToken * m
                                           + BatchPerDecode * decodes + BatchPerSequence * n)
=============================================================================
