----------------------------- MODULE CheckedMath -----------------------------
(***************************************************************************)
(* checked_add and checked_multiply (src/serving/simulated_backend.cpp) on *)
(* signed integers of the width that IntMax implies.  Each yields a number *)
(* or Overflow; the tests are those of the code, written so that none of   *)
(* them overflows itself.                                                  *)
(***************************************************************************)
EXTENDS Integers

CONSTANTS
  IntMax,    \* std::numeric_limits<std::int64_t>::max()
  Overflow   \* std::overflow_error

ASSUME IntMaxAssumption == IntMax \in Nat \ {0}

IntMin == -IntMax - 1
Machine == IntMin .. IntMax

ASSUME OverflowAssumption == Overflow \notin Int

\* C++ division of signed integers truncates towards zero.
Magnitude(n) == IF n < 0 THEN -n ELSE n
Quotient(n, d) ==
  LET q == Magnitude(n) \div Magnitude(d)
  IN  IF (n < 0) = (d < 0) THEN q ELSE -q

\* Defect: only sums that are too large are refused.
AddOverflowsAbove(lhs, rhs) == rhs > 0 /\ lhs > IntMax - rhs

AddOverflows(lhs, rhs) ==
  \/ rhs > 0 /\ lhs > IntMax - rhs
  \/ rhs < 0 /\ lhs < IntMin - rhs

CheckedAdd(lhs, rhs) == IF AddOverflows(lhs, rhs) THEN Overflow ELSE lhs + rhs

MultiplyOverflows(lhs, rhs) ==
  \/ lhs = -1 /\ rhs = IntMin
  \/ rhs = -1 /\ lhs = IntMin
  \/ lhs > 0 /\ rhs > 0 /\ lhs > Quotient(IntMax, rhs)
  \/ lhs > 0 /\ rhs < 0 /\ rhs < Quotient(IntMin, lhs)
  \/ lhs < 0 /\ rhs > 0 /\ lhs < Quotient(IntMin, rhs)
  \/ lhs < 0 /\ rhs < 0 /\ lhs < Quotient(IntMax, rhs)

CheckedMultiply(lhs, rhs) ==
  IF lhs = 0 \/ rhs = 0 THEN 0
  ELSE IF MultiplyOverflows(lhs, rhs) THEN Overflow ELSE lhs * rhs

\* checked_count: an unsigned count as a signed number.
CheckedCount(count) == IF count > IntMax THEN Overflow ELSE count

\* Sums and products of results that may be Overflow already: the first
\* overflow ends the computation.
Plus(x, y)  == IF x = Overflow \/ y = Overflow THEN Overflow ELSE CheckedAdd(x, y)
Times(x, y) == IF x = Overflow \/ y = Overflow THEN Overflow ELSE CheckedMultiply(x, y)
=============================================================================
