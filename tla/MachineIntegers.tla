-------------------------- MODULE MachineIntegers ---------------------------
(***************************************************************************)
(* The unsigned 64-bit integers of the program, with the largest one as a  *)
(* parameter.                                                              *)
(***************************************************************************)
EXTENDS Integers

CONSTANT MaxU64         \* largest value of the code's u64

ASSUME WidthAssumption == MaxU64 \in Nat

U64 == 0..MaxU64

saturating_mul(x, y) == IF x * y \in U64 THEN x * y ELSE MaxU64
saturating_add(x, y) == IF x + y \in U64 THEN x + y ELSE MaxU64
saturating_sub(x, y) == IF x >= y THEN x - y ELSE 0

\* Sums and products that overflow wrap around, as in the release build.
Wrapped(n) == n % (MaxU64 + 1)
=============================================================================
