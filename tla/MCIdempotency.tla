---------------------------- MODULE MCIdempotency ----------------------------
(***************************************************************************)
(* Three concurrent requests with one key and three bodies: two that ask   *)
(* for the same section in different bytes, and one for another section.   *)
(***************************************************************************)
EXTENDS Idempotency, TLC

CONSTANTS r1, r2, r3, compact, spaced, other, mathA, artA

MCSectionOf == [p \in {compact, spaced, other} |-> IF p = other THEN artA ELSE mathA]

Symmetry == Permutations({r1, r2, r3}) \cup Permutations({compact, spaced})
=============================================================================
