----------------------------- MODULE MCSessions -----------------------------
(***************************************************************************)
(* Two sessions that live one second, on a clock of half seconds, so that  *)
(* a stored instant has no fraction or one digit; two concurrent requests, *)
(* sweeps of one row at a time.                                            *)
(***************************************************************************)
EXTENDS Sessions, TLC

CONSTANTS r1, r2

Slots == Permutations({r1, r2})
=============================================================================
