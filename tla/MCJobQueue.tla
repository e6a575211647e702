----------------------------- MODULE MCJobQueue -----------------------------
(***************************************************************************)
(* Two process slots, two jobs (promotions of one section and session      *)
(* sweeps), a budget of two attempts, a lease of two ticks.                *)
(***************************************************************************)
EXTENDS JobQueue

CONSTANTS w1, w2, mathA
=============================================================================
