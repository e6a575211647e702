---------------------------- MODULE MCLifecycle ----------------------------
(***************************************************************************)
(* A process with its worker enabled and two requests.                     *)
(***************************************************************************)
EXTENDS Lifecycle

CONSTANTS r1, r2
=============================================================================
