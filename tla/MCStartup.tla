------------------------------ MODULE MCStartup ------------------------------
(***************************************************************************)
(* A process of the old release, two of the new release, which adds a      *)
(* migration, and one of a release that adds two others instead and has    *)
(* another term configured, in mixed case.                                 *)
(***************************************************************************)
EXTENDS Startup

CONSTANTS old, new, twin, fork, base, next, other, last, autumn, Spring, spring

MCShips ==
  [p \in {old, new, twin, fork} |-> CASE p = old          -> <<base>>
                                      [] p \in {new, twin} -> <<base, next>>
                                      [] p = fork         -> <<base, other, last>>]
MCTermCode == [p \in {old, new, twin, fork} |-> IF p = fork THEN Spring ELSE autumn]
MCNormal == [c \in {autumn, Spring, spring} |-> IF c = autumn THEN autumn ELSE spring]
=============================================================================
