--------------------------- MODULE MCScopePasses ---------------------------
(* ScopePasses for TLC: two names, two modules, so that the second one      *)
(* starts where the first one left the scope                                *)
EXTENDS ScopePasses, TLC

CONSTANTS a, b, this

MCNames == {a, b}
Symmetry == Permutations(MCNames)
=============================================================================
