----------------------------- MODULE MCSymDict -----------------------------
(* SymDict for TLC: two names and "$", up to four bindings in four scopes   *)
EXTENDS SymDict, TLC

CONSTANTS a, b, this

MCNames == {a, b}
Symmetry == Permutations(MCNames)
=============================================================================
