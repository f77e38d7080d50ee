------------------------------ MODULE MCSymTab ------------------------------
(* SymTab for TLC.  The program starts with room for two variables; with    *)
(* room for one, three variables go through two rebuilds and fill a table   *)
(* to its last slot.  The hash puts most keys into the last slot, so that   *)
(* probes collide and wrap around.                                          *)
EXTENDS SymTab

CONSTANTS a, b, this

MCNames == {a, b}

MCHashSlot(nm, s, c) == ((IF nm = b THEN 2 ELSE 3) + 4 * s) % c
=============================================================================
