------------------------------ MODULE MCJitRun ------------------------------
(* JitRun for TLC: small pools of registers, with the argument registers    *)
(* among the scratch registers as they are on x86-64, and 12 bit words      *)
EXTENDS JitRun

MCScratch == <<"R10", "RSI", "RDI">>
MCSaved == <<"R12">>
MCArgRegs == <<"RDI", "RSI">>

(* calls in arguments, arrays and indices, as the resolver lets them pass *)
Calls == [statements |-> {"eq", "call"}, operators |-> {"osb", "array", "call", "eq"},
          numbers |-> {1, 25}, nodes |-> 10]
(* operators and branches; a power of two and a number too large for an     *)
(* immediate are among the numbers                                          *)
Arithmetic == [statements |-> {"eq", "addeq", "if", "return"},
               operators |-> {"sub", "mul", "less", "call"},
               numbers |-> {0, 4, 25}, nodes |-> 9]
(* loops, with a branch or a return in them *)
Loops == [statements |-> {"addeq", "if", "while", "return"}, operators |-> {"less"},
          numbers |-> {1, 3}, nodes |-> 10]
(* assignments and nothing else *)
Assignments == [statements |-> {"eq"}, operators |-> {}, numbers |-> {1, 25}, nodes |-> 6]

MCLanguages == {Calls, Arithmetic, Loops}
MCAssignments == {Assignments}
=============================================================================
