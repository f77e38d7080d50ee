----------------------------- MODULE MCSession ------------------------------
(* Session for TLC: one file beside the program's own, pages of 4 bytes     *)
EXTENDS Session

Number == Pointer("int")
Uint8 == Pointer("uint8")
MCSimple == {"void", "int", "uint8", "uint32"}
MCCallbacks == {"meta_this", "stack", "printf"}
MCLeftover == {Uint8, EntryAt(2)}

(* a function of what is not known, those that take the first and the       *)
(* second entry that a host makes, and a callback                           *)
MCHostTypes == {FunctionType(<<Number, Null>>, 1),
                FunctionType(<<Number, EntryAt(2)>>, 1), MetaType("printf"),
                FunctionType(<<Number, EntryAt(3)>>, 1)}
MCElements == {Null, Number, EntryAt(2)}
MCSignatures == {[ret |-> "int", call |-> FALSE, args |-> <<>>],
                 [ret |-> "pointer", call |-> FALSE, args |-> <<>>],
                 [ret |-> "other", call |-> FALSE, args |-> <<>>],
                 [ret |-> "void", call |-> TRUE, args |-> <<"pointer", "int">>]}
=============================================================================
