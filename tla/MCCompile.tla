----------------------------- MODULE MCCompile ------------------------------
(* Compile for TLC: one name of the source, "$", the callbacks of main.c,   *)
(* and a meta symbol that can be called and indexed                         *)
EXTENDS Compile

CONSTANTS nx, nf, ns, np

T(tok) == [tok |-> tok, val |-> 0]
Num(n) == [tok |-> "num", val |-> n]
Str(n) == [tok |-> "str", val |-> n]
Id(n)  == [tok |-> "id", val |-> n]

Host == Meta(<<>>, Answer("value", IntType, 0), Answer("function", IntType, 1))
Callback(name) == Meta(<<>>, NoAnswer, [res |-> name])
Symbol(name, type) == [name |-> name, scope |-> 0, type |-> type]

MCMembers == {nx}
MCHosts == <<Symbol("$", meta_this), Symbol(nf, Host), Symbol(ns, Callback("sizeof")),
             Symbol(np, Callback("printf"))>>

(* a text of one mark, and one without *)
MCMarks == <<1, 0>>

MCTokens == {Id(nx), Id(nf), Num(1), Str(1), T("this"), T("call"), T("crb"), T("comma"),
             T("eq"), T("add"), T("mul"), T("dot"), T("osb"), T("csb"), T("nl"), Id(ns), Id(np), Str(2)}

Line == <<T("nl")>>
One == <<Id(nx), T("eq"), Num(1)>>
Array2 == <<Id(nx), T("eq"), T("osb"), Num(1), T("comma"), Num(1), T("csb")>>

(* nothing, an assignment of a number and of an array, and the beginnings   *)
(* of a call, of a member and of an index                                   *)
MCPreambles == {<<>>, One \o Line, Array2 \o Line, <<Id(nf), T("call"), Id(nx), T("comma")>>,
                <<T("this"), T("dot"), Id(nx), T("eq")>>, <<Id(np), T("call"), Str(1)>>}

MCScratch == <<"R10", "RSI">>
MCSaved == <<"R12">>
MCArgRegs == <<"RDI", "RSI">>
=============================================================================
