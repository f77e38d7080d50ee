------------------------------ MODULE MCLexer -------------------------------
(* Lexer for TLC: all sources of up to three characters of an alphabet, of  *)
(* up to four where characters depend on those before them, and some longer *)
(* ones                                                                     *)
EXTENDS Lexer

Alphabet == {" ", "\n", "\r", "\"", "0", "1", "x", "_", "i", "f", ".", "=", "#", "'"}
Dependent == {" ", "\n", "\r", "\"", "0", "1", "x", ".", "="}

MCTexts ==
    BoundedSeq(Alphabet, 3) \cup BoundedSeq(Dependent, 4)
    \cup {<<"#", "\"", "\"", "\n", "i", "=">>, <<"'", "'", "+", "=", "=", "(">>,
          <<"#", "\"", "\r", "\n", "\"", "1", "\r", "\n", "\"", "\"", "i">>,
          <<"0", "x", "f", "_", "a", "b", "9">>, <<"9", "0", "7", "_", "1", "f", "o", "r">>,
          <<"0", "b", "1", "_", "1", "0", "2">>, <<"0", "o", "1", "7", "9", ".", ".", ".">>}
MCImported == {<<"i", "\r", "\n", "\"", "\"", "1">>, <<"#", "\"", "\"", "\n", "=">>}
=============================================================================
