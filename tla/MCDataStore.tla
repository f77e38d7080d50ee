---------------------------- MODULE MCDataStore ----------------------------
(* DataStore for TLC: a text, its beginning and the empty one, slots of two *)
(* bytes, two modules, one of which may import the other                    *)
EXTENDS DataStore

MCTexts == {<<>>, <<1>>, <<1, 2>>}
=============================================================================
