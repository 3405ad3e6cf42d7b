--------------------------- MODULE MCPluginEvents ---------------------------
(***************************************************************************)
(* Four events of different sizes, one of them larger than the store.      *)
(***************************************************************************)
EXTENDS PluginEvents

CONSTANTS e1, e2, e3, e4

FourEvents == {e1, e2, e3, e4}
Sizes == [e \in FourEvents |-> CASE e = e1 -> 1 [] e = e2 -> 2 [] e = e3 -> 2 [] e = e4 -> 4]
=============================================================================
