--------------------------- MODULE MCReleaseLoop ----------------------------
(***************************************************************************)
(* Two deferred rows for two agents, quarters of a second, and a clock of  *)
(* four seconds: every order of two moments in the same and in different   *)
(* seconds, and time for the backstop after the last of them.              *)
(***************************************************************************)
EXTENDS ReleaseLoop

CONSTANTS a1, a2

TwoAgents == {a1, a2}
OnePerAgent == [t \in Tasks |-> IF t = 1 THEN a1 ELSE a2]
=============================================================================
