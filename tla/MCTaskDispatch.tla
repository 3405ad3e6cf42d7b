--------------------------- MODULE MCTaskDispatch ---------------------------
(***************************************************************************)
(* Instances of TaskDispatch for TLC.                                      *)
(***************************************************************************)
EXTENDS TaskDispatch, TLC

CONSTANTS a1, t1, t2

OneAgent == {a1}
OneTask  == {t1}
TwoTasks == {t1, t2}

AllToA1      == [t \in Tasks |-> a1]
SamePriority == [t \in Tasks |-> 0]
Ascending    == [t \in Tasks |-> IF t = t1 THEN 0 ELSE 1]

\* At most so many cancel requests and faults of each kind, ...
UpTo(cancels, kinds) ==
    {s \in [Bounded -> 0..2] :
        \A k \in Bounded : s[k] <= (IF k = "cancel" THEN cancels
                                    ELSE IF k \in kinds THEN 1 ELSE 0)}

\* ... or one fault in all.
OneOf(kinds) == {s \in UpTo(0, kinds) : Cardinality({k \in kinds : s[k] > 0}) <= 1}

AnyFault    == OneOf({"networkError", "writeError", "agentRestart", "serverRestart"})
CancelFault == UpTo(1, {"writeError"})
CacheFault  == OneOf({"writeError", "prune"})
NoFault     == UpTo(0, {})

ConnSymmetry == Permutations(Conns) \cup Permutations(Handlers)
=============================================================================
