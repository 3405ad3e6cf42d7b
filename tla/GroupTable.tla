----------------------------- MODULE GroupTable -----------------------------
(***************************************************************************)
(* Agent groups: the tables groups and group_members.  One SQLite          *)
(* connection serves all requests, so a statement or a transaction is a    *)
(* step and two statements of one request are two.                         *)
(***************************************************************************)
EXTENDS Naturals

CONSTANT GroupIds

VARIABLE groups        \* the row of a group with its members, and who wrote it when

\* What an id has when there is no such group, in every field.
NoGroup == [name |-> "", members |-> {}, by |-> "", written |-> 0]

Exists(g) == groups[g] # NoGroup

\* Whether the constraints hold: a name is unique, and a member is listed once.
Acceptable(g, name, repeats) ==
    ~repeats /\ \A h \in GroupIds \ {g} : groups[h].name # name

\* Mutant: no transaction, so the old members are gone when an insert fails.
CreateOrUpdateGroupLoose(g, name, members, repeats, c, now) ==
    IF Acceptable(g, name, repeats)
    THEN groups' = [groups EXCEPT ![g] =
            [name |-> name, members |-> members, by |-> c, written |-> now]]
    ELSE groups' = [groups EXCEPT ![g].members = {}]

\* CreateOrUpdateGroup, one transaction: the row is put, all members go, the new
\* ones come; or a constraint is broken and nothing is changed.
CreateOrUpdateGroup(g, name, members, repeats, c, now) ==
    IF Acceptable(g, name, repeats)
    THEN groups' = [groups EXCEPT ![g] =
            [name |-> name, members |-> members, by |-> c, written |-> now]]
    ELSE UNCHANGED groups

\* Who is in which group.
Membership == {ga \in GroupIds \X UNION {groups[g].members : g \in GroupIds} :
                ga[2] \in groups[ga[1]].members}
=============================================================================
