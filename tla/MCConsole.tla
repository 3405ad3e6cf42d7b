----------------------------- MODULE MCConsole -----------------------------
(***************************************************************************)
(* Instances of Console for TLC: two agents, a group of one and an empty   *)
(* one, and three invocations at a time.                                   *)
(***************************************************************************)
EXTENDS Console, TLC

CONSTANTS c1, c2, c3, g1, g2

Three == {c1, c2, c3}

TwoGroups == (g1 :> [name |-> "n1", members |-> {1}, by |-> "", written |-> 0]) @@
             (g2 :> [name |-> "n2", members |-> {}, by |-> "", written |-> 0])

Create(g, n, m, r) == [do |-> "create", group |-> g, name |-> n, members |-> m,
                       repeats |-> r, token |-> TRUE]
Add(g, i, ok)      == [do |-> "add", group |-> g, ids |-> i, token |-> ok]
Remove(g, i)       == [do |-> "remove", group |-> g, ids |-> i, token |-> TRUE]
Run(g, a, w, ok)   == [do |-> "run", groups |-> g, agents |-> a, wait |-> w, yes |-> TRUE,
                       token |-> ok]
Hasty(g)           == [Run(g, {}, FALSE, TRUE) EXCEPT !.yes = FALSE]
Cancel(t)          == [do |-> "cancel", task |-> t, token |-> TRUE]

Nothing            == [do |-> "nothing"]

Episode(days, mishaps, x, y, z) ==
    [days |-> days, faults |-> mishaps, ask |-> (c1 :> x) @@ (c2 :> y) @@ (c3 :> z)]

\* An agent is moved from one group to the other while a run names both; edits of
\* one group overlap, and a create takes a name or lists a member twice; a run is
\* waited for and canceled; requests without a token or without --yes.
SomeDays == {
    Episode(0, 0, Run(<<g1, g2>>, {}, FALSE, TRUE), Create(g2, "n2", {1}, FALSE),
                  Create(g1, "n1", {}, FALSE)),
    Episode(0, 0, Add(g1, {2}, TRUE), Remove(g1, {1}), Create(g2, "n1", {1, 2}, FALSE)),
    Episode(2, 0, Add(g1, {2}, TRUE), Create(g1, "n1", {2}, TRUE), Nothing),
    Episode(0, 1, Add(g1, {2}, TRUE), Create(g1, "n1", {2}, TRUE), Nothing),
    Episode(2, 0, Run(<<g1>>, {}, TRUE, TRUE), Cancel(<<c1, 1>>), Nothing),
    Episode(0, 1, Run(<<g1>>, {}, TRUE, TRUE), Cancel(<<c1, 1>>), Nothing),
    Episode(0, 1, Run(<<>>, {1, 2}, TRUE, TRUE), Nothing, Nothing),
    Episode(0, 1, Run(<<>>, {1}, FALSE, FALSE), Add(g1, {2}, FALSE), Hasty(<<g1>>)),
    Episode(2, 1, Nothing, Run(<<g1>>, {}, FALSE, TRUE), Nothing) }
============================================================================
