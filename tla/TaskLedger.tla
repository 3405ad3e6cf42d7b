----------------------------- MODULE TaskLedger -----------------------------
(***************************************************************************)
(* What an operator may rely on, without sessions, frames, sweeps, caches  *)
(* and restarts: the row of a task, its verdict and who gave it, whether   *)
(* its release moment has come, and how often the command was started.     *)
(*                                                                         *)
(*   - no command starts, and no row counts as dispatched, before its      *)
(*     release;                                                            *)
(*   - one step changes one row, and a row becomes terminal together with  *)
(*     its verdict;                                                        *)
(*   - an agent's verdict is accepted by an open row only, and a command   *)
(*     has been started, unless the agent refused ("failed");              *)
(*   - the reaper times out a dispatched row and cancels one whose cancel  *)
(*     was requested.                                                      *)
(***************************************************************************)
EXTENDS Naturals

CONSTANT Tasks

VARIABLES
    row,               \* the state of a task
    verdict, by,       \* its result, and who decided
    released,          \* tasks whose moment has come
    runs               \* how often the command was started

vars == <<row, verdict, by, released, runs>>

Open == {"queued", "dispatched", "cancel_requested"}

Init ==
    /\ row = [t \in Tasks |-> "none"]
    /\ verdict = [t \in Tasks |-> "none"]
    /\ by = [t \in Tasks |-> "none"]
    /\ released = {}
    /\ runs = [t \in Tasks |-> 0]

\* A row moves without a verdict.
Moves(t, s) ==
    /\ row' = [row EXCEPT ![t] = s]
    /\ UNCHANGED <<verdict, by, released, runs>>

\* A row is settled: its state and its verdict in one step.
Settles(t, s, who) ==
    /\ row' = [row EXCEPT ![t] = s]
    /\ verdict' = [verdict EXCEPT ![t] = s]
    /\ by' = [by EXCEPT ![t] = who]
    /\ UNCHANGED <<released, runs>>

\* An operator asks for a command, now or later, ...
Submit(t) ==
    /\ row[t] = "none"
    /\ row' = [row EXCEPT ![t] = "queued"]
    /\ released' \in {released, released \cup {t}}
    /\ UNCHANGED <<verdict, by, runs>>

\* ... its moment comes, for several tasks at once, ...
Release ==
    /\ released' \in SUBSET Tasks /\ released \subseteq released'
    /\ \A t \in released' : row[t] # "none"
    /\ UNCHANGED <<row, verdict, by, runs>>

\* ... it is handed to its agent, and may come back from a failed session.
Dispatch(t) == t \in released /\ row[t] = "queued" /\ Moves(t, "dispatched")
Return(t)   == t \in released /\ Moves(t, "queued")

\* A command is started.
Start(t) ==
    /\ t \in released
    /\ runs' = [runs EXCEPT ![t] = @ + 1]
    /\ UNCHANGED <<row, verdict, by, released>>

\* The agent answers.
Answer(t, s) ==
    /\ row[t] \in Open
    /\ s # "failed" => runs[t] > 0
    /\ Settles(t, s, "agent")

\* The operator cancels: a row that waits at once, another by a request.
Cancel(t) ==
    /\ row[t] # "none"
    /\ Settles(t, "canceled", "operator") \/ Moves(t, "cancel_requested")

\* The reaper gives up.
Expire(t) ==
    \/ row[t] = "dispatched" /\ Settles(t, "timeout", "reaper")
    \/ row[t] = "cancel_requested" /\ Settles(t, "canceled", "reaper")

Next ==
    \/ Release
    \/ \E t \in Tasks :
        \/ Submit(t) \/ Dispatch(t) \/ Return(t) \/ Start(t) \/ Cancel(t) \/ Expire(t)
        \/ \E s \in {"success", "failed", "timeout", "canceled"} : Answer(t, s)

Spec == Init /\ [][Next]_vars
=============================================================================
