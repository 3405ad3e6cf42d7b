----------------------------- MODULE AuditTrail -----------------------------
(***************************************************************************)
(* What the server keeps about the past: the rows of tasks and their       *)
(* results, the operation log, and the retention pass over all three.      *)
(*                                                                         *)
(* Time is counted in days; a row is stamped with the day it is written.   *)
(* What happens to an open task between its creation and its verdict is    *)
(* TaskDispatch, which implements TaskLedger; here the row of an open task *)
(* is settled at some time, together with its result.                      *)
(***************************************************************************)
EXTENDS Naturals, FiniteSets

CONSTANTS
    Calls,             \* invocations of the CLI
    Agents,            \* agent ids, numbers: targets are sorted
    None,              \* no row, no value
    Retention,         \* audit_retention_days; 0 would switch the pass off
    MaxDay,            \* bound on the clock
    MaxFaults          \* bound on the faults in a behaviour

ASSUME RetentionAssumption == Retention \in Nat \ {0}

VARIABLES
    day,               \* the clock
    pruneDue,          \* a retention pass is to run: at startup and every day
    row,               \* tasks: the row of the task a call made for an agent
    verdict,           \* task_results: its result
    oplog,             \* the rows of the operation log
    loose,             \* results whose agent-plane row a goroutine has yet to write:
                       \* the task, and whether the result was applied
    unlogged,          \* rows that were lost: the insert failed, or the server died
    won,               \* tasks that ever had the verdict "success"
    faults             \* faults so far

auditVars == <<day, pruneDue, row, verdict, oplog, loose, unlogged, won, faults>>

Terminal == {"success", "failed", "timeout", "canceled"}
Open     == {"queued", "dispatched", "cancel_requested"}
TaskIds  == Calls \X Agents

\* The start of the server, with so many days and faults to come.
AuditInit(days, mishaps) ==
    /\ day = MaxDay - days /\ pruneDue = TRUE
    /\ row = [t \in TaskIds |-> None]
    /\ verdict = [t \in TaskIds |-> None]
    /\ oplog = {} /\ loose = {} /\ unlogged = {} /\ won = {}
    /\ faults = MaxFaults - mishaps

Fault == faults < MaxFaults /\ faults' = faults + 1

-----------------------------------------------------------------------------
\* A row of the log: about a call (operator plane), a decision of a plugin on a
\* task (plugin plane) or a result (agent plane), and the ids it names.
OpLogEntry(plane, about, ok, refs) ==
    [plane |-> plane, about |-> about, ok |-> ok, refs |-> refs, ts |-> day]

\* appendOpLog: an insert that fails is only logged.
AppendOpLog(entry) ==
    \/ oplog' = oplog \cup {entry} /\ UNCHANGED <<unlogged, faults>>
    \/ Fault /\ unlogged' = unlogged \cup {<<entry.plane, entry.about, entry.ok>>} /\ UNCHANGED oplog

\* Some statement in between, made by the session and its agent: an open row is
\* dispatched, ...
Dispatched(t) ==
    /\ row[t] # None /\ row[t].state = "queued"
    /\ row' = [row EXCEPT ![t].state = "dispatched"]
    /\ UNCHANGED <<day, pruneDue, verdict, oplog, loose, unlogged, won, faults>>

\* ... and SaveResult, one transaction, settles one that has not ended.  The
\* session's goroutine then writes the log row at its leisure.
SaveResult(t, s) ==
    /\ row[t] # None /\ row[t].state \in Open
    /\ row' = [row EXCEPT ![t].state = s]
    /\ verdict' = [verdict EXCEPT ![t] = [status |-> s, by |-> "agent", done |-> day]]
    /\ won' = IF s = "success" THEN won \cup {t} ELSE won
    /\ loose' = loose \cup {<<t, TRUE>>}
    /\ UNCHANGED <<day, pruneDue, oplog, unlogged, faults>>

\* A result that comes late, or once more, is discarded and logged as such.
\* (It counts as one of the faults, so as to bound it.)
Discarded(t) ==
    /\ row[t] # None /\ row[t].state \in Terminal /\ Fault
    /\ loose' = loose \cup {<<t, FALSE>>}
    /\ UNCHANGED <<day, pruneDue, row, verdict, oplog, unlogged, won>>

LogAgentEvent(t, applied) ==
    /\ <<t, applied>> \in loose /\ loose' = loose \ {<<t, applied>>}
    /\ AppendOpLog(OpLogEntry("agent", t, applied, {t}))
    /\ UNCHANGED <<day, pruneDue, row, verdict, won>>

\* Reaping of a dispatched row, or of one whose cancel nobody answered.
Reaped(t) ==
    /\ row[t] # None /\ row[t].state \in {"dispatched", "cancel_requested"}
    /\ LET s == IF row[t].state = "dispatched" THEN "timeout" ELSE "canceled"
       IN  /\ row' = [row EXCEPT ![t].state = s]
           /\ verdict' = [verdict EXCEPT ![t] = [status |-> s, by |-> "reaper", done |-> day]]
    /\ UNCHANGED <<day, pruneDue, oplog, loose, unlogged, won, faults>>

-----------------------------------------------------------------------------
(***************************************************************************)
(* Retention.                                                              *)
(***************************************************************************)
Old(d) == d + Retention < day

\* Mutant: the results are swept before the tasks are gone.
PruneAuditsReversed ==
    /\ pruneDue /\ pruneDue' = FALSE
    /\ row' = [t \in TaskIds |->
                IF row[t] # None /\ row[t].state \in Terminal /\ Old(row[t].born)
                THEN None ELSE row[t]]
    /\ verdict' = [t \in TaskIds |-> IF row[t] = None THEN None ELSE verdict[t]]
    /\ oplog' = {e \in oplog : ~Old(e.ts)}
    /\ UNCHANGED <<day, loose, unlogged, won, faults>>

\* PruneAudits, one transaction: ended tasks that were CREATED before the cutoff,
\* then every result without a task, then old rows of the log.  (Its pass over
\* transfer_audit is of no consequence to what is kept here.)
PruneAudits ==
    /\ pruneDue /\ pruneDue' = FALSE
    /\ row' = [t \in TaskIds |->
                IF row[t] # None /\ row[t].state \in Terminal /\ Old(row[t].born)
                THEN None ELSE row[t]]
    /\ verdict' = [t \in TaskIds |-> IF row'[t] = None THEN None ELSE verdict[t]]
    /\ oplog' = {e \in oplog : ~Old(e.ts)}
    /\ UNCHANGED <<day, loose, unlogged, won, faults>>

\* The prune that fails is rolled back; its turn comes again a day later.
PruneFails ==
    /\ pruneDue /\ pruneDue' = FALSE /\ Fault
    /\ UNCHANGED <<day, row, verdict, oplog, loose, unlogged, won>>

\* A day passes, and the reap loop's ticker with it.
NewDay ==
    /\ ~pruneDue /\ day < MaxDay
    /\ day' = day + 1 /\ pruneDue' = TRUE
    /\ UNCHANGED <<row, verdict, oplog, loose, unlogged, won, faults>>

Keeps ==
    \/ \E t \in TaskIds :
        \/ Dispatched(t) \/ Reaped(t) \/ Discarded(t)
        \/ \E applied \in BOOLEAN : LogAgentEvent(t, applied)
        \/ \E s \in {"success", "failed"} : SaveResult(t, s)
    \/ PruneAudits \/ PruneFails \/ NewDay
=============================================================================
