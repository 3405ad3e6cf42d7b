---------------------------- MODULE TaskDispatch ----------------------------
(***************************************************************************)
(* How a task gets from an operator's request to a terminal state: the     *)
(* task rows of the server's SQLite store, the HTTP handlers that create   *)
(* and cancel tasks, the read loop of every agent session, the release and *)
(* reap goroutine, the connection between a session and its agent, and the *)
(* agent's reader, task goroutines and result cache.                       *)
(*                                                                         *)
(* A step is one database statement or transaction, one section under a    *)
(* mutex, or one channel operation: whatever the code does between two of  *)
(* them interleaves with every other goroutine.                            *)
(*                                                                         *)
(* Time is kept as countdowns and ages.  `due` is the time left until the  *)
(* store finds the release moment of a task reached, which is within the   *)
(* second of the moment that was drawn (ReleaseLoop); `dispatchedAt` is    *)
(* the age of the stamp in the row (NULL when the column is), which stops  *)
(* growing at MaxAge; ReapAfter is the task's timeout plus the reaper's    *)
(* grace.                                                                  *)
(***************************************************************************)
EXTENDS Naturals, Sequences, FiniteSets

CONSTANTS
    Agents,            \* agent ids
    Tasks,             \* task ids, one per operator request
    Target,            \* the agent a task is addressed to
    Priority,          \* the priority of a task
    Conns,             \* agent connections, each dialed at most once
    Handlers,          \* concurrent operator HTTP requests
    NoConn, NoTask, NoAgent, NULL,
    ReapAfter,         \* timeout_secs + taskReapGrace, in ticks
    MaxAge,            \* bound on the age of a stamp; below ReapAfter: no reaping
    MaxDefer,          \* longest spread offset, in ticks
    SendCap,           \* frames in flight in one direction of a connection
    Verdicts,          \* how a command may end when nobody cancels it
    MaxConcurrent,     \* maxConcurrentTasks of an agent
    Budget             \* how many cancel requests and faults may come together

Bounded == {"cancel", "networkError", "writeError", "prune", "agentRestart",
            "serverRestart"}

ASSUME TargetAssumption == Target \in [Tasks -> Agents]
ASSUME PriorityAssumption == Priority \in [Tasks -> Nat]
ASSUME NoneAssumption ==
    NoConn \notin Conns /\ NoTask \notin Tasks /\ NoAgent \notin Agents
        /\ NULL \notin Nat
ASSUME VerdictsAssumption == Verdicts \subseteq {"success", "failed", "timeout"}
ASSUME BoundAssumption ==
    /\ ReapAfter \in Nat \ {0} /\ MaxAge \in Nat /\ MaxDefer \in Nat
    /\ SendCap \in Nat \ {0} /\ MaxConcurrent \in Nat \ {0}
    /\ Budget \subseteq [Bounded -> Nat]

VARIABLES
    \* the store: tables tasks, task_results, agents
    state, release, dispatchedAt, result, resultBy, online,
    \* time left until the release moment of a task
    due,
    \* server memory: the hub map and one read loop per connection
    clients, spc, peer, old, pend, cur,
    \* a connection: closed flags of the server's writer, frames in flight
    closed, out, in,
    \* operator requests in progress
    hpc, htask, hconn,
    \* the release and reap goroutine
    rpc, rwork, rtask, rconn, reapTimeout, reapCancel,
    \* agent processes: the reader, the task goroutines, the result cache
    aconn, apc, atask, run, taskConn, results,
    \* history: how often a command was started, rows re-added by a session
    execs, requeued,
    \* how much of the budget is used up
    spent

storeVars == <<state, release, dispatchedAt, result, resultBy>>
sessVars  == <<clients, spc, peer, old, pend, cur>>
connVars  == <<closed, out, in>>
reqVars   == <<hpc, htask, hconn>>
schedVars == <<rpc, rwork, rtask, rconn, reapTimeout, reapCancel>>
agentVars == <<aconn, apc, atask, run, taskConn, results>>

vars == <<state, release, dispatchedAt, result, resultBy, online, due,
          clients, spc, peer, old, pend, cur, closed, out, in,
          hpc, htask, hconn, rpc, rwork, rtask, rconn, reapTimeout, reapCancel,
          aconn, apc, atask, run, taskConn, results, execs, requeued,
          spent>>

-----------------------------------------------------------------------------
Terminal    == {"success", "failed", "timeout", "canceled"}
NonTerminal == {"queued", "dispatched", "cancel_requested"}
TaskStates  == {"none"} \cup NonTerminal \cup Terminal
Message     == [kind : {"dispatch", "cancel"}, task : Tasks]
Result      == [task : Tasks, status : Terminal]

SessionPC == {"unused", "hello", "retire", "load", "deliver", "mark", "requeue", "serve",
              "exit", "offline", "gone"}
HandlerPC == {"idle", "lookup", "send", "mark", "cancelQueued", "cancelLive",
              "cancelLookup", "cancelSend"}

StoreTypeOK ==
    /\ state \in [Tasks -> TaskStates]
    /\ release \in [Tasks -> BOOLEAN]
    /\ dispatchedAt \in [Tasks -> Nat \cup {NULL}]
    /\ result \in [Tasks -> Terminal \cup {"none"}]
    /\ resultBy \in [Tasks -> {"none", "agent", "operator", "reaper"}]
    /\ online \in [Agents -> BOOLEAN]
    /\ due \in [Tasks -> Nat]

SessionTypeOK ==
    /\ clients \in [Agents -> Conns \cup {NoConn}]
    /\ spc \in [Conns -> SessionPC]
    /\ peer \in [Conns -> Agents \cup {NoAgent}]
    /\ old \in [Conns -> Conns \cup {NoConn}]
    /\ pend \in [Conns -> SUBSET Tasks]
    /\ cur \in [Conns -> Tasks \cup {NoTask}]
    /\ \A c \in Conns : /\ spc[c] # "unused" => peer[c] \in Agents
                        /\ spc[c] = "mark" => cur[c] \in Tasks
                        /\ spc[c] = "retire" => old[c] \in Conns

ConnTypeOK ==
    /\ closed \in [Conns -> {"open", "done", "sendClosed"}]
    /\ out \in [Conns -> Seq(Message)]
    /\ in \in [Conns -> Seq(Result)]

RequestTypeOK ==
    /\ hpc \in [Handlers -> HandlerPC]
    /\ htask \in [Handlers -> Tasks \cup {NoTask}]
    /\ hconn \in [Handlers -> Conns \cup {NoConn}]
    /\ \A h \in Handlers :
          /\ hpc[h] # "idle" => htask[h] \in Tasks
          /\ hpc[h] \in {"send", "cancelSend"} => hconn[h] \in Conns

SchedTypeOK ==
    /\ rpc \in {"idle", "sweep", "send", "mark", "reap"}
    /\ rwork \in SUBSET Tasks
    /\ reapTimeout \in SUBSET Tasks
    /\ reapCancel \in SUBSET Tasks
    /\ rtask \in Tasks \cup {NoTask}
    /\ rconn \in Conns \cup {NoConn}
    /\ rpc \in {"send", "mark"} => rtask \in Tasks
    /\ rpc = "send" => rconn \in Conns

AgentTypeOK ==
    /\ aconn \in [Agents -> Conns \cup {NoConn}]
    /\ apc \in [Agents -> {"read", "admit"}]
    /\ atask \in [Agents -> Tasks \cup {NoTask}]
    /\ run \in [Tasks -> {"none", "running", "canceled", "send", "unregister"}]
    /\ taskConn \in [Tasks -> Conns \cup {NoConn}]
    /\ results \in [Tasks -> Terminal \cup {"none"}]
    /\ execs \in [Tasks -> Nat]
    /\ requeued \in SUBSET Tasks
    /\ spent \in [Bounded -> Nat]
    /\ \A a \in Agents : apc[a] = "admit" => atask[a] \in Tasks /\ aconn[a] \in Conns
    /\ \A t \in Tasks : /\ run[t] # "none" => taskConn[t] \in Conns
                        /\ run[t] = "send" => results[t] # "none"

\* Every variable has its type, and a goroutine that is about to use a task
\* or a session it looked up earlier still holds one.
TypeOK ==
    /\ StoreTypeOK /\ SessionTypeOK /\ ConnTypeOK
    /\ RequestTypeOK /\ SchedTypeOK /\ AgentTypeOK

Init ==
    /\ state = [t \in Tasks |-> "none"]
    /\ release = [t \in Tasks |-> FALSE]
    /\ dispatchedAt = [t \in Tasks |-> NULL]
    /\ result = [t \in Tasks |-> "none"]
    /\ resultBy = [t \in Tasks |-> "none"]
    /\ online = [a \in Agents |-> FALSE]
    /\ due = [t \in Tasks |-> 0]
    /\ clients = [a \in Agents |-> NoConn]
    /\ spc = [c \in Conns |-> "unused"]
    /\ peer = [c \in Conns |-> NoAgent]
    /\ old = [c \in Conns |-> NoConn]
    /\ pend = [c \in Conns |-> {}]
    /\ cur = [c \in Conns |-> NoTask]
    /\ closed = [c \in Conns |-> "open"]
    /\ out = [c \in Conns |-> <<>>]
    /\ in = [c \in Conns |-> <<>>]
    /\ hpc = [h \in Handlers |-> "idle"]
    /\ htask = [h \in Handlers |-> NoTask]
    /\ hconn = [h \in Handlers |-> NoConn]
    /\ rpc = "idle" /\ rwork = {} /\ rtask = NoTask /\ rconn = NoConn
    /\ reapTimeout = {} /\ reapCancel = {}
    /\ aconn = [a \in Agents |-> NoConn]
    /\ apc = [a \in Agents |-> "read"]
    /\ atask = [a \in Agents |-> NoTask]
    /\ run = [t \in Tasks |-> "none"]
    /\ taskConn = [t \in Tasks |-> NoConn]
    /\ results = [t \in Tasks |-> "none"]
    /\ execs = [t \in Tasks |-> 0]
    /\ requeued = {}
    /\ spent = [k \in Bounded |-> 0]

-----------------------------------------------------------------------------
\* One more of a bounded kind of step.
Spend(kind) ==
    /\ [spent EXCEPT ![kind] = @ + 1] \in Budget
    /\ spent' = [spent EXCEPT ![kind] = @ + 1]

(***************************************************************************)
(* The store: every statement on tasks and task_results.                   *)
(***************************************************************************)

\* INSERT ... ON CONFLICT DO UPDATE: the row is 'queued' whatever it was.
AddTask(t, deferred) ==
    /\ state' = [state EXCEPT ![t] = "queued"]
    /\ release' = [release EXCEPT ![t] = deferred]
    /\ dispatchedAt' = [dispatchedAt EXCEPT ![t] = NULL]
    /\ UNCHANGED <<result, resultBy>>

\* Mutant: the UPDATE forgets dispatched_at.
MarkDispatchedUnstamped(t) ==
    /\ state' = IF state[t] = "queued" THEN [state EXCEPT ![t] = "dispatched"] ELSE state
    /\ UNCHANGED <<release, dispatchedAt, result, resultBy>>

\* Mutant: the UPDATE without AND state = 'queued'.
MarkDispatchedAnyState(t) ==
    /\ state' = [state EXCEPT ![t] = "dispatched"]
    /\ dispatchedAt' = [dispatchedAt EXCEPT ![t] = 0]
    /\ UNCHANGED <<release, result, resultBy>>

\* UPDATE ... WHERE state = 'queued'
MarkDispatched(t) ==
    /\ IF state[t] = "queued"
       THEN /\ state' = [state EXCEPT ![t] = "dispatched"]
            /\ dispatchedAt' = [dispatchedAt EXCEPT ![t] = 0]
       ELSE UNCHANGED <<state, dispatchedAt>>
    /\ UNCHANGED <<release, result, resultBy>>

\* One transaction: the row reaches its final state with its result.
Finalize(t, status, by) ==
    /\ state' = [state EXCEPT ![t] = status]
    /\ result' = [result EXCEPT ![t] = status]
    /\ resultBy' = [resultBy EXCEPT ![t] = by]
    /\ UNCHANGED <<release, dispatchedAt>>

\* Applied only while the row is in one of nonTerminalTaskStates.
SaveResult(t, status) ==
    IF state[t] \in NonTerminal THEN Finalize(t, status, "agent")
                                ELSE UNCHANGED storeVars

\* MarkTaskTimedOut and MarkTaskCanceledAfterReap.
MarkTaskFinal(t, status, fromState) ==
    IF state[t] = fromState THEN Finalize(t, status, "reaper")
                            ELSE UNCHANGED storeVars

\* Mutant: a NULL release_at is not accepted.
PendingTasksDeferredOnly(a) ==
    {t \in Tasks : Target[t] = a /\ state[t] = "queued" /\ release[t] /\ due[t] = 0}

\* Mutant: release_at is ignored.
PendingTasksEager(a) == {t \in Tasks : Target[t] = a /\ state[t] = "queued"}

\* Mutant: only the first row is read.
PendingTasksFirstOnly(a) ==
    LET all == {t \in Tasks : Target[t] = a /\ state[t] = "queued"
                                /\ (~release[t] \/ due[t] = 0)}
    IN  {t \in all : \A u \in all : Priority[t] >= Priority[u]}

\* Rows a session may receive on registration: the release moment has come.
PendingTasks(a) ==
    {t \in Tasks : Target[t] = a /\ state[t] = "queued"
                     /\ (~release[t] \/ due[t] = 0)}

\* Rows the release sweep sends: deferred ones whose moment has come.
ReadyQueuedTasks == {t \in Tasks : state[t] = "queued" /\ release[t] /\ due[t] = 0}

\* Rows past their deadline; a row without a dispatch stamp is skipped.
Overdue(s) ==
    {t \in Tasks : state[t] = s /\ dispatchedAt[t] # NULL
                     /\ dispatchedAt[t] >= ReapAfter}

\* ORDER BY priority DESC: the candidates for the next row of a result set.
First(S) == {t \in S : \A u \in S : Priority[t] >= Priority[u]}

-----------------------------------------------------------------------------
(***************************************************************************)
(* sendMessage.  It fails once the queue is closed; when only the writer   *)
(* is gone, select may still pick the buffered channel and lose the frame. *)
(* A sender waits while the queue is full.                                 *)
(***************************************************************************)
SendOK(c, m) ==
    /\ closed[c] # "sendClosed"
    /\ closed[c] = "open" => Len(out[c]) < SendCap
    /\ out' = IF closed[c] = "open" THEN [out EXCEPT ![c] = Append(@, m)] ELSE out

SendFails(c) == closed[c] # "open" /\ out' = out

Dispatch(t) == [kind |-> "dispatch", task |-> t]
Cancel(t)   == [kind |-> "cancel", task |-> t]

-----------------------------------------------------------------------------
(***************************************************************************)
(* Agent sessions on the server: readLoop, register, unregister.           *)
(***************************************************************************)

\* Where the read loop stands once the tasks S of its backlog are left.
NextDelivery(S) == IF S = {} THEN "serve" ELSE "deliver"
NextRequeue(S)  == IF S = {} THEN "exit" ELSE "requeue"

\* The agent dials; the connection is accepted and the hello is on its way.
Dial(a, c) ==
    /\ aconn[a] = NoConn /\ apc[a] = "read" /\ spc[c] = "unused"
    /\ aconn' = [aconn EXCEPT ![a] = c]
    /\ spc' = [spc EXCEPT ![c] = "hello"]
    /\ peer' = [peer EXCEPT ![c] = a]
    /\ UNCHANGED <<storeVars, online, due, clients, old, pend, cur,
                   connVars, reqVars, schedVars, apc, atask, run, taskConn,
                   results, execs, requeued, spent>>

\* register, under the hub lock: the new session takes the agent's slot.
Register(c) ==
    /\ spc[c] = "hello"
    /\ clients' = [clients EXCEPT ![peer[c]] = c]
    /\ old' = [old EXCEPT ![c] = clients[peer[c]]]
    /\ spc' = [spc EXCEPT ![c] = IF clients[peer[c]] = NoConn THEN "load" ELSE "retire"]
    /\ UNCHANGED <<storeVars, online, due, peer, pend, cur, connVars, reqVars,
                   schedVars, agentVars, execs, requeued, spent>>

\* register, after the unlock: drainThenClose of the session it replaced.
RetireOld(c) ==
    /\ spc[c] = "retire"
    /\ closed' = [closed EXCEPT ![old[c]] = "sendClosed"]
    /\ old' = [old EXCEPT ![c] = NoConn]
    /\ spc' = [spc EXCEPT ![c] = "load"]
    /\ UNCHANGED <<storeVars, online, due, clients, peer, pend, cur, out, in,
                   reqVars, schedVars, agentVars, execs, requeued, spent>>

\* UpsertAgent marks the agent online (nothing else reads the flag, so the two
\* statements make one step) and PendingTasks is read.  Then hello_ack goes
\* out; the agent only logs it, so the frame is not kept.
LoadPending(c) ==
    /\ spc[c] = "load"
    /\ online' = [online EXCEPT ![peer[c]] = TRUE]
    /\ pend' = [pend EXCEPT ![c] = PendingTasks(peer[c])]
    /\ \/ /\ closed[c] # "sendClosed"
          /\ spc' = [spc EXCEPT ![c] = NextDelivery(pend'[c])]
       \/ /\ closed[c] # "open"
          /\ spc' = [spc EXCEPT ![c] = NextRequeue(pend'[c])]
    /\ UNCHANGED <<storeVars, due, clients, peer, old, cur, connVars, reqVars,
                   schedVars, agentVars, execs, requeued, spent>>

\* The replay of the backlog: one send; a failure gives the rest back.
Deliver(c) ==
    /\ spc[c] = "deliver"
    /\ \E t \in First(pend[c]) :
          \/ /\ SendOK(c, Dispatch(t))
             /\ cur' = [cur EXCEPT ![c] = t]
             /\ pend' = [pend EXCEPT ![c] = @ \ {t}]
             /\ spc' = [spc EXCEPT ![c] = "mark"]
          \/ /\ SendFails(c)
             /\ spc' = [spc EXCEPT ![c] = "requeue"]
             /\ UNCHANGED <<pend, cur>>
    /\ UNCHANGED <<storeVars, online, due, clients, peer, old, closed, in,
                   reqVars, schedVars, agentVars, execs, requeued, spent>>

DeliverMark(c) ==
    /\ spc[c] = "mark"
    /\ MarkDispatched(cur[c])
    /\ cur' = [cur EXCEPT ![c] = NoTask]
    /\ spc' = [spc EXCEPT ![c] = NextDelivery(pend[c])]
    /\ UNCHANGED <<online, due, clients, peer, old, pend, connVars, reqVars,
                   schedVars, agentVars, execs, requeued, spent>>

\* requeueTasks: what was not sent is written back as immediately available.
Requeue(c) ==
    /\ spc[c] = "requeue"
    /\ \E t \in First(pend[c]) :
          /\ AddTask(t, FALSE)
          /\ pend' = [pend EXCEPT ![c] = @ \ {t}]
          /\ requeued' = requeued \cup {t}
          /\ spc' = [spc EXCEPT ![c] = NextRequeue(pend[c] \ {t})]
    /\ UNCHANGED <<online, due, clients, peer, old, cur, connVars, reqVars,
                   schedVars, agentVars, execs, spent>>

\* A task_result frame: SaveResult, then touch.
RecvResult(c) ==
    /\ spc[c] = "serve" /\ in[c] # <<>>
    /\ SaveResult(Head(in[c]).task, Head(in[c]).status)
    /\ in' = [in EXCEPT ![c] = Tail(@)]
    /\ online' = [online EXCEPT ![peer[c]] = TRUE]
    /\ UNCHANGED <<due, sessVars, closed, out, reqVars, schedVars,
                   agentVars, execs, requeued, spent>>

\* A heartbeat, task_ack or pong: touch.
Touch(c) ==
    /\ spc[c] = "serve"
    /\ online' = [online EXCEPT ![peer[c]] = TRUE]
    /\ UNCHANGED <<storeVars, due, sessVars, connVars, reqVars, schedVars,
                   agentVars, execs, requeued, spent>>

\* drainThenClose at the end of a read loop.
HangUp(c) ==
    /\ spc' = [spc EXCEPT ![c] = "gone"]
    /\ closed' = [closed EXCEPT ![c] = "sendClosed"]
    /\ in' = [in EXCEPT ![c] = <<>>]

\* A read fails by itself, or because one end has hung up already.
Breaks(hungUp) == IF hungUp THEN UNCHANGED spent ELSE Spend("networkError")

\* ReadMessage fails: the peer is gone, timed out, or the socket was closed.
\* What the peer sent is dropped with the connection.
ReadError(c) ==
    /\ spc[c] \in {"hello", "serve"}
    /\ Breaks(aconn[peer[c]] # c \/ closed[c] # "open")
    /\ \/ spc[c] = "hello" /\ HangUp(c)           \* not registered
       \/ /\ spc[c] = "serve"
          /\ spc' = [spc EXCEPT ![c] = "exit"]
          /\ in' = [in EXCEPT ![c] = <<>>]
          /\ UNCHANGED closed
    /\ UNCHANGED <<storeVars, online, due, clients, peer, old, pend, cur,
                   out, reqVars, schedVars, agentVars, execs, requeued>>

\* unregister, under the hub lock.  If another session holds the agent id
\* (superseded) only drainThenClose is left.
Unregister(c) ==
    /\ spc[c] = "exit"
    /\ LET a == peer[c]
           current == IF clients[a] = c THEN NoConn ELSE clients[a]
       IN  /\ clients' = [clients EXCEPT ![a] = current]
           /\ IF current = NoConn
              THEN spc' = [spc EXCEPT ![c] = "offline"] /\ UNCHANGED <<closed, in>>
              ELSE HangUp(c)
    /\ UNCHANGED <<storeVars, online, due, peer, old, pend, cur, out, reqVars,
                   schedVars, agentVars, execs, requeued, spent>>

\* unregister, after the unlock: SetAgentOnline(false), then drainThenClose.
SetOffline(c) ==
    /\ spc[c] = "offline"
    /\ online' = [online EXCEPT ![peer[c]] = FALSE]
    /\ HangUp(c)
    /\ UNCHANGED <<storeVars, due, clients, peer, old, pend, cur, out, reqVars,
                   schedVars, agentVars, execs, requeued, spent>>

\* writeLoop: a write or ping fails or exceeds its deadline; close().
WriteError(c) ==
    /\ closed[c] = "open" /\ spc[c] \notin {"unused", "gone"}
    /\ Spend("writeError")
    /\ closed' = [closed EXCEPT ![c] = "done"]
    /\ UNCHANGED <<storeVars, online, due, sessVars, out, in, reqVars,
                   schedVars, agentVars, execs, requeued>>

-----------------------------------------------------------------------------
(***************************************************************************)
(* Operator requests: createTask/dispatchOrQueue and the cancel route.     *)
(***************************************************************************)

\* AddTask.  A release moment still ahead ends the request; one that is not
\* (no spread, or a drawn offset of zero) continues with an inline send.
CreateTask(h, t, spread, offset) ==
    /\ hpc[h] = "idle" /\ state[t] = "none"
    /\ offset > 0 => spread
    /\ AddTask(t, spread)
    /\ due' = [due EXCEPT ![t] = offset]
    /\ IF offset > 0
       THEN UNCHANGED <<hpc, htask>>
       ELSE /\ hpc' = [hpc EXCEPT ![h] = "lookup"]
            /\ htask' = [htask EXCEPT ![h] = t]
    /\ UNCHANGED <<online, sessVars, connVars, hconn, schedVars, agentVars,
                   execs, requeued, spent>>

HandlerReturn(h) ==
    /\ hpc' = [hpc EXCEPT ![h] = "idle"]
    /\ htask' = [htask EXCEPT ![h] = NoTask]
    /\ hconn' = [hconn EXCEPT ![h] = NoConn]

\* Mutant: the session is used without the check that the agent has one.
HandlerLookupUnchecked(h, from, to) ==
    /\ hpc[h] = from
    /\ hconn' = [hconn EXCEPT ![h] = clients[Target[htask[h]]]]
    /\ hpc' = [hpc EXCEPT ![h] = to]
    /\ UNCHANGED <<storeVars, online, due, sessVars, connVars, htask, schedVars,
                   agentVars, execs, requeued, spent>>

\* The hub map is read under RLock and the session used after the unlock.
HandlerLookup(h, from, to) ==
    /\ hpc[h] = from
    /\ LET c == clients[Target[htask[h]]]
       IN  \/ c = NoConn /\ HandlerReturn(h)
           \/ /\ c # NoConn
              /\ hconn' = [hconn EXCEPT ![h] = c]
              /\ hpc' = [hpc EXCEPT ![h] = to]
              /\ UNCHANGED htask
    /\ UNCHANGED <<storeVars, online, due, sessVars, connVars, schedVars,
                   agentVars, execs, requeued, spent>>

DispatchLookup(h) == HandlerLookup(h, "lookup", "send")
CancelLookup(h)   == HandlerLookup(h, "cancelLookup", "cancelSend")

DispatchSend(h) ==
    /\ hpc[h] = "send"
    /\ \/ /\ SendOK(hconn[h], Dispatch(htask[h]))
          /\ hpc' = [hpc EXCEPT ![h] = "mark"]
          /\ UNCHANGED <<htask, hconn>>
       \/ SendFails(hconn[h]) /\ HandlerReturn(h)
    /\ UNCHANGED <<storeVars, online, due, sessVars, closed, in, schedVars,
                   agentVars, execs, requeued, spent>>

DispatchMark(h) ==
    /\ hpc[h] = "mark"
    /\ MarkDispatched(htask[h])
    /\ HandlerReturn(h)
    /\ UNCHANGED <<online, due, sessVars, connVars, schedVars, agentVars,
                   execs, requeued, spent>>

\* CancelTask reads the row first; a terminal row is only reported.
CancelRead(h, t) ==
    /\ hpc[h] = "idle" /\ state[t] \in NonTerminal
    /\ Spend("cancel")
    /\ hpc' = [hpc EXCEPT ![h] = IF state[t] = "queued" THEN "cancelQueued"
                                                       ELSE "cancelLive"]
    /\ htask' = [htask EXCEPT ![h] = t]
    /\ UNCHANGED <<storeVars, online, due, sessVars, connVars, hconn,
                   schedVars, agentVars, execs, requeued>>

\* Mutant: the row is canceled, its result is not inserted.
CancelQueuedNoResult(h) ==
    /\ hpc[h] = "cancelQueued"
    /\ state' = [state EXCEPT ![htask[h]] = "canceled"]
    /\ HandlerReturn(h)
    /\ UNCHANGED <<release, dispatchedAt, result, resultBy, online, due, sessVars,
                   connVars, schedVars, agentVars, execs, requeued, spent>>

\* ... and then writes WHERE id = ?: the state it read is not checked again.
CancelQueued(h) ==
    /\ hpc[h] = "cancelQueued"
    /\ Finalize(htask[h], "canceled", "operator")
    /\ HandlerReturn(h)
    /\ UNCHANGED <<online, due, sessVars, connVars, schedVars, agentVars,
                   execs, requeued, spent>>

CancelLive(h) ==
    /\ hpc[h] = "cancelLive"
    /\ state' = [state EXCEPT ![htask[h]] = "cancel_requested"]
    /\ hpc' = [hpc EXCEPT ![h] = "cancelLookup"]
    /\ UNCHANGED <<release, dispatchedAt, result, resultBy, online, due,
                   sessVars, connVars, htask, hconn, schedVars, agentVars,
                   execs, requeued, spent>>

\* sendTaskCancel; the outcome only goes into the HTTP response.
CancelSend(h) ==
    /\ hpc[h] = "cancelSend"
    /\ \/ SendOK(hconn[h], Cancel(htask[h]))
       \/ SendFails(hconn[h])
    /\ HandlerReturn(h)
    /\ UNCHANGED <<storeVars, online, due, sessVars, closed, in, schedVars,
                   agentVars, execs, requeued, spent>>

-----------------------------------------------------------------------------
(***************************************************************************)
(* reapLoop: one goroutine that releases deferred tasks and reaps overdue  *)
(* ones.  Which timer woke it is not kept: a pass may start at any time.   *)
(***************************************************************************)
SweepStart ==
    /\ rpc = "idle" /\ ReadyQueuedTasks # {}
    /\ rwork' = ReadyQueuedTasks
    /\ rpc' = "sweep"
    /\ UNCHANGED <<storeVars, online, due, sessVars, connVars, reqVars,
                   rtask, rconn, reapTimeout, reapCancel, agentVars, execs,
                   requeued, spent>>

\* Done with the row t of the sweep, whatever became of it.
SweepNext(left) ==
    /\ rwork' = left
    /\ rpc' = IF left = {} THEN "idle" ELSE "sweep"
    /\ rtask' = NoTask
    /\ rconn' = NoConn

\* dispatchQueuedTask: an offline agent's task is left queued.
SweepLookup ==
    /\ rpc = "sweep"
    /\ \E t \in First(rwork) :
          LET c == clients[Target[t]]
          IN  \/ c = NoConn /\ SweepNext(rwork \ {t})
              \/ /\ c # NoConn
                 /\ rpc' = "send" /\ rtask' = t /\ rconn' = c
                 /\ UNCHANGED rwork
    /\ UNCHANGED <<storeVars, online, due, sessVars, connVars, reqVars,
                   reapTimeout, reapCancel, agentVars, execs, requeued, spent>>

SweepSend ==
    /\ rpc = "send"
    /\ \/ /\ SendOK(rconn, Dispatch(rtask))
          /\ rpc' = "mark"
          /\ UNCHANGED <<rwork, rtask, rconn>>
       \/ SendFails(rconn) /\ SweepNext(rwork \ {rtask})
    /\ UNCHANGED <<storeVars, online, due, sessVars, closed, in, reqVars,
                   reapTimeout, reapCancel, agentVars, execs, requeued, spent>>

SweepMark ==
    /\ rpc = "mark"
    /\ MarkDispatched(rtask)
    /\ SweepNext(rwork \ {rtask})
    /\ UNCHANGED <<online, due, sessVars, connVars, reqVars, reapTimeout,
                   reapCancel, agentVars, execs, requeued, spent>>

\* Mutant: only the dispatched rows are read.
ReapStartTimeoutsOnly ==
    /\ rpc = "idle"
    /\ Overdue("dispatched") # {}
    /\ reapTimeout' = Overdue("dispatched")
    /\ reapCancel' = {}
    /\ rpc' = "reap"
    /\ UNCHANGED <<storeVars, online, due, sessVars, connVars, reqVars,
                   rwork, rtask, rconn, agentVars, execs, requeued, spent>>

\* DispatchedTasks: the overdue rows, each with the state the scan saw.
ReapStart ==
    /\ rpc = "idle"
    /\ Overdue("dispatched") \cup Overdue("cancel_requested") # {}
    /\ reapTimeout' = Overdue("dispatched")
    /\ reapCancel' = Overdue("cancel_requested")
    /\ rpc' = "reap"
    /\ UNCHANGED <<storeVars, online, due, sessVars, connVars, reqVars,
                   rwork, rtask, rconn, agentVars, execs, requeued, spent>>

\* Mutant: a cancel that was never confirmed is recorded as a timeout.
ReapAsTimeout ==
    /\ rpc = "reap"
    /\ \E t \in reapTimeout \cup reapCancel :
          /\ MarkTaskFinal(t, "timeout", IF t \in reapTimeout THEN "dispatched"
                                                            ELSE "cancel_requested")
          /\ reapTimeout' = reapTimeout \ {t}
          /\ reapCancel' = reapCancel \ {t}
    /\ rpc' = IF reapTimeout' \cup reapCancel' = {} THEN "idle" ELSE "reap"
    /\ UNCHANGED <<online, due, sessVars, connVars, reqVars, rwork, rtask,
                   rconn, agentVars, execs, requeued, spent>>

\* Each row is settled if it still is in the state the scan saw.
Reap ==
    /\ rpc = "reap"
    /\ \/ \E t \in reapTimeout :
             /\ MarkTaskFinal(t, "timeout", "dispatched")
             /\ reapTimeout' = reapTimeout \ {t}
             /\ UNCHANGED reapCancel
       \/ \E t \in reapCancel :
             /\ MarkTaskFinal(t, "canceled", "cancel_requested")
             /\ reapCancel' = reapCancel \ {t}
             /\ UNCHANGED reapTimeout
    /\ rpc' = IF reapTimeout' \cup reapCancel' = {} THEN "idle" ELSE "reap"
    /\ UNCHANGED <<online, due, sessVars, connVars, reqVars, rwork, rtask,
                   rconn, agentVars, execs, requeued, spent>>

-----------------------------------------------------------------------------
(***************************************************************************)
(* The agent: runOnce's dispatch and cancel cases, the task goroutines,    *)
(* the result cache.  A task's goroutine is keyed by the task id, as the   *)
(* running map is.                                                         *)
(***************************************************************************)

\* send on connection c by the agent: lost if either end reads no more.
AgentSend(a, c, t, status) ==
    IF aconn[a] = c /\ spc[c] \notin {"exit", "offline", "gone"}
    THEN /\ Len(in[c]) < SendCap
         /\ in' = [in EXCEPT ![c] = Append(@, [task |-> t, status |-> status])]
    ELSE UNCHANGED in

\* Mutant: the lookup in the result cache is taken for a hit.
AgentReadDispatchUnchecked(a) ==
    LET c == aconn[a]
        t == Head(out[c]).task
    IN  /\ c # NoConn /\ apc[a] = "read" /\ out[c] # <<>>
        /\ Head(out[c]).kind = "dispatch"
        /\ out' = [out EXCEPT ![c] = Tail(@)]
        /\ AgentSend(a, c, t, results[t])
        /\ UNCHANGED <<storeVars, online, due, sessVars, closed, reqVars,
                       schedVars, agentVars, execs, requeued, spent>>

\* task_dispatch: a cached result is sent again, else the task is admitted
\* in a later step; cachedResult and taskRunning take different locks.
AgentReadDispatch(a) ==
    LET c == aconn[a]
        t == Head(out[c]).task
    IN  /\ c # NoConn /\ apc[a] = "read" /\ out[c] # <<>>
        /\ Head(out[c]).kind = "dispatch"
        /\ out' = [out EXCEPT ![c] = Tail(@)]
        /\ IF results[t] # "none"
           THEN /\ AgentSend(a, c, t, results[t])
                /\ UNCHANGED <<apc, atask>>
           ELSE /\ apc' = [apc EXCEPT ![a] = "admit"]
                /\ atask' = [atask EXCEPT ![a] = t]
                /\ UNCHANGED in
        /\ UNCHANGED <<storeVars, online, due, sessVars, closed, reqVars,
                       schedVars, aconn, run, taskConn, results, execs,
                       requeued, spent>>

Running(a) == {t \in Tasks : Target[t] = a /\ run[t] # "none"}

\* taskRunning and startTask: ignore a running task, refuse one over the
\* limit (cached and answered as failed), else start its goroutine.
AgentAdmit(a) ==
    LET t == atask[a]
        c == aconn[a]
    IN  /\ apc[a] = "admit"
        /\ apc' = [apc EXCEPT ![a] = "read"]
        /\ atask' = [atask EXCEPT ![a] = NoTask]
        /\ \/ /\ run[t] # "none"
              /\ UNCHANGED <<run, taskConn, results, execs, in>>
           \/ /\ run[t] = "none" /\ Cardinality(Running(a)) < MaxConcurrent
              /\ run' = [run EXCEPT ![t] = "running"]
              /\ taskConn' = [taskConn EXCEPT ![t] = c]
              /\ execs' = [execs EXCEPT ![t] = @ + 1]
              /\ UNCHANGED <<results, in>>
           \/ /\ run[t] = "none" /\ Cardinality(Running(a)) >= MaxConcurrent
              /\ results' = [results EXCEPT ![t] = "failed"]
              /\ AgentSend(a, c, t, "failed")
              /\ UNCHANGED <<run, taskConn, execs>>
        /\ UNCHANGED <<storeVars, online, due, sessVars, closed, out,
                       reqVars, schedVars, aconn, requeued, spent>>

\* task_cancel: cancels the context of a running task, else does nothing.
AgentReadCancel(a) ==
    LET c == aconn[a]
        t == Head(out[c]).task
    IN  /\ c # NoConn /\ apc[a] = "read" /\ out[c] # <<>>
        /\ Head(out[c]).kind = "cancel"
        /\ out' = [out EXCEPT ![c] = Tail(@)]
        /\ run' = IF run[t] = "running" THEN [run EXCEPT ![t] = "canceled"] ELSE run
        /\ UNCHANGED <<storeVars, online, due, sessVars, closed, in,
                       reqVars, schedVars, aconn, apc, atask, taskConn, results,
                       execs, requeued, spent>>

\* runCommand's verdicts: a canceled context cannot report a timeout, a live
\* one cannot report canceled; a command that exits cleanly is a success.
Outcomes(ctx) == IF ctx = "canceled" THEN (Verdicts \ {"timeout"}) \cup {"canceled"}
                                     ELSE Verdicts

\* runCommand returns and the result is cached.
FinishTask(t, status) ==
    /\ run[t] \in {"running", "canceled"} /\ status \in Outcomes(run[t])
    /\ results' = [results EXCEPT ![t] = status]
    /\ run' = [run EXCEPT ![t] = "send"]
    /\ UNCHANGED <<storeVars, online, due, sessVars, connVars, reqVars,
                   schedVars, aconn, apc, atask, taskConn, execs, requeued,
                   spent>>

\* The result goes out on the connection the dispatch came in on.
SendResult(t) ==
    /\ run[t] = "send"
    /\ AgentSend(Target[t], taskConn[t], t, results[t])
    /\ run' = [run EXCEPT ![t] = "unregister"]
    /\ UNCHANGED <<storeVars, online, due, sessVars, closed, out, reqVars,
                   schedVars, aconn, apc, atask, taskConn, results, execs,
                   requeued, spent>>

UnregisterTask(t) ==
    /\ run[t] = "unregister"
    /\ run' = [run EXCEPT ![t] = "none"]
    /\ taskConn' = [taskConn EXCEPT ![t] = NoConn]
    /\ UNCHANGED <<storeVars, online, due, sessVars, connVars, reqVars,
                   schedVars, aconn, apc, atask, results, execs, requeued,
                   spent>>

\* A cached result is pruned: its age passed the TTL or the cache is full.
PruneResult(t) ==
    /\ results[t] # "none" /\ run[t] = "none" /\ Spend("prune")
    /\ results' = [results EXCEPT ![t] = "none"]
    /\ UNCHANGED <<storeVars, online, due, sessVars, connVars, reqVars,
                   schedVars, aconn, apc, atask, run, taskConn, execs, requeued>>

\* runOnce returns on a read or write error; what was in flight is lost.
AgentDisconnect(a) ==
    /\ aconn[a] # NoConn /\ apc[a] = "read"
    /\ Breaks(closed[aconn[a]] # "open")
    /\ out' = [out EXCEPT ![aconn[a]] = <<>>]
    /\ aconn' = [aconn EXCEPT ![a] = NoConn]
    /\ UNCHANGED <<storeVars, online, due, sessVars, closed, in, reqVars,
                   schedVars, apc, atask, run, taskConn, results, execs,
                   requeued>>

\* The agent process dies with everything it kept in memory.
AgentRestart(a) ==
    /\ Spend("agentRestart")
    /\ aconn' = [aconn EXCEPT ![a] = NoConn]
    /\ apc' = [apc EXCEPT ![a] = "read"]
    /\ atask' = [atask EXCEPT ![a] = NoTask]
    /\ run' = [t \in Tasks |-> IF Target[t] = a THEN "none" ELSE run[t]]
    /\ taskConn' = [t \in Tasks |-> IF Target[t] = a THEN NoConn ELSE taskConn[t]]
    /\ results' = [t \in Tasks |-> IF Target[t] = a THEN "none" ELSE results[t]]
    /\ out' = [c \in Conns |-> IF c = aconn[a] THEN <<>> ELSE out[c]]
    /\ UNCHANGED <<storeVars, online, due, sessVars, closed, in, reqVars,
                   schedVars, execs, requeued>>

-----------------------------------------------------------------------------
\* The server process dies and starts again: memory is lost, the rows stay.
\* Open clears the online flags and stamps rows that carry no dispatch time.
ServerRestart ==
    /\ Spend("serverRestart")
    /\ online' = [a \in Agents |-> FALSE]
    /\ \E created \in 0..MaxAge :          \* the age of created_at
          dispatchedAt' =
             [t \in Tasks |-> IF state[t] \in {"dispatched", "cancel_requested"}
                                   /\ dispatchedAt[t] = NULL
                              THEN created ELSE dispatchedAt[t]]
    /\ clients' = [a \in Agents |-> NoConn]
    /\ spc' = [c \in Conns |-> IF spc[c] = "unused" THEN "unused" ELSE "gone"]
    /\ closed' = [c \in Conns |-> IF spc[c] = "unused" THEN closed[c]
                                                       ELSE "sendClosed"]
    /\ old' = [c \in Conns |-> NoConn]
    /\ pend' = [c \in Conns |-> {}]
    /\ cur' = [c \in Conns |-> NoTask]
    /\ in' = [c \in Conns |-> <<>>]
    /\ hpc' = [h \in Handlers |-> "idle"]
    /\ htask' = [h \in Handlers |-> NoTask]
    /\ hconn' = [h \in Handlers |-> NoConn]
    /\ rpc' = "idle" /\ rwork' = {} /\ rtask' = NoTask /\ rconn' = NoConn
    /\ reapTimeout' = {} /\ reapCancel' = {}
    /\ UNCHANGED <<state, release, result, resultBy, due, peer, out,
                   agentVars, execs, requeued>>

\* Time passes: release moments come closer, stamps grow older.
Older(age) == IF age < MaxAge THEN age + 1 ELSE age

Tick ==
    /\ \E t \in Tasks : \/ due[t] > 0
                        \/ dispatchedAt[t] # NULL /\ dispatchedAt[t] < MaxAge
    /\ due' = [t \in Tasks |-> IF due[t] > 0 THEN due[t] - 1 ELSE 0]
    /\ dispatchedAt' = [t \in Tasks |-> IF dispatchedAt[t] = NULL THEN NULL
                                        ELSE Older(dispatchedAt[t])]
    /\ UNCHANGED <<state, release, result, resultBy, online, sessVars, connVars,
                   reqVars, schedVars, agentVars, execs, requeued, spent>>

-----------------------------------------------------------------------------
Session(c) ==
    \/ Register(c) \/ RetireOld(c) \/ LoadPending(c) \/ Deliver(c) \/ DeliverMark(c)
    \/ Requeue(c) \/ RecvResult(c) \/ Touch(c) \/ ReadError(c)
    \/ Unregister(c) \/ SetOffline(c) \/ WriteError(c)

Request(h) ==
    \/ \E t \in Tasks, spread \in BOOLEAN, offset \in 0..MaxDefer :
          CreateTask(h, t, spread, offset)
    \/ DispatchLookup(h) \/ DispatchSend(h) \/ DispatchMark(h)
    \/ \E t \in Tasks : CancelRead(h, t)
    \/ CancelQueued(h) \/ CancelLive(h) \/ CancelLookup(h) \/ CancelSend(h)

Scheduler ==
    \/ SweepStart \/ SweepLookup \/ SweepSend \/ SweepMark \/ ReapStart \/ Reap

Agent(a) ==
    \/ \E c \in Conns : Dial(a, c)
    \/ AgentReadDispatch(a) \/ AgentAdmit(a) \/ AgentReadCancel(a)
    \/ AgentDisconnect(a) \/ AgentRestart(a)

AgentTask(t) ==
    \/ \E status \in Terminal : FinishTask(t, status)
    \/ SendResult(t) \/ UnregisterTask(t) \/ PruneResult(t)

Next ==
    \/ \E c \in Conns : Session(c)
    \/ \E h \in Handlers : Request(h)
    \/ Scheduler
    \/ \E a \in Agents : Agent(a)
    \/ \E t \in Tasks : AgentTask(t)
    \/ ServerRestart
    \/ Tick

Spec == Init /\ [][Next]_vars

(***************************************************************************)
(* Fairness.  Goroutines that can run do run.  The reap ticker stays ready *)
(* until the loop receives from it, and select picks among ready cases at  *)
(* random, so a pass that is possible again and again is taken (SF).  A    *)
(* full queue that nobody empties runs into the write deadline.            *)
(***************************************************************************)
WriteStall(c) == Len(out[c]) >= SendCap /\ WriteError(c)

Fairness ==
    /\ WF_vars(Tick)
    /\ SF_vars(ReapStart)
    /\ WF_vars(SweepLookup) /\ WF_vars(SweepSend) /\ WF_vars(SweepMark)
    /\ WF_vars(Reap)
    /\ \A c \in Conns :
          /\ WF_vars(Register(c)) /\ WF_vars(RetireOld(c)) /\ WF_vars(LoadPending(c))
          /\ WF_vars(Deliver(c)) /\ WF_vars(DeliverMark(c))
          /\ WF_vars(Requeue(c)) /\ WF_vars(Unregister(c))
          /\ WF_vars(SetOffline(c)) /\ WF_vars(WriteStall(c))

FairSpec == Spec /\ Fairness

-----------------------------------------------------------------------------
(***************************************************************************)
(* What must hold.                                                         *)
(***************************************************************************)

\* Every path into a terminal state (SaveResult, markTaskFinal, CancelTask of
\* a queued row) writes the row and its result in one transaction, and no
\* other statement touches either alone: a terminal row always has a result
\* row, and the two agree on the status, across races, requeues and restarts.
TerminalHasResult == \A t \in Tasks : state[t] \in Terminal => result[t] = state[t]

\* A row the reaper has to watch for a timeout carries its dispatch stamp:
\* reapTimedOutTasks skips rows without one, so a 'dispatched' row that lost
\* its stamp would never time out.
DispatchedStamped ==
    \A t \in Tasks : state[t] = "dispatched" => dispatchedAt[t] # NULL

\* No dispatch of t is in flight.
NotInFlight(t) == \A c \in Conns : \A i \in 1..Len(out[c]) : out[c][i] # Dispatch(t)

\* A spread batch is never released early: until the moment drawn for a task
\* has come, no session, request or sweep puts it on the wire and no agent
\* starts it, whether the agent reconnects, the row is requeued or the server
\* restarts in between (PendingTasks, ReadyQueuedTasks, requeueTasks).
NoEarlyRelease ==
    \A t \in Tasks : due[t] > 0 => execs[t] = 0 /\ NotInFlight(t)

\* Nobody has taken t up: it is in no backlog, sweep, request or queue.
Untouched(t) ==
    /\ execs[t] = 0 /\ NotInFlight(t)
    /\ \A c \in Conns : t \notin pend[c] /\ cur[c] # t
    /\ \A h \in Handlers : hpc[h] \in {"lookup", "send", "mark"} => htask[h] # t
    /\ t \notin rwork /\ rtask # t
    /\ \A a \in Agents : atask[a] # t

\* t is not to be taken up yet.
Held(t) == due[t] > 0 \/ state[t] = "none"

\* The inductive form of NoEarlyRelease: nobody takes up a task before its
\* release moment (or before it exists), and the row of a task that is held
\* back says so, because requeueTasks clears release_at only of rows that
\* PendingTasks returned.
HeldBack ==
    /\ \A t \in Tasks : Held(t) => Untouched(t)
    /\ \A t \in Tasks : due[t] > 0 /\ state[t] = "queued" => release[t]

\* A verdict recorded as the agent's own was earned: unless it is the refusal
\* of an overloaded agent ('failed'), the command was really started.
AgentVerdictEarned ==
    \A t \in Tasks :
        resultBy[t] = "agent" /\ result[t] # "failed" => execs[t] > 0

\* Every verdict on its way to the server was earned, or is a refusal.
WireEarned ==
    \A c \in Conns : \A i \in 1..Len(in[c]) :
        in[c][i].status # "failed" => execs[in[c][i].task] > 0

\* The inductive form of AgentVerdictEarned: follow a verdict back from the
\* row over the wire and the cache to the goroutine that ran the command.
Earned ==
    /\ AgentVerdictEarned
    /\ \A t \in Tasks : run[t] # "none" => execs[t] > 0
    /\ \A t \in Tasks : results[t] \notin {"none", "failed"} => execs[t] > 0
    /\ WireEarned

\* A step moves t out of a terminal state only as the write half of CancelTask
\* or as requeueTasks.
ReopenedByStaleWrite(t) ==
    state[t] \in Terminal /\ state'[t] # state[t] =>
        \/ \E h \in Handlers :
              htask[h] = t /\ hpc[h] \in {"cancelQueued", "cancelLive"}
        \/ \E c \in Conns : spc[c] = "requeue" /\ t \in pend[c]

\* The only steps that move a row out of a terminal state are the write half
\* of CancelTask, which acts on the state read earlier, and requeueTasks,
\* which writes back a row read earlier: a late result, the reaper, the sweep
\* and MarkDispatched never do.
TerminalLeftOnlyByStaleWrite ==
    [][\A t \in Tasks : ReopenedByStaleWrite(t)]_vars

\* A request or session that still has a step to take for the queued row t.
InHand(t) ==
    \/ \E h \in Handlers : htask[h] = t /\ hpc[h] \in {"lookup", "send", "mark"}
    \/ \E c \in Conns : t \in pend[c] \/ cur[c] = t

\* Tasks that exist and whose release moment has come.
Released == {t \in Tasks : state[t] # "none" /\ due[t] = 0}

Ledger == INSTANCE TaskLedger WITH
              row <- state, verdict <- result, by <- resultBy,
              released <- Released, runs <- execs

\* Sessions, frames, sweeps, caches, requeues and restarts taken together do
\* nothing to the tasks that the ledger does not allow: see TaskLedger.
ImplementsLedger == Ledger!Spec

\* No lost task: dispatchOrQueue adds the row before it reads the hub map and
\* register swaps the map before it reads the backlog, so once an agent's
\* session serves, no immediately available row of that agent is left queued
\* with nobody to send it.  Rows that requeueTasks wrote back are excluded:
\* a superseded session may do that after its successor read the backlog.
NoStrandedTask ==
    \A t \in Tasks :
        LET c == clients[Target[t]]
        IN  state[t] = "queued" /\ ~release[t] /\ t \notin requeued
              /\ c # NoConn /\ spc[c] = "serve" /\ closed[c] = "open"
              => InHand(t)

\* Rows the reaper watches: an agent has them, or should, and a stamp says since
\* when.
Watched(t) == state[t] \in {"dispatched", "cancel_requested"} /\ dispatchedAt[t] # NULL

\* The reaper backs every dispatch: whatever happens to the agent, its
\* connection, the cancel and the sweep, a stamped row does not stay with the
\* agent for ever.
WatchedIsLeft == \A t \in Tasks : Watched(t) ~> ~Watched(t)

\* What the README says of the reaper: a 'dispatched' or 'cancel_requested'
\* row without a result is finalized after its timeout plus 30s.  A row whose
\* cancel lands on a requeued row has no stamp, and the reaper skips it.
CancelIsFinalized ==
    \A t \in Tasks : state[t] = "cancel_requested" ~> state[t] \in Terminal

\* What store.go says of terminalTaskStates: "the states a task can never
\* leave".  CancelTask and requeueTasks break it.
TerminalNeverLeft ==
    [][\A t \in Tasks : state[t] \in Terminal => state'[t] = state[t]]_vars

\* What dispatchReadyTasks says of a task handed to an agent twice: "the agent
\* answers a retransmission from its running set or result cache rather than
\* executing it twice".
AtMostOneExecution == \A t \in Tasks : execs[t] <= 1

\* What unregister says of a session that was replaced: "this teardown must
\* not clear the live session's flag".
ServingIsOnline ==
    \A a \in Agents :
        clients[a] # NoConn /\ spc[clients[a]] = "serve" => online[a]
=============================================================================
