------------------------ MODULE TaskDispatchProofs ------------------------
(***************************************************************************)
(* TLAPS proofs about TaskDispatch, for every number of agents, tasks,     *)
(* connections and requests and every value of the bounds.                 *)
(***************************************************************************)
EXTENDS TaskDispatch, TLAPS

USE DEF storeVars, sessVars, connVars, reqVars, schedVars, agentVars

-----------------------------------------------------------------------------
(***************************************************************************)
(* Types of what travels on a connection.                                  *)
(***************************************************************************)

\* A frame for a task is a message.
LEMMA MessageType ==
    ASSUME NEW t \in Tasks
    PROVE  Dispatch(t) \in Message /\ Cancel(t) \in Message
BY DEF Dispatch, Cancel, Message

\* Taking the first element off a sequence.
LEMMA HeadType ==
    ASSUME NEW S, NEW s \in Seq(S), s # <<>>
    PROVE  Head(s) \in S /\ Tail(s) \in Seq(S)
OBVIOUS

\* sendMessage leaves every queue a queue of messages, sent or not.
LEMMA SendType ==
    ASSUME ConnTypeOK, NEW c \in Conns, NEW m \in Message,
           SendOK(c, m) \/ SendFails(c)
    PROVE  out' \in [Conns -> Seq(Message)]
<1>1. Append(out[c], m) \in Seq(Message)
  BY DEF ConnTypeOK
<1> QED BY <1>1 DEF ConnTypeOK, SendOK, SendFails

\* So does the agent's send for the results on their way to the server.
LEMMA AgentSendType ==
    ASSUME ConnTypeOK, NEW a \in Agents, NEW c \in Conns, NEW t \in Tasks,
           NEW status \in Terminal, AgentSend(a, c, t, status)
    PROVE  in' \in [Conns -> Seq(Result)]
<1>1. [task |-> t, status |-> status] \in Result
  BY DEF Result
<1>2. Append(in[c], [task |-> t, status |-> status]) \in Seq(Result)
  BY <1>1 DEF ConnTypeOK
<1> QED BY <1>2 DEF ConnTypeOK, AgentSend

\* The end of a read loop.
LEMMA HangUpType ==
    ASSUME ConnTypeOK, NEW c \in Conns, HangUp(c)
    PROVE  /\ closed' \in [Conns -> {"open", "done", "sendClosed"}]
           /\ in' \in [Conns -> Seq(Result)]
<1>1. <<>> \in Seq(Result)
  OBVIOUS
<1> QED BY <1>1 DEF ConnTypeOK, HangUp

\* The next result a session reads.
LEMMA InType ==
    ASSUME ConnTypeOK, NEW c \in Conns, in[c] # <<>>
    PROVE  /\ Head(in[c]).task \in Tasks
           /\ Head(in[c]).status \in Terminal
           /\ Tail(in[c]) \in Seq(Result)
<1>1. in[c] \in Seq(Result)
  BY DEF ConnTypeOK
<1>2. Head(in[c]) \in Result /\ Tail(in[c]) \in Seq(Result)
  BY <1>1, HeadType
<1> QED BY <1>2 DEF Result

\* The next frame an agent reads.
LEMMA OutType ==
    ASSUME ConnTypeOK, NEW c \in Conns, out[c] # <<>>
    PROVE  Head(out[c]).task \in Tasks /\ Tail(out[c]) \in Seq(Message)
<1>1. out[c] \in Seq(Message)
  BY DEF ConnTypeOK
<1>2. Head(out[c]) \in Message /\ Tail(out[c]) \in Seq(Message)
  BY <1>1, HeadType
<1> QED BY <1>2 DEF Message

-----------------------------------------------------------------------------
(***************************************************************************)
(* TypeOK is inductive: one lemma per process.                             *)
(***************************************************************************)

\* Every step of a session's read loop and writer.
LEMMA SessionType ==
    ASSUME TypeOK, NEW c \in Conns, Session(c)
    PROVE  TypeOK'
<1> USE NoneAssumption, TargetAssumption DEF TypeOK
<1>1. CASE Register(c)
  <2>1. SessionTypeOK'
    BY <1>1 DEF Register, SessionPC, SessionTypeOK
  <2>2. StoreTypeOK' /\ ConnTypeOK' /\ RequestTypeOK' /\ SchedTypeOK' /\ AgentTypeOK'
    BY <1>1 DEF Register, StoreTypeOK, ConnTypeOK, RequestTypeOK, SchedTypeOK, AgentTypeOK
  <2> QED BY <2>1, <2>2
<1>0. CASE RetireOld(c)
  <2>1. SessionTypeOK'
    BY <1>0 DEF RetireOld, SessionPC, SessionTypeOK
  <2>2. ConnTypeOK'
    BY <1>0 DEF RetireOld, ConnTypeOK
  <2>3. StoreTypeOK' /\ RequestTypeOK' /\ SchedTypeOK' /\ AgentTypeOK'
    BY <1>0 DEF RetireOld, StoreTypeOK, RequestTypeOK, SchedTypeOK, AgentTypeOK
  <2> QED BY <2>1, <2>2, <2>3
<1>2. CASE LoadPending(c)
  <2>1. StoreTypeOK'
    BY <1>2 DEF LoadPending, SessionTypeOK, StoreTypeOK
  <2>2. SessionTypeOK'
    BY <1>2 DEF LoadPending, PendingTasks, NextDelivery, NextRequeue, SessionPC, SessionTypeOK
  <2>3. ConnTypeOK'
    BY <1>2 DEF LoadPending, ConnTypeOK
  <2>4. RequestTypeOK' /\ SchedTypeOK' /\ AgentTypeOK'
    BY <1>2 DEF LoadPending, RequestTypeOK, SchedTypeOK, AgentTypeOK
  <2> QED BY <2>1, <2>2, <2>3, <2>4
<1>3. CASE Deliver(c)
  <2>1. PICK t \in pend[c] : (SendOK(c, Dispatch(t)) \/ SendFails(c))
    BY <1>3 DEF Deliver, First
  <2>2. SessionTypeOK'
    BY <1>3, <2>1 DEF Deliver, First, SessionPC, SessionTypeOK
  <2>3. ConnTypeOK'
    BY <1>3, <2>1, MessageType, SendType DEF Deliver, SessionTypeOK, ConnTypeOK
  <2>4. StoreTypeOK' /\ RequestTypeOK' /\ SchedTypeOK' /\ AgentTypeOK'
    BY <1>3 DEF Deliver, StoreTypeOK, RequestTypeOK, SchedTypeOK, AgentTypeOK
  <2> QED BY <2>2, <2>3, <2>4
<1>4. CASE DeliverMark(c)
  <2>1. StoreTypeOK'
    BY <1>4 DEF DeliverMark, SessionTypeOK, MarkDispatched, TaskStates, NonTerminal, Terminal, StoreTypeOK
  <2>2. SessionTypeOK'
    BY <1>4 DEF DeliverMark, NextDelivery, SessionPC, SessionTypeOK
  <2>3. ConnTypeOK' /\ RequestTypeOK' /\ SchedTypeOK' /\ AgentTypeOK'
    BY <1>4 DEF DeliverMark, ConnTypeOK, RequestTypeOK, SchedTypeOK, AgentTypeOK
  <2> QED BY <2>1, <2>2, <2>3
<1>5. CASE Requeue(c)
  <2>1. StoreTypeOK'
    BY <1>5 DEF Requeue, SessionTypeOK, First, AddTask, TaskStates, NonTerminal, Terminal, StoreTypeOK
  <2>2. SessionTypeOK'
    BY <1>5 DEF Requeue, First, NextRequeue, SessionPC, SessionTypeOK
  <2>3. AgentTypeOK'
    BY <1>5 DEF Requeue, First, SessionTypeOK, AgentTypeOK
  <2>4. ConnTypeOK' /\ RequestTypeOK' /\ SchedTypeOK'
    BY <1>5 DEF Requeue, ConnTypeOK, RequestTypeOK, SchedTypeOK
  <2> QED BY <2>1, <2>2, <2>3, <2>4
<1>6. CASE RecvResult(c)
  <2>1. StoreTypeOK'
    <3>1. PICK t \in Tasks, status \in Terminal : SaveResult(t, status)
      BY <1>6, InType DEF RecvResult
    <3>2. online' \in [Agents -> BOOLEAN] /\ due' = due
      BY <1>6 DEF RecvResult, SessionTypeOK, StoreTypeOK
    <3>3. CASE Finalize(t, status, "agent")
      BY <3>2, <3>3 DEF Finalize, TaskStates, StoreTypeOK
    <3> QED BY <3>1, <3>2, <3>3 DEF SaveResult, StoreTypeOK
  <2>2. ConnTypeOK'
    BY <1>6, InType DEF RecvResult, ConnTypeOK
  <2>3. SessionTypeOK' /\ RequestTypeOK' /\ SchedTypeOK' /\ AgentTypeOK'
    BY <1>6 DEF RecvResult, SessionTypeOK, RequestTypeOK, SchedTypeOK, AgentTypeOK
  <2> QED BY <2>1, <2>2, <2>3
<1>7. CASE Touch(c)
  <2>1. StoreTypeOK'
    BY <1>7 DEF Touch, SessionTypeOK, StoreTypeOK
  <2>2. SessionTypeOK' /\ ConnTypeOK' /\ RequestTypeOK' /\ SchedTypeOK' /\ AgentTypeOK'
    BY <1>7 DEF Touch, SessionTypeOK, ConnTypeOK, RequestTypeOK, SchedTypeOK, AgentTypeOK
  <2> QED BY <2>1, <2>2
<1>8. CASE ReadError(c)
  <2>1. SessionTypeOK'
    BY <1>8 DEF ReadError, HangUp, SessionPC, SessionTypeOK
  <2>2. ConnTypeOK'
    <3>1. CASE HangUp(c)
      BY <1>8, <3>1, HangUpType DEF ReadError, ConnTypeOK
    <3>2. CASE in' = [in EXCEPT ![c] = <<>>] /\ UNCHANGED closed
      BY <1>8, <3>2 DEF ReadError, ConnTypeOK
    <3> QED BY <1>8, <3>1, <3>2 DEF ReadError
  <2>3. StoreTypeOK' /\ RequestTypeOK' /\ SchedTypeOK'
    BY <1>8 DEF ReadError, StoreTypeOK, RequestTypeOK, SchedTypeOK
  <2>4. spent' \in [Bounded -> Nat]
    BY <1>8 DEF ReadError, Breaks, Spend, Bounded, AgentTypeOK
  <2>5. AgentTypeOK'
    BY <1>8, <2>4 DEF ReadError, AgentTypeOK
  <2> QED BY <2>1, <2>2, <2>3, <2>5
<1>9. CASE Unregister(c)
  <2>1. SessionTypeOK'
    BY <1>9 DEF Unregister, HangUp, SessionPC, SessionTypeOK
  <2>2. ConnTypeOK'
    BY <1>9, HangUpType DEF Unregister, ConnTypeOK
  <2>3. StoreTypeOK' /\ RequestTypeOK' /\ SchedTypeOK' /\ AgentTypeOK'
    BY <1>9 DEF Unregister, StoreTypeOK, RequestTypeOK, SchedTypeOK, AgentTypeOK
  <2> QED BY <2>1, <2>2, <2>3
<1>10. CASE SetOffline(c)
  <2>1. StoreTypeOK'
    BY <1>10 DEF SetOffline, SessionTypeOK, StoreTypeOK
  <2>2. SessionTypeOK'
    BY <1>10 DEF SetOffline, HangUp, SessionPC, SessionTypeOK
  <2>3. ConnTypeOK'
    BY <1>10, HangUpType DEF SetOffline, ConnTypeOK
  <2>4. RequestTypeOK' /\ SchedTypeOK' /\ AgentTypeOK'
    BY <1>10 DEF SetOffline, RequestTypeOK, SchedTypeOK, AgentTypeOK
  <2> QED BY <2>1, <2>2, <2>3, <2>4
<1>11. CASE WriteError(c)
  <2>1. ConnTypeOK'
    BY <1>11 DEF WriteError, ConnTypeOK
  <2>2. AgentTypeOK'
    BY <1>11 DEF WriteError, Spend, Bounded, AgentTypeOK
  <2>3. StoreTypeOK' /\ SessionTypeOK' /\ RequestTypeOK' /\ SchedTypeOK'
    BY <1>11 DEF WriteError, StoreTypeOK, SessionTypeOK, RequestTypeOK, SchedTypeOK
  <2> QED BY <2>1, <2>2, <2>3
<1> QED BY <1>0, <1>1, <1>2, <1>3, <1>4, <1>5, <1>6, <1>7, <1>8, <1>9, <1>10, <1>11 DEF Session

\* Every step of an operator request.
LEMMA RequestType ==
    ASSUME TypeOK, NEW h \in Handlers, Request(h)
    PROVE  TypeOK'
<1> USE NoneAssumption, TargetAssumption DEF TypeOK
<1>1. CASE \E t \in Tasks, spread \in BOOLEAN, offset \in 0..MaxDefer : CreateTask(h, t, spread, offset)
  <2> SUFFICES ASSUME NEW t \in Tasks, NEW spread \in BOOLEAN, NEW offset \in 0..MaxDefer, CreateTask(h, t, spread, offset)
               PROVE  TypeOK'
    BY <1>1
  <2>1. StoreTypeOK'
    BY BoundAssumption DEF CreateTask, AddTask, TaskStates, NonTerminal, Terminal, StoreTypeOK
  <2>2. RequestTypeOK'
    BY DEF CreateTask, HandlerPC, RequestTypeOK
  <2>3. SessionTypeOK' /\ ConnTypeOK' /\ SchedTypeOK' /\ AgentTypeOK'
    BY DEF CreateTask, SessionTypeOK, ConnTypeOK, SchedTypeOK, AgentTypeOK
  <2> QED BY <2>1, <2>2, <2>3
<1>2. CASE DispatchLookup(h)
  <2>1. RequestTypeOK'
    BY <1>2 DEF DispatchLookup, HandlerLookup, HandlerReturn, HandlerPC, SessionTypeOK, RequestTypeOK
  <2>2. StoreTypeOK' /\ SessionTypeOK' /\ ConnTypeOK' /\ SchedTypeOK' /\ AgentTypeOK'
    BY <1>2 DEF DispatchLookup, HandlerLookup, StoreTypeOK, SessionTypeOK, ConnTypeOK, SchedTypeOK, AgentTypeOK
  <2> QED BY <2>1, <2>2
<1>3. CASE DispatchSend(h)
  <2>1. RequestTypeOK'
    BY <1>3 DEF DispatchSend, HandlerReturn, HandlerPC, RequestTypeOK
  <2>2. ConnTypeOK'
    BY <1>3, MessageType, SendType DEF DispatchSend, RequestTypeOK, ConnTypeOK
  <2>3. StoreTypeOK' /\ SessionTypeOK' /\ SchedTypeOK' /\ AgentTypeOK'
    BY <1>3 DEF DispatchSend, StoreTypeOK, SessionTypeOK, SchedTypeOK, AgentTypeOK
  <2> QED BY <2>1, <2>2, <2>3
<1>4. CASE DispatchMark(h)
  <2>1. StoreTypeOK'
    BY <1>4 DEF DispatchMark, RequestTypeOK, MarkDispatched, TaskStates, NonTerminal, Terminal, StoreTypeOK
  <2>2. RequestTypeOK'
    BY <1>4 DEF DispatchMark, HandlerReturn, HandlerPC, RequestTypeOK
  <2>3. SessionTypeOK' /\ ConnTypeOK' /\ SchedTypeOK' /\ AgentTypeOK'
    BY <1>4 DEF DispatchMark, SessionTypeOK, ConnTypeOK, SchedTypeOK, AgentTypeOK
  <2> QED BY <2>1, <2>2, <2>3
<1>5. CASE \E t \in Tasks : CancelRead(h, t)
  <2> SUFFICES ASSUME NEW t \in Tasks, CancelRead(h, t)
               PROVE  TypeOK'
    BY <1>5
  <2>1. RequestTypeOK'
    BY DEF CancelRead, HandlerPC, RequestTypeOK
  <2>2. AgentTypeOK'
    BY DEF CancelRead, Spend, Bounded, AgentTypeOK
  <2>3. StoreTypeOK' /\ SessionTypeOK' /\ ConnTypeOK' /\ SchedTypeOK'
    BY DEF CancelRead, StoreTypeOK, SessionTypeOK, ConnTypeOK, SchedTypeOK
  <2> QED BY <2>1, <2>2, <2>3
<1>6. CASE CancelQueued(h)
  <2>1. StoreTypeOK'
    BY <1>6 DEF CancelQueued, RequestTypeOK, Finalize, TaskStates, NonTerminal, Terminal, StoreTypeOK
  <2>2. RequestTypeOK'
    BY <1>6 DEF CancelQueued, HandlerReturn, HandlerPC, RequestTypeOK
  <2>3. SessionTypeOK' /\ ConnTypeOK' /\ SchedTypeOK' /\ AgentTypeOK'
    BY <1>6 DEF CancelQueued, SessionTypeOK, ConnTypeOK, SchedTypeOK, AgentTypeOK
  <2> QED BY <2>1, <2>2, <2>3
<1>7. CASE CancelLive(h)
  <2>1. StoreTypeOK'
    BY <1>7 DEF CancelLive, RequestTypeOK, TaskStates, NonTerminal, Terminal, StoreTypeOK
  <2>2. RequestTypeOK'
    BY <1>7 DEF CancelLive, HandlerPC, RequestTypeOK
  <2>3. SessionTypeOK' /\ ConnTypeOK' /\ SchedTypeOK' /\ AgentTypeOK'
    BY <1>7 DEF CancelLive, SessionTypeOK, ConnTypeOK, SchedTypeOK, AgentTypeOK
  <2> QED BY <2>1, <2>2, <2>3
<1>8. CASE CancelLookup(h)
  <2>1. RequestTypeOK'
    BY <1>8 DEF CancelLookup, HandlerLookup, HandlerReturn, HandlerPC, SessionTypeOK, RequestTypeOK
  <2>2. StoreTypeOK' /\ SessionTypeOK' /\ ConnTypeOK' /\ SchedTypeOK' /\ AgentTypeOK'
    BY <1>8 DEF CancelLookup, HandlerLookup, StoreTypeOK, SessionTypeOK, ConnTypeOK, SchedTypeOK, AgentTypeOK
  <2> QED BY <2>1, <2>2
<1>9. CASE CancelSend(h)
  <2>1. RequestTypeOK'
    BY <1>9 DEF CancelSend, HandlerReturn, HandlerPC, RequestTypeOK
  <2>2. ConnTypeOK'
    BY <1>9, MessageType, SendType DEF CancelSend, RequestTypeOK, ConnTypeOK
  <2>3. StoreTypeOK' /\ SessionTypeOK' /\ SchedTypeOK' /\ AgentTypeOK'
    BY <1>9 DEF CancelSend, StoreTypeOK, SessionTypeOK, SchedTypeOK, AgentTypeOK
  <2> QED BY <2>1, <2>2, <2>3
<1> QED BY <1>1, <1>2, <1>3, <1>4, <1>5, <1>6, <1>7, <1>8, <1>9 DEF Request

\* Every step of reapLoop.
LEMMA SchedulerType ==
    ASSUME TypeOK, Scheduler
    PROVE  TypeOK'
<1> USE NoneAssumption, TargetAssumption DEF TypeOK
<1>1. CASE SweepStart
  <2>1. SchedTypeOK'
    BY <1>1 DEF SweepStart, ReadyQueuedTasks, SchedTypeOK
  <2>2. StoreTypeOK' /\ SessionTypeOK' /\ ConnTypeOK' /\ RequestTypeOK' /\ AgentTypeOK'
    BY <1>1 DEF SweepStart, StoreTypeOK, SessionTypeOK, ConnTypeOK, RequestTypeOK, AgentTypeOK
  <2> QED BY <2>1, <2>2
<1>2. CASE SweepLookup
  <2>1. SchedTypeOK'
    BY <1>2 DEF SweepLookup, First, SweepNext, SessionTypeOK, SchedTypeOK
  <2>2. StoreTypeOK' /\ SessionTypeOK' /\ ConnTypeOK' /\ RequestTypeOK' /\ AgentTypeOK'
    BY <1>2 DEF SweepLookup, StoreTypeOK, SessionTypeOK, ConnTypeOK, RequestTypeOK, AgentTypeOK
  <2> QED BY <2>1, <2>2
<1>3. CASE SweepSend
  <2>1. SchedTypeOK'
    BY <1>3 DEF SweepSend, SweepNext, SchedTypeOK
  <2>2. ConnTypeOK'
    BY <1>3, MessageType, SendType DEF SweepSend, SchedTypeOK, ConnTypeOK
  <2>3. StoreTypeOK' /\ SessionTypeOK' /\ RequestTypeOK' /\ AgentTypeOK'
    BY <1>3 DEF SweepSend, StoreTypeOK, SessionTypeOK, RequestTypeOK, AgentTypeOK
  <2> QED BY <2>1, <2>2, <2>3
<1>4. CASE SweepMark
  <2>1. StoreTypeOK'
    BY <1>4 DEF SweepMark, SchedTypeOK, MarkDispatched, TaskStates, NonTerminal, Terminal, StoreTypeOK
  <2>2. SchedTypeOK'
    BY <1>4 DEF SweepMark, SweepNext, SchedTypeOK
  <2>3. SessionTypeOK' /\ ConnTypeOK' /\ RequestTypeOK' /\ AgentTypeOK'
    BY <1>4 DEF SweepMark, SessionTypeOK, ConnTypeOK, RequestTypeOK, AgentTypeOK
  <2> QED BY <2>1, <2>2, <2>3
<1>5. CASE ReapStart
  <2>1. SchedTypeOK'
    BY <1>5 DEF ReapStart, Overdue, SchedTypeOK
  <2>2. StoreTypeOK' /\ SessionTypeOK' /\ ConnTypeOK' /\ RequestTypeOK' /\ AgentTypeOK'
    BY <1>5 DEF ReapStart, StoreTypeOK, SessionTypeOK, ConnTypeOK, RequestTypeOK, AgentTypeOK
  <2> QED BY <2>1, <2>2
<1>6. CASE Reap
  <2>1. StoreTypeOK'
    BY <1>6 DEF Reap, SchedTypeOK, MarkTaskFinal, Finalize, TaskStates, NonTerminal, Terminal, StoreTypeOK
  <2>2. SchedTypeOK'
    BY <1>6 DEF Reap, SchedTypeOK
  <2>3. SessionTypeOK' /\ ConnTypeOK' /\ RequestTypeOK' /\ AgentTypeOK'
    BY <1>6 DEF Reap, SessionTypeOK, ConnTypeOK, RequestTypeOK, AgentTypeOK
  <2> QED BY <2>1, <2>2, <2>3
<1> QED BY <1>1, <1>2, <1>3, <1>4, <1>5, <1>6 DEF Scheduler

\* Every step of an agent's reader, and its faults.
LEMMA AgentType ==
    ASSUME TypeOK, NEW a \in Agents, Agent(a)
    PROVE  TypeOK'
<1> USE NoneAssumption, TargetAssumption DEF TypeOK
<1>1. CASE \E c \in Conns : Dial(a, c)
  <2> SUFFICES ASSUME NEW c \in Conns, Dial(a, c)
               PROVE  TypeOK'
    BY <1>1
  <2>1. SessionTypeOK'
    BY DEF Dial, SessionPC, SessionTypeOK
  <2>2. AgentTypeOK'
    BY DEF Dial, AgentTypeOK
  <2>3. StoreTypeOK' /\ ConnTypeOK' /\ RequestTypeOK' /\ SchedTypeOK'
    BY DEF Dial, StoreTypeOK, ConnTypeOK, RequestTypeOK, SchedTypeOK
  <2> QED BY <2>1, <2>2, <2>3
<1>2. CASE AgentReadDispatch(a)
  <2>1. aconn[a] \in Conns /\ out[aconn[a]] # <<>>
    BY <1>2 DEF AgentReadDispatch, AgentTypeOK
  <2>2. ConnTypeOK'
    <3> DEFINE t == Head(out[aconn[a]]).task
    <3>1. t \in Tasks /\ Tail(out[aconn[a]]) \in Seq(Message)
      BY <2>1, OutType
    <3>2. out' \in [Conns -> Seq(Message)]
      BY <1>2, <3>1 DEF AgentReadDispatch, ConnTypeOK
    <3>3. results[t] # "none" => results[t] \in Terminal
      BY <3>1 DEF AgentTypeOK
    <3>4. in' = in \/ (results[t] # "none" /\ AgentSend(a, aconn[a], t, results[t]))
      BY <1>2 DEF AgentReadDispatch
    <3>5. in' \in [Conns -> Seq(Result)]
      BY <2>1, <3>1, <3>3, <3>4, AgentSendType DEF ConnTypeOK
    <3> QED BY <1>2, <3>2, <3>5 DEF AgentReadDispatch, ConnTypeOK
  <2>3. AgentTypeOK'
    BY <1>2, <2>1, OutType DEF AgentReadDispatch, AgentTypeOK
  <2>4. StoreTypeOK' /\ SessionTypeOK' /\ RequestTypeOK' /\ SchedTypeOK'
    BY <1>2 DEF AgentReadDispatch, StoreTypeOK, SessionTypeOK, RequestTypeOK, SchedTypeOK
  <2> QED BY <2>2, <2>3, <2>4
<1>3. CASE AgentAdmit(a)
  <2>1. ConnTypeOK'
    BY <1>3, AgentSendType DEF AgentAdmit, AgentTypeOK, Terminal, ConnTypeOK
  <2>2. AgentTypeOK'
    BY <1>3 DEF AgentAdmit, Terminal, AgentTypeOK
  <2>3. StoreTypeOK' /\ SessionTypeOK' /\ RequestTypeOK' /\ SchedTypeOK'
    BY <1>3 DEF AgentAdmit, StoreTypeOK, SessionTypeOK, RequestTypeOK, SchedTypeOK
  <2> QED BY <2>1, <2>2, <2>3
<1>4. CASE AgentReadCancel(a)
  <2>1. aconn[a] \in Conns /\ out[aconn[a]] # <<>>
    BY <1>4 DEF AgentReadCancel, AgentTypeOK
  <2>2. ConnTypeOK'
    BY <1>4, <2>1, OutType DEF AgentReadCancel, ConnTypeOK
  <2>3. AgentTypeOK'
    BY <1>4, <2>1, OutType DEF AgentReadCancel, AgentTypeOK
  <2>4. StoreTypeOK' /\ SessionTypeOK' /\ RequestTypeOK' /\ SchedTypeOK'
    BY <1>4 DEF AgentReadCancel, StoreTypeOK, SessionTypeOK, RequestTypeOK, SchedTypeOK
  <2> QED BY <2>2, <2>3, <2>4
<1>5. CASE AgentDisconnect(a)
  <2>1. aconn[a] \in Conns
    BY <1>5 DEF AgentDisconnect, AgentTypeOK
  <2>2. <<>> \in Seq(Message)
    BY <1>5, <2>1 DEF AgentDisconnect
  <2>3. ConnTypeOK'
    BY <1>5, <2>1, <2>2 DEF AgentDisconnect, ConnTypeOK
  <2>4. AgentTypeOK'
    <3>1. spent' \in [Bounded -> Nat]
      BY <1>5 DEF AgentDisconnect, Breaks, Spend, Bounded, AgentTypeOK
    <3> QED BY <1>5, <2>1, <2>2, <3>1 DEF AgentDisconnect, AgentTypeOK
  <2>5. StoreTypeOK' /\ SessionTypeOK' /\ RequestTypeOK' /\ SchedTypeOK'
    BY <1>5 DEF AgentDisconnect, StoreTypeOK, SessionTypeOK, RequestTypeOK, SchedTypeOK
  <2> QED BY <2>3, <2>4, <2>5
<1>6. CASE AgentRestart(a)
  <2>1. <<>> \in Seq(Message)
    BY <1>6 DEF AgentRestart
  <2>2. ConnTypeOK'
    BY <1>6, <2>1 DEF AgentRestart, ConnTypeOK
  <2>3. AgentTypeOK'
    BY <1>6, <2>1 DEF AgentRestart, Spend, Bounded, AgentTypeOK
  <2>4. StoreTypeOK' /\ SessionTypeOK' /\ RequestTypeOK' /\ SchedTypeOK'
    BY <1>6 DEF AgentRestart, StoreTypeOK, SessionTypeOK, RequestTypeOK, SchedTypeOK
  <2> QED BY <2>2, <2>3, <2>4
<1> QED BY <1>1, <1>2, <1>3, <1>4, <1>5, <1>6 DEF Agent

\* Every step of a task goroutine.
LEMMA AgentTaskType ==
    ASSUME TypeOK, NEW t \in Tasks, AgentTask(t)
    PROVE  TypeOK'
<1> USE NoneAssumption, TargetAssumption DEF TypeOK
<1>1. CASE \E status \in Terminal : FinishTask(t, status)
  <2> SUFFICES ASSUME NEW status \in Terminal, FinishTask(t, status)
               PROVE  TypeOK'
    BY <1>1
  <2>1. AgentTypeOK'
    BY DEF FinishTask, Terminal, AgentTypeOK
  <2>2. StoreTypeOK' /\ SessionTypeOK' /\ ConnTypeOK' /\ RequestTypeOK' /\ SchedTypeOK'
    BY DEF FinishTask, StoreTypeOK, SessionTypeOK, ConnTypeOK, RequestTypeOK, SchedTypeOK
  <2> QED BY <2>1, <2>2
<1>2. CASE SendResult(t)
  <2>1. ConnTypeOK'
    <3>1. Target[t] \in Agents /\ taskConn[t] \in Conns /\ results[t] \in Terminal
      BY <1>2 DEF SendResult, AgentTypeOK
    <3>2. in' \in [Conns -> Seq(Result)]
      BY <1>2, <3>1, AgentSendType DEF SendResult
    <3> QED BY <1>2, <3>2 DEF SendResult, ConnTypeOK
  <2>2. AgentTypeOK'
    BY <1>2 DEF SendResult, AgentTypeOK
  <2>3. StoreTypeOK' /\ SessionTypeOK' /\ RequestTypeOK' /\ SchedTypeOK'
    BY <1>2 DEF SendResult, StoreTypeOK, SessionTypeOK, RequestTypeOK, SchedTypeOK
  <2> QED BY <2>1, <2>2, <2>3
<1>3. CASE UnregisterTask(t)
  <2>1. AgentTypeOK'
    BY <1>3 DEF UnregisterTask, AgentTypeOK
  <2>2. StoreTypeOK' /\ SessionTypeOK' /\ ConnTypeOK' /\ RequestTypeOK' /\ SchedTypeOK'
    BY <1>3 DEF UnregisterTask, StoreTypeOK, SessionTypeOK, ConnTypeOK, RequestTypeOK, SchedTypeOK
  <2> QED BY <2>1, <2>2
<1>4. CASE PruneResult(t)
  <2>1. AgentTypeOK'
    BY <1>4 DEF PruneResult, Spend, Bounded, AgentTypeOK
  <2>2. StoreTypeOK' /\ SessionTypeOK' /\ ConnTypeOK' /\ RequestTypeOK' /\ SchedTypeOK'
    BY <1>4 DEF PruneResult, StoreTypeOK, SessionTypeOK, ConnTypeOK, RequestTypeOK, SchedTypeOK
  <2> QED BY <2>1, <2>2
<1> QED BY <1>1, <1>2, <1>3, <1>4 DEF AgentTask

\* A server restart keeps the types: Open resets flags and stamps rows.
LEMMA RestartType == ASSUME TypeOK, ServerRestart PROVE TypeOK'
<1> USE NoneAssumption DEF TypeOK
<1>1. StoreTypeOK'
  BY BoundAssumption DEF ServerRestart, StoreTypeOK
<1>2. SessionTypeOK'
  BY DEF ServerRestart, SessionTypeOK, SessionPC
<1>3. <<>> \in Seq(Result)
  OBVIOUS
<1>4. ConnTypeOK'
  BY <1>3 DEF ServerRestart, ConnTypeOK
<1>5. RequestTypeOK' /\ SchedTypeOK'
  BY DEF ServerRestart, RequestTypeOK, SchedTypeOK, HandlerPC
<1>6. AgentTypeOK'
  BY DEF ServerRestart, Spend, Bounded, AgentTypeOK
<1> QED BY <1>1, <1>2, <1>4, <1>5, <1>6

\* So does the passage of time over release moments and dispatch stamps.
LEMMA TickType == ASSUME TypeOK, Tick PROVE TypeOK'
<1> USE NoneAssumption DEF TypeOK
<1>1. StoreTypeOK'
  BY BoundAssumption DEF Tick, Older, StoreTypeOK
<1>2. SessionTypeOK' /\ ConnTypeOK' /\ RequestTypeOK' /\ SchedTypeOK' /\ AgentTypeOK'
  BY DEF Tick, SessionTypeOK, ConnTypeOK, RequestTypeOK, SchedTypeOK, AgentTypeOK
<1> QED BY <1>1, <1>2

\* An empty database and no process running: the first start has the types.
LEMMA InitType == Init => TypeOK
<1> SUFFICES ASSUME Init PROVE TypeOK
  OBVIOUS
<1> USE NoneAssumption DEF Init
<1>1. StoreTypeOK BY DEF StoreTypeOK, TaskStates
<1>2. SessionTypeOK BY DEF SessionTypeOK, SessionPC
<1>3. <<>> \in Seq(Message) /\ <<>> \in Seq(Result) OBVIOUS
<1>4. ConnTypeOK BY <1>3 DEF ConnTypeOK
<1>5. RequestTypeOK /\ SchedTypeOK BY DEF RequestTypeOK, HandlerPC, SchedTypeOK
<1>6. AgentTypeOK BY DEF AgentTypeOK
<1> QED BY <1>1, <1>2, <1>4, <1>5, <1>6 DEF TypeOK

\* A step of something outside the model.
LEMMA StutterType == ASSUME TypeOK, UNCHANGED vars PROVE TypeOK'
<1> USE DEF TypeOK, vars
<1>1. StoreTypeOK' /\ SessionTypeOK' /\ ConnTypeOK'
  BY DEF StoreTypeOK, SessionTypeOK, ConnTypeOK
<1>2. RequestTypeOK' /\ SchedTypeOK' /\ AgentTypeOK'
  BY DEF RequestTypeOK, SchedTypeOK, AgentTypeOK
<1> QED BY <1>1, <1>2

\* Whatever goroutine moves next, on the server or on an agent.
LEMMA NextType == TypeOK /\ [Next]_vars => TypeOK'
BY SessionType, RequestType, SchedulerType, AgentType, AgentTaskType,
   RestartType, TickType, StutterType DEF Next

\* Every variable keeps its type, and a goroutine that resumes after a wait
\* (sendMessage, CancelTask's write, MarkDispatched) still holds the task and
\* the session it picked before it.
THEOREM TypeCorrect == Spec => []TypeOK
<1>1. Init => TypeOK
  BY InitType
<1>2. TypeOK /\ [Next]_vars => TypeOK'
  BY NextType
<1> QED BY <1>1, <1>2, PTL DEF Spec

-----------------------------------------------------------------------------
(***************************************************************************)
(* What a step may do to the store.  Every step executes at most one of    *)
(* the statements, under the condition its caller established.             *)
(***************************************************************************)
StoreStatement ==
    \/ UNCHANGED storeVars
    \/ \E t \in Tasks : MarkDispatched(t)
    \/ \E t \in Tasks, deferred \in BOOLEAN : state[t] = "none" /\ AddTask(t, deferred)
    \/ \E t \in Tasks, status \in Terminal, by \in {"agent", "reaper"} :
          state[t] \in NonTerminal /\ Finalize(t, status, by)
    \/ \E c \in Conns : \E t \in pend[c] : spc[c] = "requeue" /\ AddTask(t, FALSE)
    \/ \E h \in Handlers :
          hpc[h] = "cancelQueued" /\ Finalize(htask[h], "canceled", "operator")
    \/ \E h \in Handlers :
          /\ hpc[h] = "cancelLive"
          /\ state' = [state EXCEPT ![htask[h]] = "cancel_requested"]
          /\ UNCHANGED <<release, dispatchedAt, result, resultBy>>
    \/ /\ UNCHANGED <<state, release, result, resultBy>>
       /\ \A t \in Tasks : dispatchedAt[t] # NULL => dispatchedAt'[t] # NULL

\* Every step of the system is one of them.
LEMMA StoreStep == ASSUME TypeOK, [Next]_vars PROVE StoreStatement
<1> USE DEF TypeOK
<1>1. ASSUME NEW c \in Conns, Session(c) PROVE StoreStatement
  <2>1. CASE DeliverMark(c)
    BY <2>1 DEF DeliverMark, SessionTypeOK, StoreStatement
  <2>2. CASE Requeue(c)
    <3>1. PICK t \in pend[c] : AddTask(t, FALSE)
      BY <2>2 DEF Requeue, First
    <3> QED BY <2>2, <3>1 DEF Requeue, StoreStatement
  <2>3. CASE RecvResult(c)
    <3>1. Head(in[c]).task \in Tasks /\ Head(in[c]).status \in Terminal
      BY <2>3, InType DEF RecvResult
    <3> QED BY <2>3, <3>1 DEF RecvResult, SaveResult, StoreStatement
  <2>4. CASE Register(c) \/ RetireOld(c) \/ LoadPending(c) \/ Deliver(c) \/ Touch(c) \/ ReadError(c)
    BY <2>4 DEF Register, RetireOld, LoadPending, Deliver, Touch, ReadError, StoreStatement
  <2>5. CASE Unregister(c) \/ SetOffline(c) \/ WriteError(c)
    BY <2>5 DEF Unregister, SetOffline, WriteError, StoreStatement
  <2> QED BY <1>1, <2>1, <2>2, <2>3, <2>4, <2>5 DEF Session
<1>2. ASSUME NEW h \in Handlers, Request(h) PROVE StoreStatement
  <2>1. ASSUME NEW t \in Tasks, NEW spread \in BOOLEAN, NEW offset \in 0..MaxDefer,
               CreateTask(h, t, spread, offset)
        PROVE  StoreStatement
    BY <2>1 DEF CreateTask, StoreStatement
  <2>2. CASE DispatchMark(h)
    BY <2>2 DEF DispatchMark, RequestTypeOK, StoreStatement
  <2>3. CASE CancelQueued(h)
    BY <2>3 DEF CancelQueued, StoreStatement
  <2>4. CASE CancelLive(h)
    BY <2>4 DEF CancelLive, StoreStatement
  <2>5. CASE DispatchLookup(h) \/ DispatchSend(h) \/ CancelLookup(h) \/ CancelSend(h)
    BY <2>5 DEF DispatchLookup, CancelLookup, HandlerLookup, DispatchSend,
                CancelSend, StoreStatement
  <2>6. ASSUME NEW t \in Tasks, CancelRead(h, t) PROVE StoreStatement
    BY <2>6 DEF CancelRead, StoreStatement
  <2> QED BY <1>2, <2>1, <2>2, <2>3, <2>4, <2>5, <2>6 DEF Request
<1>3. ASSUME Scheduler PROVE StoreStatement
  <2>1. CASE SweepMark
    BY <2>1 DEF SweepMark, SchedTypeOK, StoreStatement
  <2>2. CASE Reap
    <3>1. PICK t \in Tasks :
             \/ MarkTaskFinal(t, "timeout", "dispatched")
             \/ MarkTaskFinal(t, "canceled", "cancel_requested")
      BY <2>2 DEF Reap, SchedTypeOK
    <3> QED BY <3>1 DEF MarkTaskFinal, StoreStatement, Terminal, NonTerminal
  <2>3. CASE SweepStart \/ SweepLookup \/ SweepSend \/ ReapStart
    BY <2>3 DEF SweepStart, SweepLookup, SweepSend, ReapStart, StoreStatement
  <2> QED BY <1>3, <2>1, <2>2, <2>3 DEF Scheduler
<1>4. ASSUME NEW a \in Agents, Agent(a) PROVE StoreStatement
  BY <1>4 DEF Agent, Dial, AgentReadDispatch, AgentAdmit, AgentReadCancel,
              AgentDisconnect, AgentRestart, StoreStatement
<1>5. ASSUME NEW t \in Tasks, AgentTask(t) PROVE StoreStatement
  BY <1>5 DEF AgentTask, FinishTask, SendResult, UnregisterTask, PruneResult,
              StoreStatement
<1>6. CASE ServerRestart
  BY <1>6 DEF ServerRestart, StoreStatement
<1>7. CASE Tick
  <2>1. ASSUME NEW t \in Tasks, dispatchedAt[t] # NULL PROVE dispatchedAt'[t] \in Nat
    BY <1>7, <2>1 DEF Tick, Older, StoreTypeOK
  <2>2. \A t \in Tasks : dispatchedAt[t] # NULL => dispatchedAt'[t] # NULL
    BY <2>1, NoneAssumption
  <2> QED BY <1>7, <2>2 DEF Tick, StoreStatement
<1>8. CASE UNCHANGED vars
  BY <1>8 DEF vars, StoreStatement
<1> QED BY <1>1, <1>2, <1>3, <1>4, <1>5, <1>6, <1>7, <1>8 DEF Next

-----------------------------------------------------------------------------
(***************************************************************************)
(* Rows, results and stamps: consequences of the shape of the statements.  *)
(***************************************************************************)

\* Each statement keeps terminal rows and their results in agreement.
LEMMA ResultStep ==
    ASSUME TypeOK, TerminalHasResult, StoreStatement
    PROVE  TerminalHasResult'
<1> USE DEF TypeOK, StoreTypeOK, TerminalHasResult
<1>1. CASE UNCHANGED <<state, result>>
  BY <1>1
<1>2. ASSUME NEW t \in Tasks, MarkDispatched(t) PROVE TerminalHasResult'
  BY <1>2 DEF MarkDispatched, Terminal
<1>3. ASSUME NEW t \in Tasks, NEW deferred \in BOOLEAN, AddTask(t, deferred)
      PROVE  TerminalHasResult'
  BY <1>3 DEF AddTask, Terminal
<1>4. ASSUME NEW t \in Tasks, NEW status, NEW by, Finalize(t, status, by)
      PROVE  TerminalHasResult'
  BY <1>4 DEF Finalize
<1>5. ASSUME NEW h \in Handlers, hpc[h] = "cancelLive",
             state' = [state EXCEPT ![htask[h]] = "cancel_requested"],
             UNCHANGED result
      PROVE  TerminalHasResult'
  BY <1>5 DEF Terminal
<1>6. \A c \in Conns : pend[c] \subseteq Tasks
  BY DEF SessionTypeOK
<1>7. \A h \in Handlers : hpc[h] = "cancelQueued" => htask[h] \in Tasks
  BY DEF RequestTypeOK
<1> QED BY <1>1, <1>2, <1>3, <1>4, <1>5, <1>6, <1>7 DEF StoreStatement

\* Each statement that leaves a row 'dispatched' leaves it stamped.
LEMMA StampStep ==
    ASSUME TypeOK, DispatchedStamped, StoreStatement
    PROVE  DispatchedStamped'
<1> USE NoneAssumption DEF TypeOK, StoreTypeOK, DispatchedStamped
<1>1. CASE UNCHANGED storeVars
  BY <1>1
<1>2. ASSUME NEW t \in Tasks, MarkDispatched(t) PROVE DispatchedStamped'
  BY <1>2 DEF MarkDispatched
<1>3. ASSUME NEW t \in Tasks, NEW deferred \in BOOLEAN, AddTask(t, deferred)
      PROVE  DispatchedStamped'
  BY <1>3 DEF AddTask
<1>4. ASSUME NEW t \in Tasks, NEW status \in Terminal, NEW by, Finalize(t, status, by)
      PROVE  DispatchedStamped'
  BY <1>4 DEF Finalize, Terminal
<1>5. ASSUME NEW h \in Handlers,
             state' = [state EXCEPT ![htask[h]] = "cancel_requested"],
             UNCHANGED dispatchedAt
      PROVE  DispatchedStamped'
  BY <1>5
<1>6. ASSUME UNCHANGED state,
             \A t \in Tasks : dispatchedAt[t] # NULL => dispatchedAt'[t] # NULL
      PROVE  DispatchedStamped'
  BY <1>6
<1>7. \A c \in Conns : pend[c] \subseteq Tasks
  BY DEF SessionTypeOK
<1>8. \A h \in Handlers : hpc[h] = "cancelQueued" => htask[h] \in Tasks
  BY DEF RequestTypeOK
<1>9. "canceled" \in Terminal
  BY DEF Terminal
<1> QED BY <1>1, <1>2, <1>3, <1>4, <1>5, <1>6, <1>7, <1>8, <1>9 DEF StoreStatement

\* A terminal row and its result always agree.
THEOREM ResultsAgree == Spec => []TerminalHasResult
<1>1. Init => TerminalHasResult
  BY DEF Init, TerminalHasResult, Terminal
<1>2. TypeOK /\ TerminalHasResult /\ [Next]_vars => TerminalHasResult'
  BY StoreStep, ResultStep
<1> QED BY <1>1, <1>2, TypeCorrect, PTL DEF Spec

\* The reaper can see every row that is waiting for a result.
THEOREM StampsKept == Spec => []DispatchedStamped
<1>1. Init => DispatchedStamped
  BY DEF Init, DispatchedStamped
<1>2. TypeOK /\ DispatchedStamped /\ [Next]_vars => DispatchedStamped'
  BY StoreStep, StampStep
<1> QED BY <1>1, <1>2, TypeCorrect, PTL DEF Spec

\* A terminal row is only ever reopened by the two stale writes.
THEOREM TerminalReopening == Spec => TerminalLeftOnlyByStaleWrite
<1>1. ASSUME TypeOK, [Next]_vars, NEW t \in Tasks PROVE ReopenedByStaleWrite(t)
  <2>1. StoreStatement
    BY <1>1, StoreStep
  <2>2. /\ state \in [Tasks -> TaskStates]
        /\ \A c \in Conns : pend[c] \subseteq Tasks
        /\ \A h \in Handlers : hpc[h] # "idle" => htask[h] \in Tasks
    BY <1>1 DEF TypeOK, StoreTypeOK, SessionTypeOK, RequestTypeOK
  <2> QED BY <2>1, <2>2 DEF ReopenedByStaleWrite, StoreStatement, MarkDispatched,
                            AddTask, Finalize, Terminal, NonTerminal
<1>2. TypeOK /\ [Next]_vars => [\A t \in Tasks : ReopenedByStaleWrite(t)]_vars
  BY <1>1
<1> QED BY <1>2, TypeCorrect, PTL DEF Spec, TerminalLeftOnlyByStaleWrite

-----------------------------------------------------------------------------
(***************************************************************************)
(* No early release.                                                       *)
(***************************************************************************)

\* Sending anything but a dispatch of t does not put one in flight.
LEMMA SendOther ==
    ASSUME ConnTypeOK, NEW c \in Conns, NEW m \in Message,
           SendOK(c, m) \/ SendFails(c),
           NEW t \in Tasks, m # Dispatch(t), NotInFlight(t)
    PROVE  NotInFlight(t)'
<1> USE DEF NotInFlight, ConnTypeOK
<1> SUFFICES ASSUME NEW d \in Conns, NEW i \in 1..Len(out'[d])
             PROVE  out'[d][i] # Dispatch(t)
  BY DEF Dispatch
<1>1. CASE out' = out
  BY <1>1
<1>2. CASE out' = [out EXCEPT ![c] = Append(@, m)]
  <2>1. CASE d # c
    BY <1>2, <2>1
  <2>2. CASE d = c
    <3>1. out[c] \in Seq(Message) /\ out'[c] = Append(out[c], m)
      BY <1>2
    <3>2. /\ Len(out'[c]) = Len(out[c]) + 1
          /\ out'[c][Len(out[c]) + 1] = m
          /\ \A j \in 1..Len(out[c]) : out'[c][j] = out[c][j]
      BY <3>1
    <3>3. Len(out[c]) \in Nat
      BY <3>1
    <3>4. i \in 1..Len(out[c]) \/ i = Len(out[c]) + 1
      BY <2>2, <3>2, <3>3
    <3>5. CASE i \in 1..Len(out[c])
      BY <2>2, <3>2, <3>5
    <3>6. CASE i = Len(out[c]) + 1
      BY <2>2, <3>2, <3>6
    <3> QED BY <3>4, <3>5, <3>6
  <2> QED BY <2>1, <2>2
<1> QED BY <1>1, <1>2 DEF SendOK, SendFails

\* Neither does reading a frame or dropping a queue.
LEMMA ReceiveOther ==
    ASSUME ConnTypeOK, NEW t \in Tasks, NotInFlight(t),
           \A c \in Conns : \/ out'[c] = out[c] \/ out'[c] = <<>>
                            \/ out[c] # <<>> /\ out'[c] = Tail(out[c])
    PROVE  NotInFlight(t)'
<1> USE DEF NotInFlight, ConnTypeOK
<1> SUFFICES ASSUME NEW c \in Conns, NEW i \in 1..Len(out'[c])
             PROVE  out'[c][i] # Dispatch(t)
  BY DEF Dispatch
<1>1. CASE out'[c] = out[c]
  BY <1>1
<1>2. CASE out'[c] = <<>>
  BY <1>2
<1>3. CASE out[c] # <<>> /\ out'[c] = Tail(out[c])
  <2>1. out[c] \in Seq(Message)
    OBVIOUS
  <2>2. i + 1 \in 1..Len(out[c]) /\ out'[c][i] = out[c][i + 1]
    BY <1>3, <2>1
  <2> QED BY <2>2
<1> QED BY <1>1, <1>2, <1>3

\* A task held back after a step was held back, or did not exist, before it.
LEMMA HeldBefore ==
    ASSUME TypeOK, [Next]_vars, NEW t \in Tasks, Held(t)'
    PROVE  Held(t)
<1> USE DEF TypeOK, StoreTypeOK, Held
<1>1. StoreStatement
  BY StoreStep
<1>2. state'[t] = "none" => state[t] = "none"
  BY <1>1 DEF StoreStatement, MarkDispatched, AddTask, Finalize, Terminal,
              SessionTypeOK, RequestTypeOK
<1>3. CASE UNCHANGED due
  BY <1>2, <1>3
<1>4. CASE Tick
  BY <1>2, <1>4 DEF Tick
<1>5. ASSUME NEW h \in Handlers, NEW u \in Tasks, NEW spread \in BOOLEAN,
             NEW offset \in 0..MaxDefer, CreateTask(h, u, spread, offset)
      PROVE  Held(t)
  BY <1>2, <1>5 DEF CreateTask
<1>6. UNCHANGED due \/ Tick \/ \E h \in Handlers : Request(h)
  <2>1. ASSUME NEW c \in Conns, Session(c) PROVE UNCHANGED due
    BY <2>1 DEF Session, Register, RetireOld, LoadPending, Deliver, DeliverMark, Requeue,
                RecvResult, Touch, ReadError, Unregister, SetOffline, WriteError
  <2>2. Scheduler => UNCHANGED due
    BY DEF Scheduler, SweepStart, SweepLookup, SweepSend, SweepMark, ReapStart, Reap
  <2>3. ASSUME NEW a \in Agents, Agent(a) PROVE UNCHANGED due
    BY <2>3 DEF Agent, Dial, AgentReadDispatch, AgentAdmit, AgentReadCancel,
                AgentDisconnect, AgentRestart
  <2>4. ASSUME NEW u \in Tasks, AgentTask(u) PROVE UNCHANGED due
    BY <2>4 DEF AgentTask, FinishTask, SendResult, UnregisterTask, PruneResult
  <2>5. ServerRestart \/ UNCHANGED vars => UNCHANGED due
    BY DEF ServerRestart, vars
  <2> QED BY <2>1, <2>2, <2>3, <2>4, <2>5 DEF Next
<1>7. ASSUME NEW h \in Handlers, Request(h)
      PROVE  Held(t)
  <2>1. \/ UNCHANGED due
        \/ \E u \in Tasks, spread \in BOOLEAN, offset \in 0..MaxDefer :
              CreateTask(h, u, spread, offset)
    BY <1>7 DEF Request, DispatchLookup, CancelLookup, HandlerLookup, DispatchSend,
                DispatchMark, CancelRead, CancelQueued, CancelLive, CancelSend
  <2> QED BY <2>1, <1>3, <1>5
<1> QED BY <1>3, <1>4, <1>6, <1>7

\* A task held back is in neither list a session or a sweep works from.
LEMMA HeldNotListed ==
    ASSUME TypeOK, HeldBack, NEW t \in Tasks, Held(t)
    PROVE  /\ Untouched(t)
           /\ \A a \in Agents : t \notin PendingTasks(a)
           /\ t \notin ReadyQueuedTasks
BY DEF HeldBack, Held, PendingTasks, ReadyQueuedTasks, TypeOK, StoreTypeOK

\* No session takes up a task that is held back.
LEMMA SessionHeld ==
    ASSUME TypeOK, HeldBack, NEW t \in Tasks, Held(t), NEW c \in Conns, Session(c)
    PROVE  Untouched(t)'
<1> USE HeldNotListed DEF TypeOK, Untouched
<1>1. CASE LoadPending(c)
  <2>1. peer[c] \in Agents
    BY <1>1 DEF LoadPending, SessionTypeOK
  <2>2. pend' = [pend EXCEPT ![c] = PendingTasks(peer[c])] /\ pend \in [Conns -> SUBSET Tasks]
    BY <1>1 DEF LoadPending, SessionTypeOK
  <2>3. \A d \in Conns : t \notin pend'[d]
    BY <2>1, <2>2
  <2> QED BY <1>1, <2>3 DEF LoadPending, NotInFlight
<1>2. CASE Deliver(c)
  <2>1. PICK u \in pend[c] : /\ SendOK(c, Dispatch(u)) \/ SendFails(c)
                             /\ cur' = cur \/ cur' = [cur EXCEPT ![c] = u]
    BY <1>2 DEF Deliver, First
  <2>2. u \in Tasks /\ u # t
    BY <2>1 DEF SessionTypeOK
  <2>3. Dispatch(u) \in Message /\ Dispatch(u) # Dispatch(t)
    BY <2>2, MessageType DEF Dispatch
  <2>4. NotInFlight(t)'
    BY <2>1, <2>3, SendOther
  <2>5. \A d \in Conns : t \notin pend'[d] /\ cur'[d] # t
    BY <1>2, <2>1, <2>2 DEF Deliver, SessionTypeOK
  <2> QED BY <1>2, <2>4, <2>5 DEF Deliver
<1>3. CASE DeliverMark(c)
  BY <1>3, NoneAssumption DEF DeliverMark, SessionTypeOK, NotInFlight
<1>4. CASE Requeue(c)
  BY <1>4 DEF Requeue, SessionTypeOK, NotInFlight
<1>5. CASE Register(c) \/ RetireOld(c) \/ RecvResult(c) \/ Touch(c) \/ ReadError(c)
  BY <1>5 DEF Register, RetireOld, RecvResult, Touch, ReadError, NotInFlight
<1>6. CASE Unregister(c) \/ SetOffline(c) \/ WriteError(c)
  BY <1>6 DEF Unregister, SetOffline, WriteError, NotInFlight
<1> QED BY <1>1, <1>2, <1>3, <1>4, <1>5, <1>6 DEF Session

\* No request does: one that creates the task ends when it is held back.
LEMMA RequestHeld ==
    ASSUME TypeOK, HeldBack, NEW t \in Tasks, Held(t), Held(t)',
           NEW h \in Handlers, Request(h)
    PROVE  Untouched(t)'
<1> USE HeldNotListed DEF TypeOK, Untouched
<1>1. ASSUME NEW u \in Tasks, NEW spread \in BOOLEAN, NEW offset \in 0..MaxDefer,
             CreateTask(h, u, spread, offset)
      PROVE  Untouched(t)'
  <2>1. u = t => offset > 0
    BY <1>1 DEF CreateTask, AddTask, Held, StoreTypeOK
  <2>2. \A g \in Handlers : hpc'[g] \in {"lookup", "send", "mark"} => htask'[g] # t
    BY <1>1, <2>1 DEF CreateTask, RequestTypeOK
  <2> QED BY <1>1, <2>2 DEF CreateTask, NotInFlight
<1>2. CASE DispatchSend(h)
  <2>1. htask[h] \in Tasks /\ htask[h] # t /\ hconn[h] \in Conns
    BY <1>2 DEF DispatchSend, RequestTypeOK
  <2>2. Dispatch(htask[h]) \in Message /\ Dispatch(htask[h]) # Dispatch(t)
    BY <2>1, MessageType DEF Dispatch
  <2>3. NotInFlight(t)'
    BY <1>2, <2>1, <2>2, SendOther DEF DispatchSend
  <2> QED BY <1>2, <2>1, <2>3 DEF DispatchSend, HandlerReturn, RequestTypeOK
<1>3. CASE CancelSend(h)
  <2>1. htask[h] \in Tasks /\ hconn[h] \in Conns
    BY <1>3 DEF CancelSend, RequestTypeOK
  <2>2. Cancel(htask[h]) \in Message /\ Cancel(htask[h]) # Dispatch(t)
    BY <2>1, MessageType DEF Dispatch, Cancel
  <2>3. NotInFlight(t)'
    BY <1>3, <2>1, <2>2, SendOther DEF CancelSend
  <2> QED BY <1>3, <2>3 DEF CancelSend, HandlerReturn, RequestTypeOK
<1>4. CASE DispatchLookup(h) \/ CancelLookup(h)
  BY <1>4 DEF DispatchLookup, CancelLookup, HandlerLookup, HandlerReturn,
              RequestTypeOK, NotInFlight
<1>5. CASE DispatchMark(h) \/ CancelQueued(h) \/ CancelLive(h)
  BY <1>5 DEF DispatchMark, CancelQueued, CancelLive, HandlerReturn,
              RequestTypeOK, NotInFlight
<1>6. ASSUME NEW u \in Tasks, CancelRead(h, u) PROVE Untouched(t)'
  BY <1>6 DEF CancelRead, RequestTypeOK, NotInFlight
<1> QED BY <1>1, <1>2, <1>3, <1>4, <1>5, <1>6 DEF Request

\* No sweep does.
LEMMA SchedulerHeld ==
    ASSUME TypeOK, HeldBack, NEW t \in Tasks, Held(t), Scheduler
    PROVE  Untouched(t)'
<1> USE HeldNotListed, NoneAssumption DEF TypeOK, Untouched
<1>1. CASE SweepStart
  BY <1>1 DEF SweepStart, NotInFlight
<1>2. CASE SweepLookup
  BY <1>2 DEF SweepLookup, SweepNext, First, NotInFlight
<1>3. CASE SweepSend
  <2>1. rtask \in Tasks /\ rtask # t /\ rconn \in Conns
    BY <1>3 DEF SweepSend, SchedTypeOK
  <2>2. Dispatch(rtask) \in Message /\ Dispatch(rtask) # Dispatch(t)
    BY <2>1, MessageType DEF Dispatch
  <2>3. NotInFlight(t)'
    BY <1>3, <2>1, <2>2, SendOther DEF SweepSend
  <2> QED BY <1>3, <2>1, <2>3 DEF SweepSend, SweepNext
<1>4. CASE SweepMark
  BY <1>4 DEF SweepMark, SweepNext, NotInFlight
<1>5. CASE ReapStart \/ Reap
  BY <1>5 DEF ReapStart, Reap, NotInFlight
<1> QED BY <1>1, <1>2, <1>3, <1>4, <1>5 DEF Scheduler

\* No agent does: it only starts what a dispatch told it to.
LEMMA AgentHeld ==
    ASSUME TypeOK, HeldBack, NEW t \in Tasks, Held(t), NEW a \in Agents, Agent(a)
    PROVE  Untouched(t)'
<1> USE HeldNotListed, NoneAssumption DEF TypeOK, Untouched
<1>1. ASSUME NEW c \in Conns, Dial(a, c) PROVE Untouched(t)'
  BY <1>1 DEF Dial, NotInFlight
<1>2. CASE AgentReadDispatch(a)
  <2>1. /\ aconn[a] \in Conns /\ out[aconn[a]] # <<>>
        /\ Head(out[aconn[a]]).kind = "dispatch"
        /\ out' = [out EXCEPT ![aconn[a]] = Tail(@)]
    BY <1>2 DEF AgentReadDispatch, AgentTypeOK
  <2>2. NotInFlight(t)'
    BY <2>1, ReceiveOther DEF ConnTypeOK
  <2>3. out[aconn[a]] \in Seq(Message)
    BY <2>1 DEF ConnTypeOK
  <2>4. Head(out[aconn[a]]) = out[aconn[a]][1] /\ 1 \in 1..Len(out[aconn[a]])
    BY <2>1, <2>3
  <2>5. Head(out[aconn[a]]) # Dispatch(t) /\ Head(out[aconn[a]]) \in Message
    BY <2>1, <2>3, <2>4, HeadType DEF NotInFlight
  <2>6. Head(out[aconn[a]]).task # t
    BY <2>1, <2>5 DEF Dispatch, Message
  <2>7. \A b \in Agents : atask'[b] # t
    BY <1>2, <2>6 DEF AgentReadDispatch, AgentTypeOK
  <2> QED BY <1>2, <2>2, <2>7 DEF AgentReadDispatch
<1>3. CASE AgentAdmit(a)
  BY <1>3 DEF AgentAdmit, AgentTypeOK, NotInFlight
<1>4. CASE AgentReadCancel(a)
  <2>1. /\ aconn[a] \in Conns /\ out[aconn[a]] # <<>>
        /\ out' = [out EXCEPT ![aconn[a]] = Tail(@)]
    BY <1>4 DEF AgentReadCancel, AgentTypeOK
  <2>2. NotInFlight(t)'
    BY <2>1, ReceiveOther DEF ConnTypeOK
  <2> QED BY <1>4, <2>2 DEF AgentReadCancel
<1>5. CASE AgentDisconnect(a)
  <2>1. NotInFlight(t)'
    BY <1>5, ReceiveOther DEF AgentDisconnect, ConnTypeOK
  <2> QED BY <1>5, <2>1 DEF AgentDisconnect
<1>6. CASE AgentRestart(a)
  <2>1. NotInFlight(t)'
    BY <1>6, ReceiveOther DEF AgentRestart, ConnTypeOK
  <2> QED BY <1>6, <2>1 DEF AgentRestart, AgentTypeOK
<1> QED BY <1>1, <1>2, <1>3, <1>4, <1>5, <1>6 DEF Agent

\* Nor does a step of a task goroutine, a restart or the passage of time.
LEMMA OtherHeld ==
    ASSUME TypeOK, HeldBack, NEW t \in Tasks, Held(t),
           \/ \E u \in Tasks : AgentTask(u)
           \/ ServerRestart \/ Tick \/ UNCHANGED vars
    PROVE  Untouched(t)'
<1> USE HeldNotListed, NoneAssumption DEF TypeOK, Untouched, NotInFlight
<1>1. ASSUME NEW u \in Tasks, AgentTask(u) PROVE Untouched(t)'
  BY <1>1 DEF AgentTask, FinishTask, SendResult, UnregisterTask, PruneResult
<1>2. CASE ServerRestart
  BY <1>2 DEF ServerRestart
<1>3. CASE Tick
  BY <1>3 DEF Tick
<1>4. CASE UNCHANGED vars
  BY <1>4 DEF vars
<1> QED BY <1>1, <1>2, <1>3, <1>4

\* The row of a task that is held back keeps saying so.
LEMMA ReleaseStep ==
    ASSUME TypeOK, HeldBack, [Next]_vars, NEW t \in Tasks,
           due'[t] > 0, state'[t] = "queued"
    PROVE  release'[t]
<1> USE DEF TypeOK, StoreTypeOK
<1>1. Held(t)
  BY HeldBefore DEF Held
<1>2. Untouched(t) /\ (due[t] > 0 /\ state[t] = "queued" => release[t])
  BY <1>1 DEF HeldBack
<1>3. ASSUME NEW h \in Handlers, NEW u \in Tasks, NEW spread \in BOOLEAN,
             NEW offset \in 0..MaxDefer, CreateTask(h, u, spread, offset)
      PROVE  release'[t]
  <2>1. CASE u = t
    BY <1>3, <2>1, BoundAssumption DEF CreateTask, AddTask
  <2>2. CASE u # t
    BY <1>2, <1>3, <2>2 DEF CreateTask, AddTask
  <2> QED BY <2>1, <2>2
<1>4. ASSUME state[t] = "none" PROVE release'[t]
  <2>1. state'[t] # state[t]
    BY <1>4
  <2>2. ASSUME NEW c \in Conns, Session(c) PROVE FALSE
    <3>1. t \notin pend[c] /\ cur[c] # t
      BY <1>2 DEF Untouched
    <3>2. CASE RecvResult(c)
      BY <3>2, <1>4, <2>1, InType DEF RecvResult, SaveResult, Finalize, NonTerminal
    <3> QED BY <2>1, <2>2, <3>1, <3>2, <1>4 DEF Session, Register, RetireOld, LoadPending, Deliver,
              DeliverMark, Requeue, Touch, ReadError, Unregister, SetOffline,
              WriteError, MarkDispatched, AddTask, First, SessionTypeOK
  <2>3. Scheduler => FALSE
    BY <2>1, <1>4 DEF Scheduler, SweepStart, SweepLookup, SweepSend, SweepMark, ReapStart,
              Reap, MarkDispatched, MarkTaskFinal, Finalize, SchedTypeOK
  <2>4. ASSUME NEW a \in Agents, Agent(a) PROVE FALSE
    BY <2>1, <2>4 DEF Agent, Dial, AgentReadDispatch, AgentAdmit, AgentReadCancel,
                AgentDisconnect, AgentRestart
  <2>5. ASSUME NEW u \in Tasks, AgentTask(u) PROVE FALSE
    BY <2>1, <2>5 DEF AgentTask, FinishTask, SendResult, UnregisterTask, PruneResult
  <2>6. ServerRestart \/ Tick \/ UNCHANGED vars => FALSE
    BY <2>1 DEF ServerRestart, Tick, vars
  <2>7. PICK h \in Handlers : Request(h)
    BY <2>2, <2>3, <2>4, <2>5, <2>6 DEF Next
  <2>8. PICK u \in Tasks, spread \in BOOLEAN, offset \in 0..MaxDefer :
             CreateTask(h, u, spread, offset)
    BY <2>1, <2>7, <1>4 DEF Request, DispatchLookup, CancelLookup, HandlerLookup, DispatchSend,
                DispatchMark, MarkDispatched, CancelRead, CancelQueued, Finalize, CancelLive,
                CancelSend, RequestTypeOK
  <2> QED BY <2>8, <1>3
<1>5. ASSUME due[t] > 0, state[t] # "none" PROVE release'[t]
  <2>1. StoreStatement
    BY StoreStep
  <2>2. \A c \in Conns : t \notin pend[c]
    BY <1>2 DEF Untouched
  <2> QED BY <1>2, <1>5, <2>1, <2>2 DEF StoreStatement, MarkDispatched, AddTask, Finalize,
             Terminal, SessionTypeOK, RequestTypeOK
<1> QED BY <1>1, <1>4, <1>5 DEF Held

\* HeldBack is inductive.
LEMMA HeldStep == TypeOK /\ HeldBack /\ [Next]_vars => HeldBack'
<1> SUFFICES ASSUME TypeOK, HeldBack, [Next]_vars PROVE HeldBack'
  OBVIOUS
<1>1. ASSUME NEW t \in Tasks, Held(t)' PROVE Untouched(t)'
  <2>1. Held(t)
    BY <1>1, HeldBefore
  <2> QED BY <1>1, <2>1, SessionHeld, RequestHeld, SchedulerHeld, AgentHeld, OtherHeld DEF Next
<1>2. ASSUME NEW t \in Tasks, due'[t] > 0, state'[t] = "queued" PROVE release'[t]
  BY <1>2, ReleaseStep
<1> QED BY <1>1, <1>2 DEF HeldBack

\* The inductive invariant behind the theorem.
LEMMA HeldAlways == Spec => []HeldBack
<1>1. Init => HeldBack
  BY NoneAssumption DEF Init, HeldBack, Held, Untouched, NotInFlight
<1>2. TypeOK /\ HeldBack /\ [Next]_vars => HeldBack'
  BY HeldStep
<1> QED BY <1>1, <1>2, TypeCorrect, PTL DEF Spec

\* The theorem: no interleaving of reconnects, sweeps, requeues, requests and
\* restarts hands a task of a spread batch to an agent before its moment.
THEOREM SpreadHonoured == Spec => []NoEarlyRelease
<1>1. HeldBack => NoEarlyRelease
  BY DEF HeldBack, Held, Untouched, NoEarlyRelease
<1> QED BY <1>1, HeldAlways, PTL

-----------------------------------------------------------------------------
(***************************************************************************)
(* Verdicts are earned.                                                    *)
(***************************************************************************)

\* A command once started has been started ever after.
LEMMA ExecsKept ==
    ASSUME TypeOK, [Next]_vars, NEW t \in Tasks, execs[t] > 0
    PROVE  execs'[t] > 0
<1> USE DEF TypeOK, AgentTypeOK
<1>1. ASSUME NEW c \in Conns, Session(c) PROVE UNCHANGED execs
  BY <1>1 DEF Session, Register, RetireOld, LoadPending, Deliver, DeliverMark, Requeue,
              RecvResult, Touch, ReadError, Unregister, SetOffline, WriteError
<1>2. ASSUME NEW h \in Handlers, Request(h) PROVE UNCHANGED execs
  BY <1>2 DEF Request, CreateTask, DispatchLookup, CancelLookup, HandlerLookup,
              DispatchSend, DispatchMark, CancelRead, CancelQueued, CancelLive, CancelSend
<1>3. Scheduler => UNCHANGED execs
  BY DEF Scheduler, SweepStart, SweepLookup, SweepSend, SweepMark, ReapStart, Reap
<1>4. ASSUME NEW a \in Agents, Agent(a) PROVE execs'[t] > 0
  <2>1. CASE AgentAdmit(a)
    BY <2>1 DEF AgentAdmit
  <2> QED BY <1>4, <2>1 DEF Agent, Dial, AgentReadDispatch, AgentReadCancel,
              AgentDisconnect, AgentRestart
<1>5. ASSUME NEW u \in Tasks, AgentTask(u) PROVE UNCHANGED execs
  BY <1>5 DEF AgentTask, FinishTask, SendResult, UnregisterTask, PruneResult
<1>6. ServerRestart \/ Tick \/ UNCHANGED vars => UNCHANGED execs
  BY DEF ServerRestart, Tick, vars
<1> QED BY <1>1, <1>2, <1>3, <1>4, <1>5, <1>6 DEF Next

\* An agent that sends an earned verdict, or a refusal, keeps the wire earned.
LEMMA WireSend ==
    ASSUME ConnTypeOK, WireEarned, NEW a \in Agents, NEW c \in Conns, NEW t \in Tasks,
           NEW status \in Terminal, AgentSend(a, c, t, status),
           status # "failed" => execs[t] > 0, UNCHANGED execs
    PROVE  WireEarned'
<1> USE DEF WireEarned, ConnTypeOK
<1> SUFFICES ASSUME NEW d \in Conns, NEW i \in 1..Len(in'[d]), in'[d][i].status # "failed"
             PROVE  execs[in'[d][i].task] > 0
  OBVIOUS
<1>1. CASE in' = in
  BY <1>1
<1>2. CASE in' = [in EXCEPT ![c] = Append(@, [task |-> t, status |-> status])]
  <2>1. CASE d # c
    BY <1>2, <2>1
  <2>2. CASE d = c
    <3> DEFINE r == [task |-> t, status |-> status]
    <3>1. in[c] \in Seq(Result) /\ in'[c] = Append(in[c], r)
      BY <1>2
    <3>2. r.task = t /\ r.status = status /\ r \in Result
      BY DEF Result
    <3> HIDE DEF r
    <3>3. /\ Len(in'[c]) = Len(in[c]) + 1 /\ Len(in[c]) \in Nat
          /\ in'[c][Len(in[c]) + 1] = r
          /\ \A j \in 1..Len(in[c]) : in'[c][j] = in[c][j]
      BY <3>1, <3>2
    <3>4. i \in 1..Len(in[c]) \/ i = Len(in[c]) + 1
      BY <2>2, <3>3
    <3>5. CASE i \in 1..Len(in[c])
      BY <2>2, <3>3, <3>5
    <3>6. CASE i = Len(in[c]) + 1
      BY <2>2, <3>2, <3>3, <3>6
    <3> QED BY <3>4, <3>5, <3>6
  <2> QED BY <2>1, <2>2
<1> QED BY <1>1, <1>2 DEF AgentSend

\* So does a session that reads a verdict or drops what it was sent.
LEMMA WireReceive ==
    ASSUME ConnTypeOK, WireEarned,
           \A t \in Tasks : execs[t] > 0 => execs'[t] > 0,
           \A c \in Conns : \/ in'[c] = in[c] \/ in'[c] = <<>>
                            \/ in[c] # <<>> /\ in'[c] = Tail(in[c])
    PROVE  WireEarned'
<1> USE DEF WireEarned, ConnTypeOK
<1> SUFFICES ASSUME NEW c \in Conns, NEW i \in 1..Len(in'[c]), in'[c][i].status # "failed"
             PROVE  execs'[in'[c][i].task] > 0
  OBVIOUS
<1>0. ASSUME NEW j \in 1..Len(in[c]) PROVE in[c][j].task \in Tasks
  <2>1. in[c] \in Seq(Result)
    OBVIOUS
  <2>2. in[c][j] \in Result
    BY <2>1
  <2> QED BY <2>2 DEF Result
<1>1. CASE in'[c] = in[c]
  BY <1>0, <1>1
<1>2. CASE in'[c] = <<>>
  BY <1>2
<1>3. CASE in[c] # <<>> /\ in'[c] = Tail(in[c])
  <2>1. in[c] \in Seq(Result)
    OBVIOUS
  <2>2. i + 1 \in 1..Len(in[c]) /\ in'[c][i] = in[c][i + 1]
    BY <1>3, <2>1
  <2> QED BY <1>0, <2>2
<1> QED BY <1>1, <1>2, <1>3

\* Every step keeps the verdicts on the wire earned.
LEMMA WireStep ==
    ASSUME TypeOK, Earned, [Next]_vars
    PROVE  WireEarned'
<1> USE DEF TypeOK
<1>0. /\ \A t \in Tasks : execs[t] > 0 => execs'[t] > 0
      /\ WireEarned
  BY ExecsKept DEF Earned
<1>1. CASE UNCHANGED in
  BY <1>0, <1>1, WireReceive
<1>2. ASSUME NEW c \in Conns, Session(c) PROVE WireEarned'
  <2>1. CASE RecvResult(c)
    BY <1>0, <2>1, WireReceive DEF RecvResult, ConnTypeOK
  <2>2. CASE ReadError(c) \/ Unregister(c) \/ SetOffline(c)
    BY <1>0, <1>1, <2>2, WireReceive DEF ReadError, Unregister, SetOffline, HangUp, ConnTypeOK
  <2>3. CASE Register(c) \/ RetireOld(c) \/ LoadPending(c) \/ Deliver(c) \/ DeliverMark(c)
    BY <1>1, <2>3 DEF Register, RetireOld, LoadPending, Deliver, DeliverMark
  <2>4. CASE Requeue(c) \/ Touch(c) \/ WriteError(c)
    BY <1>1, <2>4 DEF Requeue, Touch, WriteError
  <2> QED BY <1>2, <2>1, <2>2, <2>3, <2>4 DEF Session
<1>3. ASSUME NEW h \in Handlers, Request(h) PROVE WireEarned'
  BY <1>1, <1>3 DEF Request, CreateTask, DispatchLookup, CancelLookup, HandlerLookup,
              DispatchSend, DispatchMark, CancelRead, CancelQueued, CancelLive, CancelSend
<1>4. Scheduler => WireEarned'
  BY <1>1 DEF Scheduler, SweepStart, SweepLookup, SweepSend, SweepMark, ReapStart, Reap
<1>5. ASSUME NEW a \in Agents, Agent(a) PROVE WireEarned'
  <2>1. CASE AgentReadDispatch(a)
    <3>1. aconn[a] \in Conns /\ out[aconn[a]] # <<>> /\ UNCHANGED execs
      BY <2>1, NoneAssumption DEF AgentReadDispatch, AgentTypeOK
    <3>2. PICK t \in Tasks : t = Head(out[aconn[a]]).task
      BY <3>1, OutType
    <3>3. UNCHANGED in \/ (results[t] # "none" /\ AgentSend(a, aconn[a], t, results[t]))
      BY <2>1, <3>2 DEF AgentReadDispatch
    <3>4. results[t] # "none" => results[t] \in Terminal /\ (results[t] # "failed" => execs[t] > 0)
      BY DEF Earned, AgentTypeOK
    <3>5. CASE results[t] # "none" /\ AgentSend(a, aconn[a], t, results[t])
      BY <1>0, <3>1, <3>4, <3>5, WireSend
    <3> QED BY <1>1, <3>3, <3>5
  <2>2. CASE AgentAdmit(a)
    <3>1. atask[a] \in Tasks /\ aconn[a] \in Conns
      BY <2>2 DEF AgentAdmit, AgentTypeOK
    <3>2. \/ UNCHANGED in
          \/ AgentSend(a, aconn[a], atask[a], "failed") /\ UNCHANGED execs
      BY <2>2 DEF AgentAdmit
    <3>3. "failed" \in Terminal
      BY DEF Terminal
    <3> QED BY <1>0, <1>1, <3>1, <3>2, <3>3, WireSend
  <2> QED BY <1>1, <1>5, <2>1, <2>2 DEF Agent, Dial, AgentReadCancel, AgentDisconnect,
                AgentRestart
<1>6. ASSUME NEW t \in Tasks, AgentTask(t) PROVE WireEarned'
  <2>1. CASE SendResult(t)
    <3>1. /\ Target[t] \in Agents /\ taskConn[t] \in Conns
          /\ results[t] \in Terminal /\ execs[t] > 0
      BY <2>1, TargetAssumption DEF SendResult, AgentTypeOK, Earned
    <3> QED BY <1>0, <2>1, <3>1, WireSend DEF SendResult
  <2> QED BY <1>1, <1>6, <2>1 DEF AgentTask, FinishTask, UnregisterTask, PruneResult
<1>7. CASE ServerRestart
  BY <1>0, <1>7, WireReceive DEF ServerRestart, ConnTypeOK
<1>8. Tick \/ UNCHANGED vars => WireEarned'
  BY <1>1 DEF Tick, vars
<1> QED BY <1>2, <1>3, <1>4, <1>5, <1>6, <1>7, <1>8 DEF Next

\* A task has a goroutine, or a cached verdict, only if it was started.
AgentEarned ==
    \A t \in Tasks : /\ run[t] # "none" => execs[t] > 0
                     /\ results[t] \notin {"none", "failed"} => execs[t] > 0

\* Every step of the agent keeps it so.
LEMMA AgentEarnedStep ==
    ASSUME TypeOK, AgentEarned, [Next]_vars
    PROVE  AgentEarned'
<1> USE DEF TypeOK, AgentTypeOK, AgentEarned
<1>0. \A t \in Tasks : execs[t] > 0 => execs'[t] > 0
  BY ExecsKept
<1>1. CASE UNCHANGED <<run, results>>
  BY <1>0, <1>1
<1>2. ASSUME NEW c \in Conns, Session(c) PROVE AgentEarned'
  BY <1>1, <1>2 DEF Session, Register, RetireOld, LoadPending, Deliver, DeliverMark, Requeue,
              RecvResult, Touch, ReadError, Unregister, SetOffline, WriteError
<1>3. ASSUME NEW h \in Handlers, Request(h) PROVE AgentEarned'
  BY <1>1, <1>3 DEF Request, CreateTask, DispatchLookup, CancelLookup, HandlerLookup,
              DispatchSend, DispatchMark, CancelRead, CancelQueued, CancelLive, CancelSend
<1>4. Scheduler => AgentEarned'
  BY <1>1 DEF Scheduler, SweepStart, SweepLookup, SweepSend, SweepMark, ReapStart, Reap
<1>5. ASSUME NEW a \in Agents, Agent(a) PROVE AgentEarned'
  <2>1. CASE AgentAdmit(a)
    BY <2>1 DEF AgentAdmit
  <2>2. CASE AgentReadCancel(a)
    BY <2>2 DEF AgentReadCancel
  <2>3. CASE AgentRestart(a)
    BY <2>3 DEF AgentRestart
  <2> QED BY <1>1, <1>5, <2>1, <2>2, <2>3 DEF Agent, Dial, AgentReadDispatch, AgentDisconnect
<1>6. ASSUME NEW t \in Tasks, AgentTask(t) PROVE AgentEarned'
  BY <1>6 DEF AgentTask, FinishTask, SendResult, UnregisterTask, PruneResult
<1>7. ServerRestart \/ Tick \/ UNCHANGED vars => AgentEarned'
  BY <1>1 DEF ServerRestart, Tick, vars
<1> QED BY <1>2, <1>3, <1>4, <1>5, <1>6, <1>7 DEF Next

\* A result row says what the wire said.
LEMMA RowEarnedStep ==
    ASSUME TypeOK, Earned, [Next]_vars
    PROVE  AgentVerdictEarned'
<1> USE DEF TypeOK, StoreTypeOK, AgentVerdictEarned
<1>0. /\ \A t \in Tasks : execs[t] > 0 => execs'[t] > 0
      /\ AgentVerdictEarned
  BY ExecsKept DEF Earned
<1>1. CASE UNCHANGED <<result, resultBy>>
  BY <1>0, <1>1
<1>2. ASSUME NEW t \in Tasks, NEW status, NEW by, Finalize(t, status, by), by # "agent"
      PROVE  AgentVerdictEarned'
  BY <1>0, <1>2 DEF Finalize
<1>3. ASSUME NEW c \in Conns, Session(c) PROVE AgentVerdictEarned'
  <2>1. CASE RecvResult(c)
    <3> DEFINE r == Head(in[c])
    <3>1. in[c] # <<>> /\ in[c] \in Seq(Result)
      BY <2>1 DEF RecvResult, ConnTypeOK
    <3>2. r = in[c][1] /\ 1 \in 1..Len(in[c]) /\ r \in Result
      BY <3>1, HeadType
    <3>3. r.task \in Tasks /\ (r.status # "failed" => execs[r.task] > 0)
      BY <3>2 DEF Result, Earned, WireEarned
    <3>4. SaveResult(r.task, r.status)
      BY <2>1 DEF RecvResult
    <3> HIDE DEF r
    <3>5. CASE Finalize(r.task, r.status, "agent")
      BY <1>0, <3>3, <3>5 DEF Finalize
    <3> QED BY <1>1, <3>4, <3>5 DEF SaveResult
  <2>2. CASE DeliverMark(c) \/ Requeue(c)
    BY <1>1, <2>2 DEF DeliverMark, MarkDispatched, Requeue, AddTask
  <2> QED BY <1>1, <1>3, <2>1, <2>2 DEF Session, Register, RetireOld, LoadPending, Deliver, Touch,
                ReadError, Unregister, SetOffline, WriteError
<1>4. ASSUME NEW h \in Handlers, Request(h) PROVE AgentVerdictEarned'
  <2>1. CASE CancelQueued(h)
    BY <1>2, <2>1 DEF CancelQueued, RequestTypeOK
  <2> QED BY <1>1, <1>4, <2>1 DEF Request, CreateTask, AddTask, DispatchLookup, CancelLookup,
                HandlerLookup, DispatchSend, DispatchMark, MarkDispatched, CancelRead,
                CancelLive, CancelSend
<1>5. Scheduler => AgentVerdictEarned'
  <2>1. CASE Reap
    <3>1. PICK t \in Tasks : \/ MarkTaskFinal(t, "timeout", "dispatched")
                             \/ MarkTaskFinal(t, "canceled", "cancel_requested")
      BY <2>1 DEF Reap, SchedTypeOK
    <3> QED BY <1>1, <1>2, <3>1 DEF MarkTaskFinal
  <2> QED BY <1>1, <2>1 DEF Scheduler, SweepStart, SweepLookup, SweepSend, SweepMark,
                MarkDispatched, ReapStart
<1>6. ASSUME NEW a \in Agents, Agent(a) PROVE AgentVerdictEarned'
  BY <1>1, <1>6 DEF Agent, Dial, AgentReadDispatch, AgentAdmit, AgentReadCancel,
                AgentDisconnect, AgentRestart
<1>7. ASSUME NEW t \in Tasks, AgentTask(t) PROVE AgentVerdictEarned'
  BY <1>1, <1>7 DEF AgentTask, FinishTask, SendResult, UnregisterTask, PruneResult
<1>8. ServerRestart \/ Tick \/ UNCHANGED vars => AgentVerdictEarned'
  BY <1>1 DEF ServerRestart, Tick, vars
<1> QED BY <1>3, <1>4, <1>5, <1>6, <1>7, <1>8 DEF Next

\* The inductive invariant behind the theorem.
LEMMA EarnedAlways == Spec => []Earned
<1>1. Init => Earned
  BY DEF Init, Earned, AgentVerdictEarned, WireEarned
<1>2. TypeOK /\ Earned /\ [Next]_vars => Earned'
  <2> SUFFICES ASSUME TypeOK, Earned, [Next]_vars PROVE Earned'
    OBVIOUS
  <2>1. AgentEarned
    BY DEF Earned, AgentEarned
  <2>2. AgentEarned' /\ WireEarned' /\ AgentVerdictEarned'
    BY <2>1, AgentEarnedStep, WireStep, RowEarnedStep
  <2> QED BY <2>2 DEF AgentEarned, Earned
<1> QED BY <1>1, <1>2, TypeCorrect, PTL DEF Spec

\* The theorem: a verdict recorded as the agent's own was earned by starting
\* the command, however often it was retransmitted, cached or delayed.
THEOREM VerdictsEarned == Spec => []AgentVerdictEarned
<1>1. Earned => AgentVerdictEarned
  BY DEF Earned
<1> QED BY <1>1, EarnedAlways, PTL

-----------------------------------------------------------------------------
(***************************************************************************)
(* No task is stranded.                                                    *)
(***************************************************************************)

\* The hub map holds sessions of the agent in question that have registered,
\* a session has no backlog before it has read it, and it holds a single row
\* between the send and the mark only.
Slots ==
    \A a \in Agents :
        clients[a] # NoConn => spc[clients[a]] \notin {"unused", "hello"} /\ peer[clients[a]] = a

Fresh ==
    \A c \in Conns : /\ spc[c] \in {"unused", "hello", "retire", "load"} => pend[c] = {}
                     /\ spc[c] # "mark" => cur[c] = NoTask

\* A row to be sent at once; an agent whose session has read its backlog; who
\* has the row in hand.  A request that is about to send counts only with the
\* session that holds the slot: a send to any other may fail.
Wants(t) == state[t] = "queued" /\ ~release[t] /\ t \notin requeued

CaughtUp(a) ==
    clients[a] # NoConn /\ closed[clients[a]] = "open" /\ spc[clients[a]] \notin {"retire", "load"}

Asks(h, t) ==
    /\ htask[h] = t
    /\ hpc[h] \in {"lookup", "mark"} \/ (hpc[h] = "send" /\ hconn[h] = clients[Target[t]])

Has(t) ==
    \/ \E h \in Handlers : Asks(h, t)
    \/ \E c \in Conns : t \in pend[c] \/ cur[c] = t

\* The inductive form of NoStrandedTask.
Served(t) == Wants(t) /\ CaughtUp(Target[t]) => Has(t)

Handed == Slots /\ Fresh /\ \A t \in Tasks : Served(t)

\* A step that brings nobody to want the row, no session to serve, and takes the
\* row out of no hand.
LEMMA StillServed ==
    ASSUME NEW t \in Tasks, Served(t), Wants(t)' => Wants(t),
           CaughtUp(Target[t])' => CaughtUp(Target[t]), Has(t) => Has(t)'
    PROVE  Served(t)'
BY DEF Served

\* A step of somebody who neither holds rows nor moves sessions.
LEMMA Aside ==
    ASSUME Handed, UNCHANGED <<sessVars, closed, reqVars, requeued>>,
           UNCHANGED release, \A t \in Tasks : state'[t] = "queued" => state[t] = "queued"
    PROVE  Handed'
<1>1. Slots' /\ Fresh'
  BY DEF Handed, Slots, Fresh
<1>2. ASSUME NEW t \in Tasks PROVE Served(t)'
  BY StillServed DEF Handed, Wants, CaughtUp, Has, Asks
<1> QED BY <1>1, <1>2 DEF Handed

\* The statements that settle or dispatch a row make none available.
LEMMA NoNewRow ==
    ASSUME TypeOK, NEW u \in Tasks,
           \/ MarkDispatched(u)
           \/ \E status \in Terminal, by \in {"agent", "reaper", "operator"} :
                Finalize(u, status, by)
           \/ UNCHANGED storeVars
    PROVE  UNCHANGED release /\ \A t \in Tasks : state'[t] = "queued" => state[t] = "queued"
BY DEF MarkDispatched, Finalize, TypeOK, StoreTypeOK, Terminal

\* Who holds the slot of an agent.
LEMMA SlotsStep ==
    ASSUME TypeOK, Handed, [Next]_vars
    PROVE  Slots' /\ Fresh'
<1> USE NoneAssumption DEF TypeOK, SessionTypeOK
<1>1. CASE UNCHANGED <<clients, spc, peer, pend, cur>>
  BY <1>1 DEF Handed, Slots, Fresh
<1>2. ASSUME NEW c \in Conns, Session(c) PROVE Slots' /\ Fresh'
  <2>1. CASE Register(c)
    <3>1. peer[c] \in Agents /\ pend[c] = {} /\ UNCHANGED <<peer, pend, cur>> /\ spc[c] = "hello"
      BY <2>1 DEF Register, Handed, Fresh
    <3>2. /\ spc'[c] \in {"load", "retire"} /\ clients'[peer[c]] = c
          /\ \A d \in Conns \ {c} : spc'[d] = spc[d]
          /\ \A a \in Agents \ {peer[c]} : clients'[a] = clients[a]
      BY <2>1, <3>1 DEF Register
    <3>3. ASSUME NEW a \in Agents, clients'[a] # NoConn
          PROVE  spc'[clients'[a]] \notin {"unused", "hello"} /\ peer'[clients'[a]] = a
      <4>1. CASE a = peer[c]
        BY <3>1, <3>2, <4>1
      <4>2. CASE a # peer[c]
        <5>1. clients'[a] = clients[a] /\ clients[a] \in Conns
          BY <3>2, <3>3, <4>2
        <5>2. spc[clients[a]] \notin {"unused", "hello"} /\ peer[clients[a]] = a
          BY <3>3, <5>1 DEF Handed, Slots
        <5> QED BY <3>1, <3>2, <5>1, <5>2
      <4> QED BY <4>1, <4>2
    <3>4. Fresh'
      BY <3>1, <3>2 DEF Handed, Fresh
    <3> QED BY <3>3, <3>4 DEF Slots
  <2>2. CASE RetireOld(c) \/ LoadPending(c) \/ Deliver(c) \/ DeliverMark(c) \/ Requeue(c)
             \/ ReadError(c) \/ SetOffline(c)
    <3>1. clients' = clients /\ peer' = peer /\ spc[c] \notin {"unused"}
      BY <2>2 DEF RetireOld, LoadPending, Deliver, DeliverMark, Requeue, ReadError, SetOffline
    <3>2. \E to \in {"load", "deliver", "mark", "requeue", "serve", "exit", "gone"} :
             spc' = [spc EXCEPT ![c] = to] /\ (to = "load" => spc[c] = "retire" /\ pend' = pend)
      BY <2>2 DEF RetireOld, LoadPending, Deliver, DeliverMark, Requeue, ReadError, SetOffline,
                  HangUp, NextDelivery, NextRequeue
    <3>3. pend' = pend \/ \E S : pend' = [pend EXCEPT ![c] = S]
      BY <2>2 DEF RetireOld, LoadPending, Deliver, DeliverMark, Requeue, ReadError, SetOffline
    <3>4. Slots'
      BY <3>1, <3>2 DEF Handed, Slots
    <3>5. /\ \A d \in Conns \ {c} : cur'[d] = cur[d]
          /\ spc'[c] # "mark" => cur'[c] = NoTask
      BY <2>2 DEF RetireOld, LoadPending, Deliver, DeliverMark, Requeue, ReadError, SetOffline,
                  HangUp, Handed, Fresh
    <3>6. Fresh'
      BY <3>2, <3>3, <3>5 DEF Handed, Fresh
    <3> QED BY <3>4, <3>6
  <2>3. CASE Unregister(c)
    <3>1. /\ spc[c] = "exit" /\ UNCHANGED <<peer, pend, cur>>
          /\ \E to \in {"offline", "gone"} : spc' = [spc EXCEPT ![c] = to]
      BY <2>3 DEF Unregister, HangUp
    <3>2. \A a \in Agents : clients'[a] \in {clients[a], NoConn}
      BY <2>3 DEF Unregister
    <3> QED BY <3>1, <3>2 DEF Handed, Slots, Fresh
  <2>4. CASE RecvResult(c) \/ Touch(c) \/ WriteError(c)
    BY <1>1, <2>4 DEF RecvResult, Touch, WriteError
  <2> QED BY <1>2, <2>1, <2>2, <2>3, <2>4 DEF Session
<1>3. ASSUME NEW a \in Agents, Agent(a) PROVE Slots' /\ Fresh'
  <2>1. ASSUME NEW c \in Conns, Dial(a, c) PROVE Slots' /\ Fresh'
    <3>1. /\ spc[c] = "unused" /\ UNCHANGED <<clients, pend, cur>> /\ spc'[c] = "hello"
          /\ \A d \in Conns \ {c} : spc'[d] = spc[d] /\ peer'[d] = peer[d]
      BY <2>1 DEF Dial
    <3>2. \A b \in Agents : clients[b] # c
      BY <3>1 DEF Handed, Slots
    <3>3. Slots'
      BY <3>1, <3>2 DEF Handed, Slots
    <3>4. Fresh'
      BY <3>1 DEF Handed, Fresh
    <3> QED BY <3>3, <3>4
  <2> QED BY <1>1, <1>3, <2>1 DEF Agent, AgentReadDispatch, AgentAdmit, AgentReadCancel,
                                  AgentDisconnect, AgentRestart
<1>4. CASE ServerRestart
  BY <1>4 DEF ServerRestart, Slots, Fresh
<1>5. ASSUME NEW h \in Handlers, Request(h) PROVE Slots' /\ Fresh'
  BY <1>1, <1>5 DEF Request, CreateTask, DispatchLookup, CancelLookup, HandlerLookup,
                    DispatchSend, DispatchMark, CancelRead, CancelQueued, CancelLive, CancelSend
<1>6. Scheduler \/ Tick \/ UNCHANGED vars => Slots' /\ Fresh'
  BY <1>1 DEF Scheduler, SweepStart, SweepLookup, SweepSend, SweepMark, ReapStart, Reap, Tick, vars
<1>7. ASSUME NEW t \in Tasks, AgentTask(t) PROVE Slots' /\ Fresh'
  BY <1>1, <1>7 DEF AgentTask, FinishTask, SendResult, UnregisterTask, PruneResult
<1> QED BY <1>2, <1>3, <1>4, <1>5, <1>6, <1>7 DEF Next

\* The sessions: a replay keeps what it has read until it is sent and marked, or
\* written back.
LEMMA SessionServed ==
    ASSUME TypeOK, Handed, NEW c \in Conns, Session(c), NEW t \in Tasks
    PROVE  Served(t)'
<1> USE NoneAssumption, TargetAssumption DEF TypeOK, SessionTypeOK
<1> DEFINE a == Target[t]
<1>0. a \in Agents /\ Served(t)
  BY DEF Handed
<1>1. CASE Register(c)
  <2>1. UNCHANGED <<state, release, requeued, closed, pend, cur, hpc, htask, hconn>>
    BY <1>1 DEF Register
  <2>2. CASE a = peer[c]
    <3>1. clients'[a] = c /\ spc'[c] \in {"load", "retire"}
      BY <1>0, <1>1, <2>2 DEF Register
    <3> QED BY <3>1 DEF Served, CaughtUp
  <2>3. CASE a # peer[c]
    <3>1. clients'[a] = clients[a]
      BY <1>0, <1>1, <2>3 DEF Register
    <3>2. CaughtUp(a)' => CaughtUp(a)
      BY <1>0, <1>1, <2>1, <3>1 DEF CaughtUp, Register
    <3> QED BY <1>0, <2>1, <3>1, <3>2, StillServed DEF Wants, Has, Asks
  <2> QED BY <2>2, <2>3
<1>2. CASE RetireOld(c)
  <2>1. UNCHANGED <<state, release, requeued, clients, pend, cur, hpc, htask, hconn>>
    BY <1>2 DEF RetireOld
  <2>2. CaughtUp(a)' => CaughtUp(a)
    BY <1>0, <1>2, <2>1 DEF CaughtUp, RetireOld, ConnTypeOK
  <2> QED BY <1>0, <2>1, <2>2, StillServed DEF Wants, Has, Asks
<1>3. CASE LoadPending(c)
  <2>1. /\ UNCHANGED <<state, release, requeued, clients, closed, cur, hpc, htask, hconn>>
        /\ spc[c] = "load" /\ pend[c] = {}
        /\ pend'[c] = PendingTasks(peer[c]) /\ \A d \in Conns \ {c} : pend'[d] = pend[d]
        /\ \A d \in Conns \ {c} : spc'[d] = spc[d]
    BY <1>3 DEF LoadPending, Handed, Fresh
  <2>2. Has(t) => Has(t)'
    BY <2>1 DEF Has, Asks
  <2>3. CASE clients[a] = c
    <3>1. peer[c] = a
      BY <1>0, <2>3 DEF Handed, Slots
    <3>2. Wants(t)' => t \in pend'[c]
      BY <2>1, <3>1 DEF Wants, PendingTasks
    <3> QED BY <3>2 DEF Served, Has
  <2>4. CASE clients[a] # c
    <3>1. CaughtUp(a)' => CaughtUp(a)
      BY <1>0, <2>1, <2>4 DEF CaughtUp
    <3> QED BY <1>0, <2>1, <2>2, <3>1, StillServed DEF Wants
  <2> QED BY <2>3, <2>4
<1>4. CASE Deliver(c)
  <2>1. /\ UNCHANGED <<state, release, requeued, clients, closed, hpc, htask, hconn>>
        /\ spc[c] = "deliver" /\ \A d \in Conns \ {c} : spc'[d] = spc[d]
    BY <1>4 DEF Deliver
  <2>2. CaughtUp(a)' => CaughtUp(a)
    BY <1>0, <2>1 DEF CaughtUp
  <2>3. Has(t) => Has(t)'
    <3>1. /\ \A d \in Conns \ {c} : pend'[d] = pend[d] /\ cur'[d] = cur[d]
          /\ t \in pend[c] => t \in pend'[c] \/ cur'[c] = t
      BY <1>4 DEF Deliver
    <3>2. cur[c] # t
      BY <2>1 DEF Handed, Fresh
    <3> QED BY <2>1, <3>1, <3>2 DEF Has, Asks
  <2> QED BY <1>0, <2>1, <2>2, <2>3, StillServed DEF Wants
<1>5. CASE DeliverMark(c)
  <2>1. /\ UNCHANGED <<release, requeued, clients, closed, hpc, htask, hconn, pend>>
        /\ spc[c] = "mark" /\ \A d \in Conns \ {c} : spc'[d] = spc[d] /\ cur'[d] = cur[d]
        /\ MarkDispatched(cur[c]) /\ cur[c] \in Tasks
    BY <1>5 DEF DeliverMark, MarkDispatched
  <2>2. CaughtUp(a)' => CaughtUp(a)
    BY <1>0, <2>1 DEF CaughtUp
  <2>3. state'[t] = "queued" => state[t] = "queued" /\ cur[c] # t
    BY <2>1 DEF MarkDispatched, StoreTypeOK
  <2>4. Wants(t)' => Wants(t) /\ cur[c] # t
    BY <2>1, <2>3 DEF Wants
  <2>5. cur[c] # t /\ Has(t) => Has(t)'
    BY <2>1 DEF Has, Asks
  <2> QED BY <1>0, <2>2, <2>4, <2>5 DEF Served
<1>6. CASE Requeue(c)
  <2>1. PICK u \in Tasks : /\ AddTask(u, FALSE) /\ pend' = [pend EXCEPT ![c] = @ \ {u}]
                           /\ requeued' = requeued \cup {u}
    BY <1>6 DEF Requeue, First
  <2>2. CASE t = u
    BY <2>1, <2>2 DEF Served, Wants
  <2>3. CASE t # u
    <3>1. /\ UNCHANGED <<clients, closed, hpc, htask, hconn, cur>> /\ spc[c] = "requeue"
          /\ \A d \in Conns \ {c} : spc'[d] = spc[d]
      BY <1>6 DEF Requeue
    <3>2. Wants(t)' => Wants(t)
      BY <2>1, <2>3 DEF Wants, AddTask, StoreTypeOK
    <3>3. CaughtUp(a)' => CaughtUp(a)
      BY <1>0, <3>1 DEF CaughtUp
    <3>4. Has(t) => Has(t)'
      BY <2>1, <2>3, <3>1 DEF Has, Asks
    <3> QED BY <1>0, <3>2, <3>3, <3>4, StillServed
  <2> QED BY <2>2, <2>3
<1>7. CASE RecvResult(c)
  <2>1. Head(in[c]).task \in Tasks /\ Head(in[c]).status \in Terminal
    BY <1>7, InType DEF RecvResult
  <2>2. UNCHANGED release /\ \A u \in Tasks : state'[u] = "queued" => state[u] = "queued"
    BY <1>7, <2>1, NoNewRow DEF RecvResult, SaveResult
  <2>3. UNCHANGED <<sessVars, closed, reqVars, requeued>>
    BY <1>7 DEF RecvResult
  <2> QED BY <2>2, <2>3, Aside DEF Handed
<1>8. CASE Touch(c)
  BY <1>8, Aside DEF Touch, Handed
<1>9. CASE ReadError(c) \/ SetOffline(c) \/ WriteError(c)
  <2>1. UNCHANGED <<state, release, requeued, clients, pend, cur, hpc, htask, hconn>>
    BY <1>9 DEF ReadError, SetOffline, WriteError
  <2>2. /\ spc' = spc \/ (spc[c] \notin {"retire", "load"} /\ \E to : spc' = [spc EXCEPT ![c] = to])
        /\ \A d \in Conns : closed'[d] = "open" => closed[d] = "open"
    BY <1>9 DEF ReadError, SetOffline, WriteError, HangUp, ConnTypeOK
  <2>3. CaughtUp(a)' => CaughtUp(a)
    BY <1>0, <2>1, <2>2 DEF CaughtUp
  <2> QED BY <1>0, <2>1, <2>3, StillServed DEF Wants, Has, Asks
<1>10. CASE Unregister(c)
  <2>1. UNCHANGED <<state, release, requeued, pend, cur, hpc, htask, hconn>>
    BY <1>10 DEF Unregister
  <2>2. clients'[a] \in {clients[a], NoConn}
    BY <1>0, <1>10 DEF Unregister
  <2>3. CASE clients'[a] = NoConn
    BY <2>3 DEF Served, CaughtUp
  <2>4. CASE clients'[a] = clients[a]
    <3>1. /\ spc[c] = "exit" /\ \E to : spc' = [spc EXCEPT ![c] = to]
          /\ \A d \in Conns : closed'[d] = "open" => closed[d] = "open"
      BY <1>10 DEF Unregister, HangUp, ConnTypeOK
    <3>2. CaughtUp(a)' => CaughtUp(a)
      BY <1>0, <2>4, <3>1 DEF CaughtUp
    <3> QED BY <1>0, <2>1, <2>4, <3>2, StillServed DEF Wants, Has, Asks
  <2> QED BY <2>2, <2>3, <2>4
<1> QED BY <1>1, <1>2, <1>3, <1>4, <1>5, <1>6, <1>7, <1>8, <1>9, <1>10 DEF Session

\* The requests: the row is in hand from the step that stores it until it is
\* marked, or until there is no session, or only one that cannot be sent to.
LEMMA RequestServed ==
    ASSUME TypeOK, Handed, NEW h \in Handlers, Request(h), NEW t \in Tasks
    PROVE  Served(t)'
<1> USE NoneAssumption, TargetAssumption DEF TypeOK, RequestTypeOK
<1> DEFINE a == Target[t]
<1>0. a \in Agents /\ Served(t)
  BY DEF Handed
<1>1. UNCHANGED <<sessVars, closed, requeued>> /\ (CaughtUp(a)' <=> CaughtUp(a))
  <2>1. UNCHANGED <<sessVars, closed, requeued>>
    BY DEF Request, CreateTask, DispatchLookup, CancelLookup, HandlerLookup, DispatchSend,
           DispatchMark, CancelRead, CancelQueued, CancelLive, CancelSend
  <2> QED BY <2>1 DEF CaughtUp
\* A step that takes t out of no hand of h.
<1>2. ASSUME Wants(t)' => Wants(t), Asks(h, t) => Asks(h, t)',
             \A g \in Handlers \ {h} : hpc'[g] = hpc[g] /\ htask'[g] = htask[g] /\ hconn'[g] = hconn[g]
      PROVE  Served(t)'
  <2>1. Has(t) => Has(t)'
    BY <1>1, <1>2 DEF Has, Asks
  <2> QED BY <1>0, <1>1, <1>2, <2>1, StillServed
<1>3. ASSUME NEW u \in Tasks, NEW spread \in BOOLEAN, NEW offset \in 0..MaxDefer,
             CreateTask(h, u, spread, offset)
      PROVE  Served(t)'
  <2>1. CASE t = u
    <3>1. CASE spread
      BY <1>3, <2>1, <3>1 DEF CreateTask, AddTask, Served, Wants, StoreTypeOK
    <3>2. CASE ~spread
      <4>1. ~(offset > 0)
        BY <1>3, <3>2 DEF CreateTask
      <4>2. hpc'[h] = "lookup" /\ htask'[h] = t
        BY <1>3, <2>1, <4>1 DEF CreateTask
      <4> QED BY <4>2 DEF Served, Has, Asks
    <3> QED BY <3>1, <3>2
  <2>2. CASE t # u
    <3>1. Wants(t)' => Wants(t)
      BY <1>1, <1>3, <2>2 DEF CreateTask, AddTask, Wants, StoreTypeOK
    <3>2. ~Asks(h, t)
      BY <1>3 DEF CreateTask, Asks
    <3>3. \A g \in Handlers \ {h} : hpc'[g] = hpc[g] /\ htask'[g] = htask[g] /\ hconn'[g] = hconn[g]
      BY <1>3 DEF CreateTask
    <3> QED BY <1>2, <3>1, <3>2, <3>3
  <2> QED BY <2>1, <2>2
<1>4. CASE DispatchLookup(h)
  <2>1. /\ UNCHANGED <<state, release>> /\ hpc[h] = "lookup"
        /\ \A g \in Handlers \ {h} : hpc'[g] = hpc[g] /\ htask'[g] = htask[g] /\ hconn'[g] = hconn[g]
    BY <1>4 DEF DispatchLookup, HandlerLookup, HandlerReturn
  <2>2. CASE htask[h] = t /\ clients[a] = NoConn
    BY <1>1, <2>2 DEF Served, CaughtUp
  <2>3. CASE htask[h] = t /\ clients[a] # NoConn
    <3>1. hpc'[h] = "send" /\ htask'[h] = t /\ hconn'[h] = clients[a]
      BY <1>4, <2>3 DEF DispatchLookup, HandlerLookup
    <3> QED BY <1>1, <1>2, <2>1, <3>1 DEF Wants, Asks
  <2>4. CASE htask[h] # t
    BY <1>1, <1>2, <2>1, <2>4 DEF Wants, Asks
  <2> QED BY <2>2, <2>3, <2>4
<1>5. CASE DispatchSend(h)
  <2>1. /\ UNCHANGED <<state, release>> /\ hpc[h] = "send"
        /\ \A g \in Handlers \ {h} : hpc'[g] = hpc[g] /\ htask'[g] = htask[g] /\ hconn'[g] = hconn[g]
    BY <1>5 DEF DispatchSend, HandlerReturn
  <2>2. CASE hpc'[h] = "mark" /\ htask'[h] = htask[h]
    BY <1>1, <1>2, <2>1, <2>2 DEF Wants, Asks
  <2>3. CASE SendFails(hconn[h]) /\ Asks(h, t)
    <3>1. closed[clients[a]] # "open"
      BY <2>1, <2>3 DEF SendFails, Asks
    <3> QED BY <1>1, <3>1 DEF Served, CaughtUp
  <2>4. CASE ~Asks(h, t)
    BY <1>1, <1>2, <2>1, <2>4 DEF Wants
  <2> QED BY <1>5, <2>2, <2>3, <2>4 DEF DispatchSend
<1>6. CASE DispatchMark(h)
  <2>1. /\ MarkDispatched(htask[h]) /\ hpc[h] = "mark" /\ htask[h] \in Tasks
        /\ \A g \in Handlers \ {h} : hpc'[g] = hpc[g] /\ htask'[g] = htask[g] /\ hconn'[g] = hconn[g]
    BY <1>6 DEF DispatchMark, HandlerReturn
  <2>2. Wants(t)' => Wants(t) /\ htask[h] # t
    BY <1>1, <2>1 DEF MarkDispatched, Wants, StoreTypeOK
  <2>3. CASE htask[h] = t
    BY <2>2, <2>3 DEF Served
  <2>4. CASE htask[h] # t
    BY <1>2, <2>1, <2>2, <2>4 DEF Asks
  <2> QED BY <2>3, <2>4
<1>7. CASE (\E u \in Tasks : CancelRead(h, u)) \/ CancelLookup(h) \/ CancelSend(h)
  <2>1. /\ UNCHANGED <<state, release>> /\ hpc[h] \in {"idle", "cancelLookup", "cancelSend"}
        /\ \A g \in Handlers \ {h} : hpc'[g] = hpc[g] /\ htask'[g] = htask[g] /\ hconn'[g] = hconn[g]
    BY <1>7 DEF CancelRead, CancelLookup, HandlerLookup, CancelSend, HandlerReturn
  <2> QED BY <1>1, <1>2, <2>1 DEF Wants, Asks
<1>8. CASE CancelQueued(h) \/ CancelLive(h)
  <2>1. /\ UNCHANGED release /\ hpc[h] \in {"cancelQueued", "cancelLive"} /\ htask[h] \in Tasks
        /\ \A g \in Handlers \ {h} : hpc'[g] = hpc[g] /\ htask'[g] = htask[g] /\ hconn'[g] = hconn[g]
    BY <1>8 DEF CancelQueued, CancelLive, Finalize, HandlerReturn
  <2>2. state'[t] = "queued" => state[t] = "queued"
    BY <1>8, <2>1 DEF CancelQueued, CancelLive, Finalize, StoreTypeOK
  <2> QED BY <1>1, <1>2, <2>1, <2>2 DEF Wants, Asks
<1> QED BY <1>3, <1>4, <1>5, <1>6, <1>7, <1>8 DEF Request

\* The scheduler, the agents, restart and time.
LEMMA OtherServed ==
    ASSUME TypeOK, Handed, NEW t \in Tasks, Slots', Fresh',
           \/ Scheduler \/ (\E a \in Agents : Agent(a)) \/ (\E u \in Tasks : AgentTask(u))
           \/ ServerRestart \/ Tick \/ UNCHANGED vars
    PROVE  Served(t)'
<1> USE NoneAssumption, TargetAssumption DEF TypeOK
<1>0. Target[t] \in Agents /\ Served(t)
  BY DEF Handed
<1>1. CASE Scheduler
  <2>1. UNCHANGED <<sessVars, closed, reqVars, requeued>>
    BY <1>1 DEF Scheduler, SweepStart, SweepLookup, SweepSend, SweepMark, ReapStart, Reap
  <2>2. UNCHANGED release /\ \A u \in Tasks : state'[u] = "queued" => state[u] = "queued"
    <3>1. CASE SweepMark
      BY <3>1, NoNewRow DEF SweepMark, SchedTypeOK
    <3>2. CASE Reap
      <4>1. PICK u \in Tasks : \/ MarkTaskFinal(u, "timeout", "dispatched")
                               \/ MarkTaskFinal(u, "canceled", "cancel_requested")
        BY <3>2 DEF Reap, SchedTypeOK
      <4> QED BY <4>1, NoNewRow DEF MarkTaskFinal, Terminal
    <3> QED BY <1>1, <3>1, <3>2 DEF Scheduler, SweepStart, SweepLookup, SweepSend, ReapStart
  <2> QED BY <2>1, <2>2, Aside DEF Handed
<1>2. ASSUME NEW a \in Agents, Agent(a) PROVE Served(t)'
  <2>1. ASSUME NEW c \in Conns, Dial(a, c) PROVE Served(t)'
    <3>1. /\ UNCHANGED <<state, release, requeued, clients, closed, pend, cur, hpc, htask, hconn>>
          /\ spc[c] = "unused" /\ \A d \in Conns \ {c} : spc'[d] = spc[d]
      BY <2>1 DEF Dial
    <3>2. CaughtUp(Target[t])' => CaughtUp(Target[t])
      BY <1>0, <3>1 DEF CaughtUp, SessionTypeOK
    <3> QED BY <1>0, <3>1, <3>2, StillServed DEF Wants, Has, Asks
  <2>2. CASE ~\E c \in Conns : Dial(a, c)
    <3>1. UNCHANGED <<sessVars, closed, reqVars, requeued, release, state>>
      BY <1>2, <2>2 DEF Agent, AgentReadDispatch, AgentAdmit, AgentReadCancel, AgentDisconnect,
                        AgentRestart
    <3> QED BY <3>1, Aside DEF Handed
  <2> QED BY <2>1, <2>2
<1>3. ASSUME NEW u \in Tasks, AgentTask(u) PROVE Served(t)'
  <2>1. UNCHANGED <<sessVars, closed, reqVars, requeued, release, state>>
    BY <1>3 DEF AgentTask, FinishTask, SendResult, UnregisterTask, PruneResult
  <2> QED BY <2>1, Aside DEF Handed
<1>4. CASE ServerRestart
  BY <1>0, <1>4 DEF ServerRestart, Served, CaughtUp
<1>5. CASE Tick \/ UNCHANGED vars
  <2>1. UNCHANGED <<sessVars, closed, reqVars, requeued, release, state>>
    BY <1>5 DEF Tick, vars
  <2> QED BY <2>1, Aside DEF Handed
<1> QED BY <1>1, <1>2, <1>3, <1>4, <1>5

\* The inductive invariant behind the theorem.
LEMMA HandedAlways == Spec => []Handed
<1>1. Init => Handed
  <2> SUFFICES ASSUME Init PROVE Handed
    OBVIOUS
  <2>1. Slots /\ Fresh
    BY DEF Init, Slots, Fresh
  <2>2. \A t \in Tasks : Served(t)
    BY DEF Init, Served, Wants
  <2> QED BY <2>1, <2>2 DEF Handed
<1>2. TypeOK /\ Handed /\ [Next]_vars => Handed'
  <2> SUFFICES ASSUME TypeOK, Handed, [Next]_vars PROVE Handed'
    OBVIOUS
  <2>1. Slots' /\ Fresh'
    BY SlotsStep
  <2>2. ASSUME NEW t \in Tasks PROVE Served(t)'
    BY <2>1, SessionServed, RequestServed, OtherServed DEF Next
  <2> QED BY <2>1, <2>2 DEF Handed
<1> QED BY <1>1, <1>2, TypeCorrect, PTL DEF Spec

\* The theorem: however requests, registrations, replays, sweeps and restarts
\* interleave, a session that serves leaves no immediately available row of its
\* agent behind that nobody is about to send.
THEOREM NothingStranded == Spec => []NoStrandedTask
<1>1. TypeOK /\ Handed => NoStrandedTask
  <2> SUFFICES ASSUME TypeOK, Handed, NEW t \in Tasks, Wants(t), CaughtUp(Target[t]) PROVE InHand(t)
    BY DEF NoStrandedTask, Wants, CaughtUp
  <2>1. Has(t)
    BY DEF Handed, Served
  <2> QED BY <2>1 DEF Has, Asks, InHand
<1> QED BY <1>1, HandedAlways, TypeCorrect, PTL

-----------------------------------------------------------------------------
(***************************************************************************)
(* TaskDispatch implements TaskLedger: one lemma per step of the ledger,   *)
(* then one per process of the detailed specification.                     *)
(***************************************************************************)

\* A step of the ledger, or none.
LedgerStep == [Ledger!Next]_(Ledger!vars)

-----------------------------------------------------------------------------
(***************************************************************************)
(* What the statements of the store are to the ledger.                     *)
(***************************************************************************)

\* No moment comes and no task appears: the same tasks are released.
LEMMA SameReleased ==
    ASSUME UNCHANGED due,
           \A t \in Tasks : (state'[t] = "none") <=> (state[t] = "none")
    PROVE  Released' = Released
BY DEF Released

\* A step that touches no row, no moment and no count is none of the ledger's.
LEMMA LedgerStutter ==
    ASSUME UNCHANGED <<state, result, resultBy, due, execs>>
    PROVE  LedgerStep
<1>1. Released' = Released
  BY SameReleased
<1> QED BY <1>1 DEF LedgerStep, Ledger!vars

\* MarkDispatched of a released row, whatever its state.
LEMMA LedgerDispatch ==
    ASSUME TypeOK, NEW t \in Tasks, ~Held(t), MarkDispatched(t), UNCHANGED <<due, execs>>
    PROVE  LedgerStep
<1> USE DEF TypeOK, StoreTypeOK
<1>1. CASE state[t] = "queued"
  <2>1. Released' = Released
    BY <1>1, SameReleased DEF MarkDispatched
  <2>2. t \in Released
    BY DEF Held, Released
  <2>3. Ledger!Dispatch(t)
    BY <1>1, <2>1, <2>2 DEF MarkDispatched, Ledger!Dispatch, Ledger!Moves
  <2> QED BY <2>3 DEF LedgerStep, Ledger!Next
<1>2. CASE state[t] # "queued"
  BY <1>2, LedgerStutter DEF MarkDispatched
<1> QED BY <1>1, <1>2

\* requeueTasks of a released row.
LEMMA LedgerReturn ==
    ASSUME TypeOK, NEW t \in Tasks, ~Held(t), AddTask(t, FALSE), UNCHANGED <<due, execs>>
    PROVE  LedgerStep
<1> USE DEF TypeOK, StoreTypeOK
<1>1. Released' = Released
  BY SameReleased DEF AddTask, Held
<1>2. t \in Released
  BY DEF Held, Released
<1>3. Ledger!Return(t)
  BY <1>1, <1>2 DEF AddTask, Ledger!Return, Ledger!Moves
<1> QED BY <1>3 DEF LedgerStep, Ledger!Next

\* A row that exists gets its verdict.
LEMMA LedgerSettles ==
    ASSUME TypeOK, NEW t \in Tasks, state[t] # "none", NEW status \in Terminal, NEW by,
           Finalize(t, status, by), UNCHANGED <<due, execs>>
    PROVE  Ledger!Settles(t, status, by)
<1> USE DEF TypeOK, StoreTypeOK
<1>1. Released' = Released
  BY SameReleased DEF Finalize, Terminal
<1> QED BY <1>1 DEF Finalize, Ledger!Settles

\* createTask: the new row is released at once, or later.
LEMMA LedgerSubmit ==
    ASSUME TypeOK, NEW t \in Tasks, NEW offset \in Nat, state[t] = "none",
           NEW deferred \in BOOLEAN, AddTask(t, deferred),
           due' = [due EXCEPT ![t] = offset], UNCHANGED execs
    PROVE  LedgerStep
<1> USE DEF TypeOK, StoreTypeOK
<1>1. CASE offset = 0
  <2>1. Released' = Released \cup {t}
    BY <1>1 DEF Released, AddTask
  <2> QED BY <2>1 DEF AddTask, LedgerStep, Ledger!Next, Ledger!Submit
<1>2. CASE offset > 0
  <2>1. Released' = Released
    BY <1>2 DEF Released, AddTask
  <2> QED BY <2>1 DEF AddTask, LedgerStep, Ledger!Next, Ledger!Submit
<1> QED BY <1>1, <1>2

-----------------------------------------------------------------------------
(***************************************************************************)
(* The processes.                                                          *)
(***************************************************************************)

\* Nobody holds a task that is not released: what a session, a request, the
\* sweep or an agent has in hand may be marked, requeued or started.
LEMMA InHandReleased ==
    ASSUME TypeOK, HeldBack
    PROVE  /\ \A c \in Conns : spc[c] = "mark" => cur[c] \in Tasks /\ ~Held(cur[c])
           /\ \A c \in Conns : \A t \in pend[c] : t \in Tasks /\ ~Held(t)
           /\ \A h \in Handlers : hpc[h] = "mark" => htask[h] \in Tasks /\ ~Held(htask[h])
           /\ rpc = "mark" => rtask \in Tasks /\ ~Held(rtask)
           /\ \A a \in Agents : apc[a] = "admit" => atask[a] \in Tasks /\ ~Held(atask[a])
BY DEF TypeOK, SessionTypeOK, RequestTypeOK, SchedTypeOK, AgentTypeOK, HeldBack, Untouched

\* Sessions: the backlog's marks and requeues, and the agent's answers.
LEMMA SessionLedger ==
    ASSUME TypeOK, HeldBack, Earned, NEW c \in Conns, Session(c)
    PROVE  LedgerStep
<1>1. CASE DeliverMark(c)
  BY <1>1, InHandReleased, LedgerDispatch DEF DeliverMark
<1>2. CASE Requeue(c)
  <2>1. PICK t \in pend[c] : AddTask(t, FALSE)
    BY <1>2 DEF Requeue, First
  <2> QED BY <1>2, <2>1, InHandReleased, LedgerReturn DEF Requeue
<1>3. CASE RecvResult(c)
  <2> DEFINE t == Head(in[c]).task
             status == Head(in[c]).status
  <2>1. t \in Tasks /\ status \in Terminal
    BY <1>3, InType DEF RecvResult, TypeOK
  <2>2. in[c] \in Seq(Result) /\ in[c] # <<>>
    BY <1>3 DEF RecvResult, TypeOK, ConnTypeOK
  <2>3. 1 \in 1..Len(in[c]) /\ Head(in[c]) = in[c][1]
    BY <2>2
  <2>4. status # "failed" => execs[t] > 0
    BY <2>3 DEF Earned, WireEarned
  <2> HIDE DEF t, status
  <2>5. SaveResult(t, status) /\ UNCHANGED <<due, execs>>
    BY <1>3 DEF RecvResult, t, status
  <2>6. CASE state[t] \in NonTerminal
    <3>1. Finalize(t, status, "agent") /\ state[t] # "none"
      BY <2>5, <2>6 DEF SaveResult, NonTerminal
    <3>2. Ledger!Settles(t, status, "agent")
      BY <2>1, <2>5, <3>1, LedgerSettles
    <3>3. Ledger!Answer(t, status)
      BY <2>4, <2>6, <3>2 DEF Ledger!Answer, Ledger!Open, NonTerminal
    <3> QED BY <2>1, <3>3 DEF LedgerStep, Ledger!Next, Terminal
  <2>7. CASE state[t] \notin NonTerminal
    BY <2>5, <2>7, LedgerStutter DEF SaveResult
  <2> QED BY <2>6, <2>7
<1>4. CASE Register(c) \/ RetireOld(c) \/ LoadPending(c) \/ Deliver(c) \/ Touch(c)
             \/ ReadError(c) \/ Unregister(c) \/ SetOffline(c) \/ WriteError(c)
  <2>1. UNCHANGED <<state, result, resultBy, due, execs>>
    BY <1>4 DEF Register, RetireOld, LoadPending, Deliver, Touch, ReadError,
                Unregister, SetOffline, WriteError
  <2> QED BY <2>1, LedgerStutter
<1> QED BY <1>1, <1>2, <1>3, <1>4 DEF Session

\* A request that cancels a task has read its row: the row exists.
CancelsARow ==
    \A h \in Handlers : hpc[h] \in {"cancelQueued", "cancelLive"} =>
                          state[htask[h]] # "none"

\* Requests: creation, the inline send's mark, and the two halves of a cancel.
LEMMA RequestLedger ==
    ASSUME TypeOK, HeldBack, CancelsARow, NEW h \in Handlers, Request(h)
    PROVE  LedgerStep
<1>1. ASSUME NEW t \in Tasks, NEW spread \in BOOLEAN, NEW offset \in 0..MaxDefer,
             CreateTask(h, t, spread, offset)
      PROVE  LedgerStep
  <2>1. offset \in Nat
    BY <1>1, BoundAssumption
  <2>2. /\ state[t] = "none" /\ AddTask(t, spread)
        /\ due' = [due EXCEPT ![t] = offset] /\ UNCHANGED execs
    BY <1>1 DEF CreateTask
  <2> QED BY <2>1, <2>2, LedgerSubmit
<1>2. CASE DispatchMark(h)
  BY <1>2, InHandReleased, LedgerDispatch DEF DispatchMark
<1>3. CASE CancelQueued(h)
  <2>1. htask[h] \in Tasks /\ state[htask[h]] # "none"
    BY <1>3 DEF CancelQueued, CancelsARow, TypeOK, RequestTypeOK
  <2>2. Ledger!Settles(htask[h], "canceled", "operator")
    BY <1>3, <2>1, LedgerSettles DEF CancelQueued, Terminal
  <2> QED BY <2>1, <2>2 DEF LedgerStep, Ledger!Next, Ledger!Cancel
<1>4. CASE CancelLive(h)
  <2>1. htask[h] \in Tasks /\ state[htask[h]] # "none"
    BY <1>4 DEF CancelLive, CancelsARow, TypeOK, RequestTypeOK
  <2>2. Released' = Released
    BY <1>4, <2>1, SameReleased DEF CancelLive, TypeOK, StoreTypeOK
  <2>3. Ledger!Moves(htask[h], "cancel_requested")
    BY <1>4, <2>2 DEF CancelLive, Ledger!Moves
  <2> QED BY <2>1, <2>3 DEF LedgerStep, Ledger!Next, Ledger!Cancel
<1>5. CASE \/ DispatchLookup(h) \/ DispatchSend(h) \/ CancelLookup(h) \/ CancelSend(h)
           \/ \E t \in Tasks : CancelRead(h, t)
  <2>1. UNCHANGED <<state, result, resultBy, due, execs>>
    BY <1>5 DEF DispatchLookup, CancelLookup, HandlerLookup, DispatchSend, CancelSend,
                CancelRead
  <2> QED BY <2>1, LedgerStutter
<1> QED BY <1>1, <1>2, <1>3, <1>4, <1>5 DEF Request

\* The release and reap goroutine.
LEMMA SchedulerLedger ==
    ASSUME TypeOK, HeldBack, Scheduler
    PROVE  LedgerStep
<1>1. CASE SweepMark
  BY <1>1, InHandReleased, LedgerDispatch DEF SweepMark
<1>2. CASE Reap
  <2>1. UNCHANGED <<due, execs>>
    BY <1>2 DEF Reap
  <2>2. PICK t \in Tasks : \/ MarkTaskFinal(t, "timeout", "dispatched")
                           \/ MarkTaskFinal(t, "canceled", "cancel_requested")
    BY <1>2 DEF Reap, TypeOK, SchedTypeOK
  <2>3. CASE state[t] = "dispatched" /\ Finalize(t, "timeout", "reaper")
    <3>1. Ledger!Settles(t, "timeout", "reaper")
      BY <2>1, <2>3, LedgerSettles DEF Terminal
    <3> QED BY <2>3, <3>1 DEF LedgerStep, Ledger!Next, Ledger!Expire
  <2>4. CASE state[t] = "cancel_requested" /\ Finalize(t, "canceled", "reaper")
    <3>1. Ledger!Settles(t, "canceled", "reaper")
      BY <2>1, <2>4, LedgerSettles DEF Terminal
    <3> QED BY <2>4, <3>1 DEF LedgerStep, Ledger!Next, Ledger!Expire
  <2>5. CASE UNCHANGED storeVars
    BY <2>1, <2>5, LedgerStutter
  <2> QED BY <2>2, <2>3, <2>4, <2>5 DEF MarkTaskFinal
<1>3. CASE SweepStart \/ SweepLookup \/ SweepSend \/ ReapStart
  <2>1. UNCHANGED <<state, result, resultBy, due, execs>>
    BY <1>3 DEF SweepStart, SweepLookup, SweepSend, ReapStart
  <2> QED BY <2>1, LedgerStutter
<1> QED BY <1>1, <1>2, <1>3 DEF Scheduler

\* Agents: the only step of the ledger is the start of a command.
LEMMA AgentLedger ==
    ASSUME TypeOK, HeldBack, NEW a \in Agents, Agent(a)
    PROVE  LedgerStep
<1>1. CASE AgentAdmit(a) /\ UNCHANGED execs
  BY <1>1, LedgerStutter DEF AgentAdmit
<1>2. CASE AgentAdmit(a) /\ execs' = [execs EXCEPT ![atask[a]] = @ + 1]
  <2>1. atask[a] \in Tasks /\ ~Held(atask[a])
    BY <1>2, InHandReleased DEF AgentAdmit
  <2>2. UNCHANGED <<state, result, resultBy, due>>
    BY <1>2 DEF AgentAdmit
  <2>3. Released' = Released /\ atask[a] \in Released
    BY <2>1, <2>2, SameReleased DEF Held, Released, TypeOK, StoreTypeOK
  <2>4. Ledger!Start(atask[a])
    BY <1>2, <2>2, <2>3 DEF Ledger!Start
  <2> QED BY <2>1, <2>4 DEF LedgerStep, Ledger!Next
<1>3. CASE \/ AgentReadDispatch(a) \/ AgentReadCancel(a) \/ AgentDisconnect(a)
           \/ AgentRestart(a) \/ \E c \in Conns : Dial(a, c)
  <2>1. UNCHANGED <<state, result, resultBy, due, execs>>
    BY <1>3 DEF Dial, AgentReadDispatch, AgentReadCancel, AgentDisconnect, AgentRestart
  <2> QED BY <2>1, LedgerStutter
<1> QED BY <1>1, <1>2, <1>3 DEF Agent, AgentAdmit

\* The passage of time: moments come, of tasks that exist.
LEMMA TickLedger ==
    ASSUME TypeOK, Tick
    PROVE  LedgerStep
<1> USE DEF TypeOK, StoreTypeOK
<1>1. UNCHANGED <<state, result, resultBy, execs>>
  BY DEF Tick
<1>2. Released \subseteq Released' /\ Released' \subseteq Tasks
  BY DEF Tick, Released
<1>3. \A t \in Released' : state[t] # "none"
  BY <1>1 DEF Released
<1>4. Ledger!Release
  BY <1>1, <1>2, <1>3 DEF Ledger!Release
<1> QED BY <1>4 DEF LedgerStep, Ledger!Next

-----------------------------------------------------------------------------
\* A row once written is never deleted by the steps modelled here.
LEMMA RowsStay ==
    ASSUME TypeOK, [Next]_vars, NEW t \in Tasks, state[t] # "none"
    PROVE  state'[t] # "none"
<1>1. StoreStatement
  BY StoreStep
<1>2. state \in [Tasks -> TaskStates]
  BY DEF TypeOK, StoreTypeOK
<1> QED BY <1>1, <1>2 DEF StoreStatement, MarkDispatched, AddTask, Finalize, Terminal

\* Every other step leaves the requests alone, or ends one.
LEMMA CancelsARowStep == TypeOK /\ CancelsARow /\ [Next]_vars => CancelsARow'
<1> SUFFICES ASSUME TypeOK, CancelsARow, [Next]_vars, NEW h \in Handlers,
                    hpc'[h] \in {"cancelQueued", "cancelLive"}
             PROVE  state'[htask'[h]] # "none"
  BY DEF CancelsARow
<1> USE DEF TypeOK, RequestTypeOK
<1>1. ASSUME htask'[h] = htask[h], hpc'[h] = hpc[h] PROVE state'[htask'[h]] # "none"
  BY <1>1, RowsStay DEF CancelsARow
<1>2. ASSUME NEW g \in Handlers, Request(g) PROVE state'[htask'[h]] # "none"
  <2>1. CASE h # g
    <3>1. htask'[h] = htask[h] /\ hpc'[h] = hpc[h]
      BY <1>2, <2>1 DEF Request, CreateTask, DispatchLookup, CancelLookup, HandlerLookup,
            DispatchSend, DispatchMark, CancelRead, CancelQueued, CancelLive, CancelSend,
            HandlerReturn
    <3> QED BY <3>1, <1>1
  <2>2. CASE h = g
    <3>1. PICK t \in Tasks : CancelRead(g, t)
      BY <1>2, <2>2 DEF Request, CreateTask, DispatchLookup, CancelLookup, HandlerLookup,
            DispatchSend, DispatchMark, CancelQueued, CancelLive, CancelSend, HandlerReturn
    <3> QED BY <2>2, <3>1 DEF CancelRead, NonTerminal
  <2> QED BY <2>1, <2>2
<1>3. ASSUME NEW c \in Conns, Session(c) PROVE UNCHANGED reqVars
  BY <1>3 DEF Session, Register, RetireOld, LoadPending, Deliver, DeliverMark, Requeue,
              RecvResult, Touch, ReadError, Unregister, SetOffline, WriteError
<1>4. Scheduler => UNCHANGED reqVars
  BY DEF Scheduler, SweepStart, SweepLookup, SweepSend, SweepMark, ReapStart, Reap
<1>5. ASSUME NEW a \in Agents, Agent(a) PROVE UNCHANGED reqVars
  BY <1>5 DEF Agent, Dial, AgentReadDispatch, AgentAdmit, AgentReadCancel,
              AgentDisconnect, AgentRestart
<1>6. ASSUME NEW t \in Tasks, AgentTask(t) PROVE UNCHANGED reqVars
  BY <1>6 DEF AgentTask, FinishTask, SendResult, UnregisterTask, PruneResult
<1>7. Tick \/ UNCHANGED vars => UNCHANGED reqVars
  BY DEF Tick, vars
<1>8. ServerRestart => hpc'[h] = "idle"
  BY DEF ServerRestart
<1> QED BY <1>1, <1>2, <1>3, <1>4, <1>5, <1>6, <1>7, <1>8 DEF Next

-----------------------------------------------------------------------------
\* Every step of the system is a step of the ledger, or none.
LEMMA NextLedger ==
    TypeOK /\ HeldBack /\ Earned /\ CancelsARow /\ [Next]_vars => LedgerStep
<1> SUFFICES ASSUME TypeOK, HeldBack, Earned, CancelsARow, [Next]_vars PROVE LedgerStep
  OBVIOUS
<1>1. ASSUME NEW t \in Tasks, AgentTask(t) PROVE LedgerStep
  <2>1. UNCHANGED <<state, result, resultBy, due, execs>>
    BY <1>1 DEF AgentTask, FinishTask, SendResult, UnregisterTask, PruneResult
  <2> QED BY <2>1, LedgerStutter
<1>2. CASE ServerRestart
  BY <1>2, LedgerStutter DEF ServerRestart
<1>3. CASE UNCHANGED vars
  BY <1>3, LedgerStutter DEF vars
<1> QED BY <1>1, <1>2, <1>3, SessionLedger, RequestLedger, SchedulerLedger, AgentLedger,
           TickLedger DEF Next

\* The refinement: whatever sessions, requests, the sweep, the reaper, agents,
\* failures and restarts do, an operator who looks at the rows, the verdicts
\* and the commands started sees a behaviour of the ledger.
THEOREM LedgerImplemented == Spec => ImplementsLedger
<1>1. Init => Ledger!Init
  BY DEF Init, Ledger!Init, Released
<1>2. Init => CancelsARow
  BY DEF Init, CancelsARow
<1>3. TypeOK /\ CancelsARow /\ [Next]_vars => CancelsARow'
  BY CancelsARowStep
<1>4. TypeOK /\ HeldBack /\ Earned /\ CancelsARow /\ [Next]_vars
        => [Ledger!Next]_(Ledger!vars)
  BY NextLedger DEF LedgerStep
<1> QED BY <1>1, <1>2, <1>3, <1>4, TypeCorrect, HeldAlways, EarnedAlways, PTL
        DEF Spec, ImplementsLedger, Ledger!Spec

=============================================================================
