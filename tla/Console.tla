------------------------------- MODULE Console -------------------------------
(***************************************************************************)
(* The operator plane: invocations of the CLI (groups create, groups add,  *)
(* groups remove, run, tasks cancel), the requests they make, and the      *)
(* server's handlers between the authentication and the operation log.     *)
(*                                                                         *)
(* Every invocation is a process of its own and makes at most one writing  *)
(* request, a goroutine of the server.  A step of a handler is a database  *)
(* statement or transaction.  The answer may reach the client before or    *)
(* after the log row is written.  The client may give a request up while   *)
(* the server works on.  A crash of the server ends every request under    *)
(* way; it comes up again at once.  Crashes, failing statements and such   *)
(* timeouts of the client are the faults.                                  *)
(***************************************************************************)
EXTENDS AuditTrail, GroupTable, Sequences

CONSTANTS
    Episodes,          \* the invocations, and the days and faults there may be
    Groups0,           \* the groups there are at the beginning
    AuthRequired,      \* the TCP listener is on: every request needs the token
    RefCap             \* task ids that fit into the ref column of a log row

\* What a command line may hold, and what is there at the beginning.
AskOK(r) ==
    /\ r.do \in {"create", "add", "remove", "run", "cancel", "nothing"}
    /\ r.do = "create" => r.name \in STRING /\ r.members \subseteq Agents
    /\ r.do \in {"create", "add", "remove"} => r.group \in GroupIds
    /\ r.do \in {"add", "remove"} => r.ids \subseteq Agents
    /\ r.do = "run" => r.agents \subseteq Agents /\ r.groups \in Seq(GroupIds)
    /\ r.do = "cancel" => r.task \in TaskIds

ASSUME ConsoleAssumption ==
    /\ Agents \subseteq Nat /\ IsFiniteSet(Agents) /\ "" \notin Calls
    /\ MaxDay \in Nat /\ MaxFaults \in Nat /\ RefCap \in Nat \ {0}
    /\ Groups0 \in [GroupIds -> [name : STRING, members : SUBSET Agents, by : {""},
                                  written : 0..MaxDay]]
    /\ \A e \in Episodes : /\ e.days \in 0..MaxDay /\ e.faults \in 0..MaxFaults
                            /\ \A c \in Calls : AskOK(e.ask[c])

VARIABLES
    ask,               \* the command line of each invocation
    cli, exit,         \* where it is, and its exit code
    seen,              \* the group as read by groups add and groups remove
    await, allOK,      \* run --wait: tasks to poll, and whether all succeeded
    srv, status,       \* the request in the server, and the status it answered
    left,              \* run: groups still to be looked up
    targets, todo,     \* run: agents found, and those still without a task
    made, denied,      \* run: agents with a task, and agents a plugin refused
    held,              \* tasks cancel: the state CancelTask has read
    began,             \* the day the request came
    ever, stable       \* memberships since the request came: at any time, all the time

cliVars == <<cli, exit, seen, await, allOK>>
srvVars == <<srv, status, left, targets, todo, made, denied, held>>
pastVars == <<began, ever, stable>>
vars == <<auditVars, groups, ask, cliVars, srvVars, pastVars>>

Edits == {"add", "remove"}
InHand == {"auth", "work", "create", "write", "audit"}
Min(S) == CHOOSE x \in S : \A y \in S : x <= y

Init ==
    /\ \E e \in Episodes : AuditInit(e.days, e.faults) /\ ask = e.ask
    /\ groups = Groups0
    /\ cli = [c \in Calls |-> "idle"] /\ exit = [c \in Calls |-> None]
    /\ seen = [c \in Calls |-> NoGroup]
    /\ await = [c \in Calls |-> {}] /\ allOK = [c \in Calls |-> TRUE]
    /\ srv = [c \in Calls |-> "none"] /\ status = [c \in Calls |-> None]
    /\ left = [c \in Calls |-> <<>>]
    /\ targets = [c \in Calls |-> {}] /\ todo = [c \in Calls |-> {}]
    /\ made = [c \in Calls |-> {}] /\ denied = [c \in Calls |-> {}]
    /\ held = [c \in Calls |-> None]
    /\ began = [c \in Calls |-> 0]
    /\ ever = [c \in Calls |-> {}] /\ stable = [c \in Calls |-> {}]

-----------------------------------------------------------------------------
(***************************************************************************)
(* The client.                                                             *)
(***************************************************************************)
Exits(c, code) ==
    /\ cli' = [cli EXCEPT ![c] = "exit"]
    /\ exit' = [exit EXCEPT ![c] = code]

\* Client.Post: the request is on its way, and the server is about to check it.
Post(c) ==
    /\ cli' = [cli EXCEPT ![c] = "sent"]
    /\ srv' = [srv EXCEPT ![c] = "auth"]
    /\ began' = [began EXCEPT ![c] = day]
    /\ ever' = [ever EXCEPT ![c] = Membership]
    /\ stable' = [stable EXCEPT ![c] = Membership]
    /\ UNCHANGED <<exit, seen, await, allOK, status, left, targets, todo, made, denied,
                   held, auditVars, groups, ask>>

Authorized(c) == ~AuthRequired \/ ask[c].token

\* Whether run's selector may reach several agents.  (An id given twice, which the
\* code counts twice, is not among the command lines here.)
Fanout(c) == ask[c].groups # <<>> \/ Cardinality(ask[c].agents) > 1

\* run: a selector is required, and --yes for one that may fan out.
RunRefused(c) ==
    /\ cli[c] = "idle" /\ ask[c].do = "run"
    /\ (ask[c].groups = <<>> /\ ask[c].agents = {}) \/ (Fanout(c) /\ ~ask[c].yes)
    /\ Exits(c, "usage")
    /\ UNCHANGED <<auditVars, groups, ask, seen, await, allOK, srvVars, pastVars>>

\* run, groups create and tasks cancel post at once.
PostAtOnce(c) ==
    /\ cli[c] = "idle"
    /\ \/ ask[c].do \in {"create", "cancel"}
       \/ /\ ask[c].do = "run"
          /\ ask[c].groups # <<>> \/ ask[c].agents # {}
          /\ Fanout(c) => ask[c].yes
    /\ Post(c)

\* groups add and groups remove first get the group: its row, ...
GetGroup(c) ==
    /\ cli[c] = "idle" /\ ask[c].do \in Edits
    /\ IF ~Authorized(c)
       THEN /\ Exits(c, "auth")
            /\ AppendOpLog(OpLogEntry("operator", c, FALSE, {}))
            /\ UNCHANGED seen
       ELSE /\ IF Exists(ask[c].group)
               THEN /\ seen' = [seen EXCEPT ![c].name = groups[ask[c].group].name]
                    /\ cli' = [cli EXCEPT ![c] = "members"] /\ UNCHANGED exit
               ELSE Exits(c, "failure") /\ UNCHANGED seen
            /\ UNCHANGED <<oplog, unlogged, faults>>
    /\ UNCHANGED <<day, pruneDue, row, verdict, loose, won, groups, ask, await, allOK,
                   srvVars, pastVars>>

\* ... and then, by another statement, its members.
GetMembers(c) ==
    /\ cli[c] = "members"
    /\ seen' = [seen EXCEPT ![c].members = groups[ask[c].group].members]
    /\ cli' = [cli EXCEPT ![c] = "edit"]
    /\ UNCHANGED <<exit, await, allOK, auditVars, groups, ask, srvVars, pastVars>>

\* The list they post: what they saw, with or without the ids they name.
EditedMembers(c) ==
    IF ask[c].do = "add" THEN seen[c].members \cup ask[c].ids
    ELSE seen[c].members \ ask[c].ids

PostEdit(c) == cli[c] = "edit" /\ Post(c)

\* A 202: run reports the targets that were refused, and with --wait goes on to
\* poll those that were not.
Accepted(c) ==
    IF ask[c].do # "run" THEN Exits(c, "ok") /\ UNCHANGED <<await, allOK>>
    ELSE IF ask[c].wait
    THEN /\ cli' = [cli EXCEPT ![c] = "poll"]
         /\ await' = [await EXCEPT ![c] = made[c]]
         /\ allOK' = [allOK EXCEPT ![c] = denied[c] = {}]
         /\ UNCHANGED exit
    ELSE /\ Exits(c, IF denied[c] = {} THEN "ok" ELSE "failure")
         /\ UNCHANGED <<await, allOK>>

\* Client.Do: the answer arrives, ...
Receive(c) ==
    /\ cli[c] = "sent" /\ status[c] # None
    /\ IF status[c] = 202 THEN Accepted(c)
       ELSE /\ Exits(c, IF status[c] = 401 THEN "auth" ELSE "failure")
            /\ UNCHANGED <<await, allOK>>
    /\ UNCHANGED <<seen, auditVars, groups, ask, srvVars, pastVars>>

\* ... or it never does, or not in time, whatever becomes of the request.
GiveUp(c) ==
    /\ cli[c] = "sent"
    /\ \/ srv[c] = "lost" /\ UNCHANGED faults
       \/ srv[c] \in InHand /\ Fault
    /\ Exits(c, "connect")
    /\ UNCHANGED <<seen, await, allOK, day, pruneDue, row, verdict, oplog, loose, unlogged,
                   won, groups, ask, srvVars, pastVars>>

\* Mutant: poll takes a canceled or failed task for a finished one and no more.
PolledTerminal(c, t) ==
    /\ row[t] # None /\ row[t].state \in Terminal
    /\ await' = [await EXCEPT ![c] = @ \ {t[2]}]
    /\ UNCHANGED <<cli, exit, allOK>>

\* poll of one task, in the order of the answer: it has ended, ...
Polled(c, t) ==
    /\ row[t] # None /\ row[t].state \in Terminal
    /\ await' = [await EXCEPT ![c] = @ \ {t[2]}]
    /\ allOK' = [allOK EXCEPT ![c] = @ /\ row[t].state = "success"]
    /\ UNCHANGED <<cli, exit>>

\* ... it is not there, or it is open when the budget ends.
PollFails(c, t) ==
    /\ ~(row[t] # None /\ row[t].state \in Terminal)
    /\ Exits(c, IF row[t] = None THEN "gone" ELSE "waited")
    /\ UNCHANGED <<await, allOK>>

\* run --wait: task by task, then the verdict on all.
Wait(c) ==
    /\ cli[c] = "poll"
    /\ IF await[c] = {}
       THEN Exits(c, IF allOK[c] THEN "ok" ELSE "failure") /\ UNCHANGED <<await, allOK>>
       ELSE LET t == <<c, Min(await[c])>> IN Polled(c, t) \/ PollFails(c, t)
    /\ UNCHANGED <<seen, auditVars, groups, ask, srvVars, pastVars>>

-----------------------------------------------------------------------------
(***************************************************************************)
(* The server.                                                             *)
(***************************************************************************)
\* The handler has written its answer; the middleware is next.
Answers(c, code) ==
    /\ srv' = [srv EXCEPT ![c] = "audit"]
    /\ status' = [status EXCEPT ![c] = code]

\* requireOperatorAuth: a refusal is logged and answered here.
RequireOperatorAuth(c) ==
    /\ srv[c] = "auth"
    /\ IF Authorized(c)
       THEN /\ srv' = [srv EXCEPT ![c] = "work"]
            /\ left' = [left EXCEPT ![c] = IF ask[c].do = "run" THEN ask[c].groups ELSE <<>>]
            /\ targets' = [targets EXCEPT ![c] = IF ask[c].do = "run" THEN ask[c].agents ELSE {}]
            /\ UNCHANGED <<status, oplog, unlogged, faults>>
       ELSE /\ AppendOpLog(OpLogEntry("operator", c, FALSE, {}))
            /\ srv' = [srv EXCEPT ![c] = "done"]
            /\ status' = [status EXCEPT ![c] = 401]
            /\ UNCHANGED <<left, targets>>
    /\ UNCHANGED <<day, pruneDue, row, verdict, loose, won, groups, ask, cliVars, todo,
                   made, denied, held, pastVars>>

\* Requests whose selector is being resolved remember the memberships.
Remember ==
    /\ ever' = [c \in Calls |-> IF srv[c] \in {"auth", "work"}
                                THEN ever[c] \cup Membership' ELSE ever[c]]
    /\ stable' = [c \in Calls |-> IF srv[c] \in {"auth", "work"}
                                  THEN stable[c] \cap Membership' ELSE stable[c]]
    /\ UNCHANGED began

\* POST /groups, from groups create or from an edit.
PostGroup(c) ==
    /\ srv[c] = "work" /\ ask[c].do \in {"create"} \cup Edits
    /\ LET g       == ask[c].group
           new     == ask[c].do = "create"
           name    == IF new THEN ask[c].name ELSE seen[c].name
           members == IF new THEN ask[c].members ELSE EditedMembers(c)
           repeats == new /\ ask[c].repeats
       IN  \/ /\ CreateOrUpdateGroup(g, name, members, repeats, c, day)
              /\ Answers(c, IF Acceptable(g, name, repeats) THEN 202 ELSE 500)
              /\ UNCHANGED faults
           \/ Fault /\ Answers(c, 500) /\ UNCHANGED groups
    /\ Remember
    /\ UNCHANGED <<day, pruneDue, row, verdict, oplog, loose, unlogged, won, ask, cliVars,
                   left, targets, todo, made, denied, held>>

\* Mutant: each group replaces what the ones before have given.
ResolveGroupLast(c) ==
    /\ srv[c] = "work" /\ left[c] # <<>>
    /\ targets' = [targets EXCEPT ![c] = groups[Head(left[c])].members]
    /\ left' = [left EXCEPT ![c] = Tail(@)]
    /\ UNCHANGED <<auditVars, groups, ask, cliVars, srv, status, todo, made, denied, held,
                   pastVars>>

\* POST /tasks/batch.  resolveTargetAgentIDs: one query per group, ...
ResolveGroup(c) ==
    /\ srv[c] = "work" /\ left[c] # <<>>
    /\ targets' = [targets EXCEPT ![c] = @ \cup groups[Head(left[c])].members]
    /\ left' = [left EXCEPT ![c] = Tail(@)]
    /\ UNCHANGED <<auditVars, groups, ask, cliVars, srv, status, todo, made, denied, held,
                   pastVars>>

\* ... any of which may fail, and the request with it, ...
ResolveFails(c) ==
    /\ srv[c] = "work" /\ left[c] # <<>>
    /\ Fault /\ Answers(c, 400)
    /\ UNCHANGED <<day, pruneDue, row, verdict, oplog, loose, unlogged, won, groups, ask,
                   cliVars, left, targets, todo, made, denied, held, pastVars>>

\* ... and at least one agent.  (Agents selected by tags, by one query over the
\* agents' rows, count among those that are named.)
Resolved(c) ==
    /\ srv[c] = "work" /\ ask[c].do = "run" /\ left[c] = <<>>
    /\ IF targets[c] = {} THEN Answers(c, 400) /\ UNCHANGED todo
       ELSE /\ todo' = [todo EXCEPT ![c] = targets[c]]
            /\ srv' = [srv EXCEPT ![c] = "create"] /\ UNCHANGED status
    /\ UNCHANGED <<auditVars, groups, ask, cliVars, left, targets, made, denied, held,
                   pastVars>>

\* Mutant: the target stays on the list.
NextTargetAgain(c, a) ==
    /\ IF Cardinality(todo[c]) = 1 THEN Answers(c, 202) ELSE UNCHANGED <<srv, status>>
    /\ UNCHANGED todo

\* The batch goes on with the next target, or is answered.
NextTarget(c, a) ==
    /\ todo' = [todo EXCEPT ![c] = @ \ {a}]
    /\ IF todo[c] = {a} THEN Answers(c, 202) ELSE UNCHANGED <<srv, status>>

\* Mutant: a refused task is recorded and queued all the same.
DenyQueued(c, a) ==
    /\ denied' = [denied EXCEPT ![c] = @ \cup {a}]
    /\ AppendOpLog(OpLogEntry("plugin", <<c, a>>, FALSE, {<<c, a>>}))
    /\ row' = [row EXCEPT ![<<c, a>>] = [state |-> "queued", born |-> day]]
    /\ NextTarget(c, a)
    /\ UNCHANGED made

\* createTask for one target: a plugin refuses it, which is logged, ...
Deny(c, a) ==
    /\ denied' = [denied EXCEPT ![c] = @ \cup {a}]
    /\ AppendOpLog(OpLogEntry("plugin", <<c, a>>, FALSE, {<<c, a>>}))
    /\ NextTarget(c, a)
    /\ UNCHANGED <<row, made>>

\* A plugin that times out or fails lets the task pass, and that is logged too.
\* It is a fault of its own; that the row is lost as well would be a second one.
FailOpenEntry(c, a) == OpLogEntry("plugin", <<c, a>>, TRUE, {<<c, a>>})

FailsOpen(c, a) ==
    /\ Fault
    /\ oplog' = oplog \cup {FailOpenEntry(c, a)}
    /\ UNCHANGED unlogged

\* ... or it gets a row (dispatchOrQueue; what follows is TaskDispatch), ...
Queue(c, a) ==
    /\ FailsOpen(c, a) \/ UNCHANGED <<oplog, unlogged, faults>>
    /\ row' = [row EXCEPT ![<<c, a>>] = [state |-> "queued", born |-> day]]
    /\ made' = [made EXCEPT ![c] = @ \cup {a}]
    /\ NextTarget(c, a)
    /\ UNCHANGED denied

\* ... or the insert fails, and the whole batch is answered with the error,
\* although the targets before this one have their tasks.  A plugin may have failed
\* open before, and its row stays in the log (both count as one fault).
QueueFails(c, a) ==
    /\ Fault /\ Answers(c, 500)
    /\ oplog' \in {oplog, oplog \cup {FailOpenEntry(c, a)}}
    /\ UNCHANGED <<unlogged, row, todo, made, denied>>

CreateTask(c) ==
    /\ srv[c] = "create"
    /\ LET a == Min(todo[c]) IN Deny(c, a) \/ Queue(c, a) \/ QueueFails(c, a)
    /\ UNCHANGED <<day, pruneDue, verdict, loose, won, groups, ask, cliVars, left, targets,
                   held, pastVars>>

\* POST /tasks/:id/cancel.  CancelTask reads the row ...
CancelRead(c) ==
    /\ srv[c] = "work" /\ ask[c].do = "cancel"
    /\ LET r == row[ask[c].task] IN
       IF r = None THEN Answers(c, 404) /\ UNCHANGED held
       ELSE IF r.state \in Terminal THEN Answers(c, 202) /\ UNCHANGED held
       ELSE /\ held' = [held EXCEPT ![c] = r.state]
            /\ srv' = [srv EXCEPT ![c] = "write"] /\ UNCHANGED status
    /\ UNCHANGED <<auditVars, groups, ask, cliVars, left, targets, todo, made, denied,
                   pastVars>>

\* ... and writes by what it read, whatever has become of the row: a task that
\* was queued is canceled with a result, another one is marked.
CancelWrite(c) ==
    /\ srv[c] = "write"
    /\ LET t == ask[c].task
           s == IF held[c] = "queued" THEN "canceled" ELSE "cancel_requested"
       IN  /\ row' = IF row[t] = None THEN row ELSE [row EXCEPT ![t].state = s]
           /\ verdict' = IF held[c] # "queued" THEN verdict
                         ELSE [verdict EXCEPT ![t] =
                                [status |-> s, by |-> "operator", done |-> day]]
    /\ Answers(c, 202)
    /\ UNCHANGED <<day, pruneDue, oplog, loose, unlogged, won, faults, groups, ask, cliVars,
                   left, targets, todo, made, denied, held, pastVars>>

\* The write fails and is rolled back.
CancelFails(c) ==
    /\ srv[c] = "write" /\ Fault /\ Answers(c, 500)
    /\ UNCHANGED <<day, pruneDue, row, verdict, oplog, loose, unlogged, won, groups, ask,
                   cliVars, left, targets, todo, made, denied, held, pastVars>>

\* The ids in the answer: of the tasks of a batch, of the task, of the group.
Ids(c) ==
    IF status[c] # 202 THEN {}
    ELSE CASE ask[c].do = "run"    -> {<<c, a>> : a \in made[c] \cup denied[c]}
           [] ask[c].do = "cancel" -> {ask[c].task}
           [] OTHER                -> {ask[c].group}

\* extractRefs: what of them fits into the column; none when the answer itself
\* is longer than the middleware captures, and so no JSON.
Refs(c) ==
    IF Cardinality(Ids(c)) <= RefCap THEN {Ids(c)}
    ELSE {R \in SUBSET Ids(c) : Cardinality(R) \in {0, RefCap}}

\* Mutant: the answer's ids are not extracted.
OplogMiddlewareBlind(c) ==
    /\ srv[c] = "audit" /\ srv' = [srv EXCEPT ![c] = "done"]
    /\ AppendOpLog(OpLogEntry("operator", c, status[c] = 202, {}))
    /\ UNCHANGED <<day, pruneDue, row, verdict, loose, won, groups, ask, cliVars, status,
                   left, targets, todo, made, denied, held, pastVars>>

\* oplogMiddleware after the handler.
OplogMiddleware(c) ==
    /\ srv[c] = "audit" /\ srv' = [srv EXCEPT ![c] = "done"]
    /\ \E R \in Refs(c) : AppendOpLog(OpLogEntry("operator", c, status[c] = 202, R))
    /\ UNCHANGED <<day, pruneDue, row, verdict, loose, won, groups, ask, cliVars, status,
                   left, targets, todo, made, denied, held, pastVars>>

\* The server dies and starts again: requests and goroutines are gone, and the
\* loop begins with a retention pass.
Crash ==
    /\ Fault
    /\ srv' = [c \in Calls |-> IF srv[c] \in InHand THEN "lost" ELSE srv[c]]
    /\ unlogged' = unlogged \cup {<<"agent", r[1], r[2]>> : r \in loose} \cup
          UNION {{<<"operator", c, TRUE>>, <<"operator", c, FALSE>>} :
                    c \in {d \in Calls : srv[d] \in InHand}}
    /\ loose' = {} /\ pruneDue' = TRUE
    /\ cli' = [c \in Calls |-> IF cli[c] = "members" THEN "exit" ELSE cli[c]]
    /\ exit' = [c \in Calls |-> IF cli[c] = "members" THEN "connect" ELSE exit[c]]
    /\ UNCHANGED <<day, row, verdict, oplog, won, groups, ask, seen, await, allOK, status,
                   left, targets, todo, made, denied, held, pastVars>>

-----------------------------------------------------------------------------
Client(c) ==
    \/ RunRefused(c) \/ PostAtOnce(c) \/ GetGroup(c) \/ GetMembers(c) \/ PostEdit(c)
    \/ Receive(c) \/ GiveUp(c) \/ Wait(c)

Handler(c) ==
    \/ RequireOperatorAuth(c) \/ PostGroup(c) \/ ResolveGroup(c) \/ ResolveFails(c)
    \/ Resolved(c) \/ CreateTask(c) \/ CancelRead(c) \/ CancelWrite(c) \/ CancelFails(c)
    \/ OplogMiddleware(c)

Next ==
    \/ \E c \in Calls : Client(c) \/ Handler(c)
    \/ Keeps /\ UNCHANGED <<groups, ask, cliVars, srvVars, pastVars>>
    \/ Crash

Spec == Init /\ [][Next]_vars

-----------------------------------------------------------------------------
(***************************************************************************)
(* Properties.                                                             *)
(***************************************************************************)
Codes == {"ok", "failure", "gone", "waited", "connect", "auth", "usage"}
Rows == [state : Open \cup Terminal, born : 0..MaxDay]
Results == [status : Terminal, by : {"agent", "operator", "reaper"}, done : 0..MaxDay]
Entries == [plane : {"operator", "plugin", "agent"}, about : Calls \cup TaskIds,
            ok : BOOLEAN, refs : SUBSET (TaskIds \cup GroupIds), ts : 0..MaxDay]

\* None is nothing of the kind.
ASSUME NoneAssumption == None \notin Rows \cup Results \cup Codes \cup Open \cup Nat

\* The types of the tables, of the requests and of the invocations.
TypeOK ==
    /\ day \in 0..MaxDay /\ pruneDue \in BOOLEAN /\ faults \in 0..MaxFaults
    /\ \A t \in TaskIds : row[t] = None \/ row[t] \in Rows
    /\ \A t \in TaskIds : verdict[t] = None \/ verdict[t] \in Results
    /\ \A e \in oplog : e \in Entries
    /\ loose \subseteq TaskIds \X BOOLEAN /\ won \subseteq TaskIds
    /\ unlogged \subseteq {"operator", "plugin", "agent"} \X (Calls \cup TaskIds) \X BOOLEAN
    /\ \A g \in GroupIds : groups[g].members \subseteq Agents
    /\ cli \in [Calls -> {"idle", "members", "edit", "sent", "poll", "exit"}]
    /\ \A c \in Calls : (cli[c] = "exit") <=> (exit[c] \in Codes)
    /\ \A c \in Calls : seen[c].members \subseteq Agents
    /\ await \in [Calls -> SUBSET Agents] /\ allOK \in [Calls -> BOOLEAN]
    /\ srv \in [Calls -> {"none", "done", "lost"} \cup InHand]
    /\ \A c \in Calls : status[c] \in {None, 202, 400, 401, 404, 500}
    /\ \A c \in Calls : todo[c] \subseteq targets[c] /\ targets[c] \subseteq Agents
    /\ \A c \in Calls : made[c] \cup denied[c] \subseteq targets[c] \ todo[c]
    /\ \A c \in Calls : srv[c] = "write" => held[c] \in Open

\* resolveTargetAgentIDs queries group by group while other operators edit the
\* groups.  A target was a member of a named group at some time since the request
\* came, and whoever was a member of the same named group all that time is one.
TargetsOfTheTime ==
    \A c \in {d \in Calls : ask[d].do = "run" /\ status[d] # 401 /\ left[d] = <<>>} :
        srv[c] \in {"create", "audit", "done"} =>
        LET named == {ask[c].groups[i] : i \in DOMAIN ask[c].groups}
        IN  /\ \A a \in targets[c] \ ask[c].agents : \E g \in named : <<g, a>> \in ever[c]
            /\ \A g \in named, a \in Agents : <<g, a>> \in stable[c] => a \in targets[c]

\* groups add and groups remove write back a list they have read before: another
\* operator's edit can be undone, but only one that was made after the read.  Only
\* a request that is answered with success changes a group.  A
\* member that leaves was left out by a create, named by a remove or not seen; one
\* that comes was listed by a create, named by an add or seen.
UndoesOnlyUnseen ==
    [][\A g \in GroupIds : groups'[g] # groups[g] =>
        LET c == groups'[g].by IN
        /\ c \in Calls /\ srv[c] = "work" /\ status'[c] = 202
        /\ \A a \in groups[g].members \ groups'[g].members :
            \/ ask[c].do = "create"
            \/ ask[c].do = "remove" /\ a \in ask[c].ids
            \/ a \notin seen[c].members
        /\ \A a \in groups'[g].members \ groups[g].members :
            \/ ask[c].do = "create"
            \/ ask[c].do = "add" /\ a \in ask[c].ids
            \/ a \in seen[c].members]_vars

\* A row of the log says so, or it was lost.
Traced(plane, about, ok, refs) ==
    \/ \E e \in oplog : /\ e.plane = plane /\ e.about = about /\ e.ok = ok
                        /\ refs \subseteq e.refs
    \/ <<plane, about, ok>> \in unlogged

\* "Every write operation is recorded" (README, operation log): what a finished
\* request or a result has left in the tables is named by a row of the log, with
\* these exceptions: the insert of the row failed or the server died before it,
\* the batch failed half way (its row names nothing), the ids did not all fit, or
\* retention has taken the row, and then the effect is as old.
EffectsTraced ==
    /\ \A t \in TaskIds : row[t] # None /\ srv[t[1]] = "done" =>
        \/ Traced("operator", t[1], TRUE, {t})
        \/ status[t[1]] = 500 /\ Traced("operator", t[1], FALSE, {})
        \/ /\ Cardinality(made[t[1]] \cup denied[t[1]]) > RefCap
           /\ Traced("operator", t[1], TRUE, {})
        \/ Old(row[t].born)
    /\ \A g \in GroupIds : groups[g].by \in Calls /\ srv[groups[g].by] = "done" =>
        \/ Traced("operator", groups[g].by, TRUE, {g})
        \/ Old(groups[g].written)
    /\ \A t \in TaskIds : verdict[t] # None /\ verdict[t].by = "agent" =>
        \/ <<t, TRUE>> \in loose \/ Traced("agent", t, TRUE, {t})
        \/ Old(verdict[t].done)

\* A task that a plugin refused never gets a row, and the refusal is on record
\* (docs/plugin-refactor.md, acceptance 1), but for a failed insert and retention.
DeniedStaysOut ==
    \A c \in Calls : \A a \in denied[c] :
        /\ row[<<c, a>>] = None
        /\ Traced("plugin", <<c, a>>, FALSE, {<<c, a>>}) \/ Old(began[c])

\* run --wait exits 0 only if every target of the request, and the request had
\* one, had a task that succeeded at some time.  (A cancel that writes late may
\* change the row again.)
ExitZeroEarned ==
    \A c \in Calls : ask[c].do = "run" /\ ask[c].wait /\ exit[c] = "ok" =>
        targets[c] # {} /\ \A a \in targets[c] : <<c, a>> \in won

\* run --wait polls a task it made: it may find it open for too long, but the
\* retention pass takes it away only when the request itself is that old.
GoneOnlyWhenOld ==
    \A c \in Calls : exit[c] = "gone" => Old(began[c])

\* What run --wait says of the tasks it made.
ExitCodesEarned == ExitZeroEarned /\ GoneOnlyWhenOld

Orphans == {t \in TaskIds : verdict[t] # None /\ row[t] = None}

\* "Terminal tasks go first, then their results are picked up as orphans in one
\* pass" (retention.go): a pass leaves no result without a task, and only a cancel
\* that read the row before the pass and writes after it makes one.
OrphanOnlyByLateCancel ==
    [][/\ pruneDue /\ ~pruneDue' /\ faults' = faults => Orphans' = {}
       /\ \A t \in Orphans' \ Orphans :
            \E c \in Calls : srv[c] = "write" /\ srv'[c] = "audit" /\ ask[c].task = t]_vars
=============================================================================
