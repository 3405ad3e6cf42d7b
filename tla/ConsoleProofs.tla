---------------------------- MODULE ConsoleProofs ----------------------------
(***************************************************************************)
(* What an operator's request reaches, what it leaves behind, and what the *)
(* client says of it.                                                      *)
(***************************************************************************)
EXTENDS Console, Integers, TLAPS, FiniteSetTheorems, WellFoundedInduction

\* No name, and who wrote a group that was there at the beginning.  (The provers
\* do not know the empty string for a string.)
Blank == ""

\* A row of the table of groups.
GroupRows ==
    [name : STRING \cup {Blank}, members : SUBSET Agents, by : Calls \cup {Blank},
     written : 0..MaxDay]

\* What a request is answered.
Statuses == {None, 202, 400, 401, 404, 500}

\* The command lines make sense.
Asked == \A c \in Calls : AskOK(ask[c])

\* The variables are functions and sets of the right kind.
Typed ==
    /\ day \in 0..MaxDay /\ pruneDue \in BOOLEAN /\ faults \in 0..MaxFaults
    /\ row \in [TaskIds -> Rows \cup {None}] /\ verdict \in [TaskIds -> Results \cup {None}]
    /\ oplog \subseteq Entries
    /\ loose \subseteq TaskIds \X BOOLEAN /\ won \subseteq TaskIds
    /\ unlogged \subseteq {"operator", "plugin", "agent"} \X (Calls \cup TaskIds) \X BOOLEAN
    /\ groups \in [GroupIds -> GroupRows]
    /\ Asked

\* The client of each request.
ClientTyped ==
    /\ cli \in [Calls -> {"idle", "members", "edit", "sent", "poll", "exit"}]
    /\ exit \in [Calls -> Codes \cup {None}]
    /\ seen \in [Calls -> GroupRows]
    /\ await \in [Calls -> SUBSET Agents] /\ allOK \in [Calls -> BOOLEAN]

\* The handler of each request, and what is remembered of the groups meanwhile.
ServerTyped ==
    /\ srv \in [Calls -> {"none", "done", "lost"} \cup InHand]
    /\ status \in [Calls -> Statuses]
    /\ left \in [Calls -> Seq(GroupIds)]
    /\ targets \in [Calls -> SUBSET Agents] /\ todo \in [Calls -> SUBSET Agents]
    /\ made \in [Calls -> SUBSET Agents] /\ denied \in [Calls -> SUBSET Agents]
    /\ held \in [Calls -> Open \cup {None}]
    /\ began \in [Calls -> 0..MaxDay]
    /\ ever \in [Calls -> SUBSET (GroupIds \X Agents)]
    /\ stable \in [Calls -> SUBSET (GroupIds \X Agents)]

Types == Typed /\ ClientTyped /\ ServerTyped

\* How far a request is, and what it has then.
Progress(c) ==
    /\ cli[c] \in {"idle", "members", "edit"} => srv[c] = "none"
    /\ srv[c] \in {"none", "auth", "work"} => todo[c] = {} /\ made[c] = {} /\ denied[c] = {}
    /\ srv[c] = "none" => left[c] = <<>> /\ targets[c] = {}
    /\ status[c] # None => srv[c] \in {"audit", "done", "lost"}
    /\ srv[c] # "none" => ask[c].do # "nothing"
    /\ srv[c] = "create" => ask[c].do = "run" /\ todo[c] # {}
    /\ srv[c] = "write" => ask[c].do = "cancel" /\ held[c] \in Open
    /\ ask[c].do # "run" => left[c] = <<>> /\ targets[c] = {}
    /\ cli[c] \in {"members", "edit"} => ask[c].do \in Edits

\* Every target of a batch is still to come, has a task or was refused.
Shares(c) ==
    /\ todo[c] \subseteq targets[c]
    /\ made[c] \cup denied[c] \subseteq targets[c] \ todo[c]
    /\ made[c] \cap denied[c] = {}
    /\ srv[c] = "create" => targets[c] \subseteq made[c] \cup denied[c] \cup todo[c]
    /\ status[c] = 202 /\ ask[c].do = "run" =>
        targets[c] # {} /\ todo[c] = {} /\ targets[c] \subseteq made[c] \cup denied[c]
    /\ made[c] # {} /\ srv[c] \in {"audit", "done"} => status[c] \in {202, 500}

\* What the client waits for was made, and the codes it exits with are earned.
ClientOK(c) ==
    /\ (cli[c] = "exit") <=> (exit[c] \in Codes)
    /\ cli[c] = "poll" =>
        /\ status[c] = 202 /\ ask[c].do = "run" /\ await[c] \subseteq made[c]
        /\ allOK[c] => denied[c] = {} /\ \A a \in made[c] \ await[c] : <<c, a>> \in won
    /\ exit[c] = "ok" /\ ask[c].do = "run" /\ ask[c].wait =>
        targets[c] # {} /\ \A a \in targets[c] : <<c, a>> \in won
    /\ exit[c] = "ok" => cli[c] = "exit" /\ (ask[c].do = "run" => status[c] = 202)
    /\ exit[c] = "gone" => Old(began[c])

\* A row belongs to a batch that made it, not before the batch came and not
\* after today; retention takes it only when the batch is old; success is won.
RowOK(c, a) ==
    LET r == row[<<c, a>>] IN
    /\ r # None => /\ a \in made[c] /\ began[c] <= r.born /\ r.born <= day
                   /\ r.state = "success" => <<c, a>> \in won
    /\ a \in made[c] => r # None \/ Old(began[c])

\* A log row as young as the day d, or lost.
TracedSince(plane, about, ok, refs, d) ==
    \/ \E e \in oplog : /\ e.plane = plane /\ e.about = about /\ e.ok = ok
                        /\ refs \subseteq e.refs /\ d <= e.ts
    \/ <<plane, about, ok>> \in unlogged

\* A refusal by a plugin is in the log until the request is old.
DenialKept(c) ==
    \A a \in denied[c] :
        TracedSince("plugin", <<c, a>>, FALSE, {<<c, a>>}, began[c]) \/ Old(began[c])

\* No request comes from the future.
Since(c) == began[c] <= day

\* The rows and the clock.
RowsOK ==
    /\ \A c \in Calls : Since(c)
    /\ \A c \in Calls, a \in Agents : RowOK(c, a)

\* The groups on the command line, and those still to be looked up.
Named(c) == {ask[c].groups[i] : i \in DOMAIN ask[c].groups}
LeftOver(c) == {left[c][i] : i \in DOMAIN left[c]}

\* A request that is being resolved knows the memberships since it came; its
\* targets were members, and the members that stayed are targets or in a group
\* that is still to be looked up.
Watching(c) ==
    srv[c] \in {"auth", "work"} => Membership \subseteq ever[c] /\ stable[c] \subseteq Membership

Picked(c) ==
    /\ \A a \in targets[c] \ ask[c].agents : \E g \in Named(c) : <<g, a>> \in ever[c]
    /\ \A g \in Named(c), a \in Agents :
        <<g, a>> \in stable[c] => a \in targets[c] \/ g \in LeftOver(c)
    /\ LeftOver(c) \subseteq Named(c)

Resolving(c) ==
    /\ Watching(c)
    /\ ask[c].do = "run" /\ srv[c] \in {"work", "create", "audit", "done"} /\ status[c] # 401 =>
        Picked(c)

\* What a request, an edit of a group and a result have left, as young as that.
TaskTraced(c, a) ==
    LET r == row[<<c, a>>] IN
    r # None /\ srv[c] = "done" =>
        \/ TracedSince("operator", c, TRUE, {<<c, a>>}, r.born)
        \/ status[c] = 500 /\ TracedSince("operator", c, FALSE, {}, r.born)
        \/ Cardinality(made[c] \cup denied[c]) > RefCap /\ TracedSince("operator", c, TRUE, {}, r.born)
        \/ Old(r.born)

GroupTraced(g) ==
    LET c == groups[g].by IN
    c \in Calls =>
        /\ srv[c] \in {"audit", "done", "lost"} /\ status[c] = 202
        /\ ask[c].do \in {"create"} \cup Edits /\ ask[c].group = g /\ groups[g].written <= day
        /\ srv[c] = "done" =>
            TracedSince("operator", c, TRUE, {g}, groups[g].written) \/ Old(groups[g].written)

VerdictTraced(t) ==
    verdict[t] # None =>
        /\ verdict[t].done <= day
        /\ verdict[t].by = "agent" =>
            \/ <<t, TRUE>> \in loose
            \/ TracedSince("agent", t, TRUE, {t}, verdict[t].done)
            \/ Old(verdict[t].done)

Traces ==
    /\ \A c \in Calls, a \in Agents : TaskTraced(c, a)
    /\ \A g \in GroupIds : GroupTraced(g)
    /\ \A t \in TaskIds : VerdictTraced(t)

-----------------------------------------------------------------------------
(***************************************************************************)
(* Sets.                                                                   *)
(***************************************************************************)

\* The assumptions, one by one.
LEMMA Bounds ==
    /\ Agents \subseteq Nat /\ IsFiniteSet(Agents) /\ Blank \notin Calls
    /\ MaxDay \in Nat /\ MaxFaults \in Nat /\ RefCap \in Nat \ {0}
BY ConsoleAssumption, Zenon DEF Blank

LEMMA Beginnings ==
    /\ Groups0 \in [GroupIds -> [name : STRING, members : SUBSET Agents, by : {Blank},
                                  written : 0..MaxDay]]
    /\ \A e \in Episodes : /\ e.days \in 0..MaxDay /\ e.faults \in 0..MaxFaults
                            /\ \A c \in Calls : AskOK(e.ask[c])
BY ConsoleAssumption, Zenon DEF Blank

LEMMA NoGroupTyped == NoGroup \in GroupRows
<1>1. 0 \in 0..MaxDay
  BY Bounds
<1>2. NoGroup = [name |-> Blank, members |-> {}, by |-> Blank, written |-> 0]
  BY Zenon DEF NoGroup, Blank
<1> QED BY <1>1, <1>2 DEF GroupRows

\* The order of the naturals as a relation.
NatLess == {p \in Nat \X Nat : p[1] < p[2]}

\* A batch takes the first of the targets that are left.
LEMMA MinIsIn ==
    ASSUME NEW S \in SUBSET Agents, S # {}
    PROVE  Min(S) \in S
<1>1. IsWellFoundedOn(NatLess, Nat)
  <2>1. OpToRel(<, Nat) = NatLess
    BY Zenon DEF OpToRel, NatLess
  <2> QED BY <2>1, NatLessThanWellFounded, Zenon
<1>2. S \subseteq Nat
  BY Bounds
<1>3. PICK x \in S : \A y \in S : ~(<<y, x>> \in NatLess)
  BY <1>1, <1>2, WFMin
<1>4. ASSUME NEW y \in S PROVE x <= y
  <2>1. <<y, x>> \notin NatLess /\ x \in Nat /\ y \in Nat
    BY <1>2, <1>3
  <2> QED BY <2>1 DEF NatLess
<1> QED BY <1>4 DEF Min

\* Who is in which group, agents only.
LEMMA MembersAreAgents ==
    ASSUME NEW f \in [GroupIds -> GroupRows]
    PROVE  {ga \in GroupIds \X UNION {f[g].members : g \in GroupIds} :
                ga[2] \in f[ga[1]].members}
            = {ga \in GroupIds \X Agents : ga[2] \in f[ga[1]].members}
<1>1. \A g \in GroupIds : f[g].members \subseteq Agents
  BY DEF GroupRows
<1>2. \A g \in GroupIds : f[g].members \subseteq UNION {f[h].members : h \in GroupIds}
  BY Zenon
<1>3. ASSUME NEW ga \in GroupIds \X Agents, ga[2] \in f[ga[1]].members
      PROVE  ga \in GroupIds \X UNION {f[h].members : h \in GroupIds}
  BY <1>2, <1>3
<1>4. ASSUME NEW ga \in GroupIds \X UNION {f[h].members : h \in GroupIds}, ga[2] \in f[ga[1]].members
      PROVE  ga \in GroupIds \X Agents
  BY <1>1, <1>4
<1> QED BY <1>3, <1>4

-----------------------------------------------------------------------------
(***************************************************************************)
(* Types.                                                                  *)
(***************************************************************************)

LEMMA InitTypes == Init => Types
<1> SUFFICES ASSUME Init PROVE Types
  OBVIOUS
<1>1. PICK e \in Episodes : AuditInit(e.days, e.faults) /\ ask = e.ask
  BY DEF Init
<1>2. e.days \in 0..MaxDay /\ e.faults \in 0..MaxFaults /\ \A c \in Calls : AskOK(e.ask[c])
  BY Beginnings, Zenon
<1>3. Typed
  <2>1. day \in 0..MaxDay /\ faults \in 0..MaxFaults
    BY <1>1, <1>2, Bounds DEF AuditInit
  <2>2. groups \in [GroupIds -> GroupRows]
    BY Beginnings DEF Init, GroupRows
  <2>3. Asked
    BY <1>1, <1>2 DEF Asked
  <2> QED BY <1>1, <2>1, <2>2, <2>3 DEF Typed, AuditInit
<1>4. ClientTyped
  BY NoGroupTyped DEF Init, ClientTyped
<1>5. ServerTyped
  <2>1. <<>> \in Seq(GroupIds) /\ 0 \in 0..MaxDay
    BY Bounds
  <2> QED BY <2>1 DEF Init, ServerTyped, Statuses
<1> QED BY <1>3, <1>4, <1>5 DEF Types

\* appendOpLog writes the row, or the row is lost; nothing else goes.
LEMMA AppendTyped ==
    ASSUME Types, NEW e \in Entries, AppendOpLog(e)
    PROVE  /\ oplog' \subseteq Entries /\ faults' \in 0..MaxFaults
           /\ unlogged' \subseteq {"operator", "plugin", "agent"} \X (Calls \cup TaskIds) \X BOOLEAN
           /\ oplog \subseteq oplog' /\ unlogged \subseteq unlogged'
           /\ e \in oplog' \/ <<e.plane, e.about, e.ok>> \in unlogged'
<1>1. faults \in 0..MaxFaults /\ MaxFaults \in Nat
  BY Bounds DEF Types, Typed
<1>2. CASE oplog' = oplog \cup {e} /\ UNCHANGED <<unlogged, faults>>
  BY <1>1, <1>2 DEF Types, Typed
<1>3. CASE Fault /\ unlogged' = unlogged \cup {<<e.plane, e.about, e.ok>>} /\ UNCHANGED oplog
  <2>1. faults' \in 0..MaxFaults
    BY <1>1, <1>3 DEF Fault
  <2>2. e.plane \in {"operator", "plugin", "agent"} /\ e.about \in Calls \cup TaskIds
        /\ e.ok \in BOOLEAN
    BY DEF Entries
  <2> QED BY <1>3, <2>1, <2>2 DEF Types, Typed
<1> QED BY <1>2, <1>3 DEF AppendOpLog

LEMMA FaultTyped ==
    ASSUME Types, Fault
    PROVE  faults' \in 0..MaxFaults
BY Bounds DEF Types, Typed, Fault

\* The parts of the types that a step leaves alone.
LEMMA TypesKept ==
    /\ Asked /\ UNCHANGED ask => Asked'
    /\ Typed /\ UNCHANGED <<auditVars, groups, ask>> => Typed'
    /\ ClientTyped /\ UNCHANGED cliVars => ClientTyped'
    /\ ServerTyped /\ UNCHANGED <<srvVars, pastVars>> => ServerTyped'
<1>0. Asked /\ UNCHANGED ask => Asked'
  BY DEF Asked, AskOK
<1>1. Typed /\ UNCHANGED <<auditVars, groups, ask>> => Typed'
  BY <1>0 DEF Typed, auditVars
<1>2. ClientTyped /\ UNCHANGED cliVars => ClientTyped'
  BY DEF ClientTyped, cliVars
<1>3. ServerTyped /\ UNCHANGED <<srvVars, pastVars>> => ServerTyped'
  BY DEF ServerTyped, srvVars, pastVars
<1> QED BY <1>0, <1>1, <1>2, <1>3

LEMMA ClientTypes ==
    ASSUME Types, NEW c \in Calls, Progress(c), Client(c)
    PROVE  Types'
<1>1. CASE RunRefused(c)
  BY <1>1, TypesKept DEF Types, RunRefused, Exits, ClientTyped, cliVars, Codes
<1>2. ASSUME Post(c) PROVE Types'
  <2>1. Membership \in SUBSET (GroupIds \X Agents)
    <3>1. groups \in [GroupIds -> GroupRows]
      BY DEF Types, Typed
    <3> QED BY <3>1, MembersAreAgents DEF Membership
  <2>2. Typed'
    BY <1>2, TypesKept DEF Types, Post
  <2>3. ClientTyped'
    BY <1>2 DEF Types, Post, ClientTyped
  <2>4. ServerTyped'
    BY <1>2, <2>1 DEF Types, Typed, Post, ServerTyped, InHand
  <2> QED BY <2>2, <2>3, <2>4 DEF Types
<1>3. CASE GetGroup(c)
  <2>0. ask[c].group \in GroupIds
    BY <1>3 DEF GetGroup, Edits, Types, Typed, Asked, AskOK
  <2>1. ServerTyped'
    BY <1>3, TypesKept DEF GetGroup, Types
  <2>2. CASE ~Authorized(c)
    <3>1. Exits(c, "auth") /\ AppendOpLog(OpLogEntry("operator", c, FALSE, {})) /\ UNCHANGED seen
      BY <1>3, <2>2 DEF GetGroup
    <3>0. /\ oplog' \subseteq Entries /\ faults' \in 0..MaxFaults
          /\ unlogged' \subseteq {"operator", "plugin", "agent"} \X (Calls \cup TaskIds) \X BOOLEAN
      <4>1. OpLogEntry("operator", c, FALSE, {}) \in Entries
        BY DEF OpLogEntry, Entries, Types, Typed
      <4> QED BY <3>1, <4>1, AppendTyped
    <3>2. Typed'
      BY <1>3, <3>0, TypesKept DEF GetGroup, Types, Typed
    <3>3. ClientTyped'
      BY <1>3, <3>1 DEF GetGroup, Types, ClientTyped, Exits, Codes
    <3> QED BY <2>1, <3>2, <3>3 DEF Types
  <2>3. CASE Authorized(c)
    <3>1. UNCHANGED <<oplog, unlogged, faults>>
      BY <1>3, <2>3 DEF GetGroup
    <3>2. Typed'
      BY <1>3, <3>1, TypesKept DEF GetGroup, Types, auditVars
    <3>3. groups[ask[c].group] \in GroupRows
      BY <2>0 DEF Types, Typed
    <3>4. ClientTyped'
      BY <1>3, <2>3, <3>3 DEF GetGroup, Types, ClientTyped, Exits, Codes, GroupRows
    <3> QED BY <2>1, <3>2, <3>4 DEF Types
  <2> QED BY <2>2, <2>3
<1>4. CASE GetMembers(c)
  <2>1. ask[c].group \in GroupIds
    BY <1>4 DEF GetMembers, Progress, Edits, Types, Typed, Asked, AskOK
  <2>2. groups[ask[c].group] \in GroupRows
    BY <2>1 DEF Types, Typed
  <2>3. ClientTyped'
    BY <1>4, <2>2 DEF GetMembers, Types, ClientTyped, GroupRows
  <2> QED BY <1>4, <2>3, TypesKept DEF GetMembers, Types
<1>5. CASE Receive(c)
  <2>1. made[c] \in SUBSET Agents
    BY DEF Types, ServerTyped
  <2>2. ClientTyped'
    <3>1. CASE cli' = [cli EXCEPT ![c] = "poll"] /\ await' = [await EXCEPT ![c] = made[c]]
                /\ allOK' = [allOK EXCEPT ![c] = (denied[c] = {})] /\ UNCHANGED <<exit, seen>>
      <4>1. allOK' \in [Calls -> BOOLEAN]
        BY <3>1 DEF Types, ClientTyped
      <4> QED BY <2>1, <3>1, <4>1 DEF Types, ClientTyped
    <3>2. CASE (\E code \in Codes : Exits(c, code)) /\ UNCHANGED <<await, allOK, seen>>
      BY <3>2 DEF Types, ClientTyped, Exits
    <3> QED BY <1>5, <3>1, <3>2 DEF Receive, Accepted, Codes
  <2> QED BY <1>5, <2>2, TypesKept DEF Receive, Types
<1>6. CASE GiveUp(c)
  <2>1. faults' \in 0..MaxFaults
    BY <1>6, FaultTyped DEF GiveUp, Types, Typed
  <2>2. Typed'
    BY <1>6, <2>1, TypesKept DEF GiveUp, Types, Typed
  <2>3. ClientTyped'
    BY <1>6 DEF GiveUp, Exits, Types, ClientTyped, Codes
  <2> QED BY <1>6, <2>2, <2>3, TypesKept DEF GiveUp, Types
<1>7. CASE Wait(c)
  <2> DEFINE t == <<c, Min(await[c])>>
  <2>1. ASSUME await[c] = {} PROVE ClientTyped'
    BY <1>7, <2>1 DEF Wait, Exits, Types, ClientTyped, Codes
  <2>2. ASSUME Polled(c, t) PROVE ClientTyped'
    BY <1>7, <2>2 DEF Wait, Polled, Types, ClientTyped
  <2>3. ASSUME PollFails(c, t) PROVE ClientTyped'
    BY <1>7, <2>3 DEF Wait, PollFails, Exits, Types, ClientTyped, Codes
  <2>4. ClientTyped'
    BY <1>7, <2>1, <2>2, <2>3 DEF Wait
  <2> QED BY <1>7, <2>4, TypesKept DEF Wait, Types
<1> QED BY <1>1, <1>2, <1>3, <1>4, <1>5, <1>6, <1>7 DEF Client, PostAtOnce, PostEdit

\* The rows that a request's handler writes to the log.
LEMMA RefusalTyped ==
    ASSUME Types, NEW c \in Calls
    PROVE  OpLogEntry("operator", c, FALSE, {}) \in Entries
BY DEF OpLogEntry, Entries, Types, Typed

LEMMA DecisionTyped ==
    ASSUME Types, NEW c \in Calls, NEW a \in Agents, NEW ok \in BOOLEAN
    PROVE  OpLogEntry("plugin", <<c, a>>, ok, {<<c, a>>}) \in Entries
BY DEF OpLogEntry, Entries, Types, Typed, TaskIds

LEMMA RefsTyped ==
    ASSUME Types, NEW c \in Calls, Progress(c), srv[c] = "audit", NEW R \in Refs(c)
    PROVE  /\ R \subseteq Ids(c) /\ R \subseteq TaskIds \cup GroupIds
           /\ OpLogEntry("operator", c, status[c] = 202, R) \in Entries
<1>1. Ids(c) \subseteq TaskIds \cup GroupIds
  <2>0. AskOK(ask[c]) /\ ask[c].do # "nothing" /\ made[c] \cup denied[c] \subseteq Agents
    BY DEF Types, Typed, Asked, ServerTyped, Progress
  <2>1. CASE status[c] # 202
    BY <2>1 DEF Ids
  <2>2. CASE status[c] = 202 /\ ask[c].do = "run"
    BY <2>0, <2>2 DEF Ids, TaskIds
  <2>3. CASE status[c] = 202 /\ ask[c].do = "cancel"
    BY <2>0, <2>3 DEF Ids, AskOK
  <2>4. CASE status[c] = 202 /\ ask[c].do \notin {"run", "cancel"}
    <3>1. Ids(c) = {ask[c].group}
      BY <2>4 DEF Ids
    <3> QED BY <2>0, <2>4, <3>1 DEF AskOK
  <2> QED BY <2>1, <2>2, <2>3, <2>4
<1>2. R \subseteq Ids(c)
  BY DEF Refs
<1>3. (status[c] = 202) \in BOOLEAN
  OBVIOUS
<1> QED BY <1>1, <1>2, <1>3 DEF OpLogEntry, Entries, Types, Typed

LEMMA AnswerTyped ==
    ASSUME Types, NEW c \in Calls, NEW code \in {202, 400, 401, 404, 500},
           status' = [status EXCEPT ![c] = code],
           NEW s \in {"done", "audit"}, srv' = [srv EXCEPT ![c] = s]
    PROVE  /\ srv' \in [Calls -> {"none", "done", "lost"} \cup InHand]
           /\ status' \in [Calls -> Statuses]
<1>1. s \in {"none", "done", "lost"} \cup InHand
  BY DEF InHand
<1>2. code \in Statuses
  BY DEF Statuses
<1> QED BY <1>1, <1>2 DEF Types, ServerTyped

LEMMA HandlerTypes ==
    ASSUME Types, NEW c \in Calls, Progress(c), Handler(c)
    PROVE  Types'
<1>0. AskOK(ask[c])
  BY DEF Types, Typed, Asked
<1>1. CASE RequireOperatorAuth(c)
  <2>1. ClientTyped'
    BY <1>1, TypesKept DEF RequireOperatorAuth, Types
  <2>2. CASE Authorized(c)
    <3>1. Typed'
      BY <1>1, <2>2, TypesKept DEF RequireOperatorAuth, Types, auditVars
    <3>2. /\ (IF ask[c].do = "run" THEN ask[c].groups ELSE <<>>) \in Seq(GroupIds)
          /\ (IF ask[c].do = "run" THEN ask[c].agents ELSE {}) \in SUBSET Agents
      BY <1>0 DEF AskOK
    <3>3. PICK l \in Seq(GroupIds), T \in SUBSET Agents :
            left' = [left EXCEPT ![c] = l] /\ targets' = [targets EXCEPT ![c] = T]
      BY <1>1, <2>2, <3>2 DEF RequireOperatorAuth
    <3>4. srv' = [srv EXCEPT ![c] = "work"]
          /\ UNCHANGED <<status, todo, made, denied, held, began, ever, stable>>
      BY <1>1, <2>2 DEF RequireOperatorAuth, pastVars
    <3>5. ServerTyped'
      BY <3>3, <3>4 DEF Types, ServerTyped, InHand
    <3> QED BY <2>1, <3>1, <3>5 DEF Types
  <2>3. CASE ~Authorized(c)
    <3>1. AppendOpLog(OpLogEntry("operator", c, FALSE, {}))
      BY <1>1, <2>3 DEF RequireOperatorAuth
    <3>2. Typed'
      BY <1>1, <3>1, RefusalTyped, AppendTyped, TypesKept DEF RequireOperatorAuth, Types, Typed
    <3>3. ServerTyped'
      <4>1. /\ srv' \in [Calls -> {"none", "done", "lost"} \cup InHand] /\ status' \in [Calls -> Statuses]
        BY <1>1, <2>3, AnswerTyped DEF RequireOperatorAuth
      <4> QED BY <1>1, <2>3, <4>1 DEF RequireOperatorAuth, Types, ServerTyped, pastVars
    <3> QED BY <2>1, <3>2, <3>3 DEF Types
  <2> QED BY <2>2, <2>3
<1>2. CASE PostGroup(c)
  <2> DEFINE g == ask[c].group
             new == ask[c].do = "create"
             name == IF new THEN ask[c].name ELSE seen[c].name
             members == IF new THEN ask[c].members ELSE EditedMembers(c)
             gr == [name |-> name, members |-> members, by |-> c, written |-> day]
  <2>1. g \in GroupIds
    BY <1>0, <1>2 DEF PostGroup, Edits, AskOK
  <2>2. gr \in GroupRows
    <3>1. seen[c] \in GroupRows
      BY DEF Types, ClientTyped
    <3>2. name \in STRING \cup {Blank}
      BY <1>0, <3>1 DEF AskOK, GroupRows
    <3>3. members \subseteq Agents
      BY <1>0, <1>2, <3>1 DEF PostGroup, AskOK, GroupRows, EditedMembers, Edits
    <3>4. day \in 0..MaxDay
      BY DEF Types, Typed
    <3> HIDE DEF name, members
    <3> QED BY <3>2, <3>3, <3>4 DEF GroupRows
  <2>3. groups' = groups \/ groups' = [groups EXCEPT ![g] = gr]
    BY <1>2 DEF PostGroup, CreateOrUpdateGroup
  <2>4. groups' \in [GroupIds -> GroupRows]
    <3> HIDE DEF g, gr
    <3> QED BY <2>1, <2>2, <2>3 DEF Types, Typed
  <2>5. faults' \in 0..MaxFaults
    BY <1>2, FaultTyped DEF PostGroup, Types, Typed
  <2>6. Typed'
    BY <1>2, <2>4, <2>5, TypesKept DEF PostGroup, Types, Typed
  <2>7. ClientTyped'
    BY <1>2, TypesKept DEF PostGroup, Types
  <2>8. Membership' \in SUBSET (GroupIds \X Agents)
    BY <2>4, MembersAreAgents DEF Membership
  <2>9. /\ ever' \in [Calls -> SUBSET (GroupIds \X Agents)]
        /\ stable' \in [Calls -> SUBSET (GroupIds \X Agents)]
    BY <1>2, <2>8 DEF PostGroup, Remember, Types, ServerTyped
  <2>10. PICK code \in {202, 500} : Answers(c, code)
    BY <1>2 DEF PostGroup
  <2>11. ServerTyped'
    BY <1>2, <2>9, <2>10 DEF PostGroup, Remember, Answers, Types, ServerTyped, InHand, Statuses
  <2> QED BY <2>6, <2>7, <2>11 DEF Types
<1>3. CASE ResolveGroup(c)
  <2>1. left[c] \in Seq(GroupIds) /\ left[c] # <<>>
    BY <1>3 DEF ResolveGroup, Types, ServerTyped
  <2>2. Head(left[c]) \in GroupIds /\ Tail(left[c]) \in Seq(GroupIds)
    BY <2>1
  <2>3. groups[Head(left[c])].members \in SUBSET Agents
    BY <2>2 DEF Types, Typed, GroupRows
  <2>4. ServerTyped'
    BY <1>3, <2>2, <2>3 DEF ResolveGroup, Types, ServerTyped, pastVars
  <2> QED BY <1>3, <2>4, TypesKept DEF ResolveGroup, Types
<1>4. CASE ResolveFails(c)
  <2>1. Typed'
    BY <1>4, FaultTyped, TypesKept DEF ResolveFails, Types, Typed
  <2>2. ServerTyped'
    BY <1>4 DEF ResolveFails, Answers, Types, ServerTyped, pastVars, InHand, Statuses
  <2> QED BY <1>4, <2>1, <2>2, TypesKept DEF ResolveFails, Types
<1>5. CASE Resolved(c)
  <2>1. ASSUME targets[c] = {} PROVE ServerTyped'
    <3>1. /\ srv' \in [Calls -> {"none", "done", "lost"} \cup InHand] /\ status' \in [Calls -> Statuses]
      BY <1>5, <2>1, AnswerTyped DEF Resolved, Answers
    <3> QED BY <1>5, <2>1, <3>1 DEF Resolved, Types, ServerTyped, pastVars
  <2>2. ASSUME targets[c] # {} PROVE ServerTyped'
    BY <1>5, <2>2 DEF Resolved, Types, ServerTyped, pastVars, InHand
  <2>3. ServerTyped'
    BY <2>1, <2>2
  <2> QED BY <1>5, <2>3, TypesKept DEF Resolved, Types
<1>6. CASE CreateTask(c)
  <2> DEFINE a == Min(todo[c])
  <2>1. a \in todo[c] /\ a \in Agents
    BY <1>6, MinIsIn DEF CreateTask, Progress, Types, ServerTyped
  <2> HIDE DEF a
  <2>2. Deny(c, a) \/ Queue(c, a) \/ QueueFails(c, a)
    BY <1>6 DEF CreateTask, a
  <2>3. ClientTyped'
    BY <1>6, TypesKept DEF CreateTask, Types
  <2>4. /\ oplog' \subseteq Entries /\ faults' \in 0..MaxFaults
        /\ unlogged' \subseteq {"operator", "plugin", "agent"} \X (Calls \cup TaskIds) \X BOOLEAN
    <3>1. CASE Deny(c, a)
      BY <2>1, <3>1, DecisionTyped, AppendTyped DEF Deny
    <3>2. CASE Queue(c, a)
      <4>1. FailOpenEntry(c, a) \in Entries
        BY <2>1, DecisionTyped DEF FailOpenEntry
      <4> QED BY <3>2, <4>1, FaultTyped DEF Queue, FailsOpen, Types, Typed
    <3>3. CASE QueueFails(c, a)
      <4>1. FailOpenEntry(c, a) \in Entries
        BY <2>1, DecisionTyped DEF FailOpenEntry
      <4> QED BY <3>3, <4>1, FaultTyped DEF QueueFails, Types, Typed
    <3> QED BY <2>2, <3>1, <3>2, <3>3
  <2>5. row' \in [TaskIds -> Rows \cup {None}]
    <3>1. [state |-> "queued", born |-> day] \in Rows
      BY DEF Types, Typed, Rows, Open
    <3>2. row' = row \/ row' = [row EXCEPT ![<<c, a>>] = [state |-> "queued", born |-> day]]
      BY <2>2 DEF Deny, Queue, QueueFails
    <3> QED BY <3>1, <3>2 DEF Types, Typed
  <2>6. Typed'
    BY <1>6, <2>4, <2>5, TypesKept DEF CreateTask, Types, Typed
  <2>7. \/ UNCHANGED <<srv, status>>
        \/ \E code \in {202, 500} : Answers(c, code)
    BY <2>2 DEF Deny, Queue, QueueFails, NextTarget
  <2>8. srv' \in [Calls -> {"none", "done", "lost"} \cup InHand] /\ status' \in [Calls -> Statuses]
    BY <2>7, AnswerTyped DEF Answers, Types, ServerTyped
  <2>9. /\ todo' \in [Calls -> SUBSET Agents] /\ made' \in [Calls -> SUBSET Agents]
        /\ denied' \in [Calls -> SUBSET Agents]
    <3>1. \/ todo' = todo \/ todo' = [todo EXCEPT ![c] = @ \ {a}]
      BY <2>2 DEF Deny, Queue, QueueFails, NextTarget
    <3>2. \/ made' = made \/ made' = [made EXCEPT ![c] = @ \cup {a}]
      BY <2>2 DEF Deny, Queue, QueueFails
    <3>3. \/ denied' = denied \/ denied' = [denied EXCEPT ![c] = @ \cup {a}]
      BY <2>2 DEF Deny, Queue, QueueFails
    <3>4. todo' \in [Calls -> SUBSET Agents]
      BY <3>1 DEF Types, ServerTyped
    <3>5. made' \in [Calls -> SUBSET Agents]
      <4>1. made[c] \cup {a} \in SUBSET Agents
        BY <2>1 DEF Types, ServerTyped
      <4> QED BY <3>2, <4>1 DEF Types, ServerTyped
    <3>6. denied' \in [Calls -> SUBSET Agents]
      <4>1. denied[c] \cup {a} \in SUBSET Agents
        BY <2>1 DEF Types, ServerTyped
      <4> QED BY <3>3, <4>1 DEF Types, ServerTyped
    <3> QED BY <3>4, <3>5, <3>6
  <2>10. ServerTyped'
    BY <1>6, <2>8, <2>9 DEF CreateTask, Types, ServerTyped, pastVars
  <2> QED BY <2>3, <2>6, <2>10 DEF Types
<1>7. CASE CancelRead(c)
  <2>1. ask[c].task \in TaskIds
    BY <1>0, <1>7 DEF CancelRead, AskOK
  <2>2. row[ask[c].task] # None => row[ask[c].task].state \in Open \cup Terminal
    BY <2>1 DEF Types, Typed, Rows
  <2>3. ServerTyped'
    <3>1. CASE /\ held' = [held EXCEPT ![c] = row[ask[c].task].state] /\ UNCHANGED status
               /\ row[ask[c].task].state \in Open /\ srv' = [srv EXCEPT ![c] = "write"]
      BY <1>7, <3>1 DEF CancelRead, Types, ServerTyped, pastVars, InHand
    <3>2. CASE UNCHANGED held /\ \E code \in {202, 404} : Answers(c, code)
      <4>1. /\ srv' \in [Calls -> {"none", "done", "lost"} \cup InHand] /\ status' \in [Calls -> Statuses]
        <5>1. PICK code \in {202, 404} : Answers(c, code)
          BY <3>2
        <5>2. "audit" \in {"none", "done", "lost"} \cup InHand /\ code \in Statuses
          BY DEF InHand, Statuses
        <5> QED BY <5>1, <5>2 DEF Answers, Types, ServerTyped
      <4> QED BY <1>7, <3>2, <4>1 DEF CancelRead, Types, ServerTyped, pastVars
    <3> QED BY <1>7, <2>2, <3>1, <3>2 DEF CancelRead
  <2> QED BY <1>7, <2>3, TypesKept DEF CancelRead, Types
<1>8. CASE CancelWrite(c)
  <2> DEFINE t == ask[c].task
  <2>1. t \in TaskIds
    BY <1>0, <1>8 DEF CancelWrite, AskOK, Progress
  <2> HIDE DEF t
  <2>2. row' \in [TaskIds -> Rows \cup {None}]
    <3>1. PICK s \in {"canceled", "cancel_requested"} :
            row' = IF row[t] = None THEN row ELSE [row EXCEPT ![t].state = s]
      BY <1>8 DEF CancelWrite, t
    <3>2. row[t] # None => row[t] \in Rows
      BY <2>1 DEF Types, Typed
    <3>3. row[t] # None => [row[t] EXCEPT !.state = s] \in Rows
      BY <3>2 DEF Rows, Open, Terminal
    <3> QED BY <3>1, <3>3 DEF Types, Typed
  <2>3. verdict' \in [TaskIds -> Results \cup {None}]
    <3>1. \/ verdict' = verdict
          \/ verdict' = [verdict EXCEPT ![t] =
                          [status |-> "canceled", by |-> "operator", done |-> day]]
      BY <1>8 DEF CancelWrite, t
    <3>2. [status |-> "canceled", by |-> "operator", done |-> day] \in Results
      BY DEF Types, Typed, Results, Terminal
    <3> QED BY <3>1, <3>2 DEF Types, Typed
  <2>4. Typed'
    BY <1>8, <2>2, <2>3, TypesKept DEF CancelWrite, Types, Typed
  <2>5. ServerTyped'
    BY <1>8 DEF CancelWrite, Answers, Types, ServerTyped, pastVars, InHand, Statuses
  <2> QED BY <1>8, <2>4, <2>5, TypesKept DEF CancelWrite, Types
<1>9. CASE CancelFails(c)
  <2>1. Typed'
    BY <1>9, FaultTyped, TypesKept DEF CancelFails, Types, Typed
  <2>2. ServerTyped'
    BY <1>9 DEF CancelFails, Answers, Types, ServerTyped, pastVars, InHand, Statuses
  <2> QED BY <1>9, <2>1, <2>2, TypesKept DEF CancelFails, Types
<1>10. CASE OplogMiddleware(c)
  <2>1. PICK R \in Refs(c) : AppendOpLog(OpLogEntry("operator", c, status[c] = 202, R))
    BY <1>10 DEF OplogMiddleware
  <2>2. OpLogEntry("operator", c, status[c] = 202, R) \in Entries
    BY <1>10, RefsTyped DEF OplogMiddleware
  <2>3. Typed'
    BY <1>10, <2>1, <2>2, AppendTyped, TypesKept DEF OplogMiddleware, Types, Typed
  <2>4. ServerTyped'
    BY <1>10 DEF OplogMiddleware, Types, ServerTyped, pastVars
  <2> QED BY <1>10, <2>3, <2>4, TypesKept DEF OplogMiddleware, Types
<1> QED BY <1>1, <1>2, <1>3, <1>4, <1>5, <1>6, <1>7, <1>8, <1>9, <1>10 DEF Handler

LEMMA KeepsTypes ==
    ASSUME Types, Keeps, UNCHANGED <<groups, ask, cliVars, srvVars, pastVars>>
    PROVE  Types'
<1>0. ClientTyped' /\ ServerTyped' /\ Asked'
  BY TypesKept DEF Types, Typed
<1>1. SUFFICES Typed'
  BY <1>0 DEF Types
<1>2. ASSUME NEW t \in TaskIds, row[t] # None, NEW s \in Open \cup Terminal,
             row' = [row EXCEPT ![t].state = s]
      PROVE  row' \in [TaskIds -> Rows \cup {None}]
  <2>1. [row[t] EXCEPT !.state = s] \in Rows
    BY <1>2 DEF Types, Typed, Rows
  <2> QED BY <1>2, <2>1 DEF Types, Typed
<1>3. ASSUME NEW t \in TaskIds, NEW s \in Terminal, NEW by \in {"agent", "operator", "reaper"},
             verdict' = [verdict EXCEPT ![t] = [status |-> s, by |-> by, done |-> day]]
      PROVE  verdict' \in [TaskIds -> Results \cup {None}]
  BY <1>3 DEF Types, Typed, Results
<1>4. ASSUME NEW t \in TaskIds, Dispatched(t) PROVE Typed'
  BY <1>0, <1>2, <1>4 DEF Dispatched, Types, Typed, Open
<1>5. ASSUME NEW t \in TaskIds, Reaped(t) PROVE Typed'
  <2>1. PICK s \in {"timeout", "canceled"} :
          /\ row' = [row EXCEPT ![t].state = s]
          /\ verdict' = [verdict EXCEPT ![t] = [status |-> s, by |-> "reaper", done |-> day]]
    BY <1>5 DEF Reaped
  <2>2. row' \in [TaskIds -> Rows \cup {None}]
    BY <1>2, <1>5, <2>1 DEF Reaped, Terminal
  <2>3. verdict' \in [TaskIds -> Results \cup {None}]
    BY <1>3, <2>1 DEF Terminal
  <2> QED BY <1>0, <1>5, <2>2, <2>3 DEF Reaped, Types, Typed
<1>6. ASSUME NEW t \in TaskIds, Discarded(t) PROVE Typed'
  <2>1. faults' \in 0..MaxFaults
    BY <1>6, FaultTyped DEF Discarded
  <2>2. <<t, FALSE>> \in TaskIds \X BOOLEAN
    OBVIOUS
  <2> QED BY <1>0, <1>6, <2>1, <2>2 DEF Discarded, Types, Typed
<1>7. ASSUME NEW t \in TaskIds, NEW applied \in BOOLEAN, LogAgentEvent(t, applied) PROVE Typed'
  <2>1. OpLogEntry("agent", t, applied, {t}) \in Entries
    BY DEF OpLogEntry, Entries, Types, Typed
  <2>2. AppendOpLog(OpLogEntry("agent", t, applied, {t}))
    BY <1>7 DEF LogAgentEvent
  <2>3. loose' \subseteq TaskIds \X BOOLEAN
    BY <1>7 DEF LogAgentEvent, Types, Typed
  <2> QED BY <1>0, <1>7, <2>1, <2>2, <2>3, AppendTyped DEF LogAgentEvent, Types, Typed
<1>8. ASSUME NEW t \in TaskIds, NEW s \in {"success", "failed"}, SaveResult(t, s) PROVE Typed'
  <2>1. row' \in [TaskIds -> Rows \cup {None}]
    BY <1>2, <1>8 DEF SaveResult, Terminal
  <2>2. verdict' \in [TaskIds -> Results \cup {None}]
    BY <1>3, <1>8 DEF SaveResult, Terminal
  <2>3. loose' \subseteq TaskIds \X BOOLEAN /\ won' \subseteq TaskIds
    <3>1. <<t, TRUE>> \in TaskIds \X BOOLEAN
      OBVIOUS
    <3> QED BY <1>8, <3>1 DEF SaveResult, Types, Typed
  <2> QED BY <1>0, <1>8, <2>1, <2>2, <2>3 DEF SaveResult, Types, Typed
<1>9. CASE PruneAudits
  <2>1. row' \in [TaskIds -> Rows \cup {None}]
    BY <1>9 DEF PruneAudits, Types, Typed
  <2>2. verdict' \in [TaskIds -> Results \cup {None}]
    BY <1>9 DEF PruneAudits, Types, Typed
  <2> QED BY <1>0, <1>9, <2>1, <2>2 DEF PruneAudits, Types, Typed
<1>10. CASE PruneFails
  BY <1>0, <1>10, FaultTyped DEF PruneFails, Types, Typed
<1>11. CASE NewDay
  <2>1. day' \in 0..MaxDay
    BY <1>11, Bounds DEF NewDay, Types, Typed
  <2> QED BY <1>0, <1>11, <2>1 DEF NewDay, Types, Typed
<1> QED BY <1>4, <1>5, <1>6, <1>7, <1>8, <1>9, <1>10, <1>11 DEF Keeps

LEMMA CrashTypes ==
    ASSUME Types, Crash
    PROVE  Types'
<1>1. faults' \in 0..MaxFaults
  BY FaultTyped DEF Crash
<1>2. unlogged' \subseteq {"operator", "plugin", "agent"} \X (Calls \cup TaskIds) \X BOOLEAN
  <2> DEFINE Lost == {<<"agent", r[1], r[2]>> : r \in loose}
             Cut == UNION {{<<"operator", c, TRUE>>, <<"operator", c, FALSE>>} :
                             c \in {d \in Calls : srv[d] \in InHand}}
  <2>1. Lost \subseteq {"operator", "plugin", "agent"} \X (Calls \cup TaskIds) \X BOOLEAN
    BY DEF Types, Typed
  <2>2. Cut \subseteq {"operator", "plugin", "agent"} \X (Calls \cup TaskIds) \X BOOLEAN
    <3>1. ASSUME NEW c \in Calls, NEW ok \in BOOLEAN
          PROVE  <<"operator", c, ok>> \in
                    {"operator", "plugin", "agent"} \X (Calls \cup TaskIds) \X BOOLEAN
      OBVIOUS
    <3>2. ASSUME NEW x \in Cut PROVE \E c \in Calls, ok \in BOOLEAN : x = <<"operator", c, ok>>
      BY <3>2, Zenon
    <3> HIDE DEF Cut
    <3> QED BY <3>1, <3>2
  <2>3. unlogged' = unlogged \cup Lost \cup Cut
    BY DEF Crash
  <2> HIDE DEF Lost, Cut
  <2> QED BY <2>1, <2>2, <2>3 DEF Types, Typed
<1>3. Typed'
  BY <1>1, <1>2, TypesKept DEF Crash, Types, Typed
<1>4. ClientTyped'
  BY DEF Crash, Types, ClientTyped, Codes
<1>5. ServerTyped'
  BY DEF Crash, Types, ServerTyped, pastVars
<1> QED BY <1>3, <1>4, <1>5 DEF Types

LEMMA TypesStep ==
    Types /\ (\A c \in Calls : Progress(c)) /\ [Next]_vars => Types'
<1> SUFFICES ASSUME Types, \A c \in Calls : Progress(c), [Next]_vars PROVE Types'
  OBVIOUS
<1>1. CASE UNCHANGED vars
  BY <1>1, TypesKept DEF vars, Types
<1> QED BY <1>1, ClientTypes, HandlerTypes, KeepsTypes, CrashTypes DEF Next

-----------------------------------------------------------------------------
(***************************************************************************)
(* What a step leaves alone.                                               *)
(***************************************************************************)

\* An invocation, and its request, on which nothing is done.
Same(d) ==
    /\ cli'[d] = cli[d] /\ exit'[d] = exit[d] /\ seen'[d] = seen[d]
    /\ await'[d] = await[d] /\ allOK'[d] = allOK[d]
    /\ srv'[d] = srv[d] /\ status'[d] = status[d] /\ left'[d] = left[d]
    /\ targets'[d] = targets[d] /\ todo'[d] = todo[d]
    /\ made'[d] = made[d] /\ denied'[d] = denied[d] /\ held'[d] = held[d]
    /\ began'[d] = began[d]

LEMMA ClientFrame ==
    ASSUME Types, NEW c \in Calls, Progress(c), Client(c)
    PROVE  /\ UNCHANGED <<ask, day, pruneDue, row, verdict, loose, won, groups>>
           /\ oplog \subseteq oplog' /\ unlogged \subseteq unlogged'
           /\ \A d \in Calls \ {c} : Same(d) /\ ever'[d] = ever[d] /\ stable'[d] = stable[d]
           /\ \/ UNCHANGED <<srvVars, pastVars>>
              \/ Post(c) /\ cli[c] \in {"idle", "edit"} /\ ask[c].do # "nothing"
<1> USE DEF Types, ClientTyped, ServerTyped, Same, auditVars, cliVars, srvVars, pastVars
<1>1. CASE RunRefused(c)
  BY <1>1 DEF RunRefused, Exits
<1>2. ASSUME Post(c), cli[c] \in {"idle", "edit"}, ask[c].do # "nothing"
      PROVE  /\ UNCHANGED <<ask, day, pruneDue, row, verdict, loose, won, groups>>
             /\ oplog \subseteq oplog' /\ unlogged \subseteq unlogged'
             /\ \A d \in Calls \ {c} : Same(d) /\ ever'[d] = ever[d] /\ stable'[d] = stable[d]
  BY <1>2 DEF Post
<1>3. CASE PostAtOnce(c)
  BY <1>2, <1>3 DEF PostAtOnce
<1>4. CASE PostEdit(c)
  BY <1>2, <1>4 DEF PostEdit, Progress, Edits
<1>5. CASE GetGroup(c)
  <2>1. oplog \subseteq oplog' /\ unlogged \subseteq unlogged'
    BY <1>5 DEF GetGroup, AppendOpLog
  <2>2. \A d \in Calls \ {c} : cli'[d] = cli[d] /\ exit'[d] = exit[d] /\ seen'[d] = seen[d]
    BY <1>5 DEF GetGroup, Exits
  <2> QED BY <1>5, <2>1, <2>2 DEF GetGroup
<1>6. CASE GetMembers(c)
  BY <1>6 DEF GetMembers
<1>7. CASE Receive(c)
  BY <1>7 DEF Receive, Accepted, Exits
<1>8. CASE GiveUp(c)
  BY <1>8 DEF GiveUp, Exits
<1>9. CASE Wait(c)
  <2>1. \A d \in Calls \ {c} : /\ cli'[d] = cli[d] /\ exit'[d] = exit[d]
                               /\ await'[d] = await[d] /\ allOK'[d] = allOK[d]
    BY <1>9 DEF Wait, Polled, PollFails, Exits
  <2> QED BY <1>9, <2>1 DEF Wait
<1> QED BY <1>1, <1>3, <1>4, <1>5, <1>6, <1>7, <1>8, <1>9 DEF Client

LEMMA HandlerFrame ==
    ASSUME Types, NEW c \in Calls, Progress(c), Handler(c)
    PROVE  /\ UNCHANGED <<ask, day, pruneDue, loose, won, cliVars, began>>
           /\ oplog \subseteq oplog' /\ unlogged \subseteq unlogged'
           /\ \A d \in Calls \ {c} : Same(d)
<1> USE DEF Types, ClientTyped, ServerTyped, Same, auditVars, cliVars, srvVars, pastVars
<1>1. CASE RequireOperatorAuth(c)
  <2>1. oplog \subseteq oplog' /\ unlogged \subseteq unlogged'
    BY <1>1 DEF RequireOperatorAuth, AppendOpLog
  <2>2. \A d \in Calls \ {c} : /\ srv'[d] = srv[d] /\ left'[d] = left[d] /\ status'[d] = status[d]
                               /\ targets'[d] = targets[d]
    BY <1>1 DEF RequireOperatorAuth
  <2> QED BY <1>1, <2>1, <2>2 DEF RequireOperatorAuth
<1>2. CASE PostGroup(c)
  <2>1. \A d \in Calls \ {c} : srv'[d] = srv[d] /\ status'[d] = status[d]
    BY <1>2 DEF PostGroup, Answers
  <2> QED BY <1>2, <2>1 DEF PostGroup, Remember
<1>3. CASE ResolveGroup(c)
  BY <1>3 DEF ResolveGroup
<1>4. CASE ResolveFails(c)
  BY <1>4 DEF ResolveFails, Answers
<1>5. CASE Resolved(c)
  BY <1>5 DEF Resolved, Answers
<1>6. CASE CreateTask(c)
  <2> DEFINE a == Min(todo[c])
  <2>1. Deny(c, a) \/ Queue(c, a) \/ QueueFails(c, a)
    BY <1>6 DEF CreateTask
  <2> HIDE DEF a
  <2>2. oplog \subseteq oplog' /\ unlogged \subseteq unlogged'
    BY <2>1 DEF Deny, Queue, QueueFails, FailsOpen, AppendOpLog
  <2>3. \A d \in Calls \ {c} : srv'[d] = srv[d] /\ status'[d] = status[d] /\ todo'[d] = todo[d]
    <3>1. \/ todo' = todo \/ todo' = [todo EXCEPT ![c] = @ \ {a}]
      BY <2>1 DEF Deny, Queue, QueueFails, NextTarget
    <3>2. UNCHANGED <<srv, status>> \/ \E code \in {202, 500} : Answers(c, code)
      BY <2>1 DEF Deny, Queue, QueueFails, NextTarget
    <3> QED BY <3>1, <3>2 DEF Answers
  <2>4. \A d \in Calls \ {c} : made'[d] = made[d] /\ denied'[d] = denied[d]
    BY <2>1 DEF Deny, Queue, QueueFails
  <2> QED BY <1>6, <2>2, <2>3, <2>4 DEF CreateTask
<1>7. CASE CancelRead(c)
  BY <1>7 DEF CancelRead, Answers
<1>8. CASE CancelWrite(c)
  BY <1>8 DEF CancelWrite, Answers
<1>9. CASE CancelFails(c)
  BY <1>9 DEF CancelFails, Answers
<1>10. CASE OplogMiddleware(c)
  <2>1. oplog \subseteq oplog' /\ unlogged \subseteq unlogged'
    BY <1>10 DEF OplogMiddleware, AppendOpLog
  <2> QED BY <1>10, <2>1 DEF OplogMiddleware
<1> QED BY <1>1, <1>2, <1>3, <1>4, <1>5, <1>6, <1>7, <1>8, <1>9, <1>10 DEF Handler

LEMMA KeepsFrame ==
    ASSUME Types, Keeps, UNCHANGED <<groups, ask, cliVars, srvVars, pastVars>>
    PROVE  /\ UNCHANGED ask /\ day <= day' /\ won \subseteq won' /\ unlogged \subseteq unlogged'
           /\ \A e \in oplog : e \in oplog' \/ (Old(e.ts) /\ day' = day)
           /\ \A d \in Calls : Same(d)
<1>0. day \in Nat
  BY DEF Types, Typed
<1>1. \A d \in Calls : Same(d)
  BY DEF Same, cliVars, srvVars, pastVars
<1>2. day <= day'
  <2>1. day' = day \/ NewDay
    BY DEF Keeps, Dispatched, Reaped, Discarded, LogAgentEvent, SaveResult, PruneAudits,
       PruneFails
  <2> QED BY <1>0, <2>1 DEF NewDay
<1>3. won \subseteq won'
  BY DEF Keeps, Dispatched, Reaped, Discarded, LogAgentEvent, SaveResult, PruneAudits,
     PruneFails, NewDay
<1>4. unlogged \subseteq unlogged'
  BY DEF Keeps, Dispatched, Reaped, Discarded, LogAgentEvent, SaveResult, PruneAudits,
     PruneFails, NewDay, AppendOpLog
<1>5. \A e \in oplog : e \in oplog' \/ (Old(e.ts) /\ day' = day)
  <2>1. CASE PruneAudits
    BY <2>1 DEF PruneAudits
  <2>2. CASE ~PruneAudits
    BY <2>2 DEF Keeps, Dispatched, Reaped, Discarded, LogAgentEvent, SaveResult,
       PruneFails, NewDay, AppendOpLog
  <2> QED BY <2>1, <2>2
<1> QED BY <1>1, <1>2, <1>3, <1>4, <1>5

\* What every step leaves: a row of the log goes only when it is old, a lost one
\* stays lost, and time does not go back.
LEMMA StepFrame ==
    ASSUME Types, \A c \in Calls : Progress(c), [Next]_vars
    PROVE  /\ UNCHANGED ask /\ day <= day' /\ won \subseteq won' /\ unlogged \subseteq unlogged'
           /\ \A e \in oplog : e \in oplog' \/ (Old(e.ts) /\ day' = day)
<1>0. day \in Nat
  BY DEF Types, Typed
<1>1. CASE UNCHANGED vars
  BY <1>0, <1>1 DEF vars, auditVars
<1>2. ASSUME NEW c \in Calls, Client(c) \/ Handler(c)
      PROVE  UNCHANGED <<ask, day, won>> /\ oplog \subseteq oplog' /\ unlogged \subseteq unlogged'
  BY <1>2, ClientFrame, HandlerFrame
<1>3. CASE Crash
  <2>1. UNCHANGED <<ask, day, won, oplog>>
    BY <1>3 DEF Crash
  <2>2. unlogged \subseteq unlogged'
    BY <1>3 DEF Crash
  <2> QED BY <1>0, <2>1, <2>2
<1> QED BY <1>0, <1>1, <1>2, <1>3, KeepsFrame DEF Next

LEMMA OldStays ==
    ASSUME Types, \A c \in Calls : Progress(c), [Next]_vars, NEW d \in Nat, Old(d)
    PROVE  Old(d)'
<1>1. day \in Nat /\ day' \in Nat /\ day <= day'
  <2>1. Types'
    BY TypesStep
  <2> QED BY <2>1, StepFrame DEF Types, Typed
<1> QED BY <1>1, RetentionAssumption DEF Old

LEMMA TraceStays ==
    ASSUME Types, \A c \in Calls : Progress(c), [Next]_vars, NEW d \in Nat,
           NEW plane, NEW about, NEW ok, NEW refs, TracedSince(plane, about, ok, refs, d)
    PROVE  TracedSince(plane, about, ok, refs, d)' \/ Old(d)'
<1>1. CASE <<plane, about, ok>> \in unlogged
  BY <1>1, StepFrame DEF TracedSince
<1>2. ASSUME NEW e \in oplog, e.plane = plane, e.about = about, e.ok = ok, refs \subseteq e.refs,
             d <= e.ts
      PROVE  TracedSince(plane, about, ok, refs, d)' \/ Old(d)'
  <2>1. CASE e \in oplog'
    BY <1>2, <2>1 DEF TracedSince
  <2>2. CASE Old(e.ts) /\ day' = day
    <3>1. e.ts \in Nat /\ day \in Nat
      BY DEF Types, Typed, Entries
    <3> QED BY <1>2, <2>2, <3>1, RetentionAssumption DEF Old
  <2> QED BY <2>1, <2>2, StepFrame
<1> QED BY <1>1, <1>2 DEF TracedSince

-----------------------------------------------------------------------------
(***************************************************************************)
(* How far a request is, and what it has then.                             *)
(***************************************************************************)

LEMMA SameProgress ==
    ASSUME NEW d \in Calls, Progress(d), Shares(d), Same(d), UNCHANGED ask
    PROVE  Progress(d)' /\ Shares(d)'
<1>1. Progress(d)'
  BY DEF Progress, Same
<1>2. Shares(d)'
  BY DEF Shares, Same
<1> QED BY <1>1, <1>2

LEMMA ClientProgress ==
    ASSUME Types, NEW c \in Calls, Progress(c), Shares(c), Client(c)
    PROVE  Progress(c)' /\ Shares(c)'
<1>1. CASE UNCHANGED <<srvVars, pastVars>>
  <2>1. UNCHANGED <<ask, srv, status, left, targets, todo, made, denied, held>>
    BY <1>1, ClientFrame DEF srvVars
  <2>2. Shares(c)'
    BY <2>1 DEF Shares
  <2>3. cli'[c] \in {"idle", "members", "edit"} =>
          cli[c] \in {"idle", "members", "edit"} /\ (cli'[c] # "idle" => ask[c].do \in Edits)
    <3> USE DEF Types, ClientTyped
    <3>1. CASE GetGroup(c)
      BY <3>1 DEF GetGroup, Exits
    <3>2. CASE GetMembers(c)
      BY <3>2 DEF GetMembers, Progress
    <3>3. CASE Wait(c)
      BY <3>3 DEF Wait, Polled, PollFails, Exits
    <3>4. CASE Receive(c)
      BY <3>4 DEF Receive, Accepted, Exits
    <3>5. CASE RunRefused(c) \/ PostAtOnce(c) \/ PostEdit(c) \/ GiveUp(c)
      BY <3>5 DEF RunRefused, PostAtOnce, PostEdit, Post, GiveUp, Exits
    <3> QED BY <3>1, <3>2, <3>3, <3>4, <3>5 DEF Client
  <2>4. Progress(c)'
    BY <2>1, <2>3 DEF Progress
  <2> QED BY <2>2, <2>4
<1>2. CASE Post(c) /\ cli[c] \in {"idle", "edit"} /\ ask[c].do # "nothing"
  <2>1. cli'[c] = "sent" /\ srv'[c] = "auth"
    BY <1>2 DEF Post, Types, ClientTyped, ServerTyped
  <2>2. UNCHANGED <<ask, status, left, targets, todo, made, denied, held>>
    BY <1>2 DEF Post
  <2>3. srv[c] = "none" /\ status[c] = None
    BY <1>2 DEF Progress
  <2> QED BY <1>2, <2>1, <2>2, <2>3 DEF Progress, Shares
<1> QED BY <1>1, <1>2, ClientFrame

\* A handler that answers when there is nothing more to do.
LEMMA AnswerProgress ==
    ASSUME Types, NEW c \in Calls, Progress(c), Shares(c), srv[c] \in {"work", "write"},
           NEW code \in {202, 400, 404, 500}, Answers(c, code), code = 202 => ask[c].do # "run",
           UNCHANGED <<ask, cli, left, targets, todo, made, denied, held>>
    PROVE  Progress(c)' /\ Shares(c)'
<1>1. srv'[c] = "audit" /\ status'[c] = code
  BY DEF Answers, Types, ServerTyped
<1>2. made[c] = {}
  <2>1. CASE srv[c] = "work"
    BY <2>1 DEF Progress
  <2>2. CASE srv[c] = "write"
    BY <2>2 DEF Progress, Shares
  <2> QED BY <2>1, <2>2
<1>3. cli[c] \notin {"idle", "members", "edit"} /\ ask[c].do # "nothing"
  BY DEF Progress
<1>4. Progress(c)'
  BY <1>1, <1>3 DEF Progress
<1>5. Shares(c)'
  BY <1>1, <1>2 DEF Shares
<1> QED BY <1>4, <1>5

LEMMA HandlerProgress ==
    ASSUME Types, NEW c \in Calls, Progress(c), Shares(c), Handler(c)
    PROVE  Progress(c)' /\ Shares(c)'
<1>0. UNCHANGED <<ask, cli>> /\ cli[c] \notin {"idle", "members", "edit"} /\ ask[c].do # "nothing"
  <2>1. srv[c] # "none"
    BY DEF Handler, RequireOperatorAuth, PostGroup, ResolveGroup, ResolveFails, Resolved,
       CreateTask, CancelRead, CancelWrite, CancelFails, OplogMiddleware
  <2> QED BY <2>1, HandlerFrame DEF cliVars, Progress
<1>1. CASE RequireOperatorAuth(c)
  <2>1. UNCHANGED <<todo, made, denied, held>> /\ srv[c] = "auth" /\ status[c] = None
    BY <1>1 DEF RequireOperatorAuth, Progress
  <2>2. todo[c] = {} /\ made[c] = {} /\ denied[c] = {}
    BY <2>1 DEF Progress
  <2>3. \/ /\ srv'[c] = "work" /\ status'[c] = None
           /\ ask[c].do # "run" => left'[c] = <<>> /\ targets'[c] = {}
        \/ srv'[c] = "done" /\ status'[c] = 401 /\ UNCHANGED <<left, targets>>
    <3>1. CASE Authorized(c)
      <4>1. UNCHANGED status /\ srv' = [srv EXCEPT ![c] = "work"]
        BY <1>1, <3>1 DEF RequireOperatorAuth
      <4>2. ask[c].do # "run" => left'[c] = <<>> /\ targets'[c] = {}
        BY <1>1, <3>1 DEF RequireOperatorAuth, Types, ServerTyped
      <4> QED BY <2>1, <4>1, <4>2 DEF Types, ServerTyped
    <3>2. CASE ~Authorized(c)
      BY <1>1, <3>2 DEF RequireOperatorAuth, Types, ServerTyped
    <3> QED BY <3>1, <3>2
  <2>4. Progress(c)'
    BY <1>0, <2>1, <2>2, <2>3 DEF Progress
  <2>5. Shares(c)'
    BY <1>0, <2>1, <2>2, <2>3, NoneAssumption DEF Shares
  <2> QED BY <2>4, <2>5
<1>2. CASE PostGroup(c)
  <2>1. PICK code \in {202, 500} : Answers(c, code)
    BY <1>2 DEF PostGroup
  <2>2. ask[c].do # "run" /\ srv[c] = "work" /\ UNCHANGED <<left, targets, todo, made, denied, held>>
    BY <1>2 DEF PostGroup, Edits
  <2> QED BY <1>0, <2>1, <2>2, AnswerProgress
<1>3. CASE ResolveGroup(c)
  <2>1. /\ srv[c] = "work" /\ ask[c].do = "run"
        /\ UNCHANGED <<srv, status, todo, made, denied, held>>
    BY <1>3 DEF ResolveGroup, Progress
  <2>2. todo[c] = {} /\ made[c] = {} /\ denied[c] = {} /\ status[c] = None
    BY <2>1 DEF Progress
  <2>3. Progress(c)'
    BY <1>0, <2>1, <2>2 DEF Progress
  <2>4. Shares(c)'
    BY <1>0, <2>1, <2>2, NoneAssumption DEF Shares
  <2> QED BY <2>3, <2>4
<1>4. CASE ResolveFails(c)
  BY <1>0, <1>4, AnswerProgress DEF ResolveFails
<1>5. CASE Resolved(c)
  <2>1. CASE targets[c] = {}
    BY <1>0, <1>5, <2>1, AnswerProgress DEF Resolved
  <2>2. CASE targets[c] # {}
    <3>1. /\ srv'[c] = "create" /\ todo'[c] = targets[c] /\ ask[c].do = "run" /\ srv[c] = "work"
          /\ UNCHANGED <<status, left, targets, made, denied, held>>
      BY <1>5, <2>2 DEF Resolved, Types, ServerTyped
    <3>2. made[c] = {} /\ denied[c] = {} /\ status[c] = None
      BY <3>1 DEF Progress
    <3>3. Progress(c)'
      BY <1>0, <2>2, <3>1, <3>2 DEF Progress
    <3>4. Shares(c)'
      BY <1>0, <2>2, <3>1, <3>2, NoneAssumption DEF Shares
    <3> QED BY <3>3, <3>4
  <2> QED BY <2>1, <2>2
<1>6. CASE CreateTask(c)
  <2> DEFINE a == Min(todo[c])
  <2>0. /\ srv[c] = "create" /\ ask[c].do = "run" /\ status[c] = None
        /\ targets[c] \subseteq made[c] \cup denied[c] \cup todo[c]
        /\ UNCHANGED <<left, targets, held>>
    BY <1>6 DEF CreateTask, Progress, Shares
  <2>1. a \in todo[c] /\ a \in Agents
    BY <1>6, MinIsIn DEF CreateTask, Progress, Types, ServerTyped
  <2> HIDE DEF a
  <2>2. Deny(c, a) \/ Queue(c, a) \/ QueueFails(c, a)
    BY <1>6 DEF CreateTask, a
  <2>3. CASE QueueFails(c, a)
    <3>1. srv'[c] = "audit" /\ status'[c] = 500 /\ UNCHANGED <<todo, made, denied>>
      BY <2>3 DEF QueueFails, Answers, Types, ServerTyped
    <3>2. Progress(c)'
      BY <1>0, <2>0, <3>1 DEF Progress
    <3>3. Shares(c)'
      BY <1>0, <2>0, <3>1 DEF Shares
    <3> QED BY <3>2, <3>3
  <2>4. CASE Deny(c, a) \/ Queue(c, a)
    <3>1. /\ todo'[c] = todo[c] \ {a}
          /\ made'[c] \cup denied'[c] = made[c] \cup denied[c] \cup {a}
      BY <2>4 DEF Deny, Queue, NextTarget, Types, ServerTyped
    <3>a. made'[c] \cap denied'[c] = {}
      <4>1. \/ made'[c] = made[c] /\ denied'[c] = denied[c] \cup {a}
            \/ denied'[c] = denied[c] /\ made'[c] = made[c] \cup {a}
        BY <2>4 DEF Deny, Queue, Types, ServerTyped
      <4> QED BY <2>1, <4>1 DEF Shares
    <3>2. CASE todo[c] = {a}
      <4>1. srv'[c] = "audit" /\ status'[c] = 202
        <5>1. Answers(c, 202)
          BY <2>4, <3>2 DEF Deny, Queue, NextTarget
        <5> QED BY <5>1 DEF Answers, Types, ServerTyped
      <4>2. Progress(c)'
        BY <1>0, <2>0, <3>1, <4>1 DEF Progress
      <4>3. Shares(c)'
        BY <1>0, <2>0, <2>1, <3>1, <3>a, <3>2, <4>1 DEF Shares
      <4> QED BY <4>2, <4>3
    <3>3. CASE todo[c] # {a}
      <4>1. srv'[c] = "create" /\ status'[c] = None
        BY <2>0, <2>4, <3>3 DEF Deny, Queue, NextTarget
      <4>2. Progress(c)'
        BY <1>0, <2>0, <2>1, <3>1, <3>3, <4>1 DEF Progress
      <4>3. Shares(c)'
        BY <1>0, <2>0, <2>1, <3>1, <3>a, <4>1, NoneAssumption DEF Shares
      <4> QED BY <4>2, <4>3
    <3> QED BY <3>2, <3>3
  <2> QED BY <2>2, <2>3, <2>4
<1>7. CASE CancelRead(c)
  <2>0. row[ask[c].task] # None => row[ask[c].task].state \in Open \cup Terminal
    BY <1>7 DEF CancelRead, AskOK, Types, Typed, Asked, Rows
  <2>1. CASE UNCHANGED held /\ \E code \in {202, 404} : Answers(c, code)
    <3>1. PICK code \in {202, 404} : Answers(c, code)
      BY <2>1
    <3> QED BY <1>0, <1>7, <2>1, <3>1, AnswerProgress DEF CancelRead
  <2>2. CASE /\ held' = [held EXCEPT ![c] = row[ask[c].task].state]
             /\ row[ask[c].task].state \in Open /\ srv' = [srv EXCEPT ![c] = "write"]
             /\ UNCHANGED status
    <3>1. held'[c] \in Open /\ srv'[c] = "write" /\ status' = status
      BY <2>2 DEF Types, ServerTyped
    <3>2. /\ srv[c] = "work" /\ ask[c].do = "cancel" /\ status[c] = None
          /\ UNCHANGED <<left, targets, todo, made, denied>>
      BY <1>7 DEF CancelRead, Progress
    <3>3. Progress(c)'
      BY <1>0, <3>1, <3>2 DEF Progress
    <3>4. Shares(c)'
      BY <1>0, <3>1, <3>2, NoneAssumption DEF Shares
    <3> QED BY <3>3, <3>4
  <2> QED BY <1>7, <2>0, <2>1, <2>2 DEF CancelRead
<1>8. CASE CancelWrite(c)
  <2>1. /\ srv[c] = "write" /\ ask[c].do = "cancel" /\ Answers(c, 202)
        /\ UNCHANGED <<left, targets, todo, made, denied, held>>
    BY <1>8 DEF CancelWrite, Progress
  <2> QED BY <1>0, <2>1, AnswerProgress
<1>9. CASE CancelFails(c)
  BY <1>0, <1>9, AnswerProgress DEF CancelFails
<1>10. CASE OplogMiddleware(c)
  <2>1. /\ srv[c] = "audit" /\ srv'[c] = "done"
        /\ UNCHANGED <<status, left, targets, todo, made, denied, held>>
    BY <1>10 DEF OplogMiddleware, Types, ServerTyped
  <2> QED BY <1>0, <2>1 DEF Progress, Shares
<1> QED BY <1>1, <1>2, <1>3, <1>4, <1>5, <1>6, <1>7, <1>8, <1>9, <1>10 DEF Handler

LEMMA CrashProgress ==
    ASSUME Types, NEW c \in Calls, Progress(c), Shares(c), Crash
    PROVE  Progress(c)' /\ Shares(c)'
<1>1. /\ srv'[c] = IF srv[c] \in InHand THEN "lost" ELSE srv[c]
      /\ cli'[c] = IF cli[c] = "members" THEN "exit" ELSE cli[c]
      /\ UNCHANGED <<ask, status, left, targets, todo, made, denied, held>>
  BY DEF Crash
<1>2. Progress(c)'
  BY <1>1 DEF Progress, InHand
<1>3. Shares(c)'
  BY <1>1 DEF Shares, InHand
<1> QED BY <1>2, <1>3

\* What the parts below may assume.
Base == Types /\ \A c \in Calls : Progress(c) /\ Shares(c)

LEMMA BaseStep == Base /\ [Next]_vars => Base'
<1> SUFFICES ASSUME Base, [Next]_vars PROVE Base'
  OBVIOUS
<1>0. Types /\ \A c \in Calls : Progress(c) /\ Shares(c)
  BY DEF Base
<1>1. Types'
  BY <1>0, TypesStep
<1>2. ASSUME NEW d \in Calls PROVE Progress(d)' /\ Shares(d)'
  <2>1. CASE UNCHANGED vars
    BY <1>0, <2>1, SameProgress DEF vars, Same, cliVars, srvVars, pastVars
  <2>2. ASSUME NEW c \in Calls, Client(c) \/ Handler(c) PROVE Progress(d)' /\ Shares(d)'
    <3>1. CASE c = d
      BY <1>0, <2>2, <3>1, ClientProgress, HandlerProgress
    <3>2. CASE c # d
      <4>1. Same(d) /\ UNCHANGED ask
        BY <1>0, <2>2, <3>2, ClientFrame, HandlerFrame
      <4> QED BY <1>0, <4>1, SameProgress
    <3> QED BY <3>1, <3>2
  <2>3. CASE Keeps /\ UNCHANGED <<groups, ask, cliVars, srvVars, pastVars>>
    <3>1. Same(d) /\ UNCHANGED ask
      BY <1>0, <2>3, KeepsFrame
    <3> QED BY <1>0, <3>1, SameProgress
  <2>4. CASE Crash
    BY <1>0, <2>4, CrashProgress
  <2> QED BY <2>1, <2>2, <2>3, <2>4 DEF Next
<1> QED BY <1>1, <1>2 DEF Base

-----------------------------------------------------------------------------
(***************************************************************************)
(* The rows of the tasks.                                                  *)
(***************************************************************************)

\* A row may change its state, and go when it is old.
LEMMA RowStays ==
    ASSUME Base, RowsOK, [Next]_vars, NEW c \in Calls, NEW a \in Agents,
           made'[c] = made[c], began'[c] = began[c],
           LET r == row[<<c, a>>] IN
           LET s == row'[<<c, a>>] IN
           \/ s = r
           \/ /\ r # None /\ s # None /\ s.born = r.born
              /\ s.state = "success" => <<c, a>> \in won'
           \/ r # None /\ s = None /\ Old(r.born)
    PROVE  RowOK(c, a)'
<1> DEFINE r == row[<<c, a>>]
           s == row'[<<c, a>>]
<1>1. RowOK(c, a)
  BY DEF RowsOK
<1>2. day \in Nat /\ day' \in Nat /\ day <= day' /\ won \subseteq won'
  <2>1. Types' /\ Types
    BY BaseStep DEF Base
  <2> QED BY <2>1, StepFrame DEF Base, Types, Typed
<1>3. began[c] \in Nat /\ (r # None => r.born \in Nat)
  BY DEF Base, Types, Typed, ServerTyped, Rows, TaskIds
<1>4. Old(began[c]) => Old(began[c])'
  BY <1>3, OldStays DEF Base
<1>5. CASE s = r
  BY <1>1, <1>2, <1>3, <1>4, <1>5 DEF RowOK, Old
<1>6. CASE /\ r # None /\ s # None /\ s.born = r.born
           /\ s.state = "success" => <<c, a>> \in won'
  BY <1>1, <1>2, <1>3, <1>6 DEF RowOK, Old
<1>7. CASE r # None /\ s = None /\ Old(r.born)
  <2>1. a \in made[c] /\ began[c] <= r.born
    BY <1>1, <1>7 DEF RowOK
  <2>2. Old(began[c])
    BY <1>2, <1>3, <1>7, <2>1, RetentionAssumption DEF Old
  <2>3. Old(began[c])'
    BY <1>4, <2>2
  <2> HIDE DEF r, s
  <2>4. s = None
    BY <1>7
  <2> QED BY <2>3, <2>4 DEF RowOK, Old, s
<1> QED BY <1>5, <1>6, <1>7

LEMMA RowsStep == Base /\ RowsOK /\ [Next]_vars => RowsOK'
<1> SUFFICES ASSUME Base, RowsOK, [Next]_vars PROVE RowsOK'
  OBVIOUS
<1>0. Types /\ (\A c \in Calls : Progress(c) /\ Shares(c) /\ Since(c)) /\ Types'
  BY BaseStep DEF Base, RowsOK
<1>a. /\ day \in Nat /\ day' \in Nat /\ day <= day' /\ won \subseteq won'
      /\ \A c \in Calls : began[c] \in Nat
  <2>1. day <= day' /\ won \subseteq won'
    <3>1. \A c \in Calls : Progress(c)
      BY <1>0
    <3> QED BY <1>0, <3>1, StepFrame
  <2>2. day \in Nat /\ day' \in Nat
    BY <1>0 DEF Types, Typed
  <2>3. \A c \in Calls : began[c] \in Nat
    BY <1>0 DEF Types, ServerTyped
  <2> QED BY <2>1, <2>2, <2>3
<1>1. ASSUME NEW d \in Calls, began'[d] = began[d] \/ began'[d] = day PROVE Since(d)'
  <2>1. began[d] <= day
    BY <1>0 DEF Since
  <2> QED BY <1>a, <1>1, <2>1 DEF Since
<1>2. CASE UNCHANGED vars
  <2>1. \A d \in Calls : Since(d)'
    BY <1>1, <1>2 DEF vars, pastVars
  <2>2. UNCHANGED <<row, made, began>>
    BY <1>2 DEF vars, auditVars, srvVars, pastVars
  <2>3. \A c \in Calls, a \in Agents : RowOK(c, a)'
    BY <2>2, RowStays
  <2> QED BY <2>1, <2>3 DEF RowsOK
<1>3. ASSUME NEW c \in Calls, Client(c) PROVE RowsOK'
  <2>1. UNCHANGED row /\ made' = made
    BY <1>0, <1>3, ClientFrame DEF srvVars, Post
  <2>2. \A d \in Calls : \/ began'[d] = began[d]
                         \/ began'[d] = day /\ made[d] = {}
    <3>1. CASE UNCHANGED <<srvVars, pastVars>>
      BY <3>1 DEF pastVars
    <3>2. CASE Post(c) /\ cli[c] \in {"idle", "edit"}
      <4>1. made[c] = {}
        BY <1>0, <3>2 DEF Progress
      <4>2. began' = [began EXCEPT ![c] = day]
        BY <3>2 DEF Post
      <4> QED BY <1>0, <4>1, <4>2 DEF Types, ServerTyped
    <3> QED BY <1>0, <1>3, <3>1, <3>2, ClientFrame
  <2>3. ASSUME NEW d \in Calls, NEW a \in Agents PROVE RowOK(d, a)'
    <3>1. CASE began'[d] = began[d]
      BY <2>1, <3>1, RowStays
    <3>2. CASE made[d] = {}
      <4>1. row[<<d, a>>] = None
        BY <3>2 DEF RowsOK, RowOK
      <4> QED BY <2>1, <3>2, <4>1 DEF RowOK
    <3> QED BY <2>2, <3>1, <3>2
  <2> QED BY <1>1, <2>2, <2>3 DEF RowsOK
<1>4. ASSUME NEW c \in Calls, Handler(c) PROVE RowsOK'
  <2>0. /\ UNCHANGED <<day, won, began>>
        /\ \A d \in Calls \ {c} : made'[d] = made[d]
    BY <1>0, <1>4, HandlerFrame DEF Same
  <2>1. \A d \in Calls : Since(d)'
    BY <1>1, <2>0
  <2>2. CASE UNCHANGED <<row, made>>
    <3>1. \A d \in Calls, a \in Agents : RowOK(d, a)'
      BY <2>0, <2>2, RowStays
    <3> QED BY <2>1, <3>1 DEF RowsOK
  <2>3. CASE CreateTask(c)
    <3>0. Min(todo[c]) \in Agents
      BY <1>0, <2>3, MinIsIn DEF CreateTask, Progress, Types, ServerTyped
    <3>1. PICK b \in Agents : Deny(c, b) \/ Queue(c, b) \/ QueueFails(c, b)
      BY <2>3, <3>0 DEF CreateTask
    <3>3. CASE UNCHANGED <<row, made>>
      BY <2>2, <3>3
    <3>4. CASE Queue(c, b)
      <4>1. /\ row' = [row EXCEPT ![<<c, b>>] = [state |-> "queued", born |-> day]]
            /\ made' = [made EXCEPT ![c] = @ \cup {b}]
        BY <3>4 DEF Queue
      <4>2. row'[<<c, b>>] = [state |-> "queued", born |-> day] /\ b \in made'[c]
        BY <1>0, <4>1 DEF Types, Typed, ServerTyped, TaskIds
      <4>3. [state |-> "queued", born |-> day] # None
        BY <1>0, NoneAssumption DEF Types, Typed, Rows, Open
      <4>4. RowOK(c, b)'
        <5>1. began[c] <= day
          BY <1>0 DEF Since
        <5>2. row'[<<c, b>>].born = day /\ row'[<<c, b>>].state = "queued" /\ row'[<<c, b>>] # None
          BY <4>2, <4>3
        <5>3. began'[c] <= row'[<<c, b>>].born /\ row'[<<c, b>>].born <= day'
          BY <1>a, <2>0, <5>1, <5>2
        <5>4. row'[<<c, b>>].state # "success"
          BY <5>2
        <5> QED BY <4>2, <5>2, <5>3, <5>4 DEF RowOK
      <4>5. ASSUME NEW d \in Calls, NEW a \in Agents, d # c \/ a # b PROVE RowOK(d, a)'
        <5>1. row'[<<d, a>>] = row[<<d, a>>]
          BY <1>0, <4>1, <4>5 DEF Types, Typed, TaskIds
        <5>2. CASE d # c
          BY <2>0, <5>1, <5>2, RowStays
        <5>3. CASE d = c /\ a # b
          <6>1. a \in made'[c] <=> a \in made[c]
            BY <1>0, <4>1, <5>3 DEF Types, ServerTyped
          <6>2. RowOK(c, a)
            BY DEF RowsOK
          <6> QED BY <2>0, <5>1, <5>3, <6>1, <6>2 DEF RowOK, Old
        <5> QED BY <4>5, <5>2, <5>3
      <4>6. \A d \in Calls, a \in Agents : RowOK(d, a)'
        BY <4>4, <4>5
      <4> QED BY <2>1, <4>6 DEF RowsOK
    <3> QED BY <3>1, <3>3, <3>4 DEF Deny, QueueFails
  <2>4. CASE CancelWrite(c)
    <3> DEFINE t == ask[c].task
    <3>1. t \in TaskIds
      BY <1>0, <2>4 DEF CancelWrite, Progress, Types, Typed, Asked, AskOK
    <3> HIDE DEF t
    <3>2. PICK s \in {"canceled", "cancel_requested"} :
            row' = IF row[t] = None THEN row ELSE [row EXCEPT ![t].state = s]
      BY <2>4 DEF CancelWrite, t
    <3>3. UNCHANGED made
      BY <2>4 DEF CancelWrite
    <3>4. ASSUME NEW d \in Calls, NEW a \in Agents PROVE RowOK(d, a)'
      <4>1. CASE row'[<<d, a>>] = row[<<d, a>>]
        BY <2>0, <3>3, <4>1, RowStays
      <4>2. CASE <<d, a>> = t /\ row[t] # None
        <5>1. row[t] \in Rows
          BY <1>0, <3>1, <4>2 DEF Types, Typed
        <5>2. row'[t] = [row[t] EXCEPT !.state = s]
          BY <1>0, <3>1, <3>2, <4>2 DEF Types, Typed
        <5>3. row'[t].born = row[t].born /\ row'[t].state = s /\ row'[t] \in Rows
          BY <5>1, <5>2 DEF Rows, Open, Terminal
        <5>4. row'[t] # None
          BY <5>3, NoneAssumption
        <5> QED BY <2>0, <3>3, <4>2, <5>3, <5>4, RowStays
      <4> QED BY <1>0, <3>2, <4>1, <4>2 DEF Types, Typed, TaskIds
    <3> QED BY <2>1, <3>4 DEF RowsOK
  <2> QED BY <1>4, <2>2, <2>3, <2>4 DEF Handler, RequireOperatorAuth, PostGroup, ResolveGroup,
        ResolveFails, Resolved, CancelRead, CancelFails, OplogMiddleware, auditVars
<1>5. CASE Keeps /\ UNCHANGED <<groups, ask, cliVars, srvVars, pastVars>>
  <2>0. UNCHANGED <<made, began>>
    BY <1>5 DEF srvVars, pastVars
  <2>1. \A d \in Calls : Since(d)'
    BY <1>1, <2>0
  <2>2. CASE UNCHANGED row
    <3>1. \A c \in Calls, a \in Agents : RowOK(c, a)'
      BY <2>0, <2>2, RowStays
    <3> QED BY <2>1, <3>1 DEF RowsOK
  <2>3. ASSUME NEW t \in TaskIds, row[t] # None, NEW s \in Open \cup Terminal,
               row' = [row EXCEPT ![t].state = s], s = "success" => t \in won'
        PROVE  RowsOK'
    <3>1. row[t] \in Rows /\ row'[t] = [row[t] EXCEPT !.state = s]
      BY <1>0, <2>3 DEF Types, Typed
    <3>2. row'[t].born = row[t].born /\ row'[t].state = s /\ row'[t] \in Rows
      BY <3>1 DEF Rows
    <3>3. row'[t] # None
      BY <3>2, NoneAssumption
    <3>4. ASSUME NEW c \in Calls, NEW a \in Agents PROVE RowOK(c, a)'
      <4>1. CASE <<c, a>> = t
        BY <2>0, <2>3, <3>2, <3>3, <4>1, RowStays
      <4>2. CASE <<c, a>> # t
        <5>1. row'[<<c, a>>] = row[<<c, a>>]
          BY <1>0, <2>3, <4>2 DEF Types, Typed, TaskIds
        <5> QED BY <2>0, <5>1, RowStays
      <4> QED BY <4>1, <4>2
    <3> QED BY <2>1, <3>4 DEF RowsOK
  <2>4. ASSUME NEW t \in TaskIds, Dispatched(t) PROVE RowsOK'
    <3>1. "dispatched" \in Open \cup Terminal /\ "dispatched" # "success"
      BY DEF Open
    <3>2. row[t] # None /\ row' = [row EXCEPT ![t].state = "dispatched"]
      BY <2>4 DEF Dispatched
    <3> QED BY <2>3, <3>1, <3>2
  <2>5. ASSUME NEW t \in TaskIds, Reaped(t) PROVE RowsOK'
    <3>1. PICK s \in {"timeout", "canceled"} : row' = [row EXCEPT ![t].state = s]
      BY <2>5 DEF Reaped
    <3> QED BY <2>3, <2>5, <3>1 DEF Reaped, Terminal
  <2>6. ASSUME NEW t \in TaskIds, NEW s \in {"success", "failed"}, SaveResult(t, s) PROVE RowsOK'
    <3>1. s \in Open \cup Terminal /\ row[t] # None /\ row' = [row EXCEPT ![t].state = s]
          /\ (s = "success" => t \in won')
      BY <2>6 DEF SaveResult, Terminal
    <3> QED BY <2>3, <3>1
  <2>7. CASE PruneAudits
    <3>1. ASSUME NEW c \in Calls, NEW a \in Agents PROVE RowOK(c, a)'
      <4>1. \/ row'[<<c, a>>] = row[<<c, a>>]
            \/ row[<<c, a>>] # None /\ row'[<<c, a>>] = None /\ Old(row[<<c, a>>].born)
        BY <2>7 DEF PruneAudits, TaskIds
      <4> QED BY <2>0, <4>1, RowStays
    <3> QED BY <2>1, <3>1 DEF RowsOK
  <2> QED BY <1>5, <2>2, <2>4, <2>5, <2>6, <2>7 DEF Keeps, Discarded, LogAgentEvent, PruneFails, NewDay
<1>6. CASE Crash
  <2>1. UNCHANGED <<row, made, began>>
    BY <1>6 DEF Crash, pastVars
  <2>2. \A d \in Calls : Since(d)'
    BY <1>1, <2>1
  <2>3. \A c \in Calls, a \in Agents : RowOK(c, a)'
    BY <2>1, RowStays
  <2> QED BY <2>2, <2>3 DEF RowsOK
<1> QED BY <1>2, <1>3, <1>4, <1>5, <1>6 DEF Next

-----------------------------------------------------------------------------
(***************************************************************************)
(* What the client says.                                                   *)
(***************************************************************************)

LEMMA ClientStays ==
    ASSUME Base, [Next]_vars, NEW d \in Calls, ClientOK(d),
           cli'[d] = cli[d], exit'[d] = exit[d], await'[d] = await[d], allOK'[d] = allOK[d],
           began'[d] = began[d],
           \/ status[d] = None
           \/ /\ status'[d] = status[d] /\ targets'[d] = targets[d]
              /\ made'[d] = made[d] /\ denied'[d] = denied[d]
    PROVE  ClientOK(d)'
<1>1. UNCHANGED ask /\ won \subseteq won'
  BY StepFrame DEF Base
<1>2. Old(began[d]) => Old(began[d])'
  BY OldStays DEF Base, Types, ServerTyped
<1>4. exit'[d] = "gone" => Old(began[d])'
  BY <1>2 DEF ClientOK
<1>5. CASE status[d] = None
  <2>1. cli[d] # "poll" /\ (exit[d] = "ok" => ask[d].do # "run")
    BY <1>5, NoneAssumption DEF ClientOK
  <2> QED BY <1>1, <1>4, <2>1 DEF ClientOK
<1>6. CASE /\ status'[d] = status[d] /\ targets'[d] = targets[d]
           /\ made'[d] = made[d] /\ denied'[d] = denied[d]
  <2>1. cli'[d] = "poll" =>
          /\ status'[d] = 202 /\ ask'[d].do = "run" /\ await'[d] \subseteq made'[d]
          /\ allOK'[d] => denied'[d] = {} /\ \A a \in made'[d] \ await'[d] : <<d, a>> \in won'
    BY <1>1, <1>6 DEF ClientOK
  <2>2. exit'[d] = "ok" /\ ask'[d].do = "run" /\ ask'[d].wait =>
          targets'[d] # {} /\ \A a \in targets'[d] : <<d, a>> \in won'
    BY <1>1, <1>6 DEF ClientOK
  <2>3. exit'[d] = "ok" => cli'[d] = "exit" /\ (ask'[d].do = "run" => status'[d] = 202)
    BY <1>1, <1>6 DEF ClientOK
  <2>4. (cli'[d] = "exit") <=> (exit'[d] \in Codes)
    BY DEF ClientOK
  <2> QED BY <1>4, <2>1, <2>2, <2>3, <2>4 DEF ClientOK
<1> QED BY <1>5, <1>6

\* An invocation that ends with a code that says little.
LEMMA PlainExit ==
    ASSUME Base, NEW c \in Calls, NEW code \in Codes, code \notin {"ok", "gone"}, Exits(c, code)
    PROVE  ClientOK(c)'
<1>1. cli'[c] = "exit" /\ exit'[c] = code
  BY DEF Exits, Base, Types, ClientTyped
<1> QED BY <1>1 DEF ClientOK

LEMMA OwnClient ==
    ASSUME Base, RowsOK, NEW c \in Calls, ClientOK(c), Client(c)
    PROVE  ClientOK(c)'
<1>0. Types /\ Progress(c) /\ Shares(c)
  BY DEF Base
<1>a. UNCHANGED <<ask, day, won, status, targets, made, denied>>
  BY <1>0, ClientFrame DEF srvVars, Post
<1>b. \A code \in {"usage", "auth", "failure", "connect", "waited"} :
        code \in Codes /\ code \notin {"ok", "gone"}
  BY DEF Codes
\* Neither at the end nor at the poll, and no code.
<1>c. ASSUME cli'[c] \notin {"exit", "poll"}, cli[c] # "exit", exit'[c] = exit[c] PROVE ClientOK(c)'
  <2>1. exit'[c] \notin Codes
    BY <1>c DEF ClientOK
  <2>2. exit'[c] \notin {"ok", "gone"}
    BY <2>1 DEF Codes
  <2> QED BY <1>c, <2>1, <2>2 DEF ClientOK
<1>1. CASE RunRefused(c)
  BY <1>1, <1>b, PlainExit DEF RunRefused
<1>2. ASSUME Post(c), cli[c] \in {"idle", "edit"} PROVE ClientOK(c)'
  <2>1. cli'[c] = "sent" /\ exit' = exit
    BY <1>0, <1>2 DEF Post, Types, ClientTyped
  <2> QED BY <1>2, <1>c, <2>1
<1>3. CASE GetGroup(c)
  <2>1. \/ \E code \in {"auth", "failure"} : Exits(c, code)
        \/ cli' = [cli EXCEPT ![c] = "members"] /\ UNCHANGED exit
    BY <1>3 DEF GetGroup
  <2>2. CASE \E code \in {"auth", "failure"} : Exits(c, code)
    BY <1>b, <2>2, PlainExit
  <2>3. CASE cli' = [cli EXCEPT ![c] = "members"] /\ UNCHANGED exit
    <3>1. cli'[c] = "members" /\ cli[c] = "idle"
      BY <1>0, <1>3, <2>3 DEF GetGroup, Types, ClientTyped
    <3> QED BY <1>c, <2>3, <3>1
  <2> QED BY <2>1, <2>2, <2>3
<1>4. CASE GetMembers(c)
  <2>1. cli'[c] = "edit" /\ cli[c] = "members" /\ exit' = exit
    BY <1>0, <1>4 DEF GetMembers, Types, ClientTyped
  <2> QED BY <1>c, <2>1
<1>5. CASE Receive(c)
  <2>1. \/ \E code \in {"auth", "failure"} : Exits(c, code)
        \/ status[c] = 202 /\ Exits(c, "ok") /\ ~(ask[c].do = "run" /\ ask[c].wait)
        \/ /\ status[c] = 202 /\ ask[c].do = "run"
           /\ cli' = [cli EXCEPT ![c] = "poll"] /\ await' = [await EXCEPT ![c] = made[c]]
           /\ allOK' = [allOK EXCEPT ![c] = (denied[c] = {})] /\ UNCHANGED exit
    BY <1>5 DEF Receive, Accepted
  <2>2. CASE \E code \in {"auth", "failure"} : Exits(c, code)
    BY <1>b, <2>2, PlainExit
  <2>3. CASE status[c] = 202 /\ Exits(c, "ok") /\ ~(ask[c].do = "run" /\ ask[c].wait)
    <3>1. cli'[c] = "exit" /\ exit'[c] = "ok" /\ "ok" \in Codes
      BY <1>0, <2>3 DEF Exits, Types, ClientTyped, Codes
    <3> QED BY <1>a, <2>3, <3>1 DEF ClientOK
  <2>4. CASE /\ status[c] = 202 /\ ask[c].do = "run"
             /\ cli' = [cli EXCEPT ![c] = "poll"] /\ await' = [await EXCEPT ![c] = made[c]]
             /\ allOK' = [allOK EXCEPT ![c] = (denied[c] = {})] /\ UNCHANGED exit
    <3>1. cli'[c] = "poll" /\ await'[c] = made[c] /\ (allOK'[c] => denied[c] = {})
      <4>1. c \in DOMAIN allOK /\ allOK' = [allOK EXCEPT ![c] = (denied[c] = {})]
        BY <1>0, <2>4 DEF Types, ClientTyped
      <4>2. allOK'[c] = (denied[c] = {})
        BY <4>1, Zenon
      <4>3. allOK'[c] => denied[c] = {}
        BY <4>2, Zenon
      <4>4. cli'[c] = "poll" /\ await'[c] = made[c]
        BY <1>0, <2>4 DEF Types, ClientTyped
      <4> QED BY <4>3, <4>4
    <3>2. exit'[c] \notin Codes
      BY <1>5, <2>4 DEF Receive, ClientOK
    <3>3. exit'[c] \notin {"ok", "gone"}
      BY <3>2 DEF Codes
    <3> QED BY <1>a, <2>4, <3>1, <3>2, <3>3 DEF ClientOK
  <2> QED BY <2>1, <2>2, <2>3, <2>4
<1>6. CASE GiveUp(c)
  BY <1>6, <1>b, PlainExit DEF GiveUp
<1>7. CASE Wait(c)
  <2>0. /\ status[c] = 202 /\ ask[c].do = "run" /\ await[c] \subseteq made[c]
        /\ allOK[c] => denied[c] = {} /\ \A a \in made[c] \ await[c] : <<c, a>> \in won
    BY <1>7 DEF Wait, ClientOK
  <2>1. CASE await[c] = {}
    <3>1. CASE ~allOK[c]
      BY <1>7, <1>b, <2>1, <3>1, PlainExit DEF Wait
    <3>2. CASE allOK[c]
      <4>1. cli'[c] = "exit" /\ exit'[c] = "ok" /\ "ok" \in Codes
        BY <1>0, <1>7, <2>1, <3>2 DEF Wait, Exits, Types, ClientTyped, Codes
      <4>2. targets[c] # {} /\ targets[c] \subseteq made[c] /\ \A a \in made[c] : <<c, a>> \in won
        BY <1>0, <2>0, <2>1, <3>2 DEF Shares
      <4> QED BY <1>a, <2>0, <4>1, <4>2 DEF ClientOK
    <3> QED BY <3>1, <3>2
  <2>2. CASE await[c] # {}
    <3>0. Min(await[c]) \in await[c]
      BY <1>0, <2>2, MinIsIn DEF Types, ClientTyped
    <3>1. PICK a \in await[c] : Polled(c, <<c, a>>) \/ PollFails(c, <<c, a>>)
      BY <1>7, <2>2, <3>0 DEF Wait
    <3>2. a \in Agents /\ a \in made[c]
      BY <1>0, <2>0 DEF Types, ClientTyped
    <3>3. RowOK(c, a)
      BY <3>2 DEF RowsOK
    <3>4. CASE Polled(c, <<c, a>>)
      <4>1. /\ cli' = cli /\ exit' = exit /\ await'[c] = await[c] \ {a}
            /\ allOK'[c] => allOK[c] /\ row[<<c, a>>].state = "success" /\ row[<<c, a>>] # None
        BY <1>0, <3>4 DEF Polled, Types, ClientTyped
      <4>2. allOK'[c] => <<c, a>> \in won
        BY <3>3, <4>1 DEF RowOK
      <4>3. cli[c] = "poll" /\ exit[c] \notin Codes
        BY <1>7 DEF Wait, ClientOK
      <4>4. exit'[c] \notin {"ok", "gone"}
        BY <4>1, <4>3 DEF Codes
      <4> QED BY <1>a, <2>0, <4>1, <4>2, <4>3, <4>4 DEF ClientOK
    <3>5. CASE PollFails(c, <<c, a>>) /\ row[<<c, a>>] # None
      BY <1>b, <3>5, PlainExit DEF PollFails
    <3>6. CASE PollFails(c, <<c, a>>) /\ row[<<c, a>>] = None
      <4>1. cli'[c] = "exit" /\ exit'[c] = "gone" /\ "gone" \in Codes
        BY <1>0, <3>6 DEF PollFails, Exits, Types, ClientTyped, Codes
      <4>2. Old(began[c])
        BY <3>2, <3>3, <3>6 DEF RowOK
      <4>3. UNCHANGED <<began, day>>
        BY <1>7 DEF Wait, pastVars, auditVars
      <4>4. Old(began[c])'
        BY <4>2, <4>3 DEF Old
      <4> QED BY <1>a, <4>1, <4>4 DEF ClientOK
    <3> QED BY <3>1, <3>4, <3>5, <3>6
  <2> QED BY <2>1, <2>2
<1> QED BY <1>1, <1>2, <1>3, <1>4, <1>5, <1>6, <1>7 DEF Client, PostAtOnce, PostEdit

LEMMA ClientsStep ==
    Base /\ RowsOK /\ (\A d \in Calls : ClientOK(d)) /\ [Next]_vars => \A d \in Calls : ClientOK(d)'
<1> SUFFICES ASSUME Base, RowsOK, \A d \in Calls : ClientOK(d), [Next]_vars, NEW d \in Calls
             PROVE  ClientOK(d)'
  OBVIOUS
<1>0. Types /\ \A c \in Calls : Progress(c)
  BY DEF Base
<1>1. ASSUME Same(d) PROVE ClientOK(d)'
  BY <1>1, ClientStays DEF Same
<1>2. CASE UNCHANGED vars
  BY <1>1, <1>2 DEF vars, Same, cliVars, srvVars, pastVars
<1>3. ASSUME NEW c \in Calls, Client(c) PROVE ClientOK(d)'
  <2>1. CASE c = d
    BY <1>3, <2>1, OwnClient
  <2>2. CASE c # d
    BY <1>0, <1>1, <1>3, <2>2, ClientFrame
  <2> QED BY <2>1, <2>2
<1>4. ASSUME NEW c \in Calls, Handler(c) PROVE ClientOK(d)'
  <2>1. CASE c = d
    <3>1. UNCHANGED <<cli, exit, await, allOK, began>>
      BY <1>0, <1>4, HandlerFrame DEF cliVars
    <3>2. status[c] = None \/ srv[c] \in {"audit", "done", "lost"}
      BY <1>0 DEF Progress
    <3>3. CASE status[c] = None
      BY <2>1, <3>1, <3>3, ClientStays
    <3>4. CASE srv[c] \in {"audit", "done", "lost"}
      <4>1. OplogMiddleware(c)
        BY <1>4, <3>4 DEF Handler, RequireOperatorAuth, PostGroup, ResolveGroup, ResolveFails,
           Resolved, CreateTask, CancelRead, CancelWrite, CancelFails
      <4>2. UNCHANGED <<status, targets, made, denied>>
        BY <4>1 DEF OplogMiddleware
      <4> QED BY <2>1, <3>1, <4>2, ClientStays
    <3> QED BY <3>2, <3>3, <3>4
  <2>2. CASE c # d
    BY <1>0, <1>1, <1>4, <2>2, HandlerFrame
  <2> QED BY <2>1, <2>2
<1>5. CASE Keeps /\ UNCHANGED <<groups, ask, cliVars, srvVars, pastVars>>
  BY <1>0, <1>1, <1>5, KeepsFrame
<1>6. CASE Crash
  <2>0. UNCHANGED <<await, allOK, began, status, targets, made, denied>>
    BY <1>6 DEF Crash, pastVars
  <2>1. CASE cli[d] = "members"
    <3>1. cli'[d] = "exit" /\ exit'[d] = "connect" /\ "connect" \in Codes
      BY <1>6, <2>1 DEF Crash, Codes
    <3> QED BY <3>1 DEF ClientOK
  <2>2. CASE cli[d] # "members"
    <3>1. cli'[d] = cli[d] /\ exit'[d] = exit[d]
      BY <1>6, <2>2 DEF Crash
    <3> QED BY <2>0, <3>1, ClientStays
  <2> QED BY <2>1, <2>2
<1> QED BY <1>2, <1>3, <1>4, <1>5, <1>6 DEF Next

-----------------------------------------------------------------------------
(***************************************************************************)
(* Refusals.                                                               *)
(***************************************************************************)

LEMMA DenialStays ==
    ASSUME Base, [Next]_vars, NEW d \in Calls, DenialKept(d),
           denied'[d] = denied[d], began'[d] = began[d]
    PROVE  DenialKept(d)'
<1>1. PICK b \in Nat : b = began[d]
  BY DEF Base, Types, ServerTyped
<1>2. ASSUME NEW a \in denied[d]
      PROVE  TracedSince("plugin", <<d, a>>, FALSE, {<<d, a>>}, b)' \/ Old(b)'
  <2>1. TracedSince("plugin", <<d, a>>, FALSE, {<<d, a>>}, b) \/ Old(b)
    BY <1>1 DEF DenialKept
  <2> QED BY <2>1, TraceStays, OldStays DEF Base
<1>3. b = began'[d]
  BY <1>1
<1>4. ASSUME NEW a \in denied'[d]
      PROVE  TracedSince("plugin", <<d, a>>, FALSE, {<<d, a>>}, began[d])' \/ Old(began[d])'
  BY <1>2, <1>3 DEF TracedSince, Old
<1> QED BY <1>4 DEF DenialKept

LEMMA DenialsStep ==
    Base /\ RowsOK /\ (\A d \in Calls : DenialKept(d)) /\ [Next]_vars
        => \A d \in Calls : DenialKept(d)'
<1> SUFFICES ASSUME Base, RowsOK, \A d \in Calls : DenialKept(d), [Next]_vars, NEW d \in Calls
             PROVE  DenialKept(d)'
  OBVIOUS
<1>0. Types /\ \A c \in Calls : Progress(c) /\ Since(c)
  BY DEF Base, RowsOK
<1>1. ASSUME Same(d) PROVE DenialKept(d)'
  BY <1>1, DenialStays DEF Same
<1>2. CASE UNCHANGED vars
  BY <1>1, <1>2 DEF vars, Same, cliVars, srvVars, pastVars
<1>3. ASSUME NEW c \in Calls, Client(c) PROVE DenialKept(d)'
  <2>1. CASE c = d
    <3>1. CASE UNCHANGED <<srvVars, pastVars>>
      BY <3>1, DenialStays DEF srvVars, pastVars
    <3>2. CASE Post(c) /\ cli[c] \in {"idle", "edit"}
      <4>1. denied'[d] = {}
        BY <1>0, <2>1, <3>2 DEF Post, Progress
      <4> QED BY <4>1 DEF DenialKept
    <3> QED BY <1>0, <1>3, <3>1, <3>2, ClientFrame
  <2>2. CASE c # d
    BY <1>0, <1>1, <1>3, <2>2, ClientFrame
  <2> QED BY <2>1, <2>2
<1>4. ASSUME NEW c \in Calls, Handler(c) PROVE DenialKept(d)'
  <2>0. UNCHANGED <<began, day>>
    BY <1>0, <1>4, HandlerFrame
  <2>1. CASE c # d
    BY <1>0, <1>1, <1>4, <2>1, HandlerFrame
  <2>2. CASE UNCHANGED denied
    BY <2>0, <2>2, DenialStays
  <2>3. CASE c = d /\ CreateTask(c)
    <3>0. Min(todo[c]) \in Agents
      BY <1>0, <2>3, MinIsIn DEF CreateTask, Progress, Types, ServerTyped
    <3>1. PICK b \in Agents : Deny(c, b) \/ Queue(c, b) \/ QueueFails(c, b)
      BY <2>3, <3>0 DEF CreateTask
    <3>2. CASE Deny(c, b)
      <4> DEFINE e == OpLogEntry("plugin", <<c, b>>, FALSE, {<<c, b>>})
      <4>1. e \in Entries
        BY <1>0, DecisionTyped
      <4>2. e.plane = "plugin" /\ e.about = <<c, b>> /\ e.ok = FALSE /\ e.refs = {<<c, b>>} /\ e.ts = day
        BY DEF OpLogEntry
      <4>3. AppendOpLog(e)
        BY <3>2 DEF Deny
      <4>4. denied'[c] = denied[c] \cup {b}
        BY <1>0, <3>2 DEF Deny, Types, ServerTyped
      <4> HIDE DEF e
      <4>5. PICK f : f = e
        OBVIOUS
      <4>6. f \in oplog' \/ <<f.plane, f.about, f.ok>> \in unlogged'
        BY <1>0, <4>1, <4>3, <4>5, AppendTyped
      <4>7. PICK z \in Nat : z = began[c]
        BY <1>0 DEF Types, ServerTyped
      <4>8. z <= f.ts
        BY <1>0, <4>2, <4>5, <4>7 DEF Since
      <4>9. TracedSince("plugin", <<c, b>>, FALSE, {<<c, b>>}, z)'
        BY <4>2, <4>5, <4>6, <4>8 DEF TracedSince
      <4>10. ASSUME NEW a \in denied[c]
             PROVE  TracedSince("plugin", <<c, a>>, FALSE, {<<c, a>>}, z)' \/ Old(z)'
        <5>1. TracedSince("plugin", <<c, a>>, FALSE, {<<c, a>>}, z) \/ Old(z)
          BY <2>3, <4>7 DEF DenialKept
        <5> QED BY <1>0, <5>1, TraceStays, OldStays
      <4>11. z = began'[c]
        BY <2>0, <4>7
      <4>12. ASSUME NEW a \in denied'[c]
             PROVE  TracedSince("plugin", <<c, a>>, FALSE, {<<c, a>>}, began[c])' \/ Old(began[c])'
        BY <4>4, <4>9, <4>10, <4>11 DEF TracedSince, Old
      <4> QED BY <2>3, <4>12 DEF DenialKept
    <3> QED BY <2>2, <3>1, <3>2 DEF Queue, QueueFails
  <2> QED BY <1>4, <2>1, <2>2, <2>3 DEF Handler, RequireOperatorAuth, PostGroup, ResolveGroup,
        ResolveFails, Resolved, CancelRead, CancelWrite, CancelFails, OplogMiddleware
<1>5. CASE Keeps /\ UNCHANGED <<groups, ask, cliVars, srvVars, pastVars>>
  BY <1>0, <1>1, <1>5, KeepsFrame
<1>6. CASE Crash
  BY <1>6, DenialStays DEF Crash, pastVars
<1> QED BY <1>2, <1>3, <1>4, <1>5, <1>6 DEF Next

-----------------------------------------------------------------------------
(***************************************************************************)
(* The targets of a batch.                                                 *)
(***************************************************************************)

LEMMA HeadAndTail ==
    ASSUME NEW S, NEW s \in Seq(S), s # <<>>
    PROVE  {s[i] : i \in DOMAIN s} = {Head(s)} \cup {Tail(s)[i] : i \in DOMAIN Tail(s)}
<1>1. Len(s) \in Nat \ {0} /\ DOMAIN s = 1..Len(s) /\ DOMAIN Tail(s) = 1..(Len(s) - 1)
  OBVIOUS
<1>2. Head(s) = s[1] /\ \A i \in 1..(Len(s) - 1) : Tail(s)[i] = s[i + 1]
  OBVIOUS
<1>3. ASSUME NEW i \in DOMAIN s PROVE s[i] \in {Head(s)} \cup {Tail(s)[j] : j \in DOMAIN Tail(s)}
  <2>1. CASE i = 1
    BY <1>2, <2>1
  <2>2. CASE i # 1
    <3>1. i - 1 \in DOMAIN Tail(s) /\ (i - 1) + 1 = i
      BY <1>1, <2>2
    <3>2. Tail(s)[i - 1] = s[i]
      BY <1>1, <1>2, <3>1
    <3> QED BY <3>1, <3>2
  <2> QED BY <2>1, <2>2
<1>4. ASSUME NEW i \in DOMAIN Tail(s) PROVE Tail(s)[i] \in {s[j] : j \in DOMAIN s}
  <2>1. i + 1 \in DOMAIN s
    BY <1>1
  <2> QED BY <1>1, <1>2, <2>1
<1>5. Head(s) \in {s[j] : j \in DOMAIN s}
  BY <1>1, <1>2
<1> QED BY <1>3, <1>4, <1>5

\* Nothing of it is touched.
LEMMA ResolvingStays ==
    ASSUME NEW d \in Calls, Resolving(d), UNCHANGED ask,
           targets'[d] = targets[d], left'[d] = left[d],
           srv'[d] \in {"auth", "work"} =>
              srv[d] = srv'[d] /\ Membership' \subseteq ever'[d] /\ stable'[d] \subseteq Membership',
           ask[d].do = "run" /\ srv'[d] \in {"work", "create", "audit", "done"} /\ status'[d] # 401 =>
              /\ srv[d] \in {"work", "create", "audit", "done"} /\ status[d] # 401
              /\ ever[d] \subseteq ever'[d] /\ stable'[d] \subseteq stable[d]
    PROVE  Resolving(d)'
<1>1. Watching(d)'
  BY DEF Watching
<1>2. Named(d)' = Named(d)
  BY DEF Named
<1>3. LeftOver(d)' = LeftOver(d)
  BY DEF LeftOver
<1>4. ASSUME Picked(d), ever[d] \subseteq ever'[d], stable'[d] \subseteq stable[d] PROVE Picked(d)'
  <2>1. \A a \in targets'[d] \ ask'[d].agents : \E g \in Named(d)' : <<g, a>> \in ever'[d]
    BY <1>2, <1>4 DEF Picked
  <2>2. \A g \in Named(d)', a \in Agents :
          <<g, a>> \in stable'[d] => a \in targets'[d] \/ g \in LeftOver(d)'
    BY <1>2, <1>3, <1>4 DEF Picked
  <2>3. LeftOver(d)' \subseteq Named(d)'
    BY <1>2, <1>3, <1>4 DEF Picked
  <2> QED BY <2>1, <2>2, <2>3 DEF Picked
<1> QED BY <1>1, <1>4 DEF Resolving

LEMMA ResolvingStep ==
    Base /\ (\A d \in Calls : Resolving(d)) /\ [Next]_vars => \A d \in Calls : Resolving(d)'
<1> SUFFICES ASSUME Base, \A d \in Calls : Resolving(d), [Next]_vars, NEW d \in Calls
             PROVE  Resolving(d)'
  OBVIOUS
<1>0. Types /\ (\A c \in Calls : Progress(c)) /\ UNCHANGED ask /\ Types'
  <2>1. Types /\ (\A c \in Calls : Progress(c)) /\ Types'
    BY BaseStep DEF Base
  <2> QED BY <2>1, StepFrame
<1>a. Membership = {ga \in GroupIds \X Agents : ga[2] \in groups[ga[1]].members}
  BY <1>0, MembersAreAgents DEF Membership, Types, Typed
<1>1. ASSUME Same(d), UNCHANGED groups, ever'[d] = ever[d], stable'[d] = stable[d] PROVE Resolving(d)'
  <2>1. Membership' = Membership
    BY <1>1 DEF Membership
  <2>2. Watching(d)
    BY DEF Resolving
  <2> QED BY <1>0, <1>1, <2>1, <2>2, ResolvingStays DEF Same, Watching
<1>2. CASE UNCHANGED vars
  BY <1>1, <1>2 DEF vars, Same, cliVars, srvVars, pastVars
<1>3. ASSUME NEW c \in Calls, Client(c) PROVE Resolving(d)'
  <2>1. UNCHANGED groups
    BY <1>0, <1>3, ClientFrame
  <2>2. CASE c = d /\ UNCHANGED <<srvVars, pastVars>>
    <3>1. Membership' = Membership
      BY <2>1 DEF Membership
    <3>2. Watching(d)
      BY DEF Resolving
    <3>3. UNCHANGED <<srv, status, left, targets, ever, stable>>
      BY <2>2 DEF srvVars, pastVars
    <3> QED BY <1>0, <3>1, <3>2, <3>3, ResolvingStays DEF Watching
  <2>3. CASE c = d /\ Post(c)
    <3>1. srv'[d] = "auth" /\ ever'[d] = Membership /\ stable'[d] = Membership
      BY <1>0, <2>3 DEF Post, Types, ServerTyped
    <3>2. Membership' = Membership
      BY <2>1 DEF Membership
    <3> QED BY <3>1, <3>2 DEF Resolving, Watching
  <2>4. CASE c # d
    BY <1>0, <1>1, <1>3, <2>4, ClientFrame
  <2> QED BY <1>0, <1>3, <2>2, <2>3, <2>4, ClientFrame
<1>4. ASSUME NEW c \in Calls, Handler(c) PROVE Resolving(d)'
  <2>1. CASE PostGroup(c)
    <3>1. Membership' = {ga \in GroupIds \X Agents : ga[2] \in groups'[ga[1]].members}
      BY <1>0, MembersAreAgents DEF Membership, Types, Typed
    <3>2. /\ ever'[d] = IF srv[d] \in {"auth", "work"} THEN ever[d] \cup Membership' ELSE ever[d]
          /\ stable'[d] = IF srv[d] \in {"auth", "work"} THEN stable[d] \cap Membership' ELSE stable[d]
      BY <2>1 DEF PostGroup, Remember
    <3>3. ever[d] \subseteq ever'[d] /\ stable'[d] \subseteq stable[d]
      BY <3>2
    <3>4. targets' = targets /\ left' = left
      BY <2>1 DEF PostGroup
    <3>5. CASE c # d
      <4>1. srv'[d] = srv[d] /\ status'[d] = status[d]
        BY <1>0, <1>4, <3>5, HandlerFrame DEF Same
      <4>2. srv'[d] \in {"auth", "work"} =>
              srv[d] = srv'[d] /\ Membership' \subseteq ever'[d] /\ stable'[d] \subseteq Membership'
        BY <3>2, <4>1
      <4> QED BY <1>0, <3>3, <3>4, <4>1, <4>2, ResolvingStays
    <3>6. CASE c = d
      <4>1. PICK code \in {202, 500} : Answers(c, code)
        BY <2>1 DEF PostGroup
      <4>2. srv'[d] = "audit" /\ ask[d].do # "run"
        BY <1>0, <2>1, <3>6, <4>1 DEF PostGroup, Answers, Edits, Types, ServerTyped
      <4> QED BY <1>0, <4>2 DEF Resolving, Watching
    <3> QED BY <3>5, <3>6
  <2>2. CASE UNCHANGED <<groups, ever, stable>>
    <3>0. Membership' = Membership
      BY <2>2 DEF Membership
    <3>a. Watching(d)
      BY DEF Resolving
    <3>1. CASE c # d
      BY <1>0, <1>1, <1>4, <2>2, <3>1, HandlerFrame
    <3>2. CASE c = d /\ RequireOperatorAuth(c)
      <4>1. CASE Authorized(c)
        <5>1. /\ srv'[d] = "work" /\ srv[d] = "auth"
              /\ ask[d].do = "run" => left'[d] = ask[d].groups /\ targets'[d] = ask[d].agents
          BY <1>0, <3>2, <4>1 DEF RequireOperatorAuth, Types, ServerTyped
        <5>2. Watching(d)'
          BY <2>2, <3>0, <3>a, <5>1 DEF Watching
        <5>3. ask[d].do = "run" => LeftOver(d)' = Named(d)'
          BY <1>0, <5>1 DEF LeftOver, Named
        <5>4. ask[d].do = "run" => Picked(d)'
          BY <1>0, <5>1, <5>3 DEF Picked
        <5> QED BY <1>0, <5>2, <5>4 DEF Resolving
      <4>2. CASE ~Authorized(c)
        <5>1. srv'[d] = "done" /\ status'[d] = 401
          BY <1>0, <3>2, <4>2 DEF RequireOperatorAuth, Types, ServerTyped
        <5> QED BY <5>1 DEF Resolving, Watching
      <4> QED BY <4>1, <4>2
    <3>3. CASE c = d /\ ResolveGroup(c)
      <4> DEFINE g == Head(left[d])
      <4>1. left[d] \in Seq(GroupIds) /\ left[d] # <<>>
        BY <1>0, <3>3 DEF ResolveGroup, Types, ServerTyped
      <4>2. g \in GroupIds
        BY <4>1
      <4>3. /\ srv'[d] = "work" /\ srv[d] = "work" /\ status' = status /\ ask[d].do = "run"
            /\ status[d] # 401
            /\ targets'[d] = targets[d] \cup groups[g].members /\ left'[d] = Tail(left[d])
        <5>1. srv[d] = "work" /\ srv' = srv /\ status' = status
          BY <3>3 DEF ResolveGroup
        <5>2. status[d] = None /\ ask[d].do = "run"
          BY <1>0, <4>1, <5>1 DEF Progress
        <5>3. status[d] # 401
          BY <5>2, NoneAssumption
        <5>4. targets'[d] = targets[d] \cup groups[g].members /\ left'[d] = Tail(left[d])
          BY <1>0, <3>3 DEF ResolveGroup, Types, ServerTyped
        <5> QED BY <5>1, <5>2, <5>3, <5>4
      <4>4. LeftOver(d) = {g} \cup LeftOver(d)'
        <5>1. LeftOver(d)' = {Tail(left[d])[i] : i \in DOMAIN Tail(left[d])}
          BY <4>3 DEF LeftOver
        <5>2. LeftOver(d) = {g} \cup {Tail(left[d])[i] : i \in DOMAIN Tail(left[d])}
          BY <4>1, HeadAndTail DEF LeftOver
        <5> QED BY <5>1, <5>2
      <4>5. Picked(d) /\ Membership \subseteq ever[d] /\ stable[d] \subseteq Membership
        BY <4>3 DEF Resolving, Watching
      <4>6. PICK h : h = g
        OBVIOUS
      <4> HIDE DEF g
      <4>7. h \in Named(d) /\ Named(d)' = Named(d)
        BY <1>0, <4>4, <4>5, <4>6 DEF Picked, Named
      <4>8. \A a \in Agents : <<h, a>> \in Membership <=> a \in groups[h].members
        BY <1>a, <4>2, <4>6
      <4>9. groups[h].members \subseteq Agents
        BY <1>0, <4>2, <4>6 DEF Types, Typed, GroupRows
      <4>10. ASSUME NEW a \in targets'[d] \ ask'[d].agents
             PROVE  \E k \in Named(d)' : <<k, a>> \in ever'[d]
        <5>1. CASE a \in targets[d]
          BY <1>0, <2>2, <4>5, <4>7, <5>1 DEF Picked
        <5>2. CASE a \in groups[h].members
          BY <2>2, <4>5, <4>7, <4>8, <4>9, <5>2
        <5> QED BY <4>3, <4>6, <5>1, <5>2
      <4>11. ASSUME NEW k \in Named(d)', NEW a \in Agents, <<k, a>> \in stable'[d]
             PROVE  a \in targets'[d] \/ k \in LeftOver(d)'
        <5>1. a \in targets[d] \/ k \in LeftOver(d)
          BY <2>2, <4>5, <4>7, <4>11 DEF Picked
        <5>2. k = h => a \in groups[h].members
          BY <2>2, <4>5, <4>8, <4>11
        <5> QED BY <4>3, <4>4, <4>6, <5>1, <5>2
      <4>12. LeftOver(d)' \subseteq Named(d)'
        BY <4>4, <4>5, <4>7 DEF Picked
      <4>13. Picked(d)'
        BY <4>10, <4>11, <4>12 DEF Picked
      <4>14. Watching(d)'
        BY <2>2, <3>0, <4>3, <4>5 DEF Watching
      <4> QED BY <4>13, <4>14 DEF Resolving
    <3>4. CASE /\ c = d
               /\ \/ ResolveFails(c) \/ Resolved(c) \/ CreateTask(c) \/ CancelRead(c)
                  \/ CancelWrite(c) \/ CancelFails(c) \/ OplogMiddleware(c)
      <4>1. UNCHANGED <<left, targets>>
        BY <3>4 DEF ResolveFails, Resolved, CreateTask, CancelRead, CancelWrite, CancelFails,
           OplogMiddleware
      <4>2. /\ srv[d] \in {"work", "create", "write", "audit"}
            /\ srv[d] = "audit" => status' = status
        BY <3>4 DEF ResolveFails, Resolved, CreateTask, CancelRead, CancelWrite, CancelFails,
           OplogMiddleware
      <4>3. srv'[d] \notin {"auth", "work"}
        <5> USE <1>0, <3>4 DEF Types, ServerTyped, Answers
        <5>1. CASE ResolveFails(c) \/ CancelWrite(c) \/ CancelFails(c) \/ OplogMiddleware(c)
          BY <5>1 DEF ResolveFails, CancelWrite, CancelFails, OplogMiddleware
        <5>2. CASE Resolved(c)
          BY <5>2 DEF Resolved
        <5>3. CASE CancelRead(c)
          BY <5>3 DEF CancelRead
        <5>4. CASE CreateTask(c)
          <6>1. \/ UNCHANGED <<srv, status>>
                \/ \E code \in {202, 500} : Answers(c, code)
            BY <5>4 DEF CreateTask, Deny, Queue, QueueFails, NextTarget
          <6> QED BY <5>4, <6>1 DEF CreateTask
        <5> QED BY <5>1, <5>2, <5>3, <5>4
      <4>4. srv[d] # "audit" => status[d] = None
        BY <1>0, <4>2 DEF Progress
      <4>5. ask[d].do = "run" => srv[d] # "write"
        BY <1>0 DEF Progress
      <4>6. status'[d] # 401 => status[d] # 401
        BY <4>2, <4>4, NoneAssumption
      <4> QED BY <1>0, <2>2, <4>1, <4>2, <4>3, <4>5, <4>6, ResolvingStays
    <3> QED BY <1>4, <2>1, <3>1, <3>2, <3>3, <3>4 DEF Handler
  <2> QED BY <1>4, <2>1, <2>2 DEF Handler, RequireOperatorAuth, ResolveGroup, ResolveFails,
        Resolved, CreateTask, CancelRead, CancelWrite, CancelFails, OplogMiddleware, pastVars
<1>5. CASE Keeps /\ UNCHANGED <<groups, ask, cliVars, srvVars, pastVars>>
  BY <1>0, <1>1, <1>5, KeepsFrame DEF pastVars
<1>6. CASE Crash
  <2>1. UNCHANGED <<groups, left, targets, ever, stable, status>>
    BY <1>6 DEF Crash, pastVars
  <2>2. srv'[d] = (IF srv[d] \in InHand THEN "lost" ELSE srv[d])
    BY <1>6 DEF Crash
  <2>3. srv'[d] \notin {"auth", "work", "create", "audit"} /\ (srv'[d] = "done" => srv[d] = "done")
    BY <2>2 DEF InHand
  <2> QED BY <1>0, <2>1, <2>3, ResolvingStays
<1> QED BY <1>2, <1>3, <1>4, <1>5, <1>6 DEF Next

-----------------------------------------------------------------------------
(***************************************************************************)
(* What the log says of what is in the tables.                             *)
(***************************************************************************)

\* Only a batch that is being worked on makes rows.
LEMMA NoNewRow ==
    ASSUME Base, [Next]_vars, NEW c \in Calls, NEW a \in Agents, srv[c] # "create",
           row'[<<c, a>>] # None
    PROVE  row[<<c, a>>] # None /\ row'[<<c, a>>].born = row[<<c, a>>].born
<1> DEFINE t == <<c, a>>
<1>0. Types /\ (\A d \in Calls : Progress(d)) /\ t \in TaskIds
  BY DEF Base, TaskIds
<1>a. PICK u \in TaskIds : u = t
  BY <1>0
<1> HIDE DEF t
<1> SUFFICES row[u] # None /\ row'[u].born = row[u].born
  BY <1>a DEF t
<1>b. row'[u] # None /\ row \in [TaskIds -> Rows \cup {None}]
  BY <1>0, <1>a DEF t, Types, Typed
<1>1. ASSUME row' = row PROVE row[u] # None /\ row'[u].born = row[u].born
  BY <1>b, <1>1
<1>2. ASSUME NEW v \in TaskIds, row[v] # None, NEW s, row' = [row EXCEPT ![v].state = s]
      PROVE  row[u] # None /\ row'[u].born = row[u].born
  <2>1. CASE u = v
    <3>1. row[u] \in Rows /\ row'[u] = [row[u] EXCEPT !.state = s]
      BY <1>b, <1>2, <2>1
    <3> QED BY <1>2, <2>1, <3>1 DEF Rows
  <2>2. CASE u # v
    BY <1>b, <1>2, <2>2
  <2> QED BY <2>1, <2>2
<1>3. CASE UNCHANGED vars
  BY <1>1, <1>3 DEF vars, auditVars
<1>4. ASSUME NEW d \in Calls, Client(d) PROVE row' = row
  BY <1>0, <1>4, ClientFrame
<1>5. ASSUME NEW d \in Calls, Handler(d) PROVE row[u] # None /\ row'[u].born = row[u].born
  <2>1. CASE CreateTask(d)
    <3>1. d # c
      BY <2>1 DEF CreateTask
    <3>2. PICK b : Deny(d, b) \/ Queue(d, b) \/ QueueFails(d, b)
      BY <2>1 DEF CreateTask
    <3>3. row' = row \/ row' = [row EXCEPT ![<<d, b>>] = [state |-> "queued", born |-> day]]
      BY <3>2 DEF Deny, Queue, QueueFails
    <3>4. <<d, b>> # u
      BY <3>1, <1>a DEF t
    <3>5. row'[u] = row[u]
      BY <1>b, <3>3, <3>4
    <3> QED BY <1>b, <3>5
  <2>2. CASE CancelWrite(d)
    <3> DEFINE v == ask[d].task
    <3>1. v \in TaskIds
      BY <1>0, <2>2 DEF CancelWrite, Progress, Types, Typed, Asked, AskOK
    <3> HIDE DEF v
    <3>2. PICK s : row' = IF row[v] = None THEN row ELSE [row EXCEPT ![v].state = s]
      BY <2>2 DEF CancelWrite, v
    <3> QED BY <1>1, <1>2, <3>1, <3>2
  <2> QED BY <1>1, <1>5, <2>1, <2>2 DEF Handler, RequireOperatorAuth, PostGroup, ResolveGroup,
        ResolveFails, Resolved, CancelRead, CancelFails, OplogMiddleware, auditVars
<1>6. CASE Keeps
  <2>1. ASSUME NEW v \in TaskIds, Dispatched(v) PROVE row[u] # None /\ row'[u].born = row[u].born
    BY <1>2, <2>1 DEF Dispatched
  <2>2. ASSUME NEW v \in TaskIds, Reaped(v) PROVE row[u] # None /\ row'[u].born = row[u].born
    BY <1>2, <2>2 DEF Reaped
  <2>3. ASSUME NEW v \in TaskIds, NEW s \in {"success", "failed"}, SaveResult(v, s)
        PROVE  row[u] # None /\ row'[u].born = row[u].born
    BY <1>2, <2>3 DEF SaveResult
  <2>4. CASE PruneAudits
    BY <1>b, <2>4 DEF PruneAudits
  <2> QED BY <1>1, <1>6, <2>1, <2>2, <2>3, <2>4 DEF Keeps, Discarded, LogAgentEvent, PruneFails, NewDay
<1>7. CASE Crash
  BY <1>1, <1>7 DEF Crash
<1> QED BY <1>1, <1>3, <1>4, <1>5, <1>6, <1>7 DEF Next

\* A request that has been answered is not worked on any more; its row is written.
LEMMA Answered ==
    ASSUME Base, [Next]_vars, NEW c \in Calls, srv[c] \in {"audit", "done", "lost"}
    PROVE  /\ srv'[c] \in {"audit", "done", "lost"}
           /\ status'[c] = status[c] /\ made'[c] = made[c] /\ denied'[c] = denied[c]
           /\ srv'[c] = "done" => srv[c] = "done" \/ OplogMiddleware(c)
<1>0. Types /\ (\A d \in Calls : Progress(d))
  BY DEF Base
<1>1. ASSUME Same(c) PROVE /\ srv'[c] = srv[c] /\ status'[c] = status[c]
                           /\ made'[c] = made[c] /\ denied'[c] = denied[c]
  BY <1>1 DEF Same
<1>2. CASE UNCHANGED vars
  BY <1>2 DEF vars, srvVars
<1>3. ASSUME NEW d \in Calls, Client(d) PROVE UNCHANGED <<status, made, denied>> /\ srv'[c] = srv[c]
  <2>1. CASE UNCHANGED <<srvVars, pastVars>>
    BY <2>1 DEF srvVars
  <2>2. CASE Post(d) /\ cli[d] \in {"idle", "edit"}
    <3>1. srv[d] = "none"
      BY <1>0, <2>2 DEF Progress
    <3>2. srv' = [srv EXCEPT ![d] = "auth"] /\ UNCHANGED <<status, made, denied>>
      BY <2>2 DEF Post
    <3> QED BY <1>0, <3>1, <3>2 DEF Types, ServerTyped
  <2> QED BY <1>0, <1>3, <2>1, <2>2, ClientFrame
<1>4. ASSUME NEW d \in Calls, Handler(d), d # c PROVE Same(c)
  BY <1>0, <1>4, HandlerFrame
<1>5. ASSUME Handler(c) PROVE /\ OplogMiddleware(c) /\ srv'[c] = "done"
                              /\ UNCHANGED <<status, made, denied>>
  <2>1. OplogMiddleware(c)
    BY <1>5 DEF Handler, RequireOperatorAuth, PostGroup, ResolveGroup, ResolveFails,
       Resolved, CreateTask, CancelRead, CancelWrite, CancelFails
  <2> QED BY <1>0, <2>1 DEF OplogMiddleware, Types, ServerTyped
<1>6. CASE Keeps /\ UNCHANGED <<groups, ask, cliVars, srvVars, pastVars>>
  BY <1>6 DEF srvVars
<1>7. CASE Crash
  <2>1. UNCHANGED <<status, made, denied>>
    BY <1>7 DEF Crash
  <2>2. srv'[c] = (IF srv[c] \in InHand THEN "lost" ELSE srv[c])
    BY <1>7 DEF Crash
  <2> QED BY <2>1, <2>2
<1> QED BY <1>1, <1>2, <1>3, <1>4, <1>5, <1>6, <1>7 DEF Next

\* No other request comes to its end but by the refusal of the token.
LEMMA Ends ==
    ASSUME Base, [Next]_vars, NEW c \in Calls, srv'[c] = "done"
    PROVE  \/ srv[c] \in {"done", "audit"}
           \/ srv[c] = "auth" /\ made'[c] = {}
<1>0. Types /\ (\A d \in Calls : Progress(d))
  BY DEF Base
<1>1. CASE UNCHANGED vars
  BY <1>1 DEF vars, srvVars
<1>2. ASSUME NEW d \in Calls, Client(d) PROVE srv[c] = "done"
  BY <1>0, <1>2, ClientFrame DEF srvVars, Post, Types, ServerTyped
<1>3. ASSUME NEW d \in Calls, Handler(d), d # c PROVE srv[c] = "done"
  BY <1>0, <1>3, HandlerFrame DEF Same
<1>4. ASSUME Handler(c), srv[c] \notin {"audit", "auth"} PROVE FALSE
  <2> USE <1>0 DEF Types, ServerTyped, Answers
  <2>1. CASE PostGroup(c)
    BY <2>1 DEF PostGroup
  <2>2. CASE ResolveGroup(c) \/ ResolveFails(c)
    BY <2>2 DEF ResolveGroup, ResolveFails
  <2>3. CASE Resolved(c)
    BY <2>3 DEF Resolved
  <2>4. CASE CreateTask(c)
    <3>1. \/ UNCHANGED <<srv, status>>
          \/ \E code \in {202, 500} : Answers(c, code)
      BY <2>4 DEF CreateTask, Deny, Queue, QueueFails, NextTarget
    <3> QED BY <2>4, <3>1 DEF CreateTask
  <2>5. CASE CancelRead(c)
    BY <2>5 DEF CancelRead
  <2>6. CASE CancelWrite(c) \/ CancelFails(c)
    BY <2>6 DEF CancelWrite, CancelFails
  <2> QED BY <1>4, <2>1, <2>2, <2>3, <2>4, <2>5, <2>6 DEF Handler, RequireOperatorAuth, OplogMiddleware
<1>5. ASSUME Handler(c), srv[c] = "auth" PROVE made'[c] = {}
  <2>1. RequireOperatorAuth(c)
    BY <1>5 DEF Handler, PostGroup, ResolveGroup, ResolveFails,
       Resolved, CreateTask, CancelRead, CancelWrite, CancelFails, OplogMiddleware
  <2>2. made[c] = {}
    BY <1>0, <1>5 DEF Progress
  <2> QED BY <2>1, <2>2 DEF RequireOperatorAuth
<1>6. CASE Keeps /\ UNCHANGED <<groups, ask, cliVars, srvVars, pastVars>>
  BY <1>6 DEF srvVars
<1>7. CASE Crash
  BY <1>7 DEF Crash
<1> QED BY <1>1, <1>2, <1>3, <1>4, <1>5, <1>6, <1>7 DEF Next

\* The row that oplogMiddleware writes, or loses.
LEMMA Logged ==
    ASSUME Base, NEW c \in Calls, OplogMiddleware(c), NEW z \in Nat, z <= day
    PROVE  \E R \in Refs(c) : \A S \in SUBSET R :
             TracedSince("operator", c, status[c] = 202, S, z)'
<1>0. Types /\ Progress(c) /\ srv[c] = "audit" /\ status' = status
  BY DEF Base, OplogMiddleware
<1>1. PICK R \in Refs(c) : AppendOpLog(OpLogEntry("operator", c, status[c] = 202, R))
  BY DEF OplogMiddleware
<1>2. PICK ok \in BOOLEAN : ok = (status[c] = 202)
  BY Zenon
<1> DEFINE e == OpLogEntry("operator", c, ok, R)
<1>3. e \in Entries /\ AppendOpLog(e)
  BY <1>0, <1>1, <1>2, RefsTyped
<1>4. e.plane = "operator" /\ e.about = c /\ e.ok = ok /\ e.refs = R /\ e.ts = day
  BY DEF OpLogEntry
<1> HIDE DEF e
<1>5. PICK f : f = e
  OBVIOUS
<1>6. f \in oplog' \/ <<f.plane, f.about, f.ok>> \in unlogged'
  BY <1>0, <1>3, <1>5, AppendTyped
<1>7. ASSUME NEW S \in SUBSET R PROVE TracedSince("operator", c, ok, S, z)'
  BY <1>4, <1>5, <1>6 DEF TracedSince
<1>8. ok = (status'[c] = 202)
  BY <1>0, <1>2
<1>9. ASSUME NEW S \in SUBSET R PROVE TracedSince("operator", c, status[c] = 202, S, z)'
  BY <1>7, <1>8 DEF TracedSince
<1> QED BY <1>9

\* The ids of a batch are as many as its targets.
LEMMA BatchIds ==
    ASSUME Base, NEW c \in Calls, status[c] = 202, ask[c].do = "run"
    PROVE  /\ Ids(c) = {<<c, x>> : x \in made[c] \cup denied[c]}
           /\ Cardinality(Ids(c)) \in Nat /\ Cardinality(made[c] \cup denied[c]) \in Nat
           /\ Cardinality(Ids(c)) <= Cardinality(made[c] \cup denied[c])
<1> DEFINE M == made[c] \cup denied[c]
<1>1. Ids(c) = {<<c, x>> : x \in M}
  BY DEF Ids
<1>2. M \subseteq Agents
  BY DEF Base, Types, ServerTyped
<1>3. IsFiniteSet(M)
  BY <1>2, Bounds, FS_Subset
<1> DEFINE f == [x \in M |-> <<c, x>>]
<1>4. f \in Surjection(M, Ids(c))
  BY <1>1 DEF Surjection
<1> HIDE DEF f, M
<1>5. IsFiniteSet(Ids(c)) /\ Cardinality(Ids(c)) <= Cardinality(M)
  BY <1>3, <1>4, FS_Surjection
<1>6. Cardinality(Ids(c)) \in Nat /\ Cardinality(M) \in Nat
  BY <1>3, <1>5, FS_CardinalityType
<1> QED BY <1>1, <1>5, <1>6 DEF M

LEMMA TasksTraced ==
    ASSUME Base, RowsOK, \A c \in Calls, a \in Agents : TaskTraced(c, a), [Next]_vars,
           NEW c \in Calls, NEW a \in Agents
    PROVE  TaskTraced(c, a)'
<1> DEFINE t == <<c, a>>
<1> SUFFICES ASSUME row'[t] # None, srv'[c] = "done" PROVE TaskTraced(c, a)'
  BY DEF TaskTraced
<1>0. Types /\ (\A d \in Calls : Progress(d) /\ Shares(d)) /\ RowOK(c, a) /\ RowOK(c, a)'
  BY RowsStep DEF Base, RowsOK
<1>1. srv[c] \in {"done", "audit"}
  <2>1. a \in made'[c]
    BY <1>0 DEF RowOK
  <2> QED BY <2>1, Ends
<1>2. row[t] # None /\ row'[t].born = row[t].born
  BY <1>1, NoNewRow
<1>3. status'[c] = status[c] /\ made'[c] = made[c] /\ denied'[c] = denied[c]
  BY <1>1, Answered
<1>4. PICK z \in Nat : z = row[t].born
  BY <1>0, <1>2 DEF Types, Typed, Rows, TaskIds
<1>5. PICK N : N = Cardinality(made[c] \cup denied[c])
  OBVIOUS
\* It is enough to say it for the day.
<1>6. ASSUME \/ TracedSince("operator", c, TRUE, {<<c, a>>}, z)'
             \/ status[c] = 500 /\ TracedSince("operator", c, FALSE, {}, z)'
             \/ N > RefCap /\ TracedSince("operator", c, TRUE, {}, z)'
             \/ Old(z)'
      PROVE  TaskTraced(c, a)'
  <2>1. z = row'[t].born /\ N = Cardinality(made'[c] \cup denied'[c])
    BY <1>2, <1>3, <1>4, <1>5
  <2>2. /\ TracedSince("operator", c, TRUE, {<<c, a>>}, z)' =>
              TracedSince("operator", c, TRUE, {<<c, a>>}, row[<<c, a>>].born)'
        /\ TracedSince("operator", c, FALSE, {}, z)' =>
              TracedSince("operator", c, FALSE, {}, row[<<c, a>>].born)'
        /\ TracedSince("operator", c, TRUE, {}, z)' =>
              TracedSince("operator", c, TRUE, {}, row[<<c, a>>].born)'
        /\ Old(z)' => Old(row[<<c, a>>].born)'
    BY <2>1 DEF TracedSince, Old
  <2> QED BY <1>3, <1>6, <2>1, <2>2 DEF TaskTraced
<1>7. CASE srv[c] = "done"
  <2>1. \/ TracedSince("operator", c, TRUE, {<<c, a>>}, z)
        \/ status[c] = 500 /\ TracedSince("operator", c, FALSE, {}, z)
        \/ N > RefCap /\ TracedSince("operator", c, TRUE, {}, z)
        \/ Old(z)
    <3>1. TaskTraced(c, a)
      OBVIOUS
    <3> QED BY <1>2, <1>4, <1>5, <1>7, <3>1 DEF TaskTraced
  <2>2. \A d \in Calls : Progress(d)
    BY <1>0
  <2>3. ASSUME NEW ok \in BOOLEAN, NEW refs, TracedSince("operator", c, ok, refs, z)
        PROVE  TracedSince("operator", c, ok, refs, z)' \/ Old(z)'
    BY <1>0, <2>2, <2>3, TraceStays
  <2>4. CASE TracedSince("operator", c, TRUE, {<<c, a>>}, z)
    BY <1>6, <2>3, <2>4
  <2>5. CASE status[c] = 500 /\ TracedSince("operator", c, FALSE, {}, z)
    <3>1. TracedSince("operator", c, FALSE, {}, z)' \/ Old(z)'
      <4>1. PICK no \in BOOLEAN : no = FALSE
        BY Zenon
      <4>2. TracedSince("operator", c, no, {}, z)
        BY <2>5, <4>1, Zenon
      <4>3. TracedSince("operator", c, no, {}, z)' \/ Old(z)'
        BY <2>3, <4>2
      <4> QED BY <4>1, <4>3, Zenon
    <3> QED BY <1>6, <2>5, <3>1
  <2>6. CASE N > RefCap /\ TracedSince("operator", c, TRUE, {}, z)
    BY <1>6, <2>3, <2>6
  <2>7. CASE Old(z)
    BY <1>0, <1>6, <2>2, <2>7, OldStays
  <2> QED BY <2>1, <2>4, <2>5, <2>6, <2>7
<1>8. CASE srv[c] = "audit"
  <2>1. OplogMiddleware(c)
    BY <1>8, Answered
  <2>2. z <= day
    BY <1>0, <1>2, <1>4 DEF RowOK
  <2>3. PICK R \in Refs(c) : \A S \in SUBSET R :
          TracedSince("operator", c, status[c] = 202, S, z)'
    BY <2>1, <2>2, Logged
  <2>4. a \in made[c] /\ status[c] \in {202, 500}
    BY <1>0, <1>2, <1>8 DEF RowOK, Shares
  <2>5. ask[c].do = "run"
    BY <1>0, <2>4 DEF Progress, Shares
  <2>6. CASE status[c] = 500
    <3>1. TracedSince("operator", c, status[c] = 202, {}, z)'
      BY <2>3
    <3>2. (status'[c] = 202) = FALSE
      BY <1>3, <2>6
    <3>3. TracedSince("operator", c, FALSE, {}, z)'
      BY <3>1, <3>2 DEF TracedSince
    <3> QED BY <1>6, <2>6, <3>3
  <2>7. CASE status[c] = 202
    <3>1. (status'[c] = 202) = TRUE
      BY <1>3, <2>7
    <3>2. ASSUME NEW S \in SUBSET R PROVE TracedSince("operator", c, TRUE, S, z)'
      <4>1. TracedSince("operator", c, status[c] = 202, S, z)'
        BY <2>3
      <4> QED BY <3>1, <4>1 DEF TracedSince
    <3>3. CASE Cardinality(Ids(c)) <= RefCap
      <4>1. R = Ids(c)
        BY <3>3 DEF Refs
      <4>2. {<<c, a>>} \in SUBSET R
        <5>1. Ids(c) = {<<c, x>> : x \in made[c] \cup denied[c]}
          BY <2>5, <2>7, BatchIds
        <5> QED BY <2>4, <4>1, <5>1
      <4> QED BY <1>6, <3>2, <4>2
    <3>4. CASE ~(Cardinality(Ids(c)) <= RefCap)
      <4>1. N > RefCap
        BY <1>5, <2>5, <2>7, <3>4, BatchIds, Bounds
      <4>2. TracedSince("operator", c, TRUE, {}, z)'
        BY <3>2
      <4> QED BY <1>6, <4>1, <4>2
    <3> QED BY <3>3, <3>4
  <2> QED BY <2>4, <2>6, <2>7
<1> QED BY <1>1, <1>7, <1>8

\* Only a POST that is accepted changes a group.
LEMMA OnlyPosts ==
    ASSUME Base, [Next]_vars, NEW g \in GroupIds, groups'[g] # groups[g]
    PROVE  \E c \in Calls :
             /\ srv[c] = "work" /\ srv'[c] = "audit" /\ status'[c] = 202 /\ UNCHANGED <<ask, day>>
             /\ ask[c].do \in {"create"} \cup Edits /\ ask[c].group = g
             /\ groups'[g].by = c /\ groups'[g].written = day
             /\ groups'[g].members = IF ask[c].do = "create" THEN ask[c].members
                                     ELSE EditedMembers(c)
<1>0. Types /\ (\A d \in Calls : Progress(d))
  BY DEF Base
<1>1. PICK c \in Calls : PostGroup(c)
  <2>1. CASE UNCHANGED vars
    BY <2>1 DEF vars
  <2>2. ASSUME NEW c \in Calls, Client(c) PROVE FALSE
    BY <1>0, <2>2, ClientFrame
  <2>3. ASSUME NEW c \in Calls, Handler(c), ~PostGroup(c) PROVE FALSE
    BY <2>3 DEF Handler, RequireOperatorAuth, ResolveGroup, ResolveFails,
       Resolved, CreateTask, CancelRead, CancelWrite, CancelFails, OplogMiddleware
  <2>4. CASE Crash
    BY <2>4 DEF Crash
  <2> QED BY <2>1, <2>2, <2>3, <2>4 DEF Next
<1> DEFINE new     == ask[c].do = "create"
           name    == IF new THEN ask[c].name ELSE seen[c].name
           members == IF new THEN ask[c].members ELSE EditedMembers(c)
           repeats == new /\ ask[c].repeats
<1>2. /\ CreateOrUpdateGroup(ask[c].group, name, members, repeats, c, day)
      /\ Answers(c, IF Acceptable(ask[c].group, name, repeats) THEN 202 ELSE 500)
  BY <1>1 DEF PostGroup
<1> HIDE DEF name, members, repeats
<1>3. /\ Acceptable(ask[c].group, name, repeats)
      /\ groups' = [groups EXCEPT ![ask[c].group] =
                      [name |-> name, members |-> members, by |-> c, written |-> day]]
  BY <1>2 DEF CreateOrUpdateGroup
<1>4. ask[c].group = g
  BY <1>0, <1>3 DEF Types, Typed
<1>5. groups'[g].by = c /\ groups'[g].written = day /\ groups'[g].members = members
  BY <1>0, <1>3, <1>4 DEF Types, Typed
<1>6. srv'[c] = "audit" /\ status'[c] = 202
  BY <1>0, <1>2, <1>3 DEF Answers, Types, ServerTyped
<1>7. srv[c] = "work" /\ ask[c].do \in {"create"} \cup Edits /\ UNCHANGED <<ask, day>>
  BY <1>1 DEF PostGroup
<1> QED BY <1>4, <1>5, <1>6, <1>7 DEF members

LEMMA GroupsTraced ==
    ASSUME Base, \A g \in GroupIds : GroupTraced(g), [Next]_vars, NEW g \in GroupIds
    PROVE  GroupTraced(g)'
<1>0. Types /\ (\A d \in Calls : Progress(d)) /\ Types' /\ UNCHANGED ask
  <2>1. Types /\ (\A d \in Calls : Progress(d)) /\ Types'
    BY BaseStep DEF Base
  <2> QED BY <2>1, StepFrame
<1>1. day \in Nat /\ day' \in Nat /\ day <= day' /\ groups[g].written \in Nat
  <2>1. day <= day'
    BY <1>0, StepFrame
  <2> QED BY <1>0, <2>1 DEF Types, Typed, GroupRows
<1>2. CASE groups'[g] = groups[g]
  <2> SUFFICES ASSUME groups[g].by \in Calls PROVE GroupTraced(g)'
    BY <1>2 DEF GroupTraced
  <2>1. PICK c \in Calls : c = groups[g].by
    OBVIOUS
  <2>2. /\ srv[c] \in {"audit", "done", "lost"} /\ status[c] = 202
        /\ ask[c].do \in {"create"} \cup Edits /\ ask[c].group = g /\ groups[g].written <= day
    BY <2>1 DEF GroupTraced
  <2>3. /\ srv'[c] \in {"audit", "done", "lost"} /\ status'[c] = 202
        /\ srv'[c] = "done" => srv[c] = "done" \/ OplogMiddleware(c)
    BY <2>2, Answered
  <2>4. PICK z \in Nat : z = groups[g].written
    BY <1>1
  <2>5. z = groups'[g].written /\ c = groups'[g].by /\ z <= day'
    BY <1>1, <1>2, <2>1, <2>2, <2>4
  <2>6. ASSUME srv'[c] = "done"
        PROVE  TracedSince("operator", c, TRUE, {g}, z)' \/ Old(z)'
    <3>1. CASE srv[c] = "done"
      <4>1. TracedSince("operator", c, TRUE, {g}, z) \/ Old(z)
        BY <2>1, <2>4, <3>1 DEF GroupTraced
      <4> QED BY <1>0, <4>1, TraceStays, OldStays
    <3>2. CASE OplogMiddleware(c)
      <4>1. PICK R \in Refs(c) : \A S \in SUBSET R :
              TracedSince("operator", c, status[c] = 202, S, z)'
        BY <2>2, <2>4, <3>2, Logged
      <4>2. Ids(c) = {g}
        BY <2>2 DEF Ids, Edits
      <4>3. Cardinality(Ids(c)) <= RefCap
        <5>1. Cardinality({g}) = 1
          BY FS_Singleton
        <5> QED BY <4>2, <5>1, Bounds
      <4>4. R = {g}
        BY <4>2, <4>3 DEF Refs
      <4>5. TracedSince("operator", c, status[c] = 202, {g}, z)'
        BY <4>1, <4>4
      <4>6. (status'[c] = 202) = TRUE
        BY <2>3
      <4> QED BY <4>5, <4>6 DEF TracedSince
    <3> QED BY <2>3, <2>6, <3>1, <3>2
  <2>7. /\ TracedSince("operator", c, TRUE, {g}, z)' =>
              TracedSince("operator", groups[g].by, TRUE, {g}, groups[g].written)'
        /\ Old(z)' => Old(groups[g].written)'
    BY <2>5 DEF TracedSince, Old
  <2>8. /\ srv'[groups'[g].by] \in {"audit", "done", "lost"} /\ status'[groups'[g].by] = 202
        /\ ask'[groups'[g].by].do \in {"create"} \cup Edits /\ ask'[groups'[g].by].group = g
        /\ groups'[g].written <= day'
    BY <1>0, <2>2, <2>3, <2>5
  <2>9. srv'[groups'[g].by] = "done" =>
          \/ TracedSince("operator", groups[g].by, TRUE, {g}, groups[g].written)'
          \/ Old(groups[g].written)'
    BY <2>5, <2>6, <2>7
  <2> QED BY <2>8, <2>9 DEF GroupTraced
<1>3. ASSUME groups'[g] # groups[g] PROVE GroupTraced(g)'
  <2>1. PICK c \in Calls :
          /\ srv'[c] = "audit" /\ status'[c] = 202 /\ day' = day
          /\ ask[c].do \in {"create"} \cup Edits /\ ask[c].group = g
          /\ groups'[g].by = c /\ groups'[g].written = day
    BY <1>3, OnlyPosts
  <2> QED BY <1>0, <1>1, <2>1 DEF GroupTraced
<1> QED BY <1>2, <1>3

LEMMA VerdictStays ==
    ASSUME Base, [Next]_vars, NEW t \in TaskIds, VerdictTraced(t), verdict'[t] = verdict[t],
           <<t, TRUE>> \in loose => \/ <<t, TRUE>> \in loose'
                                    \/ TracedSince("agent", t, TRUE, {t}, day)'
    PROVE  VerdictTraced(t)'
<1> SUFFICES ASSUME verdict[t] # None PROVE VerdictTraced(t)'
  BY DEF VerdictTraced
<1>0. Types /\ (\A d \in Calls : Progress(d)) /\ Types'
  BY BaseStep DEF Base
<1>1. PICK z \in Nat : z = verdict[t].done
  BY <1>0 DEF Types, Typed, Results
<1>2. z <= day /\ day <= day' /\ day \in Nat /\ day' \in Nat
  <2>1. day <= day'
    BY <1>0, StepFrame
  <2> QED BY <1>0, <1>1, <2>1 DEF VerdictTraced, Types, Typed
<1>3. ASSUME verdict[t].by = "agent"
      PROVE  \/ <<t, TRUE>> \in loose'
             \/ TracedSince("agent", t, TRUE, {t}, z)'
             \/ Old(z)'
  <2>1. CASE <<t, TRUE>> \in loose
    <3>1. ASSUME TracedSince("agent", t, TRUE, {t}, day)' PROVE TracedSince("agent", t, TRUE, {t}, z)'
      <4>1. \A e \in oplog' : e.ts \in Nat
        BY <1>0 DEF Types, Typed, Entries
      <4> QED BY <1>2, <3>1, <4>1 DEF TracedSince
    <3> QED BY <2>1, <3>1
  <2>2. CASE TracedSince("agent", t, TRUE, {t}, z)
    BY <1>0, <2>2, TraceStays
  <2>3. CASE Old(z)
    BY <1>0, <2>3, OldStays
  <2> QED BY <1>1, <1>3, <2>1, <2>2, <2>3 DEF VerdictTraced
<1>4. z = verdict'[t].done /\ z <= day'
  BY <1>1, <1>2
<1>5. /\ TracedSince("agent", t, TRUE, {t}, z)' => TracedSince("agent", t, TRUE, {t}, verdict[t].done)'
      /\ Old(z)' => Old(verdict[t].done)'
  BY <1>4 DEF TracedSince, Old
<1> QED BY <1>3, <1>4, <1>5 DEF VerdictTraced

LEMMA VerdictsTraced ==
    ASSUME Base, \A t \in TaskIds : VerdictTraced(t), [Next]_vars, NEW t \in TaskIds
    PROVE  VerdictTraced(t)'
<1>0. Types /\ (\A d \in Calls : Progress(d)) /\ Types'
  BY BaseStep DEF Base
<1>a. day \in Nat
  BY <1>0 DEF Types, Typed
<1>1. ASSUME verdict' = verdict, loose' = loose PROVE VerdictTraced(t)'
  BY <1>1, VerdictStays
\* A result that is not an agent's, or whose log row is still to come.
<1>2. ASSUME NEW u \in TaskIds, NEW s, NEW by, day' = day, loose \subseteq loose',
             verdict' = [verdict EXCEPT ![u] = [status |-> s, by |-> by, done |-> day]],
             by = "agent" => <<u, TRUE>> \in loose'
      PROVE  VerdictTraced(t)'
  <2>1. CASE t = u
    <3>1. verdict'[t].by = by /\ verdict'[t].done = day
      BY <1>0, <1>2, <2>1 DEF Types, Typed
    <3>2. verdict'[t].done <= day'
      BY <1>2, <1>a, <3>1
    <3>3. verdict'[t].by = "agent" => <<t, TRUE>> \in loose'
      BY <1>2, <2>1, <3>1
    <3> QED BY <3>2, <3>3 DEF VerdictTraced
  <2>2. CASE t # u
    <3>1. verdict'[t] = verdict[t]
      BY <1>0, <1>2, <2>2 DEF Types, Typed
    <3> QED BY <1>2, <3>1, VerdictStays
  <2> QED BY <2>1, <2>2
<1>3. CASE UNCHANGED vars
  BY <1>1, <1>3 DEF vars, auditVars
<1>4. ASSUME NEW c \in Calls, Client(c) PROVE VerdictTraced(t)'
  BY <1>0, <1>1, <1>4, ClientFrame
<1>5. ASSUME NEW c \in Calls, Handler(c) PROVE VerdictTraced(t)'
  <2>0. loose' = loose /\ day' = day
    BY <1>0, <1>5, HandlerFrame
  <2>1. CASE CancelWrite(c)
    <3>1. ask[c].task \in TaskIds
      BY <1>0, <2>1 DEF CancelWrite, Progress, Types, Typed, Asked, AskOK
    <3>2. PICK s : \/ verdict' = verdict
                   \/ verdict' = [verdict EXCEPT ![ask[c].task] =
                                    [status |-> s, by |-> "operator", done |-> day]]
      BY <2>1 DEF CancelWrite
    <3>3. CASE verdict' = verdict
      BY <1>1, <2>0, <3>3
    <3>4. CASE verdict' = [verdict EXCEPT ![ask[c].task] =
                            [status |-> s, by |-> "operator", done |-> day]]
      <4>1. PICK by : by = "operator" /\ (by = "agent" => FALSE)
        OBVIOUS
      <4>2. PICK u \in TaskIds : u = ask[c].task
        BY <3>1
      <4>3. verdict' = [verdict EXCEPT ![u] = [status |-> s, by |-> by, done |-> day]]
        BY <3>4, <4>1, <4>2
      <4>4. loose \subseteq loose' /\ (by = "agent" => <<u, TRUE>> \in loose')
        BY <2>0, <4>1
      <4> QED BY <1>2, <2>0, <4>3, <4>4
    <3> QED BY <3>2, <3>3, <3>4
  <2>2. CASE ~CancelWrite(c)
    <3>1. verdict' = verdict
      BY <1>5, <2>2 DEF Handler, RequireOperatorAuth, PostGroup, ResolveGroup, ResolveFails,
         Resolved, CreateTask, CancelRead, CancelFails, OplogMiddleware, auditVars
    <3> QED BY <1>1, <2>0, <3>1
  <2> QED BY <2>1, <2>2
<1>6. CASE Keeps /\ UNCHANGED <<groups, ask, cliVars, srvVars, pastVars>>
  <2>1. ASSUME NEW u \in TaskIds, Dispatched(u) PROVE VerdictTraced(t)'
    BY <1>1, <2>1 DEF Dispatched
  <2>2. ASSUME NEW u \in TaskIds, Reaped(u) PROVE VerdictTraced(t)'
    <3>1. PICK s : verdict' = [verdict EXCEPT ![u] = [status |-> s, by |-> "reaper", done |-> day]]
      BY <2>2 DEF Reaped
    <3>2. UNCHANGED <<day, loose>>
      BY <2>2 DEF Reaped
    <3> QED BY <1>2, <3>1, <3>2
  <2>3. ASSUME NEW u \in TaskIds, Discarded(u) PROVE VerdictTraced(t)'
    BY <2>3, VerdictStays DEF Discarded
  <2>4. ASSUME NEW u \in TaskIds, NEW applied \in BOOLEAN, LogAgentEvent(u, applied)
        PROVE  VerdictTraced(t)'
    <3>1. verdict' = verdict /\ day' = day /\ loose' = loose \ {<<u, applied>>}
          /\ AppendOpLog(OpLogEntry("agent", u, applied, {u}))
      BY <2>4 DEF LogAgentEvent
    <3>2. CASE <<u, applied>> # <<t, TRUE>>
      BY <3>1, <3>2, VerdictStays
    <3>3. CASE u = t /\ applied = TRUE
      <4> DEFINE e == OpLogEntry("agent", t, TRUE, {t})
      <4>1. e \in Entries
        BY <1>0 DEF OpLogEntry, Entries, Types, Typed
      <4>2. e.plane = "agent" /\ e.about = t /\ e.ok = TRUE /\ e.refs = {t} /\ e.ts = day
        BY DEF OpLogEntry
      <4>3. AppendOpLog(e)
        BY <3>1, <3>3
      <4> HIDE DEF e
      <4>4. PICK f : f = e
        OBVIOUS
      <4>5. f \in oplog' \/ <<f.plane, f.about, f.ok>> \in unlogged'
        BY <1>0, <4>1, <4>3, <4>4, AppendTyped
      <4>6. day' <= f.ts
        BY <1>a, <3>1, <4>2, <4>4
      <4>7. f.plane = "agent" /\ f.about = t /\ f.ok = TRUE /\ {t} \subseteq f.refs
        BY <4>2, <4>4
      <4>8. ASSUME f \in oplog' PROVE TracedSince("agent", t, TRUE, {t}, day)'
        BY <4>6, <4>7, <4>8 DEF TracedSince
      <4>9. ASSUME <<f.plane, f.about, f.ok>> \in unlogged' PROVE TracedSince("agent", t, TRUE, {t}, day)'
        BY <4>7, <4>9 DEF TracedSince
      <4>10. TracedSince("agent", t, TRUE, {t}, day)'
        BY <4>5, <4>8, <4>9
      <4> QED BY <3>1, <4>10, VerdictStays
    <3> QED BY <3>2, <3>3
  <2>5. ASSUME NEW u \in TaskIds, NEW s \in {"success", "failed"}, SaveResult(u, s)
        PROVE  VerdictTraced(t)'
    <3>1. /\ verdict' = [verdict EXCEPT ![u] = [status |-> s, by |-> "agent", done |-> day]]
          /\ day' = day /\ loose' = loose \cup {<<u, TRUE>>}
      BY <2>5 DEF SaveResult
    <3> QED BY <1>2, <3>1
  <2>6. CASE PruneAudits
    <3>1. loose' = loose /\ (verdict'[t] = None \/ verdict'[t] = verdict[t])
      BY <2>6 DEF PruneAudits
    <3>2. CASE verdict'[t] = None
      BY <3>2 DEF VerdictTraced
    <3>3. CASE verdict'[t] = verdict[t]
      BY <3>1, <3>3, VerdictStays
    <3> QED BY <3>1, <3>2, <3>3
  <2>7. CASE PruneFails \/ NewDay
    BY <1>1, <2>7 DEF PruneFails, NewDay
  <2> QED BY <1>6, <2>1, <2>2, <2>3, <2>4, <2>5, <2>6, <2>7 DEF Keeps
<1>7. CASE Crash
  <2>1. verdict' = verdict
    BY <1>7 DEF Crash
  <2>2. ASSUME <<t, TRUE>> \in loose PROVE <<"agent", t, TRUE>> \in unlogged'
    <3>1. <<"agent", <<t, TRUE>>[1], <<t, TRUE>>[2]>> \in {<<"agent", r[1], r[2]>> : r \in loose}
      BY <2>2
    <3> QED BY <1>7, <3>1 DEF Crash
  <2>3. <<t, TRUE>> \in loose => TracedSince("agent", t, TRUE, {t}, day)'
    BY <2>2 DEF TracedSince
  <2> QED BY <2>1, <2>3, VerdictStays
<1> QED BY <1>3, <1>4, <1>5, <1>6, <1>7 DEF Next

-----------------------------------------------------------------------------
(***************************************************************************)
(* The theorems.                                                           *)
(***************************************************************************)

\* The inductive invariant.
Inv ==
    /\ Base /\ RowsOK /\ Traces
    /\ \A c \in Calls : ClientOK(c) /\ DenialKept(c) /\ Resolving(c)

LEMMA InitInv == Init => Inv
<1> SUFFICES ASSUME Init PROVE Inv
  OBVIOUS
<1>0. Types
  BY InitTypes
<1>1. /\ row = [t \in TaskIds |-> None] /\ verdict = [t \in TaskIds |-> None]
      /\ groups = Groups0
  BY DEF Init, AuditInit
<1>2. ASSUME NEW c \in Calls PROVE Progress(c) /\ Shares(c)
  <2>1. /\ cli[c] = "idle" /\ srv[c] = "none" /\ status[c] = None /\ left[c] = <<>>
        /\ targets[c] = {} /\ todo[c] = {} /\ made[c] = {} /\ denied[c] = {}
    BY DEF Init
  <2> QED BY <2>1, NoneAssumption DEF Progress, Shares
<1>3. Base
  BY <1>0, <1>2 DEF Base
<1>4. RowsOK
  <2>1. ASSUME NEW c \in Calls PROVE Since(c) /\ made[c] = {}
    BY <1>0 DEF Init, Since, Types, Typed
  <2>2. ASSUME NEW c \in Calls, NEW a \in Agents PROVE RowOK(c, a)
    BY <1>1, <2>1 DEF RowOK, TaskIds
  <2> QED BY <2>1, <2>2 DEF RowsOK
<1>5. Traces
  <2>1. ASSUME NEW c \in Calls, NEW a \in Agents PROVE TaskTraced(c, a)
    BY <1>1 DEF TaskTraced, TaskIds
  <2>2. ASSUME NEW g \in GroupIds PROVE GroupTraced(g)
    <3>1. groups[g].by \notin Calls
      BY <1>1, Beginnings, Bounds
    <3> QED BY <3>1 DEF GroupTraced
  <2>3. ASSUME NEW t \in TaskIds PROVE VerdictTraced(t)
    BY <1>1 DEF VerdictTraced
  <2> QED BY <2>1, <2>2, <2>3 DEF Traces
<1>6. ASSUME NEW c \in Calls PROVE ClientOK(c) /\ DenialKept(c) /\ Resolving(c)
  <2>1. /\ cli[c] = "idle" /\ exit[c] = None /\ srv[c] = "none" /\ denied[c] = {}
    BY DEF Init
  <2>2. exit[c] \notin Codes
    BY <2>1, NoneAssumption
  <2>3. exit[c] \notin {"ok", "gone"}
    BY <2>2 DEF Codes
  <2> QED BY <2>1, <2>2, <2>3 DEF ClientOK, DenialKept, Resolving, Watching
<1> QED BY <1>3, <1>4, <1>5, <1>6 DEF Inv

LEMMA NextInv == Inv /\ [Next]_vars => Inv'
<1> SUFFICES ASSUME Inv, [Next]_vars PROVE Inv'
  OBVIOUS
<1>0. Base /\ RowsOK
  BY DEF Inv
<1>1. Base' /\ RowsOK'
  BY <1>0, BaseStep, RowsStep
<1>2. \A c \in Calls : ClientOK(c)'
  BY <1>0, ClientsStep DEF Inv
<1>3. \A c \in Calls : DenialKept(c)'
  BY <1>0, DenialsStep DEF Inv
<1>4. \A c \in Calls : Resolving(c)'
  BY <1>0, ResolvingStep DEF Inv
<1>5. \A c \in Calls, a \in Agents : TaskTraced(c, a)'
  BY <1>0, TasksTraced DEF Inv, Traces
<1>6. \A g \in GroupIds : GroupTraced(g)'
  BY <1>0, GroupsTraced DEF Inv, Traces
<1>7. \A t \in TaskIds : VerdictTraced(t)'
  BY <1>0, VerdictsTraced DEF Inv, Traces
<1>8. Traces'
  BY <1>5, <1>6, <1>7 DEF Traces
<1> QED BY <1>1, <1>2, <1>3, <1>4, <1>8 DEF Inv

\* The invariant holds in every state, whatever the requests to create tasks,
\* cancel them or edit groups, the faults of the store and the days that pass.
THEOREM Invariance == Spec => []Inv
BY InitInv, NextInv, PTL DEF Spec

\* The tables, the handlers and the invocations of the client have their types.
THEOREM TypeCorrect == Spec => []TypeOK
<1>1. Inv => TypeOK
  <2> SUFFICES ASSUME Inv PROVE TypeOK
    OBVIOUS
  <2>0. Types /\ \A c \in Calls : Progress(c) /\ Shares(c) /\ ClientOK(c)
    BY DEF Inv, Base
  <2>1. /\ day \in 0..MaxDay /\ pruneDue \in BOOLEAN /\ faults \in 0..MaxFaults
        /\ \A t \in TaskIds : row[t] = None \/ row[t] \in Rows
        /\ \A t \in TaskIds : verdict[t] = None \/ verdict[t] \in Results
        /\ \A e \in oplog : e \in Entries
        /\ loose \subseteq TaskIds \X BOOLEAN /\ won \subseteq TaskIds
        /\ unlogged \subseteq {"operator", "plugin", "agent"} \X (Calls \cup TaskIds) \X BOOLEAN
    BY <2>0 DEF Types, Typed
  <2>2. /\ \A g \in GroupIds : groups[g].members \subseteq Agents
        /\ \A c \in Calls : seen[c].members \subseteq Agents
    BY <2>0 DEF Types, Typed, ClientTyped, GroupRows
  <2>3. /\ cli \in [Calls -> {"idle", "members", "edit", "sent", "poll", "exit"}]
        /\ await \in [Calls -> SUBSET Agents] /\ allOK \in [Calls -> BOOLEAN]
        /\ srv \in [Calls -> {"none", "done", "lost"} \cup InHand]
    BY <2>0 DEF Types, ClientTyped, ServerTyped
  <2>4. \A c \in Calls : status[c] \in {None, 202, 400, 401, 404, 500} /\ targets[c] \subseteq Agents
    BY <2>0 DEF Types, ServerTyped, Statuses
  <2>5. \A c \in Calls : /\ (cli[c] = "exit") <=> (exit[c] \in Codes)
                         /\ todo[c] \subseteq targets[c]
                         /\ made[c] \cup denied[c] \subseteq targets[c] \ todo[c]
                         /\ srv[c] = "write" => held[c] \in Open
    BY <2>0 DEF ClientOK, Shares, Progress
  <2> QED BY <2>1, <2>2, <2>3, <2>4, <2>5 DEF TypeOK
<1> QED BY <1>1, Invariance, PTL

\* A batch goes to agents that were named, or were members of a named group at
\* some moment since the request came, and misses none that was a member all the
\* time: resolveTargetAgentIDs looks the groups up one by one while other
\* operators edit them.
THEOREM TargetsAreMembers == Spec => []TargetsOfTheTime
<1>1. Inv => TargetsOfTheTime
  <2> SUFFICES ASSUME Inv, NEW c \in Calls, ask[c].do = "run", status[c] # 401, left[c] = <<>>,
                      srv[c] \in {"create", "audit", "done"}
               PROVE  /\ \A a \in targets[c] \ ask[c].agents : \E g \in Named(c) : <<g, a>> \in ever[c]
                      /\ \A g \in Named(c), a \in Agents : <<g, a>> \in stable[c] => a \in targets[c]
    BY DEF TargetsOfTheTime, Named
  <2>1. Picked(c)
    BY DEF Inv, Resolving
  <2>2. LeftOver(c) = {}
    BY DEF LeftOver
  <2> QED BY <2>1, <2>2 DEF Picked
<1> QED BY <1>1, Invariance, PTL

\* A task that a plugin refused in createTask never has a row, and the
\* refusal is in the log, or could not be written, or the request is old.
THEOREM DeniedTasks == Spec => []DeniedStaysOut
<1>1. Inv => DeniedStaysOut
  <2> SUFFICES ASSUME Inv, NEW c \in Calls, NEW a \in denied[c]
               PROVE  /\ row[<<c, a>>] = None
                      /\ Traced("plugin", <<c, a>>, FALSE, {<<c, a>>}) \/ Old(began[c])
    BY DEF DeniedStaysOut
  <2>1. a \in Agents /\ Shares(c)
    BY DEF Inv, Base, Types, ServerTyped
  <2>2. RowOK(c, a)
    BY <2>1 DEF Inv, RowsOK
  <2>3. row[<<c, a>>] = None
    BY <2>1, <2>2 DEF RowOK, Shares
  <2>4. TracedSince("plugin", <<c, a>>, FALSE, {<<c, a>>}, began[c]) \/ Old(began[c])
    BY DEF Inv, DenialKept
  <2>5. Traced("plugin", <<c, a>>, FALSE, {<<c, a>>}) \/ Old(began[c])
    BY <2>4 DEF TracedSince, Traced
  <2> QED BY <2>3, <2>5
<1> QED BY <1>1, Invariance, PTL

\* run --wait exits with 0 only if every target of the batch succeeded at some
\* time, and reports a task as gone only once retention may have taken it.
THEOREM ExitCodes == Spec => []ExitCodesEarned
<1>1. Inv => ExitCodesEarned
  BY DEF Inv, ClientOK, ExitCodesEarned, ExitZeroEarned, GoneOnlyWhenOld
<1> QED BY <1>1, Invariance, PTL

\* Every task row, group and agent's result that a finished request or a result has
\* left in the tables is named by a row of the operation log, but for a row that was
\* lost, a batch that failed half way or is too long, and what is old enough for
\* retention.
THEOREM LogIsComplete == Spec => []EffectsTraced
<1>1. Inv => EffectsTraced
  <2> SUFFICES ASSUME Inv PROVE EffectsTraced
    OBVIOUS
  <2>1. ASSUME NEW t \in TaskIds, row[t] # None, srv[t[1]] = "done"
        PROVE  \/ Traced("operator", t[1], TRUE, {t})
               \/ status[t[1]] = 500 /\ Traced("operator", t[1], FALSE, {})
               \/ /\ Cardinality(made[t[1]] \cup denied[t[1]]) > RefCap
                  /\ Traced("operator", t[1], TRUE, {})
               \/ Old(row[t].born)
    <3>1. PICK c \in Calls, a \in Agents : t = <<c, a>>
      BY DEF TaskIds
    <3>2. t[1] = c
      BY <3>1
    <3>3. TaskTraced(c, a)
      BY DEF Inv, Traces
    <3>4. \/ TracedSince("operator", c, TRUE, {t}, row[t].born)
          \/ status[c] = 500 /\ TracedSince("operator", c, FALSE, {}, row[t].born)
          \/ /\ Cardinality(made[c] \cup denied[c]) > RefCap
             /\ TracedSince("operator", c, TRUE, {}, row[t].born)
          \/ Old(row[t].born)
      BY <2>1, <3>1, <3>2, <3>3 DEF TaskTraced
    <3>5. /\ TracedSince("operator", c, TRUE, {t}, row[t].born) => Traced("operator", c, TRUE, {t})
          /\ TracedSince("operator", c, FALSE, {}, row[t].born) => Traced("operator", c, FALSE, {})
          /\ TracedSince("operator", c, TRUE, {}, row[t].born) => Traced("operator", c, TRUE, {})
      BY DEF TracedSince, Traced
    <3> QED BY <3>2, <3>4, <3>5
  <2>2. ASSUME NEW g \in GroupIds, groups[g].by \in Calls, srv[groups[g].by] = "done"
        PROVE  Traced("operator", groups[g].by, TRUE, {g}) \/ Old(groups[g].written)
    <3>1. GroupTraced(g)
      BY DEF Inv, Traces
    <3>2. TracedSince("operator", groups[g].by, TRUE, {g}, groups[g].written) \/ Old(groups[g].written)
      BY <2>2, <3>1 DEF GroupTraced
    <3> QED BY <3>2 DEF TracedSince, Traced
  <2>3. ASSUME NEW t \in TaskIds, verdict[t] # None, verdict[t].by = "agent"
        PROVE  <<t, TRUE>> \in loose \/ Traced("agent", t, TRUE, {t}) \/ Old(verdict[t].done)
    <3>1. VerdictTraced(t)
      BY DEF Inv, Traces
    <3>2. \/ <<t, TRUE>> \in loose
          \/ TracedSince("agent", t, TRUE, {t}, verdict[t].done) \/ Old(verdict[t].done)
      BY <2>3, <3>1 DEF VerdictTraced
    <3> QED BY <3>2 DEF TracedSince, Traced
  <2> QED BY <2>1, <2>2, <2>3 DEF EffectsTraced
<1> QED BY <1>1, Invariance, PTL

\* groups add and groups remove, which read a group and put it back, undo another
\* operator's change only if that came after what they read.
THEOREM EditsUndoOnlyUnseen == Spec => UndoesOnlyUnseen
<1>1. ASSUME Inv, [Next]_vars, NEW g \in GroupIds, groups'[g] # groups[g]
      PROVE  LET c == groups'[g].by IN
             /\ c \in Calls /\ srv[c] = "work" /\ status'[c] = 202
             /\ \A a \in groups[g].members \ groups'[g].members :
                 \/ ask[c].do = "create"
                 \/ ask[c].do = "remove" /\ a \in ask[c].ids
                 \/ a \notin seen[c].members
             /\ \A a \in groups'[g].members \ groups[g].members :
                 \/ ask[c].do = "create"
                 \/ ask[c].do = "add" /\ a \in ask[c].ids
                 \/ a \in seen[c].members
  <2>1. Base
    BY <1>1 DEF Inv
  <2>2. PICK c \in Calls :
          /\ srv[c] = "work" /\ status'[c] = 202 /\ ask[c].do \in {"create"} \cup Edits
          /\ groups'[g].by = c
          /\ groups'[g].members = IF ask[c].do = "create" THEN ask[c].members
                                  ELSE EditedMembers(c)
    BY <1>1, <2>1, OnlyPosts
  <2> QED BY <2>2 DEF EditedMembers, Edits
<1>2. Inv /\ [Next]_vars =>
        [\A g \in GroupIds : groups'[g] # groups[g] =>
          LET c == groups'[g].by IN
          /\ c \in Calls /\ srv[c] = "work" /\ status'[c] = 202
          /\ \A a \in groups[g].members \ groups'[g].members :
              \/ ask[c].do = "create"
              \/ ask[c].do = "remove" /\ a \in ask[c].ids
              \/ a \notin seen[c].members
          /\ \A a \in groups'[g].members \ groups[g].members :
              \/ ask[c].do = "create"
              \/ ask[c].do = "add" /\ a \in ask[c].ids
              \/ a \in seen[c].members]_vars
  BY <1>1
<1> QED BY <1>2, Invariance, PTL DEF Spec, UndoesOnlyUnseen

\* Steps that take no task's row away and settle none without one.
LEMMA NoOrphan ==
    ASSUME Base, NEW t \in TaskIds, NEW u \in TaskIds, row[u] # None, NEW s \in Open \cup Terminal,
           row' = [row EXCEPT ![u].state = s], NEW v, verdict' = [verdict EXCEPT ![u] = v],
           t \in Orphans'
    PROVE  t \in Orphans
<1>0. Types
  BY DEF Base
<1>1. row[u] \in Rows /\ row'[u] = [row[u] EXCEPT !.state = s]
  BY <1>0 DEF Types, Typed
<1>2. row'[u] \in Rows
  BY <1>1 DEF Rows
<1>3. row'[u] # None
  BY <1>2, NoneAssumption
<1>4. t # u /\ row'[t] = None /\ verdict'[t] # None
  BY <1>3 DEF Orphans
<1>5. row'[t] = row[t] /\ verdict'[t] = verdict[t]
  BY <1>0, <1>4 DEF Types, Typed
<1> QED BY <1>4, <1>5 DEF Orphans

\* A retention pass leaves no result without a task, and only a late cancel
\* makes one.
THEOREM OrphansAreLateCancels == Spec => OrphanOnlyByLateCancel
<1>1. ASSUME Inv, [Next]_vars, pruneDue, ~pruneDue', faults' = faults PROVE Orphans' = {}
  <2>0. Types /\ \A c \in Calls : Progress(c)
    BY <1>1 DEF Inv, Base
  <2>1. \/ PruneAudits
        \/ PruneFails
        \/ pruneDue' = pruneDue
        \/ pruneDue' = TRUE
    <3>1. ASSUME NEW c \in Calls, Client(c) \/ Handler(c) PROVE pruneDue' = pruneDue
      BY <2>0, <3>1, ClientFrame, HandlerFrame
    <3>2. CASE Keeps
      BY <3>2 DEF Keeps, Dispatched, Reaped, Discarded, LogAgentEvent, SaveResult, NewDay
    <3> QED BY <1>1, <3>1, <3>2 DEF Next, Crash, vars, auditVars
  <2>2. ~PruneFails
    BY <1>1, <2>0 DEF PruneFails, Fault, Types, Typed
  <2>3. PruneAudits
    BY <1>1, <2>1, <2>2
  <2>4. \A t \in TaskIds : row'[t] = None => verdict'[t] = None
    BY <2>3 DEF PruneAudits
  <2> QED BY <2>4 DEF Orphans
<1>2. ASSUME Inv, [Next]_vars, NEW t \in Orphans', t \notin Orphans
      PROVE  \E c \in Calls : srv[c] = "write" /\ srv'[c] = "audit" /\ ask[c].task = t
  <2>0. Base /\ Types /\ (\A c \in Calls : Progress(c)) /\ t \in TaskIds
    BY <1>2 DEF Inv, Base, Orphans
  <2>a. row'[t] = None /\ verdict'[t] # None /\ (verdict[t] = None \/ row[t] # None)
    BY <1>2 DEF Orphans
  <2>1. ASSUME UNCHANGED <<row, verdict>> PROVE FALSE
    BY <2>1, <2>a
  <2>2. CASE UNCHANGED vars
    BY <2>1, <2>2 DEF vars, auditVars
  <2>3. ASSUME NEW c \in Calls, Client(c) PROVE FALSE
    BY <2>0, <2>1, <2>3, ClientFrame
  <2>4. ASSUME NEW c \in Calls, Handler(c)
        PROVE  srv[c] = "write" /\ srv'[c] = "audit" /\ ask[c].task = t
    <3>1. CASE CreateTask(c)
      <4>1. PICK a : Deny(c, a) \/ Queue(c, a) \/ QueueFails(c, a)
        BY <3>1 DEF CreateTask
      <4>2. row' = row \/ row' = [row EXCEPT ![<<c, a>>] = [state |-> "queued", born |-> day]]
        BY <4>1 DEF Deny, Queue, QueueFails
      <4>3. [state |-> "queued", born |-> day] \in Rows
        BY <2>0 DEF Types, Typed, Rows, Open
      <4>4. [state |-> "queued", born |-> day] # None
        BY <4>3, NoneAssumption
      <4>5. row[t] = None
        BY <2>0, <2>a, <4>2, <4>4 DEF Types, Typed
      <4>6. verdict' = verdict
        BY <3>1 DEF CreateTask
      <4> QED BY <2>a, <4>5, <4>6
    <3>2. CASE CancelWrite(c)
      <4> DEFINE u == ask[c].task
      <4>1. srv[c] = "write" /\ srv'[c] = "audit"
        BY <2>0, <3>2 DEF CancelWrite, Answers, Types, ServerTyped
      <4>2. u \in TaskIds
        BY <2>0, <3>2 DEF CancelWrite, Progress, Types, Typed, Asked, AskOK
      <4> HIDE DEF u
      <4>3. PICK s \in Open \cup Terminal :
              row' = IF row[u] = None THEN row ELSE [row EXCEPT ![u].state = s]
        BY <3>2 DEF CancelWrite, u, Open, Terminal
      <4>4. \/ verdict' = verdict
            \/ \E v : verdict' = [verdict EXCEPT ![u] = v]
        BY <3>2 DEF CancelWrite, u
      <4>5. ASSUME u # t PROVE FALSE
        <5>1. row'[t] = row[t] /\ verdict'[t] = verdict[t]
          BY <2>0, <4>2, <4>3, <4>4, <4>5 DEF Types, Typed
        <5> QED BY <2>a, <5>1
      <4> QED BY <4>1, <4>5 DEF u
    <3> QED BY <2>1, <2>4, <3>1, <3>2 DEF Handler, RequireOperatorAuth, PostGroup, ResolveGroup,
        ResolveFails, Resolved, CancelRead, CancelFails, OplogMiddleware, auditVars
  <2>5. CASE Keeps
    <3>1. ASSUME NEW u \in TaskIds, Dispatched(u) PROVE FALSE
      <4>1. row[u] # None /\ row' = [row EXCEPT ![u].state = "dispatched"]
            /\ verdict' = [verdict EXCEPT ![u] = verdict[u]]
        BY <2>0, <3>1 DEF Dispatched, Types, Typed
      <4>2. "dispatched" \in Open \cup Terminal
        BY DEF Open
      <4> QED BY <1>2, <2>0, <4>1, <4>2, NoOrphan
    <3>2. ASSUME NEW u \in TaskIds, Reaped(u) PROVE FALSE
      <4>1. PICK s \in {"timeout", "canceled"} :
              /\ row' = [row EXCEPT ![u].state = s]
              /\ verdict' = [verdict EXCEPT ![u] = [status |-> s, by |-> "reaper", done |-> day]]
        BY <3>2 DEF Reaped
      <4>2. s \in Open \cup Terminal /\ row[u] # None
        BY <3>2 DEF Reaped, Terminal
      <4> QED BY <1>2, <2>0, <4>1, <4>2, NoOrphan
    <3>3. ASSUME NEW u \in TaskIds, NEW s \in {"success", "failed"}, SaveResult(u, s) PROVE FALSE
      <4>1. /\ row' = [row EXCEPT ![u].state = s] /\ row[u] # None
            /\ verdict' = [verdict EXCEPT ![u] = [status |-> s, by |-> "agent", done |-> day]]
        BY <3>3 DEF SaveResult
      <4>2. s \in Open \cup Terminal
        BY DEF Terminal
      <4> QED BY <1>2, <2>0, <4>1, <4>2, NoOrphan
    <3>4. CASE PruneAudits
      BY <2>0, <2>a, <3>4 DEF PruneAudits
    <3>5. ~(UNCHANGED <<row, verdict>>)
      BY <2>1
    <3> QED BY <2>5, <3>1, <3>2, <3>3, <3>4, <3>5 DEF Keeps, Discarded, LogAgentEvent, PruneFails, NewDay
  <2>6. CASE Crash
    BY <2>1, <2>6 DEF Crash
  <2> QED BY <1>2, <2>2, <2>3, <2>4, <2>5, <2>6 DEF Next
<1>3. Inv /\ [Next]_vars =>
        [/\ pruneDue /\ ~pruneDue' /\ faults' = faults => Orphans' = {}
         /\ \A t \in Orphans' \ Orphans :
              \E c \in Calls : srv[c] = "write" /\ srv'[c] = "audit" /\ ask[c].task = t]_vars
  BY <1>1, <1>2
<1> QED BY <1>3, Invariance, PTL DEF Spec, OrphanOnlyByLateCancel
=============================================================================
