--------------------------- MODULE DownloadProofs ---------------------------
(***************************************************************************)
(* A download reports success only for a file whose checksum agreed, its   *)
(* open file always exists, and only two handlers leave a terminal status. *)
(***************************************************************************)
EXTENDS Download, TransferProofs, SequenceTheorems

\* The frames of each direction.
DownFrames ==
    [kind : {"start"}, t : Transfers, offset : Nat] \cup {CancelFrame(t) : t \in Transfers}

UpFrames ==
    {Ack(t) : t \in Transfers} \cup {Done(t, s) : t \in Transfers, s \in Settled}
    \cup UNION {{Chunk(t, i) : i \in 0..(Len(Source[t]) - 1)} : t \in Transfers}

\* What is in flight has its type, and an agent that is away dials again.
FlightOK ==
    /\ down \in Seq(DownFrames) /\ up \in Seq(UpFrames)
    /\ reader \in [Links -> UpFrames \cup {None}]
    /\ ~online => link < MaxLinks /\ down = <<>> /\ up = <<>>

\* An open file that was neither renamed nor removed is there: a chunk that is
\* written through it has a file to go to.
OpenExists ==
    \A t \in Transfers : /\ file[t] = "part" => part # None
                         /\ file[t] = "target" => target # None

\* A success, in memory or in the row, is about a file whose checksum agreed.
SuccessEarned == \A t \in Transfers : Marked(t) => t \in landed

\* The inductive invariant.
Inv ==
    /\ TypeOK /\ FlightOK /\ apos \in [Transfers -> Nat]
    /\ OpenExists /\ RecordOK /\ SuccessEarned

-----------------------------------------------------------------------------
(***************************************************************************)
(* Frames and files.                                                       *)
(***************************************************************************)

LEMMA SourceFile ==
    ASSUME NEW t \in Transfers
    PROVE  /\ Source[t] \in Files /\ Len(Source[t]) \in Nat
           /\ \A i \in 1..Len(Source[t]) : Source[t][i] \in Chunks
BY DownloadAssumption DEF Files

LEMMA DownFrame ==
    ASSUME NEW f \in DownFrames
    PROVE  f.t \in Transfers /\ (f.kind = "start" => f.offset \in Nat)
BY DEF DownFrames, CancelFrame

LEMMA UpFrame ==
    ASSUME NEW f \in UpFrames
    PROVE  /\ f.t \in Transfers
           /\ f.kind = "chunk" => f.seq \in Nat /\ f.data \in Chunks
           /\ f.kind = "done" => f.status \in Settled
<1>1. CASE \E t \in Transfers : f = Ack(t)
  BY <1>1 DEF Ack
<1>2. CASE \E t \in Transfers, s \in Settled : f = Done(t, s)
  BY <1>2 DEF Done
<1>3. ASSUME NEW t \in Transfers, NEW i \in 0..(Len(Source[t]) - 1), f = Chunk(t, i)
      PROVE  f.t \in Transfers /\ f.kind = "chunk" /\ f.seq \in Nat /\ f.data \in Chunks
  <2>1. Source[t][i + 1] \in Chunks
    BY SourceFile
  <2> QED BY <1>3, <2>1 DEF Chunk
<1> QED BY <1>1, <1>2, <1>3 DEF UpFrames

LEMMA UpFrameOf ==
    ASSUME NEW t \in Transfers
    PROVE  /\ Ack(t) \in UpFrames
           /\ \A s \in Settled : Done(t, s) \in UpFrames
           /\ \A i \in Nat : i < Len(Source[t]) => Chunk(t, i) \in UpFrames
<1>1. ASSUME NEW i \in Nat, i < Len(Source[t]) PROVE Chunk(t, i) \in UpFrames
  <2>1. i \in 0..(Len(Source[t]) - 1)
    BY <1>1, SourceFile
  <2> QED BY <2>1 DEF UpFrames
<1> QED BY <1>1 DEF UpFrames

\* os.Truncate and a write make a file of whole chunks again.
LEMMA ResizeType ==
    ASSUME NEW f \in Files, NEW n \in Nat
    PROVE  Resize(f, n) \in Files /\ Resize(f, n) \in [1..n -> Chunks]
<1>0. Zero \in Chunks
  BY DEF Chunks
<1>1. Len(f) \in Nat /\ \A i \in 1..Len(f) : f[i] \in Chunks
  BY DEF Files
<1>2. ASSUME NEW i \in 1..n PROVE (IF i <= Len(f) THEN f[i] ELSE Zero) \in Chunks
  BY <1>0, <1>1
<1>3. Resize(f, n) \in [1..n -> Chunks]
  BY <1>2 DEF Resize
<1> QED BY <1>3, SeqDef DEF Files

LEMMA WriteType ==
    ASSUME NEW f \in Files, NEW p \in Nat, NEW data \in Chunks
    PROVE  WriteAt(f, p, data) \in Files
<1> DEFINE n == IF p < Len(f) THEN Len(f) ELSE p + 1
<1>1. n \in Nat /\ p + 1 \in 1..n
  <2>1. Len(f) \in Nat
    BY DEF Files
  <2> QED BY <2>1
<1> HIDE DEF n
<1>2. Resize(f, n) \in [1..n -> Chunks]
  BY <1>1, ResizeType
<1>3. [Resize(f, n) EXCEPT ![p + 1] = data] \in [1..n -> Chunks]
  BY <1>1, <1>2
<1>4. WriteAt(f, p, data) = [Resize(f, n) EXCEPT ![p + 1] = data]
  BY DEF WriteAt, n
<1>5. \E m \in Nat : WriteAt(f, p, data) \in [1..m -> Chunks]
  BY <1>1, <1>3, <1>4
<1> QED BY <1>5, SeqDef DEF Files

-----------------------------------------------------------------------------
(***************************************************************************)
(* Records: who may write a success, and who may leave a terminal status.  *)
(***************************************************************************)

\* A handler of the session holds the acknowledgement or the verdict.
HandlerLeaves(t) ==
    \E l \in Links : /\ reader[l] # None /\ reader'[l] = None
                     /\ reader[l].t = t /\ reader[l].kind \in {"ack", "done"}

RecordGoal ==
    /\ RecordOK' /\ landed \subseteq landed'
    /\ \A t \in Transfers : Marked(t)' => Marked(t) \/ t \in landed'
    /\ \A t \in Transfers : status[t] \in Settled /\ status'[t] # status[t] => HandlerLeaves(t)

LEMMA QuietRecord ==
    ASSUME RecordOK' /\ KeepsSettled /\ NoSuccess, landed \subseteq landed'
    PROVE  RecordGoal
BY DEF RecordGoal, KeepsSettled, NoSuccess

LEMMA UnchangedRecord ==
    ASSUME RecordOK, UNCHANGED recordVars, landed' = landed
    PROVE  RecordGoal
<1>1. RecordOK' /\ KeepsSettled /\ NoSuccess
  BY SameRecord DEF recordVars, RecordOK, RecordTypeOK
<1> QED BY <1>1, QuietRecord

LEMMA FailedRecord ==
    ASSUME RecordOK, NEW t \in Transfers, SettleOnce(t, "failed"), UNCHANGED <<reap, landed>>
    PROVE  RecordGoal
<1>1. reap' \in [Transfers -> {"idle", "look", "due"}]
  BY DEF RecordOK, RecordTypeOK
<1> QED BY <1>1, FailRecord, QuietRecord DEF Settled

LEMMA HandlerRecord ==
    ASSUME TypeOK, FlightOK, RecordOK, NEW l \in Links, Handlers(l)
    PROVE  RecordGoal
<1> DEFINE t == reader[l].t
<1>0. /\ reader[l] # None /\ reader'[l] = None /\ t \in Transfers
      /\ reader[l].kind = "done" => reader[l].status \in Settled
  BY UpFrame DEF Handlers, HandleAck, HandleChunk, HandleDone, Handle, FlightOK
<1>1. CASE HandleAck(l)
  <2>0. landed' = landed /\ reader[l].kind = "ack"
    BY <1>1 DEF HandleAck, Handle
  <2>1. CASE Update(t, IF status[t] = "cancel_requested" THEN status[t] ELSE "running")
    <3>1. CASE status[t] = "cancel_requested"
      <4>1. Update(t, status[t])
        BY <2>1, <3>1
      <4> QED BY <1>0, <2>0, <4>1, PersistRecord, QuietRecord
    <3>2. CASE status[t] # "cancel_requested"
      <4>1. Update(t, "running")
        BY <2>1, <3>2
      <4>2. /\ RecordOK' /\ NoSuccess
            /\ \A u \in Transfers : status'[u] = IF u = t THEN "running" ELSE status[u]
        BY <1>0, <4>1, UpdateRecord DEF Statuses, Settled
      <4> QED BY <1>0, <2>0, <4>2 DEF RecordGoal, NoSuccess, HandlerLeaves
    <3> QED BY <3>1, <3>2
  <2>2. CASE SettleOnce(t, "failed") /\ UNCHANGED reap
    BY <1>0, <2>0, <2>2, FailedRecord
  <2> QED BY <1>1, <2>1, <2>2 DEF HandleAck
<1>2. CASE HandleChunk(l)
  <2>1. landed' = landed
    BY <1>2 DEF HandleChunk
  <2>2. Update(t, status[t]) \/ (SettleOnce(t, "failed") /\ UNCHANGED reap)
    BY <1>2 DEF HandleChunk
  <2> QED BY <1>0, <2>1, <2>2, FailedRecord, PersistRecord, QuietRecord
<1>3. CASE HandleDone(l)
  <2>1. /\ reader[l].kind = "done" /\ reap' \in [Transfers -> {"idle", "look", "due"}]
        /\ landed \subseteq landed'
    BY <1>3 DEF HandleDone, Handle, KeepFile, RemoveFile, RejectFile, RecordOK, RecordTypeOK
  <2>2. \E s \in Settled : Settle(t, s) /\ (s = "success" => t \in landed')
    <3>1. CASE reader[l].status # "success" /\ RejectFile(t, reader[l].status)
      BY <1>0, <2>1, <3>1 DEF RejectFile
    <3>2. CASE Verified(t) /\ KeepFile(t)
      BY <3>2 DEF KeepFile, Verified, Settled
    <3>3. CASE RemoveFile(t) \/ RejectFile(t, "failed")
      BY <3>3 DEF RemoveFile, RejectFile, Settled
    <3> QED BY <1>3, <3>1, <3>2, <3>3 DEF HandleDone
  <2>3. PICK s \in Settled : Settle(t, s) /\ (s = "success" => t \in landed')
    BY <2>2
  <2>4. /\ RecordOK'
        /\ \A u \in Transfers : Marked(u)' => Marked(u) \/ (u = t /\ s = "success")
        /\ \A u \in Transfers : status'[u] = IF u = t THEN s ELSE status[u]
    BY <1>0, <2>1, <2>3, SettleRecord
  <2>5. HandlerLeaves(t)
    BY <1>0, <2>1 DEF HandlerLeaves
  <2> QED BY <2>1, <2>3, <2>4, <2>5 DEF RecordGoal
<1> QED BY <1>1, <1>2, <1>3 DEF Handlers

LEMMA RecordStep ==
    ASSUME TypeOK, FlightOK, RecordOK, [Next]_vars
    PROVE  RecordGoal
<1> USE DEF serverVars
<1>1. ASSUME NEW t \in Transfers, StartDownload(t) PROVE RecordGoal
  <2>1. PutTransfer(t, "requested") /\ status[t] = "none" /\ landed' = landed
    BY <1>1 DEF StartDownload
  <2> QED BY <2>1, PutRecord, QuietRecord DEF Statuses, Settled
<1>2. ASSUME NEW t \in Transfers, SendStart(t) PROVE RecordGoal
  BY <1>2, UnchangedRecord, FailedRecord DEF SendStart
<1>3. ASSUME NEW t \in Transfers, OperatorCancel(t) PROVE RecordGoal
  <2>1. CancelTransfer(t) /\ landed' = landed
    BY <1>3 DEF OperatorCancel
  <2> QED BY <2>1, CancelRecord, QuietRecord
<1>4. ASSUME NEW t \in Transfers, CancelSend(t) PROVE RecordGoal
  <2>1. RecordOK' /\ KeepsSettled /\ NoSuccess /\ landed' = landed
    BY <1>4, SameRecord DEF CancelSend, SendCancel, RecordOK, RecordTypeOK
  <2> QED BY <2>1, QuietRecord
<1>5. ASSUME NEW t \in Transfers, Agent(t) PROVE RecordGoal
  BY <1>5, UnchangedRecord DEF Agent, AgentStart, AgentOpen, AgentPump, AgentCancel, Take
<1>6. CASE ReadFrame \/ Disconnect \/ Reconnect \/ UNCHANGED vars
  BY <1>6, UnchangedRecord DEF ReadFrame, Read, Disconnect, Break, Reconnect, Redial, vars
<1>7. ASSUME NEW l \in Links, Handlers(l) PROVE RecordGoal
  BY <1>7, HandlerRecord
<1>8. CASE Reaper
  <2>1. Reap /\ landed' = landed
    BY <1>8 DEF Reaper
  <2> QED BY <2>1, ReapRecord, QuietRecord
<1>9. CASE ServerRestart
  <2>1. ForgetTransfers /\ landed' = landed
    BY <1>9 DEF ServerRestart, Restart
  <2> QED BY <2>1, ForgetRecords, QuietRecord
<1> QED BY <1>1, <1>2, <1>3, <1>4, <1>5, <1>6, <1>7, <1>8, <1>9 DEF Next

-----------------------------------------------------------------------------
(***************************************************************************)
(* The link.                                                               *)
(***************************************************************************)
LinkOK == LinkTypeOK /\ FlightOK

\* The parts of a step on one connection.
LEMMA LinkKept ==
    ASSUME LinkOK, UNCHANGED <<link, online>>,
           down' \in Seq(DownFrames), Len(down') <= Cap, ~online => down' = <<>>,
           up' \in Seq(UpFrames), Len(up') <= Cap, ~online => up' = <<>>,
           reader' \in [Links -> UpFrames \cup {None}]
    PROVE  LinkOK'
<1>1. \A l \in Links : reader'[l] # None => reader'[l].t \in Transfers
  BY UpFrame
<1>2. link' \in Links /\ online' \in BOOLEAN
  BY DEF LinkOK, LinkTypeOK
<1> QED BY <1>1, <1>2 DEF LinkOK, LinkTypeOK, FlightOK, Links

LEMMA UnchangedLink ==
    ASSUME LinkOK, UNCHANGED linkVars, reader' \in [Links -> UpFrames \cup {None}]
    PROVE  LinkOK'
BY LinkKept DEF linkVars, LinkOK, LinkTypeOK, FlightOK

\* The server's end of the queue to the agent.
LEMMA SendLink ==
    ASSUME LinkOK, NEW l, NEW f \in DownFrames, SendOK(l, f) \/ SendFails(l),
           UNCHANGED <<link, online, up, reader>>
    PROVE  LinkOK'
<1>1. down' \in Seq(DownFrames) /\ Len(down') <= Cap /\ (~online => down' = <<>>)
  <2>1. CASE online /\ l = link /\ Len(down) < Cap /\ down' = Append(down, f)
    BY <2>1, SeqAppend, LinkAssumption DEF LinkOK, FlightOK
  <2>2. CASE UNCHANGED down
    BY <2>2 DEF LinkOK, LinkTypeOK, FlightOK
  <2> QED BY <2>1, <2>2 DEF SendOK, SendFails
<1> QED BY <1>1, LinkKept DEF LinkOK, LinkTypeOK, FlightOK

\* The agent's end of both queues.
LEMMA AgentLink ==
    ASSUME LinkOK, UNCHANGED <<link, online, reader>>,
           down' = down \/ (down # <<>> /\ down' = Tail(down)),
           Silent \/ \E f \in UpFrames : Answer(f)
    PROVE  LinkOK'
<1>1. down' \in Seq(DownFrames) /\ Len(down') <= Cap /\ (~online => down' = <<>>)
  <2>1. down \in Seq(DownFrames) /\ Len(down) <= Cap /\ Cap \in Nat /\ (~online => down = <<>>)
    BY LinkAssumption DEF LinkOK, LinkTypeOK, FlightOK
  <2> QED BY <2>1, SeqTail
<1>2. up' \in Seq(UpFrames) /\ Len(up') <= Cap /\ (~online => up' = <<>>)
  <2>1. CASE Silent
    BY <2>1 DEF LinkOK, LinkTypeOK, FlightOK, Silent
  <2>2. ASSUME NEW f \in UpFrames, Answer(f)
        PROVE  up' \in Seq(UpFrames) /\ Len(up') <= Cap /\ online
    BY <2>2, SeqAppend, LinkAssumption DEF LinkOK, FlightOK, Answer
  <2> QED BY <2>1, <2>2
<1> QED BY <1>1, <1>2, LinkKept DEF LinkOK, FlightOK

LEMMA LinkStep ==
    ASSUME TypeOK, FlightOK, apos \in [Transfers -> Nat], [Next]_vars
    PROVE  LinkOK'
<1> USE DEF linkVars
<1>0. /\ LinkOK /\ reader \in [Links -> UpFrames \cup {None}]
      /\ up \in Seq(UpFrames) /\ down \in Seq(DownFrames)
      /\ Len(up) <= Cap /\ Len(down) <= Cap
      /\ link \in Links /\ online \in BOOLEAN /\ Cap \in Nat /\ MaxLinks \in Nat
  BY LinkAssumption DEF TypeOK, LinkOK, LinkTypeOK, FlightOK
<1>1. ASSUME NEW t \in Transfers, StartDownload(t) \/ OperatorCancel(t) PROVE LinkOK'
  BY <1>0, <1>1, UnchangedLink DEF StartDownload, OperatorCancel
<1>2. ASSUME NEW t \in Transfers, SendStart(t) PROVE LinkOK'
  <2>1. Start(t) \in DownFrames
    BY DEF TypeOK, Start, DownFrames
  <2> QED BY <1>0, <1>2, <2>1, SendLink DEF SendStart
<1>3. ASSUME NEW t \in Transfers, CancelSend(t) PROVE LinkOK'
  <2>1. SendOK(link, CancelFrame(t)) /\ UNCHANGED <<link, online, up, reader>>
    BY <1>3 DEF CancelSend, SendCancel, SendOK
  <2>2. CancelFrame(t) \in DownFrames
    BY DEF DownFrames
  <2> QED BY <1>0, <2>1, <2>2, SendLink
<1>4. ASSUME NEW t \in Transfers, Agent(t) PROVE LinkOK'
  <2>1. /\ UNCHANGED <<link, online, reader>>
        /\ down' = down \/ (down # <<>> /\ down' = Tail(down))
    BY <1>4 DEF Agent, AgentStart, AgentOpen, AgentPump, AgentCancel, Take
  <2>2. Silent \/ \E f \in UpFrames : Answer(f)
    BY <1>4, UpFrameOf DEF Agent, AgentStart, AgentOpen, AgentPump, AgentCancel, Settled
  <2> QED BY <1>0, <2>1, <2>2, AgentLink
<1>5. CASE ReadFrame
  <2>1. /\ up # <<>> /\ up' = Tail(up) /\ UNCHANGED <<link, online, down>> /\ online
        /\ reader' \in {[reader EXCEPT ![link] = Head(up)], reader}
    BY <1>5 DEF ReadFrame, Read
  <2>2. up' \in Seq(UpFrames) /\ Len(up') <= Cap /\ Head(up) \in UpFrames
    BY <1>0, <2>1, SeqTail
  <2>3. reader' \in [Links -> UpFrames \cup {None}]
    BY <1>0, <2>1, <2>2
  <2> QED BY <1>0, <2>1, <2>2, <2>3, LinkKept
<1>6. ASSUME NEW l \in Links, Handlers(l) PROVE LinkOK'
  <2>1. reader' \in [Links -> UpFrames \cup {None}] /\ UNCHANGED linkVars
    BY <1>0, <1>6 DEF Handlers, HandleAck, HandleChunk, HandleDone, Handle
  <2> QED BY <1>0, <2>1, UnchangedLink
<1>7. CASE Reaper \/ UNCHANGED vars
  BY <1>0, <1>7, UnchangedLink DEF Reaper, vars
<1>8. CASE ServerRestart \/ Disconnect
  <2>1. /\ link' = link /\ online' = FALSE /\ down' = <<>> /\ up' = <<>>
        /\ reader' \in {reader, [l \in Links |-> None]} /\ link < MaxLinks
    BY <1>0, <1>8 DEF ServerRestart, Restart, Disconnect, Break, FlightOK
  <2>2. reader' \in [Links -> UpFrames \cup {None}]
    BY <1>0, <2>1
  <2>3. \A l \in Links : reader'[l] # None => reader'[l].t \in Transfers
    BY <2>2, UpFrame
  <2>4. /\ down' \in Seq(DownFrames) /\ up' \in Seq(UpFrames)
        /\ Len(down') <= Cap /\ Len(up') <= Cap
    BY <1>0, <2>1
  <2> QED BY <1>0, <2>1, <2>2, <2>3, <2>4 DEF LinkOK, LinkTypeOK, FlightOK
<1>9. CASE Reconnect
  <2>1. online' = TRUE /\ link' = link + 1 /\ UNCHANGED <<down, up, reader>> /\ ~online
    BY <1>9 DEF Reconnect, Redial
  <2>2. link' \in Links
    BY <1>0, <2>1 DEF FlightOK, Links
  <2>3. \A l \in Links : reader'[l] # None => reader'[l].t \in Transfers
    BY <1>0, <2>1, UpFrame
  <2> QED BY <1>0, <2>1, <2>2, <2>3 DEF LinkOK, LinkTypeOK, FlightOK, Links
<1> QED BY <1>1, <1>2, <1>3, <1>4, <1>5, <1>6, <1>7, <1>8, <1>9 DEF Next

-----------------------------------------------------------------------------
(***************************************************************************)
(* The agent's pump, and the server's files.                               *)
(***************************************************************************)
AgentTypeOK ==
    /\ pump \in [Transfers -> {"none", "open", "pump"}]
    /\ apos \in [Transfers -> Nat] /\ \A t \in Transfers : apos[t] \in 0..Len(Source[t])
    /\ stop \subseteq Transfers

LEMMA AgentStep ==
    ASSUME AgentTypeOK, FlightOK, NEW t \in Transfers, Agent(t)
    PROVE  AgentTypeOK'
<1>1. CASE AgentStart(t)
  <2>1. Head(down).offset \in Nat
    <3>1. Head(down) \in DownFrames /\ Head(down).kind = "start"
      BY <1>1, SeqTail DEF AgentStart, Take, FlightOK
    <3> QED BY <3>1, DownFrame
  <2>2. StartAt(t, Head(down).offset) \in 0..Len(Source[t]) /\ Len(Source[t]) \in Nat
    BY <2>1, SourceFile DEF StartAt
  <2>3. apos' \in [Transfers -> Nat] /\ \A u \in Transfers : apos'[u] \in 0..Len(Source[u])
    BY <1>1, <2>2 DEF AgentStart, AgentTypeOK
  <2> QED BY <1>1, <2>3 DEF AgentStart, PumpGoes, AgentTypeOK
<1>2. CASE AgentOpen(t) \/ AgentCancel(t)
  BY <1>2 DEF AgentOpen, AgentCancel, PumpGoes, AgentTypeOK
<1>3. CASE AgentPump(t)
  <2>1. apos' \in [Transfers -> Nat] /\ \A u \in Transfers : apos'[u] \in 0..Len(Source[u])
    <3>1. CASE UNCHANGED apos
      BY <3>1 DEF AgentTypeOK
    <3>2. CASE apos' = [apos EXCEPT ![t] = @ + 1] /\ apos[t] < Len(Source[t])
      <4>1. Len(Source[t]) \in Nat
        BY SourceFile
      <4> QED BY <3>2, <4>1 DEF AgentTypeOK
    <3> QED BY <1>3, <3>1, <3>2 DEF AgentPump
  <2>2. stop' = stop /\ pump' \in [Transfers -> {"none", "open", "pump"}]
    BY <1>3 DEF AgentPump, PumpGoes, AgentTypeOK
  <2> QED BY <2>1, <2>2 DEF AgentTypeOK
<1> QED BY <1>1, <1>2, <1>3 DEF Agent

\* The handlers' work on the files.
FileTypes ==
    /\ next \in [Transfers -> Nat] /\ offset \in [Transfers -> Nat]
    /\ file \in [Transfers -> {None, "part", "target", "unlinked"}]
    /\ part \in Files \cup {None} /\ target \in Files \cup {None}
    /\ landed \subseteq Transfers /\ OpenExists

LEMMA CloseFile ==
    ASSUME FileTypes, NEW t \in Transfers, file' = [file EXCEPT ![t] = None],
           UNCHANGED <<next, offset, part, target, landed>>
    PROVE  FileTypes'
<1>1. None \notin {"part", "target"}
  BY DownloadAssumption
<1> QED BY <1>1 DEF FileTypes, OpenExists

LEMMA SameFile ==
    ASSUME FileTypes, UNCHANGED <<next, offset, file, part, target, landed>>
    PROVE  FileTypes'
BY DEF FileTypes, OpenExists

LEMMA OpenFile ==
    ASSUME FileTypes, NEW t \in Transfers, CanOpen(t), OpenPart(t),
           UNCHANGED <<offset, target, landed>>
    PROVE  FileTypes'
<1>1. part' \in Files /\ part' # None
  <2>1. CASE offset[t] = 0
    <3>1. <<>> \in Files
      BY DEF Files
    <3> QED BY <2>1, <3>1, DownloadAssumption DEF OpenPart
  <2>2. CASE offset[t] # 0
    <3>1. part \in Files /\ offset[t] \in Nat
      BY <2>2 DEF CanOpen, FileTypes
    <3>2. Resize(part, offset[t]) \in Files
      BY <3>1, ResizeType
    <3> QED BY <2>2, <3>2, DownloadAssumption DEF OpenPart
  <2> QED BY <2>1, <2>2
<1>2. next' \in [Transfers -> Nat] /\ file' = [file EXCEPT ![t] = "part"]
  BY DEF OpenPart, FileTypes
<1> QED BY <1>1, <1>2 DEF FileTypes, OpenExists

LEMMA WriteFile ==
    ASSUME FileTypes, NEW t \in Transfers, file[t] # None, NEW data \in Chunks,
           part' = IF file[t] = "part" THEN WriteAt(part, next[t], data) ELSE part,
           target' = IF file[t] = "target" THEN WriteAt(target, next[t], data) ELSE target,
           next' = [next EXCEPT ![t] = @ + 1], offset' = [offset EXCEPT ![t] = @ + 1],
           UNCHANGED <<file, landed>>
    PROVE  FileTypes'
<1>0. next[t] \in Nat /\ None \notin Files
  BY DownloadAssumption DEF FileTypes
<1>1. part' \in Files \cup {None} /\ (part # None => part' # None)
  <2>1. CASE file[t] = "part"
    <3>1. part \in Files
      BY <2>1 DEF FileTypes, OpenExists
    <3> QED BY <1>0, <2>1, <3>1, WriteType
  <2>2. CASE file[t] # "part"
    BY <2>2 DEF FileTypes
  <2> QED BY <2>1, <2>2
<1>2. target' \in Files \cup {None} /\ (target # None => target' # None)
  <2>1. CASE file[t] = "target"
    <3>1. target \in Files
      BY <2>1 DEF FileTypes, OpenExists
    <3> QED BY <1>0, <2>1, <3>1, WriteType
  <2>2. CASE file[t] # "target"
    BY <2>2 DEF FileTypes
  <2> QED BY <2>1, <2>2
<1>3. next' \in [Transfers -> Nat] /\ offset' \in [Transfers -> Nat]
  BY DEF FileTypes
<1> QED BY <1>1, <1>2, <1>3 DEF FileTypes, OpenExists

\* After the rename the files that were open follow their inodes.
LEMMA MoveFile ==
    ASSUME FileTypes, NEW t \in Transfers, part # None, KeepFile(t) \/ RemoveFile(t),
           UNCHANGED <<next, offset>>
    PROVE  FileTypes'
<1>0. None \notin {"part", "target", "unlinked"}
  BY DownloadAssumption
<1>1. CASE KeepFile(t)
  <2>1. /\ part' = None /\ target' = part /\ landed' \subseteq Transfers
        /\ file' = [u \in Transfers |-> IF u = t THEN None ELSE Renamed(file[u])]
    BY <1>1 DEF KeepFile, FileTypes
  <2>2. \A u \in Transfers : file[u] \in {None, "part", "target", "unlinked"}
    BY DEF FileTypes
  <2>3. \A f \in {None, "part", "target", "unlinked"} :
            Renamed(f) \in {None, "target", "unlinked"}
    BY <1>0 DEF Renamed
  <2>4. /\ file' \in [Transfers -> {None, "part", "target", "unlinked"}]
        /\ \A u \in Transfers : file'[u] # "part"
    BY <1>0, <2>1, <2>2, <2>3
  <2> QED BY <2>1, <2>4 DEF FileTypes, OpenExists
<1>2. CASE RemoveFile(t)
  <2>1. /\ part' = None /\ target' = None /\ landed' = landed
        /\ file' = [u \in Transfers |-> IF u = t THEN None ELSE Removed(file[u])]
    BY <1>2 DEF RemoveFile
  <2>2. \A u \in Transfers : file[u] \in {None, "part", "target", "unlinked"}
    BY DEF FileTypes
  <2>3. \A f \in {None, "part", "target", "unlinked"} : Removed(f) \in {None, "unlinked"}
    BY <1>0 DEF Removed
  <2>4. /\ file' \in [Transfers -> {None, "part", "target", "unlinked"}]
        /\ \A u \in Transfers : file'[u] \notin {"part", "target"}
    BY <1>0, <2>1, <2>2, <2>3
  <2> QED BY <2>1, <2>4 DEF FileTypes, OpenExists
<1> QED BY <1>1, <1>2

LEMMA HandlerFiles ==
    ASSUME FileTypes, FlightOK, NEW l \in Links, Handlers(l)
    PROVE  FileTypes'
<1> DEFINE t == reader[l].t
<1>0. /\ t \in Transfers
      /\ reader[l].kind = "chunk" => reader[l].data \in Chunks
  BY UpFrame DEF Handlers, HandleAck, HandleChunk, HandleDone, Handle, FlightOK
<1>1. CASE HandleAck(l)
  BY <1>0, <1>1, OpenFile, SameFile DEF HandleAck
<1>2. CASE HandleChunk(l)
  <2>0. landed' = landed /\ reader[l].data \in Chunks
    BY <1>0, <1>2 DEF HandleChunk, Handle
  <2>1. CASE UNCHANGED <<part, target, next, offset>>
             /\ (file' = file \/ file' = [file EXCEPT ![t] = None])
    BY <1>0, <2>0, <2>1, SameFile, CloseFile
  <2>2. CASE /\ file[t] # None
             /\ part' = IF file[t] = "part" THEN WriteAt(part, next[t], reader[l].data) ELSE part
             /\ target' = IF file[t] = "target" THEN WriteAt(target, next[t], reader[l].data)
                                                ELSE target
             /\ next' = [next EXCEPT ![t] = @ + 1]
             /\ offset' = [offset EXCEPT ![t] = @ + 1]
             /\ UNCHANGED file
    BY <1>0, <2>0, <2>2, WriteFile
  <2> QED BY <1>2, <2>1, <2>2 DEF HandleChunk
<1>3. CASE HandleDone(l)
  <2>1. UNCHANGED <<next, offset>>
    BY <1>3 DEF HandleDone
  <2>2. CASE Complete(t) /\ (KeepFile(t) \/ RemoveFile(t))
    BY <1>0, <2>1, <2>2, MoveFile DEF Complete
  <2>3. CASE \E s : RejectFile(t, s)
    BY <1>0, <2>1, <2>3, CloseFile DEF RejectFile
  <2> QED BY <1>3, <2>2, <2>3 DEF HandleDone
<1> QED BY <1>1, <1>2, <1>3 DEF Handlers

LEMMA FileStep ==
    ASSUME FileTypes, FlightOK, [Next]_vars
    PROVE  FileTypes'
<1> USE DEF serverVars
<1>1. ASSUME NEW t \in Transfers, StartDownload(t) PROVE FileTypes'
  <2>1. ResumeOffset \in Nat
    BY DEF ResumeOffset, FileTypes, Files
  <2> QED BY <1>1, <2>1 DEF StartDownload, FileTypes, OpenExists
<1>2. ASSUME NEW t \in Transfers, SendStart(t) \/ OperatorCancel(t) \/ CancelSend(t) \/ Agent(t)
      PROVE  FileTypes'
  BY <1>2, SameFile DEF SendStart, OperatorCancel, CancelSend, Agent, AgentStart, AgentOpen,
                        AgentPump, AgentCancel
<1>3. CASE ReadFrame \/ Disconnect \/ Reconnect \/ UNCHANGED vars
  BY <1>3, SameFile DEF ReadFrame, Disconnect, Reconnect, vars
<1>4. ASSUME NEW l \in Links, Handlers(l) PROVE FileTypes'
  BY <1>4, HandlerFiles
<1>5. CASE Reaper \/ ServerRestart
  <2>1. /\ UNCHANGED <<next, offset, part, target, landed>>
        /\ file' \in {[t \in Transfers |-> IF t \in live \ live' THEN None ELSE file[t]],
                      [t \in Transfers |-> None]}
    BY <1>5 DEF Reaper, ServerRestart
  <2>2. None \notin {"part", "target"}
    BY DownloadAssumption
  <2>3. /\ file' \in [Transfers -> {None, "part", "target", "unlinked"}]
        /\ \A t \in Transfers : file'[t] \in {None, file[t]}
    BY <2>1 DEF FileTypes
  <2> QED BY <2>1, <2>2, <2>3 DEF FileTypes, OpenExists
<1> QED BY <1>1, <1>2, <1>3, <1>4, <1>5 DEF Next

-----------------------------------------------------------------------------
(***************************************************************************)
(* The theorems.                                                           *)
(***************************************************************************)

LEMMA TypeStep ==
    ASSUME Inv, [Next]_vars
    PROVE  TypeOK' /\ FlightOK' /\ (apos \in [Transfers -> Nat])' /\ OpenExists' /\ RecordOK'
<1> USE DEF linkVars, serverVars, agentVars
<1>0. /\ TypeOK /\ FlightOK /\ AgentTypeOK /\ FileTypes /\ RecordOK
      /\ diskErrors \in 0..MaxDiskErrors /\ MaxDiskErrors \in Nat
      /\ link \in Links /\ MaxLinks \in Nat
  BY DownloadAssumption, LinkAssumption DEF Inv, TypeOK, AgentTypeOK, FileTypes, LinkTypeOK
<1>1. RecordOK'
  BY <1>0, RecordStep DEF RecordGoal
<1>2. LinkTypeOK' /\ FlightOK'
  BY <1>0, LinkStep DEF AgentTypeOK, LinkOK
<1>3. FileTypes'
  BY <1>0, FileStep
<1>4. AgentTypeOK'
  <2>1. ASSUME NEW t \in Transfers, Agent(t) PROVE AgentTypeOK'
    BY <1>0, <2>1, AgentStep
  <2>2. CASE UNCHANGED agentVars
    BY <1>0, <2>2 DEF AgentTypeOK
  <2>3. CASE ServerRestart \/ Disconnect
    <3>1. pump' = [t \in Transfers |-> "none"] /\ UNCHANGED <<apos, stop>>
      BY <2>3 DEF ServerRestart, Disconnect
    <3> QED BY <1>0, <3>1 DEF AgentTypeOK
  <2> QED BY <2>1, <2>2, <2>3 DEF Next, StartDownload, SendStart, OperatorCancel, CancelSend,
             ReadFrame, Handlers, HandleAck, HandleChunk, HandleDone, Reaper, Reconnect, vars
<1>5. diskErrors' \in 0..MaxDiskErrors
  <2>1. UNCHANGED diskErrors \/ DiskError
    BY DEF Next, StartDownload, SendStart, OperatorCancel, CancelSend, Agent, AgentStart, AgentOpen,
           AgentPump, AgentCancel, ReadFrame, Handlers, HandleAck, HandleChunk, HandleDone, Reaper,
           ServerRestart, Disconnect, Reconnect, vars
  <2> QED BY <1>0, <2>1 DEF DiskError
<1>6. request' \in [Transfers -> {"none", "send", "end"}] /\ rconn' \in [Transfers -> 0..MaxLinks]
  <2>0. request \in [Transfers -> {"none", "send", "end"}] /\ rconn \in [Transfers -> 0..MaxLinks]
        /\ link \in 0..MaxLinks
    BY <1>0 DEF TypeOK, Links
  <2>1. ASSUME NEW t \in Transfers, StartDownload(t) \/ SendStart(t)
        PROVE  /\ request' \in [Transfers -> {"none", "send", "end"}]
               /\ rconn' \in [Transfers -> 0..MaxLinks]
    BY <2>0, <2>1 DEF StartDownload, SendStart
  <2>2. CASE ServerRestart
    BY <2>0, <2>2 DEF ServerRestart
  <2>3. CASE UNCHANGED <<request, rconn>>
    BY <2>0, <2>3
  <2> QED BY <2>1, <2>2, <2>3 DEF Next, OperatorCancel, CancelSend, Agent, AgentStart, AgentOpen,
           AgentPump, AgentCancel, ReadFrame, Handlers, HandleAck, HandleChunk, HandleDone, Reaper,
           Disconnect, Reconnect, vars
<1>7. TypeOK'
  BY <1>1, <1>2, <1>3, <1>4, <1>5, <1>6 DEF TypeOK, AgentTypeOK, FileTypes, RecordOK
<1> QED BY <1>1, <1>2, <1>3, <1>4, <1>7 DEF FileTypes, AgentTypeOK

LEMMA InitInv == Init => Inv
<1> SUFFICES ASSUME Init PROVE Inv
  OBVIOUS
<1>0. \A t \in Transfers : Len(Source[t]) \in Nat
  BY SourceFile
<1> USE DEF Init, LinkInit, RecordInit
<1>1. RecordOK
  <2>1. \A e \in Episodes : e.asked \subseteq Transfers /\ MaxCancels - e.cancels \in 0..MaxCancels
    BY DownloadAssumption, RecordAssumption
  <2> QED BY <2>1 DEF RecordOK, RecordTypeOK, SettledGone, Statuses, Settled
<1>2. LinkTypeOK /\ FlightOK
  BY LinkAssumption DEF LinkTypeOK, FlightOK, Links
<1>3. diskErrors \in 0..MaxDiskErrors
  <2>1. \A e \in Episodes : MaxDiskErrors - e.diskErrors \in 0..MaxDiskErrors
    BY DownloadAssumption
  <2> QED BY <2>1
<1>4. ASSUME NEW t \in Transfers PROVE apos[t] \in 0..Len(Source[t])
  <2>1. apos[t] = 0
    OBVIOUS
  <2>2. Len(Source[t]) \in Nat
    BY <1>0
  <2> HIDE DEF Init
  <2> QED BY <2>1, <2>2
<1>5. part \in Files \cup {None} /\ MaxLinks \in Nat /\ None \notin {"part", "target"}
  BY DownloadAssumption, LinkAssumption
<1>6. TypeOK /\ apos \in [Transfers -> Nat]
  BY <1>1, <1>2, <1>3, <1>4, <1>5 DEF TypeOK, RecordOK
<1>7. OpenExists /\ SuccessEarned
  BY <1>5 DEF OpenExists, SuccessEarned, Marked
<1> QED BY <1>1, <1>2, <1>6, <1>7 DEF Inv

LEMMA InvStep == Inv /\ [Next]_vars => Inv'
<1> SUFFICES ASSUME Inv, [Next]_vars PROVE Inv'
  OBVIOUS
<1>1. TypeOK' /\ FlightOK' /\ (apos \in [Transfers -> Nat])' /\ OpenExists' /\ RecordOK'
  BY TypeStep
<1>2. SuccessEarned'
  BY RecordStep DEF Inv, RecordGoal, SuccessEarned
<1> QED BY <1>1, <1>2 DEF Inv

\* The inductive invariant holds in every reachable state.
THEOREM Invariance == Spec => []Inv
<1>1. Init => Inv
  BY InitInv
<1>2. Inv /\ [Next]_vars => Inv'
  BY InvStep
<1> QED BY <1>1, <1>2, PTL DEF Spec

\* Every variable of a download keeps its type.  That includes the files: a
\* truncation that stretches one and a write past its end leave whole chunks,
\* and no handler writes through a file that is not there.
THEOREM TypeCorrect == Spec => []TypeOK
<1>1. Inv => TypeOK
  BY DEF Inv
<1> QED BY <1>1, Invariance, PTL

\* A row says 'success' only of a download whose file had the agent's checksum
\* when it reached the target, with downloads overlapping or not.
THEOREM Intact == Spec => []SuccessMeansIntact
<1>1. Inv => SuccessMeansIntact
  BY DEF Inv, SuccessEarned, SuccessMeansIntact, Marked
<1> QED BY <1>1, Invariance, PTL

\* A terminal status of a download is left only by the two handlers without a
\* terminal guard, the acknowledgement's and the verdict's.
THEOREM OnlyHandlersLeave == Spec => SettledLeftOnlyByHandler
<1>1. ASSUME Inv, [Next]_vars
      PROVE  \A t \in Transfers : status[t] \in Settled /\ status'[t] # status[t] =>
                \E l \in Links : /\ reader[l] # None /\ reader'[l] = None
                                 /\ reader[l].t = t /\ reader[l].kind \in {"ack", "done"}
  BY <1>1, RecordStep DEF Inv, RecordGoal, HandlerLeaves
<1> QED BY <1>1, Invariance, PTL DEF Spec, SettledLeftOnlyByHandler
=============================================================================
