---------------------------- MODULE UploadProofs ----------------------------
(***************************************************************************)
(* An upload reports success only for a file that arrived, and offset,     *)
(* position and sequence number stay in step.                              *)
(***************************************************************************)
EXTENDS Upload, TransferProofs

\* The frames of each direction.
DownFrames ==
    {Start(t) : t \in Transfers} \cup {Complete(t) : t \in Transfers}
    \cup {CancelFrame(t) : t \in Transfers}
    \cup UNION {{Chunk(t, i) : i \in 0..(Len(Source[t]) - 1)} : t \in Transfers}

UpFrames ==
    {Resume(t, n) : t \in Transfers, n \in Nat} \cup {Done(t, s) : t \in Transfers, s \in Settled}

\* What is in flight has its type, and an agent that is away dials again; a pump
\* stays within its file and its connection.
FlightOK ==
    /\ down \in Seq(DownFrames) /\ up \in Seq(UpFrames)
    /\ reader \in [Links -> UpFrames \cup {None}]
    /\ ~online => link < MaxLinks /\ down = <<>> /\ up = <<>>

PumpOK ==
    /\ pos \in [Transfers -> Nat]
    /\ \A t \in Transfers : /\ pconn[t] <= link
                            /\ pump[t] = "send" => pos[t] < Len(Source[t])

\* A verdict of success, recorded or on its way, is about a file that arrived.
Verdict(f) == f.kind = "done" /\ f.status = "success"

SuccessEarned ==
    /\ \A t \in Transfers : Marked(t) => t \in landed
    /\ \A i \in DOMAIN up : Verdict(up[i]) => up[i].t \in landed
    /\ \A l \in Links : reader[l] # None /\ Verdict(reader[l]) => reader[l].t \in landed

\* A pump is started once.
NotAsked == \A t \in Transfers : status[t] = "none" => pump[t] = "none"

\* Where frames of a transfer are.
InDown(kind, t) == {i \in DOMAIN down : down[i].kind = kind /\ down[i].t = t}
ResumeInUp(t)   == {i \in DOMAIN up : up[i].kind = "resume" /\ up[i].t = t}
ResumeRead(t)   == {l \in Links : reader[l] # None /\ reader[l].kind = "resume" /\ reader[l].t = t}

\* The start frame and the answer to it exist once: on the way to the agent,
\* on the way back, with the handler, or in the channel.
OneStart(t) ==
    /\ InDown("start", t) # {} => ResumeInUp(t) = {} /\ ResumeRead(t) = {} /\ resumeCh[t] = None
    /\ ResumeInUp(t) # {} => ResumeRead(t) = {} /\ resumeCh[t] = None
    /\ ResumeRead(t) # {} => resumeCh[t] = None
    /\ \A i, j \in InDown("start", t) : i = j
    /\ \A i, j \in ResumeInUp(t) : i = j
    /\ \A i, j \in ResumeRead(t) : i = j

Waits(t) == InDown("start", t) # {} \/ ResumeInUp(t) # {} \/ ResumeRead(t) # {} \/ resumeCh[t] # None

\* Until the pump has the answer nothing was sent, and the offset in the answer
\* is the one the agent's assembler waits for.
Offset(t) ==
    /\ pump[t] \in {"none", "prologue", "cancel"} => ~Waits(t) /\ uploads[t] = None /\ pos[t] = 0
    /\ pump[t] = "resume" => pos[t] = 0
    /\ Waits(t) => pos[t] = 0 /\ pump[t] \notin {"pump", "send"}
    /\ InDown("start", t) # {} => uploads[t] = None
    /\ \A i \in ResumeInUp(t) : uploads[t] \in {None, up[i].offset}
    /\ \A l \in ResumeRead(t) : uploads[t] \in {None, reader[l].offset}
    /\ uploads[t] \in {None, resumeCh[t]} \/ resumeCh[t] = None

\* Chunks travel on the pump's own connection, in the order of their numbers,
\* and are those between the one the agent waits for and the pump's position.
InStep(t) ==
    /\ pconn[t] # link => InDown("start", t) = {} /\ InDown("chunk", t) = {}
    /\ \A i \in InDown("chunk", t) : down[i].seq < pos[t]
    /\ \A i, j \in InDown("chunk", t) : i < j => down[i].seq < down[j].seq
    /\ uploads[t] # None /\ online /\ pconn[t] = link =>
        /\ \A i \in InDown("chunk", t) : down[i].seq >= uploads[t]
        /\ \A n \in uploads[t]..(pos[t] - 1) : \E i \in InDown("chunk", t) : down[i].seq = n
        /\ pump[t] \in {"pump", "send"} => uploads[t] <= pos[t] \/ pos[t] >= Len(Source[t])

Flow(t) == OneStart(t) /\ Offset(t) /\ InStep(t)

\* The inductive invariant.
Inv ==
    /\ TypeOK /\ FlightOK /\ PumpOK
    /\ RecordOK /\ NotAsked /\ SuccessEarned
    /\ \A t \in Transfers : Flow(t)

-----------------------------------------------------------------------------
(***************************************************************************)
(* Frames.                                                                 *)
(***************************************************************************)

LEMMA DownFrame ==
    ASSUME NEW f \in DownFrames
    PROVE  /\ f.t \in Transfers /\ f.kind \in {"start", "chunk", "done", "cancel"}
           /\ f.kind = "chunk" => /\ f.seq \in 0..(Len(Source[f.t]) - 1)
                                  /\ f.data \in Chunks
<1>1. CASE \E t \in Transfers : f = Start(t) \/ f = Complete(t) \/ f = CancelFrame(t)
  BY <1>1 DEF Start, Complete, CancelFrame
<1>2. ASSUME NEW t \in Transfers, NEW i \in 0..(Len(Source[t]) - 1), f = Chunk(t, i)
      PROVE  f.t \in Transfers /\ f.kind = "chunk" /\ f.seq \in 0..(Len(Source[f.t]) - 1)
             /\ f.data \in Chunks
  <2>1. Source[t] \in Seq(Chunks)
    BY UploadAssumption DEF Files
  <2>2. Source[t][i + 1] \in Chunks
    BY <2>1
  <2> QED BY <1>2, <2>2 DEF Chunk
<1> QED BY <1>1, <1>2 DEF DownFrames

LEMMA DownFrameOf ==
    ASSUME NEW t \in Transfers
    PROVE  /\ Start(t) \in DownFrames /\ Complete(t) \in DownFrames /\ CancelFrame(t) \in DownFrames
           /\ \A i \in Nat : i < Len(Source[t]) => Chunk(t, i) \in DownFrames
           /\ Start(t).kind = "start" /\ Start(t).t = t
           /\ Complete(t).kind = "done" /\ Complete(t).t = t
           /\ CancelFrame(t).kind = "cancel" /\ CancelFrame(t).t = t
           /\ \A i \in Nat : /\ Chunk(t, i).kind = "chunk" /\ Chunk(t, i).t = t
                             /\ Chunk(t, i).seq = i
<1>1. Len(Source[t]) \in Nat
  BY UploadAssumption DEF Files
<1>2. ASSUME NEW i \in Nat, i < Len(Source[t]) PROVE Chunk(t, i) \in DownFrames
  <2>1. i \in 0..(Len(Source[t]) - 1)
    BY <1>1, <1>2
  <2> QED BY <2>1 DEF DownFrames
<1> QED BY <1>2 DEF DownFrames, Start, Complete, CancelFrame, Chunk

LEMMA UpFrame ==
    ASSUME NEW f \in UpFrames
    PROVE  /\ f.t \in Transfers /\ f.kind \in {"resume", "done"}
           /\ f.kind = "resume" => f.offset \in Nat
           /\ f.kind = "done" => f.status \in Settled
BY DEF UpFrames, Resume, Done

LEMMA UpFrameOf ==
    ASSUME NEW t \in Transfers
    PROVE  /\ \A n \in Nat : /\ Resume(t, n) \in UpFrames /\ Resume(t, n).kind = "resume"
                             /\ Resume(t, n).t = t /\ Resume(t, n).offset = n
           /\ \A s \in Settled : /\ Done(t, s) \in UpFrames /\ Done(t, s).kind = "done"
                                 /\ Done(t, s).t = t /\ Done(t, s).status = s
BY DEF UpFrames, Resume, Done

-----------------------------------------------------------------------------
(***************************************************************************)
(* Records: who may write a success, and who may leave a terminal status.  *)
(***************************************************************************)

\* The two writes of the pump that do not look at the status.
BlindWrite(t) ==
    \/ pump[t] = "prologue" /\ status'[t] = "running"
    \/ pump[t] = "wait" /\ status'[t] = "waiting_remote"

\* A handler of a session holds the agent's verdict of success.
VerdictRead(t) == \E l \in Links : reader[l] # None /\ Verdict(reader[l]) /\ reader[l].t = t

RecordGoal ==
    /\ RecordOK' /\ NoneIsNew
    /\ \A t \in Transfers : Marked(t)' => Marked(t) \/ VerdictRead(t)
    /\ \A t \in Transfers : status[t] \in Settled /\ status'[t] # status[t] => BlindWrite(t)

LEMMA QuietRecord ==
    ASSUME RecordOK' /\ KeepsSettled /\ NoSuccess /\ NoneIsNew
    PROVE  RecordGoal
BY DEF RecordGoal, KeepsSettled, NoSuccess

LEMMA UnchangedRecord ==
    ASSUME RecordOK, UNCHANGED recordVars
    PROVE  RecordGoal
<1>1. RecordOK' /\ KeepsSettled /\ NoSuccess /\ NoneIsNew
  BY SameRecord DEF recordVars, RecordOK, RecordTypeOK
<1> QED BY <1>1, QuietRecord

LEMMA FailedPump ==
    ASSUME RecordOK, NEW t \in Transfers, PumpFails(t)
    PROVE  RecordGoal
<1>1. SettleOnce(t, "failed") /\ reap' \in [Transfers -> {"idle", "look", "due"}]
  BY DEF PumpFails, RecordOK, RecordTypeOK
<1> QED BY <1>1, FailRecord, QuietRecord DEF Settled

LEMMA PumpRecord ==
    ASSUME RecordOK, NEW t \in Transfers, Pump(t)
    PROVE  RecordGoal
<1>1. CASE PumpDiskError(t)
  BY <1>1, FailedPump DEF PumpDiskError
<1>2. CASE PumpPrologue(t)
  <2>1. CASE UNCHANGED recordVars
    BY <2>1, UnchangedRecord
  <2>2. CASE Update(t, "running")
    <3>1. /\ RecordOK' /\ NoSuccess /\ NoneIsNew
          /\ \A u \in Transfers : status'[u] = IF u = t THEN "running" ELSE status[u]
      BY <2>2, UpdateRecord DEF Statuses, Settled
    <3> QED BY <1>2, <3>1 DEF RecordGoal, NoSuccess, BlindWrite, PumpPrologue
  <2>3. CASE PumpFails(t)
    BY <2>3, FailedPump
  <2> QED BY <1>2, <2>1, <2>2, <2>3 DEF PumpPrologue
<1>3. CASE PumpCancel(t)
  <2>1. SettleOnce(t, "canceled") /\ reap' \in [Transfers -> {"idle", "look", "due"}]
    BY <1>3 DEF PumpCancel, RecordOK, RecordTypeOK
  <2> QED BY <2>1, FailRecord, QuietRecord DEF Settled
<1>4. CASE PumpResume(t)
  BY <1>4, UnchangedRecord, FailedPump DEF PumpResume
<1>5. CASE PumpCheck(t)
  BY <1>5, UnchangedRecord DEF PumpCheck
<1>6. CASE PumpSend(t)
  BY <1>6, UnchangedRecord, FailedPump, PersistRecord, QuietRecord DEF PumpSend
<1>7. CASE PumpWait(t)
  <2>1. /\ status' = [status EXCEPT ![t] = "waiting_remote"] /\ pump[t] = "wait"
        /\ UNCHANGED <<audit, live, cancelSig, cancelling, reap, cancels>>
    BY <1>7 DEF PumpWait
  <2>2. RecordOK'
    BY <2>1 DEF RecordOK, RecordTypeOK, SettledGone, Statuses, Settled
  <2>3. \A u \in Transfers : status'[u] = IF u = t THEN "waiting_remote" ELSE status[u]
    BY <2>1 DEF RecordOK, RecordTypeOK
  <2> QED BY <2>1, <2>2, <2>3 DEF RecordGoal, NoneIsNew, Marked, BlindWrite
<1>8. CASE PumpPersist(t)
  BY <1>8, PersistRecord, QuietRecord DEF PumpPersist
<1>9. CASE PumpDone(t)
  BY <1>9, UnchangedRecord, FailedPump DEF PumpDone
<1> QED BY <1>1, <1>2, <1>3, <1>4, <1>5, <1>6, <1>7, <1>8, <1>9 DEF Pump

LEMMA RecordStep ==
    ASSUME FlightOK, RecordOK, [Next]_vars
    PROVE  RecordGoal
<1>1. ASSUME NEW t \in Transfers, StartUpload(t) PROVE RecordGoal
  BY <1>1, PutRecord, QuietRecord DEF StartUpload, Statuses, Settled
<1>2. ASSUME NEW t \in Transfers, Pump(t) PROVE RecordGoal
  BY <1>2, PumpRecord
<1>3. ASSUME NEW t \in Transfers, OperatorCancel(t) PROVE RecordGoal
  BY <1>3, CancelRecord, QuietRecord DEF OperatorCancel
<1>4. ASSUME NEW t \in Transfers, CancelSend(t) PROVE RecordGoal
  <2>1. RecordOK' /\ KeepsSettled /\ NoSuccess /\ NoneIsNew
    BY <1>4, SameRecord DEF CancelSend, SendCancel, RecordOK, RecordTypeOK
  <2> QED BY <2>1, QuietRecord
<1>5. CASE ReadFrame \/ Disconnect \/ Reconnect \/ UNCHANGED vars
  BY <1>5, UnchangedRecord DEF ReadFrame, Read, Disconnect, Break, Reconnect, Redial, vars
<1>6. ASSUME NEW l \in Links, HandleResume(l) PROVE RecordGoal
  BY <1>6, UnchangedRecord DEF HandleResume
<1>7. ASSUME NEW l \in Links, HandleDone(l) PROVE RecordGoal
  <2>1. /\ reader[l] # None /\ reader[l].kind = "done"
        /\ reader[l].t \in Transfers /\ reader[l].status \in Settled
    BY <1>7, UpFrame DEF HandleDone, Handle, FlightOK
  <2>2. SettleOnce(reader[l].t, reader[l].status)
        /\ reap' \in [Transfers -> {"idle", "look", "due"}]
    BY <1>7 DEF HandleDone, RecordOK, RecordTypeOK
  <2>3. /\ RecordOK' /\ KeepsSettled /\ NoneIsNew
        /\ \A u \in Transfers : Marked(u)' =>
                Marked(u) \/ (u = reader[l].t /\ reader[l].status = "success")
    BY <2>1, <2>2, SettleOnceRecord
  <2> QED BY <2>1, <2>3 DEF RecordGoal, KeepsSettled, VerdictRead, Verdict
<1>8. CASE Reaper
  BY <1>8, ReapRecord, QuietRecord DEF Reaper
<1>9. CASE ServerRestart
  BY <1>9, ForgetRecords, QuietRecord DEF ServerRestart, Restart
<1>10. ASSUME NEW t \in Transfers, Agent(t) PROVE RecordGoal
  BY <1>10, UnchangedRecord DEF Agent, BeginUpload, AgentChunk, AgentComplete, AgentCancel, Take
<1> QED BY <1>1, <1>2, <1>3, <1>4, <1>5, <1>6, <1>7, <1>8, <1>9, <1>10 DEF Next

-----------------------------------------------------------------------------
(***************************************************************************)
(* Types of the link, the pump and the agent.                              *)
(***************************************************************************)

LEMMA SentType ==
    ASSUME LinkTypeOK, FlightOK, NEW l, NEW f \in DownFrames, SendOK(l, f) \/ SendFails(l)
    PROVE  down' \in Seq(DownFrames) /\ Len(down') <= Cap /\ (~online => down' = <<>>)
<1>1. CASE online /\ l = link /\ Len(down) < Cap /\ down' = Append(down, f)
  BY <1>1, SeqAppend, LinkAssumption DEF FlightOK
<1>2. CASE UNCHANGED down
  BY <1>2 DEF LinkTypeOK, FlightOK
<1> QED BY <1>1, <1>2 DEF SendOK, SendFails

LEMMA TakenType ==
    ASSUME LinkTypeOK, FlightOK, NEW t, NEW kind, Take(t, kind)
    PROVE  /\ down' \in Seq(DownFrames) /\ Len(down') <= Cap /\ online
           /\ Head(down) \in DownFrames /\ Head(down).kind = kind /\ Head(down).t = t
BY SeqTail, LinkAssumption DEF FlightOK, Take, LinkTypeOK

LEMMA AnswerType ==
    ASSUME LinkTypeOK, FlightOK, NEW f \in UpFrames, Answer(f)
    PROVE  up' \in Seq(UpFrames) /\ Len(up') <= Cap /\ online
BY SeqAppend, LinkAssumption DEF FlightOK, Answer

\* The parts of a step of the link.
LEMMA LinkKept ==
    ASSUME LinkTypeOK, FlightOK, UNCHANGED <<link, online>>,
           down' \in Seq(DownFrames), Len(down') <= Cap, ~online => down' = <<>>,
           up' \in Seq(UpFrames), Len(up') <= Cap, ~online => up' = <<>>,
           reader' \in [Links -> UpFrames \cup {None}]
    PROVE  LinkTypeOK' /\ FlightOK'
<1>1. \A l \in Links : reader'[l] # None => reader'[l].t \in Transfers
  BY UpFrame
<1>2. link' \in Links /\ online' \in BOOLEAN
  BY DEF LinkTypeOK
<1> QED BY <1>1, <1>2 DEF LinkTypeOK, FlightOK, Links

LEMMA UnchangedLink ==
    ASSUME LinkTypeOK, FlightOK, UNCHANGED linkVars, reader' \in [Links -> UpFrames \cup {None}]
    PROVE  LinkTypeOK' /\ FlightOK'
BY LinkKept DEF linkVars, LinkTypeOK, FlightOK

LEMMA PumpLink ==
    ASSUME TypeOK, FlightOK, PumpOK, NEW t \in Transfers, Pump(t)
    PROVE  LinkTypeOK' /\ FlightOK'
<1> USE DEF linkVars
<1>0. LinkTypeOK /\ reader \in [Links -> UpFrames \cup {None}]
      /\ up \in Seq(UpFrames) /\ Len(up) <= Cap /\ (~online => up = <<>>)
  BY DEF TypeOK, LinkTypeOK, FlightOK
<1>1. CASE PumpDiskError(t) \/ PumpCancel(t) \/ PumpResume(t) \/ PumpCheck(t) \/ PumpWait(t)
           \/ PumpPersist(t)
  BY <1>0, <1>1, UnchangedLink
     DEF PumpDiskError, PumpCancel, PumpResume, PumpCheck, PumpWait, PumpPersist
<1>2. CASE PumpPrologue(t) \/ PumpSend(t) \/ PumpDone(t)
  <2>1. UNCHANGED <<link, online, up, reader>>
    BY <1>2 DEF PumpPrologue, PumpSend, PumpDone
  <2>2. down' = down \/ \E f \in DownFrames : SendOK(pconn[t], f) \/ SendFails(pconn[t])
    <3>1. PumpSend(t) => pos[t] \in Nat /\ pos[t] < Len(Source[t])
      BY DEF PumpSend, PumpOK
    <3> QED BY <1>2, <3>1, DownFrameOf DEF PumpPrologue, PumpSend, PumpDone
  <2>3. down' \in Seq(DownFrames) /\ Len(down') <= Cap /\ (~online => down' = <<>>)
    BY <1>0, <2>2, SentType DEF LinkTypeOK, FlightOK
  <2> QED BY <1>0, <2>1, <2>3, LinkKept
<1> QED BY <1>1, <1>2 DEF Pump

LEMMA AgentLink ==
    ASSUME TypeOK, FlightOK, NEW t \in Transfers, Agent(t)
    PROVE  LinkTypeOK' /\ FlightOK'
<1>0. LinkTypeOK /\ reader \in [Links -> UpFrames \cup {None}]
      /\ up \in Seq(UpFrames) /\ Len(up) <= Cap /\ (~online => up = <<>>)
  BY DEF TypeOK, LinkTypeOK, FlightOK
<1>1. \E kind : Take(t, kind)
  BY DEF Agent, BeginUpload, AgentChunk, AgentComplete, AgentCancel
<1>2. down' \in Seq(DownFrames) /\ Len(down') <= Cap /\ online /\ UNCHANGED <<link, online, reader>>
  BY <1>0, <1>1, TakenType DEF Take
<1>3. Silent \/ \E f \in UpFrames : Answer(f)
  <2>1. Len(part) \in Nat
    BY DEF TypeOK, Files
  <2> QED BY <2>1, UpFrameOf DEF Agent, BeginUpload, AgentChunk, AgentComplete, AgentCancel, Settled
<1>4. up' \in Seq(UpFrames) /\ Len(up') <= Cap
  BY <1>0, <1>3, AnswerType DEF Silent
<1> QED BY <1>0, <1>2, <1>4, LinkKept

LEMMA LinkStep ==
    ASSUME TypeOK, FlightOK, PumpOK, [Next]_vars
    PROVE  LinkTypeOK' /\ FlightOK'
<1> USE DEF linkVars
<1>0. /\ LinkTypeOK /\ reader \in [Links -> UpFrames \cup {None}]
      /\ up \in Seq(UpFrames) /\ Len(up) <= Cap /\ (~online => up = <<>>)
      /\ down \in Seq(DownFrames) /\ Len(down) <= Cap /\ (~online => down = <<>>)
      /\ link \in Links /\ online \in BOOLEAN /\ Cap \in Nat /\ MaxLinks \in Nat
  BY LinkAssumption DEF TypeOK, LinkTypeOK, FlightOK
<1>1. ASSUME NEW t \in Transfers, StartUpload(t) \/ OperatorCancel(t) PROVE LinkTypeOK' /\ FlightOK'
  BY <1>0, <1>1, UnchangedLink DEF StartUpload, OperatorCancel
<1>2. ASSUME NEW t \in Transfers, Pump(t) PROVE LinkTypeOK' /\ FlightOK'
  BY <1>2, PumpLink
<1>3. ASSUME NEW t \in Transfers, CancelSend(t) PROVE LinkTypeOK' /\ FlightOK'
  <2>1. UNCHANGED <<link, online, up, reader>>
    BY <1>3 DEF CancelSend, SendCancel
  <2>2. down' \in Seq(DownFrames) /\ Len(down') <= Cap /\ (~online => down' = <<>>)
    <3>1. SendOK(link, CancelFrame(t))
      BY <1>3 DEF CancelSend, SendCancel, SendOK
    <3> QED BY <1>0, <3>1, DownFrameOf, SentType
  <2> QED BY <1>0, <2>1, <2>2, LinkKept
<1>4. CASE ReadFrame
  <2>1. /\ up # <<>> /\ up' = Tail(up) /\ UNCHANGED <<link, online, down>> /\ online
        /\ reader' \in {[reader EXCEPT ![link] = Head(up)], reader}
    BY <1>4 DEF ReadFrame, Read
  <2>2. up' \in Seq(UpFrames) /\ Len(up') <= Cap /\ Head(up) \in UpFrames
    BY <1>0, <2>1, SeqTail
  <2>3. reader' \in [Links -> UpFrames \cup {None}]
    BY <1>0, <2>1, <2>2
  <2> QED BY <1>0, <2>1, <2>2, <2>3, LinkKept
<1>5. ASSUME NEW l \in Links, HandleResume(l) \/ HandleDone(l) PROVE LinkTypeOK' /\ FlightOK'
  <2>1. reader' \in [Links -> UpFrames \cup {None}] /\ UNCHANGED linkVars
    BY <1>0, <1>5 DEF HandleResume, HandleDone, Handle
  <2> QED BY <1>0, <2>1, UnchangedLink
<1>6. CASE Reaper \/ UNCHANGED vars
  BY <1>0, <1>6, UnchangedLink DEF Reaper, vars
<1>7. CASE ServerRestart \/ Disconnect
  <2>1. /\ link' = link /\ online' = FALSE /\ down' = <<>> /\ up' = <<>>
        /\ reader' \in {reader, [l \in Links |-> None]}
    BY <1>7 DEF ServerRestart, Restart, Disconnect, Break
  <2>2. link < MaxLinks
    BY <1>0, <1>7 DEF ServerRestart, Restart, Disconnect, Break, FlightOK
  <2>3. reader' \in [Links -> UpFrames \cup {None}]
    BY <1>0, <2>1
  <2>4. \A l \in Links : reader'[l] # None => reader'[l].t \in Transfers
    BY <2>3, UpFrame
  <2>5. /\ down' \in Seq(DownFrames) /\ up' \in Seq(UpFrames)
        /\ Len(down') <= Cap /\ Len(up') <= Cap
    BY <1>0, <2>1
  <2> QED BY <1>0, <2>1, <2>2, <2>3, <2>4, <2>5 DEF LinkTypeOK, FlightOK
<1>8. CASE Reconnect
  <2>1. online' = TRUE /\ link' = link + 1 /\ UNCHANGED <<down, up, reader>> /\ ~online
    BY <1>8 DEF Reconnect, Redial
  <2>2. link' \in Links
    BY <1>0, <2>1 DEF FlightOK, Links
  <2>3. \A l \in Links : reader'[l] # None => reader'[l].t \in Transfers
    BY <1>0, <2>1, UpFrame
  <2> QED BY <1>0, <2>1, <2>2, <2>3 DEF LinkTypeOK, FlightOK, Links
<1>9. ASSUME NEW t \in Transfers, Agent(t) PROVE LinkTypeOK' /\ FlightOK'
  BY <1>9, AgentLink
<1> QED BY <1>1, <1>2, <1>3, <1>4, <1>5, <1>6, <1>7, <1>8, <1>9 DEF Next

\* The pump and the agent's files.
PumpTypeOK ==
    /\ pump \in [Transfers -> {"none", "prologue", "cancel", "resume", "pump", "send",
                               "wait", "persist", "done", "end"}]
    /\ pconn \in [Transfers -> 0..MaxLinks]
    /\ \A t \in Transfers : pos[t] \in 0..Len(Source[t])
    /\ resumeCh \in [Transfers -> Offsets]

AgentTypeOK ==
    /\ uploads \in [Transfers -> Offsets]
    /\ part \in Files
    /\ dest \in Files \cup {None}
    /\ landed \subseteq Transfers

LEMMA PumpMoves ==
    ASSUME PumpTypeOK, PumpOK, NEW t \in Transfers,
           NEW pc \in {"none", "prologue", "cancel", "resume", "pump",
                       "wait", "persist", "done", "end"},
           PumpGoes(t, pc), UNCHANGED <<pconn, pos, resumeCh, link>>
    PROVE  PumpTypeOK' /\ PumpOK'
BY DEF PumpTypeOK, PumpOK, PumpGoes

LEMMA PumpTypeStep ==
    ASSUME PumpTypeOK, PumpOK, NEW t \in Transfers, Pump(t)
    PROVE  PumpTypeOK' /\ PumpOK'
<1> USE DEF linkVars
<1>1. CASE PumpDiskError(t) \/ PumpCancel(t) \/ PumpWait(t) \/ PumpPersist(t) \/ PumpDone(t)
           \/ PumpPrologue(t)
  BY <1>1, PumpMoves DEF PumpDiskError, PumpCancel, PumpWait, PumpPersist, PumpDone, PumpPrologue,
                         PumpFails
<1>2. CASE PumpResume(t)
  <2>1. CASE PumpGoes(t, "end") /\ UNCHANGED <<pos, resumeCh>>
    BY <1>2, <2>1, PumpMoves DEF PumpResume
  <2>2. CASE /\ resumeCh[t] # None
             /\ pos' = [pos EXCEPT ![t] = ResumeAt(t, resumeCh[t])]
             /\ resumeCh' = [resumeCh EXCEPT ![t] = None]
             /\ PumpGoes(t, "pump")
    <3>1. Len(Source[t]) \in Nat /\ resumeCh[t] \in Nat
      BY <2>2, UploadAssumption DEF Files, PumpTypeOK, Offsets
    <3>2. ResumeAt(t, resumeCh[t]) \in 0..Len(Source[t])
      BY <3>1 DEF ResumeAt
    <3>3. UNCHANGED <<pconn, link>>
      BY <1>2 DEF PumpResume
    <3>4. pos' \in [Transfers -> Nat] /\ \A u \in Transfers : pos'[u] \in 0..Len(Source[u])
      BY <2>2, <3>2 DEF PumpTypeOK, PumpOK
    <3>5. /\ pump' \in [Transfers -> {"none", "prologue", "cancel", "resume", "pump", "send",
                                      "wait", "persist", "done", "end"}]
          /\ resumeCh' \in [Transfers -> Offsets]
          /\ \A u \in Transfers : pump'[u] = "send" => pump[u] = "send" /\ pos'[u] = pos[u]
      BY <2>2 DEF PumpTypeOK, PumpOK, PumpGoes, Offsets
    <3> QED BY <3>3, <3>4, <3>5 DEF PumpTypeOK, PumpOK
  <2> QED BY <1>2, <2>1, <2>2 DEF PumpResume, PumpFails
<1>3. CASE PumpCheck(t)
  <2>1. UNCHANGED <<pconn, pos, resumeCh, link>>
    BY <1>3 DEF PumpCheck
  <2>2. CASE t \notin cancelSig /\ pos[t] < Len(Source[t])
    BY <1>3, <2>1, <2>2 DEF PumpCheck, PumpGoes, PumpTypeOK, PumpOK
  <2>3. CASE ~(t \notin cancelSig /\ pos[t] < Len(Source[t]))
    BY <1>3, <2>1, <2>3, PumpMoves DEF PumpCheck
  <2> QED BY <2>2, <2>3
<1>4. CASE PumpSend(t)
  <2>0. UNCHANGED <<pconn, resumeCh, link>> /\ pump[t] = "send"
    BY <1>4 DEF PumpSend
  <2>1. CASE pos' = [pos EXCEPT ![t] = @ + 1] /\ PumpGoes(t, "pump")
    <3>1. Len(Source[t]) \in Nat /\ pos[t] \in Nat /\ pos[t] < Len(Source[t])
      BY <2>0, UploadAssumption DEF Files, PumpOK
    <3>2. pos' \in [Transfers -> Nat] /\ \A u \in Transfers : pos'[u] \in 0..Len(Source[u])
      BY <2>1, <3>1 DEF PumpTypeOK, PumpOK
    <3>3. /\ pump' \in [Transfers -> {"none", "prologue", "cancel", "resume", "pump", "send",
                                      "wait", "persist", "done", "end"}]
          /\ \A u \in Transfers : pump'[u] = "send" => pump[u] = "send" /\ pos'[u] = pos[u]
      BY <2>1 DEF PumpTypeOK, PumpOK, PumpGoes
    <3> QED BY <2>0, <3>2, <3>3 DEF PumpTypeOK, PumpOK
  <2>2. CASE PumpFails(t) /\ UNCHANGED pos
    BY <2>0, <2>2, PumpMoves DEF PumpFails
  <2> QED BY <1>4, <2>1, <2>2 DEF PumpSend
<1> QED BY <1>1, <1>2, <1>3, <1>4 DEF Pump

LEMMA AgentTypeStep ==
    ASSUME TypeOK, FlightOK, NEW t \in Transfers, Agent(t)
    PROVE  AgentTypeOK'
<1>0. AgentTypeOK /\ LinkTypeOK
  BY DEF TypeOK, AgentTypeOK
<1>1. Len(part) \in Nat /\ <<>> \in Files /\ Source[t] \in Files
  BY UploadAssumption DEF TypeOK, Files
<1>2. CASE BeginUpload(t)
  BY <1>0, <1>1, <1>2 DEF BeginUpload, AgentTypeOK, Offsets
<1>3. CASE AgentChunk(t)
  <2>1. Head(down) \in DownFrames /\ Head(down).kind = "chunk"
    BY <1>0, <1>3, TakenType DEF AgentChunk
  <2>2. Head(down).data \in Chunks /\ Head(down).seq \in Nat
    BY <2>1, DownFrame
  <2>3. Append(part, Head(down).data) \in Files
    BY <1>0, <2>2 DEF AgentTypeOK, Files
  <2>4. CASE uploads[t] # None /\ Head(down).seq = uploads[t]
             /\ part' = Append(part, Head(down).data)
             /\ uploads' = [uploads EXCEPT ![t] = @ + 1] /\ UNCHANGED <<dest, landed>>
    <3>1. uploads' \in [Transfers -> Offsets]
      BY <1>0, <2>2, <2>4 DEF AgentTypeOK, Offsets
    <3> QED BY <1>0, <2>3, <2>4, <3>1 DEF AgentTypeOK
  <2>5. CASE uploads' = [uploads EXCEPT ![t] = None] /\ UNCHANGED <<part, dest, landed>>
    BY <1>0, <2>5 DEF AgentTypeOK, Offsets
  <2>6. CASE UNCHANGED agentVars
    BY <1>0, <2>6 DEF AgentTypeOK, agentVars
  <2> QED BY <1>3, <2>4, <2>5, <2>6 DEF AgentChunk
<1>4. CASE AgentComplete(t)
  BY <1>0, <1>1, <1>4 DEF AgentComplete, AgentTypeOK, Offsets, agentVars
<1>5. CASE AgentCancel(t)
  BY <1>0, <1>5 DEF AgentCancel, AgentTypeOK, Offsets
<1> QED BY <1>2, <1>3, <1>4, <1>5 DEF Agent

LEMMA TypeStep ==
    ASSUME TypeOK, FlightOK, PumpOK, RecordOK, NotAsked, [Next]_vars
    PROVE  TypeOK' /\ FlightOK' /\ PumpOK' /\ RecordOK' /\ NotAsked'
<1> USE DEF linkVars
<1>0. /\ PumpTypeOK /\ AgentTypeOK /\ diskErrors \in 0..MaxDiskErrors /\ MaxDiskErrors \in Nat
      /\ link \in Links /\ MaxLinks \in Nat
  BY UploadAssumption, LinkAssumption DEF TypeOK, PumpTypeOK, AgentTypeOK, LinkTypeOK
<1>1. RecordOK' /\ NoneIsNew
  BY RecordStep DEF RecordGoal
<1>2. LinkTypeOK' /\ FlightOK'
  BY LinkStep
<1>3. diskErrors' \in 0..MaxDiskErrors
  <2>1. UNCHANGED diskErrors \/ DiskError
    <3>1. ASSUME NEW t \in Transfers, Pump(t) PROVE UNCHANGED diskErrors \/ DiskError
      BY <3>1 DEF Pump, PumpDiskError, PumpPrologue, PumpCancel, PumpResume, PumpCheck, PumpSend,
                  PumpWait, PumpPersist, PumpDone
    <3>2. ASSUME NEW t \in Transfers, Agent(t) PROVE UNCHANGED diskErrors \/ DiskError
      BY <3>2 DEF Agent, BeginUpload, AgentChunk, AgentComplete, AgentCancel
    <3> QED BY <3>1, <3>2 DEF Next, StartUpload, OperatorCancel, CancelSend, ReadFrame, HandleResume,
                  HandleDone, Reaper, ServerRestart, Disconnect, Reconnect, vars
  <2> QED BY <1>0, <2>1 DEF DiskError
<1>4. PumpTypeOK' /\ PumpOK'
  <2>1. CASE UNCHANGED <<pumpVars, link>>
    BY <1>0, <2>1 DEF pumpVars, PumpTypeOK, PumpOK
  <2>2. ASSUME NEW t \in Transfers, StartUpload(t) PROVE PumpTypeOK' /\ PumpOK'
    BY <1>0, <2>2 DEF StartUpload, PumpTypeOK, PumpOK, Links
  <2>3. ASSUME NEW t \in Transfers, Pump(t) PROVE PumpTypeOK' /\ PumpOK'
    BY <1>0, <2>3, PumpTypeStep
  <2>4. ASSUME NEW l \in Links, HandleResume(l) PROVE PumpTypeOK' /\ PumpOK'
    <3>1. reader[l].t \in Transfers /\ reader[l].offset \in Nat
      BY <2>4, UpFrame DEF HandleResume, Handle, FlightOK
    <3> QED BY <1>0, <2>4, <3>1 DEF HandleResume, PumpTypeOK, PumpOK, Offsets
  <2>5. CASE ServerRestart
    BY <1>0, <2>5 DEF ServerRestart, Restart, PumpTypeOK, PumpOK, Offsets
  <2>6. CASE Reconnect
    <3>1. pump' = pump /\ pconn' = pconn /\ pos' = pos /\ resumeCh' = resumeCh /\ link' = link + 1
      BY <2>6 DEF Reconnect, Redial, pumpVars
    <3> QED BY <1>0, <3>1 DEF PumpTypeOK, PumpOK, Links
  <2>7. ASSUME NEW t \in Transfers, OperatorCancel(t) \/ CancelSend(t) \/ Agent(t)
        PROVE  UNCHANGED <<pumpVars, link>>
    BY <2>7 DEF OperatorCancel, CancelSend, SendCancel, Agent, BeginUpload, AgentChunk,
                AgentComplete, AgentCancel, Take
  <2>8. ASSUME NEW l \in Links, HandleDone(l) PROVE UNCHANGED <<pumpVars, link>>
    BY <2>8 DEF HandleDone
  <2>9. ReadFrame \/ Reaper \/ Disconnect \/ UNCHANGED vars => UNCHANGED <<pumpVars, link>>
    BY DEF ReadFrame, Read, Reaper, Disconnect, Break, vars
  <2> QED BY <2>1, <2>2, <2>3, <2>4, <2>5, <2>6, <2>7, <2>8, <2>9 DEF Next
<1>5. AgentTypeOK'
  <2>1. ASSUME NEW t \in Transfers, Agent(t) PROVE AgentTypeOK'
    BY <2>1, AgentTypeStep
  <2>2. CASE UNCHANGED agentVars
    BY <1>0, <2>2 DEF agentVars, AgentTypeOK
  <2>3. ASSUME NEW t \in Transfers, Pump(t) PROVE UNCHANGED agentVars
    BY <2>3 DEF Pump, PumpDiskError, PumpPrologue, PumpCancel, PumpResume, PumpCheck, PumpSend,
                PumpWait, PumpPersist, PumpDone
  <2> QED BY <2>1, <2>2, <2>3 DEF Next, StartUpload, OperatorCancel, CancelSend, ReadFrame,
             HandleResume, HandleDone, Reaper, ServerRestart, Disconnect, Reconnect, vars
<1>6. NotAsked'
  <2>1. \A t \in Transfers : pump[t] = "none" /\ pump'[t] # "none" => status'[t] # "none"
    <3>1. ASSUME NEW u \in Transfers, StartUpload(u) PROVE \A t \in Transfers :
                pump[t] = "none" /\ pump'[t] # "none" => status'[t] # "none"
      <4>1. status'[u] # "none"
        BY <3>1, PutRecord DEF StartUpload, Statuses, Settled
      <4> QED BY <1>0, <3>1, <4>1 DEF StartUpload, PumpTypeOK
    <3>2. ASSUME NEW u \in Transfers, Pump(u) PROVE \A t \in Transfers :
                pump[t] = "none" => pump'[t] = "none"
      <4>1. pump[u] # "none"
        BY <3>2 DEF Pump, PumpDiskError, PumpPrologue, PumpCancel, PumpResume, PumpCheck, PumpSend,
                    PumpWait, PumpPersist, PumpDone
      <4>2. \E pc : PumpGoes(u, pc)
        BY <3>2 DEF Pump, PumpDiskError, PumpPrologue, PumpCancel, PumpResume, PumpCheck, PumpSend,
                    PumpWait, PumpPersist, PumpDone, PumpFails
      <4> QED BY <1>0, <4>1, <4>2 DEF PumpGoes, PumpTypeOK
    <3>3. ServerRestart => \A t \in Transfers : pump[t] = "none" => pump'[t] = "none"
      BY DEF ServerRestart
    <3>4. ASSUME NEW t \in Transfers, OperatorCancel(t) \/ CancelSend(t) \/ Agent(t)
          PROVE  UNCHANGED pump
      BY <3>4 DEF OperatorCancel, CancelSend, Agent, BeginUpload, AgentChunk, AgentComplete,
                  AgentCancel, pumpVars
    <3>5. ASSUME NEW l \in Links, HandleResume(l) \/ HandleDone(l) PROVE UNCHANGED pump
      BY <3>5 DEF HandleResume, HandleDone, pumpVars
    <3>6. ReadFrame \/ Reaper \/ Disconnect \/ Reconnect \/ UNCHANGED vars => UNCHANGED pump
      BY DEF ReadFrame, Reaper, Disconnect, Reconnect, vars, pumpVars
    <3> QED BY <3>1, <3>2, <3>3, <3>4, <3>5, <3>6 DEF Next
  <2> QED BY <1>1, <2>1 DEF NotAsked, NoneIsNew
<1>7. TypeOK'
  BY <1>1, <1>2, <1>3, <1>4, <1>5 DEF TypeOK, PumpTypeOK, AgentTypeOK, RecordOK
<1> QED BY <1>1, <1>2, <1>4, <1>6, <1>7

-----------------------------------------------------------------------------
(***************************************************************************)
(* Success is earned.                                                      *)
(***************************************************************************)

\* What a step may add to the frames on their way to the server.
UpEarned ==
    \A i \in DOMAIN up' : Verdict(up'[i]) => up'[i].t \in landed'

LEMMA UpKeepsEarned ==
    ASSUME FlightOK, SuccessEarned, landed \subseteq landed', up' = up
    PROVE  UpEarned
BY DEF SuccessEarned, UpEarned

LEMMA AnswerEarned ==
    ASSUME FlightOK, SuccessEarned, landed \subseteq landed', NEW f \in UpFrames,
           Verdict(f) => f.t \in landed', Answer(f)
    PROVE  UpEarned
<1>1. /\ DOMAIN up = 1..Len(up) /\ DOMAIN up' = 1..(Len(up) + 1) /\ Len(up) \in Nat
      /\ \A i \in 1..Len(up) : up'[i] = up[i]
      /\ up'[Len(up) + 1] = f
  BY SeqAppend DEF FlightOK, Answer
<1> QED BY <1>1 DEF SuccessEarned, UpEarned

LEMMA AgentEarned ==
    ASSUME TypeOK, FlightOK, SuccessEarned, NEW t \in Transfers, Agent(t)
    PROVE  landed \subseteq landed' /\ UpEarned
<1>1. landed \subseteq landed'
  BY DEF Agent, BeginUpload, AgentChunk, AgentComplete, AgentCancel, agentVars
<1>2. CASE Silent
  BY <1>1, <1>2, UpKeepsEarned DEF Silent
<1>3. CASE Answer(Resume(t, Len(part))) \/ Answer(Done(t, "failed")) \/ Answer(Done(t, "canceled"))
  <2>1. PICK f \in UpFrames : Answer(f) /\ ~Verdict(f)
    <3>1. Len(part) \in Nat
      BY DEF TypeOK, Files
    <3>2. \A g \in {Resume(t, Len(part)), Done(t, "failed"), Done(t, "canceled")} :
                g \in UpFrames /\ ~Verdict(g)
      BY <3>1, UpFrameOf DEF Verdict, Settled
    <3> QED BY <1>3, <3>2
  <2> QED BY <1>1, <2>1, AnswerEarned
<1>4. CASE AgentComplete(t) /\ Intact(t) /\ Answer(Done(t, "success"))
           /\ landed' = IF part = Source[t] THEN landed \cup {t} ELSE landed
  <2>1. Done(t, "success") \in UpFrames /\ Done(t, "success").t = t
    BY UpFrameOf DEF Settled
  <2>2. t \in landed'
    BY <1>4 DEF Intact
  <2> QED BY <1>1, <1>4, <2>1, <2>2, AnswerEarned
<1> QED BY <1>1, <1>2, <1>3, <1>4
        DEF Agent, BeginUpload, AgentChunk, AgentComplete, AgentCancel

LEMMA EarnedStep ==
    ASSUME TypeOK, FlightOK, RecordOK, SuccessEarned, [Next]_vars
    PROVE  SuccessEarned'
<1> USE DEF linkVars, agentVars
<1>1. \A t \in Transfers : Marked(t)' => t \in landed
  <2>1. \A t \in Transfers : Marked(t)' => Marked(t) \/ VerdictRead(t)
    BY RecordStep DEF RecordGoal
  <2> QED BY <2>1 DEF SuccessEarned, VerdictRead
<1>2. CASE UNCHANGED <<up, landed>> /\ \A l \in Links : reader'[l] \in {reader[l], None}
  BY <1>1, <1>2 DEF SuccessEarned
<1>3. CASE UNCHANGED landed /\ up' = <<>> /\ \A l \in Links : reader'[l] \in {reader[l], None}
  BY <1>1, <1>3 DEF SuccessEarned
<1>4. CASE ReadFrame
  <2>1. /\ up # <<>> /\ up' = Tail(up) /\ landed' = landed
        /\ \A l \in Links : reader'[l] \in {reader[l], Head(up)}
    BY <1>4 DEF ReadFrame, Read, FlightOK
  <2>2. /\ DOMAIN up = 1..Len(up) /\ DOMAIN up' = 1..(Len(up) - 1) /\ Len(up) \in Nat \ {0}
        /\ \A i \in 1..(Len(up) - 1) : up'[i] = up[i + 1]
        /\ Head(up) = up[1]
    BY <2>1, SeqTail DEF FlightOK
  <2>3. \A i \in DOMAIN up' : Verdict(up'[i]) => up'[i].t \in landed'
    BY <2>1, <2>2 DEF SuccessEarned
  <2>4. Verdict(Head(up)) => Head(up).t \in landed
    BY <2>2 DEF SuccessEarned
  <2> QED BY <1>1, <2>1, <2>3, <2>4 DEF SuccessEarned
<1>5. ASSUME NEW t \in Transfers, Agent(t) PROVE SuccessEarned'
  <2>1. landed \subseteq landed' /\ UpEarned
    BY <1>5, AgentEarned
  <2>2. reader' = reader
    BY <1>5 DEF Agent, BeginUpload, AgentChunk, AgentComplete, AgentCancel, Take
  <2> QED BY <1>1, <2>1, <2>2 DEF SuccessEarned, UpEarned
<1>6. ASSUME NEW t \in Transfers, Pump(t) PROVE UNCHANGED <<up, landed, reader>>
  BY <1>6 DEF Pump, PumpDiskError, PumpPrologue, PumpCancel, PumpResume, PumpCheck, PumpSend,
              PumpWait, PumpPersist, PumpDone
<1>7. ASSUME NEW t \in Transfers, StartUpload(t) \/ OperatorCancel(t) \/ CancelSend(t)
      PROVE  UNCHANGED <<up, landed, reader>>
  BY <1>7 DEF StartUpload, OperatorCancel, CancelSend, SendCancel
<1>8. ASSUME NEW l \in Links, HandleResume(l) \/ HandleDone(l)
      PROVE  UNCHANGED <<up, landed>> /\ \A k \in Links : reader'[k] \in {reader[k], None}
  BY <1>8 DEF HandleResume, HandleDone, Handle, FlightOK
<1>9. Reaper \/ Reconnect \/ UNCHANGED vars => UNCHANGED <<up, landed, reader>>
  BY DEF Reaper, Reconnect, Redial, vars
<1>10. ServerRestart \/ Disconnect =>
        UNCHANGED landed /\ up' = <<>> /\ \A l \in Links : reader'[l] \in {reader[l], None}
  BY DEF ServerRestart, Restart, Disconnect, Break
<1> QED BY <1>2, <1>3, <1>4, <1>5, <1>6, <1>7, <1>8, <1>9, <1>10 DEF Next

-----------------------------------------------------------------------------
(***************************************************************************)
(* Offset, position and sequence number.  A step that takes a frame from a *)
(* queue shifts the others by one; for a transfer it is not about, that is *)
(* all it does.                                                            *)
(***************************************************************************)
DownShift(t, d) ==
    /\ \A i \in InDown("start", t)' : i + d \in InDown("start", t)
    /\ \A i \in InDown("chunk", t)' : i + d \in InDown("chunk", t) /\ down'[i].seq = down[i + d].seq

ChunksStay(t, d) == \A i \in InDown("chunk", t) : i - d \in InDown("chunk", t)'

UpShift(t, d) ==
    \A i \in ResumeInUp(t)' : i + d \in ResumeInUp(t) /\ up'[i].offset = up[i + d].offset

ReadKept(t) == \A l \in ResumeRead(t)' : l \in ResumeRead(t) /\ reader'[l] = reader[l]

\* The program counters a pump may go to without a frame sent or received.
PumpQuiet(t) ==
    \/ pump'[t] = pump[t]
    \/ pump'[t] \in {"wait", "persist", "done", "end"}
    \/ pump[t] = "prologue" /\ pump'[t] = "cancel"
    \/ pump[t] = "pump" /\ pump'[t] = "send"

LEMMA Indices ==
    ASSUME FlightOK
    PROVE  /\ \A t, k : InDown(k, t) \subseteq Nat \ {0}
           /\ \A t : ResumeInUp(t) \subseteq Nat \ {0}
           /\ \A t : \A i \in InDown("chunk", t) : down[i].seq \in Nat
<1>1. DOMAIN down \subseteq Nat \ {0} /\ DOMAIN up \subseteq Nat \ {0}
  BY DEF FlightOK
<1>2. \A i \in DOMAIN down : down[i] \in DownFrames
  BY DEF FlightOK
<1>3. ASSUME NEW t, NEW i \in InDown("chunk", t) PROVE down[i].seq \in Nat
  BY <1>2, DownFrame DEF InDown
<1> QED BY <1>1, <1>3 DEF InDown, ResumeInUp

LEMMA Carry ==
    ASSUME FlightOK, FlightOK', PumpOK, NEW t \in Transfers, Flow(t),
           NEW d \in {0, 1}, NEW e \in {0, 1},
           DownShift(t, d), UpShift(t, e), ReadKept(t),
           uploads'[t] # None /\ online' => ChunksStay(t, d),
           uploads'[t] \in {None, uploads[t]}, resumeCh'[t] \in {None, resumeCh[t]},
           pos'[t] = pos[t], pconn'[t] = pconn[t], link' = link, online' => online,
           PumpQuiet(t), uploads[t] \in Offsets
    PROVE  Flow(t)'
<1>0. /\ \A k : InDown(k, t) \subseteq Nat \ {0} /\ InDown(k, t)' \subseteq Nat \ {0}
      /\ ResumeInUp(t) \subseteq Nat \ {0} /\ ResumeInUp(t)' \subseteq Nat \ {0}
      /\ \A i \in InDown("chunk", t) : down[i].seq \in Nat
      /\ pos[t] \in Nat
  <2>1. DOMAIN down' \subseteq Nat \ {0} /\ DOMAIN up' \subseteq Nat \ {0}
    BY DEF FlightOK
  <2>2. (\A k : InDown(k, t)' \subseteq Nat \ {0}) /\ ResumeInUp(t)' \subseteq Nat \ {0}
    BY <2>1 DEF InDown, ResumeInUp
  <2> QED BY <2>2, Indices DEF PumpOK
<1>1. /\ InDown("start", t)' # {} => InDown("start", t) # {}
      /\ ResumeInUp(t)' # {} => ResumeInUp(t) # {}
      /\ ResumeRead(t)' # {} => ResumeRead(t) # {}
      /\ resumeCh'[t] # None => resumeCh[t] # None
      /\ Waits(t)' => Waits(t)
  BY DEF DownShift, UpShift, ReadKept, Waits
<1>2. OneStart(t)'
  <2>1. \A i, j \in InDown("start", t)' : i = j
    BY <1>0 DEF DownShift, Flow, OneStart
  <2>2. \A i, j \in ResumeInUp(t)' : i = j
    BY <1>0 DEF UpShift, Flow, OneStart
  <2>3. \A i, j \in ResumeRead(t)' : i = j
    BY DEF ReadKept, Flow, OneStart
  <2> QED BY <1>1, <2>1, <2>2, <2>3 DEF Flow, OneStart
<1>3. Offset(t)'
  <2>1. \A i \in ResumeInUp(t)' : uploads'[t] \in {None, up'[i].offset}
    BY DEF UpShift, Flow, Offset
  <2>2. \A l \in ResumeRead(t)' : uploads'[t] \in {None, reader'[l].offset}
    BY DEF ReadKept, Flow, Offset
  <2>3. uploads'[t] \in {None, resumeCh'[t]} \/ resumeCh'[t] = None
    BY DEF Flow, Offset
  <2>4. pump'[t] \in {"none", "prologue", "cancel"} =>
            ~Waits(t)' /\ uploads'[t] = None /\ pos'[t] = 0
    BY <1>1 DEF Flow, Offset, PumpQuiet
  <2>5. pump'[t] = "resume" => pos'[t] = 0
    BY DEF Flow, Offset, PumpQuiet
  <2>6. Waits(t)' => pos'[t] = 0 /\ pump'[t] \notin {"pump", "send"}
    BY <1>1 DEF Flow, Offset, PumpQuiet
  <2>7. InDown("start", t)' # {} => uploads'[t] = None
    BY <1>1 DEF Flow, Offset
  <2> QED BY <2>1, <2>2, <2>3, <2>4, <2>5, <2>6, <2>7 DEF Offset
<1>4. InStep(t)'
  <2>1. pconn'[t] # link' => InDown("start", t)' = {} /\ InDown("chunk", t)' = {}
    BY <1>1 DEF DownShift, Flow, InStep
  <2>2. \A i \in InDown("chunk", t)' : down'[i].seq < pos'[t]
    BY DEF DownShift, Flow, InStep
  <2>3. \A i, j \in InDown("chunk", t)' : i < j => down'[i].seq < down'[j].seq
    <3> SUFFICES ASSUME NEW i \in InDown("chunk", t)', NEW j \in InDown("chunk", t)', i < j
                 PROVE  down'[i].seq < down'[j].seq
      OBVIOUS
    <3>1. i + d < j + d /\ i + d \in InDown("chunk", t) /\ j + d \in InDown("chunk", t)
      BY <1>0 DEF DownShift
    <3> QED BY <3>1 DEF DownShift, Flow, InStep
  <2>4. ASSUME uploads'[t] # None, online', pconn'[t] = link'
        PROVE  /\ \A i \in InDown("chunk", t)' : down'[i].seq >= uploads'[t]
               /\ \A n \in uploads'[t]..(pos'[t] - 1) :
                        \E i \in InDown("chunk", t)' : down'[i].seq = n
               /\ pump'[t] \in {"pump", "send"} =>
                        uploads'[t] <= pos'[t] \/ pos'[t] >= Len(Source[t])
    <3>1. /\ uploads'[t] = uploads[t] /\ uploads[t] # None /\ online /\ pconn[t] = link
          /\ ChunksStay(t, d)
      BY <2>4
    <3>2. \A i \in InDown("chunk", t)' : down'[i].seq >= uploads'[t]
      BY <3>1 DEF DownShift, Flow, InStep
    <3>3. ASSUME NEW n \in uploads'[t]..(pos'[t] - 1)
          PROVE  \E i \in InDown("chunk", t)' : down'[i].seq = n
      <4>1. PICK j \in InDown("chunk", t) : down[j].seq = n
        BY <3>1 DEF Flow, InStep
      <4>2. j - d \in InDown("chunk", t)' /\ (j - d) + d = j
        BY <1>0, <3>1 DEF ChunksStay
      <4>3. down'[j - d].seq = n
        BY <4>1, <4>2 DEF DownShift
      <4> QED BY <4>2, <4>3
    <3>4. pump'[t] \in {"pump", "send"} => uploads'[t] <= pos'[t] \/ pos'[t] >= Len(Source[t])
      BY <3>1 DEF PumpQuiet, Flow, InStep
    <3> QED BY <3>2, <3>3, <3>4
  <2> QED BY <2>1, <2>2, <2>3, <2>4 DEF InStep
<1> QED BY <1>2, <1>3, <1>4 DEF Flow

\* What the steps of the queues are for a transfer they are not about.
LEMMA DownStays ==
    ASSUME FlightOK, NEW t, down' = down
    PROVE  DownShift(t, 0) /\ ChunksStay(t, 0)
<1>1. \A k : InDown(k, t)' = InDown(k, t) /\ InDown(k, t) \subseteq Nat
  BY Indices DEF InDown
<1> QED BY <1>1 DEF DownShift, ChunksStay

LEMMA DownGrows ==
    ASSUME FlightOK, NEW t, NEW f \in DownFrames, down' = Append(down, f),
           f.t # t \/ f.kind \notin {"start", "chunk"}
    PROVE  DownShift(t, 0) /\ ChunksStay(t, 0)
<1>1. /\ DOMAIN down = 1..Len(down) /\ DOMAIN down' = 1..(Len(down) + 1) /\ Len(down) \in Nat
      /\ \A i \in 1..Len(down) : down'[i] = down[i]
      /\ down'[Len(down) + 1] = f
  BY SeqAppend DEF FlightOK
<1>2. ASSUME NEW k \in {"start", "chunk"}
      PROVE  /\ \A i \in InDown(k, t)' : i \in InDown(k, t) /\ down'[i] = down[i]
             /\ InDown(k, t) \subseteq InDown(k, t)'
  BY <1>1 DEF InDown
<1>3. \A i \in DOMAIN down' : i + 0 = i /\ i - 0 = i
  BY <1>1
<1>4. InDown("start", t)' \subseteq DOMAIN down' /\ InDown("chunk", t)' \subseteq DOMAIN down'
  BY DEF InDown
<1>5. DownShift(t, 0)
  BY <1>2, <1>3, <1>4 DEF DownShift
<1>6. ChunksStay(t, 0)
  BY <1>2, <1>3, <1>4 DEF ChunksStay
<1> QED BY <1>5, <1>6

LEMMA DownTaken ==
    ASSUME FlightOK, NEW t, down # <<>>, down' = Tail(down)
    PROVE  /\ DownShift(t, 1)
           /\ Head(down).t # t \/ Head(down).kind # "chunk" => ChunksStay(t, 1)
<1>1. /\ DOMAIN down = 1..Len(down) /\ DOMAIN down' = 1..(Len(down) - 1)
      /\ Len(down) \in Nat \ {0} /\ Head(down) = down[1]
      /\ \A i \in 1..(Len(down) - 1) : down'[i] = down[i + 1]
  BY SeqTail DEF FlightOK
<1>2. ASSUME NEW k PROVE \A i \in InDown(k, t)' : i + 1 \in InDown(k, t) /\ down'[i] = down[i + 1]
  BY <1>1 DEF InDown
<1>3. ASSUME Head(down).t # t \/ Head(down).kind # "chunk"
      PROVE  \A i \in InDown("chunk", t) : i - 1 \in InDown("chunk", t)'
  <2> SUFFICES ASSUME NEW i \in InDown("chunk", t) PROVE i - 1 \in InDown("chunk", t)'
    OBVIOUS
  <2>1. i \in 2..Len(down)
    BY <1>1, <1>3 DEF InDown
  <2>2. i - 1 \in 1..(Len(down) - 1) /\ down'[i - 1] = down[i]
    BY <1>1, <2>1
  <2> QED BY <1>1, <2>2 DEF InDown
<1> QED BY <1>2, <1>3 DEF DownShift, ChunksStay

LEMMA UpStays ==
    ASSUME FlightOK, NEW t, up' = up
    PROVE  UpShift(t, 0)
<1>1. ResumeInUp(t)' = ResumeInUp(t) /\ ResumeInUp(t) \subseteq Nat
  BY Indices DEF ResumeInUp
<1> QED BY <1>1 DEF UpShift

LEMMA UpGrows ==
    ASSUME FlightOK, NEW t, NEW f \in UpFrames, up' = Append(up, f),
           f.t # t \/ f.kind # "resume"
    PROVE  UpShift(t, 0)
<1>1. /\ DOMAIN up = 1..Len(up) /\ DOMAIN up' = 1..(Len(up) + 1) /\ Len(up) \in Nat
      /\ \A i \in 1..Len(up) : up'[i] = up[i]
      /\ up'[Len(up) + 1] = f
  BY SeqAppend DEF FlightOK
<1>2. \A i \in ResumeInUp(t)' : i + 0 = i /\ i \in ResumeInUp(t) /\ up'[i] = up[i]
  BY <1>1 DEF ResumeInUp
<1> QED BY <1>2 DEF UpShift

LEMMA UpTaken ==
    ASSUME FlightOK, NEW t, up # <<>>, up' = Tail(up)
    PROVE  UpShift(t, 1) /\ (ResumeInUp(t)' # {} => \E i \in ResumeInUp(t) : i # 1)
<1>1. /\ DOMAIN up = 1..Len(up) /\ DOMAIN up' = 1..(Len(up) - 1)
      /\ Len(up) \in Nat \ {0}
      /\ \A i \in 1..(Len(up) - 1) : up'[i] = up[i + 1]
  BY SeqTail DEF FlightOK
<1>2. \A i \in ResumeInUp(t)' : i + 1 # 1 /\ i + 1 \in ResumeInUp(t) /\ up'[i] = up[i + 1]
  BY <1>1 DEF ResumeInUp
<1>3. UpShift(t, 1)
  BY <1>2 DEF UpShift
<1>4. ASSUME ResumeInUp(t)' # {} PROVE \E i \in ResumeInUp(t) : i # 1
  <2>1. PICK i : i \in ResumeInUp(t)'
    BY <1>4
  <2> QED BY <1>2, <2>1
<1> QED BY <1>3, <1>4

LEMMA ReadStays ==
    ASSUME NEW t, \A l \in Links : reader'[l] \in {reader[l], None}
    PROVE  ReadKept(t)
BY DEF ReadKept, ResumeRead

\* A step that moves no frame and no offset.
LEMMA CarryAll ==
    ASSUME TypeOK, FlightOK, FlightOK', PumpOK, NEW t \in Transfers, Flow(t),
           UNCHANGED <<down, up, link, online>>, \A l \in Links : reader'[l] \in {reader[l], None},
           uploads'[t] = uploads[t], resumeCh'[t] = resumeCh[t],
           pos'[t] = pos[t], pconn'[t] = pconn[t], PumpQuiet(t)
    PROVE  Flow(t)'
<1>1. uploads[t] \in Offsets
  BY DEF TypeOK
<1> QED BY <1>1, DownStays, UpStays, ReadStays, Carry

-----------------------------------------------------------------------------
(***************************************************************************)
(* The steps the invariant is about.                                       *)
(***************************************************************************)

\* Frames and offsets stay where they are.
FlightSame(t) ==
    /\ \A k : InDown(k, t)' = InDown(k, t)
    /\ ResumeInUp(t)' = ResumeInUp(t) /\ ResumeRead(t)' = ResumeRead(t)

LEMMA SameFlight ==
    ASSUME NEW t, UNCHANGED <<down, up, reader>>
    PROVE  FlightSame(t)
BY DEF FlightSame, InDown, ResumeInUp, ResumeRead

\* A position of zero means that no chunk was sent.
LEMMA NothingSent ==
    ASSUME FlightOK, NEW t \in Transfers, Flow(t), pos[t] = 0
    PROVE  InDown("chunk", t) = {}
BY Indices DEF Flow, InStep

LEMMA StartFlow ==
    ASSUME TypeOK, FlightOK, FlightOK', PumpOK, NotAsked, \A u \in Transfers : Flow(u),
           NEW t \in Transfers, StartUpload(t), NEW u \in Transfers
    PROVE  Flow(u)'
<1> USE DEF linkVars, agentVars
<1>1. CASE u # t
  <2>1. pump'[u] = pump[u] /\ pconn'[u] = pconn[u]
    BY <1>1 DEF StartUpload, TypeOK
  <2> QED BY <2>1, CarryAll DEF StartUpload, PumpQuiet
<1>2. CASE u = t
  <2>1. /\ pump[t] = "none" /\ pump'[t] = "prologue"
        /\ UNCHANGED <<down, up, reader, resumeCh, uploads, pos, link, online>>
    BY DEF StartUpload, NotAsked, TypeOK
  <2>2. ~Waits(t) /\ uploads[t] = None /\ pos[t] = 0
    BY <2>1 DEF Flow, Offset
  <2>3. InDown("chunk", t) = {} /\ InDown("start", t) = {} /\ FlightSame(t) /\ Flow(t)
    BY <2>1, <2>2, NothingSent, SameFlight DEF Waits
  <2>4. OneStart(t)'
    BY <2>1, <2>3 DEF Flow, OneStart, FlightSame
  <2>5. Offset(t)'
    BY <2>1, <2>2, <2>3 DEF Offset, Waits, FlightSame
  <2>6. InStep(t)'
    BY <2>1, <2>2, <2>3 DEF InStep, FlightSame
  <2> QED BY <1>2, <2>4, <2>5, <2>6 DEF Flow
<1> QED BY <1>1, <1>2

\* The pump of another transfer, and every step of a pump that sends nothing.
LEMMA QuietPumpFlow ==
    ASSUME TypeOK, FlightOK, FlightOK', PumpOK, \A u \in Transfers : Flow(u),
           NEW t \in Transfers,
           PumpDiskError(t) \/ PumpCancel(t) \/ PumpCheck(t) \/ PumpWait(t) \/ PumpPersist(t),
           NEW u \in Transfers
    PROVE  Flow(u)'
<1> USE DEF linkVars, agentVars
<1>1. UNCHANGED <<down, up, reader, resumeCh, uploads, pos, pconn, link, online>>
  BY DEF PumpDiskError, PumpCancel, PumpCheck, PumpWait, PumpPersist
<1>2. \E pc \in {"wait", "persist", "done", "end"} : PumpGoes(t, pc)
      \/ (pump[t] = "pump" /\ PumpGoes(t, "send"))
  BY DEF PumpDiskError, PumpCancel, PumpCheck, PumpWait, PumpPersist, PumpFails
<1>3. PumpQuiet(u)
  BY <1>2 DEF PumpGoes, PumpQuiet, TypeOK
<1> QED BY <1>1, <1>3, CarryAll

LEMMA PrologueFlow ==
    ASSUME TypeOK, FlightOK, FlightOK', PumpOK, \A u \in Transfers : Flow(u),
           NEW t \in Transfers, PumpPrologue(t), NEW u \in Transfers
    PROVE  Flow(u)'
<1> USE DEF agentVars
<1>1. UNCHANGED <<up, reader, resumeCh, uploads, pos, pconn, link, online>> /\ pump[t] = "prologue"
  BY DEF PumpPrologue
<1>2. CASE down' = down /\ (PumpGoes(t, "cancel") \/ PumpGoes(t, "end"))
  <2>1. PumpQuiet(u)
    BY <1>1, <1>2 DEF PumpGoes, PumpQuiet, TypeOK
  <2> QED BY <1>1, <1>2, <2>1, CarryAll
<1>3. CASE SendOK(pconn[t], Start(t)) /\ PumpGoes(t, "resume")
  <2>0. Start(t) \in DownFrames /\ Start(t).kind = "start" /\ Start(t).t = t
    BY DownFrameOf
  <2>1. CASE u # t
    <3>1. PumpQuiet(u)
      BY <1>3, <2>1 DEF PumpGoes, PumpQuiet, TypeOK
    <3>2. DownShift(u, 0) /\ ChunksStay(u, 0)
      BY <1>3, <2>0, <2>1, DownStays, DownGrows DEF SendOK
    <3>3. UpShift(u, 0) /\ ReadKept(u) /\ uploads[u] \in Offsets
      BY <1>1, UpStays, ReadStays DEF TypeOK
    <3> QED BY <1>1, <3>1, <3>2, <3>3, Carry
  <2>2. CASE u = t
    <3>1. ~Waits(t) /\ uploads[t] = None /\ pos[t] = 0 /\ Flow(t)
      BY <1>1 DEF Flow, Offset
    <3>2. InDown("chunk", t) = {} /\ InDown("start", t) = {}
      BY <3>1, NothingSent DEF Waits
    <3>3. ResumeInUp(t)' = {} /\ ResumeRead(t)' = {} /\ resumeCh'[t] = None
      BY <1>1, <3>1 DEF Waits, ResumeInUp, ResumeRead
    <3>4. /\ InDown("chunk", t)' = {} /\ \A i, j \in InDown("start", t)' : i = j
          /\ pconn[t] # link => InDown("start", t)' = {}
      <4>1. CASE down' = down /\ ~(online /\ pconn[t] = link)
        BY <3>2, <4>1 DEF InDown
      <4>2. CASE online /\ pconn[t] = link /\ down' = Append(down, Start(t))
        <5>1. /\ DOMAIN down = 1..Len(down) /\ DOMAIN down' = 1..(Len(down) + 1)
              /\ Len(down) \in Nat
              /\ \A i \in 1..Len(down) : down'[i] = down[i]
              /\ down'[Len(down) + 1] = Start(t)
          BY <2>0, <4>2, SeqAppend DEF FlightOK
        <5> QED BY <2>0, <3>2, <4>2, <5>1 DEF InDown
      <4> QED BY <1>3, <4>1, <4>2 DEF SendOK
    <3>5. pump'[t] = "resume"
      BY <1>3 DEF PumpGoes, TypeOK
    <3>6. OneStart(t)'
      BY <3>3, <3>4 DEF OneStart
    <3>7. Offset(t)'
      BY <1>1, <3>1, <3>3, <3>5 DEF Offset
    <3>8. InStep(t)'
      BY <1>1, <3>1, <3>4 DEF InStep
    <3> QED BY <2>2, <3>6, <3>7, <3>8 DEF Flow
  <2> QED BY <2>1, <2>2
<1> QED BY <1>2, <1>3 DEF PumpPrologue, PumpFails, SendFails

\* The pump has the offset: no chunk was sent yet, and it goes on where the
\* agent's assembler waits, or at the end of the file.
LEMMA ResumeFlow ==
    ASSUME TypeOK, FlightOK, FlightOK', PumpOK, \A u \in Transfers : Flow(u),
           NEW t \in Transfers, PumpResume(t), NEW u \in Transfers
    PROVE  Flow(u)'
<1> USE DEF linkVars, agentVars
<1>1. UNCHANGED <<down, up, reader, uploads, pconn, link, online>>
  BY DEF PumpResume
<1>2. CASE PumpGoes(t, "end") /\ UNCHANGED <<pos, resumeCh>>
  <2>1. PumpQuiet(u)
    BY <1>2 DEF PumpGoes, PumpQuiet, TypeOK
  <2> QED BY <1>1, <1>2, <2>1, CarryAll
<1>3. CASE /\ resumeCh[t] # None
           /\ pos' = [pos EXCEPT ![t] = ResumeAt(t, resumeCh[t])]
           /\ resumeCh' = [resumeCh EXCEPT ![t] = None]
           /\ PumpGoes(t, "pump")
  <2>1. CASE u # t
    <3>1. PumpQuiet(u) /\ pos'[u] = pos[u] /\ resumeCh'[u] = resumeCh[u]
      BY <1>3, <2>1 DEF PumpGoes, PumpQuiet, TypeOK, PumpOK
    <3> QED BY <1>1, <3>1, CarryAll
  <2>2. CASE u = t
    <3>1. Flow(t) /\ Waits(t)
      BY <1>3 DEF Waits
    <3>2. /\ pos[t] = 0 /\ uploads[t] \in {None, resumeCh[t]} /\ resumeCh[t] \in Nat
          /\ InDown("start", t) = {} /\ ResumeInUp(t) = {} /\ ResumeRead(t) = {}
      BY <1>3, <3>1 DEF Flow, OneStart, Offset, TypeOK, Offsets
    <3>3. InDown("chunk", t) = {} /\ FlightSame(t)
      BY <1>1, <3>1, <3>2, NothingSent, SameFlight
    <3>4. /\ resumeCh'[t] = None /\ pump'[t] = "pump" /\ pos'[t] = ResumeAt(t, resumeCh[t])
      BY <1>3 DEF PumpGoes, TypeOK, PumpOK
    <3>5. ~Waits(t)'
      BY <3>2, <3>3, <3>4 DEF Waits, FlightSame
    <3>6. OneStart(t)'
      BY <3>2, <3>3, <3>4 DEF OneStart, FlightSame
    <3>7. Offset(t)'
      BY <3>2, <3>3, <3>4, <3>5 DEF Offset, FlightSame
    <3>8. Len(Source[t]) \in Nat
      BY UploadAssumption DEF Files
    <3>9. uploads'[t] # None => /\ \A n \in uploads'[t]..(pos'[t] - 1) : FALSE
                                /\ uploads'[t] <= pos'[t] \/ pos'[t] >= Len(Source[t])
      BY <1>1, <3>2, <3>4, <3>8 DEF ResumeAt
    <3>10. InStep(t)'
      BY <3>2, <3>3, <3>9 DEF InStep, FlightSame
    <3> QED BY <2>2, <3>6, <3>7, <3>10 DEF Flow
  <2> QED BY <2>1, <2>2
<1> QED BY <1>2, <1>3 DEF PumpResume, PumpFails

LEMMA SendFlow ==
    ASSUME TypeOK, FlightOK, FlightOK', PumpOK, \A u \in Transfers : Flow(u),
           NEW t \in Transfers, PumpSend(t), NEW u \in Transfers
    PROVE  Flow(u)'
<1> USE DEF agentVars
<1>1. UNCHANGED <<up, reader, resumeCh, uploads, pconn, link, online>> /\ pump[t] = "send"
  BY DEF PumpSend
<1>2. CASE down' = down /\ PumpGoes(t, "end") /\ UNCHANGED pos
  <2>1. PumpQuiet(u)
    BY <1>2 DEF PumpGoes, PumpQuiet, TypeOK
  <2> QED BY <1>1, <1>2, <2>1, CarryAll
<1>3. CASE /\ SendOK(pconn[t], Chunk(t, pos[t]))
           /\ pos' = [pos EXCEPT ![t] = @ + 1] /\ PumpGoes(t, "pump")
  <2> DEFINE f == Chunk(t, pos[t])
  <2>0. /\ f \in DownFrames /\ f.kind = "chunk" /\ f.t = t /\ f.seq = pos[t]
        /\ pos[t] \in Nat /\ pos[t] < Len(Source[t]) /\ Len(Source[t]) \in Nat
    BY <1>1, DownFrameOf, UploadAssumption DEF PumpOK, Files
  <2> HIDE DEF f
  <2>1. CASE u # t
    <3>1. PumpQuiet(u) /\ pos'[u] = pos[u]
      BY <1>3, <2>1 DEF PumpGoes, PumpQuiet, TypeOK, PumpOK
    <3>2. DownShift(u, 0) /\ ChunksStay(u, 0)
      BY <1>3, <2>0, <2>1, DownStays, DownGrows DEF SendOK, f
    <3>3. UpShift(u, 0) /\ ReadKept(u) /\ uploads[u] \in Offsets
      BY <1>1, UpStays, ReadStays DEF TypeOK
    <3> QED BY <1>1, <3>1, <3>2, <3>3, Carry
  <2>2. CASE u = t
    <3>1. pump'[t] = "pump" /\ pos'[t] = pos[t] + 1
      BY <1>3 DEF PumpGoes, TypeOK, PumpOK
    <3>2. Flow(t) /\ ~Waits(t)
      BY <1>1 DEF Flow, Offset
    <3>3. InDown("start", t)' = {} /\ ResumeInUp(t)' = {} /\ ResumeRead(t)' = {} /\ resumeCh'[t] = None
      <4>1. ResumeInUp(t)' = {} /\ ResumeRead(t)' = {} /\ resumeCh'[t] = None
        BY <1>1, <3>2 DEF Waits, ResumeInUp, ResumeRead
      <4>2. down' = down \/ down' = Append(down, f)
        BY <1>3 DEF SendOK, f
      <4>3. CASE down' = Append(down, f)
        <5>1. /\ DOMAIN down = 1..Len(down) /\ DOMAIN down' = 1..(Len(down) + 1)
              /\ Len(down) \in Nat
              /\ \A i \in 1..Len(down) : down'[i] = down[i]
              /\ down'[Len(down) + 1] = f
          BY <2>0, <4>3, SeqAppend DEF FlightOK
        <5> QED BY <2>0, <3>2, <4>1, <5>1 DEF InDown, Waits
      <4> QED BY <3>2, <4>1, <4>2, <4>3 DEF InDown, Waits
    <3>4. OneStart(t)'
      BY <3>3 DEF OneStart
    <3>5. Offset(t)'
      BY <3>1, <3>3 DEF Offset, Waits
    <3>6. InStep(t)'
      <4>1. CASE down' = down /\ ~(online /\ pconn[t] = link)
        <5>1. InDown("chunk", t) = {}
          <6>1. ~online => down = <<>>
            BY DEF FlightOK
          <6> QED BY <3>2, <4>1, <6>1 DEF Flow, InStep, InDown
        <5>2. InDown("chunk", t)' = {}
          BY <4>1, <5>1 DEF InDown
        <5> QED BY <1>1, <3>3, <4>1, <5>2 DEF InStep
      <4>2. CASE online /\ pconn[t] = link /\ down' = Append(down, f)
        <5> DEFINE last == Len(down) + 1
        <5>1. /\ DOMAIN down = 1..Len(down) /\ DOMAIN down' = 1..last
              /\ Len(down) \in Nat
              /\ \A i \in 1..Len(down) : down'[i] = down[i]
              /\ down'[last] = f
          BY <2>0, <4>2, SeqAppend DEF FlightOK
        <5>2. /\ InDown("chunk", t)' = InDown("chunk", t) \cup {last}
              /\ \A i \in InDown("chunk", t) : i < last /\ i \in Nat /\ down'[i] = down[i]
                                               /\ down[i].seq \in Nat /\ down[i].seq < pos[t]
              /\ last \in Nat /\ down'[last].seq = pos[t]
          <6>1. \A i \in InDown("chunk", t) : down[i].seq \in Nat /\ down[i].seq < pos[t]
            BY <3>2, Indices DEF Flow, InStep
          <6> QED BY <2>0, <5>1, <6>1 DEF InDown
        <5> HIDE DEF last
        <5>3. \A i \in InDown("chunk", t)' : down'[i].seq < pos'[t]
          BY <2>0, <3>1, <5>2
        <5>4. \A i, j \in InDown("chunk", t)' : i < j => down'[i].seq < down'[j].seq
          <6>1. \A i, j \in InDown("chunk", t) : i < j => down[i].seq < down[j].seq
            BY <3>2 DEF Flow, InStep
          <6> QED BY <2>0, <5>2, <6>1
        <5>5. ASSUME uploads'[t] # None
              PROVE  /\ \A i \in InDown("chunk", t)' : down'[i].seq >= uploads'[t]
                     /\ \A n \in uploads'[t]..(pos'[t] - 1) :
                            \E i \in InDown("chunk", t)' : down'[i].seq = n
                     /\ uploads'[t] <= pos'[t]
          <6>1. /\ uploads'[t] = uploads[t] /\ uploads[t] \in Nat /\ uploads[t] # None
                /\ uploads[t] <= pos[t]
            BY <1>1, <2>0, <3>2, <4>2, <5>5 DEF TypeOK, Offsets, Flow, InStep
          <6>2. /\ \A i \in InDown("chunk", t) : down[i].seq >= uploads[t]
                /\ \A n \in uploads[t]..(pos[t] - 1) : \E i \in InDown("chunk", t) : down[i].seq = n
            BY <3>2, <4>2, <6>1 DEF Flow, InStep
          <6>3. \A i \in InDown("chunk", t)' : down'[i].seq >= uploads'[t]
            BY <2>0, <5>2, <6>1, <6>2
          <6>4. ASSUME NEW n \in uploads'[t]..(pos'[t] - 1)
                PROVE  \E i \in InDown("chunk", t)' : down'[i].seq = n
            <7>1. n = pos[t] \/ n \in uploads[t]..(pos[t] - 1)
              BY <2>0, <3>1, <6>1
            <7> QED BY <5>2, <6>2, <7>1
          <6> QED BY <2>0, <3>1, <6>1, <6>3, <6>4
        <5> QED BY <1>1, <3>3, <4>2, <5>3, <5>4, <5>5 DEF InStep
      <4> QED BY <1>3, <4>1, <4>2 DEF SendOK, f
    <3> QED BY <2>2, <3>4, <3>5, <3>6 DEF Flow
  <2> QED BY <2>1, <2>2
<1> QED BY <1>2, <1>3 DEF PumpSend, PumpFails, SendFails

\* The complete frame and the cancel frame are no part of the exchange.
LEMMA LastFrameFlow ==
    ASSUME TypeOK, FlightOK, FlightOK', PumpOK, \A u \in Transfers : Flow(u),
           NEW t \in Transfers, PumpDone(t) \/ CancelSend(t), NEW u \in Transfers
    PROVE  Flow(u)'
<1> USE DEF agentVars, pumpVars
<1>1. UNCHANGED <<up, reader, resumeCh, uploads, pos, pconn, link, online>>
  BY DEF PumpDone, CancelSend, SendCancel
<1>2. PumpQuiet(u)
  BY DEF PumpDone, CancelSend, PumpFails, PumpGoes, PumpQuiet, TypeOK
<1>3. DownShift(u, 0) /\ ChunksStay(u, 0)
  <2>1. CASE down' = down
    BY <2>1, DownStays
  <2>2. ASSUME NEW f \in {Complete(t), CancelFrame(t)}, down' = Append(down, f)
        PROVE  DownShift(u, 0) /\ ChunksStay(u, 0)
    <3>1. f \in DownFrames /\ f.kind \notin {"start", "chunk"}
      BY <2>2, DownFrameOf
    <3> QED BY <2>2, <3>1, DownGrows
  <2> QED BY <2>1, <2>2 DEF PumpDone, CancelSend, SendCancel, SendOK, SendFails
<1>4. UpShift(u, 0) /\ ReadKept(u) /\ uploads[u] \in Offsets
  BY <1>1, UpStays, ReadStays DEF TypeOK
<1> QED BY <1>1, <1>2, <1>3, <1>4, Carry

\* What the agent announced is taken from the connection ...
LEMMA ReadFlow ==
    ASSUME TypeOK, FlightOK, FlightOK', PumpOK, \A u \in Transfers : Flow(u),
           ReadFrame, NEW u \in Transfers
    PROVE  Flow(u)'
<1> USE DEF agentVars, pumpVars
<1>1. /\ UNCHANGED <<down, pump, resumeCh, uploads, pos, pconn, link, online>>
      /\ up # <<>> /\ up' = Tail(up) /\ link \in Links /\ Flow(u)
      /\ reader' \in {reader, [reader EXCEPT ![link] = Head(up)]}
      /\ reader \in [Links -> UpFrames \cup {None}]
  BY DEF ReadFrame, Read, TypeOK, LinkTypeOK, FlightOK
<1>2. /\ UpShift(u, 1) /\ (ResumeInUp(u)' # {} => \E i \in ResumeInUp(u) : i # 1)
      /\ DownShift(u, 0) /\ ChunksStay(u, 0) /\ uploads[u] \in Offsets
  BY <1>1, UpTaken, DownStays DEF TypeOK
<1>3. CASE ReadKept(u)
  BY <1>1, <1>2, <1>3, Carry DEF PumpQuiet
<1>4. CASE ~ReadKept(u)
  <2>1. /\ reader' = [reader EXCEPT ![link] = Head(up)]
        /\ Head(up).kind = "resume" /\ Head(up).t = u
    BY <1>1, <1>4 DEF ReadKept, ResumeRead
  <2>2. 1 \in ResumeInUp(u) /\ up[1] = Head(up)
    BY <1>1, <2>1, SeqTail DEF ResumeInUp, FlightOK
  <2>3. /\ ResumeInUp(u)' = {} /\ ResumeRead(u) = {} /\ resumeCh[u] = None
        /\ InDown("start", u) = {} /\ uploads[u] \in {None, Head(up).offset}
    BY <1>1, <1>2, <2>2 DEF Flow, OneStart, Offset
  <2>4. ResumeRead(u)' \subseteq {link} /\ reader'[link] = Head(up)
    BY <1>1, <2>1, <2>3 DEF ResumeRead
  <2>5. \A k : InDown(k, u)' = InDown(k, u)
    BY <1>1 DEF InDown
  <2>6. Waits(u) /\ pos[u] = 0 /\ pump[u] \notin {"none", "prologue", "cancel", "pump", "send"}
    BY <1>1, <2>2 DEF Waits, Flow, Offset
  <2>7. OneStart(u)'
    BY <1>1, <2>3, <2>4, <2>5 DEF OneStart
  <2>8. Offset(u)'
    BY <1>1, <2>3, <2>4, <2>5, <2>6 DEF Offset
  <2>9. InStep(u)'
    BY <1>1, <2>5 DEF Flow, InStep
  <2> QED BY <2>7, <2>8, <2>9 DEF Flow
<1> QED BY <1>3, <1>4

\* ... and handed to the pump.
LEMMA HandleFlow ==
    ASSUME TypeOK, FlightOK, FlightOK', PumpOK, \A u \in Transfers : Flow(u),
           NEW l \in Links, HandleResume(l) \/ HandleDone(l), NEW u \in Transfers
    PROVE  Flow(u)'
<1> USE DEF agentVars, pumpVars, linkVars
<1>1. /\ UNCHANGED <<down, up, pump, uploads, pos, pconn, link, online>>
      /\ reader[l] # None /\ reader' = [reader EXCEPT ![l] = None] /\ Flow(u)
      /\ reader \in [Links -> UpFrames \cup {None}]
  BY DEF HandleResume, HandleDone, Handle, FlightOK
<1>2. \A k \in Links : reader'[k] \in {reader[k], None}
  BY <1>1
<1>3. CASE resumeCh'[u] = resumeCh[u]
  BY <1>1, <1>2, <1>3, CarryAll DEF PumpQuiet
<1>4. CASE resumeCh'[u] # resumeCh[u]
  <2>1. /\ reader[l].kind = "resume" /\ reader[l].t = u
        /\ resumeCh[u] = None /\ resumeCh'[u] = reader[l].offset
    BY <1>4 DEF HandleResume, HandleDone, Handle, TypeOK
  <2>2. l \in ResumeRead(u)
    BY <1>1, <2>1 DEF ResumeRead
  <2>3. /\ ResumeInUp(u) = {} /\ InDown("start", u) = {}
        /\ uploads[u] \in {None, reader[l].offset} /\ \A k \in ResumeRead(u) : k = l
    BY <1>1, <2>2 DEF Flow, OneStart, Offset
  <2>4. ResumeRead(u)' = {} /\ ResumeInUp(u)' = {} /\ \A k : InDown(k, u)' = InDown(k, u)
    BY <1>1, <2>3 DEF ResumeRead, ResumeInUp, InDown
  <2>5. Waits(u) /\ pos[u] = 0 /\ pump[u] \notin {"none", "prologue", "cancel", "pump", "send"}
    BY <1>1, <2>2 DEF Waits, Flow, Offset
  <2>6. OneStart(u)'
    BY <2>3, <2>4 DEF OneStart
  <2>7. Offset(u)'
    BY <1>1, <2>1, <2>3, <2>4, <2>5 DEF Offset
  <2>8. InStep(u)'
    BY <1>1, <2>4 DEF Flow, InStep
  <2> QED BY <2>6, <2>7, <2>8 DEF Flow
<1> QED BY <1>3, <1>4

\* A broken connection takes every frame with it.
LEMMA BreakFlow ==
    ASSUME TypeOK, FlightOK, FlightOK', PumpOK, \A u \in Transfers : Flow(u),
           ServerRestart \/ Disconnect, NEW u \in Transfers
    PROVE  Flow(u)'
<1> USE DEF agentVars, pumpVars
<1>1. /\ UNCHANGED <<uploads, pos, pconn, link>> /\ ~online'
      /\ down' = <<>> /\ up' = <<>> /\ \A l \in Links : reader'[l] \in {reader[l], None}
      /\ resumeCh'[u] \in {None, resumeCh[u]}
  BY DEF ServerRestart, Restart, Disconnect, Break
<1>2. PumpQuiet(u)
  BY DEF ServerRestart, Disconnect, PumpQuiet
<1>3. DownShift(u, 0) /\ UpShift(u, 0) /\ ReadKept(u) /\ uploads[u] \in Offsets
  BY <1>1, ReadStays DEF DownShift, UpShift, InDown, ResumeInUp, TypeOK
<1> QED BY <1>1, <1>2, <1>3, Carry

\* The pump of the old connection is none of the new one's.
LEMMA RedialFlow ==
    ASSUME TypeOK, FlightOK, PumpOK, \A u \in Transfers : Flow(u), Reconnect, NEW u \in Transfers
    PROVE  Flow(u)'
<1> USE DEF agentVars, pumpVars
<1>1. /\ UNCHANGED <<pump, uploads, pos, pconn, down, up, reader, resumeCh>>
      /\ link' = link + 1 /\ down = <<>> /\ up = <<>> /\ Flow(u)
  BY DEF Reconnect, Redial, FlightOK
<1>2. pconn'[u] # link'
  <2>1. link \in Nat /\ pconn[u] \in Nat /\ pconn[u] <= link
    BY LinkAssumption DEF TypeOK, LinkTypeOK, PumpOK, Links
  <2> QED BY <1>1, <2>1
<1>3. FlightSame(u) /\ InDown("start", u) = {} /\ InDown("chunk", u) = {}
  BY <1>1, SameFlight DEF InDown
<1>4. OneStart(u)'
  BY <1>1, <1>3 DEF Flow, OneStart, FlightSame
<1>5. Offset(u)'
  BY <1>1, <1>3 DEF Flow, Offset, Waits, FlightSame
<1>6. InStep(u)'
  BY <1>2, <1>3 DEF InStep, FlightSame
<1> QED BY <1>4, <1>5, <1>6 DEF Flow

-----------------------------------------------------------------------------
\* A step of the agent that only drops uploads and answers with a verdict.
LEMMA AgentDrops ==
    ASSUME TypeOK, FlightOK, FlightOK', PumpOK, NEW u \in Transfers, Flow(u),
           down # <<>>, down' = Tail(down),
           UNCHANGED <<link, online, reader, pump, pconn, pos, resumeCh>>,
           Silent \/ \E t \in Transfers : \E s \in Settled : Answer(Done(t, s)),
           uploads'[u] = uploads[u] => Head(down).t # u \/ Head(down).kind # "chunk"
                                       \/ uploads[u] = None,
           uploads'[u] \in {None, uploads[u]}
    PROVE  Flow(u)'
<1>1. UpShift(u, 0)
  <2>1. CASE Silent
    BY <2>1, UpStays DEF Silent
  <2>2. ASSUME NEW t \in Transfers, NEW s \in Settled, Answer(Done(t, s))
        PROVE  UpShift(u, 0)
    <3>1. Done(t, s) \in UpFrames /\ Done(t, s).kind = "done"
      BY UpFrameOf
    <3> QED BY <2>2, <3>1, UpGrows DEF Answer
  <2> QED BY <2>1, <2>2
<1>2. DownShift(u, 1) /\ (uploads'[u] # None => ChunksStay(u, 1))
  BY DownTaken
<1>3. ReadKept(u) /\ uploads[u] \in Offsets /\ PumpQuiet(u)
  BY ReadStays DEF TypeOK, PumpQuiet
<1> QED BY <1>1, <1>2, <1>3, Carry

\* The agent answers the start frame: the offset is the number it waits for.
LEMMA BeginFlow ==
    ASSUME TypeOK, FlightOK, FlightOK', PumpOK, \A u \in Transfers : Flow(u),
           NEW t \in Transfers, BeginUpload(t), NEW u \in Transfers
    PROVE  Flow(u)'
<1> USE DEF pumpVars
<1>1. /\ down # <<>> /\ down' = Tail(down) /\ Head(down).kind = "start" /\ Head(down).t = t
      /\ UNCHANGED <<link, online, reader, pump, pconn, pos, resumeCh>> /\ Flow(u)
      /\ uploads \in [Transfers -> Offsets]
  BY DEF BeginUpload, Take, TypeOK
<1>2. CASE Answer(Done(t, "failed")) /\ uploads' \in {uploads, [v \in Transfers |-> None]}
  BY <1>1, <1>2, AgentDrops DEF Settled
<1>3. CASE Answer(Resume(t, Len(part)))
           /\ uploads' = [v \in Transfers |-> IF v = t THEN Len(part) ELSE None]
  <2> DEFINE f == Resume(t, Len(part))
  <2>0. f \in UpFrames /\ f.kind = "resume" /\ f.t = t /\ f.offset = Len(part) /\ Len(part) \in Nat
    <3>1. Len(part) \in Nat
      BY DEF TypeOK, Files
    <3> QED BY <3>1, UpFrameOf
  <2>00. up' = Append(up, f)
    BY <1>3 DEF Answer
  <2> HIDE DEF f
  <2>1. CASE u # t
    <3>1. UpShift(u, 0)
      BY <2>0, <2>00, <2>1, UpGrows
    <3>2. DownShift(u, 1) /\ uploads'[u] = None
      BY <1>1, <1>3, <2>1, DownTaken
    <3>3. ReadKept(u) /\ uploads[u] \in Offsets /\ PumpQuiet(u)
      BY <1>1, ReadStays DEF PumpQuiet
    <3> QED BY <1>1, <3>1, <3>2, <3>3, Carry
  <2>2. CASE u = t
    <3>1. /\ DOMAIN down = 1..Len(down) /\ DOMAIN down' = 1..(Len(down) - 1)
          /\ Len(down) \in Nat \ {0} /\ Head(down) = down[1]
          /\ \A i \in 1..(Len(down) - 1) : down'[i] = down[i + 1]
      BY <1>1, SeqTail DEF FlightOK
    <3>2. 1 \in InDown("start", t)
      BY <1>1, <3>1 DEF InDown
    <3>3. Waits(t) /\ Flow(t)
      BY <3>2 DEF Waits
    <3>4. /\ ResumeInUp(t) = {} /\ ResumeRead(t) = {} /\ resumeCh[t] = None /\ pos[t] = 0
          /\ pump[t] \notin {"none", "prologue", "cancel", "pump", "send"}
          /\ \A i \in InDown("start", t) : i = 1
      BY <3>2, <3>3 DEF Flow, OneStart, Offset
    <3>5. InDown("start", t)' = {} /\ InDown("chunk", t)' = {}
      <4>1. InDown("chunk", t) = {}
        BY <3>3, <3>4, NothingSent
      <4>2. \A k : \A i \in InDown(k, t)' : i + 1 # 1 /\ i + 1 \in InDown(k, t)
        BY <3>1 DEF InDown
      <4> QED BY <3>4, <4>1, <4>2
    <3>6. ResumeInUp(t)' = {Len(up) + 1} /\ up'[Len(up) + 1].offset = Len(part)
      <4>1. /\ DOMAIN up = 1..Len(up) /\ DOMAIN up' = 1..(Len(up) + 1) /\ Len(up) \in Nat
            /\ \A i \in 1..Len(up) : up'[i] = up[i]
            /\ up'[Len(up) + 1] = f
        BY <2>0, <2>00, SeqAppend DEF FlightOK
      <4> QED BY <2>0, <3>4, <4>1 DEF ResumeInUp
    <3>7. ResumeRead(t)' = {} /\ resumeCh'[t] = None /\ uploads'[t] = Len(part)
      BY <1>1, <1>3, <3>4 DEF ResumeRead
    <3>8. OneStart(t)'
      BY <3>5, <3>6, <3>7 DEF OneStart
    <3>9. Offset(t)'
      BY <1>1, <3>4, <3>5, <3>6, <3>7 DEF Offset
    <3>10. InStep(t)'
      <4>1. \A n \in uploads'[t]..(pos'[t] - 1) : FALSE
        BY <1>1, <2>0, <3>4, <3>7
      <4> QED BY <1>1, <3>4, <3>5, <4>1 DEF InStep
    <3> QED BY <2>2, <3>8, <3>9, <3>10 DEF Flow
  <2> QED BY <2>1, <2>2
<1> QED BY <1>2, <1>3 DEF BeginUpload

\* The agent writes the chunk it waits for.
LEMMA ChunkFlow ==
    ASSUME TypeOK, FlightOK, FlightOK', PumpOK, \A u \in Transfers : Flow(u),
           NEW t \in Transfers, AgentChunk(t), NEW u \in Transfers
    PROVE  Flow(u)'
<1> USE DEF pumpVars, agentVars
<1>1. /\ down # <<>> /\ down' = Tail(down) /\ Head(down).kind = "chunk" /\ Head(down).t = t
      /\ UNCHANGED <<link, online, reader, pump, pconn, pos, resumeCh>> /\ Flow(u)
      /\ uploads \in [Transfers -> Offsets]
  BY DEF AgentChunk, Take, TypeOK
<1>2. CASE uploads[t] = None /\ Silent /\ UNCHANGED uploads
  BY <1>1, <1>2, AgentDrops
<1>3. CASE uploads[t] # None /\ uploads' = [uploads EXCEPT ![t] = None]
           /\ Answer(Done(t, "failed"))
  BY <1>1, <1>3, AgentDrops DEF Settled
<1>4. CASE /\ uploads[t] # None /\ Head(down).seq = uploads[t]
           /\ uploads' = [uploads EXCEPT ![t] = @ + 1] /\ Silent
  <2>1. CASE u # t
    BY <1>1, <1>4, <2>1, AgentDrops
  <2>2. CASE u = t
    <3>1. /\ DOMAIN down = 1..Len(down) /\ DOMAIN down' = 1..(Len(down) - 1)
          /\ Len(down) \in Nat \ {0} /\ Head(down) = down[1]
          /\ \A i \in 1..(Len(down) - 1) : down'[i] = down[i + 1]
      BY <1>1, SeqTail DEF FlightOK
    <3>2. /\ 1 \in InDown("chunk", t) /\ down[1].seq = uploads[t] /\ uploads[t] \in Nat
          /\ uploads'[t] = uploads[t] + 1 /\ Flow(t) /\ pos[t] \in Nat
      BY <1>1, <1>4, <3>1 DEF InDown, Offsets, PumpOK
    <3>3. uploads[t] < pos[t] /\ pconn[t] = link /\ online
      <4>1. ~online => down = <<>>
        BY DEF FlightOK
      <4> QED BY <1>1, <3>2, <4>1 DEF Flow, InStep
    <3>4. ~Waits(t) /\ pump[t] \notin {"none", "prologue", "cancel", "resume"}
      BY <3>2, <3>3 DEF Flow, Offset
    <3>5. /\ \A k : \A i \in InDown(k, t)' : /\ i + 1 \in InDown(k, t) /\ down'[i] = down[i + 1]
                                             /\ i \in Nat /\ i > 0
          /\ \A i \in InDown("chunk", t) : i # 1 => i - 1 \in InDown("chunk", t)'
                                                    /\ down'[i - 1] = down[i]
      <4>1. \A i \in InDown("chunk", t) : i # 1 => i - 1 \in 1..(Len(down) - 1) /\ i - 1 + 1 = i
        BY <3>1 DEF InDown
      <4>2. \A i \in InDown("chunk", t) : i # 1 => down'[i - 1] = down[i]
        BY <3>1, <4>1
      <4>3. \A k : \A i \in InDown(k, t)' : /\ i + 1 \in InDown(k, t) /\ down'[i] = down[i + 1]
                                             /\ i \in Nat /\ i > 0
        BY <3>1 DEF InDown
      <4> QED BY <3>1, <4>1, <4>2, <4>3 DEF InDown
    <3>6. InDown("start", t)' = {} /\ ResumeInUp(t)' = {} /\ ResumeRead(t)' = {} /\ resumeCh'[t] = None
      BY <1>1, <1>4, <3>4, <3>5 DEF Waits, ResumeInUp, ResumeRead, Silent
    <3>7. OneStart(t)'
      BY <3>6 DEF OneStart
    <3>8. Offset(t)'
      BY <1>1, <3>4, <3>6 DEF Offset, Waits
    <3>9. InStep(t)'
      <4>0. /\ \A i \in InDown("chunk", t) : i \in Nat /\ down[i].seq \in Nat /\ down[i].seq < pos[t]
            /\ \A i, j \in InDown("chunk", t) : i < j => down[i].seq < down[j].seq
            /\ \A n \in uploads[t]..(pos[t] - 1) : \E i \in InDown("chunk", t) : down[i].seq = n
        <5>1. \A i \in InDown("chunk", t) : i \in Nat /\ down[i].seq \in Nat
          BY Indices
        <5>2. uploads[t] # None
          BY <1>4
        <5> QED BY <3>2, <3>3, <5>1, <5>2 DEF Flow, InStep
      <4>1. ASSUME NEW i \in InDown("chunk", t)' PROVE down'[i].seq < pos'[t]
        <5>1. i + 1 \in InDown("chunk", t) /\ down'[i] = down[i + 1]
          BY <3>5
        <5> QED BY <1>1, <4>0, <5>1
      <4>2. ASSUME NEW i \in InDown("chunk", t)', NEW j \in InDown("chunk", t)', i < j
            PROVE  down'[i].seq < down'[j].seq
        <5>1. i + 1 < j + 1 /\ i + 1 \in InDown("chunk", t) /\ j + 1 \in InDown("chunk", t)
          BY <3>5, <4>2
        <5> QED BY <3>5, <4>0, <5>1
      <4>3. ASSUME NEW i \in InDown("chunk", t)' PROVE down'[i].seq >= uploads'[t]
        <5>1. 1 < i + 1 /\ i + 1 \in InDown("chunk", t) /\ down'[i] = down[i + 1]
          BY <3>5
        <5>2. down[1].seq < down[i + 1].seq /\ down[i + 1].seq \in Nat
          BY <3>2, <4>0, <5>1
        <5> QED BY <3>2, <5>1, <5>2
      <4>4. ASSUME NEW n \in uploads'[t]..(pos'[t] - 1)
            PROVE  \E i \in InDown("chunk", t)' : down'[i].seq = n
        <5>1. n \in uploads[t]..(pos[t] - 1) /\ n # uploads[t]
          BY <1>1, <3>2
        <5>2. PICK j \in InDown("chunk", t) : down[j].seq = n
          BY <4>0, <5>1
        <5> QED BY <3>2, <3>5, <5>1, <5>2
      <4>5. uploads'[t] <= pos'[t]
        BY <1>1, <3>2, <3>3
      <4> QED BY <1>1, <3>3, <4>1, <4>2, <4>3, <4>4, <4>5 DEF InStep
    <3> QED BY <2>2, <3>7, <3>8, <3>9 DEF Flow
  <2> QED BY <2>1, <2>2
<1> QED BY <1>2, <1>3, <1>4 DEF AgentChunk

LEMMA FinishFlow ==
    ASSUME TypeOK, FlightOK, FlightOK', PumpOK, \A u \in Transfers : Flow(u),
           NEW t \in Transfers, AgentComplete(t) \/ AgentCancel(t), NEW u \in Transfers
    PROVE  Flow(u)'
<1> USE DEF pumpVars, agentVars
<1>1. /\ down # <<>> /\ down' = Tail(down) /\ Head(down).kind \in {"done", "cancel"}
      /\ UNCHANGED <<link, online, reader, pump, pconn, pos, resumeCh>> /\ Flow(u)
      /\ uploads' \in {uploads, [uploads EXCEPT ![t] = None]}
      /\ uploads \in [Transfers -> Offsets]
  BY DEF AgentComplete, AgentCancel, Take, TypeOK
<1>2. Silent \/ \E s \in Settled : Answer(Done(t, s))
  BY DEF AgentComplete, AgentCancel, Settled
<1> QED BY <1>1, <1>2, AgentDrops

LEMMA FlowStep ==
    ASSUME TypeOK, FlightOK, FlightOK', PumpOK, NotAsked, \A u \in Transfers : Flow(u),
           [Next]_vars, NEW u \in Transfers
    PROVE  Flow(u)'
<1> USE DEF linkVars, agentVars, pumpVars
<1>1. ASSUME NEW t \in Transfers, StartUpload(t) PROVE Flow(u)'
  BY <1>1, StartFlow
<1>2. ASSUME NEW t \in Transfers, Pump(t) PROVE Flow(u)'
  BY <1>2, QuietPumpFlow, PrologueFlow, ResumeFlow, SendFlow, LastFrameFlow DEF Pump
<1>3. ASSUME NEW t \in Transfers, CancelSend(t) PROVE Flow(u)'
  BY <1>3, LastFrameFlow
<1>4. CASE Reaper \/ UNCHANGED vars \/ \E t \in Transfers : OperatorCancel(t)
  <2>1. UNCHANGED <<down, up, reader, pump, uploads, pos, pconn, resumeCh, link, online>>
    BY <1>4 DEF Reaper, vars, OperatorCancel
  <2> QED BY <2>1, CarryAll DEF PumpQuiet
<1>5. CASE ReadFrame
  BY <1>5, ReadFlow
<1>6. ASSUME NEW l \in Links, HandleResume(l) \/ HandleDone(l) PROVE Flow(u)'
  BY <1>6, HandleFlow
<1>7. CASE ServerRestart \/ Disconnect
  BY <1>7, BreakFlow
<1>8. CASE Reconnect
  BY <1>8, RedialFlow
<1>9. ASSUME NEW t \in Transfers, Agent(t) PROVE Flow(u)'
  BY <1>9, BeginFlow, ChunkFlow, FinishFlow DEF Agent
<1> QED BY <1>1, <1>2, <1>3, <1>4, <1>5, <1>6, <1>7, <1>8, <1>9 DEF Next

-----------------------------------------------------------------------------
(***************************************************************************)
(* The theorems.                                                           *)
(***************************************************************************)

LEMMA InitInv == Init => Inv
<1> SUFFICES ASSUME Init PROVE Inv
  OBVIOUS
<1>0. \A t \in Transfers : Len(Source[t]) \in Nat
  BY UploadAssumption DEF Files
<1> USE DEF Init, LinkInit, RecordInit
<1>1. RecordOK
  <2>1. \A e \in Episodes : e.asked \subseteq Transfers /\ MaxCancels - e.cancels \in 0..MaxCancels
    BY UploadAssumption, RecordAssumption
  <2> QED BY <2>1 DEF RecordOK, RecordTypeOK, SettledGone, Statuses, Settled
<1>2. LinkTypeOK /\ FlightOK /\ PumpOK
  BY LinkAssumption DEF LinkTypeOK, FlightOK, PumpOK, Links
<1>3. diskErrors \in 0..MaxDiskErrors
  <2>1. \A e \in Episodes : MaxDiskErrors - e.diskErrors \in 0..MaxDiskErrors
    BY UploadAssumption
  <2> QED BY <2>1
<1>4. ASSUME NEW t \in Transfers PROVE pos[t] \in 0..Len(Source[t])
  <2>1. pos[t] = 0
    OBVIOUS
  <2>2. Len(Source[t]) \in Nat
    BY <1>0
  <2> HIDE DEF Init
  <2> QED BY <2>1, <2>2
<1>5. TypeOK
  <2>1. part \in Files /\ MaxLinks \in Nat
    BY UploadAssumption, LinkAssumption
  <2> QED BY <1>1, <1>2, <1>3, <1>4, <2>1 DEF TypeOK, RecordOK, Offsets
<1>6. NotAsked /\ SuccessEarned
  BY DEF NotAsked, SuccessEarned, Marked
<1>7. ASSUME NEW t \in Transfers PROVE Flow(t)
  <2>1. /\ InDown("start", t) = {} /\ InDown("chunk", t) = {} /\ ResumeInUp(t) = {}
        /\ ResumeRead(t) = {} /\ resumeCh[t] = None /\ uploads[t] = None /\ pos[t] = 0
    BY DEF InDown, ResumeInUp, ResumeRead
  <2> QED BY <2>1 DEF Flow, OneStart, Offset, InStep, Waits
<1> QED BY <1>1, <1>2, <1>5, <1>6, <1>7 DEF Inv

LEMMA InvStep == Inv /\ [Next]_vars => Inv'
<1> SUFFICES ASSUME Inv, [Next]_vars PROVE Inv'
  OBVIOUS
<1>1. TypeOK' /\ FlightOK' /\ PumpOK' /\ RecordOK' /\ NotAsked'
  BY TypeStep DEF Inv
<1>2. SuccessEarned'
  BY EarnedStep DEF Inv
<1>3. \A u \in Transfers : Flow(u)'
  BY <1>1, FlowStep DEF Inv
<1> QED BY <1>1, <1>2, <1>3 DEF Inv

\* The inductive invariant holds in every reachable state.
THEOREM Invariance == Spec => []Inv
<1>1. Init => Inv
  BY InitInv
<1>2. Inv /\ [Next]_vars => Inv'
  BY InvStep
<1> QED BY <1>1, <1>2, PTL DEF Spec

\* Every variable of an upload, records, connection, pump and agent, keeps its
\* type: a resumed position stays within the file, whatever offset was announced.
THEOREM TypeCorrect == Spec => []TypeOK
<1>1. Inv => TypeOK
  BY DEF Inv
<1> QED BY <1>1, Invariance, PTL

\* Whatever the .part file held, whoever else wrote to it and however the verdict
\* raced with a cancel, a reaper or a restart: a row that says 'success' is
\* about an upload whose whole file was renamed to its target.
THEOREM Delivered == Spec => []SuccessMeansDelivered
<1>1. Inv => SuccessMeansDelivered
  BY DEF Inv, SuccessEarned, SuccessMeansDelivered, Marked
<1> QED BY <1>1, Invariance, PTL

\* The chunk the agent reads for an open upload is the one its assembler waits
\* for, for files and offsets of any size, however often the agent reconnects.
THEOREM InOrder == Spec => []ChunksInOrder
<1>1. ASSUME Inv PROVE ChunksInOrder
  <2> SUFFICES ASSUME down # <<>>, Head(down).kind = "chunk", uploads[Head(down).t] # None
               PROVE  uploads[Head(down).t] = Head(down).seq
    BY DEF ChunksInOrder
  <2> DEFINE t == Head(down).t
  <2>0. FlightOK /\ TypeOK /\ PumpOK
    BY <1>1 DEF Inv
  <2>1. /\ Head(down) = down[1] /\ Head(down) \in DownFrames /\ 1 \in DOMAIN down
        /\ DOMAIN down \subseteq Nat /\ \A i \in DOMAIN down : 1 <= i
    BY <2>0, SeqTail DEF FlightOK
  <2>2. t \in Transfers /\ online
    BY <2>0, <2>1, DownFrame DEF FlightOK
  <2>3. 1 \in InDown("chunk", t) /\ Flow(t) /\ uploads[t] \in Nat /\ uploads[t] # None
    BY <1>1, <2>0, <2>1, <2>2 DEF InDown, Inv, TypeOK, Offsets
  <2> HIDE DEF t
  <2>4. /\ \A i \in InDown("chunk", t) : i \in Nat /\ 1 <= i /\ down[i].seq \in Nat
        /\ pos[t] \in Nat
    BY <2>0, <2>1, <2>2, Indices DEF InDown, PumpOK
  <2>5. /\ down[1].seq >= uploads[t] /\ down[1].seq < pos[t]
        /\ \A n \in uploads[t]..(pos[t] - 1) : \E i \in InDown("chunk", t) : down[i].seq = n
        /\ \A i \in InDown("chunk", t) : 1 < i => down[1].seq < down[i].seq
    BY <2>2, <2>3 DEF Flow, InStep
  <2>6. uploads[t] \in uploads[t]..(pos[t] - 1)
    BY <2>3, <2>4, <2>5
  <2>7. PICK i \in InDown("chunk", t) : down[i].seq = uploads[t]
    BY <2>5, <2>6
  <2>8. i = 1
    BY <2>3, <2>4, <2>5, <2>7
  <2> QED BY <2>1, <2>7, <2>8 DEF t
<1>2. Inv => ChunksInOrder
  BY <1>1
<1> QED BY <1>2, Invariance, PTL

\* Of all the goroutines that write a record, only the pump leaves a terminal
\* status, and only in the two places where it does not look at it.
THEOREM OnlyPumpLeaves == Spec => SettledLeftOnlyByPump
<1>1. ASSUME Inv, [Next]_vars
      PROVE  \A t \in Transfers : status[t] \in Settled /\ status'[t] # status[t] =>
                \/ pump[t] = "prologue" /\ status'[t] = "running"
                \/ pump[t] = "wait" /\ status'[t] = "waiting_remote"
  BY <1>1, RecordStep DEF Inv, RecordGoal, BlindWrite
<1> QED BY <1>1, Invariance, PTL DEF Spec, SettledLeftOnlyByPump
=============================================================================
