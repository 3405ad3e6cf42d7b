------------------------------- MODULE Upload -------------------------------
(***************************************************************************)
(* An upload: the server's pump goroutine (runUpload) sends a file over    *)
(* the agent's connection, the agent writes it to a .part file and renames *)
(* that when the checksum agrees.  The operator may cancel, the connection *)
(* may break and come back, a retry resumes from the .part file, and two   *)
(* uploads may aim at the same path.                                       *)
(*                                                                         *)
(* A file is a sequence of chunks and stands for its own checksum.  On the *)
(* agent one goroutine reads the frames, so a frame is handled in one step.*)
(***************************************************************************)
EXTENDS TransferLink

CONSTANTS
    Source,            \* the file an upload reads
    Episodes,          \* transfers asked for, and cancels and disk errors there may be
    StaleParts,        \* what earlier attempts may have left in the .part file
    MaxDiskErrors      \* failing file operations on either side

\* What files are made of.
Chunks == (UNION {{Source[t][i] : i \in DOMAIN Source[t]} : t \in Transfers})
          \cup (UNION {{p[i] : i \in DOMAIN p} : p \in StaleParts})
Files  == Seq(Chunks)

ASSUME UploadAssumption ==
    /\ Source \in [Transfers -> Files] /\ StaleParts \subseteq Files
    /\ None \notin Files /\ MaxDiskErrors \in Nat
    /\ \A e \in Episodes : /\ e.asked \subseteq Transfers
                            /\ e.cancels \in 0..MaxCancels /\ e.diskErrors \in 0..MaxDiskErrors

VARIABLES
    pump,              \* where runUpload stands
    pconn,             \* the connection it was started with
    pos,               \* the next chunk it reads
    resumeCh,          \* the buffered channel for the agent's offset
    uploads,           \* agent: next sequence number of each open upload
    part, dest,        \* agent: the .part file, the file at the target path
    landed,            \* history: uploads whose rename was reached intact
    diskErrors

pumpVars  == <<pump, pconn, pos, resumeCh>>
agentVars == <<uploads, part, dest, landed>>

vars == <<recordVars, pumpVars, linkVars, reader, agentVars, diskErrors>>

Init ==
    /\ LinkInit
    /\ \E e \in Episodes :
        /\ RecordInit(e.asked, e.cancels)
        /\ diskErrors = MaxDiskErrors - e.diskErrors
    /\ pump = [t \in Transfers |-> "none"]
    /\ pconn = [t \in Transfers |-> 0]
    /\ pos = [t \in Transfers |-> 0]
    /\ resumeCh = [t \in Transfers |-> None]
    /\ uploads = [t \in Transfers |-> None]
    /\ part \in StaleParts
    /\ dest = None
    /\ landed = {}

-----------------------------------------------------------------------------
\* Frames.
Start(t)        == [kind |-> "start", t |-> t]
Chunk(t, i)     == [kind |-> "chunk", t |-> t, seq |-> i, data |-> Source[t][i + 1]]
Complete(t)     == [kind |-> "done", t |-> t]
Resume(t, n)    == [kind |-> "resume", t |-> t, offset |-> n]
Done(t, s)      == [kind |-> "done", t |-> t, status |-> s]

DiskError == diskErrors < MaxDiskErrors /\ diskErrors' = diskErrors + 1

-----------------------------------------------------------------------------
(***************************************************************************)
(* The server.                                                             *)
(***************************************************************************)
StartUpload(t) ==
    /\ status[t] = "none" /\ online
    /\ PutTransfer(t, "queued")
    /\ pump' = [pump EXCEPT ![t] = "prologue"]
    /\ pconn' = [pconn EXCEPT ![t] = link]
    /\ UNCHANGED <<pos, resumeCh, linkVars, reader, agentVars, diskErrors>>

PumpGoes(t, pc) == pump' = [pump EXCEPT ![t] = pc]

\* finishTransferWithError, and the pump returns.
PumpFails(t) == PumpGoes(t, "end") /\ SettleOnce(t, "failed") /\ UNCHANGED reap

\* A file operation of the pump fails: open, checksum, seek or read.
PumpDiskError(t) ==
    /\ pump[t] \in {"prologue", "pump"}
    /\ DiskError
    /\ PumpFails(t)
    /\ UNCHANGED <<pconn, pos, resumeCh, linkVars, reader, agentVars>>

\* The file is hashed.  Under the lock of the record: a cancel that came in
\* meanwhile ends the pump, otherwise the start frame is sent and the status
\* is 'running'.
PumpPrologue(t) ==
    /\ pump[t] = "prologue"
    /\ \/ /\ status[t] = "cancel_requested"
          /\ PumpGoes(t, "cancel") /\ UNCHANGED <<recordVars, down>>
       \/ /\ status[t] # "cancel_requested"
          /\ SendOK(pconn[t], Start(t))
          /\ Update(t, "running") /\ PumpGoes(t, "resume")
       \/ /\ status[t] # "cancel_requested"
          /\ SendFails(pconn[t]) /\ PumpFails(t)
    /\ UNCHANGED <<pconn, pos, resumeCh, link, online, up, reader, agentVars,
                   diskErrors>>

\* finalizeCanceled after the lock was released.
PumpCancel(t) ==
    /\ pump[t] = "cancel"
    /\ SettleOnce(t, "canceled") /\ UNCHANGED reap
    /\ PumpGoes(t, "end")
    /\ UNCHANGED <<pconn, pos, resumeCh, linkVars, reader, agentVars, diskErrors>>

\* Mutant: an offset past the end of the file is used as it is.
ResumeAtUnclamped(t, n) == n

\* Where the pump goes on: the agent's .part file may be longer than the file.
ResumeAt(t, n) == IF n > Len(Source[t]) THEN Len(Source[t]) ELSE n

\* waitUploadResume: the offset, a cancel, or the timeout.
PumpResume(t) ==
    /\ pump[t] = "resume"
    /\ \/ /\ resumeCh[t] # None
          /\ pos' = [pos EXCEPT ![t] = ResumeAt(t, resumeCh[t])]
          /\ resumeCh' = [resumeCh EXCEPT ![t] = None]
          /\ PumpGoes(t, "pump")
          /\ UNCHANGED recordVars
       \/ /\ t \in cancelSig
          /\ PumpGoes(t, "end")
          /\ UNCHANGED <<pos, resumeCh, recordVars>>
       \/ PumpFails(t) /\ UNCHANGED <<pos, resumeCh>>
    /\ UNCHANGED <<pconn, linkVars, reader, agentVars, diskErrors>>

\* The check of cancelCh at the top of the loop.
PumpCheck(t) ==
    /\ pump[t] = "pump"
    /\ PumpGoes(t, IF t \in cancelSig THEN "end"
                   ELSE IF pos[t] < Len(Source[t]) THEN "send" ELSE "wait")
    /\ UNCHANGED <<recordVars, pconn, pos, resumeCh, linkVars, reader, agentVars,
                   diskErrors>>

\* One chunk; its progress is persisted now and then with the current status.
PumpSend(t) ==
    /\ pump[t] = "send"
    /\ \/ /\ SendOK(pconn[t], Chunk(t, pos[t]))
          /\ pos' = [pos EXCEPT ![t] = @ + 1]
          /\ PumpGoes(t, "pump")
          /\ (UNCHANGED recordVars \/ Update(t, status[t]))
       \/ SendFails(pconn[t]) /\ PumpFails(t) /\ UNCHANGED pos
    /\ UNCHANGED <<pconn, resumeCh, link, online, up, reader, agentVars, diskErrors>>

\* End of file: the status is set without a look at the one it replaces ...
PumpWait(t) ==
    /\ pump[t] = "wait"
    /\ status' = [status EXCEPT ![t] = "waiting_remote"]
    /\ PumpGoes(t, "persist")
    /\ UNCHANGED <<audit, live, cancelSig, cancelling, reap, cancels, pconn, pos, resumeCh,
                   linkVars, reader, agentVars, diskErrors>>

\* ... and persistTransfer writes the row with whatever it is by then.
PumpPersist(t) ==
    /\ pump[t] = "persist"
    /\ Update(t, status[t])
    /\ PumpGoes(t, "done")
    /\ UNCHANGED <<pconn, pos, resumeCh, linkVars, reader, agentVars, diskErrors>>

\* The complete frame; sending it is the last thing the pump does.
PumpDone(t) ==
    /\ pump[t] = "done"
    /\ \/ SendOK(pconn[t], Complete(t)) /\ PumpGoes(t, "end") /\ UNCHANGED recordVars
       \/ SendFails(pconn[t]) /\ PumpFails(t)
    /\ UNCHANGED <<pconn, pos, resumeCh, link, online, up, reader, agentVars,
                   diskErrors>>

OperatorCancel(t) ==
    /\ CancelTransfer(t)
    /\ UNCHANGED <<pumpVars, linkVars, reader, agentVars, diskErrors>>

CancelSend(t) ==
    /\ SendCancel(t)
    /\ UNCHANGED <<pumpVars, agentVars, diskErrors>>

ReadFrame ==
    /\ Read
    /\ UNCHANGED <<pumpVars, agentVars, diskErrors>>

\* handleTransferResume: a second offset is dropped.
HandleResume(l) ==
    /\ Handle(l, "resume")
    /\ resumeCh' = [resumeCh EXCEPT ![reader[l].t] = IF @ = None THEN reader[l].offset
                                                               ELSE @]
    /\ UNCHANGED <<recordVars, pump, pconn, pos, linkVars, agentVars, diskErrors>>

\* handleTransferDone.
HandleDone(l) ==
    /\ Handle(l, "done")
    /\ SettleOnce(reader[l].t, reader[l].status) /\ UNCHANGED reap
    /\ UNCHANGED <<pumpVars, linkVars, agentVars, diskErrors>>

Reaper ==
    /\ Reap
    /\ UNCHANGED <<pumpVars, linkVars, reader, agentVars, diskErrors>>

\* The server dies with its pumps; what the agent has open stays open.
ServerRestart ==
    /\ Restart
    /\ pump' = [t \in Transfers |-> IF pump[t] = "none" THEN "none" ELSE "end"]
    /\ resumeCh' = [t \in Transfers |-> None]
    /\ UNCHANGED <<pconn, pos, agentVars, diskErrors>>

-----------------------------------------------------------------------------
(***************************************************************************)
(* The agent, and its connection.                                          *)
(***************************************************************************)

\* What the agent received so far outlives the connection.
Disconnect == Break /\ UNCHANGED <<pumpVars, agentVars, diskErrors>>

Reconnect == Redial /\ UNCHANGED <<pumpVars, agentVars, diskErrors>>

\* Mutant: the offset announced is not the one the assembler resumes at.
BeginUploadFromStart(t) ==
    /\ Take(t, "start") /\ UNCHANGED pumpVars
    /\ uploads' = [u \in Transfers |-> IF u = t THEN Len(part) ELSE None]
    /\ Answer(Resume(t, 0))
    /\ UNCHANGED <<part, dest, landed, diskErrors>>

\* beginUpload: other uploads to the path are dropped, the .part file is
\* kept up to its last whole chunk, and its length is announced.
BeginUpload(t) ==
    /\ Take(t, "start") /\ UNCHANGED pumpVars
    /\ \/ /\ uploads' = [u \in Transfers |-> IF u = t THEN Len(part) ELSE None]
          /\ Answer(Resume(t, Len(part)))
          /\ UNCHANGED <<part, dest, landed, diskErrors>>
       \/ /\ DiskError
          /\ uploads' \in {uploads, [u \in Transfers |-> None]}
          /\ Answer(Done(t, "failed"))
          /\ UNCHANGED <<part, dest, landed>>

\* handleTransferChunk: ChunkAssembler.Write of the chunk it waits for.  One out
\* of order never comes (ChunksInOrder below); module ChunkAssembler has the
\* general case.  When the write fails failUpload keeps the .part file.
AgentChunk(t) ==
    /\ Take(t, "chunk") /\ UNCHANGED pumpVars
    /\ \/ uploads[t] = None /\ Silent /\ UNCHANGED <<agentVars, diskErrors>>
       \/ /\ uploads[t] # None /\ Head(down).seq = uploads[t]
          /\ part' = Append(part, Head(down).data)
          /\ uploads' = [uploads EXCEPT ![t] = @ + 1]
          /\ Silent /\ UNCHANGED <<dest, landed, diskErrors>>
       \/ /\ uploads[t] # None /\ DiskError
          /\ uploads' = [uploads EXCEPT ![t] = None]
          /\ Answer(Done(t, "failed"))
          /\ UNCHANGED <<part, dest, landed>>

\* Mutant: the checksum of the .part file is not compared.
IntactUnchecked(t) == uploads[t] >= Len(Source[t])

\* finalizeUpload's checks: no chunk missing, and the checksum agrees.
Intact(t) == uploads[t] >= Len(Source[t]) /\ part = Source[t]

\* handleTransferDone on the agent: the .part file is renamed or removed.
AgentComplete(t) ==
    /\ Take(t, "done") /\ UNCHANGED pumpVars
    /\ \/ uploads[t] = None /\ Silent /\ UNCHANGED <<agentVars, diskErrors>>
       \/ /\ uploads[t] # None
          /\ uploads' = [uploads EXCEPT ![t] = None]
          /\ part' = <<>>
          /\ \/ /\ Intact(t)
                /\ dest' = part /\ UNCHANGED diskErrors
                /\ landed' = IF part = Source[t] THEN landed \cup {t} ELSE landed
                /\ Answer(Done(t, "success"))
             \/ /\ (~Intact(t) /\ UNCHANGED diskErrors) \/ DiskError
                /\ Answer(Done(t, "failed"))
                /\ UNCHANGED <<dest, landed>>

\* handleTransferCancel: an open upload is dropped and confirmed.
AgentCancel(t) ==
    /\ Take(t, "cancel") /\ UNCHANGED pumpVars
    /\ IF uploads[t] = None THEN Silent ELSE Answer(Done(t, "canceled"))
    /\ uploads' = [uploads EXCEPT ![t] = None]
    /\ UNCHANGED <<part, dest, landed, diskErrors>>

-----------------------------------------------------------------------------
Pump(t) ==
    \/ PumpDiskError(t) \/ PumpPrologue(t) \/ PumpCancel(t) \/ PumpResume(t)
    \/ PumpCheck(t) \/ PumpSend(t) \/ PumpWait(t) \/ PumpPersist(t) \/ PumpDone(t)

Agent(t) == BeginUpload(t) \/ AgentChunk(t) \/ AgentComplete(t) \/ AgentCancel(t)

Next ==
    \/ \E t \in Transfers : StartUpload(t) \/ Pump(t) \/ OperatorCancel(t) \/ CancelSend(t)
    \/ ReadFrame \/ \E l \in Links : HandleResume(l) \/ HandleDone(l)
    \/ Reaper \/ ServerRestart
    \/ Disconnect \/ Reconnect \/ \E t \in Transfers : Agent(t)

Spec == Init /\ [][Next]_vars

(***************************************************************************)
(* The pump goroutine, the read loops, the agent and a pending cancel      *)
(* request go on when they can, and a broken connection is dialled again.  *)
(* The reaper runs for ever.  A pass that finds no progress for ten minutes*)
(* fails the transfer, and progress ends: a record that is looked at again *)
(* and again is in the end found stalled, hence the strong fairness.       *)
(***************************************************************************)
FairSpec ==
    /\ Spec
    /\ \A t \in Transfers :
        /\ WF_vars(Pump(t)) /\ WF_vars(CancelSend(t)) /\ WF_vars(Agent(t))
        /\ WF_vars(Reaper /\ reap[t] # reap'[t])
        /\ SF_vars(Reaper /\ ReapStalled(t))
    /\ WF_vars(ReadFrame) /\ WF_vars(Reconnect)
    /\ \A l \in Links : WF_vars(HandleResume(l) \/ HandleDone(l))

-----------------------------------------------------------------------------
(***************************************************************************)
(* Properties.                                                             *)
(***************************************************************************)
Offsets == {None} \cup Nat

\* Every variable has its type, offsets and sequence numbers included.
TypeOK ==
    /\ RecordTypeOK /\ LinkTypeOK
    /\ pump \in [Transfers -> {"none", "prologue", "cancel", "resume", "pump", "send",
                               "wait", "persist", "done", "end"}]
    /\ pconn \in [Transfers -> 0..MaxLinks]
    /\ \A t \in Transfers : pos[t] \in 0..Len(Source[t])
    /\ resumeCh \in [Transfers -> Offsets]
    /\ uploads \in [Transfers -> Offsets]
    /\ part \in Files
    /\ dest \in Files \cup {None}
    /\ landed \subseteq Transfers
    /\ diskErrors \in 0..MaxDiskErrors

\* A row says 'success' only of a transfer whose whole file reached the target
\* path: whatever the .part file held before, whoever else wrote to it and
\* however the confirmation raced with a cancel or a reaper.
SuccessMeansDelivered ==
    \A t \in Transfers : audit[t] = "success" => t \in landed

\* The offset the agent announces, the position the pump continues at and the
\* sequence number the assembler expects stay in step: a chunk the agent reads
\* for an open upload is the one it waits for.
ChunksInOrder ==
    down # <<>> /\ Head(down).kind = "chunk" =>
        uploads[Head(down).t] \in {None, Head(down).seq}

\* A terminal status is left only by the two places where the pump writes the
\* status without looking at it: 'running' after the prologue and
\* 'waiting_remote' at the end of the file.  Every other writer keeps the first one.
SettledLeftOnlyByPump ==
    [][\A t \in Transfers : status[t] \in Settled /\ status'[t] # status[t] =>
        \/ pump[t] = "prologue" /\ status'[t] = "running"
        \/ pump[t] = "wait" /\ status'[t] = "waiting_remote"]_vars

\* Every transfer leaves the service's map: by its verdict, its failing pump,
\* or one of the reapers when connection, agent or answer are lost.
LiveIsLeft == \A t \in Transfers : t \in live ~> t \notin live

\* What transfer.go says of a cancel during the checksum: the agent's receiver
\* is never started.
CanceledNeverStarts ==
    [][\A t \in Transfers : t \in cancelSig =>
        ~(pump[t] = "prologue" /\ pump'[t] = "resume")]_vars

\* What transfer.go says of a requested cancel: it ends in a terminal status,
\* and stays there.
CancelNeverDangles ==
    \A t \in Transfers : audit[t] = "cancel_requested" ~> [](audit[t] \in Settled)
=============================================================================
