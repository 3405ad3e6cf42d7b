------------------------------ MODULE Download ------------------------------
(***************************************************************************)
(* A download: the agent reads a file and sends it (sendFile), the server  *)
(* writes the chunks to the .part file, renames that to the target path    *)
(* and compares the checksum.  All downloads here aim at the same target;  *)
(* a second one is a retry, or with Overlap another operator's request.    *)
(*                                                                         *)
(* A file is a sequence of chunks and stands for its own checksum.  An open*)
(* file follows its inode: after the rename it is the target.              *)
(***************************************************************************)
EXTENDS TransferLink

CONSTANTS
    Source,            \* the remote file of a download
    Episodes,          \* transfers asked for, and cancels and disk errors there may be
    StaleParts,        \* what the .part file may hold at first, or None
    Zero,              \* a chunk of zeros, where a file was stretched
    Overlap,           \* may a download start before the other has ended
    MaxDiskErrors

\* What files are made of.
Chunks == (UNION {{Source[t][i] : i \in DOMAIN Source[t]} : t \in Transfers})
          \cup (UNION {{p[i] : i \in DOMAIN p} : p \in StaleParts \ {None}}) \cup {Zero}
Files  == Seq(Chunks)

ASSUME DownloadAssumption ==
    /\ Source \in [Transfers -> Files] /\ StaleParts \subseteq Files \cup {None}
    /\ None \notin Files /\ None \notin {"part", "target", "unlinked"}
    /\ Overlap \in BOOLEAN /\ MaxDiskErrors \in Nat
    /\ \A e \in Episodes : /\ e.asked \subseteq Transfers
                            /\ e.cancels \in 0..MaxCancels /\ e.diskErrors \in 0..MaxDiskErrors

VARIABLES
    request,           \* where startDownload stands
    rconn,             \* the connection it looked up
    offset,            \* BytesTransferred, in chunks
    next,              \* nextSeq of the record's assembler
    file,              \* the open file: None, "part", "target" or "unlinked"
    part, target,      \* the two files, None if absent
    pump,              \* agent: where sendFile stands
    apos,              \* agent: the next chunk it reads
    stop,              \* agent: downloads whose context is canceled
    landed,            \* history: downloads whose checksum agreed
    diskErrors

serverVars == <<request, rconn, offset, next, file, part, target, landed>>
agentVars  == <<pump, apos, stop>>

vars == <<recordVars, linkVars, reader, serverVars, agentVars, diskErrors>>

Init ==
    /\ LinkInit
    /\ \E e \in Episodes :
        /\ RecordInit(e.asked, e.cancels)
        /\ diskErrors = MaxDiskErrors - e.diskErrors
    /\ request = [t \in Transfers |-> "none"]
    /\ rconn = [t \in Transfers |-> 0]
    /\ offset = [t \in Transfers |-> 0]
    /\ next = [t \in Transfers |-> 0]
    /\ file = [t \in Transfers |-> None]
    /\ part \in StaleParts /\ target = None
    /\ pump = [t \in Transfers |-> "none"]
    /\ apos = [t \in Transfers |-> 0]
    /\ stop = {}
    /\ landed = {}

-----------------------------------------------------------------------------
\* Frames.
Start(t)    == [kind |-> "start", t |-> t, offset |-> offset[t]]
Ack(t)      == [kind |-> "ack", t |-> t]
Chunk(t, i) == [kind |-> "chunk", t |-> t, seq |-> i, data |-> Source[t][i + 1]]
Done(t, s)  == [kind |-> "done", t |-> t, status |-> s]

\* Files.
ResumeOffset == IF part = None THEN 0 ELSE Len(part)

\* os.Truncate: a file that is too short is filled up with zeros.
Resize(f, n) == [i \in 1..n |-> IF i <= Len(f) THEN f[i] ELSE Zero]

\* A write of one chunk at position p of an open file.
WriteAt(f, p, data) ==
    [Resize(f, IF p < Len(f) THEN Len(f) ELSE p + 1) EXCEPT ![p + 1] = data]

\* Where an open file is once .part was renamed, or the target was removed.
Renamed(f) == CASE f = "part" -> "target" [] f = "target" -> "unlinked" [] OTHER -> f
Removed(f) == IF f \in {"part", "target"} THEN "unlinked" ELSE f

DiskError == diskErrors < MaxDiskErrors /\ diskErrors' = diskErrors + 1

-----------------------------------------------------------------------------
(***************************************************************************)
(* The server.                                                             *)
(***************************************************************************)

\* startDownload: the offset is that of the .part file, the record is stored ...
StartDownload(t) ==
    /\ status[t] = "none" /\ online
    /\ Overlap \/ live = {}
    /\ PutTransfer(t, "requested")
    /\ offset' = [offset EXCEPT ![t] = ResumeOffset]
    /\ rconn' = [rconn EXCEPT ![t] = link]
    /\ request' = [request EXCEPT ![t] = "send"]
    /\ UNCHANGED <<next, file, part, target, landed, linkVars, reader, agentVars, diskErrors>>

\* ... and the start frame is sent; a cancel may already be under way.
SendStart(t) ==
    /\ request[t] = "send"
    /\ request' = [request EXCEPT ![t] = "end"]
    /\ \/ SendOK(rconn[t], Start(t)) /\ UNCHANGED recordVars
       \/ SendFails(rconn[t]) /\ SettleOnce(t, "failed") /\ UNCHANGED reap
    /\ UNCHANGED <<rconn, offset, next, file, part, target, landed, link, online, up, reader,
                   agentVars, diskErrors>>

OperatorCancel(t) ==
    /\ CancelTransfer(t)
    /\ UNCHANGED <<linkVars, reader, serverVars, agentVars, diskErrors>>

CancelSend(t) ==
    /\ SendCancel(t)
    /\ UNCHANGED <<serverVars, agentVars, diskErrors>>

ReadFrame ==
    /\ Read
    /\ UNCHANGED <<serverVars, agentVars, diskErrors>>

\* OpenPartialFile at the record's offset.
OpenPart(t) ==
    /\ part' = IF offset[t] = 0 THEN <<>> ELSE Resize(part, offset[t])
    /\ file' = [file EXCEPT ![t] = "part"]
    /\ next' = [next EXCEPT ![t] = offset[t]]

CanOpen(t) == offset[t] = 0 \/ part # None

\* handleTransferStart of the agent's acknowledgement.  The status is not
\* compared with the terminal ones.
HandleAck(l) ==
    /\ Handle(l, "ack")
    /\ LET t == reader[l].t IN
       \/ /\ CanOpen(t) /\ OpenPart(t)
          /\ Update(t, IF status[t] = "cancel_requested" THEN status[t] ELSE "running")
          /\ UNCHANGED diskErrors
       \/ /\ (~CanOpen(t) /\ UNCHANGED diskErrors) \/ DiskError
          /\ SettleOnce(t, "failed") /\ UNCHANGED <<reap, part, file, next>>
    /\ UNCHANGED <<request, rconn, offset, target, landed, linkVars, agentVars>>

\* handleTransferChunk: a record that was settled meanwhile has no open file,
\* and stays as it is.  A chunk is written where the file's position is.
HandleChunk(l) ==
    /\ Handle(l, "chunk")
    /\ LET t == reader[l].t IN
       \/ /\ file[t] = None
          /\ SettleOnce(t, "failed")
          /\ UNCHANGED <<reap, part, target, file, next, offset, diskErrors>>
       \/ /\ file[t] # None /\ DiskError
          /\ SettleOnce(t, "failed")
          /\ file' = [file EXCEPT ![t] = None]
          /\ UNCHANGED <<reap, part, target, next, offset>>
       \/ /\ file[t] # None /\ reader[l].seq = next[t]
          /\ part' = IF file[t] = "part" THEN WriteAt(part, next[t], reader[l].data) ELSE part
          /\ target' = IF file[t] = "target" THEN WriteAt(target, next[t], reader[l].data)
                                             ELSE target
          /\ next' = [next EXCEPT ![t] = @ + 1]
          /\ offset' = [offset EXCEPT ![t] = @ + 1]
          /\ Update(t, status[t])
          /\ UNCHANGED <<file, diskErrors>>
    /\ UNCHANGED <<request, rconn, landed, linkVars, agentVars>>

\* Mutant: the checksum of the renamed file is not compared.
VerifiedUnchecked(t) == TRUE

Verified(t) == part = Source[t]

\* finishDownload.  All chunks are there and the rename works ...
Complete(t) == next[t] >= Len(Source[t]) /\ part # None

\* ... and the checksum agrees, ...
KeepFile(t) ==
    /\ part' = None /\ target' = part
    /\ file' = [u \in Transfers |-> IF u = t THEN None ELSE Renamed(file[u])]
    /\ landed' = IF part = Source[t] THEN landed \cup {t} ELSE landed
    /\ Settle(t, "success")

\* ... or the renamed file is removed again.
RemoveFile(t) ==
    /\ part' = None /\ target' = None
    /\ file' = [u \in Transfers |-> IF u = t THEN None ELSE Removed(file[u])]
    /\ Settle(t, "failed")
    /\ UNCHANGED landed

\* Otherwise the .part file stays.
RejectFile(t, s) ==
    /\ file' = [file EXCEPT ![t] = None]
    /\ Settle(t, s)
    /\ UNCHANGED <<part, target, landed>>

\* handleTransferDone of a download, which has no terminal guard.
HandleDone(l) ==
    /\ Handle(l, "done")
    /\ LET t  == reader[l].t
           ok == reader[l].status = "success"
       IN  \/ ~ok /\ RejectFile(t, reader[l].status) /\ UNCHANGED diskErrors
           \/ ok /\ Complete(t) /\ Verified(t) /\ KeepFile(t) /\ UNCHANGED diskErrors
           \/ /\ ok /\ Complete(t)
              /\ (~Verified(t) /\ UNCHANGED diskErrors) \/ DiskError
              /\ RemoveFile(t)
           \/ /\ ok
              /\ (~Complete(t) /\ UNCHANGED diskErrors) \/ DiskError
              /\ RejectFile(t, "failed")
    /\ UNCHANGED <<reap, request, rconn, offset, next, linkVars, agentVars>>

\* cleanupTransferFilesLocked: a reaper that settles a record closes its file.
Reaper ==
    /\ Reap
    /\ file' = [t \in Transfers |-> IF t \in live \ live' THEN None ELSE file[t]]
    /\ UNCHANGED <<request, rconn, offset, next, part, target, landed, linkVars, reader,
                   agentVars, diskErrors>>

\* The server dies with its open files; the .part file stays.
ServerRestart ==
    /\ Restart
    /\ request' = [t \in Transfers |-> IF request[t] = "none" THEN "none" ELSE "end"]
    /\ file' = [t \in Transfers |-> None]
    /\ pump' = [t \in Transfers |-> "none"]
    /\ UNCHANGED <<rconn, offset, next, part, target, landed, apos, stop, diskErrors>>

-----------------------------------------------------------------------------
(***************************************************************************)
(* The agent.  A pump goroutine whose connection broke sends nothing more. *)
(***************************************************************************)
PumpGoes(t, pc) == pump' = [pump EXCEPT ![t] = pc]

Disconnect ==
    /\ Break
    /\ pump' = [t \in Transfers |-> "none"]
    /\ UNCHANGED <<apos, stop, serverVars, diskErrors>>

Reconnect == Redial /\ UNCHANGED <<serverVars, agentVars, diskErrors>>

\* Mutant: an offset past the end of the file is used as it is.
StartAtUnclamped(t, n) == n

\* The chunk sendFile starts at: the server's .part file may be the longer one.
StartAt(t, n) == IF n > Len(Source[t]) THEN Len(Source[t]) ELSE n

\* handleTransferStart: the pump gets a goroutine and a cancel function.
AgentStart(t) ==
    /\ Take(t, "start") /\ Silent
    /\ PumpGoes(t, "open")
    /\ apos' = [apos EXCEPT ![t] = StartAt(t, Head(down).offset)]
    /\ UNCHANGED <<stop, serverVars, diskErrors>>

\* sendFile up to the acknowledgement; without the file it says so.
AgentOpen(t) ==
    /\ pump[t] = "open"
    /\ \/ Answer(Ack(t)) /\ PumpGoes(t, "pump") /\ UNCHANGED diskErrors
       \/ DiskError /\ Answer(Done(t, "failed")) /\ PumpGoes(t, "none")
    /\ UNCHANGED <<recordVars, link, online, down, reader, apos, stop, serverVars>>

\* The loop of sendFile: canceled, a chunk, the end of the file, a read error.
AgentPump(t) ==
    /\ pump[t] = "pump"
    /\ \/ /\ t \in stop
          /\ Answer(Done(t, "canceled")) /\ PumpGoes(t, "none")
          /\ UNCHANGED <<apos, diskErrors>>
       \/ /\ t \notin stop /\ apos[t] < Len(Source[t])
          /\ Answer(Chunk(t, apos[t])) /\ apos' = [apos EXCEPT ![t] = @ + 1]
          /\ UNCHANGED <<pump, diskErrors>>
       \/ /\ t \notin stop /\ apos[t] = Len(Source[t])
          /\ Answer(Done(t, "success")) /\ PumpGoes(t, "none")
          /\ UNCHANGED <<apos, diskErrors>>
       \/ /\ t \notin stop /\ DiskError
          /\ Answer(Done(t, "failed")) /\ PumpGoes(t, "none")
          /\ UNCHANGED apos
    /\ UNCHANGED <<recordVars, link, online, down, reader, stop, serverVars>>

\* handleTransferCancel: unknown ids are ignored.
AgentCancel(t) ==
    /\ Take(t, "cancel") /\ Silent
    /\ stop' = IF pump[t] = "none" THEN stop ELSE stop \cup {t}
    /\ UNCHANGED <<pump, apos, serverVars, diskErrors>>

-----------------------------------------------------------------------------
Agent(t) == AgentStart(t) \/ AgentOpen(t) \/ AgentPump(t) \/ AgentCancel(t)

Handlers(l) == HandleAck(l) \/ HandleChunk(l) \/ HandleDone(l)

Next ==
    \/ \E t \in Transfers :
        StartDownload(t) \/ SendStart(t) \/ OperatorCancel(t) \/ CancelSend(t) \/ Agent(t)
    \/ ReadFrame \/ \E l \in Links : Handlers(l)
    \/ Reaper \/ ServerRestart \/ Disconnect \/ Reconnect

Spec == Init /\ [][Next]_vars

\* As for uploads (module Upload): goroutines go on when they can, and the
\* reaper finds a record that makes no progress stalled in the end.
FairSpec ==
    /\ Spec
    /\ \A t \in Transfers :
        /\ WF_vars(SendStart(t)) /\ WF_vars(CancelSend(t)) /\ WF_vars(Agent(t))
        /\ WF_vars(Reaper /\ reap[t] # reap'[t])
        /\ SF_vars(Reaper /\ ReapStalled(t))
    /\ WF_vars(ReadFrame) /\ WF_vars(Reconnect)
    /\ \A l \in Links : WF_vars(Handlers(l))

-----------------------------------------------------------------------------
(***************************************************************************)
(* Properties.                                                             *)
(***************************************************************************)
\* Every variable has its type, the offsets and the open files included.
TypeOK ==
    /\ RecordTypeOK /\ LinkTypeOK
    /\ request \in [Transfers -> {"none", "send", "end"}]
    /\ rconn \in [Transfers -> 0..MaxLinks]
    /\ offset \in [Transfers -> Nat] /\ next \in [Transfers -> Nat]
    /\ file \in [Transfers -> {None, "part", "target", "unlinked"}]
    /\ part \in Files \cup {None} /\ target \in Files \cup {None}
    /\ pump \in [Transfers -> {"none", "open", "pump"}]
    /\ \A t \in Transfers : apos[t] \in 0..Len(Source[t])
    /\ stop \subseteq Transfers /\ landed \subseteq Transfers
    /\ diskErrors \in 0..MaxDiskErrors

\* A row says 'success' only of a download whose file had the agent's checksum
\* when it reached the target path, whatever the .part file held before.
SuccessMeansIntact ==
    \A t \in Transfers : audit[t] = "success" => t \in landed

\* What the README promises of transfers to one target path, "the same target
\* path counts as the same task": once a download has put its verified file in
\* place, the file changes only when another download puts its own there.  The
\* server lets two downloads open one .part file, so a chunk of the second may
\* be written into the file that the first has already renamed.
VerifiedStays ==
    [][target # None /\ target' # target => part' = None /\ part # None]_vars

\* A terminal status is left only by a handler of the session that had looked
\* the record up before it was settled: the acknowledgement, which makes it
\* 'running', or the agent's verdict.
SettledLeftOnlyByHandler ==
    [][\A t \in Transfers : status[t] \in Settled /\ status'[t] # status[t] =>
        \E l \in Links : /\ reader[l] # None /\ reader'[l] = None
                         /\ reader[l].t = t /\ reader[l].kind \in {"ack", "done"}]_vars

\* Every download leaves the service's map, also when the agent's answer is lost
\* or its pump ended without one.
LiveIsLeft == \A t \in Transfers : t \in live ~> t \notin live

\* What transfer.go says of the acknowledgement: it does not turn a canceled
\* transfer into a running one.
CanceledStaysCanceled ==
    [][\A t \in Transfers : status[t] = "canceled" => status'[t] # "running"]_vars
=============================================================================
