--------------------------- MODULE ChunkAssembler ---------------------------
(***************************************************************************)
(* common.ChunkAssembler: the receiving end of a file transfer puts chunks *)
(* that arrive in any order, and perhaps twice, back into the order of the *)
(* file.  Write is one step up to its first disk write, flush one step per *)
(* buffered chunk, because any write may fail.  A caller abandons the      *)
(* transfer at the first error (failUpload, finishTransferWithError).      *)
(***************************************************************************)
EXTENDS Integers, Sequences, FiniteSets

CONSTANTS
    Data,              \* chunk contents
    NoData,            \* no chunk buffered under a sequence number
    TotalChunks,       \* ChunkCount of the file
    File,              \* the chunks of the source, numbered from 0
    ResumeAt,          \* chunks a retained .part already holds
    MaxPending         \* maxPending of the assembler

Seqs == 0..(TotalChunks - 1)

ASSUME SizeAssumption == TotalChunks \in Nat /\ ResumeAt \in 0..TotalChunks
ASSUME FileAssumption == File \in [Seqs -> Data] /\ NoData \notin Data
ASSUME PendingAssumption == MaxPending \in Nat

VARIABLES
    next,              \* nextSeq
    pending,           \* the out-of-order chunks kept in memory
    disk,              \* the chunks in the .part file
    pc,                \* between two calls, inside flush, done or given up
    sent               \* history: what the sender has sent so far

vars == <<next, pending, disk, pc, sent>>

Buffered == {s \in Seqs : pending[s] # NoData}

TypeOK ==
    /\ next \in 0..TotalChunks
    /\ pending \in [Seqs -> Data \cup {NoData}]
    /\ disk \in Seq(Data)
    /\ pc \in {"idle", "flush", "finished", "failed"}
    /\ sent \in SUBSET Seqs

\* NewChunkAssembler and Resume.  OpenPartialFile kept the first chunks.
Init ==
    /\ next = ResumeAt
    /\ pending = [s \in Seqs |-> NoData]
    /\ disk = [i \in 1..ResumeAt |-> File[i - 1]]
    /\ pc = "idle"
    /\ sent = {}

-----------------------------------------------------------------------------
\* A sequence number that was written, or is buffered.
Duplicate(seq) == seq < next \/ pending[seq] # NoData

\* Any error ends the transfer.
Fail ==
    /\ pc' = "failed"
    /\ UNCHANGED <<next, pending, disk>>

\* Write for the expected chunk, up to the call of flush.
WriteInOrder(seq) ==
    /\ seq = next
    /\ \/ Fail                                  \* the disk write fails
       \/ /\ disk' = Append(disk, File[seq])
          /\ next' = next + 1
          /\ pc' = "flush"
          /\ UNCHANGED pending

\* Mutant: the comparison with maxPending is off by one.
WriteAheadOneMore(seq) ==
    /\ seq # next
    /\ IF Cardinality(Buffered) > MaxPending
       THEN Fail
       ELSE /\ pending' = [pending EXCEPT ![seq] = File[seq]]
            /\ UNCHANGED <<next, disk, pc>>

\* Write for a chunk that is not the expected one; Duplicate has excluded those
\* behind it.
WriteAhead(seq) ==
    /\ seq # next
    /\ IF Cardinality(Buffered) >= MaxPending
       THEN Fail
       ELSE /\ pending' = [pending EXCEPT ![seq] = File[seq]]
            /\ UNCHANGED <<next, disk, pc>>

\* A chunk arrives: for the first time or again.
Write(seq) ==
    /\ pc = "idle"
    /\ sent' = sent \cup {seq}
    /\ \/ Duplicate(seq) /\ Fail
       \/ ~Duplicate(seq) /\ (WriteInOrder(seq) \/ WriteAhead(seq))

\* Mutant: flush writes one buffered chunk and returns.
FlushOnce ==
    /\ pc = "flush"
    /\ pc' = "idle"
    /\ IF next \in Buffered
       THEN /\ disk' = Append(disk, pending[next])
            /\ pending' = [pending EXCEPT ![next] = NoData]
            /\ next' = next + 1
       ELSE UNCHANGED <<next, pending, disk>>
    /\ UNCHANGED sent

\* Mutant: the chunk is written but nextSeq stays.
FlushStuck ==
    /\ pc = "flush"
    /\ IF next \in Buffered
       THEN /\ disk' = Append(disk, pending[next])
            /\ pending' = [pending EXCEPT ![next] = NoData]
            /\ UNCHANGED <<next, pc>>
       ELSE pc' = "idle" /\ UNCHANGED <<next, pending, disk>>
    /\ UNCHANGED sent

\* One round of the loop in flush.
Flush ==
    /\ pc = "flush"
    /\ \/ /\ next \notin Buffered
          /\ pc' = "idle"
          /\ UNCHANGED <<next, pending, disk>>
       \/ /\ next \in Buffered
          /\ \/ Fail
             \/ /\ disk' = Append(disk, pending[next])
                /\ pending' = [pending EXCEPT ![next] = NoData]
                /\ next' = next + 1
                /\ UNCHANGED pc
    /\ UNCHANGED sent

\* Mutant: only the buffer is checked.
FinishNoCount ==
    /\ pc = "idle"
    /\ pc' = IF Buffered = {} THEN "finished" ELSE "failed"
    /\ UNCHANGED <<next, pending, disk, sent>>

\* The sender is done: nothing buffered and, if the total is known, enough
\* chunks.
Finish ==
    /\ pc = "idle"
    /\ pc' = IF Buffered = {} /\ (TotalChunks > 0 => next >= TotalChunks)
             THEN "finished" ELSE "failed"
    /\ UNCHANGED <<next, pending, disk, sent>>

Next == (\E seq \in Seqs : Write(seq)) \/ Flush \/ Finish

Spec == Init /\ [][Next]_vars

-----------------------------------------------------------------------------
\* What is on disk is always a prefix of the file, as long as nextSeq says,
\* whatever order the chunks came in and whichever write failed: a retry can
\* resume from the .part (Write, flush).
DiskIsPrefix ==
    /\ Len(disk) = next
    /\ \A i \in 1..next : disk[i] = File[i - 1]

\* Finish accepts only the whole file: no gap, no missing tail.
FinishedIsWhole == pc = "finished" => Len(disk) = TotalChunks

\* The buffer never holds more than maxPending chunks.
BufferBounded == Cardinality(Buffered) <= MaxPending

\* No chunk gets stuck in memory: once every chunk past the resume point has
\* been sent, in any order, and flush has returned, everything is on disk.
AllSentAllWritten ==
    pc = "idle" /\ ResumeAt..(TotalChunks - 1) \subseteq sent => next = TotalChunks

\* A chunk that was sent before is never taken a second time: Write reports
\* the duplicate whether the first copy is on disk or still in the buffer.
DuplicateRejected == [][\A s \in sent : Write(s) => pc' = "failed"]_vars

\* Why: between two calls the expected chunk is not in the buffer, only chunks
\* ahead of it are, with their data, and each chunk sent is on disk or
\* there.  nextSeq never falls behind the resume point.
Sorted ==
    /\ next >= ResumeAt
    /\ \A s \in Seqs : pending[s] # NoData => s >= next /\ pending[s] = File[s]
    /\ pc = "idle" => next \notin Buffered
    /\ pc \in {"idle", "flush"} => \A s \in sent : s < next \/ s \in Buffered
    /\ pc = "finished" => next >= TotalChunks
=============================================================================
