------------------------ MODULE ChunkAssemblerProofs ------------------------
(***************************************************************************)
(* TLAPS proofs about ChunkAssembler, for every file, resume point and     *)
(* buffer size.                                                            *)
(***************************************************************************)
EXTENDS ChunkAssembler, FiniteSetTheorems, TLAPS

\* Everything the proofs carry along.
Inv == TypeOK /\ DiskIsPrefix /\ Sorted /\ BufferBounded

\* The buffer is finite, and adding one chunk adds at most one to its size.
LEMMA BufferSize ==
    ASSUME TypeOK
    PROVE  /\ IsFiniteSet(Buffered) /\ Cardinality(Buffered) \in Nat
           /\ \A S : S \subseteq Buffered => Cardinality(S) <= Cardinality(Buffered)
           /\ \A s \in Seqs : Cardinality(Buffered \cup {s}) <= Cardinality(Buffered) + 1
<1>1. IsFiniteSet(Seqs)
  BY FS_Interval, SizeAssumption DEF Seqs
<1>2. IsFiniteSet(Buffered) /\ Cardinality(Buffered) \in Nat
  BY <1>1, FS_Subset, FS_CardinalityType DEF Buffered
<1>3. \A S : S \subseteq Buffered => Cardinality(S) <= Cardinality(Buffered)
  BY <1>2, FS_Subset
<1>4. ASSUME NEW s \in Seqs
      PROVE  Cardinality(Buffered \cup {s}) <= Cardinality(Buffered) + 1
  BY <1>2, FS_AddElement
<1> QED BY <1>2, <1>3, <1>4

\* The step that puts the chunk at nextSeq on disk, from Write or from flush.
LEMMA AppendStep ==
    ASSUME TypeOK, DiskIsPrefix, next \in Seqs,
           disk' = Append(disk, File[next]), next' = next + 1
    PROVE  DiskIsPrefix' /\ disk' \in Seq(Data) /\ next' \in 0..TotalChunks
<1> USE SizeAssumption, FileAssumption DEF TypeOK, DiskIsPrefix, Seqs
<1>1. /\ File[next] \in Data /\ disk \in Seq(Data) /\ next \in Nat
      /\ Len(disk) = next
  OBVIOUS
<1>2. /\ disk' \in Seq(Data) /\ Len(disk') = next + 1
      /\ disk'[next + 1] = File[next]
      /\ \A i \in 1..next : disk'[i] = disk[i]
  BY <1>1
<1>3. ASSUME NEW i \in 1..next' PROVE disk'[i] = File[i - 1]
  <2>1. i \in 1..next \/ i = next + 1
    BY <1>1
  <2>2. CASE i \in 1..next
    BY <1>2, <2>2
  <2>3. CASE i = next + 1
    BY <1>1, <1>2, <2>3
  <2> QED BY <2>1, <2>2, <2>3
<1> QED BY <1>1, <1>2, <1>3

\* The invariant holds when the receiver opens the retained .part file.
LEMMA InitInv == Init => Inv
<1> SUFFICES ASSUME Init PROVE Inv
  OBVIOUS
<1> USE SizeAssumption, FileAssumption DEF Init, Seqs
<1>1. disk \in Seq(Data) /\ Len(disk) = ResumeAt
  OBVIOUS
<1>2. TypeOK
  BY <1>1 DEF TypeOK
<1>3. DiskIsPrefix
  BY <1>1 DEF DiskIsPrefix
<1>4. Buffered = {}
  BY DEF Buffered
<1>5. Sorted /\ BufferBounded
  BY <1>4, FS_EmptySet, PendingAssumption DEF Sorted, BufferBounded
<1> QED BY <1>2, <1>3, <1>5 DEF Inv

\* Giving up changes nothing but the state of the transfer.
LEMMA FailInv ==
    ASSUME Inv, Fail, sent' \in SUBSET Seqs
    PROVE  Inv'
BY DEF Inv, Fail, TypeOK, DiskIsPrefix, Sorted, BufferBounded, Buffered

\* A chunk arrives.
LEMMA WriteInv ==
    ASSUME Inv, NEW seq \in Seqs, Write(seq)
    PROVE  Inv'
<1> USE DEF Inv
<1>0. sent' \in SUBSET Seqs /\ next \in Nat /\ seq \in Nat
  BY SizeAssumption DEF Write, TypeOK, Seqs
<1>1. CASE Fail
  BY <1>0, <1>1, FailInv
<1>2. CASE ~Duplicate(seq) /\ WriteInOrder(seq) /\ ~Fail
  <2>1. /\ seq = next /\ disk' = Append(disk, File[next]) /\ next' = next + 1
        /\ pc' = "flush" /\ pending' = pending /\ pending[next] = NoData
        /\ sent' = sent \cup {next} /\ pc = "idle"
    BY <1>2 DEF Write, WriteInOrder, Duplicate
  <2>2. DiskIsPrefix' /\ disk' \in Seq(Data) /\ next' \in 0..TotalChunks
    BY <2>1, AppendStep
  <2>3. Buffered' = Buffered
    BY <2>1 DEF Buffered
  <2>4. TypeOK' /\ BufferBounded'
    BY <1>0, <2>1, <2>2, <2>3 DEF TypeOK, BufferBounded
  <2>5. Sorted'
    BY <1>0, <2>1, <2>3, SizeAssumption DEF Sorted, Buffered, Seqs, TypeOK
  <2> QED BY <2>2, <2>4, <2>5
<1>3. CASE ~Duplicate(seq) /\ WriteAhead(seq) /\ ~Fail
  <2>1. /\ seq > next /\ Cardinality(Buffered) < MaxPending
        /\ pending' = [pending EXCEPT ![seq] = File[seq]]
        /\ UNCHANGED <<next, disk, pc>> /\ sent' = sent \cup {seq} /\ pc = "idle"
    BY <1>0, <1>3, BufferSize, PendingAssumption DEF Write, WriteAhead, Duplicate
  <2>2. File[seq] \in Data /\ File[seq] # NoData
    BY FileAssumption
  <2>3. Buffered' = Buffered \cup {seq}
    BY <2>1, <2>2 DEF Buffered, TypeOK
  <2>4. Cardinality(Buffered') <= Cardinality(Buffered) + 1
    BY <2>3, BufferSize
  <2>5. IsFiniteSet(Buffered') /\ Cardinality(Buffered') \in Nat
    BY <2>3, BufferSize, FS_AddElement, FS_CardinalityType
  <2>6. BufferBounded'
    BY <2>1, <2>4, <2>5, BufferSize, PendingAssumption DEF BufferBounded
  <2>7. TypeOK' /\ DiskIsPrefix'
    BY <1>0, <2>1, <2>2 DEF TypeOK, DiskIsPrefix
  <2>8. Sorted'
    BY <1>0, <2>1, <2>2, <2>3 DEF Sorted, TypeOK
  <2> QED BY <2>6, <2>7, <2>8
<1> QED BY <1>1, <1>2, <1>3 DEF Write

\* A round of flush.
LEMMA FlushInv ==
    ASSUME Inv, Flush
    PROVE  Inv'
<1> USE DEF Inv
<1>1. CASE Fail
  BY <1>1, FailInv DEF Flush, TypeOK
<1>2. CASE next \notin Buffered /\ ~Fail
  BY <1>2 DEF Flush, TypeOK, DiskIsPrefix, Sorted, BufferBounded, Buffered
<1>3. CASE next \in Buffered /\ ~Fail
  <2>1. /\ disk' = Append(disk, pending[next]) /\ next' = next + 1
        /\ pending' = [pending EXCEPT ![next] = NoData]
        /\ UNCHANGED <<pc, sent>> /\ pc = "flush"
    BY <1>3 DEF Flush
  <2>2. next \in Seqs /\ pending[next] = File[next] /\ next \in Nat
    BY <1>3, SizeAssumption DEF Sorted, Buffered, Seqs
  <2>3. DiskIsPrefix' /\ disk' \in Seq(Data) /\ next' \in 0..TotalChunks
    BY <2>1, <2>2, AppendStep
  <2>4. Buffered' = Buffered \ {next}
    BY <2>1, <2>2 DEF Buffered, TypeOK
  <2>5. Cardinality(Buffered') <= Cardinality(Buffered)
    BY <2>4, BufferSize
  <2>6. TypeOK'
    BY <2>1, <2>2, <2>3 DEF TypeOK
  <2>7. BufferBounded'
    BY <2>5, <2>6, BufferSize, PendingAssumption,
       FS_Subset, FS_CardinalityType, <2>4 DEF BufferBounded
  <2>8. \A s \in Seqs : s \in Nat
    BY SizeAssumption DEF Seqs
  <2>9. Sorted'
    BY SizeAssumption, <2>1, <2>2, <2>4, <2>8 DEF Sorted, TypeOK, Buffered
  <2> QED BY <2>3, <2>6, <2>7, <2>9
<1> QED BY <1>1, <1>2, <1>3

\* The end of the transfer.
LEMMA FinishInv ==
    ASSUME Inv, Finish
    PROVE  Inv'
<1>1. pc' = "finished" => next >= TotalChunks
  BY SizeAssumption DEF Finish, Inv, TypeOK
<1> QED BY <1>1 DEF Inv, Finish, TypeOK, DiskIsPrefix, Sorted, BufferBounded, Buffered

\* Inv is inductive.
LEMMA NextInv == Inv /\ [Next]_vars => Inv'
<1>1. Inv /\ UNCHANGED vars => Inv'
  BY DEF Inv, vars, TypeOK, DiskIsPrefix, Sorted, BufferBounded, Buffered
<1> QED BY <1>1, WriteInv, FlushInv, FinishInv DEF Next

\* The invariant of the assembler, for every specification of a transfer.
THEOREM AssemblerInvariant == Spec => []Inv
BY InitInv, NextInv, PTL DEF Spec

\* Whatever order the chunks come in and whichever write fails, the .part
\* file is a prefix of the source and can be resumed from.
THEOREM PartIsPrefix == Spec => []DiskIsPrefix
<1>1. Inv => DiskIsPrefix
  BY DEF Inv
<1> QED BY <1>1, AssemblerInvariant, PTL

\* Finish accepts nothing but the whole file.
THEOREM AcceptedIsWhole == Spec => []FinishedIsWhole
<1>1. Inv => FinishedIsWhole
  BY SizeAssumption DEF Inv, TypeOK, DiskIsPrefix, Sorted, FinishedIsWhole
<1> QED BY <1>1, AssemblerInvariant, PTL

\* maxPending bounds the memory a sender can make the receiver use.
THEOREM MemoryBounded == Spec => []BufferBounded
<1>1. Inv => BufferBounded
  BY DEF Inv
<1> QED BY <1>1, AssemblerInvariant, PTL

\* Every order of the chunks that fits the buffer yields the whole file.
THEOREM EveryOrderWorks == Spec => []AllSentAllWritten
<1>1. Inv => AllSentAllWritten
  <2> SUFFICES ASSUME Inv, pc = "idle", ResumeAt..(TotalChunks - 1) \subseteq sent,
                      next # TotalChunks
               PROVE  FALSE
    BY DEF AllSentAllWritten
  <2>1. next \in Seqs
    BY SizeAssumption DEF Inv, TypeOK, Seqs
  <2>2. next \notin Buffered /\ next \notin sent
    BY <2>1, SizeAssumption DEF Inv, Sorted, Seqs
  <2>3. next \in ResumeAt..(TotalChunks - 1)
    BY <2>1, SizeAssumption DEF Inv, Sorted, Seqs
  <2> QED BY <2>2, <2>3
<1> QED BY <1>1, AssemblerInvariant, PTL

\* No chunk is taken twice.
THEOREM DuplicatesRejected == Spec => DuplicateRejected
<1>1. ASSUME Inv, NEW s \in sent, Write(s) PROVE pc' = "failed"
  <2>1. s \in Seqs /\ (s < next \/ s \in Buffered) /\ pc = "idle"
    BY <1>1 DEF Inv, TypeOK, Sorted, Write
  <2>2. Duplicate(s)
    BY <2>1 DEF Duplicate, Buffered
  <2> QED BY <1>1, <2>2 DEF Write, Fail
<1>2. Inv /\ [Next]_vars => [\A s \in sent : Write(s) => pc' = "failed"]_vars
  BY <1>1
<1> QED BY <1>2, AssemblerInvariant, PTL DEF Spec, DuplicateRejected
=============================================================================
