-------------------------- MODULE MCChunkAssembler --------------------------
(***************************************************************************)
(* A file of eight chunks, the first of them on disk already, and a buffer *)
(* for three.                                                              *)
(***************************************************************************)
EXTENDS ChunkAssembler

Letters == {"a", "b"}
EightChunks == [s \in 0..7 |-> IF s % 2 = 0 THEN "a" ELSE "b"]
=============================================================================
