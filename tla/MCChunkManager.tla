---------------------------- MODULE MCChunkManager ----------------------------
(***************************************************************************)
(* ChunkManager with two readers and two requests, one fed in order.       *)
(***************************************************************************)
EXTENDS ChunkManager
=============================================================================
