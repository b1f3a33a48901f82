---------------------------- MODULE MCMemoryPaths ---------------------------
(* Both paths with two addresses, the shortest queues and two tags.        *)
EXTENDS MemoryPaths

MCByte == {0, 1}
=============================================================================
