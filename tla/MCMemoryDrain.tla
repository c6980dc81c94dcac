---------------------------- MODULE MCMemoryDrain ---------------------------
(* Two sessions, a background thread, one other committer and the drain.   *)
EXTENDS MemoryDrain
=============================================================================
