------------------------- MODULE MCStreamLifecycle -------------------------
(* Two turns of a session and two clicks on Stop, with one process crash.  *)
EXTENDS StreamLifecycle, TLC

Symmetric == Permutations(Stopper)
=============================================================================
