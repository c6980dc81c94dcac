-------------------------- MODULE MCProcessWakeups --------------------------
(***************************************************************************)
(* Model values and symmetry of ProcessWakeups for TLC.                    *)
(***************************************************************************)
EXTENDS ProcessWakeups, TLC

Symmetric == Permutations(Runner) \cup Permutations(Drainer) \cup Permutations(Proc)
=============================================================================
