------------------------- MODULE MCMemoryBoundaries -------------------------
(* Two sessions share a cache with room for one agent.                     *)
EXTENDS MemoryBoundaries, FiniteSetsExt, TLC

CONSTANT MaxTurns   \* completed turns of all sessions together

Symmetric == Permutations(Agent) \union Permutations(Thread) \union Permutations(Session)

\* At most one worker at a time outlives its row.
FewTurns ==
  /\ MapThenSumSet(LAMBDA s : generation[s], Session) <= MaxTurns
  /\ Cardinality(Unlisted) <= 1
=============================================================================
