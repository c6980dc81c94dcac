SPECIFICATION FairDrainSpec
CONSTANTS
  Session = {s1, s2}
  Agent = {a1}
  Thread = {b1, w}
  Background = {b1}
  Worker = w
  NoAgent = NoAgent
  NoSession = NoSession
  MaxGeneration = 2
  MaxTurns = 2
INVARIANTS
  DrainTypeOK
  DrainSettles
PROPERTIES
  NothingAbandoned
  DrainEnds
CHECK_DEADLOCK FALSE
