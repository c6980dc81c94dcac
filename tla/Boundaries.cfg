SPECIFICATION BoundarySpec
CONSTANTS
  Session = {s1, s2}
  Agent = {a1, a2}
  Thread = {t1, t2, t3}
  NoAgent = NoAgent
  NoSession = NoSession
  MaxGeneration = 2
  CacheMax = 1
  MaxTurns = 3
INVARIANTS
  BoundaryTypeOK
  EvictionSparesRuns
  OwedToOpenAgents
  ExtractsOnOpenAgents
CONSTRAINT FewTurns
SYMMETRY Symmetric
CHECK_DEADLOCK FALSE
