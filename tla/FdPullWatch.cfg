\* All three ways of waiting, four changes against a socket that holds two
\* notifications. No symmetry: some of the properties are temporal.
CONSTANTS
  Lists = {l0, l1, l2}
  EmptyList = l0
  NoList = NoList
  NoUpdate = NoUpdate
  MaxChanges = 4
  QueueCap = 2
SPECIFICATION FairSpec
INVARIANTS
  TypeOK
  NoLostChange
PROPERTIES
  ImplementsUpdateStream
  ChangedReturns
CHECK_DEADLOCK FALSE
