\* Both kinds of watcher, two changes: each can concern an address, an
\* interface or both, so that the two notification threads contend.
CONSTANTS
  Lists = {l0, l1, l2}
  EmptyList = l0
  NoList = NoList
  NoUpdate = NoUpdate
  MaxChanges = 2
SPECIFICATION FairSpec
INVARIANTS
  TypeOK
  StateOutlivesCalls
  NoCallAfterDrop
  NoLostChange
PROPERTIES
  ImplementsUpdateStream
  ChangesAreDelivered
  DropTerminates
CHECK_DEADLOCK FALSE
