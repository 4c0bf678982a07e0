\* Four changes against a socket that holds two notifications: the buffer
\* overruns and recovers, and a change can arrive at every point of the loop.
CONSTANTS
  Lists = {l0, l1, l2}
  EmptyList = l0
  NoList = NoList
  NoUpdate = NoUpdate
  MaxChanges = 4
  QueueCap = 2
SPECIFICATION FairSpec
INVARIANTS
  TypeOK
  NoCallAfterDrop
  NoLostChange
  DropIsPrompt
  NothingIsLeaked
PROPERTIES
  ImplementsUpdateStream
  ChangesAreDelivered
  DropTerminates
CHECK_DEADLOCK FALSE
