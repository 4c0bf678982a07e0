\* One callback watcher and one queued one, which take turns being the first
\* and the last. No symmetry: the properties are temporal.
CONSTANTS
  Lists = {l0, l1}
  EmptyList = l0
  NoList = NoList
  NoUpdate = NoUpdate
  MaxChanges = 2
  CallbackWatchers = {c1}
  QueuedWatchers = {q1}
  Notifier = Notifier
  Nobody = Nobody
SPECIFICATION FairSpec
PROPERTIES
  ImplementsUpdateStream
  ChangesAreDelivered
  DropTerminates
  RegistrationTerminates
CHECK_DEADLOCK FALSE
