\* The promise of the documentation, without the excuse that an overrun of a
\* netlink socket needs under Tokio. The socket holds one notification: the
\* second one that comes before the watcher drains overruns it.
CONSTANTS
  Lists = {l0, l1}
  EmptyList = l0
  NoList = NoList
  NoUpdate = NoUpdate
  MaxChanges = 3
  QueueCap = 1
SPECIFICATION FairSpec
PROPERTIES
  ChangedReturnsAsDocumented
CHECK_DEADLOCK FALSE
