\* One watcher and one support object, which gets no ConnectivityManager.
CONSTANTS
  Watchers = {w1}
  NdkContext = FALSE
  MaxObjects = 1
  MaxKills = 0
SPECIFICATION Spec
INVARIANT
  WatchersAreSubscribed
CHECK_DEADLOCK FALSE
