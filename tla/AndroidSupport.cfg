\* Two watchers, so that one joins and one leaves last; two support objects
\* in a process, so that one can outlive a failed stop beside its successor;
\* two kills: the half-written file of one process meets a second and a third.
CONSTANTS
  Watchers = {w1, w2}
  NdkContext = FALSE
  MaxObjects = 2
  MaxKills = 2
SPECIFICATION Spec
INVARIANTS
  TypeOK
  LoadsWholeFile
  SubscriptionFollowsWatchers
CHECK_DEADLOCK FALSE
