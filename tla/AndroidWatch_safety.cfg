\* Two callback watchers, so that one can register while the other is being
\* called or goes, and a queued one.
CONSTANTS
  Lists = {l0, l1, l2}
  EmptyList = l0
  NoList = NoList
  NoUpdate = NoUpdate
  MaxChanges = 2
  CallbackWatchers = {c1, c2}
  QueuedWatchers = {q1}
  Notifier = Notifier
  Nobody = Nobody
SPECIFICATION Spec
SYMMETRY Symmetry
INVARIANTS
  TypeOK
  RegisteredAreCurrent
  JavaFollowsWatchers
  CallbackIsExclusive
  NoLostChange
CHECK_DEADLOCK FALSE
