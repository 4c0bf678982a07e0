\* The promise of the documentation about an initial callback that panics.
CONSTANTS
  Lists = {l0, l1}
  EmptyList = l0
  NoList = NoList
  NoUpdate = NoUpdate
  MaxChanges = 1
SPECIFICATION Spec
INVARIANTS
  InitialPanicUnwinds
CHECK_DEADLOCK FALSE
