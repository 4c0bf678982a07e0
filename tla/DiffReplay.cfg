\* Two interfaces with two names, two hardware addresses and two addresses;
\* a vector of two can be out of order and can hold a duplicate.
CONSTANTS
  Indices = {1, 2}
  Names = {n1, n2}
  HwAddrs = {h1, h2}
  Addrs = {1, 2}
  NoList = NoList
  NoUpdate = NoUpdate
  MaxVector = 2
SPECIFICATION Spec
INVARIANTS
  RecordIsCurrent
PROPERTIES
  DiffIsExact
  OrderNeverMatters
CHECK_DEADLOCK FALSE
