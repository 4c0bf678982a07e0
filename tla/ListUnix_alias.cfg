\* Two links with any of six addresses on the first: two IPv4 prefixes to
\* borrow from, one labelled address, one of each family without a prefix.
\* Two changes while a listing is made: unplug and rename the other.
CONSTANTS
  Indices = {1, 2}
  Names = {"eth0", "eth1"}
  HwAddrs = {"mac0", "mac1"}
  Labels = {"", ":1"}
  NoLabel = ""
  Ips = {1, 2, 3, 4, 5, 6}
  Families = {"v4", "v6"}
  PrefixLens = {16, 24, 64}
  NoPrefix = 0
  NoHwAddr = "00:00:00:00:00:00"
  InitialLinks <- MCInitialLinks
  MaxChanges = 2
SPECIFICATION Spec
INVARIANT
  EveryAddressIsListed
CHECK_DEADLOCK FALSE
