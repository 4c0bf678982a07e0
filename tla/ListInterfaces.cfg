\* Two links with any of six addresses on the first: two IPv4 prefixes to
\* borrow from, one labelled address, one of each family without a prefix.
\* Two changes while a listing is made: unplug and rename the other.
\* Two adapters at most with up to two addresses, coming and going; the
\* buffer holds one adapter without an address at first, so that it is
\* outgrown several times.
CONSTANTS
  Indices = {1, 2}
  Names = {"eth0", "eth1"}
  HwAddrs = {"mac0", "mac1"}
  Labels = {"", ":1"}
  NoLabel = ""
  Ips = {1, 2, 3, 4, 5, 6}
  Families = {"v4", "v6"}
  PrefixLens = {16, 24, 64}
  NoPrefix = 0
  NoHwAddr = "00:00:00:00:00:00"
  InitialLinks <- MCInitialLinks
  MaxChanges = 2
  UnicastAddresses = {"ip4", "ip6"}
  IfIndices = {1, 2}
  StartSize = 1
  MaxAdapters = 2
SPECIFICATION MCSpec
INVARIANTS
  TypeOK
  ListingIsExact
  InterfacesAreWhole
  BufferIsNeverOverrun
  ListingIsASnapshot
PROPERTY
  WindowsListingEnds
CHECK_DEADLOCK FALSE
