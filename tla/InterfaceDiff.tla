---------------------------- MODULE InterfaceDiff ----------------------------
(***************************************************************************)
(* The diff of an Update (lib.rs): what List::update_from says changed     *)
(* between two snapshots, and what the iterators addrs_added and           *)
(* addrs_removed read out of it.                                           *)
(*                                                                         *)
(* A List maps interface indices to interfaces. The address vector of an   *)
(* interface is canonical (Interface::normalise, see DiffReplay), so it is *)
(* the set of its members; the vectors of an InterfaceDiff are collected   *)
(* from sets and have no order to speak of.                                *)
(***************************************************************************)
EXTENDS Functions

CONSTANTS Indices, Names, HwAddrs, Addrs

Interface == [name : Names, hw_addr : HwAddrs, ips : SUBSET Addrs]

List == UNION {[present -> Interface] : present \in SUBSET Indices}

NoInterfaces == [i \in {} |-> {}]

(* Slip: the addresses are compared only when no other attribute changed.  *)
InterfaceDiffOfOneThing(prev, interface) ==
  LET same == prev.name = interface.name /\ prev.hw_addr = interface.hw_addr
  IN  [name_changed    |-> prev.name # interface.name,
       hw_addr_changed |-> prev.hw_addr # interface.hw_addr,
       addrs_added     |-> IF same THEN interface.ips \ prev.ips ELSE {},
       addrs_removed   |-> IF same THEN prev.ips \ interface.ips ELSE {}]

(* An entry of `modified`.                                                 *)
InterfaceDiffOf(prev, interface) ==
  [name_changed    |-> prev.name # interface.name,
   hw_addr_changed |-> prev.hw_addr # interface.hw_addr,
   addrs_added     |-> interface.ips \ prev.ips,
   addrs_removed   |-> prev.ips \ interface.ips]

Modified(list, prev) ==
  {i \in DOMAIN list \cap DOMAIN prev : list[i] # prev[i]}

(* list.update_from(prev).diff                                             *)
DiffFrom(list, prev) ==
  [added    |-> Restrict(list, DOMAIN list \ DOMAIN prev),
   removed  |-> Restrict(prev, DOMAIN prev \ DOMAIN list),
   modified |-> [i \in Modified(list, prev) |-> InterfaceDiffOf(prev[i], list[i])]]

NothingChanged(diff) ==
  DOMAIN diff.added = {} /\ DOMAIN diff.removed = {} /\ DOMAIN diff.modified = {}

(* Slip: the addresses of interfaces that appeared are not reported.       *)
AddrsAddedToModified(diff) ==
  {ia \in Indices \X Addrs :
     ia[1] \in DOMAIN diff.modified /\ ia[2] \in diff.modified[ia[1]].addrs_added}

(* The (index, address) pairs Update::addrs_added iterates over.           *)
AddrsAdded(diff) ==
  {ia \in Indices \X Addrs :
     \/ ia[1] \in DOMAIN diff.added /\ ia[2] \in diff.added[ia[1]].ips
     \/ ia[1] \in DOMAIN diff.modified /\ ia[2] \in diff.modified[ia[1]].addrs_added}

(* The pairs Update::addrs_removed iterates over.                          *)
AddrsRemoved(diff) ==
  {ia \in Indices \X Addrs :
     \/ ia[1] \in DOMAIN diff.removed /\ ia[2] \in diff.removed[ia[1]].ips
     \/ ia[1] \in DOMAIN diff.modified /\ ia[2] \in diff.modified[ia[1]].addrs_removed}

(* Reference: every address of a snapshot, with the interface it is on.    *)
AddrsOf(list) ==
  {ia \in Indices \X Addrs : ia[1] \in DOMAIN list /\ ia[2] \in list[ia[1]].ips}

=============================================================================
