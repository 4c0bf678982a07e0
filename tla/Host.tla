-------------------------------- MODULE Host --------------------------------
(***************************************************************************)
(* The operating system's interface configuration as the library observes  *)
(* it, and a listing of it (list_interfaces of list_unix.rs).              *)
(*                                                                         *)
(* A listing is not atomic. getifaddrs copies the configuration, and then  *)
(* every entry's name is resolved with if_nametoindex against what the     *)
(* configuration has become: an interface that has gone makes the whole    *)
(* listing fail, one that was replaced makes it mix old and new. When      *)
(* nothing changed between the two, the listing is the configuration:      *)
(* ListUnix shows it, for addresses without labels, as ListingIsExact.     *)
(***************************************************************************)
EXTENDS Integers, UpdateCursor

CONSTANT MaxChanges   \* bound: how often the configuration changes

ASSUME HostAssumption == MaxChanges \in Nat

VARIABLES
  os,      \* the current configuration
  epoch,   \* how often it has changed
  snap     \* what getifaddrs copied for the listing in progress

hostVars == <<os, epoch, snap>>

Snapshot == [list : Lists, epoch : 0..MaxChanges]

HostTypeOK ==
  /\ os \in Lists
  /\ epoch \in 0..MaxChanges
  /\ snap \in Snapshot

HostInit ==
  /\ os \in Lists
  /\ epoch = 0
  /\ snap = [list |-> os, epoch |-> 0]

(* The administrator, a DHCP client, a cable...                            *)
ChangeConfiguration ==
  /\ epoch < MaxChanges
  /\ os' \in Lists \ {os}
  /\ epoch' = epoch + 1
  /\ UNCHANGED snap

(* getifaddrs                                                              *)
TakeSnapshot ==
  /\ snap' = [list |-> os, epoch |-> epoch]
  /\ UNCHANGED <<os, epoch>>

(* What the listing begun with TakeSnapshot can return now.                *)
ListingResults == IF snap.epoch = epoch THEN {snap.list} ELSE Lists \cup {NoList}

=============================================================================
