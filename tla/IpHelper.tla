------------------------------ MODULE IpHelper ------------------------------
(***************************************************************************)
(* The network adapters the IP helper of Windows knows, and the room that  *)
(* a list of them takes in the buffer GetAdaptersAddresses fills.          *)
(*                                                                         *)
(* Asked for AF_UNSPEC and unicast addresses, the IP helper returns those  *)
(* of AF_INET and AF_INET6 and no other.                                   *)
(***************************************************************************)
EXTENDS Integers, Sequences, FiniteSets

CONSTANTS
  UnicastAddresses,   \* the addresses adapters have
  IfIndices,          \* interface indices; 0 stands for "none" beside them
  StartSize,          \* what the buffer holds at first, counted in addresses and adapters
  MaxAdapters         \* bound: how many adapters there are at a time

ASSUME AdaptersAssumption ==
  /\ IsFiniteSet(UnicastAddresses)
  /\ IfIndices \subseteq Nat \ {0}
  /\ StartSize \in Nat
  /\ MaxAdapters \in Nat

(* IP_ADAPTER_ADDRESSES_LH. Both families of an adapter share one index.   *)
Adapter ==
  {a \in [status : {"up", "down"}, IfIndex : IfIndices \cup {0}, Ipv6IfIndex : IfIndices \cup {0},
          ips : SUBSET UnicastAddresses] :
     a.IfIndex = a.Ipv6IfIndex \/ 0 \in {a.IfIndex, a.Ipv6IfIndex}}

(* The index of an adapter, whichever family it is known for, or 0.        *)
IfIndexOf(a) == IF a.IfIndex # 0 THEN a.IfIndex ELSE a.Ipv6IfIndex

Adapters ==
  {as \in UNION {[1..n -> Adapter] : n \in 0..MaxAdapters} :
     \A i, j \in DOMAIN as : i # j => IfIndexOf(as[i]) # IfIndexOf(as[j]) \/ IfIndexOf(as[i]) = 0}

(* The room a list of adapters takes.                                      *)
Size(as) == Cardinality(UNION {{i} \X (as[i].ips \cup {"adapter"}) : i \in DOMAIN as})

=============================================================================
