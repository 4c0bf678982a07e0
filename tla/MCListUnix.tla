----------------------------- MODULE MCListUnix -----------------------------
EXTENDS ListUnix

V4(ip, prefix, label) == [ip |-> ip, family |-> "v4", prefix |-> prefix, label |-> label]
V6(ip, prefix) == [ip |-> ip, family |-> "v6", prefix |-> prefix, label |-> NoLabel]

(* Two prefixes to borrow from, a labelled address, and one address of     *)
(* each family without a prefix.                                           *)
MCAddrs ==
  {V4(1, 16, NoLabel), V4(2, 24, NoLabel), V4(3, 24, ":1"), V4(4, NoPrefix, NoLabel),
   V6(5, 64), V6(6, NoPrefix)}

(* One link with any of these addresses, beside another or alone.          *)
MCInitialLinks ==
  LET first  == [name : {"eth0"}, up : BOOLEAN, hw_addr : {"mac0"}, addrs : SUBSET MCAddrs]
      second == {[name |-> "eth1", up |-> TRUE, hw_addr |-> NoHwAddr,
                  addrs |-> {V4(1, 16, NoLabel)}],
                 [name |-> "eth1", up |-> FALSE, hw_addr |-> "mac1",
                  addrs |-> {V6(6, NoPrefix)}]}
  IN  {<<a>> : a \in first} \cup {<<a, b>> : a \in first, b \in second}

=============================================================================
