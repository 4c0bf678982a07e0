------------------------------ MODULE ListUnix ------------------------------
(***************************************************************************)
(* list_interfaces of list_unix.rs, step by step. getifaddrs copies the    *)
(* configuration into a list of entries; every entry's name is resolved    *)
(* with if_nametoindex against what the configuration is by then; the      *)
(* entries are gathered into candidates by name, and the candidates that   *)
(* are up become the List, keyed by index.                                 *)
(*                                                                         *)
(* On Linux an IPv4 address may carry a label ("eth0:1"), which getifaddrs *)
(* gives as the entry's name and if_nametoindex resolves to eth0. A name   *)
(* is therefore the name of a link and a label.                            *)
(*                                                                         *)
(* The entries come in an order that is not specified and are taken here   *)
(* in any; so the first prefix of a family on a candidate is any of them,  *)
(* and its vector of addresses a set.                                      *)
(***************************************************************************)
EXTENDS Integers, Functions

CONSTANTS
  Indices, Names, HwAddrs,
  Labels, NoLabel,          \* labels of addresses
  Ips, Families, PrefixLens,
  NoPrefix,                 \* no netmask was reported
  NoHwAddr,                 \* no link-layer address, and "00:00:00:00:00:00"
  InitialLinks,             \* the configurations to begin with
  MaxChanges                \* bound: how often the configuration changes

Addr == [ip : Ips, family : Families, prefix : PrefixLens \cup {NoPrefix}, label : Labels]

Link == [name : Names, up : BOOLEAN, hw_addr : HwAddrs \cup {NoHwAddr}, addrs : SUBSET Addr]

(* f maps some of the elements of S to elements of T.                      *)
IsPartial(f, S, T) == DOMAIN f \in SUBSET S /\ f \in [DOMAIN f -> T]

(* Links by index; a name belongs to one link at most.                     *)
IsConfiguration(config) ==
  /\ IsPartial(config, Indices, Link)
  /\ \A i, j \in DOMAIN config : config[i].name = config[j].name => i = j

ASSUME ListAssumption ==
  /\ NoLabel \in Labels
  /\ NoPrefix \notin PrefixLens
  /\ NoHwAddr \notin HwAddrs
  /\ \A config \in InitialLinks : IsConfiguration(config)
  /\ MaxChanges \in Nat

VARIABLES
  links,        \* the configuration
  changes,      \* how often it has changed
  pc,           \* the listing
  entries,      \* what getifaddrs returned and is not yet gathered
  candidates,   \* CandidateInterface by name
  list,         \* the List
  taken,        \* ghost: the configuration getifaddrs copied
  stale         \* ghost: it has changed since

listing == <<pc, entries, candidates, list, taken>>
vars == <<links, changes, listing, stale>>

FullName == Names \X Labels

Entry == [name : FullName, up : BOOLEAN, hw_addr : HwAddrs \cup {NoHwAddr}, ips : SUBSET Addr]

CandidateInterface ==
  [index : Indices, up : BOOLEAN, hw_addr : HwAddrs \cup {NoHwAddr}, ips : SUBSET Addr]

IpRecord == [ip : Ips, prefix_len : PrefixLens]

Interface == [name : FullName, hw_addr : HwAddrs \cup {NoHwAddr}, ips : SUBSET IpRecord]

TypeOK ==
  /\ IsConfiguration(links)
  /\ changes \in 0..MaxChanges
  /\ pc \in {"start", "gather", "done", "getifaddrsFailed", "nameGone"}
  /\ entries \in SUBSET Entry
  /\ IsPartial(candidates, FullName, CandidateInterface)
  /\ IsPartial(list, Indices, Interface)
  /\ IsConfiguration(taken)
  /\ stale \in BOOLEAN

Nothing == [x \in {} |-> {}]

Init ==
  /\ links \in InitialLinks
  /\ changes = 0
  /\ pc = "start"
  /\ entries = {}
  /\ candidates = Nothing
  /\ list = Nothing
  /\ taken = Nothing
  /\ stale = FALSE

-----------------------------------------------------------------------------
(* The kernel: links come, go and are renamed while a listing is made.     *)

Reconfigure(config) ==
  /\ changes < MaxChanges
  /\ changes' = changes + 1
  /\ links' = config
  /\ stale' = TRUE
  /\ UNCHANGED listing

Unplug(i) == i \in DOMAIN links /\ Reconfigure(Restrict(links, DOMAIN links \ {i}))

Free(n) == \A i \in DOMAIN links : links[i].name # n

Rename(i, n) ==
  /\ i \in DOMAIN links
  /\ Free(n)
  /\ Reconfigure([links EXCEPT ![i] = [@ EXCEPT !.name = n]])

Plug(i, n) ==
  /\ i \in Indices \ DOMAIN links
  /\ Free(n)
  /\ Reconfigure([j \in DOMAIN links \cup {i} |->
                    IF j = i THEN [name |-> n, up |-> TRUE, hw_addr |-> NoHwAddr, addrs |-> {}]
                    ELSE links[j]])

-----------------------------------------------------------------------------
(* The listing.                                                            *)

(* The entry for the link itself and one for each of its addresses, all    *)
(* with the link's flags.                                                  *)
EntriesOf(link) ==
  {[name |-> <<link.name, NoLabel>>, up |-> link.up, hw_addr |-> link.hw_addr, ips |-> {}]}
    \cup
  {[name |-> <<link.name, a.label>>, up |-> link.up, hw_addr |-> NoHwAddr, ips |-> {a}] :
     a \in link.addrs}

Getifaddrs ==
  /\ pc = "start"
  /\ \/ /\ pc' = "gather"
        /\ entries' = UNION {EntriesOf(links[i]) : i \in DOMAIN links}
        /\ taken' = links
        /\ stale' = FALSE
     \/ /\ pc' = "getifaddrsFailed"
        /\ UNCHANGED <<entries, taken, stale>>
  /\ UNCHANGED <<links, changes, candidates, list>>

(* if_nametoindex                                                          *)
Resolved(name) == {i \in DOMAIN links : links[i].name = name[1]}

(* Slip: gathered by the index, under the first name seen with it.         *)
CandidateAtIndex(e, index) ==
  IF \E n \in DOMAIN candidates : candidates[n].index = index
  THEN CHOOSE n \in DOMAIN candidates : candidates[n].index = index
  ELSE e.name

(* Which candidate an entry is gathered into: the one of its name.         *)
CandidateOf(e, index) == e.name

(* The entry's candidate as it was, or new with the index resolved now.    *)
Found(n, e, index) ==
  IF n \in DOMAIN candidates THEN candidates[n]
  ELSE [index |-> index, up |-> e.up, hw_addr |-> NoHwAddr, ips |-> {}]

Gather(e) ==
  /\ pc = "gather"
  /\ e \in entries
  /\ IF Resolved(e.name) = {}
     THEN /\ pc' = "nameGone"
          /\ UNCHANGED <<entries, candidates>>
     ELSE \E index \in Resolved(e.name) :
            LET n     == CandidateOf(e, index)
                found == Found(n, e, index)
            IN  /\ candidates' =
                     [m \in DOMAIN candidates \cup {n} |->
                        IF m = n
                        THEN [index   |-> found.index,
                              up      |-> found.up \/ e.up,
                              hw_addr |-> IF e.hw_addr # NoHwAddr THEN e.hw_addr ELSE found.hw_addr,
                              ips     |-> found.ips \cup e.ips]
                        ELSE candidates[m]]
                /\ entries' = entries \ {e}
                /\ UNCHANGED pc
  /\ UNCHANGED <<links, changes, list, taken, stale>>

(* The prefixes reported for a family, of which the first is lent.         *)
InUse(ips, family) == {a.prefix : a \in {b \in ips : b.family = family}} \ {NoPrefix}

(* Slip: any address on the interface lends its prefix.                    *)
LendersOfAnyFamily(ips) ==
  LET inUse == UNION {InUse(ips, f) : f \in Families}
  IN  [Families -> IF inUse = {} THEN {NoPrefix} ELSE inUse]

(* What prefix_in_use can be in apply_fallback_for_family.                 *)
Lenders(ips) ==
  {lender \in [Families -> PrefixLens \cup {NoPrefix}] :
     \A f \in Families :
       lender[f] \in IF InUse(ips, f) = {} THEN {NoPrefix} ELSE InUse(ips, f)}

(* Slip: an address without a prefix is kept.                              *)
RecordsAll(ips, lender) ==
  {[ip |-> a.ip, prefix_len |-> IF a.prefix # NoPrefix THEN a.prefix ELSE lender[a.family]] :
     a \in ips}

(* The records of a candidate; an address still without a prefix has none. *)
Records(ips, lender) ==
  {r \in {[ip |-> a.ip, prefix_len |-> IF a.prefix # NoPrefix THEN a.prefix ELSE lender[a.family]] :
            a \in ips} :
     r.prefix_len # NoPrefix}

(* The candidates that are up, by index. HashMap's order decides which of  *)
(* several with one index is collected last, and stays.                    *)
Collect ==
  /\ pc = "gather"
  /\ entries = {}
  /\ LET up == {n \in DOMAIN candidates : candidates[n].up}
         indices == {candidates[n].index : n \in up}
     IN  \E last \in [indices -> up] : \E lender \in [indices -> [Families -> PrefixLens \cup {NoPrefix}]] :
           /\ \A i \in indices :
                /\ candidates[last[i]].index = i
                /\ lender[i] \in Lenders(candidates[last[i]].ips)
           /\ list' = [i \in indices |->
                         [name    |-> last[i],
                          hw_addr |-> candidates[last[i]].hw_addr,
                          ips     |-> Records(candidates[last[i]].ips, lender[i])]]
  /\ pc' = "done"
  /\ UNCHANGED <<links, changes, entries, candidates, taken, stale>>

Next ==
  \/ \E i \in Indices : Unplug(i)
  \/ \E i \in Indices, n \in Names : Rename(i, n) \/ Plug(i, n)
  \/ Getifaddrs
  \/ \E e \in entries : Gather(e)
  \/ Collect

Spec == Init /\ [][Next]_vars

-----------------------------------------------------------------------------
(* Properties.                                                             *)

(* What of a link is reported under one of its names.                      *)
Part(link, label) ==
  [link EXCEPT !.hw_addr = IF label = NoLabel THEN @ ELSE NoHwAddr,
               !.addrs = {a \in @ : a.label = label}]

(* The interface is what the link's attributes say: every address that has *)
(* a prefix with that prefix, every other with one of its own family.      *)
IsInterfaceOf(interface, link) ==
  /\ interface.name[1] = link.name
  /\ interface.hw_addr = link.hw_addr
  /\ \A a \in link.addrs :
       \/ a.prefix # NoPrefix /\ [ip |-> a.ip, prefix_len |-> a.prefix] \in interface.ips
       \/ a.prefix = NoPrefix /\ \E p \in InUse(link.addrs, a.family) :
            [ip |-> a.ip, prefix_len |-> p] \in interface.ips
       \/ a.prefix = NoPrefix /\ InUse(link.addrs, a.family) = {}
  /\ \A r \in interface.ips : \E a \in link.addrs :
       /\ a.ip = r.ip
       /\ r.prefix_len \in IF a.prefix # NoPrefix THEN {a.prefix} ELSE InUse(link.addrs, a.family)

(* Host's assumption: a listing during which nothing changed succeeds with *)
(* exactly the configuration, provided that no address carries a label.    *)
ListingIsExact ==
  ~stale =>
    /\ pc # "nameGone"
    /\ (pc = "done" /\ \A i \in DOMAIN taken : \A a \in taken[i].addrs : a.label = NoLabel) =>
         /\ DOMAIN list = {i \in DOMAIN taken : taken[i].up}
         /\ \A i \in DOMAIN list : IsInterfaceOf(list[i], taken[i])

(* A listing torn by a change may give an interface the wrong index or     *)
(* leave it out, but never mixes two: what is listed under a name is all   *)
(* of what getifaddrs reported under that name, and of a link that was up. *)
InterfacesAreWhole ==
  pc = "done" => \A i \in DOMAIN list : \E j \in DOMAIN taken :
    taken[j].up /\ IsInterfaceOf(list[i], Part(taken[j], list[i].name[2]))

(* lib.rs:438: "Retrieve information about all enabled network interfaces  *)
(* and their IP addresses."                                                *)
EveryAddressIsListed ==
  (pc = "done" /\ ~stale) =>
    \A i \in DOMAIN taken : taken[i].up =>
      /\ i \in DOMAIN list
      /\ \A a \in taken[i].addrs :
           a.prefix # NoPrefix => [ip |-> a.ip, prefix_len |-> a.prefix] \in list[i].ips

=============================================================================
