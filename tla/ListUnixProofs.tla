--------------------------- MODULE ListUnixProofs ---------------------------
(***************************************************************************)
(* The Unix listing, for any links, names, addresses and labels, and any   *)
(* number of changes while it is made: a listing without a change is the   *)
(* configuration, and one with changes never mixes two interfaces.         *)
(***************************************************************************)
EXTENDS ListUnix, TLAPS

AllEntries == UNION {EntriesOf(taken[i]) : i \in DOMAIN taken}

(* The entries gathered under a name so far.                               *)
Of(n) == {e \in AllEntries \ entries : e.name = n}

(* A candidate is what the entries gathered under its name add up to.      *)
GatheredOK ==
  /\ entries \subseteq AllEntries
  /\ \A n \in FullName : n \in DOMAIN candidates <=> Of(n) # {}
  /\ \A n \in DOMAIN candidates :
       /\ candidates[n].up <=> \E e \in Of(n) : e.up
       /\ candidates[n].ips = UNION {e.ips : e \in Of(n)}
       /\ \A e \in Of(n) : e.hw_addr # NoHwAddr => candidates[n].hw_addr = e.hw_addr
       /\ candidates[n].hw_addr # NoHwAddr =>
            \E e \in Of(n) : e.hw_addr = candidates[n].hw_addr

(* Without a change every name resolves, to the link it belongs to.        *)
ResolvedOK ==
  /\ pc = "start" => DOMAIN taken = {}
  /\ (~stale /\ pc \in {"gather", "nameGone", "done"}) =>
       /\ pc # "nameGone"
       /\ links = taken
       /\ \A n \in DOMAIN candidates :
            candidates[n].index \in DOMAIN taken /\ taken[candidates[n].index].name = n[1]

(* The List holds for every index one of its candidates, with some prefix  *)
(* lent to the addresses without one.                                      *)
ListOK ==
  pc = "done" =>
    /\ entries = {}
    /\ \A i \in DOMAIN list : \E n \in DOMAIN candidates :
         /\ candidates[n].up
         /\ candidates[n].index = i
         /\ list[i].name = n
         /\ list[i].hw_addr = candidates[n].hw_addr
         /\ \E lender \in Lenders(candidates[n].ips) :
              list[i].ips = Records(candidates[n].ips, lender)
    /\ \A n \in DOMAIN candidates : candidates[n].up => candidates[n].index \in DOMAIN list

IInv ==
  /\ TypeOK
  /\ GatheredOK
  /\ ResolvedOK
  /\ ListOK


-----------------------------------------------------------------------------
(* The entries of a link, and of which links the entries under a name are. *)
LEMMA EntryFacts ==
  ASSUME NEW link \in Link, NEW e \in EntriesOf(link)
  PROVE  /\ e \in Entry
         /\ e.name[1] = link.name
         /\ e.up = link.up
         /\ e.ips \subseteq {a \in link.addrs : a.label = e.name[2]}
         /\ e.hw_addr = IF e.hw_addr = NoHwAddr THEN NoHwAddr ELSE link.hw_addr
         /\ e.hw_addr # NoHwAddr => e.name[2] = NoLabel
<1> USE ListAssumption DEF Link, Addr, Entry, FullName
<1>1. CASE e = [name |-> <<link.name, NoLabel>>, up |-> link.up, hw_addr |-> link.hw_addr, ips |-> {}]
  BY <1>1
<1>2. ASSUME NEW a \in link.addrs,
             e = [name |-> <<link.name, a.label>>, up |-> link.up, hw_addr |-> NoHwAddr, ips |-> {a}]
      PROVE  /\ e \in Entry
             /\ e.name[1] = link.name
             /\ e.up = link.up
             /\ e.ips \subseteq {b \in link.addrs : b.label = e.name[2]}
             /\ e.hw_addr = NoHwAddr
  BY <1>2
<1> QED BY <1>1, <1>2 DEF EntriesOf

LEMMA AllEntriesFacts ==
  ASSUME TypeOK, NEW e \in AllEntries
  PROVE  /\ e \in Entry
         /\ \E i \in DOMAIN taken : e \in EntriesOf(taken[i]) /\ taken[i] \in Link
<1>1. PICK i \in DOMAIN taken : e \in EntriesOf(taken[i])
  BY DEF AllEntries
<1>2. taken[i] \in Link
  BY DEF TypeOK, IsConfiguration, IsPartial
<1> QED BY <1>1, <1>2, EntryFacts

LEMMA ConfigurationFacts ==
  ASSUME NEW config, IsConfiguration(config)
  PROVE  /\ DOMAIN config \subseteq Indices
         /\ \A i \in DOMAIN config : config[i] \in Link
         /\ \A i, j \in DOMAIN config : config[i].name = config[j].name => i = j
  BY DEF IsConfiguration, IsPartial

(* The records of typed addresses are typed.                               *)
LEMMA RecordFacts ==
  ASSUME NEW ips \in SUBSET Addr, NEW lender \in [Families -> PrefixLens \cup {NoPrefix}]
  PROVE  Records(ips, lender) \in SUBSET IpRecord
  BY DEF Records, IpRecord, Addr

(* The part of IsInterfaceOf about addresses, and that a record set made   *)
(* with what InUse lends has it.                                           *)
Describe(records, ips) ==
  /\ \A a \in ips :
       \/ a.prefix # NoPrefix /\ [ip |-> a.ip, prefix_len |-> a.prefix] \in records
       \/ a.prefix = NoPrefix /\ \E p \in InUse(ips, a.family) :
            [ip |-> a.ip, prefix_len |-> p] \in records
       \/ a.prefix = NoPrefix /\ InUse(ips, a.family) = {}
  /\ \A r \in records : \E a \in ips :
       /\ a.ip = r.ip
       /\ r.prefix_len \in IF a.prefix # NoPrefix THEN {a.prefix} ELSE InUse(ips, a.family)

LEMMA RecordsDescribe ==
  ASSUME NEW ips \in SUBSET Addr, NEW lender \in Lenders(ips)
  PROVE  Describe(Records(ips, lender), ips)
<1> DEFINE prefix(a) == IF a.prefix # NoPrefix THEN a.prefix ELSE lender[a.family]
           record(a) == [ip |-> a.ip, prefix_len |-> prefix(a)]
<1>1. \A a \in ips : prefix(a) # NoPrefix => record(a) \in Records(ips, lender)
  BY DEF Records
<1>2. \A r \in Records(ips, lender) : \E a \in ips : r = record(a) /\ prefix(a) # NoPrefix
  BY DEF Records
<1>3. \A a \in ips : lender[a.family] \in IF InUse(ips, a.family) = {} THEN {NoPrefix} ELSE InUse(ips, a.family)
  BY DEF Lenders, Addr
<1>4. \A f : NoPrefix \notin InUse(ips, f)
  BY DEF InUse
<1> HIDE DEF record
<1>5. \A a \in ips : record(a).ip = a.ip /\ record(a).prefix_len = prefix(a)
  BY DEF record
<1>6. \A a \in ips : record(a) = [ip |-> a.ip, prefix_len |-> prefix(a)]
  BY DEF record
<1>7. ASSUME NEW a \in ips
      PROVE  \/ a.prefix # NoPrefix /\ [ip |-> a.ip, prefix_len |-> a.prefix] \in Records(ips, lender)
             \/ a.prefix = NoPrefix /\ \E p \in InUse(ips, a.family) :
                  [ip |-> a.ip, prefix_len |-> p] \in Records(ips, lender)
             \/ a.prefix = NoPrefix /\ InUse(ips, a.family) = {}
  <2>1. CASE a.prefix # NoPrefix
    BY <1>1, <1>6, <2>1
  <2>2. CASE a.prefix = NoPrefix /\ InUse(ips, a.family) # {}
    <3>1. lender[a.family] \in InUse(ips, a.family) /\ lender[a.family] # NoPrefix
      BY <1>3, <1>4, <2>2
    <3>2. [ip |-> a.ip, prefix_len |-> lender[a.family]] \in Records(ips, lender)
      BY <1>1, <1>6, <2>2, <3>1
    <3> QED BY <2>2, <3>1, <3>2
  <2> QED BY <2>1, <2>2
<1>8. ASSUME NEW r \in Records(ips, lender)
      PROVE  \E a \in ips :
               /\ a.ip = r.ip
               /\ r.prefix_len \in IF a.prefix # NoPrefix THEN {a.prefix} ELSE InUse(ips, a.family)
  <2>1. PICK a \in ips : r = record(a) /\ prefix(a) # NoPrefix
    BY <1>2
  <2>2. r.ip = a.ip /\ r.prefix_len = prefix(a)
    BY <1>5, <2>1
  <2>3. a.prefix = NoPrefix => lender[a.family] \in InUse(ips, a.family)
    BY <1>3, <2>1
  <2> QED BY <2>2, <2>3
<1> QED BY <1>7, <1>8 DEF Describe

LEMMA DescribeFacts ==
  ASSUME NEW link, NEW interface, link.addrs \in SUBSET Addr,
         interface.name[1] = link.name, interface.hw_addr = link.hw_addr,
         \E lender \in Lenders(link.addrs) : interface.ips = Records(link.addrs, lender)
  PROVE  IsInterfaceOf(interface, link)
<1>1. PICK lender \in Lenders(link.addrs) : interface.ips = Records(link.addrs, lender)
  OBVIOUS
<1>2. Describe(interface.ips, link.addrs)
  BY <1>1, RecordsDescribe
<1> QED BY <1>2 DEF IsInterfaceOf, Describe

-----------------------------------------------------------------------------
LEMMA InitEstablishes == Init => IInv
<1> SUFFICES ASSUME Init PROVE IInv
  OBVIOUS
<1>1. DOMAIN Nothing = {} /\ IsConfiguration(Nothing)
  BY DEF Nothing, IsConfiguration, IsPartial
<1>2. TypeOK
  <2>1. \A S, T : IsPartial(Nothing, S, T)
    BY DEF IsPartial, Nothing
  <2>2. IsConfiguration(links) /\ changes \in 0..MaxChanges
    BY ListAssumption DEF Init
  <2> QED BY <1>1, <2>1, <2>2 DEF Init, TypeOK
<1>3. AllEntries = {}
  BY <1>1 DEF Init, AllEntries
<1>4. \A n : Of(n) = {}
  BY <1>3 DEF Of
<1> QED BY <1>1, <1>2, <1>3, <1>4 DEF Init, IInv, GatheredOK, ResolvedOK, ListOK

(* The configuration changes, the listing does not.                        *)
LEMMA ReconfigurePreserves ==
  ASSUME IInv, NEW config, IsConfiguration(config), Reconfigure(config)
  PROVE  IInv'
<1> USE DEF Reconfigure, listing, IInv
<1>1. TypeOK'
  BY ListAssumption DEF TypeOK
<1>2. AllEntries' = AllEntries /\ \A n : Of(n)' = Of(n)
  BY DEF AllEntries, Of
<1>3. GatheredOK'
  BY <1>2 DEF GatheredOK
<1>4. ResolvedOK' /\ ListOK'
  BY DEF ResolvedOK, ListOK
<1> QED BY <1>1, <1>3, <1>4

LEMMA UnplugPreserves ==
  ASSUME IInv, NEW i \in Indices, Unplug(i)
  PROVE  IInv'
<1> DEFINE config == Restrict(links, DOMAIN links \ {i})
<1>1. IsConfiguration(links)
  BY DEF IInv, TypeOK
<1>2. IsConfiguration(config)
  BY <1>1 DEF IsConfiguration, IsPartial, Restrict
<1> QED BY <1>2, ReconfigurePreserves DEF Unplug

LEMMA RenamePreserves ==
  ASSUME IInv, NEW i \in Indices, NEW n \in Names, Rename(i, n)
  PROVE  IInv'
<1> DEFINE config == [links EXCEPT ![i] = [links[i] EXCEPT !.name = n]]
<1>1. IsConfiguration(links) /\ i \in DOMAIN links /\ Free(n)
  BY DEF IInv, TypeOK, Rename
<1>2. [links[i] EXCEPT !.name = n] \in Link /\ [links[i] EXCEPT !.name = n].name = n
  BY <1>1 DEF IsConfiguration, IsPartial, Link
<1>3. DOMAIN config = DOMAIN links
  OBVIOUS
<1>4. \A j \in DOMAIN links : config[j] = IF j = i THEN [links[i] EXCEPT !.name = n] ELSE links[j]
  OBVIOUS
<1> HIDE DEF config
<1>5. IsPartial(config, Indices, Link)
  <2>1. config = [j \in DOMAIN links |-> config[j]]
    BY <1>1 DEF config, IsConfiguration, IsPartial
  <2> QED BY <1>1, <1>2, <1>3, <1>4, <2>1 DEF IsConfiguration, IsPartial
<1>6. \A j, k \in DOMAIN config : config[j].name = config[k].name => j = k
  BY <1>1, <1>2, <1>3, <1>4 DEF IsConfiguration, Free
<1>7. IsConfiguration(config)
  BY <1>5, <1>6 DEF IsConfiguration
<1> QED BY <1>7, ReconfigurePreserves DEF Rename, config

LEMMA PlugPreserves ==
  ASSUME IInv, NEW i \in Indices, NEW n \in Names, Plug(i, n)
  PROVE  IInv'
<1> DEFINE new == [name |-> n, up |-> TRUE, hw_addr |-> NoHwAddr, addrs |-> {}]
           config == [j \in DOMAIN links \cup {i} |-> IF j = i THEN new ELSE links[j]]
<1>1. IsConfiguration(links) /\ i \notin DOMAIN links /\ Free(n)
  BY DEF IInv, TypeOK, Plug
<1>2. new \in Link /\ new.name = n
  BY DEF Link
<1> HIDE DEF new
<1>3. IsPartial(config, Indices, Link)
  BY <1>1, <1>2 DEF IsConfiguration, IsPartial
<1>4. \A j, k \in DOMAIN config : config[j].name = config[k].name => j = k
  BY <1>1, <1>2 DEF IsConfiguration, Free
<1>5. IsConfiguration(config)
  BY <1>3, <1>4 DEF IsConfiguration
<1> QED BY <1>5, ReconfigurePreserves DEF Plug, new

LEMMA GetifaddrsPreserves ==
  ASSUME IInv, Getifaddrs
  PROVE  IInv'
<1> USE DEF Getifaddrs, IInv
<1>1. UNCHANGED <<links, changes, candidates, list>> /\ pc = "start"
  OBVIOUS
<1>2. CASE pc' = "gather"
  <2>1. entries' = UNION {EntriesOf(links[i]) : i \in DOMAIN links} /\ taken' = links /\ stale' = FALSE
    BY <1>2
  <2>2. AllEntries' = entries'
    BY <2>1 DEF AllEntries
  <2>3. entries' \in SUBSET Entry
    BY <2>1, EntryFacts, ConfigurationFacts DEF TypeOK
  <2>4. TypeOK'
    BY <1>1, <1>2, <2>1, <2>3 DEF TypeOK
  <2>5. DOMAIN candidates = {}
    <3>1. AllEntries = {}
      BY <1>1 DEF AllEntries, ResolvedOK
    <3>2. \A n : Of(n) = {}
      BY <3>1 DEF Of
    <3> QED BY <3>2 DEF GatheredOK, TypeOK, IsPartial
  <2>6. \A n : Of(n)' = {}
    BY <2>2 DEF Of
  <2>7. GatheredOK'
    BY <1>1, <2>2, <2>5, <2>6 DEF GatheredOK
  <2>8. ResolvedOK' /\ ListOK'
    BY <1>1, <1>2, <2>1, <2>5 DEF ResolvedOK, ListOK
  <2> QED BY <2>4, <2>7, <2>8
<1>3. CASE pc' # "gather"
  <2>1. UNCHANGED <<entries, taken, stale>> /\ pc' = "getifaddrsFailed"
    BY <1>3
  <2>2. TypeOK'
    BY <1>1, <2>1 DEF TypeOK
  <2>3. AllEntries' = AllEntries /\ \A n : Of(n)' = Of(n)
    BY <2>1 DEF AllEntries, Of
  <2>4. GatheredOK'
    BY <1>1, <2>1, <2>3 DEF GatheredOK
  <2>5. ResolvedOK' /\ ListOK'
    BY <2>1 DEF ResolvedOK, ListOK
  <2> QED BY <2>2, <2>4, <2>5
<1> QED BY <1>2, <1>3

(* Two entries under one name do not disagree about the hardware address.  *)
LEMMA HwAddrFacts ==
  ASSUME TypeOK, NEW d \in AllEntries, NEW e \in AllEntries, d.name = e.name,
         d.hw_addr # NoHwAddr, e.hw_addr # NoHwAddr
  PROVE  d.hw_addr = e.hw_addr
<1>1. PICK i \in DOMAIN taken : d \in EntriesOf(taken[i]) /\ taken[i] \in Link
  BY AllEntriesFacts
<1>2. PICK j \in DOMAIN taken : e \in EntriesOf(taken[j]) /\ taken[j] \in Link
  BY AllEntriesFacts
<1>3. taken[i].name = taken[j].name
  BY <1>1, <1>2, EntryFacts
<1>4. i = j
  BY <1>3, ConfigurationFacts DEF TypeOK
<1>5. d.hw_addr = taken[i].hw_addr
  BY <1>1, EntryFacts
<1>6. e.hw_addr = taken[j].hw_addr
  BY <1>2, EntryFacts
<1> QED BY <1>4, <1>5, <1>6

LEMMA GatherPreserves ==
  ASSUME IInv, NEW e \in entries, Gather(e)
  PROVE  IInv'
<1> USE DEF IInv
<1>1. pc = "gather" /\ UNCHANGED <<links, changes, list, taken, stale>>
  BY DEF Gather
<1>2. AllEntries' = AllEntries /\ e \in AllEntries /\ e \in Entry
  BY <1>1, AllEntriesFacts DEF AllEntries, GatheredOK
<1>3. CASE Resolved(e.name) = {}
  <2>1. pc' = "nameGone" /\ UNCHANGED <<entries, candidates>>
    BY <1>3 DEF Gather
  <2>2. TypeOK'
    BY <1>1, <2>1 DEF TypeOK
  <2>3. \A n : Of(n)' = Of(n)
    BY <1>2, <2>1 DEF Of
  <2>4. GatheredOK'
    BY <1>2, <2>1, <2>3 DEF GatheredOK
  <2>5. stale
    <3>1. PICK i \in DOMAIN taken : e \in EntriesOf(taken[i]) /\ taken[i] \in Link
      BY <1>2, AllEntriesFacts
    <3>2. taken[i].name = e.name[1]
      BY <3>1, EntryFacts
    <3>3. links # taken
      BY <1>3, <3>1, <3>2 DEF Resolved
    <3> QED BY <1>1, <3>3 DEF ResolvedOK, TypeOK
  <2>6. ResolvedOK' /\ ListOK'
    BY <1>1, <2>1, <2>5 DEF ResolvedOK, ListOK
  <2> QED BY <2>2, <2>4, <2>6
<1>4. CASE Resolved(e.name) # {}
  <2> DEFINE n == e.name
  <2>1. PICK index \in Resolved(n) :
          /\ candidates' =
               [m \in DOMAIN candidates \cup {n} |->
                  IF m = n
                  THEN [index   |-> Found(n, e, index).index,
                        up      |-> Found(n, e, index).up \/ e.up,
                        hw_addr |-> IF e.hw_addr # NoHwAddr THEN e.hw_addr
                                    ELSE Found(n, e, index).hw_addr,
                        ips     |-> Found(n, e, index).ips \cup e.ips]
                  ELSE candidates[m]]
          /\ entries' = entries \ {e}
          /\ pc' = pc
    BY <1>4 DEF Gather, CandidateOf
  <2> DEFINE found == Found(n, e, index)
             new == [index |-> found.index, up |-> found.up \/ e.up,
                     hw_addr |-> IF e.hw_addr # NoHwAddr THEN e.hw_addr ELSE found.hw_addr,
                     ips |-> found.ips \cup e.ips]
  <2>2. /\ DOMAIN candidates' = DOMAIN candidates \cup {n}
        /\ candidates'[n] = new
        /\ \A m \in DOMAIN candidates : m # n => candidates'[m] = candidates[m]
    BY <2>1
  <2>3. n \in FullName /\ e.up \in BOOLEAN /\ e.hw_addr \in HwAddrs \cup {NoHwAddr} /\ e.ips \in SUBSET Addr
    BY <1>2 DEF Entry
  <2>4. index \in Indices /\ index \in DOMAIN links /\ links[index].name = n[1]
    BY ConfigurationFacts DEF Resolved, TypeOK
  <2>5. found \in CandidateInterface
    BY <2>3, <2>4 DEF Found, CandidateInterface, TypeOK, IsPartial
  <2>6. new \in CandidateInterface
    BY <2>3, <2>5 DEF CandidateInterface
  <2>7. TypeOK'
    <3>1. IsPartial(candidates', FullName, CandidateInterface)
      <4>1. candidates' = [m \in DOMAIN candidates \cup {n} |-> IF m = n THEN new ELSE candidates[m]]
        BY <2>1
      <4> HIDE DEF n, new
      <4> QED BY <2>3, <2>6, <4>1 DEF TypeOK, IsPartial
    <3> QED BY <1>1, <2>1, <3>1 DEF TypeOK
  <2>8. Of(n)' = Of(n) \cup {e}
    BY <1>2, <2>1 DEF Of
  <2>9. \A m : m # n => Of(m)' = Of(m)
    BY <1>2, <2>1 DEF Of
  <2>10. GatheredOK'
    <3>1. entries' \subseteq AllEntries'
      BY <1>2, <2>1 DEF GatheredOK
    <3>2. ASSUME NEW m \in FullName PROVE m \in DOMAIN candidates' <=> Of(m)' # {}
      BY <2>2, <2>8, <2>9 DEF GatheredOK
    <3>3. /\ found.up \/ e.up <=> (\E d \in Of(n) : d.up) \/ e.up
          /\ found.ips = UNION {d.ips : d \in Of(n)}
          /\ \A d \in Of(n) : d.hw_addr # NoHwAddr => found.hw_addr = d.hw_addr
          /\ found.hw_addr # NoHwAddr => \E d \in Of(n) : d.hw_addr = found.hw_addr
      <4>1. CASE n \in DOMAIN candidates
        BY <4>1 DEF Found, GatheredOK
      <4>2. CASE n \notin DOMAIN candidates
        <5>1. Of(n) = {}
          BY <2>3, <4>2 DEF GatheredOK
        <5>2. found.up = e.up /\ found.ips = {} /\ found.hw_addr = NoHwAddr
          BY <4>2 DEF Found
        <5> QED BY <5>1, <5>2
      <4> QED BY <4>1, <4>2
    <3>4. /\ new.up <=> \E d \in Of(n)' : d.up
          /\ new.ips = UNION {d.ips : d \in Of(n)'}
      <4>1. new.up = (found.up \/ e.up) /\ new.ips = found.ips \cup e.ips
        OBVIOUS
      <4> HIDE DEF new, found, n
      <4> QED BY <2>8, <3>3, <4>1
    <3>5. \A d \in Of(n)' : d.hw_addr # NoHwAddr => new.hw_addr = d.hw_addr
      <4>1. \A d \in Of(n) : d \in AllEntries /\ d.name = n
        BY DEF Of
      <4>2. \A d \in Of(n) : d.hw_addr # NoHwAddr /\ e.hw_addr # NoHwAddr => d.hw_addr = e.hw_addr
        BY <1>2, <4>1, HwAddrFacts
      <4>3. new.hw_addr = IF e.hw_addr # NoHwAddr THEN e.hw_addr ELSE found.hw_addr
        OBVIOUS
      <4> HIDE DEF new, found, n
      <4> QED BY <2>8, <3>3, <4>2, <4>3
    <3>6. new.hw_addr # NoHwAddr => \E d \in Of(n)' : d.hw_addr = new.hw_addr
      <4>1. new.hw_addr = IF e.hw_addr # NoHwAddr THEN e.hw_addr ELSE found.hw_addr
        OBVIOUS
      <4> HIDE DEF new, found, n
      <4> QED BY <2>8, <3>3, <4>1
    <3> HIDE DEF new, found
    <3>7. ASSUME NEW m \in DOMAIN candidates'
          PROVE  /\ candidates'[m].up <=> \E d \in Of(m)' : d.up
                 /\ candidates'[m].ips = UNION {d.ips : d \in Of(m)'}
                 /\ \A d \in Of(m)' : d.hw_addr # NoHwAddr => candidates'[m].hw_addr = d.hw_addr
                 /\ candidates'[m].hw_addr # NoHwAddr =>
                      \E d \in Of(m)' : d.hw_addr = candidates'[m].hw_addr
      <4>1. CASE m = n
        BY <2>2, <3>4, <3>5, <3>6, <4>1
      <4>2. CASE m # n
        <5>1. m \in DOMAIN candidates /\ candidates'[m] = candidates[m] /\ Of(m)' = Of(m)
          BY <2>2, <2>9, <4>2
        <5> QED BY <5>1 DEF GatheredOK
      <4> QED BY <4>1, <4>2
    <3> QED BY <3>1, <3>2, <3>7 DEF GatheredOK
  <2>11. ResolvedOK'
    <3>1. ASSUME ~stale
          PROVE  /\ links = taken
                 /\ \A m \in DOMAIN candidates' :
                      candidates'[m].index \in DOMAIN taken /\ taken[candidates'[m].index].name = m[1]
      <4>1. /\ links = taken
            /\ \A m \in DOMAIN candidates :
                 candidates[m].index \in DOMAIN taken /\ taken[candidates[m].index].name = m[1]
        BY <1>1, <3>1 DEF ResolvedOK
      <4>2. new.index = found.index
        OBVIOUS
      <4>3. found.index \in DOMAIN taken /\ taken[found.index].name = n[1]
        BY <2>4, <4>1 DEF Found
      <4> HIDE DEF new, found, n
      <4> QED BY <2>2, <4>1, <4>2, <4>3
    <3> QED BY <1>1, <2>1, <3>1 DEF ResolvedOK
  <2>12. ListOK'
    BY <1>1, <2>1 DEF ListOK
  <2> QED BY <2>7, <2>10, <2>11, <2>12
<1> QED BY <1>3, <1>4

LEMMA CollectPreserves ==
  ASSUME IInv, Collect
  PROVE  IInv'
<1> USE DEF IInv
<1> DEFINE up == {n \in DOMAIN candidates : candidates[n].up}
           indices == {candidates[n].index : n \in up}
<1>1. /\ pc = "gather" /\ entries = {} /\ pc' = "done"
      /\ UNCHANGED <<links, changes, entries, candidates, taken, stale>>
  BY DEF Collect
<1>2. PICK last \in [indices -> up], lender \in [indices -> [Families -> PrefixLens \cup {NoPrefix}]] :
        /\ \A i \in indices :
             candidates[last[i]].index = i /\ lender[i] \in Lenders(candidates[last[i]].ips)
        /\ list' = [i \in indices |->
                      [name    |-> last[i],
                       hw_addr |-> candidates[last[i]].hw_addr,
                       ips     |-> Records(candidates[last[i]].ips, lender[i])]]
  BY DEF Collect
<1>3. \A n \in DOMAIN candidates : n \in FullName /\ candidates[n] \in CandidateInterface
  BY DEF TypeOK, IsPartial
<1>4. indices \in SUBSET Indices
  BY <1>3 DEF CandidateInterface
<1>5. ASSUME NEW i \in indices
      PROVE  /\ last[i] \in DOMAIN candidates
             /\ candidates[last[i]].up
             /\ candidates[last[i]].index = i
             /\ lender[i] \in Lenders(candidates[last[i]].ips)
             /\ list'[i] = [name    |-> last[i],
                            hw_addr |-> candidates[last[i]].hw_addr,
                            ips     |-> Records(candidates[last[i]].ips, lender[i])]
  BY <1>2, <1>5
<1>6. DOMAIN list' = indices /\ list' = [i \in indices |-> list'[i]]
  BY <1>2
<1> HIDE DEF indices
<1>7. ASSUME NEW i \in indices PROVE list'[i] \in Interface
  <2>1. /\ last[i] \in FullName
        /\ candidates[last[i]].hw_addr \in HwAddrs \cup {NoHwAddr}
        /\ candidates[last[i]].ips \in SUBSET Addr
    BY <1>3, <1>5 DEF CandidateInterface
  <2>2. Records(candidates[last[i]].ips, lender[i]) \in SUBSET IpRecord
    BY <1>2, <2>1, RecordFacts
  <2>3. \A n \in FullName, h \in HwAddrs \cup {NoHwAddr}, records \in SUBSET IpRecord :
          [name |-> n, hw_addr |-> h, ips |-> records] \in Interface
    BY DEF Interface
  <2>4. [name    |-> last[i],
         hw_addr |-> candidates[last[i]].hw_addr,
         ips     |-> Records(candidates[last[i]].ips, lender[i])] \in Interface
    BY <2>1, <2>2, <2>3, Zenon
  <2> QED BY <1>5, <2>4, Zenon
<1>8. IsPartial(list', Indices, Interface)
  BY <1>4, <1>6, <1>7 DEF IsPartial
<1>9. TypeOK'
  BY <1>1, <1>8 DEF TypeOK
<1>10. AllEntries' = AllEntries /\ \A n : Of(n)' = Of(n)
  BY <1>1 DEF AllEntries, Of
<1>11. GatheredOK' /\ ResolvedOK'
  BY <1>1, <1>10 DEF GatheredOK, ResolvedOK
<1>12. ASSUME NEW i \in indices
       PROVE  \E n \in DOMAIN candidates :
                /\ candidates[n].up
                /\ candidates[n].index = i
                /\ list'[i].name = n
                /\ list'[i].hw_addr = candidates[n].hw_addr
                /\ \E l \in Lenders(candidates[n].ips) : list'[i].ips = Records(candidates[n].ips, l)
  <2>1. list'[i] = [name    |-> last[i],
                    hw_addr |-> candidates[last[i]].hw_addr,
                    ips     |-> Records(candidates[last[i]].ips, lender[i])]
    BY <1>5
  <2>2. /\ list'[i].name = last[i]
        /\ list'[i].hw_addr = candidates[last[i]].hw_addr
        /\ list'[i].ips = Records(candidates[last[i]].ips, lender[i])
    BY <2>1
  <2>3. \E l \in Lenders(candidates[last[i]].ips) : list'[i].ips = Records(candidates[last[i]].ips, l)
    BY <1>5, <2>2
  <2> QED BY <1>5, <2>2, <2>3
<1>13. \A n \in DOMAIN candidates : candidates[n].up => candidates[n].index \in indices
  BY DEF indices
<1>14. ListOK'
  <2>1. \A ips, l : Records(ips, l)' = Records(ips, l)
    OBVIOUS
  <2> QED BY <1>1, <1>6, <1>12, <1>13 DEF ListOK
<1> QED BY <1>9, <1>11, <1>14

LEMMA StepPreserves == IInv /\ [Next]_vars => IInv'
<1> SUFFICES ASSUME IInv, [Next]_vars PROVE IInv'
  OBVIOUS
<1>1. CASE UNCHANGED vars
  <2>1. AllEntries' = AllEntries /\ \A n : Of(n)' = Of(n)
    BY <1>1 DEF vars, listing, AllEntries, Of
  <2> QED BY <1>1, <2>1 DEF vars, listing, IInv, TypeOK, GatheredOK, ResolvedOK, ListOK
<1> QED
  BY <1>1, UnplugPreserves, RenamePreserves, PlugPreserves, GetifaddrsPreserves, GatherPreserves,
     CollectPreserves DEF Next

LEMMA Invariance == Spec => []IInv
  BY InitEstablishes, StepPreserves, PTL DEF Spec

-----------------------------------------------------------------------------
(* Every reachable state is well typed.                                    *)
THEOREM TypeCorrect == Spec => []TypeOK
<1>1. IInv => TypeOK
  BY DEF IInv
<1> QED BY <1>1, Invariance, PTL


(* Once all entries are gathered, a candidate is what one link has under   *)
(* the candidate's name.                                                   *)
LEMMA CandidateIsPart ==
  ASSUME IInv, entries = {}, NEW n \in DOMAIN candidates
  PROVE  \E j \in DOMAIN taken :
           /\ taken[j].name = n[1]
           /\ \E e \in EntriesOf(taken[j]) : e.name = n
           /\ candidates[n].up = taken[j].up
           /\ candidates[n].ips = Part(taken[j], n[2]).addrs
           /\ candidates[n].hw_addr = Part(taken[j], n[2]).hw_addr
<1> USE DEF IInv
<1>1. n \in FullName /\ candidates[n] \in CandidateInterface
  BY DEF TypeOK, IsPartial
<1>2. PICK e \in AllEntries : e.name = n
  BY <1>1 DEF GatheredOK, Of
<1>3. PICK j \in DOMAIN taken : e \in EntriesOf(taken[j]) /\ taken[j] \in Link
  BY <1>2, AllEntriesFacts
<1>4. taken[j].name = n[1]
  BY <1>2, <1>3, EntryFacts
<1>5. ASSUME NEW d \in Of(n) PROVE d \in EntriesOf(taken[j]) /\ d.name = n
  <2>1. d \in AllEntries /\ d.name = n
    BY DEF Of
  <2>2. PICK k \in DOMAIN taken : d \in EntriesOf(taken[k]) /\ taken[k] \in Link
    BY <2>1, AllEntriesFacts
  <2>3. taken[k].name = n[1]
    BY <2>1, <2>2, EntryFacts
  <2>4. k = j
    BY <1>4, <2>3, ConfigurationFacts DEF TypeOK
  <2> QED BY <2>1, <2>2, <2>4
<1>6. ASSUME NEW d \in EntriesOf(taken[j]), d.name = n PROVE d \in Of(n)
  BY <1>6 DEF Of, AllEntries
<1>7. n = <<taken[j].name, n[2]>> /\ n[2] \in Labels
  BY <1>1, <1>4 DEF FullName
<1>8. candidates[n].up = taken[j].up
  <2>1. \A d \in Of(n) : d.up = taken[j].up
    BY <1>3, <1>5, EntryFacts
  <2>2. e \in Of(n)
    BY <1>2, <1>3, <1>6
  <2>3. candidates[n].up <=> \E d \in Of(n) : d.up
    BY DEF GatheredOK
  <2>4. candidates[n].up \in BOOLEAN /\ taken[j].up \in BOOLEAN
    BY <1>1, <1>3 DEF CandidateInterface, Link
  <2> QED BY <2>1, <2>2, <2>3, <2>4
<1>9. candidates[n].ips = {a \in taken[j].addrs : a.label = n[2]}
  <2>1. candidates[n].ips = UNION {d.ips : d \in Of(n)}
    BY DEF GatheredOK
  <2>2. \A d \in Of(n) : d.ips \subseteq {a \in taken[j].addrs : a.label = n[2]}
    BY <1>3, <1>5, EntryFacts
  <2>3. ASSUME NEW a \in taken[j].addrs, a.label = n[2]
        PROVE  \E d \in Of(n) : a \in d.ips
    <3> DEFINE d == [name |-> <<taken[j].name, a.label>>, up |-> taken[j].up, hw_addr |-> NoHwAddr, ips |-> {a}]
    <3>1. d \in EntriesOf(taken[j])
      BY DEF EntriesOf
    <3>2. d.name = n /\ a \in d.ips
      BY <1>7, <2>3
    <3> HIDE DEF d
    <3> QED BY <1>6, <3>1, <3>2
  <2> QED BY <2>1, <2>2, <2>3
<1>10. candidates[n].hw_addr = IF n[2] = NoLabel THEN taken[j].hw_addr ELSE NoHwAddr
  <2>1. /\ \A d \in Of(n) : d.hw_addr # NoHwAddr => candidates[n].hw_addr = d.hw_addr
        /\ candidates[n].hw_addr # NoHwAddr => \E d \in Of(n) : d.hw_addr = candidates[n].hw_addr
    BY DEF GatheredOK
  <2>2. \A d \in Of(n) : d.hw_addr # NoHwAddr => d.hw_addr = taken[j].hw_addr /\ n[2] = NoLabel
    BY <1>3, <1>5, EntryFacts
  <2>3. CASE n[2] = NoLabel
    <3> DEFINE d == [name |-> <<taken[j].name, NoLabel>>, up |-> taken[j].up, hw_addr |-> taken[j].hw_addr, ips |-> {}]
    <3>1. d \in EntriesOf(taken[j])
      BY DEF EntriesOf
    <3>2. d.name = n /\ d.hw_addr = taken[j].hw_addr
      BY <1>7, <2>3
    <3> HIDE DEF d
    <3>3. d \in Of(n)
      BY <1>6, <3>1, <3>2
    <3> QED BY <2>1, <2>2, <2>3, <3>2, <3>3
  <2> QED BY <2>1, <2>2, <2>3
<1>11. /\ Part(taken[j], n[2]).addrs = {a \in taken[j].addrs : a.label = n[2]}
       /\ Part(taken[j], n[2]).hw_addr = IF n[2] = NoLabel THEN taken[j].hw_addr ELSE NoHwAddr
  BY <1>3 DEF Part, Link
<1> QED BY <1>2, <1>3, <1>4, <1>8, <1>9, <1>10, <1>11

LEMMA PartFacts ==
  ASSUME NEW link \in Link, NEW label
  PROVE  Part(link, label).name = link.name /\ Part(link, label).addrs \in SUBSET Addr
  BY DEF Part, Link

(* What is listed under an index is a part of a link that was up.          *)
LEMMA ListedIsPart ==
  ASSUME IInv, pc = "done", NEW i \in DOMAIN list
  PROVE  \E n \in DOMAIN candidates, j \in DOMAIN taken :
           /\ candidates[n].index = i
           /\ list[i].name = n
           /\ taken[j].name = n[1]
           /\ \E e \in EntriesOf(taken[j]) : e.name = n
           /\ taken[j].up
           /\ IsInterfaceOf(list[i], Part(taken[j], n[2]))
<1> USE DEF IInv
<1>1. PICK n \in DOMAIN candidates :
        /\ candidates[n].up
        /\ candidates[n].index = i
        /\ list[i].name = n
        /\ list[i].hw_addr = candidates[n].hw_addr
        /\ \E lender \in Lenders(candidates[n].ips) :
             list[i].ips = Records(candidates[n].ips, lender)
  BY DEF ListOK
<1>2. entries = {}
  BY DEF ListOK
<1>3. PICK j \in DOMAIN taken :
        /\ taken[j].name = n[1]
        /\ \E e \in EntriesOf(taken[j]) : e.name = n
        /\ candidates[n].up = taken[j].up
        /\ candidates[n].ips = Part(taken[j], n[2]).addrs
        /\ candidates[n].hw_addr = Part(taken[j], n[2]).hw_addr
  BY <1>2, CandidateIsPart
<1>4. taken[j] \in Link
  BY ConfigurationFacts DEF TypeOK
<1>5. IsInterfaceOf(list[i], Part(taken[j], n[2]))
  BY <1>1, <1>3, <1>4, PartFacts, DescribeFacts
<1> QED BY <1>1, <1>3, <1>5

(* A listing torn by any number of changes never mixes two interfaces.     *)
THEOREM ListedInterfacesAreWhole == Spec => []InterfacesAreWhole
<1>1. IInv => InterfacesAreWhole
  BY ListedIsPart DEF InterfacesAreWhole
<1> QED BY <1>1, Invariance, PTL

(* A listing without a change is the configuration, labels excepted.       *)
THEOREM UndisturbedListingIsExact == Spec => []ListingIsExact
<1>1. ASSUME IInv, ~stale, pc = "done", \A i \in DOMAIN taken : \A a \in taken[i].addrs : a.label = NoLabel
      PROVE  /\ DOMAIN list = {i \in DOMAIN taken : taken[i].up}
             /\ \A i \in DOMAIN list : IsInterfaceOf(list[i], taken[i])
  <2> USE <1>1 DEF IInv
  <2>1. \A n \in DOMAIN candidates :
          candidates[n].index \in DOMAIN taken /\ taken[candidates[n].index].name = n[1]
    BY DEF ResolvedOK
  <2>2. ASSUME NEW i \in DOMAIN list
        PROVE  i \in DOMAIN taken /\ taken[i].up /\ IsInterfaceOf(list[i], taken[i])
    <3>1. PICK n \in DOMAIN candidates, j \in DOMAIN taken :
             /\ candidates[n].index = i
             /\ list[i].name = n
             /\ taken[j].name = n[1]
             /\ \E e \in EntriesOf(taken[j]) : e.name = n
             /\ taken[j].up
             /\ IsInterfaceOf(list[i], Part(taken[j], n[2]))
      BY ListedIsPart
    <3>2. i = j
      BY <2>1, <3>1, ConfigurationFacts DEF TypeOK
    <3>3. taken[j] \in Link
      BY ConfigurationFacts DEF TypeOK
    <3>4. n[2] = NoLabel
      BY <3>1 DEF EntriesOf
    <3>5. Part(taken[j], NoLabel) = taken[j]
      <4>1. {a \in taken[j].addrs : a.label = NoLabel} = taken[j].addrs
        BY <1>1
      <4> QED BY <3>3, <4>1 DEF Part, Link
    <3> QED BY <3>1, <3>2, <3>4, <3>5
  <2>3. ASSUME NEW i \in DOMAIN taken, taken[i].up
        PROVE  i \in DOMAIN list
    <3> DEFINE n == <<taken[i].name, NoLabel>>
               e == [name |-> n, up |-> taken[i].up, hw_addr |-> taken[i].hw_addr, ips |-> {}]
    <3>1. taken[i] \in Link
      BY ConfigurationFacts DEF TypeOK
    <3>2. e \in AllEntries /\ e.name = n
      <4>1. e \in EntriesOf(taken[i]) /\ e.name = n
        BY DEF EntriesOf
      <4> HIDE DEF e, n
      <4> QED BY <4>1 DEF AllEntries
    <3>3. n \in FullName /\ n[1] = taken[i].name
      BY <3>1, ListAssumption DEF FullName, Link
    <3> HIDE DEF e, n
    <3>4. e \in Of(n)
      BY <3>2 DEF Of, ListOK
    <3>5. n \in DOMAIN candidates
      BY <3>3, <3>4 DEF GatheredOK
    <3>6. candidates[n].index = i
      BY <2>1, <3>3, <3>5, ConfigurationFacts DEF TypeOK
    <3>7. candidates[n].up
      <4>1. e.up
        BY <2>3 DEF e
      <4> QED BY <3>4, <3>5, <4>1 DEF GatheredOK
    <3> QED BY <3>5, <3>6, <3>7 DEF ListOK
  <2> QED BY <2>2, <2>3
<1>2. IInv => ListingIsExact
  BY <1>1 DEF ListingIsExact, IInv, ResolvedOK, TypeOK
<1> QED BY <1>2, Invariance, PTL

=============================================================================
