-------------------------- MODULE DiffReplayProofs --------------------------
(***************************************************************************)
(* What a diff says is exact, a subscriber who applies the diffs stays in  *)
(* step, and the order in which a platform lists addresses is of no        *)
(* consequence, for every set of interfaces, names and addresses.          *)
(***************************************************************************)
EXTENDS DiffReplay, SequenceTheorems, WellFoundedInduction, TLAPS

(* All the proofs need of a snapshot: which indices it can have and which  *)
(* fields an interface has.                                                *)
IsList(list) ==
  /\ DOMAIN list \subseteq Indices
  /\ list = [i \in DOMAIN list |-> list[i]]
  /\ \A i \in DOMAIN list :
       list[i] = [name |-> list[i].name, hw_addr |-> list[i].hw_addr, ips |-> list[i].ips]

LEMMA NoInterfacesIsList == IsList(NoInterfaces) /\ DOMAIN NoInterfaces = {}
  BY DEF IsList, NoInterfaces

(* Every snapshot of the type List is one.                                 *)
LEMMA ListIsList == ASSUME NEW list \in List PROVE IsList(list)
<1>1. PICK present \in SUBSET Indices : list \in [present -> Interface]
  BY DEF List
<1> QED BY <1>1 DEF IsList, Interface

(* What a normalised listing stands for is a snapshot, whatever order and  *)
(* duplicates the platform returned.                                       *)
LEMMA ListingIsList ==
  ASSUME NEW raw \in RawLists
  PROVE  IsList(ListOf(Normalised(raw)))
<1>1. PICK present \in SUBSET Indices : raw \in [present -> RawInterface]
  BY DEF RawLists
<1>2. DOMAIN raw = present
  BY <1>1
<1>3. DOMAIN Normalised(raw) = present /\ DOMAIN ListOf(Normalised(raw)) = present
  BY <1>2 DEF Normalised, ListOf
<1>4. ASSUME NEW i \in present
      PROVE  LET x == ListOf(Normalised(raw))[i]
             IN  x = [name |-> x.name, hw_addr |-> x.hw_addr, ips |-> x.ips]
  <2>1. raw[i] \in RawInterface
    BY <1>1
  <2>2. ListOf(Normalised(raw))[i]
          = [[raw[i] EXCEPT !.ips = Normalise(@)] EXCEPT !.ips = ToSet(@)]
    BY <1>2, <1>3, <1>4 DEF ListOf, Normalised
  <2> QED BY <2>1, <2>2 DEF RawInterface
<1> QED BY <1>3, <1>4 DEF IsList, ListOf

-----------------------------------------------------------------------------
LEMMA DiffDomains ==
  ASSUME NEW list, NEW prev
  PROVE  /\ DOMAIN DiffFrom(list, prev).added = DOMAIN list \ DOMAIN prev
         /\ DOMAIN DiffFrom(list, prev).removed = DOMAIN prev \ DOMAIN list
         /\ DOMAIN DiffFrom(list, prev).modified = Modified(list, prev)
         /\ \A i \in DOMAIN list \ DOMAIN prev : DiffFrom(list, prev).added[i] = list[i]
         /\ \A i \in DOMAIN prev \ DOMAIN list : DiffFrom(list, prev).removed[i] = prev[i]
         /\ \A i \in Modified(list, prev) :
              DiffFrom(list, prev).modified[i] = InterfaceDiffOf(prev[i], list[i])
  BY DEF DiffFrom, Restrict

(* Update::addrs_added yields the addresses the new snapshot has and the   *)
(* old one had not, addrs_removed those only the old one had.              *)
THEOREM IteratorsAreExact ==
  ASSUME NEW list, NEW prev, IsList(list), IsList(prev)
  PROVE  /\ AddrsAdded(DiffFrom(list, prev)) = AddrsOf(list) \ AddrsOf(prev)
         /\ AddrsRemoved(DiffFrom(list, prev)) = AddrsOf(prev) \ AddrsOf(list)
<1> DEFINE diff == DiffFrom(list, prev)
<1> HIDE DEF diff
<1>1. /\ DOMAIN diff.added = DOMAIN list \ DOMAIN prev
      /\ DOMAIN diff.removed = DOMAIN prev \ DOMAIN list
      /\ DOMAIN diff.modified = Modified(list, prev)
      /\ \A i \in DOMAIN list \ DOMAIN prev : diff.added[i] = list[i]
      /\ \A i \in DOMAIN prev \ DOMAIN list : diff.removed[i] = prev[i]
      /\ \A i \in Modified(list, prev) : diff.modified[i] = InterfaceDiffOf(prev[i], list[i])
  BY DiffDomains DEF diff
<1>2. \A i \in Modified(list, prev) :
        /\ diff.modified[i].addrs_added = list[i].ips \ prev[i].ips
        /\ diff.modified[i].addrs_removed = prev[i].ips \ list[i].ips
  <2> TAKE i \in Modified(list, prev)
  <2>1. diff.modified[i] = InterfaceDiffOf(prev[i], list[i])
    BY <1>1
  <2>2. /\ InterfaceDiffOf(prev[i], list[i]).addrs_added = list[i].ips \ prev[i].ips
        /\ InterfaceDiffOf(prev[i], list[i]).addrs_removed = prev[i].ips \ list[i].ips
    BY DEF InterfaceDiffOf
  <2> QED BY <2>1, <2>2
<1>3. ASSUME NEW ia \in Indices \X Addrs
      PROVE  /\ ia \in AddrsAdded(diff) <=> ia \in AddrsOf(list) /\ ia \notin AddrsOf(prev)
             /\ ia \in AddrsRemoved(diff) <=> ia \in AddrsOf(prev) /\ ia \notin AddrsOf(list)
  <2>1. CASE ia[1] \in DOMAIN list \cap DOMAIN prev
    <3>1. CASE list[ia[1]] = prev[ia[1]]
      BY <1>1, <2>1, <3>1 DEF AddrsAdded, AddrsRemoved, AddrsOf, Modified
    <3>2. CASE list[ia[1]] # prev[ia[1]]
      BY <1>1, <1>2, <2>1, <3>2 DEF AddrsAdded, AddrsRemoved, AddrsOf, Modified
    <3> QED BY <3>1, <3>2
  <2>2. CASE ia[1] \notin DOMAIN list \cap DOMAIN prev
    BY <1>1, <2>2 DEF AddrsAdded, AddrsRemoved, AddrsOf, Modified
  <2> QED BY <2>1, <2>2
<1>4. AddrsAdded(diff) = AddrsOf(list) \ AddrsOf(prev)
  BY <1>3 DEF AddrsAdded, AddrsOf
<1>5. AddrsRemoved(diff) = AddrsOf(prev) \ AddrsOf(list)
  BY <1>3 DEF AddrsRemoved, AddrsOf
<1> QED BY <1>4, <1>5 DEF diff

(* A diff is empty only between equal snapshots: an Update that is not     *)
(* initial always says what changed.                                       *)
THEOREM EmptyDiffMeansEqual ==
  ASSUME NEW list, NEW prev, IsList(list), IsList(prev)
  PROVE  NothingChanged(DiffFrom(list, prev)) <=> list = prev
<1>1. NothingChanged(DiffFrom(list, prev))
        <=> DOMAIN list = DOMAIN prev /\ Modified(list, prev) = {}
  <2> DEFINE diff == DiffFrom(list, prev)
  <2>1. /\ DOMAIN diff.added = DOMAIN list \ DOMAIN prev
        /\ DOMAIN diff.removed = DOMAIN prev \ DOMAIN list
        /\ DOMAIN diff.modified = Modified(list, prev)
    BY DiffDomains
  <2>2. (DOMAIN list \ DOMAIN prev = {} /\ DOMAIN prev \ DOMAIN list = {})
          <=> DOMAIN list = DOMAIN prev
    OBVIOUS
  <2> HIDE DEF diff
  <2>3. NothingChanged(diff) <=> DOMAIN list = DOMAIN prev /\ Modified(list, prev) = {}
    BY <2>1, <2>2 DEF NothingChanged
  <2> QED BY <2>3 DEF diff
<1>2. ASSUME DOMAIN list = DOMAIN prev, Modified(list, prev) = {}
      PROVE  list = prev
  <2>1. \A i \in DOMAIN list : list[i] = prev[i]
    BY <1>2 DEF Modified
  <2> QED BY <1>2, <2>1 DEF IsList
<1>3. ASSUME list = prev
      PROVE  Modified(list, prev) = {}
  BY <1>3 DEF Modified
<1> QED BY <1>1, <1>2, <1>3

(* Applying the diff to the old snapshot yields the new one.               *)
THEOREM ReplayIsExact ==
  ASSUME NEW list, NEW prev, IsList(list), IsList(prev)
  PROVE  Replayed(prev, DiffFrom(list, prev), list) = list
<1> DEFINE diff == DiffFrom(list, prev)
           again == Replayed(prev, diff, list)
<1>1. /\ DOMAIN diff.added = DOMAIN list \ DOMAIN prev
      /\ DOMAIN diff.removed = DOMAIN prev \ DOMAIN list
      /\ DOMAIN diff.modified = Modified(list, prev)
      /\ \A i \in DOMAIN list \ DOMAIN prev : diff.added[i] = list[i]
      /\ \A i \in Modified(list, prev) : diff.modified[i] = InterfaceDiffOf(prev[i], list[i])
  BY DiffDomains
<1> HIDE DEF diff
<1>2. DOMAIN again = DOMAIN list
  BY <1>1 DEF Replayed
<1>3. ASSUME NEW i \in DOMAIN list
      PROVE  again[i] = list[i]
  <2>0. again[i] = IF i \in DOMAIN diff.added THEN diff.added[i]
                   ELSE IF i \in DOMAIN diff.modified THEN Patched(prev[i], diff.modified[i], list[i])
                   ELSE prev[i]
    BY <1>2, <1>3 DEF Replayed
  <2>1. CASE i \notin DOMAIN prev
    BY <1>1, <2>0, <2>1
  <2>2. CASE i \in DOMAIN prev /\ list[i] = prev[i]
    BY <1>1, <2>0, <2>2 DEF Modified
  <2>3. CASE i \in DOMAIN prev /\ list[i] # prev[i]
    <3>1. again[i] = Patched(prev[i], InterfaceDiffOf(prev[i], list[i]), list[i])
      BY <1>1, <2>0, <2>3 DEF Modified
    <3>2. (prev[i].ips \ (prev[i].ips \ list[i].ips)) \cup (list[i].ips \ prev[i].ips) = list[i].ips
      OBVIOUS
    <3>3. again[i] = [name |-> list[i].name, hw_addr |-> list[i].hw_addr, ips |-> list[i].ips]
      BY <3>1, <3>2 DEF Patched, InterfaceDiffOf
    <3> QED BY <3>3 DEF IsList
  <2> QED BY <2>1, <2>2, <2>3
<1>4. again = [i \in DOMAIN again |-> again[i]]
  BY DEF Replayed
<1>5. list = [i \in DOMAIN list |-> list[i]]
  BY DEF IsList
<1>6. again = list
  BY <1>2, <1>3, <1>4, <1>5
<1> QED BY <1>6 DEF diff

-----------------------------------------------------------------------------
(* What holds throughout: the record is the last snapshot, and before the  *)
(* first Update the last snapshot is the empty list it is compared with.   *)
IInv ==
  /\ RecordIsCurrent
  /\ IsList(cursor.prev_list)
  /\ cursor.initial_pending => cursor.prev_list = NoInterfaces
  /\ cursor = [prev_list |-> cursor.prev_list, initial_pending |-> cursor.initial_pending]

LEMMA InitEstablishes == Init => IInv
<1> SUFFICES ASSUME Init PROVE IInv
  OBVIOUS
<1>1. cursor = [prev_list |-> NoInterfaces, initial_pending |-> TRUE]
  BY DEF Init, Cursors!DefaultCursor
<1>2. AddrsOf(NoInterfaces) = {}
  BY NoInterfacesIsList DEF AddrsOf
<1> QED BY <1>1, <1>2, NoInterfacesIsList DEF Init, IInv, RecordIsCurrent

LEMMA StepPreserves == IInv /\ [Next]_vars => IInv'
<1> SUFFICES ASSUME IInv, [Next]_vars PROVE IInv'
  OBVIOUS
<1>1. ASSUME NEW raw \in RawLists, Observe(raw)
      PROVE  IInv'
  <2> DEFINE list == ListOf(Normalised(raw))
             base == Cursors!UpdateOf(cursor, list).base
             diff == DiffFrom(list, base)
  <2>1. IsList(list)
    BY <1>1, ListingIsList
  <2>2. base = cursor.prev_list /\ IsList(base)
    BY DEF IInv, Cursors!UpdateOf
  <2>3. CASE Cursors!Emits(cursor, list)
    <3>1. /\ cursor' = [prev_list |-> list, initial_pending |-> FALSE]
          /\ known' = Replayed(known, diff, list)
          /\ addrs' = (addrs \ AddrsRemoved(diff)) \cup AddrsAdded(diff)
      BY <1>1, <2>3 DEF Observe, Cursors!Advanced
    <3> HIDE DEF list, base
    <3>2. known' = list
      BY <2>1, <2>2, <3>1, ReplayIsExact DEF IInv, RecordIsCurrent
    <3>3. addrs' = AddrsOf(list)
      <4>1. /\ AddrsAdded(diff) = AddrsOf(list) \ AddrsOf(base)
            /\ AddrsRemoved(diff) = AddrsOf(base) \ AddrsOf(list)
        BY <2>1, <2>2, IteratorsAreExact
      <4>2. addrs = AddrsOf(base)
        BY <2>2 DEF IInv, RecordIsCurrent
      <4> QED BY <3>1, <4>1, <4>2
    <3>4. cursor'.prev_list = list /\ cursor'.initial_pending = FALSE
      BY <3>1
    <3> QED BY <2>1, <3>1, <3>2, <3>3, <3>4 DEF IInv, RecordIsCurrent
  <2>4. CASE ~Cursors!Emits(cursor, list)
    <3>1. UNCHANGED <<cursor, known, addrs>>
      BY <1>1, <2>4 DEF Observe
    <3> QED BY <3>1 DEF IInv, RecordIsCurrent
  <2> QED BY <2>3, <2>4
<1>2. CASE UNCHANGED vars
  BY <1>2 DEF vars, IInv, RecordIsCurrent
<1> QED BY <1>1, <1>2 DEF Next

(* The subscriber never drifts, whatever the platform lists.               *)
THEOREM SubscriberIsCurrent == Spec => []RecordIsCurrent
<1>1. IInv => RecordIsCurrent
  BY DEF IInv
<1> QED BY <1>1, InitEstablishes, StepPreserves, PTL DEF Spec

(* No diff reports anything twice or nothing at all.                       *)
THEOREM DiffsAreExact == Spec => DiffIsExact
<1> DEFINE Exact == LET diff == DiffFrom(cursor'.prev_list, cursor.prev_list)
                    IN  /\ AddrsAdded(diff) \cap addrs = {}
                        /\ AddrsRemoved(diff) \subseteq addrs
                        /\ NothingChanged(diff) <=> cursor'.prev_list = cursor.prev_list
<1>1. IInv /\ IInv' => Exact
  <2> SUFFICES ASSUME IInv, IInv' PROVE Exact
    OBVIOUS
  <2>1. /\ IsList(cursor'.prev_list)
        /\ IsList(cursor.prev_list)
        /\ addrs = AddrsOf(cursor.prev_list)
    BY DEF IInv, RecordIsCurrent
  <2> QED BY <2>1, IteratorsAreExact, EmptyDiffMeansEqual
<1>2. IInv /\ [Next]_vars => [Exact]_cursor
  BY <1>1, StepPreserves
<1> QED BY <1>2, InitEstablishes, StepPreserves, PTL DEF Spec, DiffIsExact

-----------------------------------------------------------------------------
(* Interface::normalise (lib.rs): sorting and removing neighbouring        *)
(* duplicates leaves one vector for every set of addresses.                *)

(* Every non-empty set of natural numbers has a least element: what the    *)
(* inductions below are made of.                                           *)
LEMMA LeastNatural ==
  ASSUME NEW S \in SUBSET Nat, S # {}
  PROVE  \E n \in S : \A m \in S : n <= m
<1>1. PICK n \in S : \A m \in S : <<m, n>> \notin OpToRel(<, Nat)
  BY NatLessThanWellFounded, WFMin, Zenon
<1>2. \A m \in S : ~(m < n)
  BY <1>1 DEF OpToRel
<1> QED BY <1>2

(* A vector that is not empty has a greatest member.                       *)
LEMMA GreatestMember ==
  ASSUME NEW n \in Nat \ {0}, NEW s \in [1..n -> Int]
  PROVE  \E m \in 1..n : \A k \in 1..n : s[k] <= s[m]
<1> DEFINE Upto(l) == \E m \in 1..l : \A k \in 1..l : s[k] <= s[m]
           Bad == {l \in 1..n : ~Upto(l)}
<1>1. n \in 1..n
  OBVIOUS
<1>2. SUFFICES ASSUME Bad # {} PROVE FALSE
  <2>1. Upto(n) => \E m \in 1..n : \A k \in 1..n : s[k] <= s[m]
    OBVIOUS
  <2> HIDE DEF Upto
  <2>2. Bad = {} => Upto(n)
    BY <1>1
  <2> QED BY <2>1, <2>2
<1>3. PICK l \in Bad : \A k \in Bad : l <= k
  <2>1. Bad \in SUBSET Nat
    OBVIOUS
  <2> HIDE DEF Bad
  <2> QED BY <1>2, <2>1, LeastNatural
<1>4. CASE l = 1
  <2>1. 1 \in 1..1 /\ s[1] \in Int /\ \A k \in 1..1 : k = 1
    BY <1>3, <1>4
  <2>2. Upto(1)
    BY <2>1
  <2> QED BY <1>3, <1>4, <2>2
<1>5. CASE l # 1
  <2>1. l - 1 \in 1..n /\ ~(l <= l - 1) /\ 1..l = 1..(l - 1) \cup {l}
    BY <1>3, <1>5
  <2>2. Upto(l - 1)
    BY <1>3, <2>1
  <2>3. PICK m \in 1..(l - 1) : \A k \in 1..(l - 1) : s[k] <= s[m]
    BY <2>2
  <2>4. s[l] \in Int /\ s[m] \in Int /\ \A k \in 1..l : s[k] \in Int
    BY <1>3, <2>1, <2>3
  <2>5. CASE s[l] <= s[m]
    BY <1>3, <2>1, <2>3, <2>5
  <2>6. CASE s[m] < s[l]
    <3>1. \A k \in 1..l : s[k] <= s[l]
      BY <2>1, <2>3, <2>4, <2>6
    <3> QED BY <1>3, <3>1
  <2> QED BY <2>4, <2>5, <2>6
<1> QED BY <1>3, <1>4, <1>5

(* The permutation p puts the vector s in order.                         *)
Sorts(p, s) == \A i, j \in DOMAIN s : i < j => s[p[i]] <= s[p[j]]

(* A bijection of a set onto itself, without the library's definitions.    *)
LEMMA BijectionFacts ==
  ASSUME NEW S, NEW p \in [S -> S]
  PROVE  p \in Bijection(S, S)
           <=> /\ \A a, b \in S : p[a] = p[b] => a = b
               /\ \A t \in S : \E a \in S : p[a] = t
  BY DEF Bijection, Injection, Surjection, IsInjective

(* Every vector can be put in order: the permutation slice::sort finds     *)
(* exists.                                                                 *)
LEMMA SortingExists ==
  ASSUME NEW n \in Nat, NEW s \in [1..n -> Int]
  PROVE  \E p \in Bijection(1..n, 1..n) : Sorts(p, s)
<1> DEFINE Sortable(l) == \A t \in [1..l -> Int] : \E p \in Bijection(1..l, 1..l) : Sorts(p, t)
           Bad == {l \in Nat : ~Sortable(l)}
<1>1. SUFFICES ASSUME Bad # {} PROVE FALSE
  BY <1>1
<1>2. PICK l \in Bad : \A k \in Bad : l <= k
  BY <1>1, LeastNatural
<1>3. PICK t \in [1..l -> Int] : \A p \in Bijection(1..l, 1..l) : ~Sorts(p, t)
  BY <1>2
<1>4. CASE l = 0
  <2>1. 1..l = {}
    BY <1>4
  <2>2. t \in [{} -> {}]
    BY <2>1
  <2>3. t \in Bijection(1..l, 1..l)
    BY <2>1, <2>2, BijectionFacts
  <2> QED BY <1>3, <2>1, <2>3 DEF Sorts
<1>5. CASE l # 0
  <2>1. l \in Nat \ {0} /\ l - 1 \in Nat /\ 1..l = 1..(l - 1) \cup {l} /\ l \notin 1..(l - 1)
    BY <1>2, <1>5
  <2>2. PICK m \in 1..l : \A k \in 1..l : t[k] <= t[m]
    BY <2>1, GreatestMember
  <2> DEFINE rest == [i \in 1..(l - 1) |-> IF i = m THEN t[l] ELSE t[i]]
  <2>3. rest \in [1..(l - 1) -> Int]
    BY <2>1
  <2>4. Sortable(l - 1)
    BY <1>2, <2>1
  <2>5. PICK q \in Bijection(1..(l - 1), 1..(l - 1)) : Sorts(q, rest)
    BY <2>3, <2>4
  <2>6. /\ q \in [1..(l - 1) -> 1..(l - 1)]
        /\ \A a, b \in 1..(l - 1) : q[a] = q[b] => a = b
        /\ \A c \in 1..(l - 1) : \E a \in 1..(l - 1) : q[a] = c
    BY <2>5 DEF Bijection, Injection, Surjection, IsInjective
  <2> DEFINE p == [i \in 1..l |-> IF i = l THEN m ELSE IF q[i] = m THEN l ELSE q[i]]
  <2>7. p \in [1..l -> 1..l]
    BY <2>1, <2>2, <2>6
  <2>71. \A i \in 1..l : p[i] = IF i = l THEN m ELSE IF q[i] = m THEN l ELSE q[i]
    OBVIOUS
  <2>72. l \in 1..l /\ p[l] = m
    BY <2>1
  <2>8. \A a, b \in 1..l : p[a] = p[b] => a = b
    <3> SUFFICES ASSUME NEW a \in 1..l, NEW b \in 1..l, p[a] = p[b] PROVE a = b
      OBVIOUS
    <3>1. CASE a = l /\ b = l
      BY <3>1
    <3>2. CASE a = l /\ b # l
      <4>1. b \in 1..(l - 1) /\ p[a] = m /\ p[b] = IF q[b] = m THEN l ELSE q[b]
        BY <2>1, <3>2
      <4>2. q[b] \in 1..(l - 1)
        BY <2>6, <4>1
      <4> HIDE DEF p
      <4> QED BY <2>1, <4>1, <4>2
    <3>3. CASE a # l /\ b = l
      <4>1. a \in 1..(l - 1) /\ p[b] = m /\ p[a] = IF q[a] = m THEN l ELSE q[a]
        BY <2>1, <3>3
      <4>2. q[a] \in 1..(l - 1)
        BY <2>6, <4>1
      <4> HIDE DEF p
      <4> QED BY <2>1, <4>1, <4>2
    <3>4. CASE a # l /\ b # l
      <4>1. /\ a \in 1..(l - 1) /\ b \in 1..(l - 1)
            /\ p[a] = (IF q[a] = m THEN l ELSE q[a])
            /\ p[b] = (IF q[b] = m THEN l ELSE q[b])
            /\ q[a] \in 1..(l - 1) /\ q[b] \in 1..(l - 1)
        BY <2>1, <2>6, <3>4
      <4> QED BY <2>1, <2>6, <4>1
    <3> QED BY <3>1, <3>2, <3>3, <3>4
  <2>9. \A c \in 1..l : \E a \in 1..l : p[a] = c
    <3> SUFFICES ASSUME NEW c \in 1..l PROVE \E a \in 1..l : p[a] = c
      OBVIOUS
    <3>1. CASE c = m
      <4> HIDE DEF p
      <4> QED BY <2>72, <3>1
    <3>2. CASE c # m /\ c = l
      <4>1. m \in 1..(l - 1)
        BY <2>1, <2>2, <3>2
      <4>2. PICK a \in 1..(l - 1) : q[a] = m
        BY <2>6, <4>1
      <4>3. a \in 1..l /\ a # l
        BY <2>1, <4>2
      <4>4. p[a] = l
        BY <2>71, <4>2, <4>3
      <4> HIDE DEF p
      <4> QED BY <3>2, <4>3, <4>4
    <3>3. CASE c # m /\ c # l
      <4>1. c \in 1..(l - 1)
        BY <2>1, <3>3
      <4>2. PICK a \in 1..(l - 1) : q[a] = c
        BY <2>6, <4>1
      <4>3. a \in 1..l /\ a # l
        BY <2>1, <4>2
      <4> QED BY <3>3, <4>2, <4>3
    <3> QED BY <3>1, <3>2, <3>3
  <2>10. p \in Bijection(1..l, 1..l)
    BY <2>7, <2>8, <2>9, BijectionFacts
  <2>11. Sorts(p, t)
    <3> SUFFICES ASSUME NEW i \in 1..l, NEW j \in 1..l, i < j PROVE t[p[i]] <= t[p[j]]
      BY <1>3 DEF Sorts
    <3>1. CASE j = l
      <4>1. p[j] = m
        BY <3>1
      <4> QED BY <2>2, <2>7, <4>1
    <3>2. CASE j # l
      <4>1. i \in 1..(l - 1) /\ j \in 1..(l - 1) /\ i # l
        BY <2>1, <3>2
      <4>2. rest[q[i]] <= rest[q[j]]
        BY <2>5, <4>1 DEF Sorts
      <4>3. \A k \in 1..(l - 1) : rest[q[k]] = t[p[k]]
        <5> TAKE k \in 1..(l - 1)
        <5>1. q[k] \in 1..(l - 1) /\ k \in 1..l /\ k # l
          BY <2>1, <2>6
        <5> QED BY <5>1
      <4> QED BY <4>1, <4>2, <4>3
    <3> QED BY <3>1, <3>2
  <2> QED BY <1>3, <2>10, <2>11
<1> QED BY <1>4, <1>5

(* Sorted, and no address twice.                                           *)
Ascending(s) == \A i, j \in 1..Len(s) : i < j => s[i] < s[j]

(* What slice::sort does to a vector.                                      *)
LEMMA SortedFacts ==
  ASSUME NEW s \in Seq(Int)
  PROVE  /\ Sorted(s) \in Seq(Int)
         /\ Len(Sorted(s)) = Len(s)
         /\ ToSet(Sorted(s)) = ToSet(s)
         /\ \A i, j \in 1..Len(s) : i < j => Sorted(s)[i] <= Sorted(s)[j]
<1>1. Len(s) \in Nat /\ DOMAIN s = 1..Len(s) /\ s \in [1..Len(s) -> Int]
  OBVIOUS
<1> DEFINE p == CHOOSE p \in Bijection(DOMAIN s, DOMAIN s) :
                  \A i, j \in DOMAIN s : i < j => s[p[i]] <= s[p[j]]
<1>2. \E q \in Bijection(DOMAIN s, DOMAIN s) :
        \A i, j \in DOMAIN s : i < j => s[q[i]] <= s[q[j]]
  BY <1>1, SortingExists DEF Sorts
<1>3. /\ p \in Bijection(DOMAIN s, DOMAIN s)
      /\ \A i, j \in DOMAIN s : i < j => s[p[i]] <= s[p[j]]
  BY <1>2
<1>4. Sorted(s) = [i \in 1..Len(s) |-> s[p[i]]]
  BY <1>1 DEF Sorted
<1> HIDE DEF p
<1>5. /\ p \in [1..Len(s) -> 1..Len(s)]
      /\ \A c \in 1..Len(s) : \E a \in 1..Len(s) : p[a] = c
  BY <1>1, <1>3 DEF Bijection, Injection, Surjection, IsInjective
<1>6. \A i \in 1..Len(s) : p[i] \in 1..Len(s) /\ Sorted(s)[i] = s[p[i]] /\ s[p[i]] \in Int
  BY <1>1, <1>4, <1>5
<1>7. Sorted(s) \in [1..Len(s) -> Int]
  BY <1>4, <1>6
<1>8. Sorted(s) \in Seq(Int) /\ Len(Sorted(s)) = Len(s) /\ DOMAIN Sorted(s) = 1..Len(s)
  BY <1>1, <1>7
<1>9. ToSet(Sorted(s)) = ToSet(s)
  <2>1. ASSUME NEW v
        PROVE  (\E i \in 1..Len(s) : Sorted(s)[i] = v) <=> \E i \in 1..Len(s) : s[i] = v
    <3>1. ASSUME NEW i \in 1..Len(s), Sorted(s)[i] = v
          PROVE  \E j \in 1..Len(s) : s[j] = v
      BY <1>6, <3>1
    <3>2. ASSUME NEW j \in 1..Len(s), s[j] = v
          PROVE  \E i \in 1..Len(s) : Sorted(s)[i] = v
      <4>1. PICK i \in 1..Len(s) : p[i] = j
        BY <1>5
      <4> QED BY <1>6, <3>2, <4>1
    <3> QED BY <3>1, <3>2
  <2> QED BY <1>1, <1>8, <2>1 DEF ToSet
<1>10. \A i, j \in 1..Len(s) : i < j => Sorted(s)[i] <= Sorted(s)[j]
  <2>1. \A i, j \in 1..Len(s) : i < j => s[p[i]] <= s[p[j]]
    BY <1>1, <1>3
  <2> QED BY <1>6, <2>1
<1> QED BY <1>8, <1>9, <1>10

(* Vec::dedup goes through the vector from the left.                       *)
LEMMA KeptFacts ==
  ASSUME NEW s \in Seq(Int)
  PROVE  /\ Kept(s)[0] = <<>>
         /\ \A n \in 1..Len(s) :
              Kept(s)[n] = IF n > 1 /\ s[n] = s[n - 1] THEN Kept(s)[n - 1]
                           ELSE Append(Kept(s)[n - 1], s[n])
<1> DEFINE Step(x, k) == IF k = 0 THEN <<>>
                         ELSE IF k > 1 /\ s[k] = s[k - 1] THEN x
                         ELSE Append(x, s[k])
           Good(n) == \E g : g = [k \in 0..n |-> Step(g[k - 1], k)]
           Bad == {n \in Nat : ~Good(n)}
<1>1. Bad = {}
  <2>0. SUFFICES ASSUME Bad # {} PROVE FALSE
    OBVIOUS
  <2>1. Bad \in SUBSET Nat
    OBVIOUS
  <2>2. PICK n \in Bad : \A k \in Bad : n <= k
    <3> HIDE DEF Bad
    <3> QED BY <2>0, <2>1, LeastNatural
  <2>3. n \in Nat /\ ~Good(n) /\ (n # 0 => n - 1 \in Nat /\ Good(n - 1))
    <3> HIDE DEF Good
    <3> QED BY <2>2
  <2>4. CASE n = 0
    <3> DEFINE h == [k \in 0..0 |-> <<>>]
    <3>1. \A k \in 0..0 : k = 0
      OBVIOUS
    <3>2. h = [k \in 0..0 |-> Step(h[k - 1], k)]
      BY <3>1
    <3> QED BY <2>3, <2>4, <3>2
  <2>5. CASE n # 0
    <3>1. PICK g : g = [k \in 0..(n - 1) |-> Step(g[k - 1], k)]
      BY <2>3, <2>5
    <3> HIDE DEF Step
    <3> DEFINE h == [k \in 0..n |-> IF k = n THEN Step(g[n - 1], n) ELSE g[k]]
    <3>2. ASSUME NEW k \in 0..n
          PROVE  h[k] = Step(h[k - 1], k)
      <4>1. CASE k = 0
        <5>1. 0 \in 0..(n - 1) /\ 0 # n
          BY <2>3, <2>5
        <5>2. \A x : Step(x, 0) = <<>>
          BY DEF Step
        <5>3. g[0] = <<>>
          BY <3>1, <5>1, <5>2
        <5>4. 0 \in 0..n /\ h[0] = g[0]
          BY <2>3, <5>1
        <5> HIDE DEF h
        <5> QED BY <4>1, <5>2, <5>3, <5>4
      <4>2. CASE k # 0 /\ k # n
        <5>1. k \in 0..(n - 1) /\ k - 1 \in 0..(n - 1) /\ k - 1 \in 0..n /\ k - 1 # n
          BY <2>3, <4>2
        <5>2. h[k] = g[k] /\ h[k - 1] = g[k - 1]
          BY <4>2, <5>1
        <5>3. g[k] = Step(g[k - 1], k)
          BY <3>1, <5>1
        <5> HIDE DEF h
        <5> QED BY <5>2, <5>3
      <4>3. CASE k # 0 /\ k = n
        <5>1. n - 1 \in 0..n /\ n - 1 # n /\ n \in 0..n
          BY <2>3, <2>5
        <5>2. h[n] = Step(g[n - 1], n) /\ h[n - 1] = g[n - 1]
          BY <5>1
        <5> HIDE DEF h
        <5> QED BY <4>3, <5>2
      <4> QED BY <4>1, <4>2, <4>3
    <3>3. h = [k \in 0..n |-> h[k]]
      OBVIOUS
    <3>4. h = [k \in 0..n |-> Step(h[k - 1], k)]
      <4> HIDE DEF h
      <4> QED BY <3>2, <3>3
    <3> HIDE DEF h
    <3>5. Good(n)
      BY <3>4
    <3> QED BY <2>3, <3>5
  <2> QED BY <2>4, <2>5
<1>2. Len(s) \in Nat /\ Good(Len(s))
  <2>1. Len(s) \in Nat
    OBVIOUS
  <2> HIDE DEF Good
  <2> QED BY <1>1, <2>1
<1>3. PICK g : g = [k \in 0..Len(s) |-> Step(g[k - 1], k)]
  BY <1>2
<1> DEFINE kept == CHOOSE f : f = [k \in 0..Len(s) |-> Step(f[k - 1], k)]
<1>4. kept = [k \in 0..Len(s) |-> Step(kept[k - 1], k)]
  <2> HIDE DEF Step
  <2> QED BY <1>3
<1>5. Kept(s) = kept
  BY DEF Kept
<1>6. Kept(s) = [k \in 0..Len(s) |-> Step(Kept(s)[k - 1], k)]
  <2> HIDE DEF kept, Step
  <2> QED BY <1>4, <1>5
<1>7. \A k \in 0..Len(s) : Kept(s)[k] = Step(Kept(s)[k - 1], k)
  <2> HIDE DEF Step
  <2> QED BY <1>6
<1> QED BY <1>2, <1>7

(* What has been kept of the first n addresses of a sorted vector: each of *)
(* them once, ascending, and the latest one last.                          *)
KeepsFirst(kept, s, n) ==
  /\ kept \in Seq(Int)
  /\ Ascending(kept)
  /\ n > 0 => Len(kept) > 0 /\ kept[Len(kept)] = s[n]
  /\ \A v \in Int : (\E i \in 1..Len(kept) : kept[i] = v) <=> \E i \in 1..n : s[i] = v

LEMMA KeepingIsExact ==
  ASSUME NEW s \in Seq(Int),
         \A i, j \in 1..Len(s) : i < j => s[i] <= s[j]
  PROVE  KeepsFirst(Kept(s)[Len(s)], s, Len(s))
<1> DEFINE Bad == {n \in 0..Len(s) : ~KeepsFirst(Kept(s)[n], s, n)}
<1>1. Len(s) \in Nat /\ Len(s) \in 0..Len(s) /\ Bad \in SUBSET Nat
  OBVIOUS
<1>2. SUFFICES ASSUME Bad # {} PROVE FALSE
  BY <1>1
<1>3. PICK n \in Bad : \A k \in Bad : n <= k
  <2> HIDE DEF Bad
  <2> QED BY <1>1, <1>2, LeastNatural
<1>4. CASE n = 0
  <2>1. Kept(s)[0] = <<>>
    BY KeptFacts
  <2>2. <<>> \in Seq(Int) /\ Len(<<>>) = 0 /\ 1..0 = {}
    OBVIOUS
  <2>3. KeepsFirst(<<>>, s, 0)
    BY <2>2 DEF KeepsFirst, Ascending
  <2> QED BY <1>3, <1>4, <2>1, <2>3
<1>5. CASE n # 0
  <2> DEFINE k == Kept(s)[n - 1]
             l == Kept(s)[n]
  <2>1. /\ n \in 1..Len(s) /\ n - 1 \in 0..Len(s) /\ ~(n <= n - 1)
        /\ n \in Nat /\ n - 1 \in Nat /\ 1..n = 1..(n - 1) \cup {n} /\ s[n] \in Int
    BY <1>1, <1>3, <1>5
  <2>2. KeepsFirst(k, s, n - 1)
    BY <1>3, <2>1
  <2>3. l = IF n > 1 /\ s[n] = s[n - 1] THEN k ELSE Append(k, s[n])
    BY <2>1, KeptFacts
  <2> HIDE DEF k, l
  <2>4. CASE n > 1 /\ s[n] = s[n - 1]
    <3>1. n - 1 > 0 /\ n - 1 \in 1..(n - 1)
      BY <2>1, <2>4
    <3>2. KeepsFirst(l, s, n)
      BY <2>1, <2>2, <2>3, <2>4, <3>1 DEF KeepsFirst
    <3> QED BY <1>3, <3>2 DEF l
  <2>5. CASE ~(n > 1 /\ s[n] = s[n - 1])
    <3>1. k \in Seq(Int) /\ Len(k) \in Nat /\ \A i \in 1..Len(k) : k[i] \in Int
      BY <2>2 DEF KeepsFirst
    <3>2. /\ l \in Seq(Int) /\ Len(l) = Len(k) + 1
          /\ \A i \in 1..Len(k) : l[i] = k[i]
          /\ l[Len(k) + 1] = s[n]
          /\ 1..Len(l) = 1..Len(k) \cup {Len(k) + 1}
      BY <2>1, <2>3, <2>5, <3>1
    <3>3. ASSUME NEW i \in 1..Len(k)
          PROVE  k[i] < s[n]
      <4>1. PICK m \in 1..(n - 1) : s[m] = k[i]
        BY <2>2, <3>1 DEF KeepsFirst
      <4>2. n > 1 /\ n - 1 \in 1..Len(s) /\ s[n - 1] \in Int /\ m \in 1..Len(s) /\ s[m] \in Int
        BY <2>1, <4>1
      <4>3. s[n - 1] < s[n]
        <5>1. s[n - 1] <= s[n]
          BY <2>1, <4>2
        <5> QED BY <2>1, <2>5, <4>2, <5>1
      <4>4. s[m] <= s[n - 1]
        <5>1. CASE m = n - 1
          BY <4>2, <5>1
        <5>2. CASE m < n - 1
          BY <4>2, <5>2
        <5> QED BY <2>1, <4>1, <5>1, <5>2
      <4> QED BY <2>1, <4>1, <4>2, <4>3, <4>4
    <3>4. Ascending(l)
      <4> SUFFICES ASSUME NEW i \in 1..Len(l), NEW j \in 1..Len(l), i < j
                   PROVE  l[i] < l[j]
        BY DEF Ascending
      <4>1. CASE j = Len(k) + 1
        <5>1. i \in 1..Len(k)
          BY <3>1, <3>2, <4>1
        <5> QED BY <3>2, <3>3, <4>1, <5>1
      <4>2. CASE j \in 1..Len(k)
        <5>1. i \in 1..Len(k)
          BY <3>1, <4>2
        <5> QED BY <2>2, <3>2, <4>2, <5>1 DEF KeepsFirst, Ascending
      <4> QED BY <3>2, <4>1, <4>2
    <3>5. ASSUME NEW v \in Int
          PROVE  (\E i \in 1..Len(l) : l[i] = v) <=> \E i \in 1..n : s[i] = v
      <4>1. (\E i \in 1..Len(l) : l[i] = v) <=> (\E i \in 1..Len(k) : k[i] = v) \/ s[n] = v
        BY <3>1, <3>2
      <4>2. (\E i \in 1..n : s[i] = v) <=> (\E i \in 1..(n - 1) : s[i] = v) \/ s[n] = v
        BY <2>1
      <4> QED BY <2>2, <4>1, <4>2 DEF KeepsFirst
    <3>6. Len(l) > 0 /\ l[Len(l)] = s[n]
      BY <3>1, <3>2
    <3>7. KeepsFirst(l, s, n)
      BY <3>2, <3>4, <3>5, <3>6 DEF KeepsFirst
    <3> QED BY <1>3, <3>7 DEF l
  <2> QED BY <2>4, <2>5
<1> QED BY <1>4, <1>5

(* An ascending vector is determined by its members: the one that holds    *)
(* all members of another agrees with it as far as that goes.              *)
LEMMA AscendingPrefix ==
  ASSUME NEW s \in Seq(Int), NEW t \in Seq(Int), Ascending(s), Ascending(t),
         ToSet(s) = ToSet(t)
  PROVE  \A i \in 1..Len(s) : i <= Len(t) /\ t[i] = s[i]
<1> DEFINE Bad == {i \in 1..Len(s) : ~(i <= Len(t) /\ t[i] = s[i])}
<1>1. /\ Len(s) \in Nat /\ Len(t) \in Nat /\ Bad \in SUBSET Nat
      /\ DOMAIN s = 1..Len(s) /\ DOMAIN t = 1..Len(t)
      /\ \A k \in 1..Len(s) : s[k] \in Int
      /\ \A k \in 1..Len(t) : t[k] \in Int
  OBVIOUS
<1>2. SUFFICES ASSUME Bad # {} PROVE FALSE
  BY <1>1
<1>3. PICK i \in Bad : \A k \in Bad : i <= k
  <2> HIDE DEF Bad
  <2> QED BY <1>1, <1>2, LeastNatural
<1>4. i \in 1..Len(s) /\ \A k \in 1..(i - 1) : k \in 1..Len(s) /\ k \in 1..Len(t) /\ t[k] = s[k]
  <2>1. i \in 1..Len(s)
    BY <1>3
  <2>2. ASSUME NEW k \in 1..(i - 1)
        PROVE  k \in 1..Len(s) /\ k \in 1..Len(t) /\ t[k] = s[k]
    <3>1. k \in 1..Len(s) /\ ~(i <= k)
      BY <1>1, <2>1
    <3>2. k \notin Bad
      <4> HIDE DEF Bad
      <4> QED BY <1>3, <3>1
    <3> QED BY <1>1, <3>1, <3>2
  <2> QED BY <2>1, <2>2
<1>5. PICK j \in 1..Len(t) : t[j] = s[i]
  BY <1>1, <1>4 DEF ToSet
<1>6. i <= j
  <2> SUFFICES ASSUME j < i PROVE FALSE
    BY <1>1, <1>4
  <2>1. j \in 1..(i - 1)
    BY <1>1, <1>4
  <2>2. s[j] < s[i]
    BY <1>4, <2>1 DEF Ascending
  <2> QED BY <1>1, <1>4, <1>5, <2>1, <2>2
<1>7. i \in 1..Len(t) /\ t[i] <= t[j]
  <2>1. i \in 1..Len(t)
    BY <1>1, <1>4, <1>6
  <2>2. i = j \/ t[i] < t[j]
    BY <1>1, <1>6, <2>1 DEF Ascending
  <2> QED BY <1>1, <2>1, <2>2
<1>8. PICK k \in 1..Len(s) : s[k] = t[i]
  BY <1>1, <1>7 DEF ToSet
<1>9. i <= k
  <2> SUFFICES ASSUME k < i PROVE FALSE
    BY <1>1, <1>4
  <2>1. k \in 1..(i - 1)
    BY <1>1, <1>4
  <2>2. t[k] < t[i]
    BY <1>4, <1>7, <2>1 DEF Ascending
  <2> QED BY <1>1, <1>4, <1>7, <1>8, <2>1, <2>2
<1>10. s[i] <= s[k]
  <2>1. i = k \/ s[i] < s[k]
    BY <1>1, <1>4, <1>9 DEF Ascending
  <2> QED BY <1>1, <1>4, <2>1
<1>11. t[i] = s[i] /\ i <= Len(t)
  BY <1>1, <1>4, <1>5, <1>7, <1>8, <1>10
<1> QED BY <1>3, <1>11

(* Two ascending vectors with the same members are the same.               *)
LEMMA AscendingIsUnique ==
  ASSUME NEW s \in Seq(Int), NEW t \in Seq(Int), Ascending(s), Ascending(t),
         ToSet(s) = ToSet(t)
  PROVE  s = t
<1>1. \A i \in 1..Len(s) : i <= Len(t) /\ t[i] = s[i]
  BY AscendingPrefix
<1>2. \A i \in 1..Len(t) : i <= Len(s) /\ s[i] = t[i]
  BY AscendingPrefix
<1>3. Len(s) = Len(t)
  <2>1. Len(s) \in Nat /\ Len(t) \in Nat
    OBVIOUS
  <2>2. Len(s) <= Len(t)
    BY <1>1, <2>1
  <2>3. Len(t) <= Len(s)
    BY <1>2, <2>1
  <2> QED BY <2>1, <2>2, <2>3
<1> QED BY <1>1, <1>3

(* Interface::normalise leaves the addresses as they are and puts them     *)
(* into the one vector that is ascending.                                  *)
LEMMA NormalisedFacts ==
  ASSUME NEW s \in Seq(Int)
  PROVE  /\ Normalise(s) \in Seq(Int)
         /\ Ascending(Normalise(s))
         /\ ToSet(Normalise(s)) = ToSet(s)
<1> DEFINE r == Sorted(s)
           d == Normalise(s)
<1>1. r \in Seq(Int) /\ Len(r) = Len(s) /\ ToSet(r) = ToSet(s)
  BY SortedFacts
<1>2. \A i, j \in 1..Len(r) : i < j => r[i] <= r[j]
  BY SortedFacts
<1>3. d = Kept(r)[Len(r)]
  BY DEF Normalise, Dedup
<1> HIDE DEF r, d
<1>4. KeepsFirst(d, r, Len(r))
  BY <1>1, <1>2, <1>3, KeepingIsExact
<1>5. /\ d \in Seq(Int) /\ Ascending(d)
      /\ \A v \in Int : (\E i \in 1..Len(d) : d[i] = v) <=> \E i \in 1..Len(r) : r[i] = v
  BY <1>4 DEF KeepsFirst
<1>6. ToSet(d) = ToSet(r)
  <2>1. \A i \in 1..Len(d) : d[i] \in Int
    BY <1>5
  <2>2. \A i \in 1..Len(r) : r[i] \in Int
    BY <1>1
  <2>3. DOMAIN d = 1..Len(d) /\ DOMAIN r = 1..Len(r)
    BY <1>1, <1>5
  <2>4. \A v : (\E i \in 1..Len(d) : d[i] = v) <=> \E i \in 1..Len(r) : r[i] = v
    BY <1>5, <2>1, <2>2
  <2> QED BY <2>3, <2>4 DEF ToSet
<1> QED BY <1>1, <1>5, <1>6 DEF r, d

(* lib.rs:183-190: two vectors are the same after Interface::normalise     *)
(* exactly when they hold the same addresses, whatever order and           *)
(* duplicates they came with.                                              *)
THEOREM NormaliseIsCanonical ==
  ASSUME NEW s \in Seq(Addrs), NEW t \in Seq(Addrs)
  PROVE  Normalise(s) = Normalise(t) <=> ToSet(s) = ToSet(t)
<1>1. s \in Seq(Int) /\ t \in Seq(Int)
  BY AddrsAreOrdered, SeqMonotonic
<1> QED BY <1>1, NormalisedFacts, AscendingIsUnique

-----------------------------------------------------------------------------
(* The vectors as the code holds them: each interface with its fields and  *)
(* an ascending vector of addresses.                                       *)
CanonicalVectors(vs) ==
  /\ vs = [i \in DOMAIN vs |-> vs[i]]
  /\ \A i \in DOMAIN vs :
       /\ vs[i] = [name |-> vs[i].name, hw_addr |-> vs[i].hw_addr, ips |-> vs[i].ips]
       /\ vs[i].ips \in Seq(Int)
       /\ Ascending(vs[i].ips)

(* Every normalised listing is canonical, whatever the platform returned.  *)
LEMMA ListingIsCanonical ==
  ASSUME NEW raw \in RawLists
  PROVE  CanonicalVectors(Normalised(raw))
<1>1. PICK present \in SUBSET Indices : raw \in [present -> RawInterface]
  BY DEF RawLists
<1>2. DOMAIN Normalised(raw) = present /\ Normalised(raw) = [i \in present |-> Normalised(raw)[i]]
  BY <1>1 DEF Normalised
<1>3. ASSUME NEW i \in present
      PROVE  LET x == Normalised(raw)[i]
             IN  /\ x = [name |-> x.name, hw_addr |-> x.hw_addr, ips |-> x.ips]
                 /\ x.ips \in Seq(Int)
                 /\ Ascending(x.ips)
  <2> DEFINE r == raw[i]
             x == Normalised(raw)[i]
  <2>1. r \in RawInterface
    BY <1>1
  <2>2. x = [r EXCEPT !.ips = Normalise(@)]
    BY <1>1 DEF Normalised
  <2> HIDE DEF r, x
  <2>3. x = [name |-> r.name, hw_addr |-> r.hw_addr, ips |-> Normalise(r.ips)]
    BY <2>1, <2>2 DEF RawInterface
  <2>4. r.ips \in Seq(Int)
    <3>1. r.ips \in BoundedSeq(Addrs, MaxVector)
      BY <2>1 DEF RawInterface
    <3>2. PICK m \in 0..MaxVector : r.ips \in [1..m -> Addrs]
      BY <3>1 DEF BoundedSeq, SeqOf
    <3>3. m \in Nat
      BY MaxVectorAssumption
    <3>4. r.ips \in Seq(Addrs)
      BY <3>2, <3>3, SeqDef
    <3> QED BY <3>4, AddrsAreOrdered, SeqMonotonic
  <2>5. Normalise(r.ips) \in Seq(Int) /\ Ascending(Normalise(r.ips))
    BY <2>4, NormalisedFacts
  <2>6. /\ x = [name |-> x.name, hw_addr |-> x.hw_addr, ips |-> x.ips]
        /\ x.ips = Normalise(r.ips)
    BY <2>3
  <2> QED BY <2>5, <2>6 DEF x
<1> QED BY <1>2, <1>3 DEF CanonicalVectors

(* What a canonical listing stands for determines it.                      *)
LEMMA CanonicalMeansEqual ==
  ASSUME NEW vs, NEW ws, CanonicalVectors(vs), CanonicalVectors(ws)
  PROVE  vs = ws <=> ListOf(vs) = ListOf(ws)
<1> SUFFICES ASSUME ListOf(vs) = ListOf(ws) PROVE vs = ws
  OBVIOUS
<1>1. DOMAIN ListOf(vs) = DOMAIN vs /\ DOMAIN ListOf(ws) = DOMAIN ws
  BY DEF ListOf
<1>2. DOMAIN vs = DOMAIN ws
  BY <1>1
<1>3. \A us : CanonicalVectors(us) =>
        \A i \in DOMAIN us :
          ListOf(us)[i] = [name |-> us[i].name, hw_addr |-> us[i].hw_addr, ips |-> ToSet(us[i].ips)]
  <2> SUFFICES ASSUME NEW us, CanonicalVectors(us), NEW i \in DOMAIN us
               PROVE  ListOf(us)[i] = [name |-> us[i].name, hw_addr |-> us[i].hw_addr, ips |-> ToSet(us[i].ips)]
    OBVIOUS
  <2> DEFINE u == us[i]
  <2>1. ListOf(us)[i] = [u EXCEPT !.ips = ToSet(@)]
    BY DEF ListOf
  <2>2. u = [name |-> u.name, hw_addr |-> u.hw_addr, ips |-> u.ips]
    BY DEF CanonicalVectors
  <2> HIDE DEF u
  <2>3. [u EXCEPT !.ips = ToSet(@)] = [name |-> u.name, hw_addr |-> u.hw_addr, ips |-> ToSet(u.ips)]
    BY <2>2
  <2> QED BY <2>1, <2>3 DEF u
<1>4. ASSUME NEW i \in DOMAIN vs
      PROVE  vs[i] = ws[i]
  <2>1. [name |-> vs[i].name, hw_addr |-> vs[i].hw_addr, ips |-> ToSet(vs[i].ips)]
          = [name |-> ws[i].name, hw_addr |-> ws[i].hw_addr, ips |-> ToSet(ws[i].ips)]
    BY <1>2, <1>3
  <2>2. vs[i].name = ws[i].name /\ vs[i].hw_addr = ws[i].hw_addr
          /\ ToSet(vs[i].ips) = ToSet(ws[i].ips)
    BY <2>1
  <2>3. vs[i].ips = ws[i].ips
    BY <1>2, <2>2, AscendingIsUnique DEF CanonicalVectors
  <2> QED BY <1>2, <2>2, <2>3 DEF CanonicalVectors
<1> QED BY <1>2, <1>4 DEF CanonicalVectors

(* The code's vectors differ exactly when what they stand for does: the    *)
(* order and the duplicates a platform returns never cause an Update and   *)
(* never hide one.                                                         *)
THEOREM OrderDoesNotMatter == Spec => OrderNeverMatters
<1> DEFINE Inv == CanonicalVectors(vectors)
           Same == vectors' = vectors <=> ListOf(vectors') = ListOf(vectors)
<1>1. Init => Inv
  BY DEF Init, CanonicalVectors, NoInterfaces
<1>2. Inv /\ [Next]_vars => Inv'
  <2> SUFFICES ASSUME Inv, [Next]_vars PROVE Inv'
    OBVIOUS
  <2>1. ASSUME NEW raw \in RawLists, Observe(raw)
        PROVE  Inv'
    BY <2>1, ListingIsCanonical DEF Observe
  <2>2. CASE UNCHANGED vars
    BY <2>2 DEF vars
  <2> QED BY <2>1, <2>2 DEF Next
<1>3. Inv /\ Inv' => Same
  BY CanonicalMeansEqual
<1>4. Inv /\ [Next]_vars => [Same]_vars
  BY <1>2, <1>3
<1> QED BY <1>1, <1>2, <1>4, PTL DEF Spec, OrderNeverMatters

-----------------------------------------------------------------------------
(* The owner of any watcher: the watchers implement UpdateStream, and an   *)
(* owner who applies the diff of every Update to a record of its own holds *)
(* the snapshot of the last one, whatever stream of Updates it is.         *)
VARIABLES
  last, closed,   \* the stream: the last Update delivered, whether it is over
  record          \* the interfaces as the owner believes them to be

Stream == INSTANCE UpdateStream WITH Lists <- List, EmptyList <- NoInterfaces

(* update_from names the diff by its snapshots; the owner applies it when  *)
(* the Update is delivered and does nothing to its record otherwise.       *)
Applies ==
  record' = Replayed(record, DiffFrom(last'.interfaces, last'.base), last'.interfaces)

OwnerAppliesDiffs ==
  /\ record = NoInterfaces
  /\ [][last' # last /\ Applies]_<<last, record>>

OwnerIsCurrent ==
  record = IF last = NoUpdate THEN NoInterfaces ELSE last.interfaces

StreamInv ==
  /\ OwnerIsCurrent
  /\ last # NoUpdate => last.interfaces \in List

(* One delivery: the base of the diff is what the owner's record holds.    *)
LEMMA DeliveryIsReplayed ==
  ASSUME NEW list \in List, NEW base, IsList(base), NEW first, record = base,
         last' = [is_initial |-> first, base |-> base, interfaces |-> list],
         Applies
  PROVE  record' = last'.interfaces /\ last'.interfaces \in List
<1>1. last'.interfaces = list /\ last'.base = base
  OBVIOUS
<1>2. record' = Replayed(base, DiffFrom(list, base), list)
  BY <1>1 DEF Applies
<1> QED BY <1>1, <1>2, ListIsList, ReplayIsExact

LEMMA StreamStepIsFollowed ==
  StreamInv /\ [Stream!Next]_(Stream!vars) /\ [last' # last /\ Applies]_<<last, record>>
    => StreamInv'
<1> SUFFICES ASSUME StreamInv, [Stream!Next]_(Stream!vars),
                    [last' # last /\ Applies]_<<last, record>>
             PROVE  StreamInv'
  OBVIOUS
<1>1. CASE last' = last
  BY <1>1 DEF StreamInv, OwnerIsCurrent
<1>2. CASE last' # last /\ Stream!DeliverInitial
  <2>1. PICK list \in List :
          last' = [is_initial |-> TRUE, base |-> NoInterfaces, interfaces |-> list]
    BY <1>2 DEF Stream!DeliverInitial
  <2>2. last = NoUpdate /\ record = NoInterfaces
    BY <1>2 DEF Stream!DeliverInitial, StreamInv, OwnerIsCurrent
  <2>3. record' = last'.interfaces /\ last'.interfaces \in List
    BY <1>2, <2>1, <2>2, NoInterfacesIsList, DeliveryIsReplayed
  <2> QED BY <1>2, <2>2, <2>3 DEF StreamInv, OwnerIsCurrent
<1>3. CASE last' # last /\ Stream!DeliverChange
  <2>1. last # NoUpdate /\ record = last.interfaces /\ last.interfaces \in List
    BY <1>3 DEF Stream!DeliverChange, StreamInv, OwnerIsCurrent
  <2>2. PICK list \in List :
          last' = [is_initial |-> FALSE, base |-> last.interfaces, interfaces |-> list]
    BY <1>3 DEF Stream!DeliverChange
  <2>3. record' = last'.interfaces /\ last'.interfaces \in List
    BY <1>3, <2>1, <2>2, ListIsList, DeliveryIsReplayed
  <2>4. last' \in Cursors!Update
    BY <2>1, <2>2 DEF Cursors!Update
  <2> QED BY <2>3, <2>4, NoUpdateAssumption DEF StreamInv, OwnerIsCurrent
<1> QED BY <1>1, <1>2, <1>3 DEF Stream!Next, Stream!Close, Stream!vars

(* Whatever stream of Updates a watcher delivers, the record of an owner   *)
(* who applies their diffs is the last snapshot delivered.                 *)
THEOREM OwnersOfStreamsAreCurrent == Stream!Spec /\ OwnerAppliesDiffs => []OwnerIsCurrent
<1>1. Stream!Init /\ record = NoInterfaces => StreamInv
  BY DEF Stream!Init, StreamInv, OwnerIsCurrent
<1>2. StreamInv => OwnerIsCurrent
  BY DEF StreamInv
<1> QED BY <1>1, <1>2, StreamStepIsFollowed, PTL DEF Stream!Spec, OwnerAppliesDiffs

=============================================================================
