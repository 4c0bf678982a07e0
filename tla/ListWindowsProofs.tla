------------------------- MODULE ListWindowsProofs -------------------------
(***************************************************************************)
(* The Windows listing for any finite set of addresses, any interface      *)
(* indices, any number of adapters and any size of the buffer to start     *)
(* with: the buffer is never overrun, and what is listed is one moment's.  *)
(***************************************************************************)
EXTENDS ListWindows, FiniteSetTheorems, TLAPS

(* How many of the adapters copied the walk has been to.                   *)
Visited == Len(copied) - Len(rest)

TypesOK ==
  /\ adapters \in Adapters
  /\ copied \in Adapters
  /\ rest \in Seq(Adapter)
  /\ phase \in {"call", "walk", "done", "error"}
  /\ buffer \in Nat

(* GetAdaptersAddresses is told the truth, and wrote no more than that.    *)
SizesOK ==
  /\ sizepointer = buffer
  /\ Size(copied) <= buffer

(* Nothing is copied or collected while the call is being repeated, and    *)
(* what the walk has before it is the end of what was copied.              *)
WalkOK ==
  /\ phase \in {"call", "error"} => copied = <<>> /\ rest = <<>> /\ ifs = [i \in {} |-> {}]
  /\ phase = "done" => rest = <<>>
  /\ Len(rest) <= Len(copied)
  /\ \A k \in 1..Len(rest) : rest[k] = copied[Visited + k]

(* What the walk has been to is in the listing, and nothing else is.       *)
CollectedOK ==
  /\ DOMAIN ifs = {IfIndexOf(copied[k]) : k \in {j \in 1..Visited : ~Skipped(copied[j])}}
  /\ \A k \in 1..Visited : ~Skipped(copied[k]) => ifs[IfIndexOf(copied[k])] = copied[k].ips

IInv ==
  /\ TypesOK
  /\ SizesOK
  /\ WalkOK
  /\ CollectedOK

-----------------------------------------------------------------------------
(* Lemmas about lists of adapters, the room they take and their walk.      *)

LEMMA AdaptersFacts ==
  ASSUME NEW list \in Adapters
  PROVE  /\ list \in Seq(Adapter)
         /\ \A i, j \in 1..Len(list) :
              i # j => IfIndexOf(list[i]) # IfIndexOf(list[j]) \/ IfIndexOf(list[i]) = 0
<1>1. PICK n \in 0..MaxAdapters : list \in [1..n -> Adapter]
  BY DEF Adapters
<1>2. n \in Nat
  BY AdaptersAssumption
<1>3. list \in Seq(Adapter) /\ Len(list) = n /\ DOMAIN list = 1..n
  BY <1>1, <1>2
<1> QED BY <1>3 DEF Adapters

LEMMA EmptyIsAdapters == <<>> \in Adapters /\ Size(<<>>) = 0
<1>1. <<>> \in [1..0 -> Adapter] /\ 0 \in 0..MaxAdapters
  BY AdaptersAssumption
<1>2. DOMAIN <<>> = {}
  OBVIOUS
<1>3. <<>> \in Adapters
  BY <1>1, <1>2 DEF Adapters
<1>4. UNION {{i} \X (<<>>[i].ips \cup {"adapter"}) : i \in DOMAIN <<>>} = {}
  BY <1>2
<1> QED BY <1>3, <1>4, FS_EmptySet DEF Size

(* The room a list takes is finite: that of its adapters and addresses.    *)
LEMMA SizeIsNatural ==
  ASSUME NEW list \in Adapters
  PROVE  Size(list) \in Nat
<1> DEFINE Room == UNION {{i} \X (list[i].ips \cup {"adapter"}) : i \in DOMAIN list}
<1>1. list \in Seq(Adapter) /\ DOMAIN list = 1..Len(list) /\ Len(list) \in Nat
  BY AdaptersFacts
<1>2. \A i \in DOMAIN list : list[i].ips \subseteq UnicastAddresses
  BY <1>1 DEF Adapter
<1>3. Room \subseteq (1..Len(list)) \X (UnicastAddresses \cup {"adapter"})
  BY <1>1, <1>2
<1>4. IsFiniteSet(1..Len(list))
  BY <1>1, FS_Interval
<1>5. IsFiniteSet(UnicastAddresses \cup {"adapter"})
  BY AdaptersAssumption, FS_AddElement
<1>6. IsFiniteSet((1..Len(list)) \X (UnicastAddresses \cup {"adapter"}))
  BY <1>4, <1>5, FS_Product
<1>7. IsFiniteSet(Room)
  BY <1>3, <1>6, FS_Subset
<1> QED BY <1>7, FS_CardinalityType DEF Size

(* An adapter that is not passed over has an index, and it is the one      *)
(* index both its families show.                                           *)
LEMMA IndexFacts ==
  ASSUME NEW a \in Adapter, NEW i \in IfIndices
  PROVE  (a.status # "down" /\ i \in {a.IfIndex, a.Ipv6IfIndex})
           <=> (~Skipped(a) /\ IfIndexOf(a) = i)
  BY AdaptersAssumption DEF Adapter, Skipped, IfIndexOf

LEMMA SkippedFacts ==
  ASSUME NEW a \in Adapter, ~Skipped(a)
  PROVE  IfIndexOf(a) # 0
  BY AdaptersAssumption DEF Adapter, Skipped, IfIndexOf

-----------------------------------------------------------------------------
LEMMA InitEstablishes == WindowsInit => IInv
<1> SUFFICES ASSUME WindowsInit PROVE IInv
  OBVIOUS
<1>1. TypesOK
  BY EmptyIsAdapters, AdaptersAssumption DEF WindowsInit, TypesOK
<1>2. SizesOK
  BY EmptyIsAdapters, AdaptersAssumption DEF WindowsInit, SizesOK
<1>3. WalkOK /\ CollectedOK
  BY DEF WindowsInit, WalkOK, CollectedOK, Visited
<1> QED BY <1>1, <1>2, <1>3 DEF IInv

(* One round of the walk: the adapter visited is at k, the ones before it  *)
(* are collected and none of them has its index.                           *)
LEMMA VisitCollects ==
  ASSUME IInv, VisitAdapter
  PROVE  WalkOK' /\ CollectedOK' /\ rest' \in Seq(Adapter)
<1> DEFINE k == Visited + 1
           a == Head(rest)
<1>1. /\ rest # <<>> /\ rest' = Tail(rest)
      /\ phase = "walk" /\ phase' = phase /\ copied' = copied
      /\ ifs' = IF Skipped(a) THEN ifs
                ELSE [i \in DOMAIN ifs \cup {IfIndexOf(a)} |->
                        IF i = IfIndexOf(a) THEN a.ips ELSE ifs[i]]
  BY DEF VisitAdapter
<1>2. /\ rest \in Seq(Adapter) /\ copied \in Seq(Adapter)
      /\ \A i, j \in 1..Len(copied) :
           i # j => IfIndexOf(copied[i]) # IfIndexOf(copied[j]) \/ IfIndexOf(copied[i]) = 0
  BY AdaptersFacts DEF IInv, TypesOK
<1>3. Len(rest) <= Len(copied) /\ \A j \in 1..Len(rest) : rest[j] = copied[Visited + j]
  BY DEF IInv, WalkOK
<1>4. Len(rest) \in Nat \ {0} /\ Len(copied) \in Nat /\ Visited = Len(copied) - Len(rest)
  BY <1>1, <1>2 DEF Visited
<1>5. /\ rest' \in Seq(Adapter)
      /\ Len(rest') = Len(rest) - 1
      /\ \A j \in 1..Len(rest') : rest'[j] = rest[j + 1]
  BY <1>1, <1>2, <1>4
<1>6. Visited' = k /\ Visited \in Nat /\ k \in 1..Len(copied) /\ a = copied[k] /\ a \in Adapter
  <2>1. Visited' = Len(copied) - (Len(rest) - 1)
    BY <1>1, <1>5 DEF Visited
  <2>2. a = rest[1] /\ 1 \in 1..Len(rest)
    BY <1>2, <1>4
  <2>3. a = copied[k]
    BY <1>3, <2>2
  <2>4. k \in 1..Len(copied)
    BY <1>3, <1>4
  <2> QED BY <1>2, <1>3, <1>4, <2>1, <2>3, <2>4
<1>7. WalkOK'
  <2>1. \A j \in 1..Len(rest') : rest'[j] = copied[k + j]
    <3> TAKE j \in 1..Len(rest')
    <3>1. j + 1 \in 1..Len(rest) /\ Visited + (j + 1) = k + j
      BY <1>4, <1>5, <1>6
    <3> QED BY <1>3, <1>5, <3>1
  <2>2. Len(rest') <= Len(copied)
    BY <1>3, <1>4, <1>5
  <2> QED BY <1>1, <1>6, <2>1, <2>2 DEF WalkOK
<1>8. /\ DOMAIN ifs = {IfIndexOf(copied[j]) : j \in {i \in 1..Visited : ~Skipped(copied[i])}}
      /\ \A j \in 1..Visited : ~Skipped(copied[j]) => ifs[IfIndexOf(copied[j])] = copied[j].ips
  BY DEF IInv, CollectedOK
<1>9. 1..k = 1..Visited \cup {k}
  BY <1>6
<1>10. CollectedOK'
  <2>1. CASE Skipped(a)
    <3>1. {i \in 1..k : ~Skipped(copied[i])} = {i \in 1..Visited : ~Skipped(copied[i])}
      BY <1>6, <1>9, <2>1
    <3> HIDE DEF k, a
    <3>2. ifs' = ifs
      BY <1>1, <2>1
    <3> QED BY <1>1, <1>6, <1>8, <1>9, <2>1, <3>1, <3>2 DEF CollectedOK
  <2>2. CASE ~Skipped(a)
    <3> DEFINE n == IfIndexOf(a)
    <3>1. ifs' = [i \in DOMAIN ifs \cup {n} |-> IF i = n THEN a.ips ELSE ifs[i]]
      BY <1>1, <2>2
    <3>2. \A j \in 1..Visited : ~Skipped(copied[j]) => IfIndexOf(copied[j]) # n
      <4> TAKE j \in 1..Visited
      <4> HAVE ~Skipped(copied[j])
      <4>1. j \in 1..Len(copied) /\ j # k
        BY <1>4, <1>6
      <4>2. IfIndexOf(copied[j]) # 0
        BY <1>2, <4>1, SkippedFacts
      <4> QED BY <1>2, <1>6, <4>1, <4>2
    <3>3. {i \in 1..k : ~Skipped(copied[i])} = {i \in 1..Visited : ~Skipped(copied[i])} \cup {k}
      BY <1>6, <1>9, <2>2
    <3> HIDE DEF k, a, n
    <3>4. n = IfIndexOf(copied[k]) /\ a.ips = copied[k].ips
      BY <1>6 DEF n
    <3>5. DOMAIN ifs' = {IfIndexOf(copied[j]) : j \in {i \in 1..k : ~Skipped(copied[i])}}
      BY <1>8, <3>1, <3>3, <3>4
    <3>6. \A j \in 1..k : ~Skipped(copied[j]) => ifs'[IfIndexOf(copied[j])] = copied[j].ips
      <4> TAKE j \in 1..k
      <4> HAVE ~Skipped(copied[j])
      <4>1. CASE j = k
        BY <3>1, <3>4, <4>1
      <4>2. CASE j \in 1..Visited
        <5>1. IfIndexOf(copied[j]) \in DOMAIN ifs /\ IfIndexOf(copied[j]) # n
          BY <1>8, <3>2, <4>2
        <5> QED BY <1>8, <3>1, <4>2, <5>1
      <4> QED BY <1>9, <4>1, <4>2
    <3> QED BY <1>1, <1>6, <3>5, <3>6 DEF CollectedOK
  <2> QED BY <2>1, <2>2
<1> QED BY <1>5, <1>7, <1>10

LEMMA StepPreserves == IInv /\ [WindowsNext]_windowsVars => IInv'
<1> SUFFICES ASSUME IInv, [WindowsNext]_windowsVars PROVE IInv'
  OBVIOUS
<1> USE DEF IInv
<1>1. CASE AdaptersChange
  <2>1. /\ adapters' \in Adapters
        /\ UNCHANGED <<phase, sizepointer, buffer, rest, ifs, copied>>
    BY <1>1 DEF AdaptersChange
  <2> QED BY <2>1 DEF TypesOK, SizesOK, WalkOK, CollectedOK, Visited
<1>2. CASE CallFails
  BY <1>2 DEF CallFails, TypesOK, SizesOK, WalkOK, CollectedOK, Visited
<1>3. CASE NoData
  BY <1>3 DEF NoData, TypesOK, SizesOK, WalkOK, CollectedOK, Visited
<1>4. CASE BufferOverflow
  <2>1. /\ sizepointer' = Size(adapters)
        /\ buffer' = Size(adapters)
        /\ phase = "call"
        /\ UNCHANGED <<adapters, phase, rest, ifs, copied>>
    BY <1>4 DEF BufferOverflow
  <2>2. Size(adapters) \in Nat
    BY SizeIsNatural DEF TypesOK
  <2>3. Size(copied') = 0
    BY <2>1, EmptyIsAdapters DEF WalkOK
  <2>4. TypesOK'
    BY <2>1, <2>2 DEF TypesOK
  <2>5. SizesOK'
    BY <2>1, <2>2, <2>3 DEF SizesOK
  <2>6. WalkOK' /\ CollectedOK'
    BY <2>1 DEF WalkOK, CollectedOK, Visited
  <2> QED BY <2>4, <2>5, <2>6
<1>5. CASE CallSucceeds
  <2>1. /\ copied' = adapters /\ rest' = adapters
        /\ phase = "call" /\ phase' = "walk"
        /\ Size(adapters) <= sizepointer
        /\ UNCHANGED <<adapters, sizepointer, buffer, ifs>>
    BY <1>5 DEF CallSucceeds
  <2>2. adapters \in Seq(Adapter) /\ Len(adapters) \in Nat
    BY AdaptersFacts DEF TypesOK
  <2>3. TypesOK' /\ SizesOK'
    BY <2>1, <2>2 DEF TypesOK, SizesOK
  <2>4. Visited' = 0
    BY <2>1, <2>2 DEF Visited
  <2>5. WalkOK'
    BY <2>1, <2>2, <2>4 DEF WalkOK
  <2>6. ifs' = [i \in {} |-> {}] /\ 1..Visited' = {}
    BY <2>1, <2>4 DEF WalkOK
  <2>7. CollectedOK'
    BY <2>6 DEF CollectedOK
  <2> QED BY <2>3, <2>5, <2>7
<1>6. CASE VisitAdapter
  <2>1. WalkOK' /\ CollectedOK' /\ rest' \in Seq(Adapter)
    BY <1>6, VisitCollects
  <2>2. TypesOK' /\ SizesOK'
    BY <1>6, <2>1 DEF VisitAdapter, TypesOK, SizesOK
  <2> QED BY <2>1, <2>2
<1>7. CASE WalkEnds
  BY <1>7 DEF WalkEnds, TypesOK, SizesOK, WalkOK, CollectedOK, Visited
<1>8. CASE UNCHANGED windowsVars
  BY <1>8 DEF windowsVars, TypesOK, SizesOK, WalkOK, CollectedOK, Visited
<1> QED BY <1>1, <1>2, <1>3, <1>4, <1>5, <1>6, <1>7, <1>8 DEF WindowsNext, Listing

LEMMA Invariance == WindowsSpec => []IInv
  BY InitEstablishes, StepPreserves, PTL DEF WindowsSpec

-----------------------------------------------------------------------------
(* Whatever adapters appear between two calls, the IP helper is told of    *)
(* the buffer there is and what it writes fits.                            *)
THEOREM BufferHolds == WindowsSpec => []BufferIsNeverOverrun
<1>1. IInv => BufferIsNeverOverrun
  BY DEF IInv, TypesOK, SizesOK, BufferIsNeverOverrun
<1> QED BY <1>1, Invariance, PTL

(* What is listed are the adapters of one moment that are up and have an   *)
(* index, each with all its addresses, in whatever order they are walked.  *)
THEOREM ListedIsOneMoment == WindowsSpec => []ListingIsASnapshot
<1>1. IInv => ListingIsASnapshot
  <2> SUFFICES ASSUME IInv, phase = "done", NEW i \in IfIndices
               PROVE  LET of == {k \in DOMAIN copied :
                                   /\ copied[k].status # "down"
                                   /\ i \in {copied[k].IfIndex, copied[k].Ipv6IfIndex}}
                      IN  /\ i \in DOMAIN ifs <=> of # {}
                          /\ \A k \in of : ifs[i] = copied[k].ips
    BY DEF ListingIsASnapshot
  <2>1. copied \in Seq(Adapter) /\ DOMAIN copied = 1..Len(copied)
    BY AdaptersFacts DEF IInv, TypesOK
  <2>2. Visited = Len(copied)
    BY <2>1 DEF IInv, WalkOK, Visited
  <2>3. \A k \in 1..Len(copied) :
          (copied[k].status # "down" /\ i \in {copied[k].IfIndex, copied[k].Ipv6IfIndex})
            <=> (~Skipped(copied[k]) /\ IfIndexOf(copied[k]) = i)
    BY <2>1, IndexFacts
  <2>4. /\ DOMAIN ifs = {IfIndexOf(copied[k]) : k \in {j \in 1..Len(copied) : ~Skipped(copied[j])}}
        /\ \A k \in 1..Len(copied) : ~Skipped(copied[k]) => ifs[IfIndexOf(copied[k])] = copied[k].ips
    BY <2>2 DEF IInv, CollectedOK
  <2> QED BY <2>1, <2>3, <2>4
<1> QED BY <1>1, Invariance, PTL

=============================================================================
