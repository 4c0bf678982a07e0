----------------------------- MODULE DiffReplay -----------------------------
(***************************************************************************)
(* A subscriber that keeps its own record of the addresses and interfaces  *)
(* by applying the diffs of the Updates it gets, and never looks at        *)
(* Update::interfaces. The snapshots come from the platform with their     *)
(* addresses in any order and with duplicates; Interface::normalise makes  *)
(* them canonical and UpdateCursor::advance decides whether there is an    *)
(* Update.                                                                 *)
(***************************************************************************)
EXTENDS InterfaceDiff, Integers, Sequences, SequencesExt

CONSTANTS
  NoList, NoUpdate,
  MaxVector   \* bound: the longest address vector a platform returns

ASSUME AddrsAreOrdered == Addrs \subseteq Int

ASSUME MaxVectorAssumption == MaxVector \in Nat

Cursors == INSTANCE UpdateCursor WITH Lists <- List, EmptyList <- NoInterfaces

ASSUME NoUpdateAssumption == NoUpdate \notin Cursors!Update

VARIABLES
  vectors,   \* the last snapshot as the code holds it, with vectors
  cursor,    \* the UpdateCursor
  known,     \* the subscriber's record of the interfaces
  addrs      \* its record of the addresses: (index, address) pairs

vars == <<vectors, cursor, known, addrs>>

(* slice::sort: the vector rearranged so that it ascends.                  *)
Sorted(ips) ==
  LET p == CHOOSE p \in Bijection(DOMAIN ips, DOMAIN ips) :
             \A i, j \in DOMAIN ips : i < j => ips[p[i]] <= ips[p[j]]
  IN  [i \in DOMAIN ips |-> ips[p[i]]]

(* Vec::dedup, address by address: what is kept of the first n. One that   *)
(* equals its neighbour on the left is not.                                *)
Kept(ips) ==
  LET kept[n \in 0..Len(ips)] ==
        IF n = 0 THEN <<>>
        ELSE IF n > 1 /\ ips[n] = ips[n - 1] THEN kept[n - 1]
        ELSE Append(kept[n - 1], ips[n])
  IN  kept

Dedup(ips) == Kept(ips)[Len(ips)]

(* Slip: dedup without the sort only removes neighbouring duplicates.      *)
NormaliseUnsorted(ips) == Dedup(ips)

(* Interface::normalise                                                    *)
Normalise(ips) == Dedup(Sorted(ips))

(* What a platform can return for one interface and for all of them.       *)
RawInterface ==
  [name : Names, hw_addr : HwAddrs, ips : BoundedSeq(Addrs, MaxVector)]

RawLists == UNION {[present -> RawInterface] : present \in SUBSET Indices}

Normalised(raw) == [i \in DOMAIN raw |-> [raw[i] EXCEPT !.ips = Normalise(@)]]

(* The List the normalised vectors stand for.                              *)
ListOf(vs) == [i \in DOMAIN vs |-> [vs[i] EXCEPT !.ips = ToSet(@)]]

Init ==
  /\ vectors = NoInterfaces
  /\ cursor = Cursors!DefaultCursor
  /\ known = NoInterfaces
  /\ addrs = {}

(* The subscriber takes a modified interface apart as the diff tells it to *)
(* and looks up only the attributes the diff says have changed.            *)
Patched(interface, diff, now) ==
  [name    |-> IF diff.name_changed THEN now.name ELSE interface.name,
   hw_addr |-> IF diff.hw_addr_changed THEN now.hw_addr ELSE interface.hw_addr,
   ips     |-> (interface.ips \ diff.addrs_removed) \cup diff.addrs_added]

Replayed(record, diff, list) ==
  [i \in (DOMAIN record \ DOMAIN diff.removed) \cup DOMAIN diff.added |->
     IF i \in DOMAIN diff.added THEN diff.added[i]
     ELSE IF i \in DOMAIN diff.modified THEN Patched(record[i], diff.modified[i], list[i])
     ELSE record[i]]

(* A listing and UpdateCursor::advance, and the subscriber's bookkeeping   *)
(* if it gets an Update.                                                   *)
Observe(raw) ==
  LET seen == Normalised(raw)
      list == ListOf(seen)
      diff == DiffFrom(list, Cursors!UpdateOf(cursor, list).base)
  IN  /\ vectors' = seen
      /\ IF Cursors!Emits(cursor, list)
         THEN /\ cursor' = Cursors!Advanced(cursor, list)
              /\ known' = Replayed(known, diff, list)
              /\ addrs' = (addrs \ AddrsRemoved(diff)) \cup AddrsAdded(diff)
         ELSE UNCHANGED <<cursor, known, addrs>>

Next == \E raw \in RawLists : Observe(raw)

Spec == Init /\ [][Next]_vars

-----------------------------------------------------------------------------
(* Properties.                                                             *)

(* A subscriber that only applies diffs never drifts from the snapshots,   *)
(* neither in the interfaces nor in the addresses it believes to exist.    *)
RecordIsCurrent ==
  /\ known = cursor.prev_list
  /\ addrs = AddrsOf(cursor.prev_list)

(* The diff never reports an address as added that the subscriber already  *)
(* had, or as removed that it did not have, and after the first Update     *)
(* never reports a change when there is none.                              *)
DiffIsExact ==
  [][LET diff == DiffFrom(cursor'.prev_list, cursor.prev_list)
     IN  /\ AddrsAdded(diff) \cap addrs = {}
         /\ AddrsRemoved(diff) \subseteq addrs
         /\ NothingChanged(diff) <=> cursor'.prev_list = cursor.prev_list]_cursor

(* lib.rs:183-190: comparing normalised vectors is comparing sets, so an   *)
(* Update is due (the code's vectors differ) exactly when a name, hardware *)
(* address or set of addresses differs, whatever order they came in.       *)
OrderNeverMatters ==
  [][vectors' = vectors <=> ListOf(vectors') = ListOf(vectors)]_vars

=============================================================================
