---------------------------- MODULE UpdateCursor ----------------------------
(***************************************************************************)
(* The UpdateCursor of lib.rs: what every watcher keeps to turn a stream   *)
(* of interface snapshots into a stream of Updates.                        *)
(*                                                                         *)
(* A snapshot is opaque here (a member of Lists) and an Update is named by *)
(* the two snapshots its diff is computed from: `base` and `interfaces`.   *)
(* That the diff is a function of that pair, and what it says of it, is    *)
(* the subject of InterfaceDiff.                                           *)
(***************************************************************************)
CONSTANTS
  Lists,      \* the interface snapshots that can be observed
  EmptyList,  \* List::default(): no interface at all
  NoList,     \* "the listing failed": not a snapshot
  NoUpdate    \* "no Update yet": not an Update

Cursor == [prev_list : Lists, initial_pending : BOOLEAN]

Update == [is_initial : BOOLEAN, base : Lists, interfaces : Lists]

ASSUME ListsAssumption ==
  /\ EmptyList \in Lists
  /\ NoList \notin Lists
  /\ NoUpdate \notin Update

DefaultCursor == [prev_list |-> EmptyList, initial_pending |-> TRUE]

(* advance returns Some: always the first time, later only on a change.    *)
Emits(cursor, list) == cursor.initial_pending \/ list # cursor.prev_list

(* Slip: the flag is never cleared.                                        *)
AdvancedStillInitial(cursor, list) == [cursor EXCEPT !.prev_list = list]

(* The cursor advance leaves behind (the very same one when it emits       *)
(* nothing).                                                               *)
Advanced(cursor, list) == [prev_list |-> list, initial_pending |-> FALSE]

(* The Update advance returns: against the empty list the first time, then *)
(* against the snapshot of the call before.                                *)
UpdateOf(cursor, list) ==
  [is_initial |-> cursor.initial_pending,
   base       |-> IF cursor.initial_pending THEN EmptyList ELSE cursor.prev_list,
   interfaces |-> list]

=============================================================================
