---------------------------- MODULE UpdateStream ----------------------------
(***************************************************************************)
(* What every watcher of this library promises its owner, whatever the     *)
(* platform and whatever the interface (callback, async, blocking):        *)
(*                                                                         *)
(*   - the first Update is the initial one, a diff against no interface;   *)
(*   - every later Update is not initial, differs from the Update the      *)
(*     owner got before it, and is a diff against exactly that Update, so  *)
(*     that an owner who applies the diffs one after another never drifts; *)
(*   - once the stream is closed nothing is delivered any more.            *)
(*                                                                         *)
(* The watchers are shown to implement this specification, each with its   *)
(* own mapping of `last` and `closed`.                                     *)
(***************************************************************************)
EXTENDS UpdateCursor

VARIABLES
  last,    \* the last Update the owner received, NoUpdate before the first
  closed   \* no Update will be delivered any more

vars == <<last, closed>>

TypeOK ==
  /\ last \in Update \cup {NoUpdate}
  /\ closed \in BOOLEAN

Init ==
  /\ last = NoUpdate
  /\ closed = FALSE

DeliverInitial ==
  /\ ~closed
  /\ last = NoUpdate
  /\ \E list \in Lists :
       last' = [is_initial |-> TRUE, base |-> EmptyList, interfaces |-> list]
  /\ UNCHANGED closed

DeliverChange ==
  /\ ~closed
  /\ last # NoUpdate
  /\ \E list \in Lists \ {last.interfaces} :
       last' = [is_initial |-> FALSE, base |-> last.interfaces, interfaces |-> list]
  /\ UNCHANGED closed

Close ==
  /\ closed' = TRUE
  /\ UNCHANGED last

Next == DeliverInitial \/ DeliverChange \/ Close

Spec == Init /\ [][Next]_vars

=============================================================================
