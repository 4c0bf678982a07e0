-------------------------- MODULE AsyncCallbackQueue --------------------------
(***************************************************************************)
(* The queue between a platform's notification thread and a watcher whose  *)
(* owner pulls (async_callback.rs). It is not a queue of snapshots: it     *)
(* holds the latest one, and a push overwrites what was not taken. Each    *)
(* operation runs under the queue's own mutex and is atomic.               *)
(*                                                                         *)
(* A consumer that finds it empty parks: an async one leaves a waker       *)
(* behind, a blocking one waits on the condition variable. Either way the  *)
(* next push wakes it.                                                     *)
(***************************************************************************)
EXTENDS UpdateCursor

Queue == [latest : Lists \cup {NoList},   \* NoList: nothing to take
          waker  : BOOLEAN,               \* a consumer is parked
          woken  : BOOLEAN]               \* it was woken and has not looked

EmptyQueue == [latest |-> NoList, waker |-> FALSE, woken |-> FALSE]

(* Slip: the snapshot is put there and nobody told.                        *)
PushedSilently(q, list) == [q EXCEPT !.latest = list]

(* Slip: a snapshot that was not taken yet is kept, the newer one lost.    *)
PushedIfEmpty(q, list) ==
  [latest |-> IF q.latest = NoList THEN list ELSE q.latest,
   waker  |-> FALSE,
   woken  |-> q.woken \/ q.waker]

(* push_async_list                                                         *)
Pushed(q, list) ==
  [latest |-> list, waker |-> FALSE, woken |-> q.woken \/ q.waker]

(* next_async_list and wait_next_list find a snapshot...                   *)
Taken(q) == [q EXCEPT !.latest = NoList, !.woken = FALSE]

(* ... or do not.                                                          *)
Parked(q) == [q EXCEPT !.waker = TRUE, !.woken = FALSE]

=============================================================================
