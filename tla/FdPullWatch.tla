----------------------------- MODULE FdPullWatch -----------------------------
(***************************************************************************)
(* AsyncWatch and BlockingWatch of watch_fd.rs: watchers whose owner pulls *)
(* Updates out by calling changed(), on Linux, macOS and the BSDs. There   *)
(* is no thread: everything happens inside changed(), which waits for the  *)
(* event socket in one of three ways.                                      *)
(*                                                                         *)
(*   "blocking"  poll, which looks at the socket itself;                   *)
(*   "async_io"  AsyncIo: each wait arms the reactor anew, which therefore *)
(*               also looks at the socket itself;                          *)
(*   "tokio"     Tokio: edge-triggered. The runtime keeps a readiness      *)
(*               flag, sets it when the socket WAKES, and the watcher      *)
(*               clears it after draining.                                 *)
(*                                                                         *)
(* An async owner may drop the future of changed() while it is pending and *)
(* call changed() again later.                                             *)
(***************************************************************************)
EXTENDS EventSocket

VARIABLES
  mode,      \* how this watcher waits
  pc,        \* where its owner is
  cursor,    \* UpdateCursor
  initial,   \* initial_update, NoUpdate once taken
  yielded,   \* the last Update changed() returned
  failed,    \* readiness_failed
  edge,      \* the socket woke and the tokio runtime has not looked yet
  ready,     \* tokio's readiness flag
  fresh,     \* it was set again since readable() returned (tokio's tick)
  missed     \* ghost: the last listing failed for a reason of its own

tokioVars == <<edge, ready, fresh>>
watchVars == <<mode, pc, cursor, initial, yielded, failed, tokioVars, missed>>
vars == <<socketVars, watchVars>>

Modes == {"blocking", "async_io", "tokio"}

Construction == {"open", "register", "firstList", "firstResolve"}
InsideChanged == {"wait", "drain", "clear", "list", "resolve"}

States == Construction \cup InsideChanged \cup
          {"idle",      \* no call of changed() in progress
           "pending",   \* in changed(), future::pending() for ever
           "error", "dropped"}

TypeOK ==
  /\ SocketTypeOK
  /\ mode \in Modes
  /\ pc \in States
  /\ cursor \in Cursor
  /\ initial \in Update \cup {NoUpdate}
  /\ yielded \in Update \cup {NoUpdate}
  /\ failed \in BOOLEAN
  /\ edge \in BOOLEAN
  /\ ready \in BOOLEAN
  /\ fresh \in BOOLEAN
  /\ missed \in BOOLEAN

Init ==
  /\ SocketInit
  /\ mode \in Modes
  /\ pc = "open"
  /\ cursor = DefaultCursor
  /\ initial = NoUpdate
  /\ yielded = NoUpdate
  /\ failed = FALSE
  /\ edge = FALSE
  /\ ready = FALSE
  /\ fresh = FALSE
  /\ missed = FALSE

-----------------------------------------------------------------------------
(* Construction: watch_interfaces_async, watch_interfaces_blocking.        *)

Abort ==
  /\ pc' = "error"
  /\ sock' = Closed(sock)

OpenSocket ==
  /\ pc = "open"
  /\ \/ /\ sock' = NewSocket(sock.kind)
        /\ pc' = IF mode = "blocking" THEN "firstList" ELSE "register"
     \/ Abort
  /\ UNCHANGED <<hostVars, unsent, mode, cursor, initial, yielded, failed, tokioVars, missed>>

(* A::register. Registering with the runtime's poller also reports a       *)
(* socket that is already readable.                                        *)
Register ==
  /\ pc = "register"
  /\ \/ /\ pc' = "firstList"
        /\ edge' = (mode = "tokio" /\ Readable(sock))
        /\ UNCHANGED sock
     \/ /\ Abort
        /\ UNCHANGED edge
  /\ UNCHANGED <<hostVars, unsent, mode, cursor, initial, yielded, failed, ready, fresh, missed>>

BeginFirstListing ==
  /\ pc = "firstList"
  /\ \/ /\ TakeSnapshot
        /\ pc' = "firstResolve"
        /\ UNCHANGED sock
     \/ /\ Abort
        /\ UNCHANGED hostVars
  /\ UNCHANGED <<unsent, mode, cursor, initial, yielded, failed, tokioVars, missed>>

(* Slip: the initial Update is computed without advancing the cursor.      *)
FinishFirstListingFreshCursor ==
  /\ pc = "firstResolve"
  /\ \E list \in ListingResults :
       IF list = NoList
       THEN /\ Abort
            /\ UNCHANGED initial
       ELSE /\ pc' = "idle"
            /\ initial' = UpdateOf(cursor, list)
            /\ UNCHANGED sock
  /\ UNCHANGED <<hostVars, unsent, mode, cursor, yielded, failed, tokioVars, missed>>

(* The initial Update is computed here and kept for the first changed().   *)
FinishFirstListing ==
  /\ pc = "firstResolve"
  /\ \E list \in ListingResults :
       IF list = NoList
       THEN /\ Abort
            /\ UNCHANGED <<cursor, initial>>
       ELSE /\ pc' = "idle"
            /\ cursor' = Advanced(cursor, list)
            /\ initial' = UpdateOf(cursor, list)
            /\ UNCHANGED sock
  /\ UNCHANGED <<hostVars, unsent, mode, yielded, failed, tokioVars, missed>>

-----------------------------------------------------------------------------
(* changed().                                                              *)

(* The first call returns the initial Update, a later one starts waiting.  *)
CallChanged ==
  /\ pc = "idle"
  /\ IF initial # NoUpdate
     THEN /\ yielded' = initial
          /\ initial' = NoUpdate
          /\ UNCHANGED pc
     ELSE /\ pc' = IF failed THEN "pending" ELSE "wait"
          /\ UNCHANGED <<yielded, initial>>
  /\ UNCHANGED <<socketVars, mode, cursor, failed, tokioVars, missed>>

(* What the wait looks at.                                                 *)
WaitIsOver == IF mode = "tokio" THEN ready ELSE Readable(sock)

Wake ==
  /\ pc = "wait"
  /\ WaitIsOver
  /\ pc' = "drain"
  /\ fresh' = FALSE
  /\ UNCHANGED <<socketVars, mode, cursor, initial, yielded, failed, edge, ready, missed>>

(* readable() fails: this call and all later ones are pending for ever.    *)
ReadinessFails ==
  /\ pc = "wait"
  /\ mode # "blocking"
  /\ failed' = TRUE
  /\ pc' = "pending"
  /\ UNCHANGED <<socketVars, mode, cursor, initial, yielded, tokioVars, missed>>

(* one recv of drain_event_socket                                          *)
Drain ==
  /\ pc = "drain"
  /\ sock' = Received(sock)
  /\ pc' = IF ~DrainEnds(sock) THEN "drain"
           ELSE IF mode = "blocking" THEN "list" ELSE "clear"
  /\ UNCHANGED <<hostVars, unsent, mode, cursor, initial, yielded, failed, tokioVars, missed>>

(* clear_ready: tokio's spares a readiness newer than the guard, AsyncIo's *)
(* does nothing.                                                           *)
ClearReady ==
  /\ pc = "clear"
  /\ pc' = "list"
  /\ ready' = (ready /\ fresh)
  /\ UNCHANGED <<socketVars, mode, cursor, initial, yielded, failed, edge, fresh, missed>>

BeginListing ==
  /\ pc = "list"
  /\ \/ /\ TakeSnapshot
        /\ pc' = "resolve"
        /\ UNCHANGED missed
     \/ /\ pc' = "wait"
        /\ missed' = TRUE
        /\ UNCHANGED hostVars
  /\ UNCHANGED <<unsent, sock, mode, cursor, initial, yielded, failed, tokioVars>>

(* Slip: a failed listing is taken for a snapshot.                         *)
FinishListingUnchecked ==
  /\ pc = "resolve"
  /\ \E list \in ListingResults :
       /\ cursor' = Advanced(cursor, list)
       /\ yielded' = UpdateOf(cursor, list)
  /\ pc' = "idle"
  /\ missed' = FALSE
  /\ UNCHANGED <<socketVars, mode, initial, failed, tokioVars>>

(* Slip: readiness is cleared after the listing instead of before it.      *)
FinishListingThenClear ==
  /\ pc = "resolve"
  /\ \E list \in ListingResults :
       IF list # NoList /\ Emits(cursor, list)
       THEN /\ cursor' = Advanced(cursor, list)
            /\ yielded' = UpdateOf(cursor, list)
            /\ pc' = "idle"
       ELSE /\ pc' = "wait"
            /\ UNCHANGED <<cursor, yielded>>
  /\ missed' = FALSE
  /\ ready' = FALSE
  /\ UNCHANGED <<socketVars, mode, initial, failed, edge, fresh>>

(* The listing is complete: return the Update if there is one, or wait on. *)
FinishListing ==
  /\ pc = "resolve"
  /\ \E list \in ListingResults :
       IF list # NoList /\ Emits(cursor, list)
       THEN /\ cursor' = Advanced(cursor, list)
            /\ yielded' = UpdateOf(cursor, list)
            /\ pc' = "idle"
       ELSE /\ pc' = "wait"
            /\ UNCHANGED <<cursor, yielded>>
  /\ missed' = FALSE
  /\ UNCHANGED <<socketVars, mode, initial, failed, tokioVars>>

-----------------------------------------------------------------------------
(* The owner, the tokio runtime and the kernel.                            *)

(* The future is dropped. It is suspended at no other place than these.    *)
CancelChanged ==
  /\ pc \in {"wait", "pending"}
  /\ mode # "blocking"
  /\ pc' = "idle"
  /\ UNCHANGED <<socketVars, mode, cursor, initial, yielded, failed, tokioVars, missed>>

DropWatch ==
  /\ pc = "idle"
  /\ pc' = "dropped"
  /\ sock' = Closed(sock)
  /\ UNCHANGED <<hostVars, unsent, mode, cursor, initial, yielded, failed, tokioVars, missed>>

(* The runtime's poller reports the edge, if the socket is still readable. *)
RuntimeSeesEdge ==
  /\ edge
  /\ edge' = FALSE
  /\ ready' = (ready \/ Readable(sock))
  /\ fresh' = (fresh \/ Readable(sock))
  /\ UNCHANGED <<socketVars, mode, pc, cursor, initial, yielded, failed, missed>>

KernelChanges ==
  /\ OsChanges
  /\ UNCHANGED watchVars

KernelNotifies ==
  /\ OsNotifies
  /\ edge' = (edge \/ (DeliveryWakes(sock) /\ mode = "tokio"
                         /\ pc \notin {"open", "register"}))
  /\ UNCHANGED <<mode, pc, cursor, initial, yielded, failed, ready, fresh, missed>>

Changed == Wake \/ Drain \/ ClearReady \/ BeginListing \/ FinishListing

Next ==
  \/ OpenSocket \/ Register \/ BeginFirstListing \/ FinishFirstListing
  \/ CallChanged \/ Changed \/ ReadinessFails
  \/ CancelChanged \/ DropWatch
  \/ RuntimeSeesEdge \/ KernelChanges \/ KernelNotifies

Spec == Init /\ [][Next]_vars

(* A wait that is over is acted upon, the runtime looks at its edges and   *)
(* the kernel queues its notifications. Whether changed() is called, given *)
(* up, or fails to wait is nobody's obligation.                            *)
FairSpec ==
  /\ Spec
  /\ WF_vars(Changed)
  /\ WF_vars(RuntimeSeesEdge)
  /\ WF_vars(KernelNotifies)

-----------------------------------------------------------------------------
(* Properties.                                                             *)

(* Nothing is on its way that would end the wait for the socket.           *)
NoWakeupComing ==
  /\ unsent = 0
  /\ IF mode = "tokio" THEN ~edge /\ ~ready ELSE ~Readable(sock)

(* The one known hole: with Tokio, a drain that the report of an overrun   *)
(* ends leaves the socket full, and a full netlink socket stays silent.    *)
TokioOverrun == mode = "tokio" /\ sock.congested

(* A watcher nobody is going to wake has taken in the configuration as it  *)
(* is now, also when an earlier future of changed() was dropped half-way.  *)
(* Excused are a listing that failed by itself, which the library          *)
(* swallows, and TokioOverrun.                                             *)
NoLostChange ==
  (pc \in {"idle", "wait"} /\ NoWakeupComing /\ ~missed /\ ~TokioOverrun)
    => cursor.prev_list = os

(* The stream is closed; so it is once readable() has failed, for this     *)
(* call of changed() and for all later ones (watch_fd.rs:46-55).           *)
Over == failed \/ pc \in {"error", "dropped"}

(* The owner gets the Updates UpdateStream promises, the initial one       *)
(* first, whatever calls of changed() are cancelled in between, and none   *)
(* after a failure, however often the pending call is given up.            *)
Stream == INSTANCE UpdateStream WITH last <- yielded, closed <- Over

ImplementsUpdateStream == Stream!Spec

StillWaiting == pc \in InsideChanged /\ ~failed /\ cursor.prev_list # os

(* A changed() that waits while the configuration differs from what it     *)
(* last took in returns, with the same two excuses.                        *)
ChangedReturns ==
  StillWaiting ~> (~StillWaiting \/ missed \/ TokioOverrun)

(* lib.rs:411-414: "Subsequent calls wait until there is a change". With   *)
(* no excuse for an overrun, which the documentation does not mention.     *)
ChangedReturnsAsDocumented ==
  StillWaiting ~> (~StillWaiting \/ missed)

=============================================================================
