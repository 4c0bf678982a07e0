--------------------------- MODULE FdCallbackWatch ---------------------------
(***************************************************************************)
(* watch_interfaces_with_callback on Linux, macOS and the BSDs             *)
(* (watch_fd.rs): the caller's thread constructs the watcher, delivers the *)
(* initial Update and spawns a thread that polls the event socket and a    *)
(* pipe; dropping the handle closes the pipe and waits for that thread.    *)
(*                                                                         *)
(* The callback is the user's: it runs for as long as it likes and may     *)
(* panic. It does not drop its own handle, which the documentation of      *)
(* WatchHandle forbids.                                                    *)
(***************************************************************************)
EXTENDS EventSocket

VARIABLES
  upc,        \* the thread that owns the handle
  wpc,        \* the watcher thread
  cursor,     \* UpdateCursor, owned by whoever constructs Updates
  delivered,  \* the last Update the callback was called with
  pipe,       \* "none", "open", "hungup": the writing end was closed
  hup,        \* fds[1].revents # 0 in the last poll
  completed,  \* complete_tx was dropped
  panicked,   \* the callback unwound the watcher thread
  missed,     \* ghost: the last listing failed for a reason of its own
  lateCalls   \* ghost: callbacks begun since the handle's drop began

watchVars == <<upc, wpc, cursor, delivered, pipe, hup, completed, panicked, missed, lateCalls>>
vars == <<socketVars, watchVars>>

OwnerStates ==
  {"open", "pipe", "list", "resolve", "initial", "spawn",  \* start_watcher_thread
   "watching",                                             \* owns a WatchHandle
   "dropping", "dropped",                                  \* WatchHandle::drop
   "error", "unwound"}                                     \* construction failed

WatcherStates ==
  {"none", "poll", "drain", "list", "resolve", "callback", "check", "leaving", "gone"}

TypeOK ==
  /\ SocketTypeOK
  /\ upc \in OwnerStates
  /\ wpc \in WatcherStates
  /\ cursor \in Cursor
  /\ delivered \in Update \cup {NoUpdate}
  /\ pipe \in {"none", "open", "hungup"}
  /\ hup \in BOOLEAN
  /\ completed \in BOOLEAN
  /\ panicked \in BOOLEAN
  /\ missed \in BOOLEAN
  /\ lateCalls \in Nat

Init ==
  /\ SocketInit
  /\ upc = "open"
  /\ wpc = "none"
  /\ cursor = DefaultCursor
  /\ delivered = NoUpdate
  /\ pipe = "none"
  /\ hup = FALSE
  /\ completed = FALSE
  /\ panicked = FALSE
  /\ missed = FALSE
  /\ lateCalls = 0

-----------------------------------------------------------------------------
(* The owner: start_watcher_thread, then the handle's drop. A failure on   *)
(* the way, and a panic of the initial callback, drop what was opened.     *)

(* open_event_socket: socket and bind, so the subscription is live before  *)
(* anything is listed.                                                     *)
OpenSocket ==
  /\ upc = "open"
  /\ \/ /\ sock' = NewSocket(sock.kind)
        /\ upc' = "pipe"
     \/ /\ upc' = "error"
        /\ UNCHANGED sock
  /\ UNCHANGED <<hostVars, unsent, wpc, cursor, delivered, pipe, hup,
                 completed, panicked, missed, lateCalls>>

(* Slip: the socket is not closed when there is no pipe to be had.         *)
CreatePipeOrReturn ==
  /\ upc = "pipe"
  /\ \/ pipe' = "open" /\ upc' = "list"
     \/ pipe' = pipe /\ upc' = "error"
  /\ UNCHANGED <<socketVars, wpc, cursor, delivered, hup,
                 completed, panicked, missed, lateCalls>>

CreatePipe ==
  /\ upc = "pipe"
  /\ \/ /\ pipe' = "open"
        /\ upc' = "list"
        /\ UNCHANGED sock
     \/ /\ upc' = "error"
        /\ sock' = Closed(sock)
        /\ UNCHANGED pipe
  /\ UNCHANGED <<hostVars, unsent, wpc, cursor, delivered, hup,
                 completed, panicked, missed, lateCalls>>

BeginInitialListing ==
  /\ upc = "list"
  /\ \/ /\ TakeSnapshot
        /\ upc' = "resolve"
        /\ UNCHANGED <<sock, pipe>>
     \/ /\ upc' = "error"
        /\ sock' = Closed(sock)
        /\ pipe' = "none"
        /\ UNCHANGED hostVars
  /\ UNCHANGED <<unsent, wpc, cursor, delivered, hup,
                 completed, panicked, missed, lateCalls>>

(* The callback is entered with the initial Update.                        *)
FinishInitialListing ==
  /\ upc = "resolve"
  /\ \E list \in ListingResults :
       IF list = NoList
       THEN /\ upc' = "error"
            /\ sock' = Closed(sock)
            /\ pipe' = "none"
            /\ UNCHANGED <<cursor, delivered>>
       ELSE /\ upc' = "initial"
            /\ cursor' = Advanced(cursor, list)
            /\ delivered' = UpdateOf(cursor, list)
            /\ UNCHANGED <<sock, pipe>>
  /\ UNCHANGED <<hostVars, unsent, wpc, hup, completed, panicked, missed, lateCalls>>

InitialCallbackReturns ==
  /\ upc = "initial"
  /\ upc' = "spawn"
  /\ UNCHANGED <<socketVars, wpc, cursor, delivered, pipe, hup,
                 completed, panicked, missed, lateCalls>>

(* The initial callback panics, or thread::spawn does.                     *)
ConstructionUnwinds ==
  /\ upc \in {"initial", "spawn"}
  /\ upc' = "unwound"
  /\ sock' = Closed(sock)
  /\ pipe' = "none"
  /\ UNCHANGED <<hostVars, unsent, wpc, cursor, delivered, hup,
                 completed, panicked, missed, lateCalls>>

SpawnWatcher ==
  /\ upc = "spawn"
  /\ upc' = "watching"
  /\ wpc' = "poll"
  /\ UNCHANGED <<socketVars, cursor, delivered, pipe, hup,
                 completed, panicked, missed, lateCalls>>

(* drop(self.pipefd.take())                                                *)
DropBegins ==
  /\ upc = "watching"
  /\ upc' = "dropping"
  /\ pipe' = "hungup"
  /\ UNCHANGED <<socketVars, wpc, cursor, delivered, hup,
                 completed, panicked, missed, lateCalls>>

(* Slip: the drop does not wait for the watcher thread.                    *)
DropReturnsAtOnce ==
  /\ upc = "dropping"
  /\ upc' = "dropped"
  /\ UNCHANGED <<socketVars, wpc, cursor, delivered, pipe, hup,
                 completed, panicked, missed, lateCalls>>

(* complete.recv() fails, the sender being gone                            *)
DropReturns ==
  /\ upc = "dropping"
  /\ completed
  /\ upc' = "dropped"
  /\ UNCHANGED <<socketVars, wpc, cursor, delivered, pipe, hup,
                 completed, panicked, missed, lateCalls>>

-----------------------------------------------------------------------------
(* The watcher thread.                                                     *)

(* poll returns. Returning early for a signal leaves both revents zero and *)
(* comes straight back here.                                               *)
Poll ==
  /\ wpc = "poll"
  /\ Readable(sock) \/ pipe = "hungup"
  /\ hup' = (pipe = "hungup")
  /\ wpc' = IF Readable(sock) THEN "drain" ELSE "check"
  /\ UNCHANGED <<socketVars, upc, cursor, delivered, pipe,
                 completed, panicked, missed, lateCalls>>

(* one recv of drain_event_socket                                          *)
Drain ==
  /\ wpc = "drain"
  /\ sock' = Received(sock)
  /\ wpc' = IF DrainEnds(sock) THEN "list" ELSE "drain"
  /\ UNCHANGED <<hostVars, unsent, upc, cursor, delivered, pipe, hup,
                 completed, panicked, missed, lateCalls>>

(* getifaddrs; when it fails the event is swallowed                        *)
BeginListing ==
  /\ wpc = "list"
  /\ \/ /\ TakeSnapshot
        /\ wpc' = "resolve"
        /\ UNCHANGED missed
     \/ /\ wpc' = "check"
        /\ missed' = TRUE
        /\ UNCHANGED hostVars
  /\ UNCHANGED <<unsent, sock, upc, cursor, delivered, pipe, hup,
                 completed, panicked, lateCalls>>

(* Slip: a failed listing is taken for a snapshot.                         *)
FinishListingUnchecked ==
  /\ wpc = "resolve"
  /\ \E list \in ListingResults :
       /\ cursor' = Advanced(cursor, list)
       /\ delivered' = UpdateOf(cursor, list)
  /\ wpc' = "callback"
  /\ missed' = FALSE
  /\ UNCHANGED <<socketVars, upc, pipe, hup, completed, panicked, lateCalls>>

(* Slip: the socket is drained after the listing instead of before it.     *)
FinishListingThenDrain ==
  /\ wpc = "resolve"
  /\ \E list \in ListingResults :
       IF list # NoList /\ Emits(cursor, list)
       THEN /\ cursor' = Advanced(cursor, list)
            /\ delivered' = UpdateOf(cursor, list)
            /\ wpc' = "callback"
       ELSE /\ wpc' = "check"
            /\ UNCHANGED <<cursor, delivered>>
  /\ missed' = FALSE
  /\ sock' = [sock EXCEPT !.queue = 0, !.error = FALSE, !.congested = FALSE]
  /\ UNCHANGED <<hostVars, unsent, upc, pipe, hup, completed, panicked, lateCalls>>

(* The listing is complete: advance the cursor, and enter the callback if  *)
(* that yields an Update.                                                  *)
FinishListing ==
  /\ wpc = "resolve"
  /\ \E list \in ListingResults :
       IF list # NoList /\ Emits(cursor, list)
       THEN /\ cursor' = Advanced(cursor, list)
            /\ delivered' = UpdateOf(cursor, list)
            /\ wpc' = "callback"
            /\ lateCalls' = IF upc = "dropping" THEN lateCalls + 1 ELSE lateCalls
       ELSE /\ wpc' = "check"
            /\ UNCHANGED <<cursor, delivered, lateCalls>>
  /\ missed' = FALSE
  /\ UNCHANGED <<socketVars, upc, pipe, hup, completed, panicked>>

CallbackReturns ==
  /\ wpc = "callback"
  /\ wpc' = "check"
  /\ UNCHANGED <<socketVars, upc, cursor, delivered, pipe, hup,
                 completed, panicked, missed, lateCalls>>

CallbackPanics ==
  /\ wpc = "callback"
  /\ wpc' = "leaving"
  /\ panicked' = TRUE
  /\ UNCHANGED <<socketVars, upc, cursor, delivered, pipe, hup,
                 completed, missed, lateCalls>>

(* Slip: the pipe is looked at only when the socket is quiet.              *)
CheckPipeWhenQuiet ==
  /\ wpc = "check"
  /\ wpc' = IF hup /\ ~Readable(sock) THEN "leaving" ELSE "poll"
  /\ UNCHANGED <<socketVars, upc, cursor, delivered, pipe, hup,
                 completed, panicked, missed, lateCalls>>

(* fds[1].revents # 0: break                                               *)
CheckPipe ==
  /\ wpc = "check"
  /\ wpc' = IF hup THEN "leaving" ELSE "poll"
  /\ UNCHANGED <<socketVars, upc, cursor, delivered, pipe, hup,
                 completed, panicked, missed, lateCalls>>

(* Slip: completion is signalled only by a loop that was left in order.    *)
DropSenderUnlessPanicked ==
  /\ wpc = "leaving"
  /\ ~completed
  /\ ~panicked
  /\ completed' = TRUE
  /\ UNCHANGED <<socketVars, upc, wpc, cursor, delivered, pipe, hup,
                 panicked, missed, lateCalls>>

(* drop(complete_tx), or the unwinding drops it                            *)
DropSender ==
  /\ wpc = "leaving"
  /\ ~completed
  /\ completed' = TRUE
  /\ wpc' = IF sock.open THEN "leaving" ELSE "gone"
  /\ UNCHANGED <<socketVars, upc, cursor, delivered, pipe, hup,
                 panicked, missed, lateCalls>>

(* The closure's socket and pipe are dropped: after complete_tx when the   *)
(* loop was left, in any order when the thread unwinds.                    *)
DropSocket ==
  /\ wpc = "leaving"
  /\ sock.open
  /\ completed \/ panicked
  /\ sock' = Closed(sock)
  /\ wpc' = IF completed THEN "gone" ELSE "leaving"
  /\ UNCHANGED <<hostVars, unsent, upc, cursor, delivered, pipe, hup,
                 completed, panicked, missed, lateCalls>>

-----------------------------------------------------------------------------
Owner ==
  \/ OpenSocket \/ CreatePipe \/ BeginInitialListing \/ FinishInitialListing
  \/ InitialCallbackReturns \/ ConstructionUnwinds \/ SpawnWatcher
  \/ DropBegins \/ DropReturns

Watcher ==
  \/ Poll \/ Drain \/ BeginListing \/ FinishListing
  \/ CallbackReturns \/ CallbackPanics \/ CheckPipe
  \/ DropSender \/ DropSocket

Kernel ==
  /\ OsChanges \/ OsNotifies
  /\ UNCHANGED watchVars

Next == Owner \/ Watcher \/ Kernel

Spec == Init /\ [][Next]_vars

(* The watcher thread is scheduled, which includes that the callback comes *)
(* back; a drop that can return does; the kernel gets round to queueing    *)
(* its notifications. Nothing makes the configuration change, the owner    *)
(* drop the handle, a listing fail or a callback panic.                    *)
Fairness ==
  /\ WF_vars(Watcher)
  /\ WF_vars(DropReturns)
  /\ WF_vars(OsNotifies /\ UNCHANGED watchVars)

FairSpec == Spec /\ Fairness

-----------------------------------------------------------------------------
(* Properties.                                                             *)

(* Once the handle's drop has returned, the callback is not executing and  *)
(* the watcher thread is past every place that could call it again.        *)
NoCallAfterDrop == upc = "dropped" => wpc \in {"leaving", "gone"}

(* A watcher that sleeps in poll with nothing on its way to wake it has    *)
(* delivered the configuration as it is now: no change is lost between     *)
(* subscribing and the first listing, between draining the socket and      *)
(* listing, or to an overrun of the socket's buffer. The one excuse is a   *)
(* listing that failed by itself, which the library swallows.              *)
NoLostChange ==
  (wpc = "poll" /\ ~NewsPending /\ ~missed) => delivered.interfaces = os

(* However fast the configuration changes, a drop waits for at most two    *)
(* more callbacks that had not begun when it did: one for events polled    *)
(* before the pipe was closed and one for events found together with it.   *)
DropIsPrompt == lateCalls <= 2

(* Constructing, with the socket open.                                     *)
Subscribed == {"pipe", "list", "resolve", "initial", "spawn"}

(* The watcher thread is in its loop.                                      *)
Running == {"poll", "drain", "list", "resolve", "callback", "check"}

(* The socket passes from the owner, who constructs, to the watcher        *)
(* thread, and the writing end of the pipe to the handle. The socket is    *)
(* open for as long as it is polled and drained, and neither stays open    *)
(* when nobody is left to close it: not after a step of the construction   *)
(* has failed or the initial callback has panicked, and not after the      *)
(* watcher thread has ended in one way or the other.                       *)
NothingIsLeaked ==
  /\ (upc \in Subscribed \/ wpc \in Running) => sock.open
  /\ sock.open => upc \in Subscribed \/ wpc \in Running \cup {"leaving"}
  /\ pipe = "open" => upc \in (Subscribed \ {"pipe"}) \cup {"watching"}

(* Nothing will be delivered any more.                                     *)
Over == upc \in {"error", "unwound", "dropped"} \/ wpc \in {"leaving", "gone"}

(* The owner sees the Updates UpdateStream promises, and none after the    *)
(* handle is dropped or the callback has panicked.                         *)
Stream == INSTANCE UpdateStream WITH last <- delivered, closed <- Over

ImplementsUpdateStream == Stream!Spec

(* A change is delivered in the end, unless the handle goes, the callback  *)
(* panics or the listing it triggers fails by itself.                      *)
ChangesAreDelivered ==
  (upc = "watching" /\ delivered.interfaces # os)
    ~> (upc # "watching" \/ panicked \/ missed \/ delivered.interfaces = os)

(* Dropping the handle returns and a callback that panics ends its thread, *)
(* and either way the socket is closed: the unwinding drops the sender a   *)
(* drop waits for, and the socket.                                         *)
DropTerminates ==
  (upc = "dropping" \/ panicked) ~> (upc # "dropping" /\ ~sock.open)

=============================================================================
