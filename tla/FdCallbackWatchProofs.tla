----------------------- MODULE FdCallbackWatchProofs -----------------------
(***************************************************************************)
(* The callback watcher for any set of configurations, any number of       *)
(* changes and any size of the socket's buffer: no change is lost, no      *)
(* callback runs after the handle's drop, a drop waits for at most two     *)
(* more callbacks, and the Updates are those UpdateStream promises.        *)
(***************************************************************************)
EXTENDS FdCallbackWatch, TLAPS

-----------------------------------------------------------------------------
(* Lemmas about the event socket, a listing and the cursor.                *)

(* What the kernel maintains of the socket: a loss is only recorded on a   *)
(* full queue, and it is reported before the queue can be emptied.         *)
SocketOK(s) ==
  /\ s.error => s.congested
  /\ s.congested => s.queue > 0
  /\ ~s.open => ~Readable(s)

LEMMA NewSocketFacts ==
  ASSUME NEW kind \in SocketKinds
  PROVE  /\ NewSocket(kind) \in Socket
         /\ SocketOK(NewSocket(kind))
         /\ NewSocket(kind).open
  BY SocketAssumption DEF NewSocket, EmptySocket, Socket, SocketOK, Readable

LEMMA ClosedFacts ==
  ASSUME NEW s \in Socket
  PROVE  /\ Closed(s) \in Socket
         /\ SocketOK(Closed(s))
         /\ ~Closed(s).open
  BY SocketAssumption DEF Closed, EmptySocket, Socket, SocketOK, Readable

(* A notification for an open socket leaves it readable: it is queued, or  *)
(* the queue is full or was found full before.                             *)
LEMMA DeliveredFacts ==
  ASSUME NEW s \in Socket, SocketOK(s)
  PROVE  /\ Delivered(s) \in Socket
         /\ SocketOK(Delivered(s))
         /\ Delivered(s).open = s.open
         /\ s.open => Readable(Delivered(s))
         /\ Readable(s) => Readable(Delivered(s))
<1>1. CASE ~s.open \/ s.congested
  BY <1>1 DEF Delivered, Socket, SocketOK, Readable
<1>2. CASE s.open /\ ~s.congested /\ s.queue < QueueCap
  <2>1. Delivered(s) = [kind |-> s.kind, open |-> s.open, queue |-> s.queue + 1,
                        error |-> s.error, congested |-> s.congested]
    BY <1>2 DEF Delivered, Socket
  <2> QED BY <1>2, <2>1, SocketAssumption DEF Socket, SocketOK, Readable
<1>3. CASE s.open /\ ~s.congested /\ ~(s.queue < QueueCap) /\ s.kind = "netlink"
  <2>1. Delivered(s) = [kind |-> s.kind, open |-> s.open, queue |-> s.queue,
                        error |-> TRUE, congested |-> TRUE]
    BY <1>3 DEF Delivered, Socket
  <2> QED BY <1>3, <2>1, SocketAssumption DEF Socket, SocketOK, Readable
<1>4. CASE s.open /\ ~s.congested /\ ~(s.queue < QueueCap) /\ s.kind # "netlink"
  <2>1. Delivered(s) = s
    BY <1>4 DEF Delivered, Socket
  <2>2. s.queue > 0
    BY <1>4, SocketAssumption DEF Socket
  <2> QED BY <2>1, <2>2 DEF Readable
<1> QED BY <1>1, <1>2, <1>3, <1>4

LEMMA ReceivedFacts ==
  ASSUME NEW s \in Socket, SocketOK(s)
  PROVE  /\ Received(s) \in Socket
         /\ SocketOK(Received(s))
         /\ Received(s).open = s.open
<1>1. CASE s.error
  BY <1>1 DEF Received, Socket, SocketOK, Readable
<1>2. CASE ~s.error /\ s.queue > 0
  <2>1. Received(s) = [kind |-> s.kind, open |-> s.open, queue |-> s.queue - 1,
                       error |-> FALSE, congested |-> s.congested /\ s.queue > 1]
    BY <1>2 DEF Received, Socket
  <2> QED BY <1>2, <2>1, SocketAssumption DEF Socket, SocketOK, Readable
<1>3. CASE ~s.error /\ ~(s.queue > 0)
  BY <1>3 DEF Received, Socket, SocketOK, Readable
<1> QED BY <1>1, <1>2, <1>3

LEMMA CursorFacts ==
  ASSUME NEW c \in Cursor, NEW list \in Lists
  PROVE  /\ Advanced(c, list) \in Cursor
         /\ Advanced(c, list).prev_list = list
         /\ ~Advanced(c, list).initial_pending
         /\ UpdateOf(c, list) \in Update
         /\ UpdateOf(c, list).interfaces = list
  BY ListsAssumption DEF Cursor, Update, Advanced, UpdateOf

LEMMA DefaultCursorFacts == DefaultCursor \in Cursor /\ DefaultCursor.initial_pending
  BY ListsAssumption DEF DefaultCursor, Cursor

LEMMA ListingFacts ==
  ASSUME HostTypeOK, NEW list \in ListingResults
  PROVE  /\ list # NoList => list \in Lists
         /\ snap.epoch = epoch => list = snap.list /\ list # NoList
  BY ListsAssumption DEF HostTypeOK, Snapshot, ListingResults

-----------------------------------------------------------------------------
(* The invariant.                                                          *)

(* Where owner and watcher thread can be relative to each other.           *)
PhasesOK ==
  /\ wpc = "none" <=> upc \notin {"watching", "dropping", "dropped"}
  /\ NothingIsLeaked
  /\ completed => wpc \in {"leaving", "gone"}
  /\ (wpc = "gone" \/ upc = "dropped") => completed
  /\ pipe = "hungup" <=> upc \in {"dropping", "dropped"}
  /\ hup => pipe = "hungup"

(* The cursor's snapshot is the one the callback was last called with.     *)
CursorOK ==
  /\ upc \in {"open", "pipe", "list", "resolve"}
       => delivered = NoUpdate /\ cursor = DefaultCursor
  /\ (upc \in {"initial", "spawn"} \/ wpc # "none")
       => /\ delivered \in Update
          /\ ~cursor.initial_pending
          /\ cursor.prev_list = delivered.interfaces
  /\ wpc = "none" => ~missed

(* Between draining the socket and listing nothing need be known; from the *)
(* snapshot on, what is not in it is still going to wake the watcher.      *)
FreshOK ==
  /\ (upc \in {"initial", "spawn"} \/ wpc \in {"poll", "callback", "check"})
       => cursor.prev_list = os \/ missed \/ NewsPending
  /\ (upc = "resolve" \/ wpc = "resolve")
       => (snap.epoch = epoch /\ snap.list = os) \/ (snap.epoch # epoch /\ NewsPending)

(* How many callbacks can have begun since the drop did.                   *)
LateCallsOK ==
  /\ upc \notin {"dropping", "dropped"} => lateCalls = 0
  /\ wpc = "poll" => lateCalls <= 1
  /\ wpc \in {"drain", "list", "resolve"} => lateCalls <= IF hup THEN 1 ELSE 0
  /\ wpc \in {"callback", "check"} => lateCalls <= IF hup THEN 2 ELSE 1
  /\ lateCalls <= 2

IInv ==
  /\ TypeOK
  /\ unsent <= epoch
  /\ snap.epoch <= epoch
  /\ SocketOK(sock)
  /\ PhasesOK
  /\ CursorOK
  /\ FreshOK
  /\ LateCallsOK

-----------------------------------------------------------------------------
LEMMA InitEstablishes == Init => IInv
<1> SUFFICES ASSUME Init PROVE IInv
  OBVIOUS
<1> USE DEF Init, SocketInit, HostInit
<1>1. PICK kind \in SocketKinds : sock = Closed(NewSocket(kind))
  OBVIOUS
<1>2. sock \in Socket /\ SocketOK(sock)
  BY <1>1, NewSocketFacts, ClosedFacts
<1>3. TypeOK /\ unsent <= epoch /\ snap.epoch <= epoch
  <2>1. HostTypeOK /\ unsent = 0 /\ snap.epoch = 0 /\ epoch = 0
    BY HostAssumption DEF HostTypeOK, Snapshot
  <2>2. SocketTypeOK
    BY <1>2, <2>1, HostAssumption DEF SocketTypeOK
  <2>3. cursor \in Cursor
    BY DefaultCursorFacts
  <2>4. upc \in OwnerStates /\ wpc \in WatcherStates
    BY DEF OwnerStates, WatcherStates
  <2>5. hup \in BOOLEAN /\ completed \in BOOLEAN /\ panicked \in BOOLEAN /\ missed \in BOOLEAN
    OBVIOUS
  <2>6. delivered \in Update \cup {NoUpdate} /\ pipe \in {"none", "open", "hungup"}
    OBVIOUS
  <2>7. lateCalls \in Nat
    OBVIOUS
  <2>8. TypeOK
    BY <2>2, <2>3, <2>4, <2>5, <2>6, <2>7 DEF TypeOK
  <2> QED BY <2>1, <2>8
<1>4. PhasesOK
  <2>1. ~sock.open
    BY <1>1, NewSocketFacts, ClosedFacts
  <2> QED BY <2>1 DEF PhasesOK, NothingIsLeaked, Subscribed, Running
<1>5. CursorOK /\ FreshOK /\ LateCallsOK
  BY DEF CursorOK, FreshOK, LateCallsOK
<1> QED BY <1>2, <1>3, <1>4, <1>5 DEF IInv

(* Every action of the owner and the watcher, one by one.                  *)
LEMMA StepPreserves == IInv /\ [Next]_vars => IInv'
<1> SUFFICES ASSUME IInv, [Next]_vars PROVE IInv'
  OBVIOUS
<1> USE DEF IInv, TypeOK, SocketTypeOK, HostTypeOK, PhasesOK, CursorOK, FreshOK, LateCallsOK,
            OwnerStates, WatcherStates, NothingIsLeaked, Subscribed, Running, hostVars, socketVars, NewsPending
<1>1. CASE OpenSocket
  <2>1. sock.kind \in SocketKinds
    BY DEF Socket
  <2> QED BY <1>1, <2>1, NewSocketFacts DEF OpenSocket
<1>2. CASE CreatePipe
  BY <1>2, ClosedFacts DEF CreatePipe
<1>3. CASE BeginInitialListing
  BY <1>3, ClosedFacts DEF BeginInitialListing, TakeSnapshot, Snapshot
<1>4. CASE FinishInitialListing
  BY <1>4, ClosedFacts, CursorFacts, ListingFacts DEF FinishInitialListing
<1>5. CASE InitialCallbackReturns
  BY <1>5 DEF InitialCallbackReturns
<1>6. CASE ConstructionUnwinds
  BY <1>6, ClosedFacts DEF ConstructionUnwinds
<1>7. CASE SpawnWatcher
  BY <1>7 DEF SpawnWatcher
<1>8. CASE DropBegins
  BY <1>8 DEF DropBegins
<1>9. CASE DropReturns
  BY <1>9 DEF DropReturns
<1>10. CASE Poll
  <2>1. TypeOK'
    BY <1>10 DEF Poll
  <2>2. (unsent <= epoch /\ snap.epoch <= epoch)'
    BY <1>10 DEF Poll
  <2>3. SocketOK(sock)'
    BY <1>10 DEF Poll
  <2>4. PhasesOK'
    BY <1>10 DEF Poll
  <2>5. CursorOK'
    BY <1>10 DEF Poll
  <2>6. FreshOK'
    BY <1>10 DEF Poll
  <2>7. LateCallsOK'
    <3>1. CASE pipe = "hungup"
      BY <1>10, <3>1 DEF Poll
    <3>2. CASE pipe # "hungup"
      <4>1. upc \notin {"dropping", "dropped"} /\ lateCalls = 0
        BY <3>2
      <4> QED BY <1>10, <4>1 DEF Poll
    <3> QED BY <3>1, <3>2
  <2> QED BY <2>1, <2>2, <2>3, <2>4, <2>5, <2>6, <2>7 DEF IInv
<1>11. CASE Drain
  BY <1>11, ReceivedFacts DEF Drain
<1>12. CASE BeginListing
  <2>1. TypeOK'
    <3>1. HostTypeOK'
      BY <1>12, HostAssumption DEF BeginListing, TakeSnapshot, Snapshot
    <3> QED BY <1>12, <3>1 DEF BeginListing
  <2>2. (unsent <= epoch /\ snap.epoch <= epoch)'
    BY <1>12, HostAssumption DEF BeginListing, TakeSnapshot, Snapshot
  <2>3. SocketOK(sock)'
    BY <1>12, HostAssumption DEF BeginListing, TakeSnapshot, Snapshot
  <2>4. PhasesOK'
    BY <1>12, HostAssumption DEF BeginListing, TakeSnapshot, Snapshot
  <2>5. CursorOK'
    BY <1>12, HostAssumption DEF BeginListing, TakeSnapshot, Snapshot
  <2>6. FreshOK'
    BY <1>12, HostAssumption DEF BeginListing, TakeSnapshot, Snapshot
  <2>7. LateCallsOK'
    BY <1>12, HostAssumption DEF BeginListing, TakeSnapshot, Snapshot
  <2> QED BY <2>1, <2>2, <2>3, <2>4, <2>5, <2>6, <2>7 DEF IInv
<1>13. CASE FinishListing
  <2>1. PICK list \in ListingResults :
          IF list # NoList /\ Emits(cursor, list)
          THEN /\ cursor' = Advanced(cursor, list)
               /\ delivered' = UpdateOf(cursor, list)
               /\ wpc' = "callback"
               /\ lateCalls' = IF upc = "dropping" THEN lateCalls + 1 ELSE lateCalls
          ELSE /\ wpc' = "check"
               /\ UNCHANGED <<cursor, delivered, lateCalls>>
    BY <1>13 DEF FinishListing
  <2>2. /\ wpc = "resolve"
        /\ missed' = FALSE
        /\ UNCHANGED <<os, epoch, snap, unsent, sock, upc, pipe, hup, completed, panicked>>
    BY <1>13 DEF FinishListing
  <2>3. /\ list # NoList => list \in Lists
        /\ snap.epoch = epoch => list = snap.list /\ list # NoList
    BY ListingFacts
  <2>4. CASE list # NoList /\ Emits(cursor, list)
    <3>1. /\ cursor' = Advanced(cursor, list)
          /\ delivered' = UpdateOf(cursor, list)
          /\ wpc' = "callback"
          /\ lateCalls' = IF upc = "dropping" THEN lateCalls + 1 ELSE lateCalls
      BY <2>1, <2>4
    <3>2. /\ cursor' \in Cursor
          /\ cursor'.prev_list = list
          /\ ~cursor'.initial_pending
          /\ delivered' \in Update
          /\ delivered'.interfaces = list
      BY <2>3, <2>4, <3>1, CursorFacts
    <3>3. TypeOK'
      <4>1. lateCalls' \in Nat
        BY <3>1
      <4> HIDE DEF PhasesOK, CursorOK, FreshOK, LateCallsOK
      <4> QED BY <2>2, <3>1, <3>2, <4>1
    <3>4. PhasesOK' /\ CursorOK' /\ LateCallsOK'
      BY <2>2, <3>1, <3>2
    <3>5. FreshOK'
      BY <2>2, <2>3, <3>1, <3>2
    <3> QED BY <2>2, <3>3, <3>4, <3>5
  <2>5. CASE ~(list # NoList /\ Emits(cursor, list))
    <3>1. wpc' = "check" /\ UNCHANGED <<cursor, delivered, lateCalls>>
      BY <2>1, <2>5
    <3>2. snap.epoch = epoch => cursor.prev_list = snap.list
      BY <2>3, <2>5 DEF Emits
    <3>3. TypeOK'
      BY <2>2, <3>1
    <3>4. PhasesOK' /\ CursorOK' /\ LateCallsOK'
      BY <2>2, <3>1
    <3>5. FreshOK'
      BY <2>2, <3>1, <3>2
    <3> QED BY <2>2, <3>3, <3>4, <3>5
  <2> QED BY <2>4, <2>5
<1>14. CASE CallbackReturns
  BY <1>14 DEF CallbackReturns
<1>15. CASE CallbackPanics
  BY <1>15 DEF CallbackPanics
<1>16. CASE CheckPipe
  BY <1>16 DEF CheckPipe
<1>17. CASE DropSender
  BY <1>17 DEF DropSender
<1>18. CASE DropSocket
  BY <1>18, ClosedFacts DEF DropSocket
<1>19. CASE OsChanges /\ UNCHANGED watchVars
  <2>1. TypeOK'
    BY <1>19, HostAssumption DEF OsChanges, ChangeConfiguration, watchVars
  <2>2. (unsent <= epoch /\ snap.epoch <= epoch)'
    <3>1. unsent' = unsent + 1 /\ epoch' = epoch + 1 /\ snap' = snap
      BY <1>19 DEF OsChanges, ChangeConfiguration
    <3>2. unsent \in Int /\ epoch \in Int /\ snap.epoch \in Int
      BY HostAssumption DEF Snapshot
    <3> QED BY <3>1, <3>2
  <2>3. SocketOK(sock)'
    BY <1>19, HostAssumption DEF OsChanges, ChangeConfiguration, watchVars
  <2>4. PhasesOK'
    BY <1>19, HostAssumption DEF OsChanges, ChangeConfiguration, watchVars
  <2>5. CursorOK'
    BY <1>19, HostAssumption DEF OsChanges, ChangeConfiguration, watchVars
  <2>6. FreshOK'
    BY <1>19, HostAssumption DEF OsChanges, ChangeConfiguration, watchVars
  <2>7. LateCallsOK'
    BY <1>19, HostAssumption DEF OsChanges, ChangeConfiguration, watchVars
  <2> QED BY <2>1, <2>2, <2>3, <2>4, <2>5, <2>6, <2>7 DEF IInv
<1>20. CASE OsNotifies /\ UNCHANGED watchVars
  <2>1. TypeOK'
    BY <1>20, DeliveredFacts, HostAssumption DEF OsNotifies, watchVars
  <2>2. (unsent <= epoch /\ snap.epoch <= epoch)'
    BY <1>20, DeliveredFacts, HostAssumption DEF OsNotifies, watchVars
  <2>3. SocketOK(sock)'
    BY <1>20, DeliveredFacts, HostAssumption DEF OsNotifies, watchVars
  <2>4. PhasesOK'
    BY <1>20, DeliveredFacts, HostAssumption DEF OsNotifies, watchVars
  <2>5. CursorOK'
    BY <1>20, DeliveredFacts, HostAssumption DEF OsNotifies, watchVars
  <2>6. FreshOK'
    BY <1>20, DeliveredFacts, HostAssumption DEF OsNotifies, watchVars
  <2>7. LateCallsOK'
    BY <1>20, DeliveredFacts, HostAssumption DEF OsNotifies, watchVars
  <2> QED BY <2>1, <2>2, <2>3, <2>4, <2>5, <2>6, <2>7 DEF IInv
<1>21. CASE UNCHANGED vars
  BY <1>21 DEF vars, watchVars
<1> QED
  BY <1>1, <1>2, <1>3, <1>4, <1>5, <1>6, <1>7, <1>8, <1>9, <1>10, <1>11, <1>12, <1>13, <1>14,
     <1>15, <1>16, <1>17, <1>18, <1>19, <1>20, <1>21 DEF Next, Owner, Watcher, Kernel

LEMMA Invariance == Spec => []IInv
  BY InitEstablishes, StepPreserves, PTL DEF Spec

-----------------------------------------------------------------------------
(* Every reachable state is well typed.                                    *)
THEOREM TypeCorrect == Spec => []TypeOK
<1>1. IInv => TypeOK
  BY DEF IInv
<1> QED BY <1>1, Invariance, PTL

(* WatchHandle's guarantee: after the drop returned the callback neither   *)
(* runs nor will be called.                                                *)
THEOREM CallbackIsOverAfterDrop == Spec => []NoCallAfterDrop
<1>1. IInv => NoCallAfterDrop
  BY DEF IInv, PhasesOK, NoCallAfterDrop
<1> QED BY <1>1, Invariance, PTL

(* A sleeping watcher nobody will wake has delivered the configuration as  *)
(* it is, overruns and torn listings notwithstanding.                      *)
THEOREM NothingIsLost == Spec => []NoLostChange
<1>1. IInv => NoLostChange
  BY DEF IInv, FreshOK, CursorOK, NoLostChange
<1> QED BY <1>1, Invariance, PTL

(* A drop waits for at most two callbacks that began after it.             *)
THEOREM DropWaitsForTwo == Spec => []DropIsPrompt
<1>1. IInv => DropIsPrompt
  BY DEF IInv, LateCallsOK, DropIsPrompt
<1> QED BY <1>1, Invariance, PTL

(* Whichever step fails and whoever panics, the socket and the pipe are    *)
(* closed with the last who could use them, and not before.                *)
THEOREM DescriptorsAreReleased == Spec => []NothingIsLeaked
<1>1. IInv => NothingIsLeaked
  BY DEF IInv, PhasesOK
<1> QED BY <1>1, Invariance, PTL

-----------------------------------------------------------------------------
(* The watcher implements UpdateStream: entering the callback delivers,    *)
(* leaving the loop or failing to construct closes, all else stutters.     *)

LEMMA InitImplements == Init => Stream!Init
  BY DEF Init, Stream!Init, Over

LEMMA InitialUpdateImplements ==
  ASSUME IInv, FinishInitialListing
  PROVE  [Stream!Next]_(Stream!vars)
<1>1. PICK list \in ListingResults :
        IF list = NoList
        THEN upc' = "error" /\ UNCHANGED <<cursor, delivered>>
        ELSE /\ upc' = "initial"
             /\ delivered' = UpdateOf(cursor, list)
  BY DEF FinishInitialListing
<1>2. upc = "resolve" /\ wpc = "none" /\ wpc' = wpc
  BY DEF FinishInitialListing, IInv, PhasesOK
<1>3. ~Over
  BY <1>2 DEF Over
<1>4. CASE list = NoList
  <2>1. Over' /\ delivered' = delivered
    BY <1>1, <1>4 DEF Over
  <2> QED BY <2>1 DEF Stream!Next, Stream!Close
<1>5. CASE list # NoList
  <2>1. delivered' = UpdateOf(cursor, list) /\ Over' = Over
    BY <1>1, <1>2, <1>5 DEF Over
  <2>2. delivered = NoUpdate /\ cursor = DefaultCursor
    BY <1>2 DEF IInv, CursorOK
  <2>3. delivered' = [is_initial |-> TRUE, base |-> EmptyList, interfaces |-> list]
    BY <2>1, <2>2 DEF UpdateOf, DefaultCursor
  <2>4. list \in Lists
    BY <1>5, ListingFacts DEF IInv, TypeOK, SocketTypeOK
  <2>5. Stream!DeliverInitial
    BY <1>3, <2>1, <2>2, <2>3, <2>4 DEF Stream!DeliverInitial
  <2> QED BY <2>5 DEF Stream!Next
<1> QED BY <1>4, <1>5

LEMMA LaterUpdateImplements ==
  ASSUME IInv, FinishListing
  PROVE  [Stream!Next]_(Stream!vars)
<1>1. PICK list \in ListingResults :
        IF list # NoList /\ Emits(cursor, list)
        THEN delivered' = UpdateOf(cursor, list) /\ wpc' = "callback"
        ELSE wpc' = "check" /\ delivered' = delivered
  BY DEF FinishListing
<1>2. wpc = "resolve" /\ upc' = upc /\ upc \in {"watching", "dropping"}
  BY DEF FinishListing, IInv, PhasesOK
<1>3. ~Over /\ Over' = Over
  BY <1>1, <1>2 DEF Over
<1>4. CASE list # NoList /\ Emits(cursor, list)
  <2>1. /\ delivered \in Update
        /\ cursor.initial_pending = FALSE
        /\ cursor.prev_list = delivered.interfaces
    BY <1>2 DEF IInv, CursorOK, TypeOK, Cursor
  <2>2. delivered # NoUpdate
    BY <2>1, ListsAssumption
  <2>3. delivered' = [is_initial |-> FALSE, base |-> delivered.interfaces, interfaces |-> list]
    BY <1>1, <1>4, <2>1 DEF UpdateOf
  <2>4. list \in Lists \ {delivered.interfaces}
    BY <1>4, <2>1, ListingFacts DEF IInv, TypeOK, SocketTypeOK, Emits
  <2>5. Stream!DeliverChange
    BY <1>3, <2>2, <2>3, <2>4 DEF Stream!DeliverChange
  <2> QED BY <2>5 DEF Stream!Next
<1>5. CASE ~(list # NoList /\ Emits(cursor, list))
  BY <1>1, <1>3, <1>5 DEF Stream!vars
<1> QED BY <1>4, <1>5

LEMMA StepImplements == IInv /\ [Next]_vars => [Stream!Next]_(Stream!vars)
<1> SUFFICES ASSUME IInv, [Next]_vars PROVE [Stream!Next]_(Stream!vars)
  OBVIOUS
<1>1. CASE FinishInitialListing
  BY <1>1, InitialUpdateImplements
<1>2. CASE FinishListing
  BY <1>2, LaterUpdateImplements
<1>3. CASE delivered' = delivered /\ (Over => Over')
  <2>1. CASE Over'
    BY <1>3, <2>1 DEF Stream!Next, Stream!Close
  <2>2. CASE ~Over'
    BY <1>3, <2>2 DEF Stream!vars, Over
  <2> QED BY <2>1, <2>2
<1>4. ASSUME ~FinishInitialListing, ~FinishListing
      PROVE  delivered' = delivered /\ (Over => Over')
  <2>1. CASE Owner
    BY <1>4, <2>1
       DEF Owner, OpenSocket, CreatePipe, BeginInitialListing, InitialCallbackReturns,
           ConstructionUnwinds, SpawnWatcher, DropBegins, DropReturns,
           Over, IInv, PhasesOK
  <2>2. CASE Watcher
    BY <1>4, <2>2
       DEF Watcher, Poll, Drain, BeginListing, CallbackReturns, CallbackPanics, CheckPipe,
           DropSender, DropSocket, Over
  <2>3. CASE Kernel \/ UNCHANGED vars
    BY <2>3 DEF Kernel, vars, watchVars, Over
  <2> QED BY <2>1, <2>2, <2>3 DEF Next
<1> QED BY <1>1, <1>2, <1>3, <1>4

(* Initial states and steps put together: what is delivered is a stream.   *)
THEOREM CallbackWatchImplementsUpdateStream == Spec => ImplementsUpdateStream
  BY InitImplements, StepImplements, Invariance, PTL
     DEF Spec, ImplementsUpdateStream, Stream!Spec

=============================================================================
