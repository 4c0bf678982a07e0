------------------------- MODULE FdPullWatchProofs -------------------------
(***************************************************************************)
(* The async and blocking watchers for any set of configurations, any      *)
(* number of changes and any size of the socket's buffer, in all three     *)
(* ways of waiting: a watcher that nobody is going to wake has taken in    *)
(* the current configuration, and changed() returns the Updates that       *)
(* UpdateStream promises.                                                  *)
(***************************************************************************)
EXTENDS FdPullWatch, TLAPS

-----------------------------------------------------------------------------
(* Lemmas about the event socket, a listing and the cursor.                *)

(* What the kernel maintains of the socket: a loss is only recorded on a   *)
(* full queue, and it is reported before the queue can be emptied.         *)
SocketOK(s) ==
  /\ s.error => s.congested
  /\ s.congested => s.queue > 0
  /\ ~s.open => ~Readable(s)

LEMMA NewSocketFacts ==
  ASSUME NEW kind \in SocketKinds
  PROVE  /\ NewSocket(kind) \in Socket
         /\ SocketOK(NewSocket(kind))
         /\ NewSocket(kind).open
  BY SocketAssumption DEF NewSocket, EmptySocket, Socket, SocketOK, Readable

LEMMA ClosedFacts ==
  ASSUME NEW s \in Socket
  PROVE  /\ Closed(s) \in Socket
         /\ SocketOK(Closed(s))
         /\ ~Closed(s).open
  BY SocketAssumption DEF Closed, EmptySocket, Socket, SocketOK, Readable

(* A notification for an open socket leaves it readable: it is queued, or  *)
(* the queue is full or was found full before.                             *)
LEMMA DeliveredFacts ==
  ASSUME NEW s \in Socket, SocketOK(s)
  PROVE  /\ Delivered(s) \in Socket
         /\ SocketOK(Delivered(s))
         /\ Delivered(s).open = s.open
         /\ s.open => Readable(Delivered(s))
         /\ Readable(s) => Readable(Delivered(s))
<1>1. CASE ~s.open \/ s.congested
  BY <1>1 DEF Delivered, Socket, SocketOK, Readable
<1>2. CASE s.open /\ ~s.congested /\ s.queue < QueueCap
  <2>1. Delivered(s) = [kind |-> s.kind, open |-> s.open, queue |-> s.queue + 1,
                        error |-> s.error, congested |-> s.congested]
    BY <1>2 DEF Delivered, Socket
  <2> QED BY <1>2, <2>1, SocketAssumption DEF Socket, SocketOK, Readable
<1>3. CASE s.open /\ ~s.congested /\ ~(s.queue < QueueCap) /\ s.kind = "netlink"
  <2>1. Delivered(s) = [kind |-> s.kind, open |-> s.open, queue |-> s.queue,
                        error |-> TRUE, congested |-> TRUE]
    BY <1>3 DEF Delivered, Socket
  <2> QED BY <1>3, <2>1, SocketAssumption DEF Socket, SocketOK, Readable
<1>4. CASE s.open /\ ~s.congested /\ ~(s.queue < QueueCap) /\ s.kind # "netlink"
  <2>1. Delivered(s) = s
    BY <1>4 DEF Delivered, Socket
  <2>2. s.queue > 0
    BY <1>4, SocketAssumption DEF Socket
  <2> QED BY <2>1, <2>2 DEF Readable
<1> QED BY <1>1, <1>2, <1>3, <1>4

LEMMA ReceivedFacts ==
  ASSUME NEW s \in Socket, SocketOK(s)
  PROVE  /\ Received(s) \in Socket
         /\ SocketOK(Received(s))
         /\ Received(s).open = s.open
<1>1. CASE s.error
  BY <1>1 DEF Received, Socket, SocketOK, Readable
<1>2. CASE ~s.error /\ s.queue > 0
  <2>1. Received(s) = [kind |-> s.kind, open |-> s.open, queue |-> s.queue - 1,
                       error |-> FALSE, congested |-> s.congested /\ s.queue > 1]
    BY <1>2 DEF Received, Socket
  <2> QED BY <1>2, <2>1, SocketAssumption DEF Socket, SocketOK, Readable
<1>3. CASE ~s.error /\ ~(s.queue > 0)
  BY <1>3 DEF Received, Socket, SocketOK, Readable
<1> QED BY <1>1, <1>2, <1>3

(* What is not woken is unchanged; what is drained without an overrun is   *)
(* empty.                                                                  *)
LEMMA WakesFacts ==
  ASSUME NEW s \in Socket
  PROVE  DeliveryWakes(s) \/ Delivered(s) = s
  BY DEF DeliveryWakes, Delivered

LEMMA DrainEndsFacts ==
  ASSUME NEW s \in Socket, SocketOK(s), DrainEnds(s)
  PROVE  Received(s).congested \/ ~Readable(Received(s))
  BY SocketAssumption DEF Socket, SocketOK, Readable, Received, DrainEnds

LEMMA CursorFacts ==
  ASSUME NEW c \in Cursor, NEW list \in Lists
  PROVE  /\ Advanced(c, list) \in Cursor
         /\ Advanced(c, list).prev_list = list
         /\ ~Advanced(c, list).initial_pending
         /\ UpdateOf(c, list) \in Update
         /\ UpdateOf(c, list).interfaces = list
  BY ListsAssumption DEF Cursor, Update, Advanced, UpdateOf

LEMMA DefaultCursorFacts == DefaultCursor \in Cursor /\ DefaultCursor.initial_pending
  BY ListsAssumption DEF DefaultCursor, Cursor

LEMMA ListingFacts ==
  ASSUME HostTypeOK, NEW list \in ListingResults
  PROVE  /\ list # NoList => list \in Lists
         /\ snap.epoch = epoch => list = snap.list /\ list # NoList
  BY ListsAssumption DEF HostTypeOK, Snapshot, ListingResults

-----------------------------------------------------------------------------
(* The invariant.                                                          *)

(* The states with a subscribed socket.                                    *)
Subscribed == (Construction \ {"open"}) \cup InsideChanged \cup {"idle", "pending"}

(* Constructed and not yet dropped.                                        *)
Watching == InsideChanged \cup {"idle", "pending"}

(* The cursor's snapshot is the one last returned, or the one the initial  *)
(* Update, still to be returned, was computed from.                        *)
CursorOK ==
  /\ pc \in Construction => initial = NoUpdate /\ yielded = NoUpdate /\ cursor = DefaultCursor
  /\ pc \in Watching => ~cursor.initial_pending
  /\ (pc \in Watching /\ initial # NoUpdate) =>
       /\ pc = "idle"
       /\ yielded = NoUpdate
       /\ initial = [is_initial |-> TRUE, base |-> EmptyList, interfaces |-> cursor.prev_list]
  /\ (pc \in Watching /\ initial = NoUpdate) =>
       /\ yielded \in Update
       /\ yielded.interfaces = cursor.prev_list

(* Tokio knows of a socket that is readable, unless it is full: an edge    *)
(* that came while it was being drained survives clear_ready.              *)
EdgeOK ==
  (mode = "tokio" /\ Readable(sock) /\ ~sock.congested) =>
    /\ pc = "clear" => edge \/ (ready /\ fresh)
    /\ pc \in {"firstList", "firstResolve", "idle", "pending", "wait", "list", "resolve"}
         => edge \/ ready

(* From the snapshot on, what is not in it is still going to make the      *)
(* socket readable or has made it so.                                      *)
FreshOK ==
  /\ pc \in {"idle", "wait", "pending"} => cursor.prev_list = os \/ missed \/ NewsPending
  /\ pc \in {"firstResolve", "resolve"}
       => (snap.epoch = epoch /\ snap.list = os) \/ (snap.epoch # epoch /\ NewsPending)

(* Readiness fails inside a call of changed() that has the initial Update  *)
(* behind it, and no later call gets as far as waiting.                    *)
FailureOK == failed => initial = NoUpdate /\ pc \in {"idle", "pending", "dropped"}

IInv ==
  /\ TypeOK
  /\ unsent <= epoch
  /\ snap.epoch <= epoch
  /\ SocketOK(sock)
  /\ pc \in Subscribed => sock.open
  /\ CursorOK
  /\ EdgeOK
  /\ FreshOK
  /\ FailureOK

-----------------------------------------------------------------------------
LEMMA InitEstablishes == Init => IInv
<1> SUFFICES ASSUME Init PROVE IInv
  OBVIOUS
<1> USE DEF Init, SocketInit, HostInit
<1>1. PICK kind \in SocketKinds : sock = Closed(NewSocket(kind))
  OBVIOUS
<1>2. sock \in Socket /\ SocketOK(sock)
  BY <1>1, NewSocketFacts, ClosedFacts
<1>3. HostTypeOK /\ unsent = 0 /\ snap.epoch = 0 /\ epoch = 0
  BY HostAssumption DEF HostTypeOK, Snapshot
<1>4. SocketTypeOK
  BY <1>2, <1>3, HostAssumption DEF SocketTypeOK
<1>5. cursor \in Cursor /\ pc \in States
  BY DefaultCursorFacts DEF States, Construction
<1>6. failed \in BOOLEAN /\ edge \in BOOLEAN /\ ready \in BOOLEAN /\ fresh \in BOOLEAN /\ missed \in BOOLEAN
  OBVIOUS
<1>7. TypeOK
  BY <1>4, <1>5, <1>6 DEF TypeOK
<1>8. pc \notin Subscribed /\ CursorOK /\ EdgeOK /\ FreshOK /\ FailureOK
  BY DEF Subscribed, Watching, Construction, InsideChanged, CursorOK, EdgeOK, FreshOK, FailureOK
<1> QED BY <1>2, <1>3, <1>7, <1>8 DEF IInv

LEMMA StepPreserves == IInv /\ [Next]_vars => IInv'
<1> SUFFICES ASSUME IInv, [Next]_vars PROVE IInv'
  OBVIOUS
<1> USE DEF IInv, TypeOK, SocketTypeOK, HostTypeOK, CursorOK, EdgeOK, FreshOK, FailureOK, States, Subscribed,
            Watching, Construction, InsideChanged, hostVars, socketVars, tokioVars, NewsPending
<1>1. CASE OpenSocket
  <2>1. sock.kind \in SocketKinds
    BY DEF Socket
  <2> QED BY <1>1, <2>1, NewSocketFacts, ClosedFacts DEF OpenSocket, Abort
<1>2. CASE Register
  BY <1>2, ClosedFacts DEF Register, Abort
<1>3. CASE BeginFirstListing
  BY <1>3, ClosedFacts DEF BeginFirstListing, Abort, TakeSnapshot, Snapshot
<1>4. CASE FinishFirstListing
  BY <1>4, ClosedFacts, CursorFacts, ListingFacts, ListsAssumption
     DEF FinishFirstListing, Abort, UpdateOf, DefaultCursor
<1>5. CASE CallChanged
  BY <1>5, ListsAssumption DEF CallChanged
<1>6. CASE Wake
  BY <1>6 DEF Wake
<1>7. CASE ReadinessFails
  BY <1>7 DEF ReadinessFails
<1>8. CASE Drain
  <2>1. TypeOK'
    BY <1>8, ReceivedFacts DEF Drain
  <2>2. (unsent <= epoch /\ snap.epoch <= epoch)'
    BY <1>8, ReceivedFacts DEF Drain
  <2>3. SocketOK(sock)'
    BY <1>8, ReceivedFacts DEF Drain
  <2>4. (pc \in Subscribed => sock.open)'
    BY <1>8, ReceivedFacts DEF Drain
  <2>5. CursorOK'
    BY <1>8, ReceivedFacts DEF Drain
  <2>6. EdgeOK'
    <3>1. CASE DrainEnds(sock)
      <4>1. sock'.congested \/ ~Readable(sock')
        BY <1>8, <3>1, DrainEndsFacts DEF Drain
      <4>2. EdgeOK'
        BY <4>1 DEF EdgeOK
      <4> QED BY <4>2
    <3>2. CASE ~DrainEnds(sock)
      <4>1. pc' = "drain"
        BY <1>8, <3>2 DEF Drain
      <4> QED BY <4>1
    <3> QED BY <3>1, <3>2
  <2>7. FreshOK'
    BY <1>8, ReceivedFacts DEF Drain
  <2>8. FailureOK'
    BY <1>8 DEF Drain
  <2> QED BY <2>1, <2>2, <2>3, <2>4, <2>5, <2>6, <2>7, <2>8 DEF IInv
<1>9. CASE ClearReady
  BY <1>9 DEF ClearReady
<1>10. CASE BeginListing
  <2>1. TypeOK'
    <3>1. HostTypeOK'
      BY <1>10, HostAssumption DEF BeginListing, TakeSnapshot, Snapshot
    <3> QED BY <1>10, <3>1 DEF BeginListing
  <2>2. (unsent <= epoch /\ snap.epoch <= epoch)'
    BY <1>10 DEF BeginListing, TakeSnapshot, Snapshot
  <2>3. SocketOK(sock)'
    BY <1>10 DEF BeginListing, TakeSnapshot, Snapshot
  <2>4. (pc \in Subscribed => sock.open)'
    BY <1>10 DEF BeginListing, TakeSnapshot, Snapshot
  <2>5. CursorOK'
    BY <1>10 DEF BeginListing, TakeSnapshot, Snapshot
  <2>6. EdgeOK'
    BY <1>10 DEF BeginListing, TakeSnapshot, Snapshot
  <2>7. FreshOK'
    BY <1>10 DEF BeginListing, TakeSnapshot, Snapshot
  <2>8. FailureOK'
    BY <1>10 DEF BeginListing
  <2> QED BY <2>1, <2>2, <2>3, <2>4, <2>5, <2>6, <2>7, <2>8 DEF IInv
<1>11. CASE FinishListing
  <2>1. TypeOK'
    BY <1>11, CursorFacts, ListingFacts DEF FinishListing, Emits
  <2>2. (unsent <= epoch /\ snap.epoch <= epoch)'
    BY <1>11, CursorFacts, ListingFacts DEF FinishListing, Emits
  <2>3. SocketOK(sock)'
    BY <1>11, CursorFacts, ListingFacts DEF FinishListing, Emits
  <2>4. (pc \in Subscribed => sock.open)'
    BY <1>11, CursorFacts, ListingFacts DEF FinishListing, Emits
  <2>5. CursorOK'
    BY <1>11, CursorFacts, ListingFacts DEF FinishListing, Emits
  <2>6. EdgeOK'
    BY <1>11, CursorFacts, ListingFacts DEF FinishListing, Emits
  <2>7. FreshOK'
    BY <1>11, CursorFacts, ListingFacts DEF FinishListing, Emits
  <2>8. FailureOK'
    BY <1>11 DEF FinishListing
  <2> QED BY <2>1, <2>2, <2>3, <2>4, <2>5, <2>6, <2>7, <2>8 DEF IInv
<1>12. CASE CancelChanged
  BY <1>12 DEF CancelChanged
<1>13. CASE DropWatch
  BY <1>13, ClosedFacts DEF DropWatch
<1>14. CASE RuntimeSeesEdge
  BY <1>14 DEF RuntimeSeesEdge
<1>15. CASE KernelChanges
  <2>1. TypeOK'
    BY <1>15, HostAssumption DEF KernelChanges, OsChanges, ChangeConfiguration, watchVars
  <2>2. (unsent <= epoch /\ snap.epoch <= epoch)'
    <3>1. unsent' = unsent + 1 /\ epoch' = epoch + 1 /\ snap' = snap
      BY <1>15 DEF KernelChanges, OsChanges, ChangeConfiguration
    <3>2. unsent \in Int /\ epoch \in Int /\ snap.epoch \in Int
      BY HostAssumption DEF Snapshot
    <3> QED BY <3>1, <3>2
  <2>3. SocketOK(sock)'
    BY <1>15, HostAssumption DEF KernelChanges, OsChanges, ChangeConfiguration, watchVars
  <2>4. (pc \in Subscribed => sock.open)'
    BY <1>15, HostAssumption DEF KernelChanges, OsChanges, ChangeConfiguration, watchVars
  <2>5. CursorOK'
    BY <1>15, HostAssumption DEF KernelChanges, OsChanges, ChangeConfiguration, watchVars
  <2>6. EdgeOK'
    BY <1>15, HostAssumption DEF KernelChanges, OsChanges, ChangeConfiguration, watchVars
  <2>7. FreshOK'
    BY <1>15, HostAssumption DEF KernelChanges, OsChanges, ChangeConfiguration, watchVars
  <2>8. FailureOK'
    BY <1>15 DEF KernelChanges, OsChanges, ChangeConfiguration, watchVars
  <2> QED BY <2>1, <2>2, <2>3, <2>4, <2>5, <2>6, <2>7, <2>8 DEF IInv
<1>16. CASE KernelNotifies
  <2>1. TypeOK'
    BY <1>16, DeliveredFacts, HostAssumption DEF KernelNotifies, OsNotifies
  <2>2. (unsent <= epoch /\ snap.epoch <= epoch)'
    BY <1>16, DeliveredFacts, HostAssumption DEF KernelNotifies, OsNotifies
  <2>3. SocketOK(sock)'
    BY <1>16, DeliveredFacts, HostAssumption DEF KernelNotifies, OsNotifies
  <2>4. (pc \in Subscribed => sock.open)'
    BY <1>16, DeliveredFacts, HostAssumption DEF KernelNotifies, OsNotifies
  <2>5. CursorOK'
    BY <1>16, DeliveredFacts, HostAssumption DEF KernelNotifies, OsNotifies
  <2>6. EdgeOK'
    <3>1. /\ sock' = Delivered(sock)
          /\ edge' = (edge \/ (DeliveryWakes(sock) /\ mode = "tokio" /\ pc \notin {"open", "register"}))
          /\ UNCHANGED <<mode, pc, ready, fresh>>
      BY <1>16 DEF KernelNotifies, OsNotifies
    <3>2. CASE DeliveryWakes(sock)
      BY <3>1, <3>2
    <3>3. CASE Delivered(sock) = sock
      <4>1. sock' = sock /\ (edge => edge')
        BY <3>1, <3>3
      <4> QED BY <3>1, <4>1
    <3> QED BY <3>2, <3>3, WakesFacts
  <2>7. FreshOK'
    BY <1>16, DeliveredFacts, HostAssumption DEF KernelNotifies, OsNotifies
  <2>8. FailureOK'
    BY <1>16 DEF KernelNotifies, OsNotifies
  <2> QED BY <2>1, <2>2, <2>3, <2>4, <2>5, <2>6, <2>7, <2>8 DEF IInv
<1>17. CASE UNCHANGED vars
  BY <1>17 DEF vars, watchVars
<1> QED
  BY <1>1, <1>2, <1>3, <1>4, <1>5, <1>6, <1>7, <1>8, <1>9, <1>10, <1>11, <1>12, <1>13, <1>14,
     <1>15, <1>16, <1>17 DEF Next, Changed

LEMMA Invariance == Spec => []IInv
  BY InitEstablishes, StepPreserves, PTL DEF Spec

-----------------------------------------------------------------------------
(* Every reachable state is well typed.                                    *)
THEOREM TypeCorrect == Spec => []TypeOK
<1>1. IInv => TypeOK
  BY DEF IInv
<1> QED BY <1>1, Invariance, PTL

(* A watcher nobody is going to wake has taken in the configuration as it  *)
(* is, whichever way it waits and whatever calls were cancelled.           *)
THEOREM NothingIsLost == Spec => []NoLostChange
<1>1. IInv => NoLostChange
  BY DEF IInv, FreshOK, EdgeOK, NewsPending, NoLostChange, NoWakeupComing, TokioOverrun
<1> QED BY <1>1, Invariance, PTL

-----------------------------------------------------------------------------
(* changed() implements UpdateStream: its first call delivers the initial  *)
(* Update, a listing that differs delivers a change.                       *)

LEMMA InitImplements == Init => Stream!Init
  BY DEF Init, Stream!Init, Over

LEMMA CallImplements ==
  ASSUME IInv, CallChanged
  PROVE  [Stream!Next]_(Stream!vars)
<1>1. (initial # NoUpdate => ~Over) /\ Over' = Over
  BY DEF CallChanged, Over, IInv, FailureOK
<1>2. CASE initial # NoUpdate
  <2>1. /\ yielded = NoUpdate
        /\ yielded' = [is_initial |-> TRUE, base |-> EmptyList, interfaces |-> cursor.prev_list]
    BY <1>2 DEF IInv, CursorOK, Watching, CallChanged
  <2>2. cursor.prev_list \in Lists
    BY DEF IInv, TypeOK, Cursor
  <2>3. Stream!DeliverInitial
    BY <1>1, <1>2, <2>1, <2>2 DEF Stream!DeliverInitial
  <2> QED BY <2>3 DEF Stream!Next
<1>3. CASE initial = NoUpdate
  BY <1>1, <1>3 DEF CallChanged, Stream!vars
<1> QED BY <1>2, <1>3

LEMMA ListingImplements ==
  ASSUME IInv, FinishListing
  PROVE  [Stream!Next]_(Stream!vars)
<1>1. PICK list \in ListingResults :
        IF list # NoList /\ Emits(cursor, list)
        THEN yielded' = UpdateOf(cursor, list)
        ELSE yielded' = yielded
  BY DEF FinishListing
<1>2. ~Over /\ Over' = Over
  BY DEF FinishListing, Over, IInv, FailureOK
<1>3. CASE list # NoList /\ Emits(cursor, list)
  <2>1. pc = "resolve"
    BY DEF FinishListing
  <2>2. /\ yielded \in Update
        /\ cursor.initial_pending = FALSE
        /\ cursor.prev_list = yielded.interfaces
    BY <2>1 DEF IInv, CursorOK, Watching, InsideChanged, TypeOK, Cursor
  <2>3. yielded # NoUpdate
    BY <2>2, ListsAssumption
  <2>4. yielded' = [is_initial |-> FALSE, base |-> yielded.interfaces, interfaces |-> list]
    BY <1>1, <1>3, <2>2 DEF UpdateOf
  <2>5. list \in Lists \ {yielded.interfaces}
    BY <1>3, <2>2, ListingFacts DEF IInv, TypeOK, SocketTypeOK, Emits
  <2>6. Stream!DeliverChange
    BY <1>2, <2>3, <2>4, <2>5 DEF Stream!DeliverChange
  <2> QED BY <2>6 DEF Stream!Next
<1>4. CASE ~(list # NoList /\ Emits(cursor, list))
  BY <1>1, <1>2, <1>4 DEF Stream!vars
<1> QED BY <1>3, <1>4

LEMMA StepImplements == IInv /\ [Next]_vars => [Stream!Next]_(Stream!vars)
<1> SUFFICES ASSUME IInv, [Next]_vars PROVE [Stream!Next]_(Stream!vars)
  OBVIOUS
<1>1. CASE CallChanged
  BY <1>1, CallImplements
<1>2. CASE FinishListing
  BY <1>2, ListingImplements
<1>3. CASE yielded' = yielded /\ (Over => Over')
  <2>1. CASE Over'
    BY <1>3, <2>1 DEF Stream!Next, Stream!Close, Over
  <2>2. CASE ~Over'
    BY <1>3, <2>2 DEF Stream!vars, Over
  <2> QED BY <2>1, <2>2
<1>4. ASSUME ~CallChanged, ~FinishListing
      PROVE  yielded' = yielded /\ (Over => Over')
  BY <1>4 DEF Next, Changed, OpenSocket, Abort, Register, BeginFirstListing, FinishFirstListing,
              Wake, Drain, ClearReady, BeginListing, ReadinessFails, CancelChanged, DropWatch,
              RuntimeSeesEdge, KernelChanges, KernelNotifies, vars, watchVars, Over
<1> QED BY <1>1, <1>2, <1>3, <1>4

(* Initial states and steps put together: what is delivered is a stream.   *)
THEOREM PullWatchImplementsUpdateStream == Spec => ImplementsUpdateStream
  BY InitImplements, StepImplements, Invariance, PTL
     DEF Spec, ImplementsUpdateStream, Stream!Spec

=============================================================================
