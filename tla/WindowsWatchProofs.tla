------------------------- MODULE WindowsWatchProofs -------------------------
(***************************************************************************)
(* A Windows watcher of either kind, for any set of configurations and any *)
(* number of changes: the state outlives the calls into it, no callback is *)
(* running when the watcher is gone, no change is lost, and the Updates    *)
(* are those UpdateStream promises.                                        *)
(***************************************************************************)
EXTENDS WindowsWatch, TLAPS

Early == {"unicast", "interface", "lock", "list", "resolve"}
Pulling == {"idle", "poll", "parked"}
Ended == {"dropped", "error", "unwound"}

CountsOK ==
  /\ snap.epoch <= epoch
  /\ \A s \in Sources : events[s] + unsent <= epoch

(* The mutex.                                                              *)
LockOK ==
  /\ holder = "owner" <=> opc \in {"list", "resolve", "initial"}
  /\ \A s \in Sources : holder = s <=> thread[s] \in {"list", "resolve", "callback"}

(* Which registrations there are; one that is not there does not call.     *)
RegistrationOK ==
  /\ opc = "unicast" => live = {}
  /\ opc = "interface" => live = {"unicast"}
  /\ opc \in {"lock", "list", "resolve", "initial", "watching"} \cup Pulling => live = Sources
  /\ opc \in Early \cup Pulling \cup {"initial", "watching"} => handles = live
  /\ handles \subseteq live
  /\ \A s \in Sources \ live : events[s] = 0 /\ thread[s] = "idle"
  /\ freed => opc \in Ended /\ live = {}

(* What the flags say of the owner.                                        *)
PhasesOK ==
  /\ opc \in Early \cup {"initial"} => initialising
  /\ opc \in Pulling \cup {"watching"} => ~initialising
  /\ (opc = "cancelling" /\ outcome # "dropped") => initialising
  /\ opc \in {"initial", "watching"} => kind = "callback"
  /\ opc \in Pulling => kind = "queued"
  /\ disabled => opc \in Ended
  /\ poisoned => opc \in Ended \cup {"cancelling", "aborted"}
  /\ \A s \in Sources : thread[s] = "callback" => ~failed /\ ~initialising /\ kind = "callback"

(* Once the owner is told that it is over, the state is disabled, or no    *)
(* registration is left, and nobody is in the callback.                    *)
EndOK ==
  opc \in Ended =>
    /\ disabled \/ live = {}
    /\ \A s \in Sources : thread[s] # "callback"

NothingYet == cursor = DefaultCursor /\ delivered = NoUpdate

(* The cursor's snapshot is the one last delivered.                        *)
Delivered ==
  /\ ~cursor.initial_pending
  /\ delivered \in Update
  /\ failed \/ cursor.prev_list = delivered.interfaces

StreamOK ==
  /\ opc \in Early => NothingYet /\ ~failed
  /\ (kind = "callback" /\ ~initialising) \/ opc = "initial" => Delivered
  /\ kind = "queued" => ~failed /\ (NothingYet \/ Delivered)

(* Somebody is still going to look at the configuration.                   *)
LookComing ==
  \/ unsent > 0
  \/ \E s \in Sources : events[s] > 0 \/ thread[s] \in {"waiting", "list"}

SnapshotOK ==
  \/ snap.epoch = epoch /\ snap.list = os
  \/ snap.epoch # epoch /\ LookComing

(* Nothing is left behind between the thread that looked last, the state   *)
(* and the owner's queue.                                                  *)
FreshOK ==
  /\ opc = "resolve" => SnapshotOK
  /\ opc \in Pulling \cup {"initial", "watching"} =>
       /\ \/ LastSeen = os \/ missed \/ LookComing
          \/ \E s \in Sources : thread[s] = "resolve"
       /\ (\E s \in Sources : thread[s] = "resolve") => SnapshotOK
  /\ opc \in Pulling => current = Latest

IInv ==
  /\ TypeOK
  /\ CountsOK
  /\ LockOK
  /\ RegistrationOK
  /\ PhasesOK
  /\ EndOK
  /\ StreamOK
  /\ FreshOK

-----------------------------------------------------------------------------
LEMMA CursorFacts ==
  ASSUME NEW c \in Cursor, NEW list \in Lists
  PROVE  /\ Advanced(c, list) \in Cursor
         /\ Advanced(c, list).prev_list = list
         /\ ~Advanced(c, list).initial_pending
         /\ UpdateOf(c, list) \in Update
         /\ UpdateOf(c, list).interfaces = list
  BY ListsAssumption DEF Cursor, Update, Advanced, UpdateOf

LEMMA DefaultCursorFacts == DefaultCursor \in Cursor /\ DefaultCursor.initial_pending
  BY ListsAssumption DEF DefaultCursor, Cursor

LEMMA ListingFacts ==
  ASSUME HostTypeOK, NEW list \in ListingResults
  PROVE  /\ list # NoList => list \in Lists
         /\ snap.epoch = epoch => list = snap.list /\ list # NoList
  BY ListsAssumption DEF HostTypeOK, Snapshot, ListingResults

LEMMA QueueFacts ==
  ASSUME NEW q \in Queue
  PROVE  /\ \A list \in Lists : Pushed(q, list) \in Queue /\ Pushed(q, list).latest = list
         /\ Taken(q) \in Queue /\ Taken(q).latest = NoList
         /\ Parked(q) \in Queue /\ Parked(q).latest = q.latest
<1>1. \A list \in Lists : Pushed(q, list) \in Queue /\ Pushed(q, list).latest = list
  BY DEF Pushed, Queue
<1>2. Taken(q) \in Queue /\ Taken(q).latest = NoList
  BY DEF Taken, Queue
<1>3. Parked(q) \in Queue /\ Parked(q).latest = q.latest
  BY DEF Parked, Queue
<1> QED BY <1>1, <1>2, <1>3

LEMMA InitEstablishes == Init => IInv
<1> SUFFICES ASSUME Init PROVE IInv
  OBVIOUS
<1> USE DEF Init, HostInit
<1>1. HostTypeOK /\ CountsOK
  BY HostAssumption DEF HostTypeOK, Snapshot, CountsOK
<1>2. cursor \in Cursor /\ current \in Lists /\ queue \in Queue
  BY DefaultCursorFacts, ListsAssumption DEF Queue, EmptyQueue
<1>3. opc \in OwnerStates /\ holder \in Sources \cup {"owner", "nobody"}
  BY DEF OwnerStates, Sources
<1>4. unsent \in 0..MaxChanges /\ events \in [Sources -> 0..MaxChanges]
  BY HostAssumption
<1>5. poisoned \in BOOLEAN /\ initialising \in BOOLEAN /\ disabled \in BOOLEAN /\ failed \in BOOLEAN
        /\ freed \in BOOLEAN /\ missed \in BOOLEAN
  OBVIOUS
<1>6. TypeOK
  BY <1>1, <1>2, <1>3, <1>4, <1>5 DEF TypeOK
<1>7. LockOK /\ RegistrationOK /\ PhasesOK /\ EndOK /\ StreamOK /\ FreshOK
  BY DEF LockOK, RegistrationOK, PhasesOK, EndOK, StreamOK, NothingYet, FreshOK, Early, Pulling, Ended, Sources
<1> QED BY <1>1, <1>6, <1>7 DEF IInv

LEMMA StepPreserves == IInv /\ [Next]_vars => IInv'
<1> SUFFICES ASSUME IInv, [Next]_vars PROVE IInv'
  OBVIOUS
<1> USE DEF IInv, TypeOK, HostTypeOK, CountsOK, LockOK, RegistrationOK, PhasesOK, EndOK, StreamOK,
            NothingYet, Delivered, LookComing, SnapshotOK, FreshOK, Latest, LastSeen,
            Early, Pulling, Ended, Sources, OwnerStates,
            osVars, hostVars, registrationVars, stateVars, updateVars
<1>1. CASE Lock
  BY <1>1 DEF Lock
<1>2. CASE BeginInitialListing
  BY <1>2 DEF BeginInitialListing, TakeSnapshot, Snapshot
<1>3. CASE FinishInitialListing
  <2>1. PICK list \in ListingResults \ {NoList} :
          IF kind = "callback"
          THEN /\ cursor' = Advanced(cursor, list)
               /\ delivered' = UpdateOf(cursor, list)
               /\ opc' = "initial"
               /\ UNCHANGED <<current, queue, initialising, holder>>
          ELSE /\ current' = list
               /\ queue' = Pushed(queue, list)
               /\ initialising' = FALSE
               /\ holder' = "nobody"
               /\ opc' = "idle"
               /\ UNCHANGED <<cursor, delivered>>
    BY <1>3 DEF FinishInitialListing
  <2>2. opc = "resolve" /\ UNCHANGED <<osVars, kind, thread, registrationVars, poisoned, disabled, failed, missed>>
    BY <1>3 DEF FinishInitialListing
  <2>3. list \in Lists /\ (snap.epoch = epoch => list = snap.list)
    BY ListingFacts
  <2>4. CASE kind = "callback"
    <3>1. /\ cursor' \in Cursor /\ cursor'.prev_list = list /\ ~cursor'.initial_pending
          /\ delivered' \in Update /\ delivered'.interfaces = list
      <4>1. cursor' = Advanced(cursor, list) /\ delivered' = UpdateOf(cursor, list)
        BY <2>1, <2>4
      <4> QED BY <2>3, <4>1, CursorFacts
    <3>2. opc' = "initial" /\ UNCHANGED <<current, queue, initialising, holder>>
      BY <2>1, <2>4
    <3>3. TypeOK'
      BY <2>2, <3>1, <3>2
    <3>4. (CountsOK /\ LockOK /\ RegistrationOK /\ PhasesOK /\ EndOK /\ StreamOK)'
      BY <2>2, <2>4, <3>1, <3>2
    <3>5. FreshOK'
      BY <2>2, <2>3, <2>4, <3>1, <3>2
    <3> QED BY <3>3, <3>4, <3>5
  <2>5. CASE kind # "callback"
    <3>1. queue' \in Queue /\ queue'.latest = list /\ current' = list
      BY <2>1, <2>3, <2>5, QueueFacts
    <3>2. initialising' = FALSE /\ holder' = "nobody" /\ opc' = "idle" /\ UNCHANGED <<cursor, delivered>>
      BY <2>1, <2>5
    <3>3. TypeOK'
      BY <2>2, <2>3, <3>1, <3>2
    <3>4. (CountsOK /\ LockOK /\ RegistrationOK /\ PhasesOK /\ EndOK /\ StreamOK)'
      BY <2>2, <2>5, <3>1, <3>2
    <3>5. FreshOK'
      BY <2>2, <2>3, <2>5, <3>1, <3>2, ListsAssumption
    <3> QED BY <3>3, <3>4, <3>5
  <2> QED BY <2>4, <2>5
<1>4. CASE InitialListingFails
  BY <1>4 DEF InitialListingFails, DropRegistration
<1>5. CASE InitialCallbackReturns
  BY <1>5 DEF InitialCallbackReturns
<1>6. CASE InitialCallbackPanics
  BY <1>6 DEF InitialCallbackPanics, DropRegistration
<1>7. CASE FreeState
  BY <1>7 DEF FreeState
<1>8. CASE LeakState
  BY <1>8 DEF LeakState
<1>9. CASE PollQueue
  <2>1. opc \in {"poll", "parked"} /\ UNCHANGED <<osVars, kind, thread, holder, registrationVars, stateVars, missed>>
    BY <1>9 DEF PollQueue
  <2>2. queue' \in Queue /\ cursor' \in Cursor /\ delivered' \in Update \cup {NoUpdate}
          /\ opc' \in {"parked", "idle", "poll"}
    BY <1>9, QueueFacts, CursorFacts DEF PollQueue, Queue
  <2>3. TypeOK'
    BY <2>1, <2>2
  <2>4. (CountsOK /\ LockOK /\ RegistrationOK /\ PhasesOK /\ EndOK)'
    BY <2>1, <2>2
  <2>5. CASE queue.latest = NoList
    <3>1. queue'.latest = queue.latest /\ UNCHANGED <<cursor, delivered>>
      BY <1>9, <2>5, QueueFacts DEF PollQueue
    <3> QED BY <2>1, <2>2, <2>3, <2>4, <3>1
  <2>6. CASE queue.latest # NoList /\ Emits(cursor, queue.latest)
    <3>1. queue.latest \in Lists
      BY <2>6 DEF Queue
    <3>2. cursor' = Advanced(cursor, queue.latest) /\ delivered' = UpdateOf(cursor, queue.latest)
            /\ queue' = Taken(queue)
      BY <1>9, <2>6 DEF PollQueue
    <3>3. queue'.latest = NoList /\ cursor'.prev_list = queue.latest /\ ~cursor'.initial_pending
            /\ delivered' \in Update /\ delivered'.interfaces = queue.latest
      BY <3>1, <3>2, QueueFacts, CursorFacts
    <3>4. StreamOK'
      BY <2>1, <2>2, <3>3
    <3>5. FreshOK'
      BY <2>1, <2>2, <2>6, <3>3
    <3> QED BY <2>3, <2>4, <3>4, <3>5
  <2>7. CASE queue.latest # NoList /\ ~Emits(cursor, queue.latest)
    <3>1. cursor.prev_list = queue.latest
      BY <2>7 DEF Emits
    <3>2. queue'.latest = NoList /\ UNCHANGED <<cursor, delivered>>
      BY <1>9, <2>7, QueueFacts DEF PollQueue
    <3> QED BY <2>1, <2>2, <2>3, <2>4, <2>7, <3>1, <3>2
  <2> QED BY <2>5, <2>6, <2>7
<1>10. CASE DropWatcher
  BY <1>10 DEF DropWatcher, DropRegistration
<1>11. CASE CallChanged
  BY <1>11 DEF CallChanged
<1>12. CASE CancelChanged
  BY <1>12 DEF CancelChanged
<1>13. ASSUME NEW s \in Sources, Register(s) PROVE IInv'
  BY <1>13 DEF Register, DropRegistration
<1>14. ASSUME NEW s \in Sources, Cancel(s) \/ CancelFails(s) PROVE IInv'
  <2>1. TypeOK'
    <3>1. events' \in [Sources -> 0..MaxChanges] /\ live' \subseteq live /\ handles' \subseteq handles
      BY <1>14, HostAssumption DEF Cancel, CancelFails, CancelReturns
    <3> QED BY <1>14, <3>1 DEF Cancel, CancelFails, CancelReturns
  <2>2. CountsOK'
    BY <1>14 DEF Cancel, CancelFails, CancelReturns
  <2>3. LockOK'
    BY <1>14 DEF Cancel, CancelFails, CancelReturns
  <2>4. RegistrationOK'
    <3>1. CASE Cancel(s)
      BY <3>1 DEF Cancel, CancelReturns
    <3>2. CASE CancelFails(s)
      BY <3>2 DEF CancelFails, CancelReturns
    <3> QED BY <1>14, <3>1, <3>2
  <2>5. PhasesOK'
    BY <1>14 DEF Cancel, CancelFails, CancelReturns
  <2>6. EndOK'
    BY <1>14 DEF Cancel, CancelFails, CancelReturns
  <2>7. StreamOK'
    BY <1>14 DEF Cancel, CancelFails, CancelReturns
  <2>8. FreshOK'
    BY <1>14 DEF Cancel, CancelFails, CancelReturns
  <2> QED BY <2>1, <2>2, <2>3, <2>4, <2>5, <2>6, <2>7, <2>8
<1>15. ASSUME NEW s \in Sources, NotifBegins(s) PROVE IInv'
  <2>1. TypeOK'
    <3>1. events[s] \in 0..MaxChanges /\ events[s] > 0 /\ events' = [events EXCEPT ![s] = events[s] - 1]
      BY <1>15 DEF NotifBegins
    <3>2. events[s] - 1 \in 0..MaxChanges
      BY <3>1, HostAssumption
    <3>3. events' \in [Sources -> 0..MaxChanges]
      BY <3>1, <3>2
    <3>4. thread' \in [Sources -> {"idle", "waiting", "list", "resolve", "callback"}]
      BY <1>15 DEF NotifBegins
    <3> QED BY <1>15, <3>3, <3>4 DEF NotifBegins
  <2>2. CountsOK'
    BY <1>15 DEF NotifBegins
  <2>3. LockOK'
    BY <1>15 DEF NotifBegins
  <2>4. RegistrationOK'
    BY <1>15 DEF NotifBegins
  <2>5. PhasesOK'
    BY <1>15 DEF NotifBegins
  <2>6. EndOK'
    BY <1>15 DEF NotifBegins
  <2>7. StreamOK'
    BY <1>15 DEF NotifBegins
  <2>8. FreshOK'
    BY <1>15 DEF NotifBegins
  <2> QED BY <2>1, <2>2, <2>3, <2>4, <2>5, <2>6, <2>7, <2>8
<1>16. ASSUME NEW s \in Sources, NotifLocks(s) PROVE IInv'
  BY <1>16 DEF NotifLocks
<1>17. ASSUME NEW s \in Sources, NotifBeginsListing(s) PROVE IInv'
  <2>1. TypeOK'
    <3>1. HostTypeOK'
      BY <1>17, HostAssumption DEF NotifBeginsListing, TakeSnapshot, Snapshot
    <3>2. thread' \in [Sources -> {"idle", "waiting", "list", "resolve", "callback"}]
            /\ holder' \in Sources \cup {"owner", "nobody"}
      BY <1>17 DEF NotifBeginsListing, NotifReturns
    <3>3. missed' \in BOOLEAN
      BY <1>17 DEF NotifBeginsListing
    <3> HIDE DEF CountsOK, LockOK, RegistrationOK, PhasesOK, EndOK, StreamOK, FreshOK,
                 Sources, OwnerStates, HostTypeOK
    <3> QED BY <1>17, <3>1, <3>2, <3>3 DEF NotifBeginsListing
  <2>2. CountsOK'
    BY <1>17 DEF NotifBeginsListing, NotifReturns, TakeSnapshot, Snapshot
  <2>3. LockOK'
    BY <1>17 DEF NotifBeginsListing, NotifReturns, TakeSnapshot, Snapshot
  <2>4. RegistrationOK'
    BY <1>17 DEF NotifBeginsListing, NotifReturns, TakeSnapshot, Snapshot
  <2>5. PhasesOK'
    BY <1>17 DEF NotifBeginsListing, NotifReturns, TakeSnapshot, Snapshot
  <2>6. EndOK'
    BY <1>17 DEF NotifBeginsListing, NotifReturns, TakeSnapshot, Snapshot
  <2>7. StreamOK'
    BY <1>17 DEF NotifBeginsListing, NotifReturns, TakeSnapshot, Snapshot
  <2>8. FreshOK'
    BY <1>17 DEF NotifBeginsListing, NotifReturns, TakeSnapshot, Snapshot
  <2> QED BY <2>1, <2>2, <2>3, <2>4, <2>5, <2>6, <2>7, <2>8
<1>18. ASSUME NEW s \in Sources, NotifFinishesListing(s) PROVE IInv'
  <2>1. PICK list \in ListingResults :
          IF list \in {NoList, LastSeen} \/ initialising \/ disabled
          THEN /\ NotifReturns(s)
               /\ UNCHANGED <<current, updateVars>>
          ELSE IF kind = "callback" THEN HandleNotif(s, list)
          ELSE HandleQueuedNotif(s, list)
    BY <1>18 DEF NotifFinishesListing
  <2>2. /\ thread[s] = "resolve"
        /\ missed' = FALSE
        /\ UNCHANGED <<osVars, kind, opc, registrationVars, poisoned, initialising, disabled, failed>>
    BY <1>18 DEF NotifFinishesListing
  <2>3. /\ list # NoList => list \in Lists
        /\ snap.epoch = epoch => list = snap.list /\ list # NoList
    BY ListingFacts
  <2>4. holder = s /\ s \in live
    BY <2>2
  <2>5. ASSUME NotifReturns(s)
        PROVE  /\ thread' \in [Sources -> {"idle", "waiting", "list", "resolve", "callback"}]
               /\ holder' \in Sources \cup {"owner", "nobody"}
               /\ (LockOK /\ RegistrationOK /\ PhasesOK /\ EndOK)'
               /\ ~\E t \in Sources : thread'[t] = "resolve"
               /\ LookComing => LookComing'
    <3>1. thread' = [thread EXCEPT ![s] = "idle"] /\ holder' = "nobody"
      BY <2>5 DEF NotifReturns
    <3> QED BY <2>2, <2>4, <3>1
  <2>6. CountsOK'
    BY <2>2
  <2>types. ASSUME thread' \in [Sources -> {"idle", "waiting", "list", "resolve", "callback"}],
                   holder' \in Sources \cup {"owner", "nobody"},
                   cursor' \in Cursor, current' \in Lists, queue' \in Queue,
                   delivered' \in Update \cup {NoUpdate}
            PROVE  TypeOK'
    <3> HIDE DEF CountsOK, LockOK, RegistrationOK, PhasesOK, EndOK, StreamOK, FreshOK,
                 Sources, OwnerStates, HostTypeOK
    <3>1. HostTypeOK'
      BY <2>2 DEF HostTypeOK
    <3>2. kind' = kind /\ unsent' = unsent /\ events' = events /\ live' = live
      BY <2>2
    <3>3. opc' = opc /\ handles' = handles /\ outcome' = outcome /\ poisoned' = poisoned
      BY <2>2
    <3>4. initialising' = initialising /\ disabled' = disabled /\ failed' = failed /\ freed' = freed
      BY <2>2
    <3>5. missed' \in BOOLEAN
      BY <2>2
    <3> QED BY <2>types, <3>1, <3>2, <3>3, <3>4, <3>5
  <2>7. CASE list \in {NoList, LastSeen} \/ initialising \/ disabled
    <3>1. NotifReturns(s) /\ UNCHANGED <<current, updateVars>>
      BY <2>1, <2>7
    <3>2. TypeOK'
      <4>1. thread' \in [Sources -> {"idle", "waiting", "list", "resolve", "callback"}]
             /\ holder' \in Sources \cup {"owner", "nobody"}
        BY <2>5, <3>1
      <4> QED BY <3>1, <4>1, <2>types
    <3>3. StreamOK'
      BY <2>2, <3>1
    <3>4. FreshOK'
      <4>1. opc \in Pulling \cup {"watching"} => (snap.epoch # epoch /\ LookComing) \/ LastSeen = os
        BY <2>2, <2>3, <2>7
      <4>2. opc # "initial" /\ opc # "resolve"
        BY <2>4
      <4> QED BY <2>2, <2>5, <3>1, <4>1, <4>2
    <3> QED BY <2>5, <2>6, <3>1, <3>2, <3>3, <3>4
  <2>8. CASE ~(list \in {NoList, LastSeen} \/ initialising \/ disabled) /\ kind = "callback"
    <3>1. HandleNotif(s, list)
      BY <2>1, <2>8
    <3>2. list \in Lists
      BY <2>3, <2>8
    <3>3. cursor' \in Cursor /\ cursor'.prev_list = list /\ ~cursor'.initial_pending
      <4>1. cursor' = Advanced(cursor, list) /\ cursor \in Cursor
        BY <3>1 DEF HandleNotif
      <4> HIDE DEF IInv
      <4> QED BY <3>2, <4>1, CursorFacts
    <3>4. UNCHANGED <<current, queue>>
      BY <3>1 DEF HandleNotif
    <3>5. opc \notin Early \cup Pulling \cup {"initial"}
      BY <2>2, <2>8
    <3>6. CASE failed
      <4>1. NotifReturns(s) /\ delivered' = delivered
        BY <3>1, <3>6 DEF HandleNotif
      <4>2. TypeOK'
        <5>1. thread' \in [Sources -> {"idle", "waiting", "list", "resolve", "callback"}]
               /\ holder' \in Sources \cup {"owner", "nobody"}
          BY <2>5, <4>1
        <5> QED BY <3>3, <3>4, <4>1, <5>1, <2>types
      <4>3. StreamOK'
        BY <2>2, <2>8, <3>3, <3>5, <3>6, <4>1
      <4>4. FreshOK'
        BY <2>2, <2>3, <2>5, <2>8, <3>3, <3>5, <4>1
      <4> QED BY <2>5, <2>6, <4>1, <4>2, <4>3, <4>4
    <3>7. CASE ~failed
      <4>1. delivered' = UpdateOf(cursor, list) /\ thread' = [thread EXCEPT ![s] = "callback"]
              /\ holder' = holder
        BY <3>1, <3>7 DEF HandleNotif
      <4>2. delivered' \in Update /\ delivered'.interfaces = list
        BY <3>2, <4>1, CursorFacts
      <4>3. TypeOK'
        <5>1. thread' \in [Sources -> {"idle", "waiting", "list", "resolve", "callback"}]
          BY <4>1
        <5> QED BY <2>2, <3>3, <3>4, <4>1, <4>2, <5>1, <2>types
      <4>4. opc \notin Ended
        BY <2>2, <2>4, <2>8
      <4>5. (LockOK /\ RegistrationOK)'
        BY <2>2, <2>4, <4>1
      <4>6. (PhasesOK /\ EndOK)'
        BY <2>2, <2>4, <2>8, <3>7, <4>1, <4>4
      <4>7. StreamOK'
        BY <2>2, <2>8, <3>3, <3>5, <4>2
      <4>8. FreshOK'
        BY <2>2, <2>3, <2>4, <2>8, <3>3, <3>5, <4>1
      <4> QED BY <2>6, <4>3, <4>5, <4>6, <4>7, <4>8
    <3> QED BY <3>6, <3>7
  <2>9. CASE ~(list \in {NoList, LastSeen} \/ initialising \/ disabled) /\ kind # "callback"
    <3>1. HandleQueuedNotif(s, list)
      BY <2>1, <2>9
    <3>2. list \in Lists /\ list # NoList
      BY <2>3, <2>9
    <3>3. queue' \in Queue /\ queue'.latest = list /\ current' = list
      BY <3>1, <3>2, QueueFacts DEF HandleQueuedNotif
    <3>4. NotifReturns(s) /\ UNCHANGED <<cursor, delivered>>
      BY <3>1 DEF HandleQueuedNotif
    <3>5. opc \notin Early \cup {"initial", "watching"}
      BY <2>2, <2>9
    <3>6. TypeOK'
      <4>1. thread' \in [Sources -> {"idle", "waiting", "list", "resolve", "callback"}]
             /\ holder' \in Sources \cup {"owner", "nobody"}
        BY <2>5, <3>4
      <4> QED BY <3>2, <3>3, <3>4, <4>1, <2>types
    <3>7. StreamOK'
      BY <2>2, <2>9, <3>4, <3>5
    <3>8. FreshOK'
      BY <2>2, <2>3, <2>5, <2>9, <3>2, <3>3, <3>4, <3>5
    <3> QED BY <2>5, <2>6, <3>4, <3>6, <3>7, <3>8
  <2> QED BY <2>7, <2>8, <2>9
<1>19. ASSUME NEW s \in Sources, NotifCallbackEnds(s) PROVE IInv'
  <2>1. TypeOK'
    BY <1>19 DEF NotifCallbackEnds, NotifReturns
  <2>2. CountsOK'
    BY <1>19 DEF NotifCallbackEnds, NotifReturns
  <2>3. LockOK'
    BY <1>19 DEF NotifCallbackEnds, NotifReturns
  <2>4. RegistrationOK'
    BY <1>19 DEF NotifCallbackEnds, NotifReturns
  <2>5. PhasesOK'
    BY <1>19 DEF NotifCallbackEnds, NotifReturns
  <2>6. EndOK'
    BY <1>19 DEF NotifCallbackEnds, NotifReturns
  <2>7. StreamOK'
    <3>1. /\ kind = "callback" /\ ~initialising
          /\ UNCHANGED <<kind, opc, initialising, updateVars>>
      BY <1>19 DEF NotifCallbackEnds
    <3>2. opc \notin Early \cup {"initial"} /\ Delivered
      BY <3>1
    <3>3. Delivered'
      <4>1. ~failed /\ UNCHANGED <<cursor, delivered>>
        BY <1>19, <3>1 DEF NotifCallbackEnds
      <4> QED BY <3>2, <4>1
    <3> QED BY <3>1, <3>2, <3>3 DEF StreamOK
  <2>8. FreshOK'
    BY <1>19 DEF NotifCallbackEnds, NotifReturns
  <2> QED BY <2>1, <2>2, <2>3, <2>4, <2>5, <2>6, <2>7, <2>8
<1>20. CASE OsChanges
  <2>1. TypeOK'
    BY <1>20, HostAssumption DEF OsChanges, ChangeConfiguration
  <2>2. CountsOK'
    <3>1. unsent' = unsent + 1 /\ epoch' = epoch + 1 /\ snap' = snap /\ events' = events
      BY <1>20 DEF OsChanges, ChangeConfiguration
    <3>2. unsent \in Int /\ epoch \in Int /\ snap.epoch \in Int /\ \A s \in Sources : events[s] \in Int
      BY HostAssumption DEF Snapshot
    <3>3. snap.epoch <= epoch + 1 /\ \A s \in Sources : events[s] + (unsent + 1) <= epoch + 1
      BY <3>2
    <3> QED BY <3>1, <3>3 DEF CountsOK
  <2>3. LockOK'
    BY <1>20, HostAssumption DEF OsChanges, ChangeConfiguration
  <2>4. RegistrationOK'
    BY <1>20, HostAssumption DEF OsChanges, ChangeConfiguration
  <2>5. PhasesOK'
    BY <1>20, HostAssumption DEF OsChanges, ChangeConfiguration
  <2>6. EndOK'
    BY <1>20, HostAssumption DEF OsChanges, ChangeConfiguration
  <2>7. StreamOK'
    BY <1>20, HostAssumption DEF OsChanges, ChangeConfiguration
  <2>8. FreshOK'
    BY <1>20, HostAssumption DEF OsChanges, ChangeConfiguration
  <2> QED BY <2>1, <2>2, <2>3, <2>4, <2>5, <2>6, <2>7, <2>8
<1>21. CASE OsNotices
  <2>1. TypeOK'
    BY <1>21, HostAssumption DEF OsNotices
  <2>2. CountsOK'
    BY <1>21, HostAssumption DEF OsNotices
  <2>3. LockOK'
    BY <1>21, HostAssumption DEF OsNotices
  <2>4. RegistrationOK'
    BY <1>21, HostAssumption DEF OsNotices
  <2>5. PhasesOK'
    BY <1>21, HostAssumption DEF OsNotices
  <2>6. EndOK'
    BY <1>21, HostAssumption DEF OsNotices
  <2>7. StreamOK'
    BY <1>21, HostAssumption DEF OsNotices
  <2>8. FreshOK'
    <3>1. PICK concerned \in (SUBSET Sources) \ {{}} :
            events' = [s \in Sources |-> IF s \in concerned \cap live THEN events[s] + 1 ELSE events[s]]
      BY <1>21 DEF OsNotices
    <3>2. UNCHANGED <<hostVars, kind, thread, opc, holder, registrationVars, stateVars, updateVars, missed>>
      BY <1>21 DEF OsNotices
    <3>3. \A s \in Sources : events[s] \in Nat /\ events'[s] >= events[s]
      BY <3>1, HostAssumption
    <3>4. live = Sources => \E s \in Sources : events'[s] > 0
      <4>1. PICK s \in concerned : s \in Sources
        OBVIOUS
      <4>2. live = Sources => events'[s] = events[s] + 1
        BY <3>1, <4>1
      <4> QED BY <3>3, <4>1, <4>2
    <3>5. live = Sources => LookComing'
      BY <3>4
    <3> QED BY <3>2, <3>5
  <2> QED BY <2>1, <2>2, <2>3, <2>4, <2>5, <2>6, <2>7, <2>8
<1>22. CASE UNCHANGED vars
  BY <1>22 DEF vars
<1> QED
  BY <1>1, <1>2, <1>3, <1>4, <1>5, <1>6, <1>7, <1>8, <1>9, <1>10, <1>11, <1>12, <1>13, <1>14, <1>15, <1>16, <1>17, <1>18, <1>19, <1>20, <1>21, <1>22 DEF Next, Owner, OwnerProceeds, Notif

LEMMA Invariance == Spec => []IInv
  BY InitEstablishes, StepPreserves, PTL DEF Spec

-----------------------------------------------------------------------------
(* Every reachable state is well typed.                                    *)
THEOREM TypeCorrect == Spec => []TypeOK
<1>1. IInv => TypeOK
  BY DEF IInv
<1> QED BY <1>1, Invariance, PTL

(* The state is dropped only when neither registration can call into it,   *)
(* whichever registrations and cancellations failed.                       *)
THEOREM StateIsDroppedLast == Spec => []StateOutlivesCalls
<1>1. IInv => StateOutlivesCalls
  BY DEF IInv, RegistrationOK, StateOutlivesCalls
<1> QED BY <1>1, Invariance, PTL

(* No callback is executing when a watcher was dropped or its construction *)
(* has failed or unwound.                                                  *)
THEOREM CallbackIsOverAtTheEnd == Spec => []NoCallAfterDrop
<1>1. IInv => NoCallAfterDrop
  BY DEF IInv, EndOK, Ended, NoCallAfterDrop
<1> QED BY <1>1, Invariance, PTL

-----------------------------------------------------------------------------
(* No change is lost, and nobody sleeps through a push of one.             *)

(* A parked owner found the queue empty and left its waker there, and what *)
(* was pushed since has woken it.                                          *)
WakeOK == opc = "parked" => queue.woken \/ (queue.waker /\ queue.latest = NoList)

LEMMA WakerFacts ==
  ASSUME NEW q \in Queue
  PROVE  /\ \A list \in Lists : q.waker \/ q.woken => Pushed(q, list).woken
         /\ Parked(q).waker
  BY DEF Queue, Pushed, Parked

LEMMA WakeStepPreserves == IInv /\ WakeOK /\ [Next]_vars => WakeOK'
<1> SUFFICES ASSUME IInv, WakeOK, [Next]_vars PROVE WakeOK'
  OBVIOUS
<1>0. queue \in Queue /\ HostTypeOK /\ outcome # "parked"
  BY DEF IInv, TypeOK
<1>1. CASE PollQueue
  <2>1. CASE queue.latest = NoList
    <3>1. queue' = Parked(queue)
      BY <1>1, <2>1 DEF PollQueue
    <3> QED BY <1>0, <2>1, <3>1, QueueFacts, WakerFacts DEF WakeOK
  <2>2. CASE queue.latest # NoList
    <3>1. opc' \in {"idle", "poll"}
      BY <1>1, <2>2 DEF PollQueue
    <3> QED BY <3>1 DEF WakeOK
  <2> QED BY <2>1, <2>2
<1>2. ASSUME NEW s \in Sources, NotifFinishesListing(s)
      PROVE  WakeOK'
  <2>1. opc' = opc
    BY <1>2 DEF NotifFinishesListing
  <2>2. CASE queue' = queue
    BY <2>1, <2>2 DEF WakeOK
  <2>3. CASE queue' # queue
    <3>1. PICK list \in ListingResults :
            IF list \in {NoList, LastSeen} \/ initialising \/ disabled
            THEN UNCHANGED updateVars
            ELSE IF kind = "callback" THEN HandleNotif(s, list)
            ELSE HandleQueuedNotif(s, list)
      BY <1>2 DEF NotifFinishesListing
    <3>2. list # NoList /\ HandleQueuedNotif(s, list)
      BY <2>3, <3>1 DEF updateVars, HandleNotif
    <3>3. list \in Lists /\ queue' = Pushed(queue, list)
      BY <1>0, <3>2, ListingFacts DEF HandleQueuedNotif
    <3> QED BY <1>0, <2>1, <3>3, WakerFacts DEF WakeOK
  <2> QED BY <2>2, <2>3
<1>3. CASE opc' # "parked" \/ (opc' = opc /\ queue' = queue)
  BY <1>3 DEF WakeOK
<1>4. ASSUME ~PollQueue, ~\E s \in Sources : NotifFinishesListing(s)
      PROVE  opc' # "parked" \/ (opc' = opc /\ queue' = queue)
  <2> USE DEF updateVars, registrationVars
  <2>1. CASE Owner
    BY <1>0, <1>4, <2>1
       DEF Owner, OwnerProceeds, Register, Cancel, CancelFails, CancelReturns, Lock,
           BeginInitialListing, FinishInitialListing, InitialListingFails, InitialCallbackReturns, InitialCallbackPanics, FreeState,
           LeakState, DropWatcher, CallChanged, CancelChanged, DropRegistration, Sources
  <2>2. ASSUME NEW s \in Sources, Notif(s) PROVE opc' = opc /\ queue' = queue
    BY <1>4, <2>2 DEF Notif, NotifBegins, NotifLocks, NotifBeginsListing, NotifCallbackEnds
  <2>3. CASE OsChanges \/ OsNotices \/ UNCHANGED vars
    BY <2>3 DEF OsChanges, OsNotices, vars
  <2> QED BY <2>1, <2>2, <2>3 DEF Next
<1> QED BY <1>1, <1>2, <1>3, <1>4

(* What the invariant says of a moment when everything is dealt with.      *)
LEMMA QuietIsCurrent == IInv /\ WakeOK => NoLostChange
<1>1. ASSUME IInv, WakeOK PROVE NoLostChange
  <2>1. ASSUME Quiet, ~missed, opc \in Pulling \cup {"watching"} PROVE LastSeen = os
    <3>1. ~LookComing
      <4>1. \A s \in Sources : ~(events[s] > 0) /\ thread[s] \notin {"waiting", "list"}
        BY <2>1 DEF Quiet
      <4> QED BY <2>1, <4>1 DEF LookComing, Quiet
    <3>2. ~\E s \in Sources : thread[s] = "resolve"
      BY <2>1 DEF Quiet
    <3> QED BY <1>1, <2>1, <3>1, <3>2 DEF IInv, FreshOK
  <2>2. ASSUME Quiet, ~missed, opc = "watching" PROVE failed \/ delivered.interfaces = os
    <3>1. kind = "callback" /\ ~initialising
      BY <1>1, <2>2 DEF IInv, PhasesOK
    <3>2. Delivered
      BY <1>1, <3>1 DEF IInv, StreamOK
    <3> QED BY <2>1, <2>2, <3>1, <3>2 DEF Delivered, LastSeen
  <2>3. ASSUME Quiet, ~missed, opc \in Pulling PROVE Latest = os
    <3>1. kind = "queued" /\ current = Latest
      BY <1>1, <2>3 DEF IInv, PhasesOK, FreshOK
    <3> QED BY <2>1, <2>3, <3>1 DEF LastSeen
  <2>4. ASSUME Quiet, ~missed, opc = "parked" PROVE queue.woken \/ cursor.prev_list = os
    BY <1>1, <2>3, <2>4 DEF WakeOK, Latest, Pulling
  <2> QED BY <2>2, <2>3, <2>4 DEF NoLostChange, Pulling
<1> QED BY <1>1

(* When all notifications are dealt with, the owner has the configuration  *)
(* or finds it in its queue, and does not sleep meanwhile.                 *)
THEOREM NothingIsLost == Spec => []NoLostChange
<1>1. Init => WakeOK
  BY DEF Init, WakeOK
<1> QED BY <1>1, Invariance, WakeStepPreserves, QuietIsCurrent, PTL DEF Spec

(* watch_win.rs:103-119: whoever holds the mutex lists or runs the user's  *)
(* callback. It is neither waiting for a cancellation, which waits for     *)
(* calls that wait for the mutex, nor gone.                                *)
LockHolderRuns ==
  /\ holder = "owner" => opc \in {"list", "resolve", "initial"}
  /\ \A s \in Sources : holder = s => thread[s] \in {"list", "resolve", "callback"}

(* No thread waits for another one while it holds the mutex.               *)
THEOREM NobodyWaitsWithTheLock == Spec => []LockHolderRuns
<1>1. IInv => LockHolderRuns
  BY DEF IInv, LockOK, LockHolderRuns
<1> QED BY <1>1, Invariance, PTL

-----------------------------------------------------------------------------
(* The watcher implements UpdateStream: the initial listing, notifications *)
(* and changed() deliver; failures, panics and the drop close.             *)

LEMMA InitImplements == Init => Stream!Init
  BY DEF Init, Stream!Init, Over

(* The first Update delivered is the initial one, any other differs from   *)
(* the one before.                                                         *)
LEMMA DeliveryImplements ==
  ASSUME IInv, ~Over, ~Over', NEW list \in Lists, delivered' = UpdateOf(cursor, list),
         NothingYet \/ (Delivered /\ ~failed /\ list # cursor.prev_list)
  PROVE  [Stream!Next]_(Stream!vars)
<1>0. Over' = Over
  BY DEF Over
<1>1. CASE NothingYet
  <2>1. delivered' = [is_initial |-> TRUE, base |-> EmptyList, interfaces |-> list]
    BY <1>1 DEF NothingYet, UpdateOf, DefaultCursor
  <2>2. Stream!DeliverInitial
    BY <1>0, <1>1, <2>1 DEF Stream!DeliverInitial, NothingYet
  <2> QED BY <2>2 DEF Stream!Next
<1>2. CASE Delivered /\ ~failed /\ list # cursor.prev_list
  <2>1. delivered # NoUpdate /\ cursor.prev_list = delivered.interfaces /\ cursor.initial_pending = FALSE
    BY <1>2, ListsAssumption DEF Delivered, IInv, TypeOK, Cursor
  <2>2. delivered' = [is_initial |-> FALSE, base |-> delivered.interfaces, interfaces |-> list]
    BY <2>1 DEF UpdateOf
  <2>3. list \in Lists \ {delivered.interfaces}
    BY <1>2, <2>1
  <2>4. Stream!DeliverChange
    BY <1>0, <2>1, <2>2, <2>3 DEF Stream!DeliverChange
  <2> QED BY <2>4 DEF Stream!Next
<1> QED BY <1>1, <1>2

LEMMA InitialListingImplements ==
  ASSUME IInv, FinishInitialListing
  PROVE  [Stream!Next]_(Stream!vars)
<1>1. PICK list \in ListingResults \ {NoList} :
        IF kind = "callback" THEN delivered' = UpdateOf(cursor, list) ELSE delivered' = delivered
  BY DEF FinishInitialListing
<1>2. list \in Lists
  BY ListingFacts DEF IInv, TypeOK
<1>3. opc = "resolve" /\ opc' \in {"initial", "idle"} /\ failed' = failed /\ NothingYet /\ ~failed
  BY DEF FinishInitialListing, IInv, StreamOK, Early
<1>4. ~Over /\ ~Over'
  BY <1>3 DEF Over
<1>5. CASE kind = "callback"
  BY <1>1, <1>2, <1>3, <1>4, <1>5, DeliveryImplements
<1>6. CASE kind # "callback"
  <2>1. Over' = Over /\ delivered' = delivered
    BY <1>1, <1>4, <1>6 DEF Over
  <2> QED BY <2>1 DEF Stream!vars
<1> QED BY <1>5, <1>6

LEMMA NotificationImplements ==
  ASSUME IInv, NEW s \in Sources, NotifFinishesListing(s), Alive
  PROVE  [Stream!Next]_(Stream!vars)
<1>1. opc' = opc /\ outcome' = outcome /\ failed' = failed /\ thread[s] = "resolve"
  BY DEF NotifFinishesListing, registrationVars
<1>2. Over' = Over
  BY <1>1 DEF Over
<1>3. CASE delivered' = delivered
  BY <1>2, <1>3 DEF Stream!vars
<1>4. CASE delivered' # delivered
  <2>1. PICK list \in ListingResults :
          IF list \in {NoList, LastSeen} \/ initialising \/ disabled
          THEN UNCHANGED <<current, updateVars>>
          ELSE IF kind = "callback" THEN HandleNotif(s, list)
          ELSE HandleQueuedNotif(s, list)
    BY DEF NotifFinishesListing
  <2>2. list \notin {NoList, LastSeen} /\ ~initialising /\ ~disabled
    BY <1>4, <2>1 DEF updateVars
  <2>3. kind = "callback" /\ HandleNotif(s, list)
    BY <1>4, <2>1, <2>2 DEF HandleQueuedNotif
  <2>4. ~failed /\ delivered' = UpdateOf(cursor, list)
    BY <1>4, <2>3 DEF HandleNotif
  <2>5. list \in Lists /\ list # cursor.prev_list
    BY <2>2, <2>3, ListingFacts DEF IInv, TypeOK, LastSeen
  <2>6. Delivered
    BY <2>2, <2>3 DEF IInv, StreamOK
  <2>7. opc \notin Ended
    BY <1>1, <2>2 DEF IInv, EndOK, RegistrationOK, Ended
  <2>8. opc = "cancelling" => outcome = "dropped"
    BY <2>2 DEF IInv, PhasesOK
  <2>9. ~Over
    BY <2>4, <2>7, <2>8 DEF Over, Alive, Ended
  <2> QED BY <1>2, <2>4, <2>5, <2>6, <2>9, DeliveryImplements
<1> QED BY <1>3, <1>4

LEMMA PollImplements ==
  ASSUME IInv, PollQueue
  PROVE  [Stream!Next]_(Stream!vars)
<1>1. opc \in {"poll", "parked"} /\ opc' \in {"parked", "idle", "poll"} /\ failed' = failed
  BY DEF PollQueue, stateVars
<1>2. ~failed /\ (NothingYet \/ Delivered)
  BY <1>1 DEF IInv, PhasesOK, StreamOK, Pulling
<1>3. ~Over /\ ~Over'
  BY <1>1, <1>2 DEF Over
<1>4. CASE queue.latest # NoList /\ Emits(cursor, queue.latest)
  <2>1. queue.latest \in Lists /\ delivered' = UpdateOf(cursor, queue.latest)
    BY <1>4 DEF PollQueue, IInv, TypeOK, Queue
  <2>2. NothingYet \/ queue.latest # cursor.prev_list
    BY <1>2, <1>4 DEF Emits, Delivered
  <2> QED BY <1>2, <1>3, <2>1, <2>2, DeliveryImplements
<1>5. CASE ~(queue.latest # NoList /\ Emits(cursor, queue.latest))
  <2>1. delivered' = delivered /\ Over' = Over
    BY <1>3, <1>5 DEF PollQueue, Over
  <2> QED BY <2>1 DEF Stream!vars
<1> QED BY <1>4, <1>5

LEMMA StepImplements == IInv /\ [Next]_vars => [Stream!Next]_(Stream!vars)
<1> SUFFICES ASSUME IInv, [Next]_vars PROVE [Stream!Next]_(Stream!vars)
  OBVIOUS
<1>1. CASE FinishInitialListing
  BY <1>1, InitialListingImplements
<1>2. CASE Alive /\ \E s \in Sources : NotifFinishesListing(s)
  BY <1>2, NotificationImplements
<1>3. CASE PollQueue
  BY <1>3, PollImplements
<1>4. CASE delivered' = delivered /\ (Over => Over')
  <2>1. CASE Over'
    BY <1>4, <2>1 DEF Stream!Next, Stream!Close
  <2>2. CASE ~Over'
    <3>1. Over' = Over
      BY <1>4, <2>2 DEF Over
    <3> QED BY <1>4, <3>1 DEF Stream!vars
  <2> QED BY <2>1, <2>2
<1>5. ASSUME ~FinishInitialListing, ~PollQueue, ~\E s \in Sources : NotifFinishesListing(s)
      PROVE  delivered' = delivered /\ (Over => Over')
  <2> USE DEF osVars, registrationVars, stateVars, updateVars, Over
  <2>0. outcome \in {"dropped", "error", "unwound"}
    BY DEF IInv, TypeOK
  <2>1. CASE Owner
    BY <1>5, <2>0, <2>1
       DEF Owner, OwnerProceeds, Register, Cancel, CancelFails, CancelReturns, Lock,
           BeginInitialListing, InitialListingFails, InitialCallbackReturns, InitialCallbackPanics, FreeState, LeakState, DropWatcher,
           CallChanged, CancelChanged, DropRegistration, Sources
  <2>2. ASSUME NEW s \in Sources, Notif(s) PROVE delivered' = delivered /\ (Over => Over')
    <3>1. CASE NotifCallbackEnds(s)
      <4>1. ~failed /\ delivered' = delivered /\ opc' = opc /\ outcome' = outcome
        BY <3>1 DEF NotifCallbackEnds, IInv, PhasesOK
      <4> QED BY <4>1
    <3>2. CASE ~NotifCallbackEnds(s)
      BY <1>5, <2>2, <3>2 DEF Notif, NotifBegins, NotifLocks, NotifBeginsListing, NotifReturns
    <3> QED BY <3>1, <3>2
  <2>3. CASE OsChanges \/ OsNotices \/ UNCHANGED vars
    BY <2>3 DEF OsChanges, OsNotices, vars
  <2> QED BY <2>1, <2>2, <2>3 DEF Next
<1>6. Alive \/ UNCHANGED vars
  BY DEF Next
<1>7. CASE UNCHANGED vars
  BY <1>7 DEF vars, registrationVars, stateVars, updateVars, Over, Stream!vars
<1> QED BY <1>1, <1>2, <1>3, <1>4, <1>5, <1>6, <1>7

(* Initial states and steps put together: what is delivered is a stream.   *)
THEOREM WindowsWatchImplementsUpdateStream == Spec => ImplementsUpdateStream
  BY InitImplements, StepImplements, Invariance, PTL
     DEF Spec, ImplementsUpdateStream, Stream!Spec

=============================================================================
