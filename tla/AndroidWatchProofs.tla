------------------------- MODULE AndroidWatchProofs -------------------------
(***************************************************************************)
(* The Android watchers, for any number of watchers of both kinds, any set *)
(* of configurations and any number of changes: the shared State stays     *)
(* consistent, no change is lost, and every owner gets the Updates         *)
(* UpdateStream promises.                                                  *)
(***************************************************************************)
EXTENDS AndroidWatch, TLAPS

Registering == {"start", "list", "resolve"}
Initialising == {"initial", "catchUp", "catchUpCall"}
Pulling == {"idle", "poll", "parked"}

CountsOK ==
  /\ snap.epoch <= epoch
  /\ events + unsent <= epoch

(* The mutex, and what the notification thread is doing with it.           *)
LockOK ==
  /\ holder = Notifier <=> npc # "idle"
  /\ \A w \in Watchers : holder = w <=> opc[w] \in Registering
  /\ npc # "idle" => HasWatchers
  /\ running # Nobody <=> npc = "callback"
  /\ todo # {} => npc \in {"dispatch", "callback"}
  /\ todo \cup ({running} \ {Nobody}) \subseteq callbacks
  /\ running \notin todo

(* Who is registered where is known from where its owner is.               *)
MembersOK ==
  /\ \A w \in CallbackWatchers :
       /\ w \in initialising <=> opc[w] \in Initialising \cup {"unwinding"}
       /\ w \in callbacks <=> opc[w] \in {"watching", "dropping"}
       /\ opc[w] \notin Pulling
  /\ \A w \in QueuedWatchers :
       /\ w \in queued <=> opc[w] \in Pulling \cup {"dropping"}
       /\ opc[w] \notin Initialising \cup {"unwinding", "watching"}

(* The first registration brings the subscription, the last to go takes it.*)
JavaOK ==
  /\ \A w \in Watchers : opc[w] \in Registering => ~HasWatchers /\ (java <=> opc[w] # "start")
  /\ holder \in {Nobody, Notifier} => (java <=> HasWatchers)

(* What each callback was last called with: the current snapshot; before   *)
(* it is dispatched to, the one before; while it initialises, its own.     *)
CallbacksOK ==
  /\ npc \in {"dispatch", "callback"} =>
       /\ update \in Update
       /\ ~update.is_initial
       /\ update.interfaces = current
       /\ update.base # current
  /\ running # Nobody => ~failed[running]
  /\ \A w \in CallbackWatchers :
       /\ opc[w] \in Registering \cup {"new"} => delivered[w] = NoUpdate
       /\ opc[w] \in Registering \cup {"new", "initial", "catchUpCall"} => ~failed[w]
       /\ opc[w] \in Initialising =>
            delivered[w] \in Update /\ (failed[w] \/ delivered[w].interfaces = seen[w])
       /\ w \in callbacks =>
            /\ delivered[w] \in Update
            /\ failed[w] \/ delivered[w].interfaces = IF w \in todo THEN update.base ELSE current

(* The cursor of a queued watcher, and that its queue holds what the       *)
(* cursor has not seen, unless it is about to be fed.                      *)
QueuesOK ==
  \A w \in QueuedWatchers :
    /\ \/ cursor[w] = DefaultCursor /\ delivered[w] = NoUpdate
       \/ /\ ~cursor[w].initial_pending
          /\ delivered[w] \in Update
          /\ cursor[w].prev_list = delivered[w].interfaces
    /\ (w \in queued /\ npc \notin {"dispatch", "callback"}) => Latest(w) = current

(* Somebody is still going to look at the configuration.                   *)
LookComing == unsent > 0 \/ events > 0 \/ npc = "list"

FreshOK ==
  /\ HasWatchers => current = os \/ missed \/ LookComing \/ npc = "resolve"
  /\ (npc = "resolve" \/ \E w \in Watchers : opc[w] = "resolve") =>
       \/ snap.epoch = epoch /\ snap.list = os
       \/ snap.epoch # epoch /\ LookComing

IInv ==
  /\ TypeOK
  /\ CountsOK
  /\ LockOK
  /\ MembersOK
  /\ JavaOK
  /\ CallbacksOK
  /\ QueuesOK
  /\ FreshOK

-----------------------------------------------------------------------------
LEMMA CursorFacts ==
  ASSUME NEW c \in Cursor, NEW list \in Lists
  PROVE  /\ Advanced(c, list) \in Cursor
         /\ Advanced(c, list).prev_list = list
         /\ ~Advanced(c, list).initial_pending
         /\ UpdateOf(c, list) \in Update
         /\ UpdateOf(c, list).interfaces = list
  BY ListsAssumption DEF Cursor, Update, Advanced, UpdateOf

LEMMA DefaultCursorFacts == DefaultCursor \in Cursor /\ DefaultCursor.initial_pending
  BY ListsAssumption DEF DefaultCursor, Cursor

LEMMA ListingFacts ==
  ASSUME HostTypeOK, NEW list \in ListingResults
  PROVE  /\ list # NoList => list \in Lists
         /\ snap.epoch = epoch => list = snap.list /\ list # NoList
  BY ListsAssumption DEF HostTypeOK, Snapshot, ListingResults

LEMMA QueueFacts ==
  ASSUME NEW q \in Queue
  PROVE  /\ \A list \in Lists : Pushed(q, list) \in Queue /\ Pushed(q, list).latest = list
         /\ Taken(q) \in Queue /\ Taken(q).latest = NoList
         /\ Parked(q) \in Queue /\ Parked(q).latest = q.latest
<1>1. \A list \in Lists : Pushed(q, list) \in Queue /\ Pushed(q, list).latest = list
  BY DEF Pushed, Queue
<1>2. Taken(q) \in Queue /\ Taken(q).latest = NoList
  BY DEF Taken, Queue
<1>3. Parked(q) \in Queue /\ Parked(q).latest = q.latest
  BY DEF Parked, Queue
<1> QED BY <1>1, <1>2, <1>3

LEMMA UpdateFacts ==
  ASSUME NEW base \in Lists, NEW list \in Lists
  PROVE  /\ InitialUpdate(list) \in Update
         /\ InitialUpdate(list).interfaces = list
         /\ ChangeUpdate(base, list) \in Update
         /\ ChangeUpdate(base, list).interfaces = list
         /\ ChangeUpdate(base, list).base = base
         /\ ~ChangeUpdate(base, list).is_initial
  BY ListsAssumption DEF InitialUpdate, ChangeUpdate, Update

(* What a watcher that joins changes.                                      *)
LEMMA AdmitFacts ==
  ASSUME TypeOK, NEW w \in Watchers, NEW list \in Lists, Admit(w, list)
  PROVE  /\ initialising' \in SUBSET CallbackWatchers
         /\ queued' \in SUBSET QueuedWatchers
         /\ opc' \in [Watchers -> OwnerStates]
         /\ seen' \in [CallbackWatchers -> Lists]
         /\ queue' \in [QueuedWatchers -> Queue]
         /\ delivered' \in [Watchers -> Update \cup {NoUpdate}]
         /\ UNCHANGED <<callbacks, failed, cursor>>
         /\ \A v \in QueuedWatchers : delivered'[v] = delivered[v]
         /\ \A v \in QueuedWatchers : queue'[v] = queue[v] \/ (v = w /\ queue'[v].latest = list)
         /\ queued' \subseteq queued \cup {w}
         /\ w \in queued' => w \in QueuedWatchers /\ (w \notin queued => queue'[w].latest = list)
<1> USE WatchersAssumption DEF TypeOK, Watchers
<1>1. CASE w \in CallbackWatchers
  <2>1. /\ initialising' = initialising \cup {w}
        /\ seen' = [seen EXCEPT ![w] = list]
        /\ delivered' = [delivered EXCEPT ![w] = InitialUpdate(list)]
        /\ opc' = [opc EXCEPT ![w] = "initial"]
        /\ UNCHANGED <<callbacks, queued, failed, cursor, queue>>
    BY <1>1 DEF Admit, GoTo
  <2>2. opc' \in [Watchers -> OwnerStates]
    BY <2>1 DEF OwnerStates
  <2>3. delivered' \in [Watchers -> Update \cup {NoUpdate}]
    BY <2>1, UpdateFacts
  <2>4. seen' \in [CallbackWatchers -> Lists]
    BY <2>1
  <2>5. w \notin QueuedWatchers
    BY <1>1
  <2>6. initialising' \in SUBSET CallbackWatchers
    BY <1>1, <2>1
  <2>7. \A v \in QueuedWatchers : delivered'[v] = delivered[v]
    BY <2>1, <2>5
  <2>8. queued \in SUBSET QueuedWatchers /\ queue \in [QueuedWatchers -> Queue]
    OBVIOUS
  <2>9. w \notin queued'
    BY <2>1, <2>5, <2>8
  <2>a. queue' \in [QueuedWatchers -> Queue] /\ UNCHANGED <<callbacks, failed, cursor>>
    BY <2>1, <2>8
  <2>b. /\ \A v \in QueuedWatchers : queue'[v] = queue[v] \/ (v = w /\ queue'[v].latest = list)
        /\ queued' \in SUBSET QueuedWatchers
        /\ queued' \subseteq queued \cup {w}
    BY <2>1, <2>8
  <2>c. w \in queued' => w \in QueuedWatchers /\ (w \notin queued => queue'[w].latest = list)
    BY <2>9
  <2> HIDE DEF TypeOK, Watchers
  <2> QED BY <2>2, <2>3, <2>4, <2>6, <2>7, <2>a, <2>b, <2>c, Zenon
<1>2. CASE w \notin CallbackWatchers
  <2>1. /\ queue' = [queue EXCEPT ![w] = Pushed(queue[w], list)]
        /\ queued' = queued \cup {w}
        /\ opc' = [opc EXCEPT ![w] = "idle"]
        /\ UNCHANGED <<callbacks, initialising, seen, failed, cursor, delivered>>
    BY <1>2 DEF Admit, GoTo
  <2>2. w \in QueuedWatchers /\ queue[w] \in Queue
    BY <1>2
  <2>3. Pushed(queue[w], list) \in Queue /\ Pushed(queue[w], list).latest = list
    BY <2>2, QueueFacts
  <2>4. opc' \in [Watchers -> OwnerStates]
    BY <2>1 DEF OwnerStates
  <2>5. queue' \in [QueuedWatchers -> Queue]
    BY <2>1, <2>3
  <2>6. \A v \in QueuedWatchers : queue'[v] = queue[v] \/ (v = w /\ queue'[v].latest = list)
    <3>1. ASSUME NEW v \in QueuedWatchers, v # w PROVE queue'[v] = queue[v]
      <4>1. queue \in [QueuedWatchers -> Queue] /\ queue' = [queue EXCEPT ![w] = Pushed(queue[w], list)]
        BY <2>1
      <4> HIDE DEF TypeOK, Watchers
      <4> QED BY <3>1, <4>1
    <3>2. queue'[w].latest = list
      BY <2>1, <2>2, <2>3
    <3>3. ASSUME NEW v \in QueuedWatchers
          PROVE  queue'[v] = queue[v] \/ (v = w /\ queue'[v].latest = list)
      BY <3>1, <3>2
    <3> QED BY <3>3
  <2>7. queue'[w].latest = list
    BY <2>1, <2>2, <2>3
  <2>8. /\ seen \in [CallbackWatchers -> Lists]
        /\ delivered \in [Watchers -> Update \cup {NoUpdate}]
        /\ initialising \in SUBSET CallbackWatchers
        /\ queued \in SUBSET QueuedWatchers
    OBVIOUS
  <2> HIDE DEF TypeOK, Watchers
  <2> QED BY <2>1, <2>2, <2>4, <2>5, <2>6, <2>7, <2>8
<1> QED BY <1>1, <1>2

LEMMA InitEstablishes == Init => IInv
<1> SUFFICES ASSUME Init PROVE IInv
  OBVIOUS
<1> USE DEF Init, HostInit
<1>1. HostTypeOK /\ CountsOK
  BY HostAssumption DEF HostTypeOK, Snapshot, CountsOK
<1>2. DefaultCursor \in Cursor /\ EmptyQueue \in Queue
  BY DefaultCursorFacts DEF Queue, EmptyQueue
<1>3. TypeOK
  <2>1. unsent \in 0..MaxChanges /\ events \in 0..MaxChanges /\ current \in Lists
    BY HostAssumption, ListsAssumption
  <2>2. opc \in [Watchers -> OwnerStates] /\ delivered \in [Watchers -> Update \cup {NoUpdate}]
    BY DEF OwnerStates
  <2>3. seen \in [CallbackWatchers -> Lists] /\ failed \in [CallbackWatchers -> BOOLEAN]
    BY ListsAssumption
  <2>4. cursor \in [QueuedWatchers -> Cursor] /\ queue \in [QueuedWatchers -> Queue]
    BY <1>2
  <2>5. java \in BOOLEAN /\ missed \in BOOLEAN
    OBVIOUS
  <2> HIDE DEF Init
  <2>6. /\ holder = Nobody /\ callbacks = {} /\ initialising = {} /\ queued = {}
        /\ npc = "idle" /\ update = NoUpdate /\ todo = {} /\ running = Nobody
    BY DEF Init
  <2> QED BY <1>1, <2>1, <2>2, <2>3, <2>4, <2>5, <2>6 DEF TypeOK
<1>4. LockOK /\ MembersOK /\ JavaOK /\ CallbacksOK /\ QueuesOK /\ FreshOK
  BY WatchersAssumption
     DEF LockOK, MembersOK, JavaOK, CallbacksOK, QueuesOK, FreshOK, HasWatchers, Watchers,
         Registering, Initialising, Pulling
<1> QED BY <1>1, <1>3, <1>4 DEF IInv

LEMMA StepPreserves == IInv /\ [Next]_vars => IInv'
<1> SUFFICES ASSUME IInv, [Next]_vars PROVE IInv'
  OBVIOUS
<1> USE WatchersAssumption
    DEF IInv, TypeOK, HostTypeOK, CountsOK, LockOK, MembersOK, JavaOK, CallbacksOK, QueuesOK,
        LookComing, FreshOK, Latest, HasWatchers, Watchers, Registering, Initialising, Pulling,
        OwnerStates, hostVars, kernelVars, stateVars, ownerVars, notifierVars
<1>1. ASSUME NEW w \in Watchers, Register(w) PROVE IInv'
  <2>1. TypeOK'
    <3>1. CASE HasWatchers
      <4>1. Admit(w, current)
        BY <1>1, <3>1 DEF Register
      <4> HIDE DEF HasWatchers, OwnerStates, Watchers
      <4> QED BY <1>1, <3>1, <4>1, AdmitFacts DEF Register
    <3>2. CASE ~HasWatchers
      BY <1>1, <3>2 DEF Register, GoTo
    <3> QED BY <3>1, <3>2
  <2>2. CountsOK'
    BY <1>1, UpdateFacts, QueueFacts DEF Register, Admit, GoTo
  <2>3. LockOK'
    BY <1>1, UpdateFacts, QueueFacts DEF Register, Admit, GoTo
  <2>4. MembersOK'
    BY <1>1, UpdateFacts, QueueFacts DEF Register, Admit, GoTo
  <2>5. JavaOK'
    BY <1>1, UpdateFacts, QueueFacts DEF Register, Admit, GoTo
  <2>6. CallbacksOK'
    BY <1>1, UpdateFacts, QueueFacts DEF Register, Admit, GoTo
  <2>7. QueuesOK'
    <3>1. CASE HasWatchers
      <4>1. /\ \A v \in QueuedWatchers : delivered'[v] = delivered[v]
            /\ \A v \in QueuedWatchers : queue'[v] = queue[v] \/ (v = w /\ queue'[v].latest = current)
            /\ queued' \subseteq queued \cup {w}
            /\ w \in queued' => w \in QueuedWatchers /\ (w \notin queued => queue'[w].latest = current)
            /\ cursor' = cursor
        BY <1>1, <3>1, AdmitFacts DEF Register
      <4>2. npc' = npc /\ current' = current /\ holder = Nobody /\ npc = "idle"
        BY <1>1 DEF Register
      <4>3. current \in Lists /\ current # NoList
        BY ListsAssumption
      <4>4. ASSUME NEW v \in QueuedWatchers
            PROVE  /\ \/ cursor'[v] = DefaultCursor /\ delivered'[v] = NoUpdate
                      \/ /\ ~cursor'[v].initial_pending
                         /\ delivered'[v] \in Update
                         /\ cursor'[v].prev_list = delivered'[v].interfaces
                   /\ v \in queued' => Latest(v)' = current
        BY <4>1, <4>2, <4>3, <4>4
      <4> QED BY <4>2, <4>4
    <3>2. CASE ~HasWatchers
      BY <1>1, <3>2 DEF Register, GoTo
    <3> QED BY <3>1, <3>2
  <2>8. FreshOK'
    BY <1>1, UpdateFacts, QueueFacts DEF Register, Admit, GoTo
  <2> QED BY <2>1, <2>2, <2>3, <2>4, <2>5, <2>6, <2>7, <2>8
<1>2. ASSUME NEW w \in Watchers, StartJava(w) PROVE IInv'
  <2>1. TypeOK'
    <3>1. opc' \in [Watchers -> OwnerStates]
      BY <1>2 DEF StartJava, GiveUp, GoTo
    <3>2. java' \in BOOLEAN /\ holder' \in {holder, Nobody}
      BY <1>2 DEF StartJava, GiveUp
    <3>3. UNCHANGED <<callbacks, initialising, queued, current, seen, failed, cursor, queue, delivered>>
      BY <1>2 DEF StartJava, GiveUp
    <3>4. UNCHANGED <<hostVars, kernelVars, notifierVars, missed>>
      BY <1>2 DEF StartJava
    <3> QED BY <3>1, <3>2, <3>3, <3>4
  <2>2. CountsOK'
    BY <1>2 DEF StartJava, GiveUp, GoTo
  <2>3. LockOK'
    BY <1>2 DEF StartJava, GiveUp, GoTo
  <2>4. MembersOK'
    BY <1>2 DEF StartJava, GiveUp, GoTo
  <2>5. JavaOK'
    BY <1>2 DEF StartJava, GiveUp, GoTo
  <2>6. CallbacksOK'
    BY <1>2 DEF StartJava, GiveUp, GoTo
  <2>7. QueuesOK'
    BY <1>2 DEF StartJava, GiveUp, GoTo
  <2>8. FreshOK'
    BY <1>2 DEF StartJava, GiveUp, GoTo
  <2> QED BY <2>1, <2>2, <2>3, <2>4, <2>5, <2>6, <2>7, <2>8
<1>3. ASSUME NEW w \in Watchers, BeginFirstListing(w) PROVE IInv'
  <2>1. TypeOK'
    <3>1. opc' \in [Watchers -> OwnerStates]
      BY <1>3 DEF BeginFirstListing, GiveUp, GoTo
    <3>2. java' \in BOOLEAN /\ holder' \in {holder, Nobody}
      BY <1>3 DEF BeginFirstListing, GiveUp
    <3>3. UNCHANGED <<callbacks, initialising, queued, current, seen, failed, cursor, queue, delivered>>
      BY <1>3 DEF BeginFirstListing, GiveUp
    <3>4. UNCHANGED <<kernelVars, notifierVars, missed>>
      BY <1>3 DEF BeginFirstListing
    <3>5. HostTypeOK'
      BY <1>3, HostAssumption DEF BeginFirstListing, TakeSnapshot, Snapshot
    <3> QED BY <3>1, <3>2, <3>3, <3>4, <3>5
  <2>2. CountsOK'
    BY <1>3 DEF BeginFirstListing, GiveUp, GoTo, TakeSnapshot, Snapshot
  <2>3. LockOK'
    BY <1>3 DEF BeginFirstListing, GiveUp, GoTo, TakeSnapshot, Snapshot
  <2>4. MembersOK'
    BY <1>3 DEF BeginFirstListing, GiveUp, GoTo, TakeSnapshot, Snapshot
  <2>5. JavaOK'
    BY <1>3 DEF BeginFirstListing, GiveUp, GoTo, TakeSnapshot, Snapshot
  <2>6. CallbacksOK'
    BY <1>3 DEF BeginFirstListing, GiveUp, GoTo, TakeSnapshot, Snapshot
  <2>7. QueuesOK'
    BY <1>3 DEF BeginFirstListing, GiveUp, GoTo, TakeSnapshot, Snapshot
  <2>8. FreshOK'
    BY <1>3 DEF BeginFirstListing, GiveUp, GoTo, TakeSnapshot, Snapshot
  <2> QED BY <2>1, <2>2, <2>3, <2>4, <2>5, <2>6, <2>7, <2>8
<1>4. ASSUME NEW w \in Watchers, FinishFirstListing(w) PROVE IInv'
  <2>0. PICK list \in ListingResults :
          IF list = NoList
          THEN GiveUp(w) /\ UNCHANGED missed
          ELSE /\ current' = list /\ Admit(w, list) /\ holder' = Nobody
               /\ missed' = FALSE /\ UNCHANGED java
    BY <1>4 DEF FinishFirstListing
  <2>a. /\ opc[w] = "resolve" /\ holder = w /\ npc = "idle" /\ ~HasWatchers /\ java
        /\ UNCHANGED <<hostVars, kernelVars, notifierVars>>
    BY <1>4 DEF FinishFirstListing
  <2>b. list # NoList => list \in Lists /\ Admit(w, list)
    BY <2>0, ListingFacts
  <2>1. TypeOK'
    <3>1. CASE list = NoList
      <4>1. opc' \in [Watchers -> OwnerStates]
        BY <2>0, <3>1 DEF GiveUp, GoTo
      <4> QED BY <2>0, <2>a, <3>1, <4>1 DEF GiveUp
    <3>2. CASE list # NoList
      <4>1. /\ current' = list /\ holder' = Nobody /\ missed' = FALSE /\ UNCHANGED java
            /\ Admit(w, list) /\ list \in Lists /\ TypeOK
        BY <2>0, <2>b, <3>2
      <4>2. UNCHANGED <<hostVars, kernelVars, notifierVars>>
        BY <2>a
      <4> HIDE DEF HasWatchers, OwnerStates, Watchers, CountsOK, LockOK, MembersOK, JavaOK,
                   CallbacksOK, QueuesOK, FreshOK, IInv, TypeOK
      <4>3. /\ initialising' \in SUBSET CallbackWatchers
            /\ queued' \in SUBSET QueuedWatchers
            /\ opc' \in [Watchers -> OwnerStates]
            /\ seen' \in [CallbackWatchers -> Lists]
            /\ queue' \in [QueuedWatchers -> Queue]
            /\ delivered' \in [Watchers -> Update \cup {NoUpdate}]
            /\ UNCHANGED <<callbacks, failed, cursor>>
        BY <4>1, AdmitFacts
      <4> QED BY <4>1, <4>2, <4>3 DEF TypeOK, Watchers
    <3> QED BY <3>1, <3>2
  <2>2. CountsOK'
    BY <1>4, UpdateFacts, QueueFacts, ListingFacts DEF FinishFirstListing, GiveUp, GoTo, Admit
  <2>3. LockOK'
    <3>1. CASE list = NoList
      BY <2>0, <2>a, <3>1 DEF GiveUp, GoTo
    <3>2. CASE list # NoList
      <4>1. current' = list /\ holder' = Nobody /\ UNCHANGED java /\ Admit(w, list)
        BY <2>0, <2>b, <3>2
      <4>2. CASE w \in CallbackWatchers
        BY <2>a, <4>1, <4>2 DEF Admit, GoTo
      <4>3. CASE w \notin CallbackWatchers
        <5>1. /\ opc' = [opc EXCEPT ![w] = "idle"] /\ queued' = queued \cup {w}
              /\ UNCHANGED <<callbacks, initialising>>
          BY <4>1, <4>3 DEF Admit, GoTo
        <5> QED BY <2>a, <4>1, <4>3, <5>1
      <4> QED BY <4>2, <4>3
    <3> QED BY <3>1, <3>2
  <2>4. MembersOK'
    <3>1. CASE list = NoList
      BY <2>0, <2>a, <3>1 DEF GiveUp, GoTo
    <3>2. CASE list # NoList
      BY <2>0, <2>a, <2>b, <3>2, UpdateFacts DEF Admit, GoTo
    <3> QED BY <3>1, <3>2
  <2>5. JavaOK'
    <3>1. CASE list = NoList
      BY <2>0, <2>a, <3>1 DEF GiveUp, GoTo
    <3>2. CASE list # NoList
      <4>1. current' = list /\ holder' = Nobody /\ UNCHANGED java /\ Admit(w, list)
        BY <2>0, <2>b, <3>2
      <4>2. CASE w \in CallbackWatchers
        BY <2>a, <4>1, <4>2 DEF Admit, GoTo
      <4>3. CASE w \notin CallbackWatchers
        <5>1. /\ opc' = [opc EXCEPT ![w] = "idle"] /\ queued' = queued \cup {w}
              /\ UNCHANGED <<callbacks, initialising>>
          BY <4>1, <4>3 DEF Admit, GoTo
        <5> QED BY <2>a, <4>1, <4>3, <5>1
      <4> QED BY <4>2, <4>3
    <3> QED BY <3>1, <3>2
  <2>6. CallbacksOK'
    <3>1. CASE list = NoList
      BY <2>0, <2>a, <3>1 DEF GiveUp, GoTo
    <3>2. CASE list # NoList
      BY <2>0, <2>a, <2>b, <3>2, UpdateFacts DEF Admit, GoTo
    <3> QED BY <3>1, <3>2
  <2>7. QueuesOK'
    <3>1. CASE list = NoList
      BY <2>0, <2>a, <3>1 DEF GiveUp, GoTo
    <3>2. CASE list # NoList
      <4>1. /\ \A v \in QueuedWatchers : delivered'[v] = delivered[v]
            /\ \A v \in QueuedWatchers : queue'[v] = queue[v] \/ (v = w /\ queue'[v].latest = list)
            /\ queued' \subseteq queued \cup {w}
            /\ w \in queued' => w \in QueuedWatchers /\ (w \notin queued => queue'[w].latest = list)
            /\ cursor' = cursor
        BY <2>b, <3>2, AdmitFacts
      <4>2. current' = list /\ list \in Lists /\ list # NoList /\ queued = {}
        BY <2>0, <2>a, <2>b, <3>2
      <4>4. ASSUME NEW v \in QueuedWatchers
            PROVE  /\ \/ cursor'[v] = DefaultCursor /\ delivered'[v] = NoUpdate
                      \/ /\ ~cursor'[v].initial_pending
                         /\ delivered'[v] \in Update
                         /\ cursor'[v].prev_list = delivered'[v].interfaces
                   /\ v \in queued' => Latest(v)' = current'
        BY <4>1, <4>2, <4>4
      <4> QED BY <4>4
    <3> QED BY <3>1, <3>2
  <2>8. FreshOK'
    <3>1. CASE list = NoList
      BY <2>0, <2>a, <3>1 DEF GiveUp, GoTo
    <3>2. CASE list # NoList
      <4>1. current' = list /\ list \in Lists /\ (snap.epoch = epoch => list = snap.list)
        BY <2>0, <2>b, <3>2, ListingFacts
      <4>2. \A v \in Watchers : opc'[v] # "resolve"
        BY <2>0, <2>a, <2>b, <3>2 DEF Admit, GoTo
      <4> QED BY <2>a, <4>1, <4>2
    <3> QED BY <3>1, <3>2
  <2> QED BY <2>1, <2>2, <2>3, <2>4, <2>5, <2>6, <2>7, <2>8
<1>5. ASSUME NEW w \in Watchers, InitialCallbackReturns(w) PROVE IInv'
  <2>1. TypeOK'
    BY <1>5 DEF InitialCallbackReturns, GoTo
  <2>2. CountsOK'
    BY <1>5 DEF InitialCallbackReturns, GoTo
  <2>3. LockOK'
    BY <1>5 DEF InitialCallbackReturns, GoTo
  <2>4. MembersOK'
    BY <1>5 DEF InitialCallbackReturns, GoTo
  <2>5. JavaOK'
    BY <1>5 DEF InitialCallbackReturns, GoTo
  <2>6. CallbacksOK'
    BY <1>5 DEF InitialCallbackReturns, GoTo
  <2>7. QueuesOK'
    BY <1>5 DEF InitialCallbackReturns, GoTo
  <2>8. FreshOK'
    BY <1>5 DEF InitialCallbackReturns, GoTo
  <2> QED BY <2>1, <2>2, <2>3, <2>4, <2>5, <2>6, <2>7, <2>8
<1>6. ASSUME NEW w \in Watchers, InitialCallbackPanics(w) PROVE IInv'
  <2>1. TypeOK'
    BY <1>6 DEF InitialCallbackPanics, GoTo
  <2>2. CountsOK'
    BY <1>6 DEF InitialCallbackPanics, GoTo
  <2>3. LockOK'
    BY <1>6 DEF InitialCallbackPanics, GoTo
  <2>4. MembersOK'
    BY <1>6 DEF InitialCallbackPanics, GoTo
  <2>5. JavaOK'
    BY <1>6 DEF InitialCallbackPanics, GoTo
  <2>6. CallbacksOK'
    BY <1>6 DEF InitialCallbackPanics, GoTo
  <2>7. QueuesOK'
    BY <1>6 DEF InitialCallbackPanics, GoTo
  <2>8. FreshOK'
    BY <1>6 DEF InitialCallbackPanics, GoTo
  <2> QED BY <2>1, <2>2, <2>3, <2>4, <2>5, <2>6, <2>7, <2>8
<1>7. ASSUME NEW w \in Watchers, CatchUp(w) PROVE IInv'
  <2>0. /\ opc[w] = "catchUp" /\ holder = Nobody /\ npc = "idle" /\ w \in CallbackWatchers
        /\ UNCHANGED <<hostVars, kernelVars, java, queued, current, holder, failed, cursor, queue,
                       notifierVars, missed>>
    BY <1>7 DEF CatchUp
  <2>1. TypeOK'
    <3>1. opc' \in [Watchers -> OwnerStates]
      BY <1>7 DEF CatchUp, GoTo
    <3>2. callbacks' \in SUBSET CallbackWatchers /\ initialising' \in SUBSET CallbackWatchers
      BY <1>7, <2>0 DEF CatchUp
    <3>3. seen' \in [CallbackWatchers -> Lists]
      BY <1>7, <2>0 DEF CatchUp
    <3>4. ChangeUpdate(seen[w], current) \in Update
      BY <2>0, UpdateFacts
    <3>5. delivered' \in [Watchers -> Update \cup {NoUpdate}]
      <4>1. \/ delivered' = delivered
            \/ delivered' = [delivered EXCEPT ![w] = ChangeUpdate(seen[w], current)]
        BY <1>7, Zenon DEF CatchUp
      <4> QED BY <3>4, <4>1
    <3> QED BY <2>0, <3>1, <3>2, <3>3, <3>5
  <2>2. CountsOK'
    BY <1>7, UpdateFacts DEF CatchUp, GoTo
  <2>3. LockOK'
    BY <1>7, UpdateFacts DEF CatchUp, GoTo
  <2>4. MembersOK'
    <3>1. CASE current = seen[w]
      <4>1. /\ initialising' = initialising \ {w} /\ callbacks' = callbacks \cup {w}
            /\ opc' = [opc EXCEPT ![w] = "watching"]
        BY <1>7, <3>1 DEF CatchUp, GoTo
      <4> QED BY <2>0, <4>1
    <3>2. CASE current # seen[w]
      <4>1. /\ UNCHANGED <<callbacks, initialising>>
            /\ opc' = opc \/ opc' = [opc EXCEPT ![w] = "catchUpCall"]
        BY <1>7, <3>2 DEF CatchUp, GoTo
      <4> QED BY <2>0, <4>1
    <3> QED BY <3>1, <3>2
  <2>5. JavaOK'
    BY <1>7, UpdateFacts DEF CatchUp, GoTo
  <2>6. CallbacksOK'
    <3>1. seen[w] \in Lists /\ current \in Lists
      BY <2>0
    <3>2. CASE current = seen[w]
      BY <1>7, <2>0, <3>2 DEF CatchUp, GoTo
    <3>3. CASE current # seen[w] /\ failed[w]
      <4>1. UNCHANGED <<callbacks, initialising, opc, delivered>>
        BY <1>7, <3>3 DEF CatchUp
      <4>2. seen' = [seen EXCEPT ![w] = current]
        BY <1>7, <3>3 DEF CatchUp
      <4> QED BY <2>0, <3>3, <4>1, <4>2
    <3>4. CASE current # seen[w] /\ ~failed[w]
      <4>1. /\ seen' = [seen EXCEPT ![w] = current]
            /\ delivered' = [delivered EXCEPT ![w] = ChangeUpdate(seen[w], current)]
            /\ opc' = [opc EXCEPT ![w] = "catchUpCall"]
            /\ UNCHANGED <<callbacks, initialising>>
        BY <1>7, <3>4, Zenon DEF CatchUp, GoTo
      <4>2. /\ ChangeUpdate(seen[w], current) \in Update
            /\ ChangeUpdate(seen[w], current).interfaces = current
        BY <3>1, UpdateFacts
      <4> QED BY <2>0, <3>4, <4>1, <4>2
    <3> QED BY <3>2, <3>3, <3>4
  <2>7. QueuesOK'
    <3>1. \A v \in QueuedWatchers : v # w
      BY <2>0
    <3>2. \A v \in QueuedWatchers : delivered'[v] = delivered[v]
      BY <1>7, <3>1 DEF CatchUp
    <3>3. UNCHANGED <<queued, current, cursor, queue, npc>>
      BY <2>0
    <3> QED BY <3>2, <3>3
  <2>8. FreshOK'
    BY <1>7, UpdateFacts DEF CatchUp, GoTo
  <2> QED BY <2>1, <2>2, <2>3, <2>4, <2>5, <2>6, <2>7, <2>8
<1>8. ASSUME NEW w \in Watchers, CatchUpCallEnds(w) PROVE IInv'
  <2>1. TypeOK'
    BY <1>8 DEF CatchUpCallEnds, GoTo
  <2>2. CountsOK'
    BY <1>8 DEF CatchUpCallEnds, GoTo
  <2>3. LockOK'
    BY <1>8 DEF CatchUpCallEnds, GoTo
  <2>4. MembersOK'
    BY <1>8 DEF CatchUpCallEnds, GoTo
  <2>5. JavaOK'
    BY <1>8 DEF CatchUpCallEnds, GoTo
  <2>6. CallbacksOK'
    BY <1>8 DEF CatchUpCallEnds, GoTo
  <2>7. QueuesOK'
    BY <1>8 DEF CatchUpCallEnds, GoTo
  <2>8. FreshOK'
    BY <1>8 DEF CatchUpCallEnds, GoTo
  <2> QED BY <2>1, <2>2, <2>3, <2>4, <2>5, <2>6, <2>7, <2>8
<1>9. ASSUME NEW w \in Watchers, Unregister(w) PROVE IInv'
  <2>1. TypeOK'
    BY <1>9 DEF Unregister, GoTo
  <2>2. CountsOK'
    BY <1>9 DEF Unregister, GoTo
  <2>3. LockOK'
    BY <1>9 DEF Unregister, GoTo
  <2>4. MembersOK'
    BY <1>9 DEF Unregister, GoTo
  <2>5. JavaOK'
    BY <1>9 DEF Unregister, GoTo
  <2>6. CallbacksOK'
    BY <1>9 DEF Unregister, GoTo
  <2>7. QueuesOK'
    BY <1>9 DEF Unregister, GoTo
  <2>8. FreshOK'
    BY <1>9 DEF Unregister, GoTo
  <2> QED BY <2>1, <2>2, <2>3, <2>4, <2>5, <2>6, <2>7, <2>8
<1>10. ASSUME NEW w \in Watchers, PollQueue(w) PROVE IInv'
  <2>0. /\ opc[w] \in {"poll", "parked"} /\ w \in QueuedWatchers /\ w \notin CallbackWatchers
        /\ UNCHANGED <<hostVars, kernelVars, stateVars, holder, seen, failed, notifierVars, missed>>
    BY <1>10 DEF PollQueue
  <2>a. /\ queue[w] \in Queue /\ cursor[w] \in Cursor
        /\ queue[w].latest # NoList => queue[w].latest \in Lists
    BY <2>0 DEF Queue
  <2>b. \E state \in {"parked", "idle", "poll"} : opc' = [opc EXCEPT ![w] = state]
    BY <1>10 DEF PollQueue, GoTo
  <2>c. \/ /\ queue' = [queue EXCEPT ![w] = Parked(queue[w])]
           /\ UNCHANGED <<cursor, delivered>>
        \/ /\ queue[w].latest # NoList
           /\ queue' = [queue EXCEPT ![w] = Taken(queue[w])]
           /\ \/ /\ cursor' = [cursor EXCEPT ![w] = Advanced(cursor[w], queue[w].latest)]
                 /\ delivered' = [delivered EXCEPT ![w] = UpdateOf(cursor[w], queue[w].latest)]
              \/ /\ ~Emits(cursor[w], queue[w].latest)
                 /\ UNCHANGED <<cursor, delivered>>
    BY <1>10 DEF PollQueue
  <2>d. \A v \in CallbackWatchers : delivered'[v] = delivered[v] /\ opc'[v] = opc[v]
    BY <2>0, <2>b, <2>c
  <2>e. \A v \in Watchers : v # w => opc'[v] = opc[v]
    BY <2>b
  <2>f. opc'[w] \in {"parked", "idle", "poll"}
    BY <2>b
  <2>1. TypeOK'
    <3>1. opc' \in [Watchers -> OwnerStates]
      BY <2>b
    <3>2. queue' \in [QueuedWatchers -> Queue]
      BY <2>a, <2>c, QueueFacts
    <3>3. queue[w].latest # NoList =>
            /\ Advanced(cursor[w], queue[w].latest) \in Cursor
            /\ UpdateOf(cursor[w], queue[w].latest) \in Update
      BY <2>a, CursorFacts
    <3>4. cursor' \in [QueuedWatchers -> Cursor]
      BY <2>c, <3>3
    <3>5. delivered' \in [Watchers -> Update \cup {NoUpdate}]
      BY <2>c, <3>3
    <3> QED BY <2>0, <3>1, <3>2, <3>4, <3>5
  <2>2. CountsOK'
    BY <1>10, CursorFacts, QueueFacts DEF PollQueue, GoTo, Emits
  <2>3. LockOK'
    BY <2>0, <2>d, <2>e, <2>f
  <2>4. MembersOK'
    BY <2>0, <2>d, <2>e, <2>f
  <2>5. JavaOK'
    BY <2>0, <2>d, <2>e, <2>f
  <2>6. CallbacksOK'
    BY <2>0, <2>d, <2>e
  <2>7. QueuesOK'
    <3>1. ASSUME NEW v \in QueuedWatchers, v # w
          PROVE  queue'[v] = queue[v] /\ cursor'[v] = cursor[v] /\ delivered'[v] = delivered[v]
      BY <2>c, <3>1
    <3>2. CASE queue'[w].latest = queue[w].latest /\ UNCHANGED <<cursor, delivered>>
      BY <2>0, <3>1, <3>2
    <3>3. CASE /\ queue[w].latest # NoList /\ queue' = [queue EXCEPT ![w] = Taken(queue[w])]
               /\ cursor' = [cursor EXCEPT ![w] = Advanced(cursor[w], queue[w].latest)]
               /\ delivered' = [delivered EXCEPT ![w] = UpdateOf(cursor[w], queue[w].latest)]
      <4>a. /\ queue'[w] = Taken(queue[w])
            /\ cursor'[w] = Advanced(cursor[w], queue[w].latest)
            /\ delivered'[w] = UpdateOf(cursor[w], queue[w].latest)
        BY <2>0, <3>3
      <4>b. Taken(queue[w]).latest = NoList
        BY <2>a, QueueFacts
      <4>c. /\ ~Advanced(cursor[w], queue[w].latest).initial_pending
            /\ Advanced(cursor[w], queue[w].latest).prev_list = queue[w].latest
            /\ UpdateOf(cursor[w], queue[w].latest) \in Update
            /\ UpdateOf(cursor[w], queue[w].latest).interfaces = queue[w].latest
        <5>1. cursor[w] \in Cursor /\ queue[w].latest \in Lists
          BY <2>a, <3>3
        <5> HIDE DEF IInv
        <5> QED BY ONLY <5>1, CursorFacts
      <4>1. /\ queue'[w].latest = NoList /\ ~cursor'[w].initial_pending
            /\ cursor'[w].prev_list = queue[w].latest
            /\ delivered'[w] \in Update /\ delivered'[w].interfaces = queue[w].latest
        BY <4>a, <4>b, <4>c
      <4> QED BY <2>0, <3>1, <3>3, <4>1
    <3>4. CASE /\ queue[w].latest # NoList /\ queue' = [queue EXCEPT ![w] = Taken(queue[w])]
               /\ ~Emits(cursor[w], queue[w].latest) /\ UNCHANGED <<cursor, delivered>>
      <4>1. queue'[w].latest = NoList /\ cursor[w].prev_list = queue[w].latest
        BY <2>0, <2>a, <3>4, QueueFacts DEF Emits
      <4> QED BY <2>0, <3>1, <3>4, <4>1
    <3>5. queue' = [queue EXCEPT ![w] = Parked(queue[w])] => queue'[w].latest = queue[w].latest
      BY <2>0, <2>a, QueueFacts
    <3> QED BY <2>c, <3>2, <3>3, <3>4, <3>5
  <2>8. FreshOK'
    BY <2>0, <2>d, <2>e, <2>f
  <2> QED BY <2>1, <2>2, <2>3, <2>4, <2>5, <2>6, <2>7, <2>8
<1>11. ASSUME NEW w \in Watchers, DropWatcher(w) PROVE IInv'
  <2>1. TypeOK'
    BY <1>11 DEF DropWatcher, GoTo
  <2>2. CountsOK'
    BY <1>11 DEF DropWatcher, GoTo
  <2>3. LockOK'
    BY <1>11 DEF DropWatcher, GoTo
  <2>4. MembersOK'
    BY <1>11 DEF DropWatcher, GoTo
  <2>5. JavaOK'
    BY <1>11 DEF DropWatcher, GoTo
  <2>6. CallbacksOK'
    BY <1>11 DEF DropWatcher, GoTo
  <2>7. QueuesOK'
    BY <1>11 DEF DropWatcher, GoTo
  <2>8. FreshOK'
    BY <1>11 DEF DropWatcher, GoTo
  <2> QED BY <2>1, <2>2, <2>3, <2>4, <2>5, <2>6, <2>7, <2>8
<1>12. ASSUME NEW w \in Watchers, CallChanged(w) PROVE IInv'
  <2>1. TypeOK'
    <3>1. opc' \in [Watchers -> OwnerStates]
      BY <1>12 DEF CallChanged, GoTo
    <3> QED BY <1>12, <3>1 DEF CallChanged
  <2>2. CountsOK'
    BY <1>12 DEF CallChanged, GoTo
  <2>3. LockOK'
    BY <1>12 DEF CallChanged, GoTo
  <2>4. MembersOK'
    BY <1>12 DEF CallChanged, GoTo
  <2>5. JavaOK'
    BY <1>12 DEF CallChanged, GoTo
  <2>6. CallbacksOK'
    BY <1>12 DEF CallChanged, GoTo
  <2>7. QueuesOK'
    BY <1>12 DEF CallChanged, GoTo
  <2>8. FreshOK'
    BY <1>12 DEF CallChanged, GoTo
  <2> QED BY <2>1, <2>2, <2>3, <2>4, <2>5, <2>6, <2>7, <2>8
<1>13. ASSUME NEW w \in Watchers, CancelChanged(w) PROVE IInv'
  <2>1. TypeOK'
    BY <1>13 DEF CancelChanged, GoTo
  <2>2. CountsOK'
    BY <1>13 DEF CancelChanged, GoTo
  <2>3. LockOK'
    BY <1>13 DEF CancelChanged, GoTo
  <2>4. MembersOK'
    BY <1>13 DEF CancelChanged, GoTo
  <2>5. JavaOK'
    BY <1>13 DEF CancelChanged, GoTo
  <2>6. CallbacksOK'
    BY <1>13 DEF CancelChanged, GoTo
  <2>7. QueuesOK'
    BY <1>13 DEF CancelChanged, GoTo
  <2>8. FreshOK'
    BY <1>13 DEF CancelChanged, GoTo
  <2> QED BY <2>1, <2>2, <2>3, <2>4, <2>5, <2>6, <2>7, <2>8
<1>14. CASE NotifierEnters
  <2>1. TypeOK'
    BY <1>14, HostAssumption DEF NotifierEnters
  <2>2. CountsOK'
    BY <1>14, HostAssumption DEF NotifierEnters
  <2>3. LockOK'
    BY <1>14, HostAssumption DEF NotifierEnters
  <2>4. MembersOK'
    BY <1>14, HostAssumption DEF NotifierEnters
  <2>5. JavaOK'
    BY <1>14, HostAssumption DEF NotifierEnters
  <2>6. CallbacksOK'
    BY <1>14, HostAssumption DEF NotifierEnters
  <2>7. QueuesOK'
    BY <1>14, HostAssumption DEF NotifierEnters
  <2>8. FreshOK'
    BY <1>14, HostAssumption DEF NotifierEnters
  <2> QED BY <2>1, <2>2, <2>3, <2>4, <2>5, <2>6, <2>7, <2>8
<1>15. CASE NotifierBeginsListing
  <2>1. TypeOK'
    <3>1. HostTypeOK'
      BY <1>15, HostAssumption DEF NotifierBeginsListing, TakeSnapshot, Snapshot
    <3> QED BY <1>15, <3>1 DEF NotifierBeginsListing
  <2>2. CountsOK'
    BY <1>15 DEF NotifierBeginsListing, TakeSnapshot, Snapshot
  <2>3. LockOK'
    BY <1>15 DEF NotifierBeginsListing, TakeSnapshot, Snapshot
  <2>4. MembersOK'
    BY <1>15 DEF NotifierBeginsListing, TakeSnapshot, Snapshot
  <2>5. JavaOK'
    BY <1>15 DEF NotifierBeginsListing, TakeSnapshot, Snapshot
  <2>6. CallbacksOK'
    BY <1>15 DEF NotifierBeginsListing, TakeSnapshot, Snapshot
  <2>7. QueuesOK'
    BY <1>15 DEF NotifierBeginsListing, TakeSnapshot, Snapshot
  <2>8. FreshOK'
    BY <1>15 DEF NotifierBeginsListing, TakeSnapshot, Snapshot
  <2> QED BY <2>1, <2>2, <2>3, <2>4, <2>5, <2>6, <2>7, <2>8
<1>16. CASE NotifierFinishesListing
  <2>1. TypeOK'
    <3>1. /\ UNCHANGED <<hostVars, kernelVars, java, callbacks, initialising, queued, ownerVars,
                         delivered, running>>
          /\ missed' = FALSE
      BY <1>16 DEF NotifierFinishesListing
    <3>2. PICK list \in ListingResults :
            IF list \in {NoList, current}
            THEN npc' = "idle" /\ holder' = Nobody /\ UNCHANGED <<current, update, todo>>
            ELSE /\ current' = list /\ update' = ChangeUpdate(current, list)
                 /\ todo' = callbacks /\ npc' = "dispatch" /\ UNCHANGED holder
      BY <1>16 DEF NotifierFinishesListing
    <3>3. list \notin {NoList, current} => list \in Lists /\ ChangeUpdate(current, list) \in Update
      BY ListingFacts, UpdateFacts
    <3> QED BY <3>1, <3>2, <3>3
  <2>2. CountsOK'
    BY <1>16, UpdateFacts, ListingFacts DEF NotifierFinishesListing
  <2>3. LockOK'
    BY <1>16, UpdateFacts, ListingFacts DEF NotifierFinishesListing
  <2>4. MembersOK'
    BY <1>16, UpdateFacts, ListingFacts DEF NotifierFinishesListing
  <2>5. JavaOK'
    BY <1>16, UpdateFacts, ListingFacts DEF NotifierFinishesListing
  <2>6. CallbacksOK'
    BY <1>16, UpdateFacts, ListingFacts DEF NotifierFinishesListing
  <2>7. QueuesOK'
    BY <1>16, UpdateFacts, ListingFacts DEF NotifierFinishesListing
  <2>8. FreshOK'
    BY <1>16, UpdateFacts, ListingFacts DEF NotifierFinishesListing
  <2> QED BY <2>1, <2>2, <2>3, <2>4, <2>5, <2>6, <2>7, <2>8
<1>17. CASE DispatchOne
  <2>1. TypeOK'
    BY <1>17 DEF DispatchOne
  <2>2. CountsOK'
    BY <1>17 DEF DispatchOne
  <2>3. LockOK'
    BY <1>17 DEF DispatchOne
  <2>4. MembersOK'
    BY <1>17 DEF DispatchOne
  <2>5. JavaOK'
    BY <1>17 DEF DispatchOne
  <2>6. CallbacksOK'
    BY <1>17 DEF DispatchOne
  <2>7. QueuesOK'
    BY <1>17 DEF DispatchOne
  <2>8. FreshOK'
    BY <1>17 DEF DispatchOne
  <2> QED BY <2>1, <2>2, <2>3, <2>4, <2>5, <2>6, <2>7, <2>8
<1>18. CASE CallbackEnds
  <2>1. TypeOK'
    BY <1>18 DEF CallbackEnds
  <2>2. CountsOK'
    BY <1>18 DEF CallbackEnds
  <2>3. LockOK'
    BY <1>18 DEF CallbackEnds
  <2>4. MembersOK'
    BY <1>18 DEF CallbackEnds
  <2>5. JavaOK'
    BY <1>18 DEF CallbackEnds
  <2>6. CallbacksOK'
    BY <1>18 DEF CallbackEnds
  <2>7. QueuesOK'
    BY <1>18 DEF CallbackEnds
  <2>8. FreshOK'
    BY <1>18 DEF CallbackEnds
  <2> QED BY <2>1, <2>2, <2>3, <2>4, <2>5, <2>6, <2>7, <2>8
<1>19. CASE FeedQueues
  <2>1. TypeOK'
    BY <1>19, QueueFacts DEF FeedQueues
  <2>2. CountsOK'
    BY <1>19, QueueFacts DEF FeedQueues
  <2>3. LockOK'
    BY <1>19, QueueFacts DEF FeedQueues
  <2>4. MembersOK'
    BY <1>19, QueueFacts DEF FeedQueues
  <2>5. JavaOK'
    BY <1>19, QueueFacts DEF FeedQueues
  <2>6. CallbacksOK'
    BY <1>19, QueueFacts DEF FeedQueues
  <2>7. QueuesOK'
    <3>1. current \in Lists /\ current # NoList
      BY ListsAssumption
    <3>2. ASSUME NEW v \in QueuedWatchers, v \in queued
          PROVE  queue'[v].latest = current
      <4>1. queue'[v] = Pushed(queue[v], current) /\ queue[v] \in Queue
        BY <1>19, <3>2 DEF FeedQueues
      <4>2. Pushed(queue[v], current).latest = current
        BY ONLY <3>1, <4>1, QueueFacts
      <4> QED BY <4>1, <4>2
    <3>3. UNCHANGED <<current, queued, cursor, delivered>>
      BY <1>19 DEF FeedQueues
    <3> QED BY <3>1, <3>2, <3>3
  <2>8. FreshOK'
    BY <1>19, QueueFacts DEF FeedQueues
  <2> QED BY <2>1, <2>2, <2>3, <2>4, <2>5, <2>6, <2>7, <2>8
<1>20. CASE OsChanges
  <2>1. TypeOK'
    BY <1>20, HostAssumption DEF OsChanges, ChangeConfiguration
  <2>2. CountsOK'
    <3>1. /\ epoch \in Int /\ snap.epoch \in Int /\ unsent \in Int /\ events \in Int
          /\ epoch' = epoch + 1 /\ unsent' = unsent + 1 /\ snap' = snap /\ events' = events
      BY <1>20, HostAssumption DEF OsChanges, ChangeConfiguration, Snapshot
    <3>2. snap.epoch <= epoch /\ events + unsent <= epoch
      OBVIOUS
    <3> QED BY <3>1, <3>2 DEF CountsOK
  <2>3. LockOK'
    BY <1>20, HostAssumption DEF OsChanges, ChangeConfiguration
  <2>4. MembersOK'
    BY <1>20, HostAssumption DEF OsChanges, ChangeConfiguration
  <2>5. JavaOK'
    BY <1>20, HostAssumption DEF OsChanges, ChangeConfiguration
  <2>6. CallbacksOK'
    BY <1>20, HostAssumption DEF OsChanges, ChangeConfiguration
  <2>7. QueuesOK'
    BY <1>20, HostAssumption DEF OsChanges, ChangeConfiguration
  <2>8. FreshOK'
    BY <1>20, HostAssumption DEF OsChanges, ChangeConfiguration
  <2> QED BY <2>1, <2>2, <2>3, <2>4, <2>5, <2>6, <2>7, <2>8
<1>21. CASE OsNotices
  <2>1. TypeOK'
    BY <1>21, HostAssumption DEF OsNotices
  <2>2. CountsOK'
    <3>1. /\ epoch \in Int /\ unsent \in Int /\ events \in Int /\ unsent' = unsent - 1
          /\ events' = events \/ events' = events + 1
          /\ epoch' = epoch /\ snap' = snap
      BY <1>21, HostAssumption DEF OsNotices
    <3>2. snap.epoch <= epoch /\ events + unsent <= epoch
      OBVIOUS
    <3>3. events' + unsent' <= epoch
      BY <3>1, <3>2
    <3> QED BY <3>1, <3>2, <3>3
  <2>3. LockOK'
    BY <1>21, HostAssumption DEF OsNotices
  <2>4. MembersOK'
    BY <1>21, HostAssumption DEF OsNotices
  <2>5. JavaOK'
    BY <1>21, HostAssumption DEF OsNotices
  <2>6. CallbacksOK'
    BY <1>21, HostAssumption DEF OsNotices
  <2>7. QueuesOK'
    BY <1>21, HostAssumption DEF OsNotices
  <2>8. FreshOK'
    BY <1>21, HostAssumption DEF OsNotices
  <2> QED BY <2>1, <2>2, <2>3, <2>4, <2>5, <2>6, <2>7, <2>8
<1>22. CASE UNCHANGED vars
  BY <1>22 DEF vars
<1> QED
  BY <1>1, <1>2, <1>3, <1>4, <1>5, <1>6, <1>7, <1>8, <1>9, <1>10, <1>11, <1>12, <1>13, <1>14, <1>15, <1>16, <1>17, <1>18, <1>19, <1>20, <1>21, <1>22 DEF Next, Owner, OwnerProceeds, NotifierProceeds

LEMMA Invariance == Spec => []IInv
  BY InitEstablishes, StepPreserves, PTL DEF Spec

-----------------------------------------------------------------------------
(* Every reachable state is well typed.                                    *)
THEOREM TypeCorrect == Spec => []TypeOK
<1>1. IInv => TypeOK
  BY DEF IInv
<1> QED BY <1>1, Invariance, PTL

(* Every registered callback was last called with the snapshot that the    *)
(* next diff is computed against.                                          *)
THEOREM RegisteredHaveTheSnapshot == Spec => []RegisteredAreCurrent
<1>1. IInv => RegisteredAreCurrent
  BY DEF IInv, TypeOK, CallbacksOK, RegisteredAreCurrent
<1> QED BY <1>1, Invariance, PTL

(* The subscription is there exactly while somebody watches.               *)
THEOREM SubscriptionFollows == Spec => []JavaFollowsWatchers
<1>1. IInv => JavaFollowsWatchers
  BY DEF IInv, JavaOK, JavaFollowsWatchers
<1> QED BY <1>1, Invariance, PTL

(* Owner and notification thread never call one callback at the same time, *)
(* and none is called after its handle is gone.                            *)
THEOREM CallbackIsOneAtATime == Spec => []CallbackIsExclusive
<1>1. IInv => CallbackIsExclusive
  BY DEF IInv, TypeOK, LockOK, MembersOK, CallbackIsExclusive
<1> QED BY <1>1, Invariance, PTL

-----------------------------------------------------------------------------
(* No change is lost, and nobody sleeps through a push of one.             *)

(* A parked owner found its queue empty and left its waker there, and what *)
(* was pushed since has woken it.                                          *)
WakeOK ==
  \A w \in QueuedWatchers :
    opc[w] = "parked" => queue[w].woken \/ (queue[w].waker /\ queue[w].latest = NoList)

LEMMA WakerFacts ==
  ASSUME NEW q \in Queue
  PROVE  /\ \A list \in Lists : q.waker \/ q.woken => Pushed(q, list).woken
         /\ Parked(q).waker
  BY DEF Queue, Pushed, Parked

(* Owners who do not look into their queue.                                *)
LEMMA OtherOwnersSleepOn ==
  ASSUME IInv, NEW w \in Watchers, Owner(w), ~PollQueue(w), NEW v \in QueuedWatchers
  PROVE  opc'[v] # "parked" \/ (opc'[v] = opc[v] /\ queue'[v] = queue[v])
<1>1. /\ opc \in [Watchers -> OwnerStates]
      /\ queue \in [QueuedWatchers -> Queue]
      /\ v \in Watchers
  BY DEF IInv, TypeOK, Watchers
<1>2. CASE \E state \in OwnerStates \ {"parked"} : opc' = [opc EXCEPT ![w] = state] /\ queue' = queue
  BY <1>1, <1>2
<1>3. CASE \E list : Admit(w, list)
  <2>1. PICK list : Admit(w, list)
    BY <1>3
  <2>2. CASE v = w
    <3>1. opc'[v] \in {"initial", "idle"}
      BY <1>1, <2>1, <2>2 DEF Admit, GoTo
    <3> QED BY <3>1
  <2>3. CASE v # w
    <3>1. \/ queue' = queue
          \/ queue' = [queue EXCEPT ![w] = Pushed(queue[w], list)]
      BY <2>1 DEF Admit
    <3>2. \/ opc' = [opc EXCEPT ![w] = "initial"]
          \/ opc' = [opc EXCEPT ![w] = "idle"]
      BY <2>1 DEF Admit, GoTo
    <3> QED BY <1>1, <2>3, <3>1, <3>2
  <2> QED BY <2>2, <2>3
<1>4. CASE opc' = opc /\ queue' = queue
  BY <1>4
<1>5. \/ \E state \in OwnerStates \ {"parked"} : opc' = [opc EXCEPT ![w] = state] /\ queue' = queue
      \/ \E list : Admit(w, list)
      \/ opc' = opc /\ queue' = queue
  <2> USE DEF GoTo, OwnerStates, GiveUp
  <2>1. CASE Register(w)
    BY <2>1 DEF Register
  <2>2. CASE StartJava(w)
    BY <2>2 DEF StartJava
  <2>3. CASE BeginFirstListing(w)
    BY <2>3 DEF BeginFirstListing
  <2>4. CASE FinishFirstListing(w)
    BY <2>4 DEF FinishFirstListing
  <2>5. CASE InitialCallbackReturns(w) \/ InitialCallbackPanics(w)
    BY <2>5 DEF InitialCallbackReturns, InitialCallbackPanics
  <2>6. CASE CatchUp(w)
    BY <2>6 DEF CatchUp
  <2>7. CASE CatchUpCallEnds(w)
    BY <2>7 DEF CatchUpCallEnds
  <2>8. CASE Unregister(w)
    BY <2>8 DEF Unregister
  <2>9. CASE DropWatcher(w) \/ CallChanged(w) \/ CancelChanged(w)
    BY <2>9 DEF DropWatcher, CallChanged, CancelChanged
  <2> QED BY <2>1, <2>2, <2>3, <2>4, <2>5, <2>6, <2>7, <2>8, <2>9 DEF Owner, OwnerProceeds
<1> QED BY <1>2, <1>3, <1>4, <1>5

LEMMA WakeStepPreserves == IInv /\ WakeOK /\ [Next]_vars => WakeOK'
<1> SUFFICES ASSUME IInv, WakeOK, [Next]_vars, NEW v \in QueuedWatchers, opc'[v] = "parked"
             PROVE  queue'[v].woken \/ (queue'[v].waker /\ queue'[v].latest = NoList)
  BY DEF WakeOK
<1>0. /\ opc \in [Watchers -> OwnerStates]
      /\ queue \in [QueuedWatchers -> Queue]
      /\ v \in Watchers
      /\ queue[v] \in Queue
      /\ current \in Lists
  BY DEF IInv, TypeOK, Watchers
<1>1. ASSUME NEW w \in Watchers, PollQueue(w)
      PROVE  queue'[v].woken \/ (queue'[v].waker /\ queue'[v].latest = NoList)
  <2>1. CASE v = w
    <3>1. CASE queue[v].latest = NoList
      <4>1. queue'[v] = Parked(queue[v])
        BY <1>0, <1>1, <2>1, <3>1 DEF PollQueue
      <4> QED BY <1>0, <3>1, <4>1, QueueFacts, WakerFacts
    <3>2. CASE queue[v].latest # NoList
      <4>1. opc'[v] \in {"idle", "poll"}
        BY <1>0, <1>1, <2>1, <3>2 DEF PollQueue, GoTo
      <4> QED BY <4>1
    <3> QED BY <3>1, <3>2
  <2>2. CASE v # w
    <3>1. \E state : opc' = [opc EXCEPT ![w] = state]
      BY <1>1 DEF PollQueue, GoTo
    <3>2. \E q : queue' = [queue EXCEPT ![w] = q]
      BY <1>1 DEF PollQueue
    <3> QED BY <1>0, <2>2, <3>1, <3>2 DEF WakeOK
  <2> QED BY <2>1, <2>2
<1>2. CASE FeedQueues
  <2>1. opc'[v] = opc[v] /\ queue'[v] = IF v \in queued THEN Pushed(queue[v], current) ELSE queue[v]
    BY <1>2 DEF FeedQueues
  <2> QED BY <1>0, <2>1, WakerFacts DEF WakeOK
<1>3. CASE opc'[v] = opc[v] /\ queue'[v] = queue[v]
  BY <1>3 DEF WakeOK
<1>4. ASSUME NEW w \in Watchers, Owner(w), ~PollQueue(w)
      PROVE  opc'[v] = opc[v] /\ queue'[v] = queue[v]
  BY <1>4, OtherOwnersSleepOn
<1>5. CASE NotifierEnters \/ (NotifierProceeds /\ ~FeedQueues) \/ OsChanges \/ OsNotices \/ UNCHANGED vars
  <2>1. opc' = opc /\ queue' = queue
    BY <1>5 DEF NotifierEnters, NotifierProceeds, NotifierBeginsListing, NotifierFinishesListing,
                DispatchOne, CallbackEnds, OsChanges, OsNotices, vars, ownerVars
  <2> QED BY <1>3, <2>1
<1> QED BY <1>1, <1>2, <1>3, <1>4, <1>5 DEF Next

(* What the invariant says of a moment when everything is dealt with.      *)
LEMMA QuietIsCurrent == IInv /\ WakeOK => NoLostChange
<1>1. ASSUME IInv, WakeOK, unsent = 0, events = 0, npc = "idle", ~missed
      PROVE  /\ \A w \in callbacks : failed[w] \/ delivered[w].interfaces = os
             /\ \A w \in queued :
                  /\ Latest(w) = os
                  /\ opc[w] = "parked" => queue[w].woken \/ cursor[w].prev_list = os
  <2>1. todo = {} /\ (HasWatchers => current = os)
    BY <1>1 DEF IInv, LockOK, FreshOK, LookComing
  <2>2. \A w \in callbacks : failed[w] \/ delivered[w].interfaces = current
    BY <1>1, <2>1 DEF IInv, TypeOK, CallbacksOK
  <2>3. \A w \in queued : Latest(w) = current
    BY <1>1 DEF IInv, TypeOK, QueuesOK
  <2>4. \A w \in queued : opc[w] = "parked" => queue[w].woken \/ cursor[w].prev_list = Latest(w)
    BY <1>1 DEF IInv, TypeOK, WakeOK, Latest
  <2> QED BY <2>1, <2>2, <2>3, <2>4 DEF HasWatchers
<1> QED BY <1>1 DEF NoLostChange

(* Once the notifications are dealt with everybody has the configuration,  *)
(* and nobody is asleep who would still have to fetch it.                  *)
THEOREM NothingIsLost == Spec => []NoLostChange
<1>1. Init => WakeOK
  BY DEF Init, WakeOK, Watchers
<1> QED BY <1>1, Invariance, WakeStepPreserves, QuietIsCurrent, PTL DEF Spec

-----------------------------------------------------------------------------

(* Each owner's stream begins as UpdateStream says.                        *)
LEMMA StreamBegins == Init => \A w \in Watchers : Stream(w)!Init
<1> SUFFICES ASSUME Init, NEW w \in Watchers PROVE Stream(w)!Init
  OBVIOUS
<1>1. delivered[w] = NoUpdate /\ ~Over(w)
  BY DEF Init, Over
<1> QED BY <1>1 DEF Stream!Init

(* What the stream of v allows: nothing or its end, and an Update.         *)
LEMMA QuietStep ==
  ASSUME NEW v \in Watchers, delivered'[v] = delivered[v], Over(v) => Over(v)'
  PROVE  [Stream(v)!Next]_(Stream(v)!vars)
<1>1. CASE Over(v)'
  <2>1. Over(v)' = TRUE
    BY <1>1 DEF Over
  <2> QED BY <2>1 DEF Stream!Next, Stream!Close
<1>2. CASE ~Over(v)'
  <2>1. Over(v)' = Over(v)
    BY <1>2 DEF Over
  <2> QED BY <2>1 DEF Stream!vars
<1> QED BY <1>1, <1>2

LEMMA FirstUpdate ==
  ASSUME NEW v \in Watchers, NEW list \in Lists, ~Over(v), ~Over(v)', delivered[v] = NoUpdate,
         delivered'[v] = [is_initial |-> TRUE, base |-> EmptyList, interfaces |-> list]
  PROVE  [Stream(v)!Next]_(Stream(v)!vars)
<1>1. Over(v)' = Over(v)
  BY DEF Over
<1> QED BY <1>1 DEF Stream!Next, Stream!DeliverInitial

LEMMA LaterUpdate ==
  ASSUME NEW v \in Watchers, NEW list \in Lists, ~Over(v), ~Over(v)', delivered[v] \in Update,
         list # delivered[v].interfaces,
         delivered'[v] = [is_initial |-> FALSE, base |-> delivered[v].interfaces, interfaces |-> list]
  PROVE  [Stream(v)!Next]_(Stream(v)!vars)
<1>1. Over(v)' = Over(v)
  BY DEF Over
<1>2. delivered[v] # NoUpdate
  BY ListsAssumption
<1> QED BY <1>1, <1>2 DEF Stream!Next, Stream!DeliverChange

(* A watcher that joins is given its first Update, if any.                 *)
LEMMA AdmittedStream ==
  ASSUME IInv, NEW w \in Watchers, opc[w] \in {"new", "resolve"},
         NEW list \in Lists, Admit(w, list), NEW v \in Watchers
  PROVE  [Stream(v)!Next]_(Stream(v)!vars)
<1> USE WatchersAssumption DEF IInv, TypeOK, Watchers
<1>1. CASE w \in CallbackWatchers
  <2>1. /\ delivered' = [delivered EXCEPT ![w] = InitialUpdate(list)]
        /\ opc' = [opc EXCEPT ![w] = "initial"]
        /\ UNCHANGED failed
    BY <1>1 DEF Admit, GoTo
  <2>2. ~failed[w] /\ delivered[w] = NoUpdate
    BY <1>1 DEF CallbacksOK, Registering
  <2>3. CASE v = w
    BY <1>1, <2>1, <2>2, <2>3, FirstUpdate DEF Over, InitialUpdate
  <2>4. CASE v # w
    BY <2>1, <2>4, QuietStep DEF Over
  <2> QED BY <2>3, <2>4
<1>2. CASE w \notin CallbackWatchers
  <2>1. opc' = [opc EXCEPT ![w] = "idle"] /\ UNCHANGED <<failed, delivered>>
    BY <1>2 DEF Admit, GoTo
  <2> QED BY <1>2, <2>1, QuietStep DEF Over
<1> QED BY <1>1, <1>2

(* Every step is a step of the stream of v, or none of it.                 *)
LEMMA StepStreams ==
  ASSUME IInv, [Next]_vars, NEW v \in Watchers
  PROVE  [Stream(v)!Next]_(Stream(v)!vars)
<1> USE WatchersAssumption DEF IInv, TypeOK, Watchers
<1>1. ASSUME NEW w \in Watchers, Register(w) PROVE [Stream(v)!Next]_(Stream(v)!vars)
  <2>1. CASE HasWatchers
    BY <1>1, <2>1, AdmittedStream DEF Register
  <2>2. CASE ~HasWatchers
    BY <1>1, <2>2, QuietStep DEF Register, GoTo, Over
  <2> QED BY <2>1, <2>2
<1>2. ASSUME NEW w \in Watchers, FinishFirstListing(w) PROVE [Stream(v)!Next]_(Stream(v)!vars)
  <2>1. PICK list \in ListingResults :
          IF list = NoList THEN GiveUp(w) ELSE Admit(w, list)
    BY <1>2 DEF FinishFirstListing
  <2>2. CASE list = NoList
    BY <1>2, <2>1, <2>2, QuietStep DEF FinishFirstListing, GiveUp, GoTo, Over
  <2>3. CASE list # NoList
    BY <1>2, <2>1, <2>3, ListingFacts, AdmittedStream DEF FinishFirstListing
  <2> QED BY <2>2, <2>3
<1>3. ASSUME NEW w \in Watchers, StartJava(w) \/ BeginFirstListing(w)
      PROVE  [Stream(v)!Next]_(Stream(v)!vars)
  BY <1>3, QuietStep DEF StartJava, BeginFirstListing, GiveUp, GoTo, Over
<1>4. ASSUME NEW w \in Watchers, InitialCallbackReturns(w) \/ InitialCallbackPanics(w)
      PROVE  [Stream(v)!Next]_(Stream(v)!vars)
  BY <1>4, QuietStep DEF InitialCallbackReturns, InitialCallbackPanics, GoTo, Over
<1>5. ASSUME NEW w \in Watchers, CatchUp(w) PROVE [Stream(v)!Next]_(Stream(v)!vars)
  <2>1. w \in CallbackWatchers /\ opc[w] = "catchUp" /\ UNCHANGED failed
    BY <1>5 DEF CatchUp, MembersOK, Pulling, Initialising
  <2>2. CASE v = w /\ current # seen[w] /\ ~failed[w]
    <3>1. /\ delivered' = [delivered EXCEPT ![w] = ChangeUpdate(seen[w], current)]
          /\ opc' = [opc EXCEPT ![w] = "catchUpCall"]
      BY <1>5, <2>2, Zenon DEF CatchUp, GoTo
    <3>2. delivered[w] \in Update /\ delivered[w].interfaces = seen[w]
      BY <2>1, <2>2 DEF CallbacksOK, Initialising
    <3> QED BY <2>1, <2>2, <3>1, <3>2, LaterUpdate DEF ChangeUpdate, Over
  <2>3. CASE v # w \/ current = seen[w] \/ failed[w]
    <3>1. delivered'[v] = delivered[v]
      BY <1>5, <2>3 DEF CatchUp
    <3>2. Over(v) => Over(v)'
      BY <1>5, <2>1 DEF CatchUp, GoTo, Over
    <3> QED BY <3>1, <3>2, QuietStep
  <2> QED BY <2>2, <2>3
<1>6. ASSUME NEW w \in Watchers, CatchUpCallEnds(w) PROVE [Stream(v)!Next]_(Stream(v)!vars)
  <2>1. ~failed[w] /\ w \in CallbackWatchers
    BY <1>6 DEF CatchUpCallEnds, CallbacksOK, MembersOK, Initialising
  <2> QED BY <1>6, <2>1, QuietStep DEF CatchUpCallEnds, GoTo, Over
<1>7. ASSUME NEW w \in Watchers, Unregister(w) \/ DropWatcher(w)
      PROVE  [Stream(v)!Next]_(Stream(v)!vars)
  BY <1>7, QuietStep DEF Unregister, DropWatcher, GoTo, Over
<1>8. ASSUME NEW w \in Watchers, CallChanged(w) \/ CancelChanged(w)
      PROVE  [Stream(v)!Next]_(Stream(v)!vars)
  BY <1>8, QuietStep DEF CallChanged, CancelChanged, GoTo, Over
<1>9. ASSUME NEW w \in Watchers, PollQueue(w) PROVE [Stream(v)!Next]_(Stream(v)!vars)
  <2>1. w \in QueuedWatchers /\ w \notin CallbackWatchers /\ opc[w] \in {"poll", "parked"}
        /\ UNCHANGED failed
    BY <1>9 DEF PollQueue, MembersOK, Pulling
  <2>2. PICK state \in {"parked", "idle", "poll"} : opc' = [opc EXCEPT ![w] = state]
    BY <1>9 DEF PollQueue, GoTo
  <2>3. Over(v) => Over(v)'
    BY <2>1, <2>2 DEF Over
  <2>4. ~Over(w) /\ ~Over(w)'
    BY <2>1, <2>2 DEF Over
  <2>5. \/ UNCHANGED delivered
        \/ /\ queue[w].latest # NoList
           /\ Emits(cursor[w], queue[w].latest)
           /\ delivered' = [delivered EXCEPT ![w] = UpdateOf(cursor[w], queue[w].latest)]
    BY <1>9 DEF PollQueue
  <2>6. CASE v # w \/ UNCHANGED delivered
    <3>1. delivered'[v] = delivered[v]
      BY <2>5, <2>6
    <3> QED BY <2>3, <3>1, QuietStep
  <2>7. CASE /\ v = w
             /\ queue[w].latest # NoList
             /\ Emits(cursor[w], queue[w].latest)
             /\ delivered' = [delivered EXCEPT ![w] = UpdateOf(cursor[w], queue[w].latest)]
    <3> DEFINE list == queue[w].latest
    <3>1. list \in Lists
      BY <2>1, <2>7 DEF Queue
    <3>2. delivered'[w] = UpdateOf(cursor[w], list)
      BY <2>7
    <3>3. CASE cursor[w] = DefaultCursor /\ delivered[w] = NoUpdate
      <4>1. delivered'[w] = [is_initial |-> TRUE, base |-> EmptyList, interfaces |-> list]
        BY <3>2, <3>3 DEF DefaultCursor, UpdateOf
      <4> HIDE DEF list
      <4> QED BY <2>4, <2>7, <3>1, <3>3, <4>1, FirstUpdate
    <3>4. CASE ~cursor[w].initial_pending /\ delivered[w] \in Update
               /\ cursor[w].prev_list = delivered[w].interfaces
      <4>1. delivered'[w] = [is_initial |-> FALSE, base |-> delivered[w].interfaces, interfaces |-> list]
        <5>1. cursor[w] \in Cursor
          BY <2>1
        <5>2. cursor[w].initial_pending = FALSE
          BY <3>4, <5>1 DEF Cursor
        <5> QED BY <3>2, <3>4, <5>2 DEF UpdateOf
      <4>2. list # delivered[w].interfaces
        BY <2>7, <3>4 DEF Emits
      <4> HIDE DEF list
      <4> QED BY <2>4, <2>7, <3>1, <3>4, <4>1, <4>2, LaterUpdate
    <3> QED BY <2>1, <3>3, <3>4 DEF QueuesOK
  <2> QED BY <2>5, <2>6, <2>7
<1>10. CASE DispatchOne
  <2>1. PICK w \in todo :
          IF failed[w] THEN UNCHANGED delivered ELSE delivered' = [delivered EXCEPT ![w] = update]
    BY <1>10 DEF DispatchOne
  <2>2. UNCHANGED <<opc, failed>> /\ npc = "dispatch"
    BY <1>10 DEF DispatchOne, ownerVars
  <2>3. Over(v)' = Over(v)
    BY <2>2 DEF Over
  <2>4. CASE v # w \/ failed[w]
    BY <2>1, <2>3, <2>4, QuietStep
  <2>5. CASE v = w /\ ~failed[w]
    <3>1. w \in callbacks /\ opc[w] \in {"watching", "dropping"} /\ w \in CallbackWatchers
      BY <2>1 DEF LockOK, MembersOK
    <3>2. ~Over(v)
      BY <2>5, <3>1 DEF Over
    <3>3. /\ delivered[w] \in Update /\ delivered[w].interfaces = update.base
          /\ update \in Update /\ ~update.is_initial
          /\ update.interfaces = current /\ update.base # current
      BY <2>1, <2>2, <2>5, <3>1 DEF CallbacksOK
    <3>4. update = [is_initial |-> FALSE, base |-> update.base, interfaces |-> update.interfaces]
      BY <3>3 DEF Update
    <3>5. delivered'[v] = [is_initial |-> FALSE, base |-> delivered[v].interfaces, interfaces |-> current]
      BY <2>1, <2>5, <3>3, <3>4
    <3> QED BY <2>3, <2>5, <3>2, <3>3, <3>5, LaterUpdate
  <2> QED BY <2>4, <2>5
<1>11. CASE CallbackEnds
  <2>1. ~failed[running]
    BY <1>11 DEF CallbackEnds, CallbacksOK, LockOK
  <2>2. UNCHANGED <<opc, delivered>> /\ \E panics \in BOOLEAN : failed' = [failed EXCEPT ![running] = panics]
    BY <1>11 DEF CallbackEnds
  <2> QED BY <2>1, <2>2, QuietStep DEF Over
<1>12. CASE NotifierEnters \/ NotifierBeginsListing \/ NotifierFinishesListing \/ FeedQueues
  BY <1>12, QuietStep
     DEF NotifierEnters, NotifierBeginsListing, NotifierFinishesListing, FeedQueues, ownerVars, Over
<1>13. CASE OsChanges \/ OsNotices
  BY <1>13, QuietStep DEF OsChanges, OsNotices, ownerVars, Over
<1>14. CASE UNCHANGED vars
  BY <1>14, QuietStep DEF vars, ownerVars, Over
<1> QED
  BY <1>1, <1>2, <1>3, <1>4, <1>5, <1>6, <1>7, <1>8, <1>9, <1>10, <1>11, <1>12, <1>13, <1>14
     DEF Next, Owner, OwnerProceeds, NotifierProceeds

(* Every owner gets the Updates UpdateStream promises, however many others *)
(* there are.                                                              *)
THEOREM AndroidWatchImplementsUpdateStream == Spec => ImplementsUpdateStream
<1>1. Init => \A w \in Watchers : Stream(w)!Init
  BY StreamBegins
<1>2. IInv /\ [Next]_vars => [\A w \in Watchers : [Stream(w)!Next]_(Stream(w)!vars)]_vars
  BY StepStreams
<1> QED BY <1>1, <1>2, Invariance, PTL DEF Spec, ImplementsUpdateStream

=============================================================================
