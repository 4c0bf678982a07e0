---------------------------- MODULE AndroidWatch ----------------------------
(***************************************************************************)
(* The watchers of watch_android.rs. One process-wide State behind a mutex *)
(* holds the last snapshot, who watches, and the Java object that          *)
(* subscribes to ConnectivityManager. The first watcher starts the Java    *)
(* subscription, the last one to go stops it. ConnectivityManager calls    *)
(* back on one thread of its own; that thread lists the interfaces, calls  *)
(* every registered callback and feeds every queue, all under the mutex.   *)
(*                                                                         *)
(* Each watcher has an owner thread that constructs it, uses it and drops  *)
(* it, once (watcher ids are never reused). A callback watcher's initial   *)
(* Update, and the Updates it missed while its callback was busy with the  *)
(* initial one, are delivered on the owner's thread without the mutex.     *)
(*                                                                         *)
(* Callbacks are the user's: they return or panic. They neither create nor *)
(* drop watchers, which would block on the mutex for ever when called by   *)
(* the notification thread.                                                *)
(***************************************************************************)
EXTENDS Host, AsyncCallbackQueue

CONSTANTS
  CallbackWatchers,   \* watchers made by watch_interfaces_with_callback
  QueuedWatchers,     \* by watch_interfaces_async and _blocking
  Notifier, Nobody    \* holders of the mutex that are not watchers

Watchers == CallbackWatchers \cup QueuedWatchers

ASSUME WatchersAssumption ==
  /\ CallbackWatchers \cap QueuedWatchers = {}
  /\ Notifier # Nobody
  /\ {Notifier, Nobody} \cap Watchers = {}

VARIABLES
  unsent,        \* changes ConnectivityManager has not yet noticed
  events,        \* its calls of netwatcherInterfacesDidChange still to come
  java,          \* java_support is Some: the subscription is live
  holder,        \* who holds the mutex
  callbacks,     \* callback_watchers
  initialising,  \* initialising_callback_watchers
  queued,        \* queued_watchers
  current,       \* current_interfaces
  opc,           \* the owner of each watcher
  seen,          \* current_list of finish_callback_registration
  failed,        \* Callback::failed
  cursor,        \* UpdateCursor of each queued watcher
  queue,         \* AsyncCallbackQueue of each queued watcher
  delivered,     \* the last Update each watcher's owner received
  npc,           \* the notification thread
  update,        \* the Update it is dispatching
  todo,          \* callbacks it has yet to dispatch to
  running,       \* the callback it is executing
  missed         \* ghost: the last listing failed for a reason of its own

stateVars == <<java, callbacks, initialising, queued, current>>
ownerVars == <<opc, seen, failed, cursor, queue>>
notifierVars == <<npc, update, todo, running>>
kernelVars == <<unsent, events>>

vars == <<hostVars, kernelVars, stateVars, holder, ownerVars, delivered, notifierVars, missed>>

OwnerStates ==
  {"new", "start", "list", "resolve",        \* the registration, with the mutex
   "initial", "catchUp", "catchUpCall",      \* register_callback_watcher, without
   "watching",                               \* owns a WatchHandle
   "idle", "poll", "parked",                 \* owns an AsyncWatch or BlockingWatch
   "dropping", "dropped", "unwinding", "unwound", "error"}

TypeOK ==
  /\ HostTypeOK
  /\ unsent \in 0..MaxChanges
  /\ events \in 0..MaxChanges
  /\ java \in BOOLEAN
  /\ holder \in Watchers \cup {Notifier, Nobody}
  /\ callbacks \in SUBSET CallbackWatchers
  /\ initialising \in SUBSET CallbackWatchers
  /\ queued \in SUBSET QueuedWatchers
  /\ current \in Lists
  /\ opc \in [Watchers -> OwnerStates]
  /\ seen \in [CallbackWatchers -> Lists]
  /\ failed \in [CallbackWatchers -> BOOLEAN]
  /\ cursor \in [QueuedWatchers -> Cursor]
  /\ queue \in [QueuedWatchers -> Queue]
  /\ delivered \in [Watchers -> Update \cup {NoUpdate}]
  /\ npc \in {"idle", "list", "resolve", "dispatch", "callback"}
  /\ update \in Update \cup {NoUpdate}
  /\ todo \in SUBSET CallbackWatchers
  /\ running \in CallbackWatchers \cup {Nobody}
  /\ missed \in BOOLEAN

Init ==
  /\ HostInit
  /\ unsent = 0
  /\ events = 0
  /\ java = FALSE
  /\ holder = Nobody
  /\ callbacks = {}
  /\ initialising = {}
  /\ queued = {}
  /\ current = EmptyList
  /\ opc = [w \in Watchers |-> "new"]
  /\ seen = [w \in CallbackWatchers |-> EmptyList]
  /\ failed = [w \in CallbackWatchers |-> FALSE]
  /\ cursor = [w \in QueuedWatchers |-> DefaultCursor]
  /\ queue = [w \in QueuedWatchers |-> EmptyQueue]
  /\ delivered = [w \in Watchers |-> NoUpdate]
  /\ npc = "idle"
  /\ update = NoUpdate
  /\ todo = {}
  /\ running = Nobody
  /\ missed = FALSE

(* Slip: a watcher busy with its initial callback does not count.          *)
HasRegisteredWatchers == callbacks \cup queued # {}

HasWatchers == callbacks \cup initialising \cup queued # {}

InitialUpdate(list) == [is_initial |-> TRUE, base |-> EmptyList, interfaces |-> list]

ChangeUpdate(prev, list) == [is_initial |-> FALSE, base |-> prev, interfaces |-> list]

GoTo(w, state) == opc' = [opc EXCEPT ![w] = state]

-----------------------------------------------------------------------------
(* Registration: register_callback_watcher and register_queued_watcher.    *)

(* The new watcher joins with the snapshot `list`. A callback watcher is   *)
(* parked among the initialising ones and its callback entered, a queued   *)
(* one has the snapshot pushed on its queue.                               *)
Admit(w, list) ==
  IF w \in CallbackWatchers
  THEN /\ initialising' = initialising \cup {w}
       /\ seen' = [seen EXCEPT ![w] = list]
       /\ delivered' = [delivered EXCEPT ![w] = InitialUpdate(list)]
       /\ GoTo(w, "initial")
       /\ UNCHANGED <<callbacks, queued, failed, cursor, queue>>
  ELSE /\ queue' = [queue EXCEPT ![w] = Pushed(@, list)]
       /\ queued' = queued \cup {w}
       /\ GoTo(w, "idle")
       /\ UNCHANGED <<callbacks, initialising, seen, failed, cursor, delivered>>

(* The mutex is taken. With watchers about, the snapshot is as good as     *)
(* theirs and the registration is over in one critical section.            *)
Register(w) ==
  /\ opc[w] = "new"
  /\ holder = Nobody
  /\ IF HasWatchers
     THEN /\ Admit(w, current)
          /\ UNCHANGED holder
     ELSE /\ holder' = w
          /\ GoTo(w, "start")
          /\ UNCHANGED <<callbacks, initialising, queued, seen, failed, cursor, queue, delivered>>
  /\ UNCHANGED <<hostVars, kernelVars, java, current, notifierVars, missed>>

(* The registration fails: the Java object goes, the mutex is released.    *)
GiveUp(w) ==
  /\ java' = FALSE
  /\ holder' = Nobody
  /\ GoTo(w, "error")
  /\ UNCHANGED <<callbacks, initialising, queued, current, seen, failed, cursor, queue, delivered>>

(* start_java_watching, before anything is listed                          *)
StartJava(w) ==
  /\ opc[w] = "start"
  /\ \/ /\ java' = TRUE
        /\ GoTo(w, "list")
        /\ UNCHANGED <<callbacks, initialising, queued, current, holder,
                       seen, failed, cursor, queue, delivered>>
     \/ GiveUp(w)
  /\ UNCHANGED <<hostVars, kernelVars, notifierVars, missed>>

BeginFirstListing(w) ==
  /\ opc[w] = "list"
  /\ \/ /\ TakeSnapshot
        /\ GoTo(w, "resolve")
        /\ UNCHANGED <<stateVars, holder, seen, failed, cursor, queue, delivered>>
     \/ /\ GiveUp(w)
        /\ UNCHANGED hostVars
  /\ UNCHANGED <<kernelVars, notifierVars, missed>>

FinishFirstListing(w) ==
  /\ opc[w] = "resolve"
  /\ \E list \in ListingResults :
       IF list = NoList
       THEN /\ GiveUp(w)
            /\ UNCHANGED missed
       ELSE /\ current' = list
            /\ Admit(w, list)
            /\ holder' = Nobody
            /\ missed' = FALSE
            /\ UNCHANGED java
  /\ UNCHANGED <<hostVars, kernelVars, notifierVars>>

(* Slip: the watcher joins the registered ones without catching up.        *)
InitialCallbackReturnsAndJoins(w) ==
  /\ opc[w] = "initial"
  /\ initialising' = initialising \ {w}
  /\ callbacks' = callbacks \cup {w}
  /\ GoTo(w, "watching")
  /\ UNCHANGED <<hostVars, kernelVars, java, queued, current, holder, seen, failed, cursor,
                 queue, delivered, notifierVars, missed>>

InitialCallbackReturns(w) ==
  /\ opc[w] = "initial"
  /\ GoTo(w, "catchUp")
  /\ UNCHANGED <<hostVars, kernelVars, stateVars, holder, seen, failed, cursor, queue,
                 delivered, notifierVars, missed>>

(* The InitialisingCallbackWatcher guard is dropped by the unwinding.      *)
InitialCallbackPanics(w) ==
  /\ opc[w] = "initial"
  /\ GoTo(w, "unwinding")
  /\ UNCHANGED <<hostVars, kernelVars, stateVars, holder, seen, failed, cursor, queue,
                 delivered, notifierVars, missed>>

(* Slip: what was caught up with is not remembered.                        *)
CatchUpForgets(w) ==
  /\ opc[w] = "catchUp"
  /\ holder = Nobody
  /\ IF current = seen[w]
     THEN /\ initialising' = initialising \ {w}
          /\ callbacks' = callbacks \cup {w}
          /\ GoTo(w, "watching")
          /\ UNCHANGED delivered
     ELSE /\ delivered' = [delivered EXCEPT ![w] = ChangeUpdate(seen[w], current)]
          /\ GoTo(w, "catchUpCall")
          /\ UNCHANGED <<callbacks, initialising>>
  /\ UNCHANGED <<hostVars, kernelVars, java, queued, current, holder, seen, failed, cursor,
                 queue, notifierVars, missed>>

(* One round of finish_callback_registration: join the registered ones if  *)
(* there is nothing to catch up with, or else deliver it, unlocked.        *)
CatchUp(w) ==
  /\ opc[w] = "catchUp"
  /\ holder = Nobody
  /\ IF current = seen[w]
     THEN /\ initialising' = initialising \ {w}
          /\ callbacks' = callbacks \cup {w}
          /\ GoTo(w, "watching")
          /\ UNCHANGED <<seen, delivered>>
     ELSE /\ seen' = [seen EXCEPT ![w] = current]
          /\ IF failed[w]
             THEN UNCHANGED <<opc, delivered>>
             ELSE /\ delivered' = [delivered EXCEPT ![w] = ChangeUpdate(seen[w], current)]
                  /\ GoTo(w, "catchUpCall")
          /\ UNCHANGED <<callbacks, initialising>>
  /\ UNCHANGED <<hostVars, kernelVars, java, queued, current, holder, failed, cursor, queue,
                 notifierVars, missed>>

CatchUpCallEnds(w) ==
  /\ opc[w] = "catchUpCall"
  /\ GoTo(w, "catchUp")
  /\ \E panics \in BOOLEAN : failed' = [failed EXCEPT ![w] = panics]
  /\ UNCHANGED <<hostVars, kernelVars, stateVars, holder, seen, cursor, queue,
                 delivered, notifierVars, missed>>

-----------------------------------------------------------------------------
(* The end of a watcher.                                                   *)

DropWatcher(w) ==
  /\ opc[w] \in {"watching", "idle"}
  /\ GoTo(w, "dropping")
  /\ UNCHANGED <<hostVars, kernelVars, stateVars, holder, seen, failed, cursor, queue,
                 delivered, notifierVars, missed>>

(* Slip: a watcher is taken out without waiting for the mutex.             *)
UnregisterUnlocked(w) ==
  /\ opc[w] \in {"dropping", "unwinding"}
  /\ callbacks' = callbacks \ {w}
  /\ initialising' = initialising \ {w}
  /\ queued' = queued \ {w}
  /\ java' = (java /\ HasWatchers')
  /\ GoTo(w, IF opc[w] = "dropping" THEN "dropped" ELSE "unwound")
  /\ UNCHANGED <<hostVars, kernelVars, current, holder, seen, failed, cursor, queue,
                 delivered, notifierVars, missed>>

(* unregister_watcher; the last watcher takes the subscription with it.    *)
Unregister(w) ==
  /\ opc[w] \in {"dropping", "unwinding"}
  /\ holder = Nobody
  /\ callbacks' = callbacks \ {w}
  /\ initialising' = initialising \ {w}
  /\ queued' = queued \ {w}
  /\ java' = (java /\ HasWatchers')
  /\ GoTo(w, IF opc[w] = "dropping" THEN "dropped" ELSE "unwound")
  /\ UNCHANGED <<hostVars, kernelVars, current, holder, seen, failed, cursor, queue,
                 delivered, notifierVars, missed>>

-----------------------------------------------------------------------------
(* changed() of AsyncWatch and BlockingWatch.                              *)

CallChanged(w) ==
  /\ opc[w] = "idle"
  /\ w \in QueuedWatchers
  /\ GoTo(w, "poll")
  /\ UNCHANGED <<hostVars, kernelVars, stateVars, holder, seen, failed, cursor, queue,
                 delivered, notifierVars, missed>>

(* Look into the queue: first thing, and after being woken. What is taken  *)
(* may turn out to be no change, and then the loop looks again.            *)
PollQueue(w) ==
  /\ \/ opc[w] = "poll"
     \/ opc[w] = "parked" /\ queue[w].woken
  /\ IF queue[w].latest = NoList
     THEN /\ queue' = [queue EXCEPT ![w] = Parked(@)]
          /\ GoTo(w, "parked")
          /\ UNCHANGED <<cursor, delivered>>
     ELSE LET list == queue[w].latest
          IN  /\ queue' = [queue EXCEPT ![w] = Taken(@)]
              /\ IF Emits(cursor[w], list)
                 THEN /\ cursor' = [cursor EXCEPT ![w] = Advanced(@, list)]
                      /\ delivered' = [delivered EXCEPT ![w] = UpdateOf(cursor[w], list)]
                      /\ GoTo(w, "idle")
                 ELSE /\ GoTo(w, "poll")
                      /\ UNCHANGED <<cursor, delivered>>
  /\ UNCHANGED <<hostVars, kernelVars, stateVars, holder, seen, failed, notifierVars, missed>>

(* An async owner drops the future; its waker stays behind.                *)
CancelChanged(w) ==
  /\ opc[w] = "parked"
  /\ GoTo(w, "idle")
  /\ UNCHANGED <<hostVars, kernelVars, stateVars, holder, seen, failed, cursor, queue,
                 delivered, notifierVars, missed>>

-----------------------------------------------------------------------------
(* ConnectivityManager and its thread: interfaces_did_change.              *)

OsChanges ==
  /\ ChangeConfiguration
  /\ unsent' = unsent + 1
  /\ UNCHANGED <<events, stateVars, holder, ownerVars, delivered, notifierVars, missed>>

(* Some registration has got as far as subscribing.                        *)
JavaWasStarted == \E w \in Watchers : opc[w] \notin {"new", "start"}

(* ConnectivityManager notices a change. Calls already on their way when   *)
(* the subscription ends still arrive, and so does whatever a subscription *)
(* sends that could not be stopped: stop_java_watching may fail unnoticed. *)
OsNotices ==
  /\ unsent > 0
  /\ unsent' = unsent - 1
  /\ events' \in IF java THEN {events + 1}
                 ELSE IF JavaWasStarted THEN {events, events + 1}
                 ELSE {events}
  /\ UNCHANGED <<hostVars, stateVars, holder, ownerVars, delivered, notifierVars, missed>>

NotifierEnters ==
  /\ npc = "idle"
  /\ events > 0
  /\ holder = Nobody
  /\ events' = events - 1
  /\ IF HasWatchers
     THEN /\ holder' = Notifier
          /\ npc' = "list"
     ELSE UNCHANGED <<holder, npc>>
  /\ UNCHANGED <<hostVars, unsent, stateVars, ownerVars, delivered, update, todo, running, missed>>

NotifierBeginsListing ==
  /\ npc = "list"
  /\ \/ /\ TakeSnapshot
        /\ npc' = "resolve"
        /\ UNCHANGED <<holder, missed>>
     \/ /\ npc' = "idle"
        /\ holder' = Nobody
        /\ missed' = TRUE
        /\ UNCHANGED hostVars
  /\ UNCHANGED <<kernelVars, stateVars, ownerVars, delivered, update, todo, running>>

(* Slip: a failed listing is taken for a snapshot.                         *)
NotifierFinishesListingUnchecked ==
  /\ npc = "resolve"
  /\ missed' = FALSE
  /\ \E list \in ListingResults :
       /\ current' = list
       /\ update' = ChangeUpdate(current, list)
  /\ todo' = callbacks
  /\ npc' = "dispatch"
  /\ UNCHANGED <<hostVars, kernelVars, java, callbacks, initialising, queued, holder, ownerVars,
                 delivered, running>>

(* A new snapshot becomes the current one before anybody hears of it.      *)
NotifierFinishesListing ==
  /\ npc = "resolve"
  /\ missed' = FALSE
  /\ \E list \in ListingResults :
       IF list \in {NoList, current}
       THEN /\ npc' = "idle"
            /\ holder' = Nobody
            /\ UNCHANGED <<current, update, todo>>
       ELSE /\ current' = list
            /\ update' = ChangeUpdate(current, list)
            /\ todo' = callbacks
            /\ npc' = "dispatch"
            /\ UNCHANGED holder
  /\ UNCHANGED <<hostVars, kernelVars, java, callbacks, initialising, queued, ownerVars,
                 delivered, running>>

(* Slip: a callback that has panicked is called again.                     *)
DispatchOneAnyway ==
  /\ npc = "dispatch"
  /\ \E w \in todo :
       /\ todo' = todo \ {w}
       /\ npc' = "callback"
       /\ running' = w
       /\ delivered' = [delivered EXCEPT ![w] = update]
  /\ UNCHANGED <<hostVars, kernelVars, stateVars, holder, ownerVars, update, missed>>

(* dispatch_callbacks goes on to a callback, in no particular order. One   *)
(* that has panicked before is passed over.                                *)
DispatchOne ==
  /\ npc = "dispatch"
  /\ \E w \in todo :
       /\ todo' = todo \ {w}
       /\ IF failed[w]
          THEN UNCHANGED <<npc, running, delivered>>
          ELSE /\ npc' = "callback"
               /\ running' = w
               /\ delivered' = [delivered EXCEPT ![w] = update]
  /\ UNCHANGED <<hostVars, kernelVars, stateVars, holder, ownerVars, update, missed>>

(* Slip: a panic is not caught and unwinds past the mutex, poisoning it.   *)
CallbackEndsOrPoisons ==
  /\ npc = "callback"
  /\ running' = Nobody
  /\ \E panics \in BOOLEAN :
       /\ failed' = [failed EXCEPT ![running] = panics]
       /\ npc' = IF panics THEN "idle" ELSE "dispatch"
  /\ UNCHANGED <<hostVars, kernelVars, stateVars, holder, opc, seen, cursor, queue, delivered,
                 update, todo, missed>>

CallbackEnds ==
  /\ npc = "callback"
  /\ npc' = "dispatch"
  /\ running' = Nobody
  /\ \E panics \in BOOLEAN : failed' = [failed EXCEPT ![running] = panics]
  /\ UNCHANGED <<hostVars, kernelVars, stateVars, holder, opc, seen, cursor, queue, delivered,
                 update, todo, missed>>

(* The queues are fed last, and the mutex is released.                     *)
FeedQueues ==
  /\ npc = "dispatch"
  /\ todo = {}
  /\ queue' = [w \in QueuedWatchers |->
                 IF w \in queued THEN Pushed(queue[w], current) ELSE queue[w]]
  /\ npc' = "idle"
  /\ holder' = Nobody
  /\ update' = NoUpdate
  /\ UNCHANGED <<hostVars, kernelVars, stateVars, opc, seen, failed, cursor, delivered,
                 todo, running, missed>>

-----------------------------------------------------------------------------
(* What the owner of w does once it has begun, callbacks included.         *)
OwnerProceeds(w) ==
  \/ StartJava(w) \/ BeginFirstListing(w) \/ FinishFirstListing(w)
  \/ InitialCallbackReturns(w) \/ InitialCallbackPanics(w)
  \/ CatchUp(w) \/ CatchUpCallEnds(w)
  \/ Unregister(w)
  \/ PollQueue(w)

Owner(w) ==
  \/ Register(w) \/ OwnerProceeds(w)
  \/ DropWatcher(w) \/ CallChanged(w) \/ CancelChanged(w)

NotifierProceeds ==
  \/ NotifierBeginsListing \/ NotifierFinishesListing
  \/ DispatchOne \/ CallbackEnds \/ FeedQueues

Next ==
  \/ \E w \in Watchers : Owner(w)
  \/ NotifierEnters \/ NotifierProceeds
  \/ OsChanges \/ OsNotices

Spec == Init /\ [][Next]_vars

(* Owners and the notification thread run, callbacks come back and every   *)
(* critical section gets its turn; the bounded number of changes bounds    *)
(* how often the mutex can be contended for. ConnectivityManager notices   *)
(* changes. Nobody has to start, use or drop a watcher.                    *)
Fairness ==
  /\ \A w \in Watchers : WF_vars(OwnerProceeds(w))
  /\ WF_vars(NotifierEnters)
  /\ WF_vars(NotifierProceeds)
  /\ WF_vars(OsNotices)

FairSpec == Spec /\ Fairness

-----------------------------------------------------------------------------
(* Properties.                                                             *)

(* The diff a notification dispatches is computed once, against the last   *)
(* snapshot of the process; it is right for every callback only because    *)
(* each registered one was last called with exactly that snapshot.         *)
RegisteredAreCurrent ==
  \A w \in callbacks :
    failed[w] \/ delivered[w].interfaces = IF w \in todo THEN update.base ELSE current

(* The Java subscription lives as long as somebody watches, the watchers   *)
(* still busy with their initial callback included, and no longer.         *)
JavaFollowsWatchers == holder = Nobody => (java <=> HasWatchers)

(* A callback is not called by the notification thread while its owner's   *)
(* thread is calling it, nor after the handle's drop has returned.         *)
CallbackIsExclusive ==
  running # Nobody => opc[running] \in {"watching", "dropping"}

(* What the owner of a queued watcher has taken in or is about to take.    *)
Latest(w) == IF queue[w].latest # NoList THEN queue[w].latest ELSE cursor[w].prev_list

(* When every notification has been dealt with, every watcher has or will  *)
(* be handed the configuration as it is, whenever it registered, and an    *)
(* owner parked in changed() whom nobody is going to wake has taken it in: *)
(* no push comes between its look into the empty queue and its waker. A    *)
(* listing that failed by itself is the one excuse.                        *)
NoLostChange ==
  (unsent = 0 /\ events = 0 /\ npc = "idle" /\ holder = Nobody /\ ~missed) =>
     /\ \A w \in callbacks : failed[w] \/ delivered[w].interfaces = os
     /\ \A w \in queued :
          /\ Latest(w) = os
          /\ opc[w] = "parked" => queue[w].woken \/ cursor[w].prev_list = os

(* Nothing is delivered to the owner of w any more.                        *)
Over(w) ==
  \/ opc[w] \in {"error", "unwinding", "unwound", "dropped"}
  \/ w \in CallbackWatchers /\ failed[w]

(* Every owner gets the Updates UpdateStream promises, and none after a    *)
(* panic of its callback or the drop of its watcher: Stream(w)!Spec for    *)
(* every w, written as one initial condition and one box for TLC.          *)
Stream(w) == INSTANCE UpdateStream WITH last <- delivered[w], closed <- Over(w)

ImplementsUpdateStream ==
  /\ \A w \in Watchers : Stream(w)!Init
  /\ [][\A w \in Watchers : [Stream(w)!Next]_(Stream(w)!vars)]_vars

(* A change reaches every registered callback and every owner who waits in *)
(* changed(), unless the watcher ends or the listing fails by itself.      *)
ChangesAreDelivered ==
  /\ \A w \in CallbackWatchers :
       (opc[w] = "watching" /\ ~failed[w] /\ delivered[w].interfaces # os)
         ~> (opc[w] # "watching" \/ failed[w] \/ missed \/ delivered[w].interfaces = os)
  /\ \A w \in QueuedWatchers :
       (opc[w] = "parked" /\ cursor[w].prev_list # os)
         ~> (opc[w] \notin {"parked", "poll"} \/ missed \/ cursor[w].prev_list = os)

(* A watcher that is going goes, though callbacks panic and the mutex is   *)
(* held by the notification thread meanwhile.                              *)
DropTerminates ==
  \A w \in Watchers : (opc[w] \in {"dropping", "unwinding"}) ~> (opc[w] \in {"dropped", "unwound"})

(* A registration ends: catching up with changes does not go on for ever   *)
(* once the changes stop.                                                  *)
RegistrationTerminates ==
  \A w \in Watchers :
    (opc[w] \in {"start", "initial"}) ~> (opc[w] \in {"watching", "idle", "unwound", "error"})

=============================================================================
