---------------------------- MODULE WindowsWatch ----------------------------
(***************************************************************************)
(* A watcher of watch_win.rs. It registers with the IP helper twice, for   *)
(* changes of unicast addresses and of interfaces, and each registration   *)
(* calls back on a thread of its own. The state the two share with the     *)
(* owner is behind a mutex: whoever lists the interfaces, and whoever runs *)
(* the user's callback, holds it.                                          *)
(*                                                                         *)
(*   "callback"  watch_interfaces_with_callback                            *)
(*   "queued"    watch_interfaces_async and _blocking                      *)
(*                                                                         *)
(* Cancelling a registration waits for its calls in progress, or fails; a  *)
(* registration that could not be cancelled goes on calling, and so the    *)
(* state is disabled and leaked.                                           *)
(*                                                                         *)
(* The user's callback returns or panics; it does not drop its own handle. *)
(***************************************************************************)
EXTENDS Host, AsyncCallbackQueue

VARIABLES
  kind,          \* which of the two watchers this is
  unsent,        \* changes the IP helper has not yet noticed
  events,        \* the calls each registration is going to make
  live,          \* registrations the IP helper holds
  thread,        \* the thread of each registration
  opc,           \* the owner
  handles,       \* registrations the drop has yet to cancel
  outcome,       \* what the owner is left with when the registration is gone
  holder,        \* who holds the mutex
  poisoned,      \* the mutex was released by a panic
  initialising, disabled,
  failed,        \* Callback::failed
  cursor,        \* UpdateCursor: the state's or, queued, the owner's
  current,       \* QueuedWatchState::current_list
  queue,         \* AsyncCallbackQueue
  freed,         \* the state was dropped
  delivered,     \* the last Update the owner received
  missed         \* ghost: the last listing failed for a reason of its own

osVars == <<hostVars, unsent, events>>
registrationVars == <<live, handles, outcome, freed>>
stateVars == <<poisoned, initialising, disabled, failed, current>>
updateVars == <<cursor, queue, delivered>>
vars == <<osVars, kind, thread, opc, holder, registrationVars, stateVars, updateVars, missed>>

Sources == {"unicast", "interface"}

OwnerStates ==
  Sources \cup                                      \* register_unicast, register_interface
  {"lock", "list", "resolve", "initial",            \* the rest of the construction
   "watching",                                      \* owns a WatchHandle
   "idle", "poll", "parked",                        \* owns an AsyncWatch or BlockingWatch
   "cancelling",                                    \* NotificationRegistration::drop
   "dropped", "error", "unwound",
   "aborted"}                                       \* the process is gone

TypeOK ==
  /\ HostTypeOK
  /\ kind \in {"callback", "queued"}
  /\ unsent \in 0..MaxChanges
  /\ events \in [Sources -> 0..MaxChanges]
  /\ live \in SUBSET Sources
  /\ thread \in [Sources -> {"idle", "waiting", "list", "resolve", "callback"}]
  /\ opc \in OwnerStates
  /\ handles \in SUBSET Sources
  /\ outcome \in {"dropped", "error", "unwound"}
  /\ holder \in Sources \cup {"owner", "nobody"}
  /\ poisoned \in BOOLEAN
  /\ initialising \in BOOLEAN
  /\ disabled \in BOOLEAN
  /\ failed \in BOOLEAN
  /\ cursor \in Cursor
  /\ current \in Lists
  /\ queue \in Queue
  /\ freed \in BOOLEAN
  /\ delivered \in Update \cup {NoUpdate}
  /\ missed \in BOOLEAN

Init ==
  /\ HostInit
  /\ kind \in {"callback", "queued"}
  /\ unsent = 0
  /\ events = [s \in Sources |-> 0]
  /\ live = {}
  /\ thread = [s \in Sources |-> "idle"]
  /\ opc = "unicast"
  /\ handles = {}
  /\ outcome = "dropped"
  /\ holder = "nobody"
  /\ poisoned = FALSE
  /\ initialising = TRUE
  /\ disabled = FALSE
  /\ failed = FALSE
  /\ cursor = DefaultCursor
  /\ current = EmptyList
  /\ queue = EmptyQueue
  /\ freed = FALSE
  /\ delivered = NoUpdate
  /\ missed = FALSE

-----------------------------------------------------------------------------
(* Construction. Whatever fails on the way drops the registration, after   *)
(* the mutex has been released.                                            *)

DropRegistration(leavesWith) ==
  /\ opc' = "cancelling"
  /\ outcome' = leavesWith

(* register_unicast, then register_interface                               *)
Register(s) ==
  /\ opc = s
  /\ \/ /\ live' = live \cup {s}
        /\ handles' = handles \cup {s}
        /\ opc' = IF s = "unicast" THEN "interface" ELSE "lock"
        /\ UNCHANGED outcome
     \/ /\ DropRegistration("error")
        /\ UNCHANGED <<live, handles>>
  /\ UNCHANGED <<osVars, kind, thread, holder, freed, stateVars, updateVars, missed>>

(* Slip: the initial listing is made before the mutex is taken.            *)
LockLater ==
  /\ opc = "lock"
  /\ opc' = "list"
  /\ UNCHANGED <<osVars, kind, thread, holder, registrationVars, stateVars, updateVars, missed>>

Lock ==
  /\ opc = "lock"
  /\ holder = "nobody"
  /\ holder' = "owner"
  /\ opc' = "list"
  /\ UNCHANGED <<osVars, kind, thread, registrationVars, stateVars, updateVars, missed>>

(* Slip: the registration is dropped while the mutex is still held.        *)
InitialListingFailsLocked ==
  /\ opc = "list"
  /\ DropRegistration("error")
  /\ UNCHANGED <<osVars, kind, thread, holder, live, handles, freed, stateVars, updateVars, missed>>

InitialListingFails ==
  /\ opc \in {"list", "resolve"}
  /\ opc = "resolve" => NoList \in ListingResults
  /\ DropRegistration("error")
  /\ holder' = "nobody"
  /\ UNCHANGED <<osVars, kind, thread, live, handles, freed, stateVars, updateVars, missed>>

BeginInitialListing ==
  /\ opc = "list"
  /\ TakeSnapshot
  /\ opc' = "resolve"
  /\ UNCHANGED <<unsent, events, kind, thread, holder, registrationVars, stateVars, updateVars,
                 missed>>

(* handle_initial_notif enters the callback, with the mutex held;          *)
(* handle_initial_queued_notif pushes the snapshot and is done.            *)
FinishInitialListing ==
  /\ opc = "resolve"
  /\ \E list \in ListingResults \ {NoList} :
       IF kind = "callback"
       THEN /\ cursor' = Advanced(cursor, list)
            /\ delivered' = UpdateOf(cursor, list)
            /\ opc' = "initial"
            /\ UNCHANGED <<current, queue, initialising, holder>>
       ELSE /\ current' = list
            /\ queue' = Pushed(queue, list)
            /\ initialising' = FALSE
            /\ holder' = "nobody"
            /\ opc' = "idle"
            /\ UNCHANGED <<cursor, delivered>>
  /\ UNCHANGED <<osVars, kind, thread, registrationVars, poisoned, disabled, failed, missed>>

(* Slip: the state goes on ignoring notifications.                         *)
InitialCallbackReturnsInitialising ==
  /\ opc = "initial"
  /\ holder' = "nobody"
  /\ opc' = "watching"
  /\ UNCHANGED <<osVars, kind, thread, registrationVars, stateVars, updateVars, missed>>

InitialCallbackReturns ==
  /\ opc = "initial"
  /\ initialising' = FALSE
  /\ holder' = "nobody"
  /\ opc' = "watching"
  /\ UNCHANGED <<osVars, kind, thread, registrationVars, poisoned, disabled, failed, current,
                 updateVars, missed>>

(* The unwinding drops the guard, which poisons the mutex, and then the    *)
(* registration.                                                           *)
InitialCallbackPanics ==
  /\ opc = "initial"
  /\ poisoned' = TRUE
  /\ holder' = "nobody"
  /\ DropRegistration("unwound")
  /\ UNCHANGED <<osVars, kind, thread, live, handles, freed, initialising, disabled, failed,
                 current, updateVars, missed>>

-----------------------------------------------------------------------------
(* NotificationRegistration::drop.                                         *)

DropWatcher ==
  /\ opc \in {"watching", "idle"}
  /\ DropRegistration("dropped")
  /\ UNCHANGED <<osVars, kind, thread, holder, live, handles, freed, stateVars, updateVars, missed>>

(* CancelMibChangeNotify2 returns, for unicast first.                      *)
CancelReturns(s) ==
  /\ opc = "cancelling"
  /\ s \in handles
  /\ s = "interface" => "unicast" \notin handles
  /\ handles' = handles \ {s}
  /\ UNCHANGED <<hostVars, unsent, kind, thread, opc, holder, outcome, freed, stateVars,
                 updateVars, missed>>

(* It succeeds when no call of that registration is in progress any more.  *)
Cancel(s) ==
  /\ CancelReturns(s)
  /\ thread[s] = "idle"
  /\ live' = live \ {s}
  /\ events' = [events EXCEPT ![s] = 0]

CancelFails(s) ==
  /\ CancelReturns(s)
  /\ UNCHANGED <<live, events>>

(* Everything was cancelled: the state is dropped.                         *)
FreeState ==
  /\ opc = "cancelling"
  /\ handles = {}
  /\ live = {}
  /\ freed' = TRUE
  /\ opc' = outcome
  /\ UNCHANGED <<osVars, kind, thread, holder, live, handles, outcome, stateVars, updateVars, missed>>

(* Slips: the state is dropped in spite of it; it is leaked but stays on.  *)
LeakStateFreed ==
  /\ opc = "cancelling"
  /\ handles = {}
  /\ live # {}
  /\ freed' = TRUE
  /\ opc' = outcome
  /\ UNCHANGED <<osVars, kind, thread, holder, live, handles, outcome, stateVars, updateVars, missed>>

LeakStateEnabled ==
  /\ opc = "cancelling"
  /\ handles = {}
  /\ live # {}
  /\ opc' = outcome
  /\ UNCHANGED <<osVars, kind, thread, holder, registrationVars, stateVars, updateVars, missed>>

(* A registration may still call: the state is disabled and leaked. The    *)
(* unwrap of a poisoned lock panics, and a panic while unwinding aborts.   *)
LeakState ==
  /\ opc = "cancelling"
  /\ handles = {}
  /\ live # {}
  /\ holder = "nobody"
  /\ IF poisoned
     THEN /\ opc' = "aborted"
          /\ UNCHANGED disabled
     ELSE /\ opc' = outcome
          /\ disabled' = TRUE
  /\ UNCHANGED <<osVars, kind, thread, holder, registrationVars, poisoned, initialising, failed,
                 current, updateVars, missed>>

-----------------------------------------------------------------------------
(* changed() of AsyncWatch and BlockingWatch.                              *)

CallChanged ==
  /\ opc = "idle"
  /\ opc' = "poll"
  /\ UNCHANGED <<osVars, kind, thread, holder, registrationVars, stateVars, updateVars, missed>>

(* Look into the queue: first thing, and after being woken.                *)
PollQueue ==
  /\ opc = "poll" \/ (opc = "parked" /\ queue.woken)
  /\ IF queue.latest = NoList
     THEN /\ queue' = Parked(queue)
          /\ opc' = "parked"
          /\ UNCHANGED <<cursor, delivered>>
     ELSE /\ queue' = Taken(queue)
          /\ IF Emits(cursor, queue.latest)
             THEN /\ cursor' = Advanced(cursor, queue.latest)
                  /\ delivered' = UpdateOf(cursor, queue.latest)
                  /\ opc' = "idle"
             ELSE /\ opc' = "poll"
                  /\ UNCHANGED <<cursor, delivered>>
  /\ UNCHANGED <<osVars, kind, thread, holder, registrationVars, stateVars, missed>>

(* An async owner drops the future; its waker stays behind.                *)
CancelChanged ==
  /\ opc = "parked"
  /\ opc' = "idle"
  /\ UNCHANGED <<osVars, kind, thread, holder, registrationVars, stateVars, updateVars, missed>>

-----------------------------------------------------------------------------
(* The IP helper and its threads: dispatch_notif, dispatch_queued_notif.   *)

OsChanges ==
  /\ ChangeConfiguration
  /\ unsent' = unsent + 1
  /\ UNCHANGED <<events, kind, thread, opc, holder, registrationVars, stateVars, updateVars, missed>>

(* A change concerns an address, an interface, or both.                    *)
OsNotices ==
  /\ unsent > 0
  /\ unsent' = unsent - 1
  /\ \E concerned \in (SUBSET Sources) \ {{}} :
       events' = [s \in Sources |-> IF s \in concerned \cap live THEN events[s] + 1 ELSE events[s]]
  /\ UNCHANGED <<hostVars, kind, thread, opc, holder, registrationVars, stateVars, updateVars, missed>>

NotifBegins(s) ==
  /\ thread[s] = "idle"
  /\ events[s] > 0
  /\ events' = [events EXCEPT ![s] = @ - 1]
  /\ thread' = [thread EXCEPT ![s] = "waiting"]
  /\ UNCHANGED <<hostVars, unsent, kind, opc, holder, registrationVars, stateVars, updateVars, missed>>

(* On a poisoned mutex the unwrap panics, which dispatch_notif catches.    *)
NotifLocks(s) ==
  /\ thread[s] = "waiting"
  /\ holder = "nobody"
  /\ IF poisoned
     THEN /\ thread' = [thread EXCEPT ![s] = "idle"]
          /\ UNCHANGED holder
     ELSE /\ thread' = [thread EXCEPT ![s] = "list"]
          /\ holder' = s
  /\ UNCHANGED <<osVars, kind, opc, registrationVars, stateVars, updateVars, missed>>

(* The call returns and releases the mutex.                                *)
NotifReturns(s) ==
  /\ thread' = [thread EXCEPT ![s] = "idle"]
  /\ holder' = "nobody"

NotifBeginsListing(s) ==
  /\ thread[s] = "list"
  /\ \/ /\ TakeSnapshot
        /\ thread' = [thread EXCEPT ![s] = "resolve"]
        /\ UNCHANGED <<holder, missed>>
     \/ /\ NotifReturns(s)
        /\ missed' = TRUE
        /\ UNCHANGED hostVars
  /\ UNCHANGED <<unsent, events, kind, opc, registrationVars, stateVars, updateVars>>

(* Slip: a callback that has panicked is called again.                     *)
HandleNotifAnyway(s, list) ==
  /\ cursor' = Advanced(cursor, list)
  /\ delivered' = UpdateOf(cursor, list)
  /\ thread' = [thread EXCEPT ![s] = "callback"]
  /\ UNCHANGED <<holder, current, queue>>

(* handle_notif with a snapshot that differs: advance, and call unless the *)
(* callback has panicked before.                                           *)
HandleNotif(s, list) ==
  /\ cursor' = Advanced(cursor, list)
  /\ IF failed
     THEN /\ NotifReturns(s)
          /\ UNCHANGED delivered
     ELSE /\ delivered' = UpdateOf(cursor, list)
          /\ thread' = [thread EXCEPT ![s] = "callback"]
          /\ UNCHANGED holder
  /\ UNCHANGED <<current, queue>>

HandleQueuedNotif(s, list) ==
  /\ current' = list
  /\ queue' = Pushed(queue, list)
  /\ NotifReturns(s)
  /\ UNCHANGED <<cursor, delivered>>

(* What the handlers compare a new snapshot with.                          *)
LastSeen == IF kind = "callback" THEN cursor.prev_list ELSE current

(* Slip: a failed listing is taken for a snapshot.                         *)
NotifFinishesListingUnchecked(s) ==
  /\ thread[s] = "resolve"
  /\ \E list \in ListingResults :
       IF kind = "callback" THEN HandleNotif(s, list) ELSE HandleQueuedNotif(s, list)
  /\ missed' = FALSE
  /\ UNCHANGED <<osVars, kind, opc, registrationVars, poisoned, initialising, disabled, failed>>

NotifFinishesListing(s) ==
  /\ thread[s] = "resolve"
  /\ \E list \in ListingResults :
       IF list \in {NoList, LastSeen} \/ initialising \/ disabled
       THEN /\ NotifReturns(s)
            /\ UNCHANGED <<current, updateVars>>
       ELSE IF kind = "callback" THEN HandleNotif(s, list)
       ELSE HandleQueuedNotif(s, list)
  /\ missed' = FALSE
  /\ UNCHANGED <<osVars, kind, opc, registrationVars, poisoned, initialising, disabled, failed>>

(* call_from_notification: a panic is caught and remembered.               *)
NotifCallbackEnds(s) ==
  /\ thread[s] = "callback"
  /\ NotifReturns(s)
  /\ \E panics \in BOOLEAN : failed' = panics
  /\ UNCHANGED <<osVars, kind, opc, registrationVars, poisoned, initialising, disabled, current,
                 updateVars, missed>>

-----------------------------------------------------------------------------
OwnerProceeds ==
  \/ \E s \in Sources : Register(s) \/ Cancel(s)
  \/ Lock \/ BeginInitialListing \/ FinishInitialListing \/ InitialListingFails
  \/ InitialCallbackReturns \/ InitialCallbackPanics
  \/ FreeState \/ LeakState
  \/ PollQueue

Owner ==
  \/ OwnerProceeds
  \/ DropWatcher \/ CallChanged \/ CancelChanged
  \/ \E s \in Sources : CancelFails(s)

Notif(s) ==
  \/ NotifBegins(s) \/ NotifLocks(s)
  \/ NotifBeginsListing(s) \/ NotifFinishesListing(s) \/ NotifCallbackEnds(s)

Alive == opc # "aborted"

Next ==
  /\ Alive
  /\ \/ Owner
     \/ \E s \in Sources : Notif(s)
     \/ OsChanges \/ OsNotices

Spec == Init /\ [][Next]_vars

(* The owner's construction, drop and changed() go on, callbacks come back *)
(* and both notification threads run; the bounded number of changes bounds *)
(* how often they take the mutex. The IP helper notices changes. Nobody    *)
(* has to call changed() or drop the watcher, and no cancellation has to   *)
(* fail: one that waits for a call has to see that call end.               *)
Fairness ==
  /\ WF_vars(OwnerProceeds)
  /\ \A s \in Sources : WF_vars(Alive /\ Notif(s))
  /\ WF_vars(Alive /\ OsNotices)

FairSpec == Spec /\ Fairness

-----------------------------------------------------------------------------
(* Properties.                                                             *)

(* watch_win.rs:45-50: the IP helper's threads hold a raw pointer to the   *)
(* state. It is dropped only when no registration can call any more and no *)
(* call is in progress, whichever cancellations failed.                    *)
StateOutlivesCalls ==
  freed => \A s \in Sources : s \notin live /\ events[s] = 0 /\ thread[s] = "idle"

(* Once the handle's drop has returned, and once construction has failed   *)
(* or unwound, no callback is executing, though a registration that could  *)
(* not be cancelled may still be calling into the state.                   *)
NoCallAfterDrop ==
  opc \in {"dropped", "error", "unwound"} => \A s \in Sources : thread[s] # "callback"

Quiet ==
  /\ unsent = 0
  /\ \A s \in Sources : events[s] = 0 /\ thread[s] = "idle"

(* What the owner of a queued watcher has taken in or is about to take.    *)
Latest == IF queue.latest # NoList THEN queue.latest ELSE cursor.prev_list

(* When every notification has been dealt with, the owner has or will be   *)
(* handed the configuration as it is: the notifications that were ignored  *)
(* while initialising, or that one of the two threads dealt with for both, *)
(* are not missed. An owner parked in changed() whom nobody is going to    *)
(* wake has taken it in: no push comes between its look into the queue and *)
(* its waker. A listing that failed by itself is the one excuse.           *)
NoLostChange ==
  (Quiet /\ ~missed) =>
     /\ opc = "watching" => failed \/ delivered.interfaces = os
     /\ opc \in {"idle", "poll", "parked"} => Latest = os
     /\ opc = "parked" => queue.woken \/ cursor.prev_list = os

(* Nothing is delivered to the owner any more.                             *)
Over ==
  \/ opc \in {"dropped", "error", "unwound", "aborted"}
  \/ opc = "cancelling" /\ outcome # "dropped"
  \/ failed

(* The owner gets the Updates UpdateStream promises, and none after a      *)
(* panic of the callback, a failed construction or the watcher's drop.     *)
Stream == INSTANCE UpdateStream WITH last <- delivered, closed <- Over

ImplementsUpdateStream == Stream!Spec

(* A change reaches the callback, or an owner who waits in changed(),      *)
(* unless the watcher ends or the listing fails by itself.                 *)
ChangesAreDelivered ==
  /\ (opc = "watching" /\ ~failed /\ delivered.interfaces # os)
       ~> (opc # "watching" \/ failed \/ missed \/ delivered.interfaces = os)
  /\ (opc = "parked" /\ cursor.prev_list # os)
       ~> (opc \notin {"parked", "poll"} \/ missed \/ cursor.prev_list = os)

(* A registration that is being dropped is gone in the end, although calls *)
(* of it are in progress, wait for the mutex or run the callback.          *)
DropTerminates ==
  (opc = "cancelling") ~> (opc \in {"dropped", "error", "unwound", "aborted"})

(* lib.rs:458: "If the initial callback panics, watcher construction       *)
(* unwinds". It does not when a cancellation fails as well: disabling the  *)
(* state unwraps the mutex the panic has poisoned.                         *)
InitialPanicUnwinds == opc # "aborted"

=============================================================================
