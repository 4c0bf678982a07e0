--------------------------- MODULE AndroidSupport ---------------------------
(***************************************************************************)
(* How the first Android watcher of a process starts the Java support      *)
(* object, and the last one stops it: start_java_watching,                 *)
(* inject_dex_class and stop_java_watching of watch_android.rs, the        *)
(* context slot of android.rs and NetwatcherSupportAndroid.java.           *)
(*                                                                         *)
(* The class is brought in through a file, netwatcher.dex, in the app's    *)
(* code cache: written, made read-only, loaded, removed. The file outlives *)
(* the process, which Android may kill between any two of these steps and  *)
(* start again. A file that is read-only cannot be written to.             *)
(*                                                                         *)
(* All of it happens with the mutex of the process-wide State held, so     *)
(* there is one registration at a time; what the watchers are for is the   *)
(* subject of AndroidWatch.                                                *)
(***************************************************************************)
EXTENDS Integers

CONSTANTS
  Watchers,
  NdkContext,    \* whether the app's framework has set up ndk_context
  MaxObjects,    \* bound: support objects created in one process
  MaxKills       \* bound: how often Android kills the process

ASSUME SupportAssumption ==
  /\ NdkContext \in BOOLEAN
  /\ MaxObjects \in Nat
  /\ MaxKills \in Nat

VARIABLES
  dex,           \* netwatcher.dex: what is in it, and is it read-only
  kills,
  context,       \* ANDROID_CONTEXT is Some
  watchers,      \* who is registered in State
  java_support,  \* the support object in State, 0 for None
  stage,         \* what the holder of State's mutex is about to do
  manager,       \* the newest support object has a ConnectivityManager
  objects,       \* support objects created, numbered from 1
  subscribed,    \* those with a NetworkCallback registered
  orphaned       \* ghost: a stop has failed in this process

stateVars == <<watchers, java_support>>
javaVars == <<manager, objects, subscribed>>
vars == <<dex, kills, context, stateVars, stage, javaVars, orphaned>>

Stages == {"write", "seal", "load", "remove", "natives", "construct", "subscribe", "list"}

TypeOK ==
  /\ dex \in [content : {"none", "partial", "complete"}, readonly : BOOLEAN]
  /\ kills \in 0..MaxKills
  /\ context \in BOOLEAN
  /\ watchers \in SUBSET Watchers
  /\ java_support \in 0..objects
  /\ stage \in Stages \cup {"free"}
  /\ manager \in BOOLEAN
  /\ objects \in 0..MaxObjects
  /\ subscribed \in SUBSET (1..objects)
  /\ orphaned \in BOOLEAN

NoFile == [content |-> "none", readonly |-> FALSE]

Init ==
  /\ dex = NoFile
  /\ kills = 0
  /\ context = FALSE
  /\ watchers = {}
  /\ java_support = 0
  /\ stage = "free"
  /\ manager = FALSE
  /\ objects = 0
  /\ subscribed = {}
  /\ orphaned = FALSE

(* What can be on disk when the step at hand is cut short or fails: a file *)
(* in the middle of being written may hold anything.                       *)
Interrupted ==
  \/ dex' = dex
  \/ stage = "write" /\ ~dex.readonly /\ dex' = [dex EXCEPT !.content = "partial"]

(* Memory and subscriptions go with the process, the file stays.           *)
Kill ==
  /\ kills < MaxKills
  /\ kills' = kills + 1
  /\ Interrupted
  /\ context' = FALSE
  /\ watchers' = {}
  /\ java_support' = 0
  /\ stage' = "free"
  /\ manager' = FALSE
  /\ objects' = 0
  /\ subscribed' = {}
  /\ orphaned' = FALSE

(* set_android_context. A call that replaces a context already set waits   *)
(* for with_android_ctx, and changes nothing modelled here.                *)
SetContext ==
  /\ context' = TRUE
  /\ UNCHANGED <<dex, kills, stateVars, stage, javaVars, orphaned>>

-----------------------------------------------------------------------------
(* The first registration.                                                 *)

(* A watcher joins others, or starts the support object, or there is no    *)
(* context to start it with and the registration fails.                    *)
Register(w) ==
  /\ stage = "free"
  /\ w \notin watchers
  /\ IF watchers # {}
     THEN /\ watchers' = watchers \cup {w}
          /\ UNCHANGED stage
     ELSE /\ stage' = IF context \/ NdkContext THEN "write" ELSE "free"
          /\ UNCHANGED watchers
  /\ UNCHANGED <<dex, kills, context, java_support, javaVars, orphaned>>

Step(from, to) ==
  /\ stage = from
  /\ stage' = to
  /\ UNCHANGED <<kills, context, watchers, orphaned>>

(* A step of the registration fails, which is returned as an error.        *)
Fail ==
  /\ stage \in Stages \ {"list"}
  /\ Interrupted
  /\ Step(stage, "free")
  /\ UNCHANGED <<java_support, javaVars>>

(* Slip: a file that is there is taken for what was to be written.         *)
WriteDexUnlessThere ==
  /\ Step("write", "seal")
  /\ dex' = IF dex.content = "none" THEN [dex EXCEPT !.content = "complete"] ELSE dex
  /\ UNCHANGED <<java_support, javaVars>>

(* fs::write                                                               *)
WriteDex ==
  /\ ~dex.readonly
  /\ Step("write", "seal")
  /\ dex' = [dex EXCEPT !.content = "complete"]
  /\ UNCHANGED <<java_support, javaVars>>

SealDex ==
  /\ Step("seal", "load")
  /\ dex' = [dex EXCEPT !.readonly = TRUE]
  /\ UNCHANGED <<java_support, javaVars>>

LoadClass ==
  /\ Step("load", "remove")
  /\ UNCHANGED <<dex, java_support, javaVars>>

(* remove_file, whose failure is ignored                                   *)
RemoveDex ==
  /\ Step("remove", "natives")
  /\ dex' \in {NoFile, dex}
  /\ UNCHANGED <<java_support, javaVars>>

RegisterNatives ==
  /\ Step("natives", "construct")
  /\ UNCHANGED <<dex, java_support, javaVars>>

(* The constructor asks for the ConnectivityManager and may not get one.   *)
ConstructSupport ==
  /\ objects < MaxObjects
  /\ Step("construct", "subscribe")
  /\ objects' = objects + 1
  /\ manager' \in BOOLEAN
  /\ UNCHANGED <<dex, java_support, subscribed>>

(* Slip: State is told the number of the next object.                      *)
SubscribeNext ==
  /\ Step("subscribe", "list")
  /\ subscribed' = subscribed \cup (IF manager THEN {objects} ELSE {})
  /\ java_support' = objects + 1
  /\ UNCHANGED <<dex, manager, objects>>

(* startInterfaceWatch; without a ConnectivityManager it does nothing.     *)
Subscribe ==
  /\ Step("subscribe", "list")
  /\ subscribed' = subscribed \cup (IF manager THEN {objects} ELSE {})
  /\ java_support' = objects
  /\ UNCHANGED <<dex, manager, objects>>

(* Slip: the object is kept after it was stopped.                          *)
StopJavaKeepingIt ==
  /\ subscribed' = subscribed \ {java_support}
  /\ UNCHANGED <<java_support, orphaned>>

(* stop_java_watching; whether that succeeds or not, the object is gone.   *)
StopJava ==
  /\ \/ subscribed' = subscribed \ {java_support} /\ UNCHANGED orphaned
     \/ subscribed' = subscribed /\ orphaned' = TRUE
  /\ java_support' = 0

FirstListing(w) ==
  /\ stage = "list"
  /\ stage' = "free"
  /\ \/ /\ watchers' = {w}
        /\ UNCHANGED <<java_support, subscribed, orphaned>>
     \/ StopJava /\ UNCHANGED watchers
  /\ UNCHANGED <<dex, kills, context, manager, objects>>

Unregister(w) ==
  /\ stage = "free"
  /\ w \in watchers
  /\ watchers' = watchers \ {w}
  /\ IF watchers' = {} THEN StopJava ELSE UNCHANGED <<java_support, subscribed, orphaned>>
  /\ UNCHANGED <<dex, kills, context, stage, manager, objects>>

Next ==
  \/ Kill
  \/ SetContext
  \/ \E w \in Watchers : Register(w) \/ FirstListing(w) \/ Unregister(w)
  \/ Fail
  \/ WriteDex \/ SealDex \/ LoadClass \/ RemoveDex
  \/ RegisterNatives \/ ConstructSupport \/ Subscribe

Spec == Init /\ [][Next]_vars

-----------------------------------------------------------------------------
(* Properties.                                                             *)

(* The class loader is given a whole file that nobody can write to, also   *)
(* when an earlier process or attempt left half of one.                    *)
LoadsWholeFile == stage = "load" => dex = [content |-> "complete", readonly |-> TRUE]

(* The constructor got no ConnectivityManager: startInterfaceWatch then    *)
(* logs that and returns, and the registration goes on as if all were well.*)
WithoutManager == ~manager

(* While there are watchers the object in State is the one with a          *)
(* subscription, WithoutManager excepted; without watchers there is no     *)
(* object. No other object keeps a subscription unless its stop has failed.*)
SubscriptionFollowsWatchers ==
  stage = "free" =>
    /\ watchers # {} => java_support \in subscribed \/ WithoutManager
    /\ watchers # {} <=> java_support # 0
    /\ subscribed \subseteq {java_support} \/ orphaned

(* "This function will return an error if there is a problem configuring   *)
(* the watcher" (lib.rs:464): who was registered without an error has a    *)
(* subscription behind it. AndroidSupport_manager.cfg refutes this.        *)
WatchersAreSubscribed ==
  stage = "free" /\ watchers # {} => java_support \in subscribed

=============================================================================
