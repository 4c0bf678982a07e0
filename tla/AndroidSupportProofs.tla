------------------------ MODULE AndroidSupportProofs ------------------------
(***************************************************************************)
(* Starting and stopping the Java support object, for any set of watchers, *)
(* any number of support objects and any number of times the process is    *)
(* killed.                                                                 *)
(***************************************************************************)
EXTENDS AndroidSupport, TLAPS

Dex == [content : {"none", "partial", "complete"}, readonly : BOOLEAN]

(* What is on disk while the class is brought in.                          *)
FileOK ==
  /\ stage = "seal" => dex = [content |-> "complete", readonly |-> FALSE]
  /\ LoadsWholeFile

(* The object in State is the newest, and is there while there are         *)
(* watchers or the first one makes its first listing.                      *)
ObjectOK ==
  /\ stage # "free" => watchers = {}
  /\ stage = "subscribe" => objects # 0 /\ objects \notin subscribed
  /\ IF watchers # {} \/ stage = "list"
     THEN /\ java_support # 0
          /\ manager <=> java_support \in subscribed
          /\ orphaned \/ subscribed \subseteq {java_support}
     ELSE java_support = 0 /\ (orphaned \/ subscribed = {})

IInv ==
  /\ TypeOK
  /\ FileOK
  /\ ObjectOK

LEMMA InitEstablishes == Init => IInv
<1> SUFFICES ASSUME Init PROVE IInv
  OBVIOUS
<1> USE DEF Init
<1>1. dex \in Dex
  BY DEF Dex, NoFile
<1>2. TypeOK
  <2>1. kills \in 0..MaxKills /\ objects \in 0..MaxObjects /\ java_support \in 0..objects
    BY SupportAssumption
  <2>2. context \in BOOLEAN /\ manager \in BOOLEAN /\ orphaned \in BOOLEAN
    OBVIOUS
  <2>3. watchers \in SUBSET Watchers /\ subscribed \in SUBSET (1..objects) /\ stage = "free"
    OBVIOUS
  <2> QED BY <1>1, <2>1, <2>2, <2>3 DEF TypeOK, Dex
<1>3. FileOK /\ ObjectOK
  BY DEF FileOK, LoadsWholeFile, ObjectOK
<1> QED BY <1>2, <1>3 DEF IInv

(* The file: whatever step is cut short leaves a file of some kind.        *)
LEMMA InterruptedFacts ==
  ASSUME dex \in Dex, Interrupted
  PROVE  dex' \in Dex
<1>1. CASE dex' = dex
  BY <1>1
<1>2. CASE dex' = [dex EXCEPT !.content = "partial"]
  <2>1. dex' = [content |-> "partial", readonly |-> dex.readonly]
    BY <1>2 DEF Dex
  <2> QED BY <2>1 DEF Dex
<1> QED BY <1>1, <1>2 DEF Interrupted

LEMMA StepPreserves == IInv /\ [Next]_vars => IInv'
<1> SUFFICES ASSUME IInv, [Next]_vars PROVE IInv'
  OBVIOUS
<1> USE DEF IInv, TypeOK, Dex, FileOK, LoadsWholeFile, ObjectOK, Stages, stateVars, javaVars
<1>1. CASE Kill
  <2>1. dex' \in Dex
    BY <1>1, InterruptedFacts DEF Kill
  <2>2. kills' \in 0..MaxKills /\ objects' \in 0..MaxObjects /\ java_support' \in 0..objects'
    BY <1>1, SupportAssumption DEF Kill
  <2>3. context' \in BOOLEAN /\ manager' \in BOOLEAN /\ orphaned' \in BOOLEAN
    BY <1>1 DEF Kill
  <2>4. watchers' = {} /\ subscribed' = {} /\ stage' = "free" /\ java_support' = 0
    BY <1>1 DEF Kill
  <2>5. TypeOK'
    BY <2>1, <2>2, <2>3, <2>4 DEF TypeOK
  <2> QED BY <2>4, <2>5
<1>2. CASE SetContext
  BY <1>2 DEF SetContext
<1>3. ASSUME NEW w \in Watchers, Register(w) PROVE IInv'
  BY <1>3 DEF Register
<1>4. ASSUME NEW w \in Watchers, FirstListing(w) PROVE IInv'
  <2>1. objects' = objects /\ objects \in Nat
    BY <1>4, SupportAssumption DEF FirstListing
  <2>2. java_support' \in {java_support, 0} /\ java_support' \in 0..objects'
    BY <1>4, <2>1 DEF FirstListing, StopJava
  <2>3. subscribed' \in SUBSET (1..objects')
    BY <1>4, <2>1 DEF FirstListing, StopJava
  <2>4. TypeOK'
    BY <1>4, <2>1, <2>2, <2>3 DEF FirstListing, StopJava
  <2>5. FileOK'
    BY <1>4 DEF FirstListing
  <2>6. ObjectOK'
    BY <1>4 DEF FirstListing, StopJava
  <2> QED BY <2>4, <2>5, <2>6
<1>5. ASSUME NEW w \in Watchers, Unregister(w) PROVE IInv'
  <2>1. objects' = objects /\ objects \in Nat
    BY <1>5, SupportAssumption DEF Unregister
  <2>2. java_support' \in {java_support, 0} /\ java_support' \in 0..objects'
    BY <1>5, <2>1 DEF Unregister, StopJava
  <2>3. subscribed' \in SUBSET (1..objects')
    BY <1>5, <2>1 DEF Unregister, StopJava
  <2>4. TypeOK'
    BY <1>5, <2>1, <2>2, <2>3 DEF Unregister, StopJava
  <2>5. FileOK'
    BY <1>5 DEF Unregister
  <2>6. ObjectOK'
    BY <1>5 DEF Unregister, StopJava
  <2> QED BY <2>4, <2>5, <2>6
<1>6. CASE Fail
  <2>1. dex' \in Dex
    BY <1>6, InterruptedFacts DEF Fail
  <2> QED BY <1>6, <2>1 DEF Fail, Step
<1>7. CASE WriteDex
  <2>1. dex' = [content |-> "complete", readonly |-> FALSE]
    BY <1>7 DEF WriteDex
  <2> QED BY <1>7, <2>1 DEF WriteDex, Step
<1>8. CASE SealDex
  <2>1. dex = [content |-> "complete", readonly |-> FALSE] /\ dex' = [dex EXCEPT !.readonly = TRUE]
    BY <1>8 DEF SealDex, Step
  <2>2. dex' = [content |-> "complete", readonly |-> TRUE]
    BY <2>1, Zenon
  <2> QED BY <1>8, <2>2 DEF SealDex, Step
<1>9. CASE LoadClass
  BY <1>9 DEF LoadClass, Step
<1>10. CASE RemoveDex
  <2>1. dex' \in Dex
    <3>1. NoFile \in Dex
      BY DEF NoFile
    <3> QED BY <1>10, <3>1 DEF RemoveDex
  <2> QED BY <1>10, <2>1 DEF RemoveDex, Step
<1>11. CASE RegisterNatives
  BY <1>11 DEF RegisterNatives, Step
<1>12. CASE ConstructSupport
  <2>1. objects' = objects + 1 /\ objects' \in 0..MaxObjects /\ subscribed' = subscribed
    BY <1>12, SupportAssumption DEF ConstructSupport
  <2>2. subscribed \in SUBSET (1..objects')
    BY <2>1, SupportAssumption
  <2>3. objects' # 0 /\ objects' \notin subscribed
    BY <2>1, SupportAssumption
  <2>4. java_support' = 0 /\ java_support' \in 0..objects'
    BY <1>12, <2>1, SupportAssumption DEF ConstructSupport, Step
  <2> QED BY <1>12, <2>1, <2>2, <2>3, <2>4 DEF ConstructSupport, Step
<1>13. CASE Subscribe
  <2>1. objects \in 1..objects /\ objects \in 0..objects
    BY <1>13, SupportAssumption DEF Subscribe, Step
  <2> QED BY <1>13, <2>1 DEF Subscribe, Step
<1>14. CASE UNCHANGED vars
  BY <1>14 DEF vars
<1> QED
  BY <1>1, <1>2, <1>3, <1>4, <1>5, <1>6, <1>7, <1>8, <1>9, <1>10, <1>11, <1>12, <1>13, <1>14
     DEF Next

LEMMA Invariance == Spec => []IInv
  BY InitEstablishes, StepPreserves, PTL DEF Spec

-----------------------------------------------------------------------------
(* Every reachable state is well typed.                                    *)
THEOREM TypeCorrect == Spec => []TypeOK
<1>1. IInv => TypeOK
  BY DEF IInv
<1> QED BY <1>1, Invariance, PTL

(* However often the process is killed, the class loader gets a whole file *)
(* that is read-only.                                                      *)
THEOREM OnlyWholeFilesAreLoaded == Spec => []LoadsWholeFile
<1>1. IInv => LoadsWholeFile
  BY DEF IInv, FileOK
<1> QED BY <1>1, Invariance, PTL

(* For any number of starts, stops and kills the subscriptions there are   *)
(* are those the watchers need: none is missing but for want of a          *)
(* ConnectivityManager, none is left over but by a failed stop.            *)
THEOREM SubscriptionIsTheWatchers == Spec => []SubscriptionFollowsWatchers
<1>1. IInv => SubscriptionFollowsWatchers
  BY DEF IInv, ObjectOK, SubscriptionFollowsWatchers, WithoutManager
<1> QED BY <1>1, Invariance, PTL

=============================================================================
