-------------------------- MODULE MCListInterfaces --------------------------
(***************************************************************************)
(* list_interfaces of lib.rs on a small instance: on a target it is one of *)
(* two functions, that of list_unix.rs or that of list_win.rs. What is not *)
(* compiled in does not move.                                              *)
(***************************************************************************)
EXTENDS MCListUnix, ListWindows

VARIABLE target   \* what the library is compiled for

MCInit ==
  /\ \/ target = "unix" /\ adapters = <<>>
     \/ target = "windows" /\ links = CHOOSE config \in InitialLinks : TRUE
  /\ Init
  /\ WindowsInit

OnUnix == target = "unix" /\ Next /\ UNCHANGED <<target, windowsVars>>

OnWindows(Step) == target = "windows" /\ Step /\ UNCHANGED <<target, vars>>

MCNext == OnUnix \/ OnWindows(WindowsNext)

MCSpec ==
  /\ MCInit
  /\ [][MCNext]_<<target, vars, windowsVars>>
  /\ WF_<<target, vars, windowsVars>>(OnWindows(Listing))

(* list_win.rs comes to an end however often adapters come and go.         *)
WindowsListingEnds == target = "windows" => ListingEnds

=============================================================================
