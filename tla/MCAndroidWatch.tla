--------------------------- MODULE MCAndroidWatch ---------------------------
(* AndroidWatch on a small instance. The callback watchers, the queued     *)
(* ones, and the configurations other than the empty one are each          *)
(* interchangeable for the safety properties.                              *)
EXTENDS AndroidWatch, TLC

Symmetry ==
  Permutations(CallbackWatchers) \cup Permutations(QueuedWatchers)
    \cup Permutations(Lists \ {EmptyList})

=============================================================================
