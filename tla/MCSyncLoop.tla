----------------------------- MODULE MCSyncLoop -----------------------------
(***************************************************************************)
(* SyncLoop for TLC, over the block tree                                   *)
(*                                                                         *)
(*        g -- a1 -- a2 -- a3                                              *)
(*              \                                                          *)
(*               b2 -- b3                                                  *)
(***************************************************************************)
EXTENDS SyncLoop, TLC

Tree == {"g", "a1", "a2", "a3", "b2", "b3"}

TreeParent ==
    [b \in Tree \ {"g"} |->
        CASE b = "a1" -> "g" [] b = "a2" -> "a1" [] b = "a3" -> "a2"
          [] b = "b2" -> "a1" [] b = "b3" -> "b2"]

TreeHeight ==
    [b \in Tree |->
        CASE b = "g" -> 0 [] b = "a1" -> 1 [] b \in {"a2", "b2"} -> 2
          [] b \in {"a3", "b3"} -> 3]

Symmetry == Permutations(Runs)

=============================================================================
