--------------------------- MODULE MCKernelHandles ---------------------------
(***************************************************************************)
(* KernelHandles for TLC.  One scope has callback objects, two contexts    *)
(* and three attachments, the other two logging connections and a daemon:  *)
(* the two share no state, so their product is not explored.               *)
(***************************************************************************)
EXTENDS KernelHandles

MCScopes ==
    {[refs |-> {"n1", "v1"}, sets |-> 3, events |-> 2, lines |-> 0, starts |-> 0],
     [refs |-> {"l1", "l2"}, sets |-> 0, events |-> 0, lines |-> 4, starts |-> 2]}

=============================================================================
