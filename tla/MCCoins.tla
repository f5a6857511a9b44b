------------------------------ MODULE MCCoins ------------------------------
(* A fork with coins that differ between the branches: r is created by the  *)
(* same transaction at height 2 on one branch and at height 3 on the other, *)
(* t is created and spent inside one block, and one block spends twice.     *)
EXTENDS Coins

MCBlocks == {"g", "c1", "a2", "a3", "b2", "b3"}
MCOutpoints == {"p", "q", "r", "t"}
MCParent == [b \in MCBlocks |->
    CASE b = "g" -> "null" [] b = "c1" -> "g" [] b \in {"a2", "b2"} -> "c1"
      [] b = "a3" -> "a2" [] b = "b3" -> "b2"]
MCHeight == [b \in MCBlocks |->
    CASE b = "g" -> 0 [] b = "c1" -> 1 [] b \in {"a2", "b2"} -> 2 [] OTHER -> 3]
MCCreates == [b \in MCBlocks |->
    CASE b = "c1" -> {"p", "q"} [] b = "a2" -> {"r"} [] b = "b2" -> {"t"}
      [] b = "b3" -> {"r"} [] OTHER -> {}]
MCSpends == [b \in MCBlocks |->
    CASE b = "a2" -> {"p"} [] b = "a3" -> {"p"} [] b = "b2" -> {"t"}
      [] b = "b3" -> {"p"} [] OTHER -> {}]
MCCoinbases == {"q"}

\* The reference: fold the blocks of the chain, from the genesis block on.
After[b \in MCBlocks] ==
    LET u == IF b = "g" THEN [o \in MCOutpoints |-> 0] ELSE After[MCParent[b]]
    IN  [o \in MCOutpoints |-> IF o \in MCSpends[b] THEN 0
                               ELSE IF o \in MCCreates[b] THEN MCHeight[b] ELSE u[o]]
MCUtxo == [b \in MCBlocks \cup {"null"} |->
    IF b = "null" THEN [o \in MCOutpoints |-> 0] ELSE After[b]]

=============================================================================
