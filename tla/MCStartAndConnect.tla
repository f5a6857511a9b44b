-------------------------- MODULE MCStartAndConnect --------------------------
(***************************************************************************)
(* An instance of StartAndConnect: three builder methods on regtest, one   *)
(* on the other networks.                                                  *)
(***************************************************************************)
EXTENDS StartAndConnect

CallsByNetwork == [n \in Networks |-> IF n = "Regtest" THEN 3 ELSE 1]

=============================================================================
