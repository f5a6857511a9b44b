---------------------------- MODULE MCCheckQueue ----------------------------
(***************************************************************************)
(* CheckQueue for TLC: three workers, two blocks.  Both failing checks of  *)
(* the first block may fail in different threads, so that one of them      *)
(* keeps its result while the next block is checked.                       *)
(***************************************************************************)
EXTENDS CheckQueue

MCChecks == {"a1", "a2", "a3", "b1", "b2"}
MCBlockOf == [c \in MCChecks |-> IF c \in {"a1", "a2", "a3"} THEN 1 ELSE 2]

=============================================================================
