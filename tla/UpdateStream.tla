---------------------------- MODULE UpdateStream ----------------------------
(***************************************************************************)
(* What BlockchainSync.Updates promises the consumer of one sync run:      *)
(*                                                                         *)
(*   one preparing, then syncing updates, then one of finished and failed, *)
(*   or, when the run was cancelled, no final update; nothing after that.  *)
(***************************************************************************)
EXTENDS Naturals

CONSTANTS Runs

VARIABLES
    phase,       \* state of the last update, or how the sequence ended
    height,      \* height of the tip of the last update
    count,       \* number of updates, so that none passes as a stutter
    requested    \* cancellation has been asked for

streamVars == <<phase, height, count, requested>>

\* An update is added to the sequence of r.
Update(r) == count' = [count EXCEPT ![r] = @ + 1]

Live == {"preparing", "syncing"}

Init ==
    /\ phase = [r \in Runs |-> "new"]
    /\ height = [r \in Runs |-> 0]
    /\ count = [r \in Runs |-> 0]
    /\ requested = [r \in Runs |-> FALSE]

Prepare(r) ==
    /\ phase[r] = "new"
    /\ phase' = [phase EXCEPT ![r] = "preparing"]
    /\ Update(r)
    /\ height'[r] \in Nat
    /\ height' = [height EXCEPT ![r] = height'[r]]
    /\ UNCHANGED requested

Advance(r) ==
    /\ phase[r] \in Live
    /\ phase' = [phase EXCEPT ![r] = "syncing"]
    /\ Update(r)
    /\ height'[r] \in Nat
    /\ height' = [height EXCEPT ![r] = height'[r]]
    /\ UNCHANGED requested

\* The end of the sequence releases the producer, which cancels its task.
Conclude(r) ==
    /\ phase[r] \in Live
    /\ \E p \in {"finished", "failed"} : phase' = [phase EXCEPT ![r] = p]
    /\ Update(r)
    /\ requested' = [requested EXCEPT ![r] = TRUE]
    /\ UNCHANGED height

EndSilently(r) ==
    /\ phase[r] \in Live \cup {"new"}
    /\ requested[r]
    /\ phase' = [phase EXCEPT ![r] = "cancelled"]
    /\ UNCHANGED <<height, count, requested>>

\* Cancellation reaches one run, or with shutdown() several at once.
RequestCancel(rs) ==
    /\ requested' = [r \in Runs |-> requested[r] \/ r \in rs]
    /\ UNCHANGED <<phase, height, count>>

Next ==
    \/ \E r \in Runs : Prepare(r) \/ Advance(r) \/ Conclude(r) \/ EndSilently(r)
    \/ \E rs \in SUBSET Runs : RequestCancel(rs)

Spec == Init /\ [][Next]_streamVars

=============================================================================
