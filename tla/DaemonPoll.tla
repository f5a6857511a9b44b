----------------------------- MODULE DaemonPoll -----------------------------
(***************************************************************************)
(* Daemon.poll, the retry loop of both bootstrap functions, against a      *)
(* server that comes up at some time, or never.  An attempt that starts    *)
(* while the server is up succeeds; every other attempt fails, and so may  *)
(* one whose task has been cancelled.                                      *)
(*                                                                         *)
(* Times are whole ticks after the call; a tick stands for 250 ms.         *)
(***************************************************************************)
EXTENDS Integers

CONSTANTS
    Timeout,         \* the argument
    InitialDelay,    \* 250 ms
    MaxDelay,        \* 2 s
    AttemptBound,    \* bound: an attempt takes at most this long
    MaxLateness      \* bound: a sleep ends at most this late

ASSUME PollAssumption ==
    /\ Timeout \in Nat
    /\ InitialDelay \in Nat \ {0}
    /\ MaxDelay \in Nat /\ InitialDelay <= MaxDelay
    /\ AttemptBound \in Nat
    /\ MaxLateness \in Nat

VARIABLES
    now,
    pc,          \* loop, attempt, sleep, done
    delay,       \* local variable of poll
    lastError,   \* local variable of poll: whether it is set
    since,       \* start of the attempt, or planned end of the sleep
    hit,         \* the running attempt reaches the server
    upAt,        \* time the server came up, -1 before
    cancelAt,    \* time the task was cancelled, -1 before
    outcome

vars == <<now, pc, delay, lastError, since, hit, upAt, cancelAt, outcome>>

Cancelled == cancelAt >= 0

Init ==
    /\ now = 0
    /\ pc = "loop"
    /\ delay = InitialDelay
    /\ lastError = FALSE
    /\ since = 0
    /\ hit = FALSE
    /\ upAt = -1
    /\ cancelAt = -1
    /\ outcome = "none"

Leave(result) ==
    /\ pc' = "done"
    /\ outcome' = result
    /\ UNCHANGED <<now, delay, lastError, since, hit, upAt, cancelAt>>

\* Mutant: the loop does not check for cancellation.
LoopIgnoresCancel ==
    /\ pc = "loop"
    /\ \/ now >= Timeout /\ Leave(IF lastError THEN "lastError" ELSE "timedOut")
       \/ /\ now < Timeout
          /\ pc' = "attempt"
          /\ since' = now
          /\ hit' = (upAt >= 0)
          /\ UNCHANGED <<now, delay, lastError, upAt, cancelAt, outcome>>

\* The loop condition, checkCancellation, and the start of an attempt.
Loop ==
    /\ pc = "loop"
    /\ \/ now >= Timeout /\ Leave(IF lastError THEN "lastError" ELSE "timedOut")
       \/ now < Timeout /\ Cancelled /\ Leave("CancellationError")
       \/ /\ now < Timeout /\ ~Cancelled
          /\ pc' = "attempt"
          /\ since' = now
          /\ hit' = (upAt >= 0)
          /\ UNCHANGED <<now, delay, lastError, upAt, cancelAt, outcome>>

AttemptSucceeds ==
    /\ pc = "attempt"
    /\ hit
    /\ Leave("ok")

\* The catch clause, up to the sleep.
AttemptFails ==
    /\ pc = "attempt"
    /\ ~hit \/ Cancelled
    /\ pc' = "sleep"
    /\ lastError' = TRUE
    /\ since' = now + delay
    /\ UNCHANGED <<now, delay, hit, upAt, cancelAt, outcome>>

\* The sleep ends, early when the task is cancelled, and the delay doubles.
Wake ==
    /\ pc = "sleep"
    /\ now >= since \/ Cancelled
    /\ pc' = "loop"
    /\ delay' = IF 2 * delay < MaxDelay THEN 2 * delay ELSE MaxDelay
    /\ UNCHANGED <<now, lastError, since, hit, upAt, cancelAt, outcome>>

ServerUp ==
    /\ pc # "done"
    /\ upAt = -1
    /\ upAt' = now
    /\ UNCHANGED <<now, pc, delay, lastError, since, hit, cancelAt, outcome>>

Cancel ==
    /\ pc # "done"
    /\ ~Cancelled
    /\ cancelAt' = now
    /\ UNCHANGED <<now, pc, delay, lastError, since, hit, upAt, outcome>>

\* Time passes in an attempt and in a sleep.  A cancelled sleep takes no time.
Tick ==
    /\ \/ pc = "attempt" /\ now < since + AttemptBound
       \/ pc = "sleep" /\ now < since + MaxLateness /\ ~Cancelled
    /\ now' = now + 1
    /\ UNCHANGED <<pc, delay, lastError, since, hit, upAt, cancelAt, outcome>>

Done == pc = "done" /\ UNCHANGED vars

Next ==
    \/ Loop \/ AttemptSucceeds \/ AttemptFails \/ Wake
    \/ ServerUp \/ Cancel \/ Tick \/ Done

Spec == Init /\ [][Next]_vars

-----------------------------------------------------------------------------
TypeOK ==
    /\ now \in Nat
    /\ pc \in {"loop", "attempt", "sleep", "done"}
    /\ delay \in InitialDelay .. MaxDelay
    /\ lastError \in BOOLEAN
    /\ since \in Nat
    /\ hit \in BOOLEAN
    /\ upAt \in Nat \cup {-1}
    /\ cancelAt \in Nat \cup {-1}
    /\ outcome \in {"none", "ok", "lastError", "timedOut", "CancellationError"}

\* poll overruns its timeout by no more than one attempt and one full sleep.
EndsInTime ==
    now <= Timeout + AttemptBound + MaxDelay + MaxLateness

\* A server that comes up early enough is found: an uncancelled poll times out
\* only if there was no time left for the attempt in progress, one full sleep
\* and another attempt (Daemon.bootstrap: "polls until the RPC server is ready").
ServerFound ==
    outcome \in {"lastError", "timedOut"} /\ ~Cancelled /\ upAt >= 0 =>
        upAt + AttemptBound + MaxDelay + MaxLateness >= Timeout

\* "CancellationError if the task is cancelled" (Daemon.bootstrap): a cancelled
\* poll throws something else only if the deadline passed during the attempt
\* that was running.
CancellationSurfaces ==
    outcome \in {"lastError", "timedOut"} /\ Cancelled =>
        cancelAt + AttemptBound >= Timeout

=============================================================================
