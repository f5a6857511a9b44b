---------------------------- MODULE EsploraFetch ----------------------------
(***************************************************************************)
(* The paced, retrying HTTP fetch behind EsploraBlockSource.               *)
(*                                                                         *)
(* Every element of Tasks is one call of fetchData(url:).  The calls share *)
(* one RequestPacer actor and the continuous clock; they interleave at     *)
(* every await: the sleep until the reserved slot, the HTTP request, and   *)
(* the two back-off sleeps.  Task cancellation may arrive at any time.     *)
(*                                                                         *)
(* Durations are whole ticks.  A wait that may end at due[t] ends at most  *)
(* MaxLateness ticks later: a sleeping task is resumed late, an answer     *)
(* takes that long to come.                                                *)
(***************************************************************************)
EXTENDS Naturals, Sequences, FiniteSets

CONSTANTS
    Tasks,            \* calls of fetchData that share the pacer
    MinimumDelay,     \* minimumInterRequestDelay
    MaximumRetries,   \* maximumRetries
    BaseRetryDelay,   \* baseRetryDelay
    RetryAfters,      \* Retry-After values a response may carry (0: no usable header)
    MaxLateness       \* bound: how late a wait may end

ASSUME PacingAssumption ==
    /\ MinimumDelay \in Nat
    /\ MaximumRetries \in Nat
    /\ BaseRetryDelay \in Nat
    /\ RetryAfters \subseteq Nat
    /\ 0 \in RetryAfters
    /\ MaxLateness \in Nat

VARIABLES
    now,                \* ContinuousClock.now
    earliestNextStart,  \* the pacer's only field
    pc,                 \* where each call stands
    attempt,            \* the call's local variable of that name
    due,                \* earliest end of the wait the call is in
    cancelled,          \* Task.isCancelled of the calling task
    outcome,            \* what fetchData returned or threw
    slots,              \* history: every slot handed out, in order
    sent,               \* history: start time of every request, in order
    requests,           \* history: requests the call has sent
    notBefore,          \* history: end of the back-off the server or policy imposed
    failure             \* history: how the call's last request failed, if it was answered

clock == <<now, earliestNextStart>>
history == <<slots, sent, requests, notBefore, failure>>
vars == <<now, earliestNextStart, pc, attempt, due, cancelled, outcome,
          slots, sent, requests, notBefore, failure>>

PCs == {"idle", "slot", "request", "backoffStatus", "backoffNetwork", "done"}
Outcomes == {"none", "data", "notFound", "rateLimited", "invalidResponse",
             "network", "CancellationError"}
Failures == {"none", "status", "transport", "fatal"}

Waiting(t) == pc[t] \notin {"idle", "done"}

-----------------------------------------------------------------------------
(* Pure parts. *)

\* retryDelay(for:attempt:): a usable Retry-After wins over the exponential
\* back-off, whose exponent is capped at 6.
retryDelay(retryAfter, n) ==
    IF retryAfter > 0 THEN retryAfter
    ELSE BaseRetryDelay * <<1, 2, 4, 8, 16, 32, 64>>[IF n < 6 THEN n + 1 ELSE 7]

\* The start RequestPacer.reserveNextSlot computes for a reservation made now.
slotStart == IF now > earliestNextStart THEN now ELSE earliestNextStart

-----------------------------------------------------------------------------
Init ==
    /\ now = 0
    /\ earliestNextStart = 0
    /\ pc = [t \in Tasks |-> "idle"]
    /\ attempt = [t \in Tasks |-> 0]
    /\ due = [t \in Tasks |-> 0]
    /\ cancelled = [t \in Tasks |-> FALSE]
    /\ outcome = [t \in Tasks |-> "none"]
    /\ slots = <<>>
    /\ sent = <<>>
    /\ requests = [t \in Tasks |-> 0]
    /\ notBefore = [t \in Tasks |-> 0]
    /\ failure = [t \in Tasks |-> "none"]

\* Mutant: the slot after a reservation is counted from the present.
reserveFromNow(t) ==
    /\ earliestNextStart' = now + MinimumDelay
    /\ slots' = Append(slots, slotStart)
    /\ due' = [due EXCEPT ![t] = slotStart]
    /\ pc' = [pc EXCEPT ![t] = "slot"]
    /\ UNCHANGED <<now, cancelled, outcome, sent, requests, notBefore, failure>>

\* reserveNextSlot on the pacer actor; the caller then sleeps until the slot.
reserveNextSlot(t) ==
    /\ earliestNextStart' = slotStart + MinimumDelay
    /\ slots' = Append(slots, slotStart)
    /\ due' = [due EXCEPT ![t] = slotStart]
    /\ pc' = [pc EXCEPT ![t] = "slot"]
    /\ UNCHANGED <<now, cancelled, outcome, sent, requests, notBefore, failure>>

\* The call leaves fetchData by return or throw.
Leave(t, result) ==
    /\ pc' = [pc EXCEPT ![t] = "done"]
    /\ outcome' = [outcome EXCEPT ![t] = result]
    /\ due' = [due EXCEPT ![t] = 0]
    /\ notBefore' = [notBefore EXCEPT ![t] = 0]
    /\ UNCHANGED <<clock, attempt, cancelled, slots, sent, requests>>

\* fetchData is called.
Begin(t) ==
    /\ pc[t] = "idle"
    /\ attempt' = [attempt EXCEPT ![t] = 0]
    /\ reserveNextSlot(t)

\* The sleep until the slot ends and the request starts.
SendRequest(t) ==
    /\ pc[t] = "slot"
    /\ now >= due[t]
    /\ ~cancelled[t]
    /\ pc' = [pc EXCEPT ![t] = "request"]
    /\ due' = [due EXCEPT ![t] = now]
    /\ sent' = Append(sent, now)
    /\ requests' = [requests EXCEPT ![t] = @ + 1]
    /\ failure' = [failure EXCEPT ![t] = "none"]
    /\ UNCHANGED <<clock, attempt, cancelled, outcome, slots, notBefore>>

\* A cancelled slot sleep throws CancellationError out of fetchData.
SlotCancelled(t) ==
    /\ pc[t] = "slot"
    /\ cancelled[t]
    /\ Leave(t, "CancellationError")
    /\ UNCHANGED failure

\* An answer that is not retried: 2xx, 404, and every other status or a
\* response that is not HTTP.
FinalAnswer(t) ==
    /\ pc[t] = "request"
    /\ \/ Leave(t, "data") /\ UNCHANGED failure
       \/ Leave(t, "notFound") /\ failure' = [failure EXCEPT ![t] = "fatal"]
       \/ Leave(t, "invalidResponse") /\ failure' = [failure EXCEPT ![t] = "fatal"]

\* Back off for `delay`, in the sleep named by the control state `sleep`.
BackOff(t, sleep, delay) ==
    /\ pc' = [pc EXCEPT ![t] = sleep]
    /\ due' = [due EXCEPT ![t] = now + delay]
    /\ notBefore' = [notBefore EXCEPT ![t] = now + delay]
    /\ UNCHANGED <<clock, attempt, cancelled, outcome, slots, sent, requests>>

\* 429 or 5xx: thrown once the retries are used up, otherwise followed by a
\* back-off sleep inside the do block.
RetryableStatus(t) ==
    /\ pc[t] = "request"
    /\ failure' = [failure EXCEPT ![t] = "status"]
    /\ \/ /\ attempt[t] >= MaximumRetries
          /\ \E result \in {"rateLimited", "invalidResponse"} : Leave(t, result)
       \/ /\ attempt[t] < MaximumRetries
          /\ \E r \in RetryAfters :
                BackOff(t, "backoffStatus", retryDelay(r, attempt[t]))

\* Mutant: a transient transport error is thrown at once.
TransportErrorNoRetry(t) ==
    /\ pc[t] = "request"
    /\ failure' = [failure EXCEPT ![t] = "transport"]
    /\ Leave(t, "network")

\* A transport error isRetryableNetworkError accepts: followed by a back-off
\* sleep in the catch clause while retries are left.
TransportError(t) ==
    /\ pc[t] = "request"
    /\ failure' = [failure EXCEPT ![t] = "transport"]
    /\ \/ attempt[t] >= MaximumRetries /\ Leave(t, "network")
       \/ /\ attempt[t] < MaximumRetries
          /\ BackOff(t, "backoffNetwork", retryDelay(0, attempt[t]))

\* Any other error of the HTTP client, the URLError of a cancelled request
\* among them.
FatalTransportError(t) ==
    /\ pc[t] = "request"
    /\ failure' = [failure EXCEPT ![t] = "fatal"]
    /\ Leave(t, "network")

\* Mutant: the next attempt does not wait for the end of the back-off sleep.
RetryWithoutSleep(t) ==
    /\ pc[t] \in {"backoffStatus", "backoffNetwork"}
    /\ ~cancelled[t]
    /\ attempt' = [attempt EXCEPT ![t] = @ + 1]
    /\ reserveNextSlot(t)

\* A back-off sleep ends: the loop starts over with the next attempt.
Retry(t) ==
    /\ pc[t] \in {"backoffStatus", "backoffNetwork"}
    /\ now >= due[t]
    /\ ~cancelled[t]
    /\ attempt' = [attempt EXCEPT ![t] = @ + 1]
    /\ reserveNextSlot(t)

\* Mutant: a cancelled back-off sleep is started over.
BackoffSleepsAgain(t) ==
    /\ cancelled[t]
    /\ pc[t] \in {"backoffStatus", "backoffNetwork"}
    /\ UNCHANGED vars

\* A cancelled back-off sleep.  The one in the do block is caught by its own
\* generic catch clause, is not retryable, and surfaces as a network error;
\* the one in the catch clause propagates as CancellationError.
BackoffCancelled(t) ==
    /\ cancelled[t]
    /\ \/ pc[t] = "backoffStatus" /\ Leave(t, "network")
       \/ pc[t] = "backoffNetwork" /\ Leave(t, "CancellationError")
    /\ UNCHANGED failure

\* The calling task is cancelled.
Cancel(t) ==
    /\ pc[t] # "done"
    /\ ~cancelled[t]
    /\ cancelled' = [cancelled EXCEPT ![t] = TRUE]
    /\ UNCHANGED <<clock, pc, attempt, due, outcome, history>>

\* Time passes while a call waits and no wait is overdue.
Tick ==
    /\ \E t \in Tasks : Waiting(t)
    /\ \A t \in Tasks : Waiting(t) => now < due[t] + MaxLateness
    /\ now' = now + 1
    /\ UNCHANGED <<earliestNextStart, pc, attempt, due, cancelled, outcome, history>>

\* Every call has left fetchData.
Finished ==
    /\ \A t \in Tasks : pc[t] = "done"
    /\ UNCHANGED vars

Step(t) ==
    \/ SendRequest(t) \/ SlotCancelled(t) \/ FinalAnswer(t) \/ RetryableStatus(t)
    \/ TransportError(t) \/ FatalTransportError(t) \/ Retry(t) \/ BackoffCancelled(t)

Next ==
    \/ \E t \in Tasks : Begin(t) \/ Step(t) \/ Cancel(t)
    \/ Tick
    \/ Finished

Spec == Init /\ [][Next]_vars

\* A sleeping task is resumed, a request is answered or times out, and time
\* passes.  Nothing obliges a caller to call or to cancel.
Fairness == WF_vars(Tick) /\ \A t \in Tasks : WF_vars(Step(t))

FairSpec == Spec /\ Fairness

-----------------------------------------------------------------------------
TypeOK ==
    /\ now \in Nat
    /\ earliestNextStart \in Nat
    /\ pc \in [Tasks -> PCs]
    /\ attempt \in [Tasks -> Nat]
    /\ due \in [Tasks -> Nat]
    /\ cancelled \in [Tasks -> BOOLEAN]
    /\ outcome \in [Tasks -> Outcomes]
    /\ slots \in Seq(Nat)
    /\ sent \in Seq(Nat)
    /\ requests \in [Tasks -> Nat]
    /\ notBefore \in [Tasks -> Nat]
    /\ failure \in [Tasks -> Failures]

\* "N concurrent callers each get a unique slot spaced minimumDelay apart"
\* (reserveNextSlot): whatever the interleaving of calls, retries and sleeps,
\* any two slots the pacer hands out are at least MinimumDelay apart.
SlotsSpaced ==
    \A i, j \in 1 .. Len(slots) : i < j => slots[j] >= slots[i] + MinimumDelay

\* minimumInterRequestDelay is "minimum time between the start of consecutive
\* requests".  A sleep that wakes late moves its request towards the next one,
\* but the lateness never adds up: any run of consecutive requests, over all
\* calls and retries, is spread as the slots are, less one lateness.
BurstBounded ==
    \A i, j \in 1 .. Len(sent) :
        i < j => sent[j] - sent[i] + MaxLateness >= (j - i) * MinimumDelay

\* fetchData never sends more than maximumRetries + 1 requests for a call, and
\* the attempt counter is in step with what has been sent.
RetryBudget ==
    \A t \in Tasks :
        /\ requests[t] <= MaximumRetries + 1
        /\ pc[t] = "request" => requests[t] = attempt[t] + 1

\* No request starts before the back-off of the failure before it is over:
\* the Retry-After of the response, or the exponential delay.
BackoffHonoured ==
    \A t \in Tasks :
        pc[t] = "request" => due[t] >= notBefore[t]

\* rateLimited "surfaces only after all built-in retries have been exhausted",
\* and so does every other transient failure of a call nobody cancelled.
TransientOnlyAfterAllRetries ==
    \A t \in Tasks :
        outcome[t] # "none" /\ failure[t] \in {"status", "transport"} /\ ~cancelled[t]
            => requests[t] = MaximumRetries + 1

\* Every call returns or throws: no interleaving of waiting for slots, retries
\* and cancellation leaves a call of fetchData hanging.
EveryFetchEnds ==
    \A t \in Tasks : Waiting(t) ~> pc[t] = "done"

=============================================================================
