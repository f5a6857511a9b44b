------------------------- MODULE EsploraFetchProofs -------------------------
(***************************************************************************)
(* TLAPS proofs about the paced fetch, for any number of calls, any delays *)
(* and any bound on lateness.                                              *)
(***************************************************************************)
EXTENDS EsploraFetch, FiniteSetTheorems, WellFoundedInduction, TLAPS

\* Every slot handed out so far lies at least MinimumDelay before the slot
\* the pacer will hand out next: the strengthening that makes SlotsSpaced
\* inductive.
SlotsBeforeNext ==
    \A i \in 1 .. Len(slots) : slots[i] + MinimumDelay <= earliestNextStart

\* How many requests a call has sent, in terms of its attempt counter, at
\* every control state: the strengthening that makes RetryBudget inductive.
RequestsCounted ==
    \A t \in Tasks :
        /\ attempt[t] <= MaximumRetries
        /\ pc[t] = "idle" => requests[t] = 0
        /\ pc[t] = "slot" => requests[t] = attempt[t]
        /\ pc[t] = "request" => requests[t] = attempt[t] + 1
        /\ pc[t] \in {"backoffStatus", "backoffNetwork"} =>
              requests[t] = attempt[t] + 1 /\ attempt[t] < MaximumRetries
        /\ pc[t] = "done" => requests[t] <= attempt[t] + 1

\* The wait a call is in never ends before its back-off: the strengthening
\* that makes BackoffHonoured inductive.
WaitsCoverBackoff ==
    \A t \in Tasks :
        /\ pc[t] = "idle" => notBefore[t] = 0
        /\ pc[t] \in {"slot", "request", "backoffStatus", "backoffNetwork"} =>
              due[t] >= notBefore[t]

IInv ==
    /\ TypeOK
    /\ SlotsSpaced
    /\ SlotsBeforeNext
    /\ RequestsCounted
    /\ WaitsCoverBackoff

\* retryDelay(for:attempt:) is a duration whatever header and attempt it is
\* given: the capped exponent never leaves its table.
LEMMA RetryDelayType ==
    ASSUME NEW r \in Nat, NEW n \in Nat
    PROVE  retryDelay(r, n) \in Nat
<1>1. CASE n < 6
    <2>1. n \in {0, 1, 2, 3, 4, 5}  BY <1>1
    <2> QED  BY <2>1, PacingAssumption DEF retryDelay
<1>2. CASE ~(n < 6)
    BY <1>2, PacingAssumption DEF retryDelay
<1> QED  BY <1>1, <1>2


\* A reservation keeps the slots spaced and before the next one: the step
\* that both the first attempt and every retry of fetchData take.
LEMMA ReserveKeepsSpacing ==
    ASSUME TypeOK, SlotsSpaced, SlotsBeforeNext, NEW t \in Tasks, reserveNextSlot(t)
    PROVE  /\ SlotsSpaced' /\ SlotsBeforeNext'
           /\ slots' \in Seq(Nat) /\ earliestNextStart' \in Nat
           /\ slotStart \in Nat /\ slotStart >= now
<1>1. slotStart \in Nat /\ slotStart >= now /\ slotStart >= earliestNextStart
    BY DEF TypeOK, slotStart
<1>2. slots' = Append(slots, slotStart) /\ earliestNextStart' = slotStart + MinimumDelay
    BY DEF reserveNextSlot
<1>3. slots' \in Seq(Nat) /\ earliestNextStart' \in Nat
    BY <1>1, <1>2, PacingAssumption DEF TypeOK
<1>4. /\ Len(slots') = Len(slots) + 1
      /\ slots'[Len(slots) + 1] = slotStart
      /\ \A i \in 1 .. Len(slots) : slots'[i] = slots[i]
      /\ \A i \in 1 .. Len(slots) : slots[i] \in Nat
      /\ Len(slots) \in Nat
    BY <1>1, <1>2 DEF TypeOK
<1>5. ASSUME NEW i \in 1 .. Len(slots')
      PROVE  slots'[i] + MinimumDelay <= earliestNextStart'
    <2>1. CASE i \in 1 .. Len(slots)
        BY SMTT(60), <1>1, <1>2, <1>4, <2>1, PacingAssumption DEF SlotsBeforeNext, TypeOK
    <2>2. CASE i = Len(slots) + 1
        BY <1>1, <1>2, <1>4, <2>2, PacingAssumption
    <2> QED  BY <1>4, <2>1, <2>2
<1>6. ASSUME NEW i \in 1 .. Len(slots'), NEW j \in 1 .. Len(slots'), i < j
      PROVE  slots'[j] >= slots'[i] + MinimumDelay
    <2>1. i \in 1 .. Len(slots)  BY <1>4, <1>6
    <2>2. CASE j \in 1 .. Len(slots)
        BY <1>4, <1>6, <2>1, <2>2 DEF SlotsSpaced
    <2>3. CASE j = Len(slots) + 1
        <3>1. slots[i] + MinimumDelay <= earliestNextStart
            BY <2>1 DEF SlotsBeforeNext
        <3>2. slots'[i] = slots[i] /\ slots'[j] = slotStart /\ slots[i] \in Nat
            BY <1>4, <2>1, <2>3
        <3> QED  BY SMTT(60), <1>1, <3>1, <3>2, PacingAssumption DEF TypeOK
    <2> QED  BY <1>4, <2>2, <2>3
<1>7. SlotsBeforeNext' /\ SlotsSpaced'
    BY <1>5, <1>6 DEF SlotsBeforeNext, SlotsSpaced
<1> QED  BY <1>1, <1>3, <1>7

\* The initial state satisfies the inductive invariant.
LEMMA InitIInv == Init => IInv
<1> SUFFICES ASSUME Init PROVE IInv  OBVIOUS
<1>1. TypeOK
    BY PacingAssumption DEF Init, TypeOK, PCs, Outcomes, Failures
<1>2. SlotsSpaced /\ SlotsBeforeNext
    BY DEF Init, SlotsSpaced, SlotsBeforeNext
<1>3. RequestsCounted /\ WaitsCoverBackoff
    BY PacingAssumption DEF Init, RequestsCounted, WaitsCoverBackoff
<1> QED  BY <1>1, <1>2, <1>3 DEF IInv

\* A call that leaves fetchData, with or without recording a failure, keeps
\* the inductive invariant.
LEMMA LeaveKeepsIInv ==
    ASSUME IInv, NEW t \in Tasks, NEW result \in Outcomes, Leave(t, result),
           pc[t] # "idle", failure' \in [Tasks -> Failures]
    PROVE  IInv'
<1>1. TypeOK'
    BY Zenon DEF IInv, TypeOK, Leave, PCs, clock
<1>2. SlotsSpaced' /\ SlotsBeforeNext'
    BY DEF IInv, SlotsSpaced, SlotsBeforeNext, Leave, clock
<1>3. RequestsCounted'
    BY DEF IInv, TypeOK, RequestsCounted, Leave, PCs
<1>4. WaitsCoverBackoff'
    BY DEF IInv, TypeOK, WaitsCoverBackoff, Leave, PCs
<1> QED  BY <1>1, <1>2, <1>3, <1>4 DEF IInv

\* A back-off that starts while retries are left keeps the inductive invariant.
LEMMA BackOffKeepsIInv ==
    ASSUME IInv, NEW t \in Tasks, NEW sleep \in {"backoffStatus", "backoffNetwork"},
           NEW delay \in Nat, BackOff(t, sleep, delay), pc[t] = "request",
           attempt[t] < MaximumRetries, failure' \in [Tasks -> Failures]
    PROVE  IInv'
<1>1. TypeOK'
    <2>1. now + delay \in Nat /\ sleep \in PCs  BY DEF IInv, TypeOK, PCs
    <2>2. pc' \in [Tasks -> PCs]  BY <2>1 DEF IInv, TypeOK, BackOff
    <2>3. due' \in [Tasks -> Nat] /\ notBefore' \in [Tasks -> Nat]
        BY <2>1 DEF IInv, TypeOK, BackOff
    <2> QED  BY <2>2, <2>3 DEF IInv, TypeOK, BackOff, clock
<1>2. SlotsSpaced' /\ SlotsBeforeNext'
    BY DEF IInv, SlotsSpaced, SlotsBeforeNext, BackOff, clock
<1>3. RequestsCounted'
    BY DEF IInv, TypeOK, RequestsCounted, BackOff, PCs
<1>4. WaitsCoverBackoff'
    BY DEF IInv, TypeOK, WaitsCoverBackoff, BackOff, PCs
<1> QED  BY <1>1, <1>2, <1>3, <1>4 DEF IInv

\* Every step of the fetch loop keeps the inductive invariant.
LEMMA NextIInv == IInv /\ [Next]_vars => IInv'
<1> SUFFICES ASSUME IInv, [Next]_vars PROVE IInv'  OBVIOUS
<1> USE DEF IInv
<1>1. ASSUME NEW t \in Tasks, Begin(t) PROVE IInv'
    <2>1. SlotsSpaced' /\ SlotsBeforeNext' /\ slotStart \in Nat /\ slotStart >= now
          /\ slots' \in Seq(Nat) /\ earliestNextStart' \in Nat
        BY <1>1, ReserveKeepsSpacing DEF Begin
    <2>2. TypeOK'  BY <1>1, <2>1 DEF Begin, reserveNextSlot, TypeOK, PCs
    <2>3. RequestsCounted'
        BY <1>1, PacingAssumption DEF Begin, reserveNextSlot, TypeOK, RequestsCounted, PCs
    <2>4. WaitsCoverBackoff'
        BY <1>1, <2>1 DEF Begin, reserveNextSlot, TypeOK, WaitsCoverBackoff, PCs
    <2> QED  BY <2>1, <2>2, <2>3, <2>4
<1>2. ASSUME NEW t \in Tasks, SendRequest(t) PROVE IInv'
    <2>1. TypeOK'  BY <1>2 DEF SendRequest, TypeOK, PCs, Failures, clock
    <2>2. SlotsSpaced' /\ SlotsBeforeNext'
        BY <1>2 DEF SendRequest, SlotsSpaced, SlotsBeforeNext, clock
    <2>3. RequestsCounted'
        BY <1>2 DEF SendRequest, TypeOK, RequestsCounted, PCs
    <2>4. WaitsCoverBackoff'
        BY <1>2 DEF SendRequest, TypeOK, WaitsCoverBackoff, PCs
    <2> QED  BY <2>1, <2>2, <2>3, <2>4
<1>3. ASSUME NEW t \in Tasks, SlotCancelled(t) PROVE IInv'
    BY <1>3, LeaveKeepsIInv, Zenon DEF SlotCancelled, Outcomes, TypeOK
<1>4. ASSUME NEW t \in Tasks, FinalAnswer(t) PROVE IInv'
    BY <1>4, LeaveKeepsIInv, Zenon DEF FinalAnswer, Outcomes, Failures, TypeOK
<1>5. ASSUME NEW t \in Tasks, RetryableStatus(t) PROVE IInv'
    <2>1. failure' \in [Tasks -> Failures] /\ pc[t] = "request"
        BY <1>5 DEF RetryableStatus, TypeOK, Failures
    <2>2. CASE \E result \in {"rateLimited", "invalidResponse"} : Leave(t, result)
        BY <2>1, <2>2, LeaveKeepsIInv DEF Outcomes
    <2>3. CASE /\ attempt[t] < MaximumRetries
               /\ \E r \in RetryAfters :
                     BackOff(t, "backoffStatus", retryDelay(r, attempt[t]))
        <3>1. PICK r \in RetryAfters : BackOff(t, "backoffStatus", retryDelay(r, attempt[t]))
            BY <2>3
        <3>2. retryDelay(r, attempt[t]) \in Nat
            BY RetryDelayType, PacingAssumption, Zenon DEF TypeOK
        <3> QED  BY <2>1, <2>3, <3>1, <3>2, BackOffKeepsIInv
    <2> QED  BY <1>5, <2>2, <2>3 DEF RetryableStatus
<1>6. ASSUME NEW t \in Tasks, TransportError(t) PROVE IInv'
    <2>1. failure' \in [Tasks -> Failures] /\ pc[t] = "request"
        BY <1>6 DEF TransportError, TypeOK, Failures
    <2>2. CASE Leave(t, "network")
        BY <2>1, <2>2, LeaveKeepsIInv DEF Outcomes
    <2>3. CASE /\ attempt[t] < MaximumRetries
               /\ BackOff(t, "backoffNetwork", retryDelay(0, attempt[t]))
        <3>1. retryDelay(0, attempt[t]) \in Nat
            BY RetryDelayType DEF TypeOK
        <3> QED  BY <2>1, <2>3, <3>1, BackOffKeepsIInv
    <2> QED  BY <1>6, <2>2, <2>3 DEF TransportError
<1>7. ASSUME NEW t \in Tasks, FatalTransportError(t) PROVE IInv'
    BY <1>7, LeaveKeepsIInv, Zenon DEF FatalTransportError, Outcomes, Failures, TypeOK
<1>8. ASSUME NEW t \in Tasks, Retry(t) PROVE IInv'
    <2>1. SlotsSpaced' /\ SlotsBeforeNext' /\ slotStart \in Nat /\ slotStart >= now
          /\ slots' \in Seq(Nat) /\ earliestNextStart' \in Nat
        BY <1>8, ReserveKeepsSpacing DEF Retry
    <2>2. TypeOK'  BY <1>8, <2>1 DEF Retry, reserveNextSlot, TypeOK, PCs
    <2>3. RequestsCounted'
        BY <1>8, PacingAssumption DEF Retry, reserveNextSlot, TypeOK, RequestsCounted, PCs
    <2>4. WaitsCoverBackoff'
        BY <1>8, <2>1 DEF Retry, reserveNextSlot, TypeOK, WaitsCoverBackoff, PCs
    <2> QED  BY <2>1, <2>2, <2>3, <2>4
<1>9. ASSUME NEW t \in Tasks, BackoffCancelled(t) PROVE IInv'
    BY <1>9, LeaveKeepsIInv, Zenon DEF BackoffCancelled, Outcomes, TypeOK
<1>10. ASSUME NEW t \in Tasks, Cancel(t) PROVE IInv'
    BY <1>10 DEF Cancel, TypeOK, SlotsSpaced, SlotsBeforeNext, RequestsCounted,
                 WaitsCoverBackoff, clock, history
<1>11. CASE Tick
    BY <1>11 DEF Tick, TypeOK, SlotsSpaced, SlotsBeforeNext, RequestsCounted,
                 WaitsCoverBackoff, history
<1>12. CASE UNCHANGED vars
    BY <1>12 DEF vars, TypeOK, SlotsSpaced, SlotsBeforeNext, RequestsCounted,
                 WaitsCoverBackoff
<1> QED
    BY <1>1, <1>2, <1>3, <1>4, <1>5, <1>6, <1>7, <1>8, <1>9, <1>10, <1>11, <1>12
    DEF Next, Step, Finished

\* The inductive invariant is an invariant of the fetch loop.
THEOREM IInvInvariant == Spec => []IInv
    BY InitIInv, NextIInv, PTL DEF Spec

\* The variables of the fetch loop keep their types.
THEOREM TypeCorrect == Spec => []TypeOK
<1>1. IInv => TypeOK  BY DEF IInv
<1> QED  BY <1>1, IInvInvariant, PTL

\* RequestPacer: however many calls share the pacer and however they
\* interleave, any two slots it hands out are MinimumDelay apart.
THEOREM PacerSpacesSlots == Spec => []SlotsSpaced
<1>1. IInv => SlotsSpaced  BY DEF IInv
<1> QED  BY <1>1, IInvInvariant, PTL

\* fetchData never sends more than maximumRetries + 1 requests for a call.
THEOREM RetriesBounded == Spec => []RetryBudget
<1>1. ASSUME IInv, NEW t \in Tasks
      PROVE  /\ requests[t] <= MaximumRetries + 1
             /\ pc[t] = "request" => requests[t] = attempt[t] + 1
    <2>1. /\ pc[t] \in PCs /\ requests[t] \in Nat /\ attempt[t] \in Nat
          /\ MaximumRetries \in Nat
        BY <1>1, PacingAssumption DEF IInv, TypeOK
    <2>2. requests[t] <= attempt[t] + 1
        BY <1>1, <2>1 DEF IInv, RequestsCounted, PCs
    <2> QED  BY <1>1, <2>1, <2>2 DEF IInv, RequestsCounted
<1>2. IInv => RetryBudget  BY <1>1 DEF RetryBudget
<1> QED  BY <1>2, IInvInvariant, PTL

\* No request of fetchData starts before the back-off the server asked for,
\* or the exponential back-off, is over.
THEOREM BackoffsHonoured == Spec => []BackoffHonoured
<1>1. IInv => BackoffHonoured
    BY DEF IInv, WaitsCoverBackoff, BackoffHonoured
<1> QED  BY <1>1, IInvInvariant, PTL

-----------------------------------------------------------------------------
(* A transient failure surfaces only after all retries. *)

\* A call has an outcome only when it is over, and no failure to its name
\* while a request is under way.
FailuresTracked ==
    \A t \in Tasks :
        /\ outcome[t] # "none" => pc[t] = "done"
        /\ pc[t] = "request" => failure[t] = "none"

TransientInv == FailuresTracked /\ TransientOnlyAfterAllRetries

\* A call leaves fetchData with a transient failure only when it was cancelled
\* or has no retries left.
LEMMA LeaveKeepsTransientInv ==
    ASSUME IInv, TransientInv, NEW t \in Tasks, NEW result \in Outcomes,
           Leave(t, result), NEW f \in Failures, failure' = [failure EXCEPT ![t] = f],
           f \in {"status", "transport"} /\ ~cancelled[t] =>
               requests[t] = MaximumRetries + 1
    PROVE  TransientInv'
<1>1. /\ pc' = [pc EXCEPT ![t] = "done"] /\ outcome' = [outcome EXCEPT ![t] = result]
      /\ UNCHANGED <<cancelled, requests>>
      /\ failure \in [Tasks -> Failures] /\ outcome \in [Tasks -> Outcomes]
      /\ pc \in [Tasks -> PCs]
    BY DEF Leave, IInv, TypeOK
<1>2. FailuresTracked'
    BY <1>1 DEF TransientInv, FailuresTracked
<1>3. TransientOnlyAfterAllRetries'
    BY <1>1 DEF TransientInv, TransientOnlyAfterAllRetries
<1> QED  BY <1>2, <1>3 DEF TransientInv

\* A step after which a call has no outcome, and that sets no failure while a
\* request is under way, concerns neither property of any other call.
LEMMA StayKeepsTransientInv ==
    ASSUME IInv, TransientInv, NEW t \in Tasks, NEW l \in PCs, NEW f \in Failures,
           pc[t] # "done", pc' = [pc EXCEPT ![t] = l],
           failure' = [failure EXCEPT ![t] = f], l = "request" => f = "none",
           outcome' = outcome, cancelled' = cancelled,
           \A u \in Tasks \ {t} : requests'[u] = requests[u]
    PROVE  TransientInv'
<1>1. outcome[t] = "none" /\ pc \in [Tasks -> PCs] /\ failure \in [Tasks -> Failures]
    BY DEF TransientInv, FailuresTracked, IInv, TypeOK
<1>2. FailuresTracked'
    BY <1>1 DEF TransientInv, FailuresTracked
<1>3. TransientOnlyAfterAllRetries'
    BY <1>1 DEF TransientInv, TransientOnlyAfterAllRetries
<1> QED  BY <1>2, <1>3 DEF TransientInv

\* Every step of the fetch loop keeps transient failures behind the retries.
LEMMA NextTransientInv == IInv /\ TransientInv /\ [Next]_vars => TransientInv'
<1> SUFFICES ASSUME IInv, TransientInv, [Next]_vars PROVE TransientInv'  OBVIOUS
<1>t. /\ failure \in [Tasks -> Failures] /\ requests \in [Tasks -> Nat]
      /\ attempt \in [Tasks -> Nat] /\ pc \in [Tasks -> PCs] /\ MaximumRetries \in Nat
      /\ \A t \in Tasks : failure = [failure EXCEPT ![t] = failure[t]]
    BY PacingAssumption DEF IInv, TypeOK
<1>s. \A t \in Tasks : failure[t] \in Failures  BY <1>t
<1>r. \A t \in Tasks : pc[t] = "request" => failure[t] = "none"
    BY DEF TransientInv, FailuresTracked
<1>a. ASSUME NEW t \in Tasks, pc[t] = "request", attempt[t] >= MaximumRetries
      PROVE  requests[t] = MaximumRetries + 1
    BY <1>a, <1>t DEF IInv, RequestsCounted
<1>b. ASSUME NEW t \in Tasks, NEW delay, NEW sleep \in {"backoffStatus", "backoffNetwork"},
             NEW f \in Failures, pc[t] = "request", BackOff(t, sleep, delay),
             failure' = [failure EXCEPT ![t] = f]
      PROVE  TransientInv'
    BY <1>b, StayKeepsTransientInv, Zenon DEF BackOff, PCs
<1>1. ASSUME NEW t \in Tasks, Begin(t) \/ Retry(t) PROVE TransientInv'
    <2>1. /\ pc[t] # "done" /\ pc' = [pc EXCEPT ![t] = "slot"]
          /\ UNCHANGED <<outcome, cancelled, requests, failure>>
        BY <1>1 DEF Begin, Retry, reserveNextSlot
    <2> QED  BY <2>1, <1>t, <1>s, StayKeepsTransientInv, Zenon DEF PCs
<1>2. ASSUME NEW t \in Tasks, SendRequest(t) PROVE TransientInv'
    <2>1. /\ pc[t] # "done" /\ pc' = [pc EXCEPT ![t] = "request"]
          /\ failure' = [failure EXCEPT ![t] = "none"]
          /\ UNCHANGED <<outcome, cancelled>>
          /\ \A u \in Tasks \ {t} : requests'[u] = requests[u]
        BY <1>2, <1>t DEF SendRequest
    <2> QED  BY <2>1, StayKeepsTransientInv, Zenon DEF PCs, Failures
<1>3. ASSUME NEW t \in Tasks, SlotCancelled(t) \/ BackoffCancelled(t) PROVE TransientInv'
    BY <1>3, <1>t, <1>s, LeaveKeepsTransientInv DEF SlotCancelled, BackoffCancelled, Outcomes
<1>4. ASSUME NEW t \in Tasks, FinalAnswer(t) PROVE TransientInv'
    <2>1. failure[t] = "none" /\ failure[t] \in Failures /\ "fatal" \in Failures
        BY <1>4, <1>r, <1>s DEF FinalAnswer, Failures
    <2>2. CASE Leave(t, "data") /\ UNCHANGED failure
        BY <2>1, <2>2, <1>t, LeaveKeepsTransientInv DEF Outcomes
    <2>3. CASE \E a \in {"notFound", "invalidResponse"} :
                  Leave(t, a) /\ failure' = [failure EXCEPT ![t] = "fatal"]
        BY <2>1, <2>3, LeaveKeepsTransientInv, Zenon DEF Outcomes
    <2> QED  BY <1>4, <2>2, <2>3 DEF FinalAnswer
<1>5. ASSUME NEW t \in Tasks, RetryableStatus(t) PROVE TransientInv'
    <2>1. /\ pc[t] = "request" /\ failure' = [failure EXCEPT ![t] = "status"]
          /\ "status" \in Failures
        BY <1>5 DEF RetryableStatus, Failures
    <2>2. CASE /\ attempt[t] >= MaximumRetries
               /\ \E result \in {"rateLimited", "invalidResponse"} : Leave(t, result)
        BY <2>1, <2>2, <1>a, LeaveKeepsTransientInv, Zenon DEF Outcomes
    <2>3. CASE \E r \in RetryAfters :
                   BackOff(t, "backoffStatus", retryDelay(r, attempt[t]))
        BY <2>1, <2>3, <1>b, Zenon
    <2> QED  BY <1>5, <2>2, <2>3 DEF RetryableStatus
<1>6. ASSUME NEW t \in Tasks, TransportError(t) PROVE TransientInv'
    <2>1. /\ pc[t] = "request" /\ failure' = [failure EXCEPT ![t] = "transport"]
          /\ "transport" \in Failures
        BY <1>6 DEF TransportError, Failures
    <2>2. CASE attempt[t] >= MaximumRetries /\ Leave(t, "network")
        BY <2>1, <2>2, <1>a, LeaveKeepsTransientInv, Zenon DEF Outcomes
    <2>3. CASE BackOff(t, "backoffNetwork", retryDelay(0, attempt[t]))
        BY <2>1, <2>3, <1>b, Zenon
    <2> QED  BY <1>6, <2>2, <2>3 DEF TransportError
<1>7. ASSUME NEW t \in Tasks, FatalTransportError(t) PROVE TransientInv'
    BY <1>7, LeaveKeepsTransientInv, Zenon DEF FatalTransportError, Outcomes, Failures
<1>8. ASSUME NEW t \in Tasks, Cancel(t) PROVE TransientInv'
    <2>1. /\ UNCHANGED <<pc, outcome, failure, requests>>
          /\ \A u \in Tasks : cancelled[u] => cancelled'[u]
        BY <1>8 DEF Cancel, history, IInv, TypeOK
    <2> QED  BY <2>1 DEF TransientInv, FailuresTracked, TransientOnlyAfterAllRetries
<1>9. CASE Tick \/ UNCHANGED vars
    BY <1>9 DEF Tick, vars, history, TransientInv, FailuresTracked,
                TransientOnlyAfterAllRetries
<1> QED
    BY <1>1, <1>2, <1>3, <1>4, <1>5, <1>6, <1>7, <1>8, <1>9 DEF Next, Step, Finished

\* EsploraBlockSourceError.rateLimited "surfaces only after all built-in
\* retries have been exhausted"; so does every transient failure of fetchData
\* that no cancellation cut short, for any retry policy.
THEOREM TransientsExhaustRetries == Spec => []TransientOnlyAfterAllRetries
<1>1. Init => TransientInv
    BY DEF Init, TransientInv, FailuresTracked, TransientOnlyAfterAllRetries
<1>2. TransientInv => TransientOnlyAfterAllRetries  BY DEF TransientInv
<1> QED  BY <1>1, <1>2, NextTransientInv, IInvInvariant, PTL DEF Spec

-----------------------------------------------------------------------------
(* The lateness of requests never adds up. *)

\* The k-th slot after another lies k delays later, and so does the next one.
SlotsSpread ==
    /\ \A i, j \in 1 .. Len(slots) :
          i <= j => slots[j] >= slots[i] + (j - i) * MinimumDelay
    /\ \A i \in 1 .. Len(slots) :
          earliestNextStart >= slots[i] + (Len(slots) + 1 - i) * MinimumDelay

\* No wait is overdue, and requests start in the order they are counted.
OnTime ==
    /\ \A t \in Tasks : Waiting(t) => now <= due[t] + MaxLateness
    /\ \A i, j \in 1 .. Len(sent) : i <= j => sent[i] <= sent[j]
    /\ \A i \in 1 .. Len(sent) : sent[i] <= now

\* used names the slot of every request, held the slot a call sleeps for: each
\* slot serves one request, at its time or up to MaxLateness later.
Assigned(used, held) ==
    /\ \A k \in 1 .. Len(sent) :
          slots[used[k]] <= sent[k] /\ sent[k] <= slots[used[k]] + MaxLateness
    /\ \A k, l \in 1 .. Len(sent) : used[k] = used[l] => k = l
    /\ \A t \in Tasks : pc[t] = "slot" =>
          /\ held[t] # 0
          /\ slots[held[t]] = due[t]
          /\ \A u \in Tasks : pc[u] = "slot" /\ held[u] = held[t] => u = t
          /\ \A k \in 1 .. Len(sent) : used[k] # held[t]

SlotsAssigned ==
    \E used \in [1 .. Len(sent) -> 1 .. Len(slots)], held \in [Tasks -> 0 .. Len(slots)] :
        Assigned(used, held)

BurstInv == SlotsSpread /\ OnTime /\ SlotsAssigned

\* The three kinds of step: a reservation, a request, and a step that makes
\* neither and puts no call to sleep for a slot.
Reserves(t) == pc[t] # "slot" /\ reserveNextSlot(t)

Elsewhere ==
    /\ UNCHANGED <<earliestNextStart, slots, sent>>
    /\ now' \in Nat /\ now' >= now
    /\ \A t \in Tasks : pc'[t] = "slot" => pc[t] = "slot" /\ due'[t] = due[t]
    /\ \A t \in Tasks : Waiting(t)' => now' <= due'[t] + MaxLateness

\* Every step of the fetch loop is of one of the three kinds.
LEMMA StepKinds ==
    ASSUME IInv, OnTime, [Next]_vars
    PROVE  (\E t \in Tasks : Reserves(t) \/ SendRequest(t)) \/ Elsewhere
<1>t. /\ now \in Nat /\ due \in [Tasks -> Nat] /\ pc \in [Tasks -> PCs]
      /\ attempt \in [Tasks -> Nat] /\ MaxLateness \in Nat
      /\ \A t \in Tasks : Waiting(t) => now <= due[t] + MaxLateness
    BY PacingAssumption DEF IInv, TypeOK, OnTime
<1>1. ASSUME NEW t \in Tasks, NEW result, Leave(t, result) PROVE Elsewhere
    BY <1>1, <1>t DEF Leave, Elsewhere, clock, Waiting
<1>2. ASSUME NEW t \in Tasks, NEW sleep \in {"backoffStatus", "backoffNetwork"},
             NEW delay \in Nat, BackOff(t, sleep, delay)
      PROVE  Elsewhere
    BY <1>2, <1>t DEF BackOff, Elsewhere, clock, Waiting
<1>3. ASSUME NEW t \in Tasks, NEW r \in RetryAfters PROVE retryDelay(r, attempt[t]) \in Nat
    BY <1>t, RetryDelayType, PacingAssumption
<1>4. 0 \in RetryAfters  BY PacingAssumption
<1>5. ASSUME NEW t \in Tasks, Begin(t) \/ Retry(t) PROVE Reserves(t)
    BY <1>5 DEF Begin, Retry, Reserves
<1>6. ASSUME NEW t \in Tasks,
             SlotCancelled(t) \/ FinalAnswer(t) \/ FatalTransportError(t) \/ BackoffCancelled(t)
      PROVE  Elsewhere
    BY <1>6, <1>1 DEF SlotCancelled, FinalAnswer, FatalTransportError, BackoffCancelled
<1>7. ASSUME NEW t \in Tasks, RetryableStatus(t) \/ TransportError(t) PROVE Elsewhere
    BY <1>7, <1>1, <1>2, <1>3, <1>4 DEF RetryableStatus, TransportError
<1>8. ASSUME NEW t \in Tasks, Cancel(t) PROVE Elsewhere
    BY <1>8, <1>t DEF Cancel, Elsewhere, clock, history, Waiting
<1>9. CASE Tick
    BY <1>9, <1>t DEF Tick, Elsewhere, history, Waiting
<1>10. CASE UNCHANGED vars
    BY <1>10, <1>t DEF vars, Elsewhere, Waiting
<1> QED
    BY <1>5, <1>6, <1>7, <1>8, <1>9, <1>10 DEF Next, Step, Finished

\* One delay more.
LEMMA OneMore == \A k \in Int, d \in Int : (k + 1) * d = k * d + d
    OBVIOUS

\* A reservation keeps the slots spread.
LEMMA ReserveKeepsSpread ==
    ASSUME IInv, SlotsSpread, NEW t \in Tasks, reserveNextSlot(t)
    PROVE  SlotsSpread'
<1>1. /\ slotStart \in Nat /\ slotStart >= earliestNextStart /\ earliestNextStart \in Nat
      /\ MinimumDelay \in Nat
    BY PacingAssumption DEF IInv, TypeOK, slotStart
<1>2. slots' = Append(slots, slotStart) /\ earliestNextStart' = slotStart + MinimumDelay
    BY DEF reserveNextSlot
<1>3. /\ Len(slots) \in Nat /\ Len(slots') = Len(slots) + 1
      /\ slots'[Len(slots) + 1] = slotStart
      /\ \A i \in 1 .. Len(slots) : slots'[i] = slots[i] /\ slots[i] \in Nat
    BY <1>1, <1>2 DEF IInv, TypeOK
<1> DEFINE n == Len(slots)
<1>4. ASSUME NEW i \in 1 .. n
      PROVE  /\ slotStart >= slots[i] + (n + 1 - i) * MinimumDelay
             /\ earliestNextStart' >= slots[i] + (n + 2 - i) * MinimumDelay
    <2>1. earliestNextStart >= slots[i] + (n + 1 - i) * MinimumDelay
        BY DEF SlotsSpread
    <2>2. (n + 2 - i) * MinimumDelay = (n + 1 - i) * MinimumDelay + MinimumDelay
        <3>1. n + 1 - i \in Int /\ (n + 1 - i) + 1 = n + 2 - i  BY <1>3
        <3> QED  BY <1>1, <3>1, OneMore
    <2>3. (n + 1 - i) * MinimumDelay \in Int /\ slots[i] \in Nat  BY <1>1, <1>3
    <2> QED  BY <1>1, <1>2, <2>1, <2>2, <2>3
<1>5. ASSUME NEW i \in 1 .. Len(slots'), NEW j \in 1 .. Len(slots'), i <= j
      PROVE  slots'[j] >= slots'[i] + (j - i) * MinimumDelay
    <2>1. CASE j \in 1 .. n
        <3>1. i \in 1 .. n  BY <1>5, <2>1
        <3> QED  BY <1>3, <1>5, <2>1, <3>1 DEF SlotsSpread
    <2>2. CASE j = n + 1 /\ i \in 1 .. n
        BY <1>3, <1>4, <2>2
    <2>3. CASE j = n + 1 /\ i = n + 1
        BY <1>1, <1>3, <2>3
    <2> QED  BY <1>3, <1>5, <2>1, <2>2, <2>3
<1>6. ASSUME NEW i \in 1 .. Len(slots')
      PROVE  earliestNextStart' >= slots'[i] + (Len(slots') + 1 - i) * MinimumDelay
    <2>1. CASE i \in 1 .. n
        <3>1. Len(slots') + 1 - i = n + 2 - i  BY <1>3
        <3> QED  BY <1>3, <1>4, <2>1, <3>1
    <2>2. CASE i = n + 1
        <3>1. Len(slots') + 1 - i = 1  BY <1>3, <2>2
        <3> QED  BY <1>1, <1>2, <1>3, <2>2, <3>1
    <2> QED  BY <1>3, <2>1, <2>2
<1> QED  BY <1>5, <1>6 DEF SlotsSpread

\* A reservation gives the call a slot nobody else has.
LEMMA ReserveKeepsBurstInv ==
    ASSUME IInv, BurstInv, NEW t \in Tasks, Reserves(t)
    PROVE  BurstInv'
<1>1. SlotsSpread'
    BY ReserveKeepsSpread DEF BurstInv, Reserves
<1>2. /\ slotStart \in Nat /\ slotStart >= now /\ now \in Nat /\ MaxLateness \in Nat
      /\ due \in [Tasks -> Nat] /\ pc \in [Tasks -> PCs] /\ slots \in Seq(Nat)
    BY PacingAssumption DEF IInv, TypeOK, slotStart
<1>3. /\ slots' = Append(slots, slotStart) /\ due' = [due EXCEPT ![t] = slotStart]
      /\ pc' = [pc EXCEPT ![t] = "slot"] /\ UNCHANGED <<now, sent>>
      /\ pc[t] # "slot"
    BY DEF Reserves, reserveNextSlot
<1>4. OnTime'
    BY <1>2, <1>3 DEF BurstInv, OnTime, Waiting
<1>5. SlotsAssigned'
    <2>1. PICK used \in [1 .. Len(sent) -> 1 .. Len(slots)], held \in [Tasks -> 0 .. Len(slots)] :
              Assigned(used, held)
        BY DEF BurstInv, SlotsAssigned
    <2> DEFINE n == Len(slots)
    <2>h. PICK h : h = [held EXCEPT ![t] = n + 1]
        BY Zenon
    <2>2. /\ n \in Nat /\ Len(slots') = n + 1 /\ slots'[n + 1] = slotStart
          /\ \A i \in 1 .. n : slots'[i] = slots[i]
        BY <1>2, <1>3
    <2>3. used \in [1 .. Len(sent') -> 1 .. Len(slots')] /\ h \in [Tasks -> 0 .. Len(slots')]
        BY <1>3, <2>1, <2>2, <2>h
    <2>4. /\ \A k \in 1 .. Len(sent) : used[k] \in 1 .. n
          /\ \A u \in Tasks : held[u] \in 0 .. n
          /\ h[t] = n + 1 /\ \A u \in Tasks \ {t} : h[u] = held[u]
          /\ pc'[t] = "slot" /\ \A u \in Tasks \ {t} : pc'[u] = pc[u] /\ due'[u] = due[u]
          /\ due'[t] = slotStart
        BY <1>2, <1>3, <2>1, <2>h, Zenon
    <2>5. /\ \A k \in 1 .. Len(sent') :
                slots'[used[k]] <= sent'[k] /\ sent'[k] <= slots'[used[k]] + MaxLateness
          /\ \A k, l \in 1 .. Len(sent') : used[k] = used[l] => k = l
        BY <1>3, <2>1, <2>2, <2>4 DEF Assigned
    <2>6. ASSUME NEW u \in Tasks, pc'[u] = "slot"
          PROVE  /\ h[u] # 0 /\ slots'[h[u]] = due'[u]
                 /\ \A v \in Tasks : pc'[v] = "slot" /\ h[v] = h[u] => v = u
                 /\ \A k \in 1 .. Len(sent') : used[k] # h[u]
        <3> HIDE DEF n
        <3>1. CASE u = t
            <4>1. h[u] = n + 1 /\ slots'[h[u]] = due'[u]
                BY <2>2, <2>4, <3>1
            <4>2. \A v \in Tasks \ {t} : h[v] # n + 1
                BY <2>2, <2>4
            <4>3. \A k \in 1 .. Len(sent') : used[k] # n + 1
                BY <1>3, <2>2, <2>4
            <4> QED  BY <2>2, <3>1, <4>1, <4>2, <4>3
        <3>2. CASE u # t
            <4>1. pc[u] = "slot" /\ h[u] = held[u] /\ held[u] \in 1 .. n
                BY <2>1, <2>2, <2>4, <2>6, <3>2 DEF Assigned
            <4> QED  BY <1>3, <2>1, <2>2, <2>4, <2>6, <3>2, <4>1 DEF Assigned
        <3> QED  BY <3>1, <3>2
    <2>7. Assigned(used, h)'
        BY <2>5, <2>6 DEF Assigned
    <2> QED  BY <2>3, <2>7 DEF SlotsAssigned
<1> QED  BY <1>1, <1>4, <1>5 DEF BurstInv

\* A request uses up the slot its call slept for.
LEMMA SendKeepsBurstInv ==
    ASSUME IInv, BurstInv, NEW t \in Tasks, SendRequest(t)
    PROVE  BurstInv'
<1>1. /\ now \in Nat /\ MaxLateness \in Nat /\ due \in [Tasks -> Nat]
      /\ pc \in [Tasks -> PCs] /\ sent \in Seq(Nat)
    BY PacingAssumption DEF IInv, TypeOK
<1>2. /\ pc[t] = "slot" /\ now >= due[t] /\ sent' = Append(sent, now)
      /\ pc' = [pc EXCEPT ![t] = "request"] /\ due' = [due EXCEPT ![t] = now]
      /\ UNCHANGED <<now, earliestNextStart, slots>>
    BY DEF SendRequest, clock
<1> DEFINE n == Len(sent)
<1>3. /\ n \in Nat /\ Len(sent') = n + 1 /\ sent'[n + 1] = now
      /\ \A i \in 1 .. n : sent'[i] = sent[i] /\ sent[i] \in Nat
    BY <1>1, <1>2
<1>4. SlotsSpread'
    BY <1>2 DEF BurstInv, SlotsSpread
<1>5. OnTime'
    <2>1. \A u \in Tasks : Waiting(u)' => now' <= due'[u] + MaxLateness
        BY <1>1, <1>2 DEF BurstInv, OnTime, Waiting
    <2>2. \A i \in 1 .. Len(sent') : sent'[i] <= now'
        BY <1>1, <1>2, <1>3 DEF BurstInv, OnTime
    <2>3. ASSUME NEW i \in 1 .. Len(sent'), NEW j \in 1 .. Len(sent'), i <= j
          PROVE  sent'[i] <= sent'[j]
        <3>1. CASE j = n + 1
            BY <1>2, <1>3, <2>2, <3>1
        <3>2. CASE j \in 1 .. n
            BY <1>3, <2>3, <3>2 DEF BurstInv, OnTime
        <3> QED  BY <1>3, <3>1, <3>2
    <2> QED  BY <2>1, <2>2, <2>3 DEF OnTime
<1>6. SlotsAssigned'
    <2>1. PICK used \in [1 .. n -> 1 .. Len(slots)], held \in [Tasks -> 0 .. Len(slots)] :
              Assigned(used, held)
        BY DEF BurstInv, SlotsAssigned
    <2>2. PICK w : w = [k \in 1 .. n + 1 |-> IF k = n + 1 THEN held[t] ELSE used[k]]
        BY Zenon
    <2>3. /\ held[t] # 0 /\ held[t] \in 0 .. Len(slots) /\ slots[held[t]] = due[t]
          /\ \A u \in Tasks : pc[u] = "slot" /\ held[u] = held[t] => u = t
          /\ \A k \in 1 .. n : used[k] # held[t]
        BY <1>2, <2>1 DEF Assigned
    <2>4. now <= due[t] + MaxLateness
        BY <1>2, Zenon DEF BurstInv, OnTime, Waiting
    <2>5. /\ w[n + 1] = held[t] /\ \A k \in 1 .. n : w[k] = used[k]
          /\ held[t] \in 1 .. Len(slots)
        BY <1>1, <1>3, <2>2, <2>3
    <2>6. w \in [1 .. Len(sent') -> 1 .. Len(slots')]
        BY <1>2, <1>3, <2>1, <2>2, <2>5
    <2>7. ASSUME NEW k \in 1 .. n + 1
          PROVE  slots'[w[k]] <= sent'[k] /\ sent'[k] <= slots'[w[k]] + MaxLateness
        <3>1. CASE k = n + 1
            BY <1>2, <1>3, <2>3, <2>4, <2>5, <3>1
        <3>2. CASE k \in 1 .. n
            BY <1>2, <1>3, <2>1, <2>5, <3>2, Zenon DEF Assigned
        <3> QED  BY <1>3, <3>1, <3>2
    <2>8. ASSUME NEW k \in 1 .. n + 1, NEW l \in 1 .. n + 1, w[k] = w[l]
          PROVE  k = l
        <3>1. k \in 1 .. n \/ k = n + 1  BY <1>3
        <3>2. l \in 1 .. n \/ l = n + 1  BY <1>3
        <3> QED  BY <2>1, <2>3, <2>5, <2>8, <3>1, <3>2 DEF Assigned
    <2>9. ASSUME NEW u \in Tasks, pc'[u] = "slot"
          PROVE  /\ held[u] # 0 /\ slots'[held[u]] = due'[u]
                 /\ \A v \in Tasks : pc'[v] = "slot" /\ held[v] = held[u] => v = u
                 /\ \A k \in 1 .. n + 1 : w[k] # held[u]
        <3>1. u # t /\ pc[u] = "slot" /\ due'[u] = due[u]
              /\ \A v \in Tasks : pc'[v] = "slot" => pc[v] = "slot"
            BY <1>1, <1>2, <2>9
        <3>2. /\ held[u] # 0 /\ slots'[held[u]] = due'[u]
              /\ \A v \in Tasks : pc'[v] = "slot" /\ held[v] = held[u] => v = u
              /\ \A k \in 1 .. n : used[k] # held[u]
            BY <1>2, <2>1, <3>1, Zenon DEF Assigned
        <3>3. held[u] # held[t]
            BY <2>3, <3>1
        <3>4. \A k \in 1 .. n + 1 : w[k] # held[u]
            <4>1. \A k \in 1 .. n + 1 : k \in 1 .. n \/ k = n + 1  BY <1>3
            <4> QED  BY <2>5, <3>2, <3>3, <4>1
        <3> QED  BY <3>2, <3>4
    <2>10. Assigned(w, held)'
        <3> HIDE DEF n
        <3> QED  BY <1>3, <2>7, <2>8, <2>9 DEF Assigned
    <2>11. held \in [Tasks -> 0 .. Len(slots')]  BY <1>2, <2>1
    <2> QED  BY <2>6, <2>10, <2>11 DEF SlotsAssigned
<1> QED  BY <1>4, <1>5, <1>6 DEF BurstInv

\* Every step keeps the slots spread and assigned, and the waits on time.
LEMMA NextBurstInv == IInv /\ BurstInv /\ [Next]_vars => BurstInv'
<1> SUFFICES ASSUME IInv, BurstInv, [Next]_vars PROVE BurstInv'  OBVIOUS
<1>1. CASE \E t \in Tasks : Reserves(t)
    BY <1>1, ReserveKeepsBurstInv
<1>2. CASE \E t \in Tasks : SendRequest(t)
    BY <1>2, SendKeepsBurstInv
<1>3. CASE Elsewhere
    <2>1. SlotsSpread'
        BY <1>3 DEF BurstInv, SlotsSpread, Elsewhere
    <2>2. OnTime'
        <3>1. /\ now \in Nat /\ now' \in Nat /\ now' >= now /\ sent' = sent /\ sent \in Seq(Nat)
              /\ \A t \in Tasks : Waiting(t)' => now' <= due'[t] + MaxLateness
            BY <1>3 DEF Elsewhere, IInv, TypeOK
        <3>2. \A i \in 1 .. Len(sent) : sent[i] \in Nat /\ sent[i] <= now
            BY <3>1 DEF BurstInv, OnTime
        <3> QED  BY <3>1, <3>2 DEF BurstInv, OnTime
    <2>3. SlotsAssigned'
        <3>1. PICK used \in [1 .. Len(sent) -> 1 .. Len(slots)],
                   held \in [Tasks -> 0 .. Len(slots)] : Assigned(used, held)
            BY DEF BurstInv, SlotsAssigned
        <3>2. Assigned(used, held)'
            BY <1>3, <3>1 DEF Assigned, Elsewhere
        <3>3. sent' = sent /\ slots' = slots  BY <1>3 DEF Elsewhere
        <3> QED  BY <3>1, <3>2, <3>3 DEF SlotsAssigned
    <2> QED  BY <2>1, <2>2, <2>3 DEF BurstInv
<1> QED  BY <1>1, <1>2, <1>3, StepKinds DEF BurstInv

\* A nonempty set of natural numbers has a least element.
LEMMA LeastElement ==
    ASSUME NEW T \in SUBSET Nat, T # {}
    PROVE  \E m \in T : \A k \in T : m <= k
<1> DEFINE R == OpToRel(<, Nat)
<1>1. IsWellFoundedOn(R, Nat)
    BY NatLessThanWellFounded, Zenon
<1>2. ASSUME NEW x \in Nat, NEW y \in Nat, ~(<<y, x>> \in R) PROVE x <= y
    BY <1>2 DEF OpToRel
<1> HIDE DEF R
<1>3. PICK x \in T : \A y \in T : ~(<<y, x>> \in R)
    BY <1>1, WFMin, Zenon
<1>4. \A y \in T : x <= y
    BY <1>2, <1>3, Zenon
<1> QED  BY <1>4

\* Numbers that are all different spread at least as far as their indices.
LEMMA DistinctSpread ==
    ASSUME NEW i \in Nat, NEW j \in Nat, i <= j, NEW f \in [i .. j -> Nat],
           \A k, l \in i .. j : f[k] = f[l] => k = l
    PROVE  \E a, b \in i .. j : f[b] >= f[a] + (j - i)
<1> DEFINE T == {f[k] : k \in i .. j}
<1>1. T \in SUBSET Nat /\ T # {}  OBVIOUS
<1>2. PICK m \in T : \A k \in T : m <= k
    <2> HIDE DEF T
    <2> QED  BY <1>1, LeastElement
<1>3. PICK a \in i .. j : f[a] = m  BY <1>2
<1>4. m \in Nat /\ \A k \in i .. j : f[k] \in Nat /\ m <= f[k]  BY <1>2
<1>5. SUFFICES ASSUME \A b \in i .. j : ~(f[b] >= m + (j - i)) PROVE FALSE
    BY <1>3
<1> HIDE DEF T
<1> DEFINE d == m + (j - i) - 1
<1>6. f \in [i .. j -> m .. d]
    <2>1. \A k \in i .. j : f[k] \in m .. d
        BY <1>4, <1>5
    <2> QED  BY <2>1
<1>7. /\ IsFiniteSet(i .. j) /\ Cardinality(i .. j) = j - i + 1
      /\ IsFiniteSet(m .. d) /\ Cardinality(m .. d) = j - i
    <2>1. i \in Int /\ j \in Int /\ m \in Int /\ d \in Int  BY <1>4
    <2>2. IsFiniteSet(i .. j) /\ Cardinality(i .. j) = IF i > j THEN 0 ELSE j - i + 1
        BY <2>1, FS_Interval
    <2>3. IsFiniteSet(m .. d) /\ Cardinality(m .. d) = IF m > d THEN 0 ELSE d - m + 1
        <3> HIDE DEF d
        <3> QED  BY <2>1, FS_Interval, Zenon
    <2> QED  BY <1>4, <2>2, <2>3
<1>8. Cardinality(m .. d) < Cardinality(i .. j)
    BY <1>7
<1>9. \E x, y \in i .. j : x # y /\ f[x] = f[y]
    <2> HIDE DEF d
    <2> QED  BY <1>6, <1>7, <1>8, FS_PigeonHole, Zenon
<1> QED  BY <1>9

\* The elements of a sequence of numbers are numbers.
LEMMA ElementIsNat == ASSUME NEW s \in Seq(Nat), NEW k \in 1 .. Len(s) PROVE s[k] \in Nat
    OBVIOUS

\* The arithmetic of a burst of requests i to j: slots A and B have numbers g
\* and h, and requests x and y of the burst use them.
LEMMA BurstArithmetic ==
    ASSUME NEW i \in Nat, NEW j \in Nat, i < j, NEW g \in Nat, NEW h \in Nat, h >= g + (j - i),
           NEW d \in Nat, NEW late \in Nat,
           NEW A \in Nat, NEW B \in Nat, g <= h => B >= A + (h - g) * d,
           NEW first \in Nat, NEW x \in Nat, NEW y \in Nat, NEW last \in Nat,
           x <= A + late, B <= y, first <= x, y <= last
    PROVE  last - first + late >= (j - i) * d
<1>1. j - i \in Nat /\ h - g \in Nat /\ j - i <= h - g /\ g <= h
    OBVIOUS
<1>2. \A p, q \in Nat : p <= q => p * d <= q * d /\ q * d \in Int /\ p * d \in Int
    OBVIOUS
<1>3. (j - i) * d <= (h - g) * d /\ (h - g) * d \in Int /\ (j - i) * d \in Int
    BY <1>1, <1>2
<1> QED  BY <1>1, <1>3

\* Requests i to j use different slots, so that two of those slots are at least
\* j - i delays apart; the one starts no later than request j, the other at most
\* MaxLateness before request i.
LEMMA BurstInvBounds == ASSUME IInv, BurstInv PROVE BurstBounded
<1> SUFFICES ASSUME NEW i \in 1 .. Len(sent), NEW j \in 1 .. Len(sent), i < j
             PROVE  sent[j] - sent[i] + MaxLateness >= (j - i) * MinimumDelay
    BY DEF BurstBounded
<1>1. /\ MinimumDelay \in Nat /\ MaxLateness \in Nat /\ slots \in Seq(Nat)
      /\ sent \in Seq(Nat) /\ i \in Nat /\ j \in Nat
    BY PacingAssumption DEF IInv, TypeOK
<1>2. PICK used \in [1 .. Len(sent) -> 1 .. Len(slots)], held \in [Tasks -> 0 .. Len(slots)] :
          Assigned(used, held)
    BY DEF BurstInv, SlotsAssigned
<1>f. PICK f : f = [k \in i .. j |-> used[k]]
    BY Zenon
<1>3. ASSUME NEW k \in i .. j
      PROVE  k \in 1 .. Len(sent) /\ f[k] = used[k] /\ f[k] \in 1 .. Len(slots) /\ f[k] \in Nat
    <2>1. k \in 1 .. Len(sent) /\ Len(slots) \in Nat  BY <1>1
    <2>2. used[k] \in 1 .. Len(slots) /\ f[k] = used[k]  BY <1>2, <1>f, <2>1
    <2> QED  BY <2>1, <2>2
<1>4. f \in [i .. j -> Nat] /\ \A k, l \in i .. j : f[k] = f[l] => k = l
    BY <1>2, <1>3, <1>f DEF Assigned
<1>5. PICK a \in i .. j, b \in i .. j : f[b] >= f[a] + (j - i)
    <2>1. i <= j  BY <1>1
    <2> QED  BY <1>1, <1>4, <2>1, DistinctSpread, Zenon
<1>6. /\ a \in 1 .. Len(sent) /\ f[a] = used[a] /\ f[a] \in 1 .. Len(slots) /\ f[a] \in Nat
      /\ b \in 1 .. Len(sent) /\ f[b] = used[b] /\ f[b] \in 1 .. Len(slots) /\ f[b] \in Nat
    BY <1>3
<1>7. slots[f[a]] \in Nat /\ slots[f[b]] \in Nat
    BY <1>1, <1>6, ElementIsNat, Zenon
<1>8. sent[a] \in Nat /\ sent[b] \in Nat /\ sent[i] \in Nat /\ sent[j] \in Nat
    BY <1>1, <1>6, ElementIsNat
<1>9. f[a] <= f[b] => slots[f[b]] >= slots[f[a]] + (f[b] - f[a]) * MinimumDelay
    BY <1>6 DEF BurstInv, SlotsSpread
<1>10. sent[a] <= slots[f[a]] + MaxLateness /\ slots[f[b]] <= sent[b]
    BY <1>2, <1>6, Zenon DEF Assigned
<1>11. sent[i] <= sent[a] /\ sent[b] <= sent[j]
    BY <1>1, <1>6 DEF BurstInv, OnTime
<1> QED  BY <1>1, <1>5, <1>6, <1>7, <1>8, <1>9, <1>10, <1>11, BurstArithmetic, ZenonT(60)

\* "Minimum time between the start of consecutive requests" (EsploraBlockSource):
\* n requests in a row, of whatever calls and attempts, take at least n - 1
\* delays less a single lateness, however many calls share the pacer.
THEOREM BurstsBounded == Spec => []BurstBounded
<1>1. Init => BurstInv
    <2> SUFFICES ASSUME Init PROVE BurstInv  OBVIOUS
    <2>1. SlotsSpread  BY DEF Init, SlotsSpread
    <2>2. OnTime  BY DEF Init, OnTime, Waiting
    <2>3. SlotsAssigned
        <3>1. /\ [k \in 1 .. Len(sent) |-> 1] \in [1 .. Len(sent) -> 1 .. Len(slots)]
              /\ [t \in Tasks |-> 0] \in [Tasks -> 0 .. Len(slots)]
            BY DEF Init
        <3>2. Assigned([k \in 1 .. Len(sent) |-> 1], [t \in Tasks |-> 0])
            BY DEF Init, Assigned
        <3> QED  BY <3>1, <3>2 DEF SlotsAssigned
    <2> QED  BY <2>1, <2>2, <2>3 DEF BurstInv
<1>2. IInv /\ BurstInv => BurstBounded  BY BurstInvBounds
<1> QED  BY <1>1, <1>2, NextBurstInv, IInvInvariant, PTL DEF Spec

=============================================================================
