-------------------------- MODULE DirectTransport ---------------------------
(***************************************************************************)
(* One RPC of the Swift client: AutoTransport chooses a transport, and     *)
(* DirectTransport.send races the blocking bitcoin_rpc call against a      *)
(* timer.  Both sides claim a OnceFlag before they resume the caller.      *)
(*                                                                         *)
(* The call, the timer and the gate of the bridge run on threads of their  *)
(* own.  bitcoin_rpc may block for ever.                                   *)
(***************************************************************************)
EXTENDS Integers

CONSTANTS Sends      \* calls of AutoTransport.send

VARIABLES
    bridgeReady, \* g_ready, the bridge's gate; bitcoin_rpc_reset may close it at any time
    caller,      \* the task that awaits the answer
    rpc,         \* the dispatched closure around bitcoin_rpc
    timer,       \* timeoutWork
    resumed,     \* OnceFlag
    result,      \* what bitcoin_rpc returned
    heap,        \* result strings allocated and not yet freed
    resumes,     \* history: how often the continuation was resumed
    outcome      \* what the caller gets

sendVars == <<caller, rpc, timer, resumed, result, heap, resumes, outcome>>
directVars == <<bridgeReady, caller, rpc, timer, resumed, result, heap, resumes, outcome>>

Outcomes == {"none", "http", "data", "timedOut", "cannotConnectToHost", "cancelled"}

DirectInit ==
    /\ bridgeReady \in BOOLEAN
    /\ caller = [c \in Sends |-> "idle"]
    /\ rpc = [c \in Sends |-> "none"]
    /\ timer = [c \in Sends |-> "none"]
    /\ resumed = [c \in Sends |-> FALSE]
    /\ result = [c \in Sends |-> "none"]
    /\ heap = [c \in Sends |-> 0]
    /\ resumes = [c \in Sends |-> 0]
    /\ outcome = [c \in Sends |-> "none"]

\* continuation.resume.
Resume(c, answer) ==
    /\ resumes' = [resumes EXCEPT ![c] = @ + 1]
    /\ outcome' = [outcome EXCEPT ![c] = answer]
    /\ caller' = [caller EXCEPT ![c] = "resumed"]

\* AutoTransport.send: wallet calls, and every call while the bridge is
\* closed, go over HTTP; the others go to DirectTransport, whose answer to a
\* cancelled task is CancellationError.
Send(c) ==
    /\ caller[c] = "idle"
    /\ \E wallet \in BOOLEAN :
          \/ /\ wallet \/ ~bridgeReady
             /\ caller' = [caller EXCEPT ![c] = "resumed"]
             /\ outcome' = [outcome EXCEPT ![c] = "http"]
          \/ /\ ~wallet /\ bridgeReady
             /\ \/ caller' = [caller EXCEPT ![c] = "direct"] /\ UNCHANGED outcome
                \/ /\ caller' = [caller EXCEPT ![c] = "resumed"]
                   /\ outcome' = [outcome EXCEPT ![c] = "cancelled"]
    /\ UNCHANGED <<bridgeReady, rpc, timer, resumed, result, heap, resumes>>

\* Mutant: no timer is armed.
DispatchUntimed(c) ==
    /\ caller[c] = "direct"
    /\ caller' = [caller EXCEPT ![c] = "waiting"]
    /\ rpc' = [rpc EXCEPT ![c] = "queued"]
    /\ UNCHANGED <<bridgeReady, timer, resumed, result, heap, resumes, outcome>>

\* withCheckedThrowingContinuation: the timer is armed, the call dispatched.
Dispatch(c) ==
    /\ caller[c] = "direct"
    /\ caller' = [caller EXCEPT ![c] = "waiting"]
    /\ timer' = [timer EXCEPT ![c] = "armed"]
    /\ rpc' = [rpc EXCEPT ![c] = "queued"]
    /\ UNCHANGED <<bridgeReady, resumed, result, heap, resumes, outcome>>

\* The queue runs the closure; bitcoin_rpc answers NULL when the gate is closed.
RpcStarts(c) ==
    /\ rpc[c] = "queued"
    /\ \/ bridgeReady /\ rpc' = [rpc EXCEPT ![c] = "executing"] /\ UNCHANGED result
       \/ /\ ~bridgeReady
          /\ rpc' = [rpc EXCEPT ![c] = "returned"]
          /\ result' = [result EXCEPT ![c] = "closed"]
    /\ UNCHANGED <<bridgeReady, caller, timer, resumed, heap, resumes, outcome>>

\* bitcoin_rpc returns an envelope on the heap, or NULL: its context was gone
\* or there was no memory.
RpcReturns(c) ==
    /\ rpc[c] = "executing"
    /\ rpc' = [rpc EXCEPT ![c] = "returned"]
    /\ \/ /\ result' = [result EXCEPT ![c] = "envelope"]
          /\ heap' = [heap EXCEPT ![c] = @ + 1]
       \/ result' = [result EXCEPT ![c] = "null"] /\ UNCHANGED heap
    /\ UNCHANGED <<bridgeReady, caller, timer, resumed, resumes, outcome>>

\* bitcoin_free of the result, if there is one.
FreeResult(c) ==
    heap' = [heap EXCEPT ![c] = IF result[c] = "envelope" THEN @ - 1 ELSE @]

\* Mutant: a late answer is dropped without being freed.
RpcClaimsLeaks(c) ==
    /\ rpc[c] = "returned"
    /\ \/ resumed[c] /\ rpc' = [rpc EXCEPT ![c] = "over"] /\ UNCHANGED <<resumed, timer>>
       \/ /\ ~resumed[c]
          /\ resumed' = [resumed EXCEPT ![c] = TRUE]
          /\ timer' = [timer EXCEPT ![c] = IF @ = "armed" THEN "cancelled" ELSE @]
          /\ rpc' = [rpc EXCEPT ![c] = "won"]
    /\ UNCHANGED <<bridgeReady, caller, result, heap, resumes, outcome>>

\* After the call: a lost race only frees the answer, a won one cancels the
\* timer, which has no effect on a timer that is already running.
RpcClaims(c) ==
    /\ rpc[c] = "returned"
    /\ \/ /\ resumed[c]
          /\ FreeResult(c)
          /\ rpc' = [rpc EXCEPT ![c] = "over"]
          /\ UNCHANGED <<resumed, timer>>
       \/ /\ ~resumed[c]
          /\ resumed' = [resumed EXCEPT ![c] = TRUE]
          /\ timer' = [timer EXCEPT ![c] = IF @ = "armed" THEN "cancelled" ELSE @]
          /\ rpc' = [rpc EXCEPT ![c] = "won"]
          /\ UNCHANGED heap
    /\ UNCHANGED <<bridgeReady, caller, result, resumes, outcome>>

\* The winner copies the answer, frees it and resumes the caller.
RpcResumes(c) ==
    /\ rpc[c] = "won"
    /\ rpc' = [rpc EXCEPT ![c] = "over"]
    /\ FreeResult(c)
    /\ Resume(c, IF result[c] = "envelope" THEN "data" ELSE "cannotConnectToHost")
    /\ UNCHANGED <<bridgeReady, timer, resumed, result>>

\* The deadline passes: the work item starts.
TimerStarts(c) ==
    /\ timer[c] = "armed"
    /\ timer' = [timer EXCEPT ![c] = "running"]
    /\ UNCHANGED <<bridgeReady, caller, rpc, resumed, result, heap, resumes, outcome>>

\* Mutant: the timer does not claim the flag.
TimerFiresUnclaimed(c) ==
    /\ timer[c] = "running"
    /\ timer' = [timer EXCEPT ![c] = "over"]
    /\ Resume(c, "timedOut")
    /\ UNCHANGED <<bridgeReady, rpc, resumed, result, heap>>

\* The work item resumes the caller if it is the first to claim the flag.
TimerFires(c) ==
    /\ timer[c] = "running"
    /\ timer' = [timer EXCEPT ![c] = "over"]
    /\ \/ /\ ~resumed[c]
          /\ resumed' = [resumed EXCEPT ![c] = TRUE]
          /\ Resume(c, "timedOut")
       \/ resumed[c] /\ UNCHANGED <<caller, resumed, resumes, outcome>>
    /\ UNCHANGED <<bridgeReady, rpc, result, heap>>

\* bitcoin_rpc_reset or _bridge_init somewhere else.
Gate ==
    /\ \E c \in Sends : caller[c] # "resumed"
    /\ bridgeReady' = ~bridgeReady
    /\ UNCHANGED sendVars

Finished ==
    /\ \A c \in Sends : /\ caller[c] = "resumed"
                        /\ rpc[c] \in {"none", "over"}
                        /\ timer[c] \in {"none", "cancelled", "over"}
    /\ UNCHANGED directVars

DirectNext ==
    \/ \E c \in Sends :
          \/ Send(c) \/ Dispatch(c) \/ RpcStarts(c) \/ RpcReturns(c) \/ RpcClaims(c)
          \/ RpcResumes(c) \/ TimerStarts(c) \/ TimerFires(c)
    \/ Gate
    \/ Finished

DirectSpec == DirectInit /\ [][DirectNext]_directVars

\* The task, the timer queue and a closure that holds an answer keep running.
\* bitcoin_rpc need not return, and the queue need not even start it.
DirectFairSpec ==
    /\ DirectSpec
    /\ \A c \in Sends :
          /\ WF_directVars(Dispatch(c))
          /\ WF_directVars(RpcClaims(c) \/ RpcResumes(c))
          /\ WF_directVars(TimerStarts(c) \/ TimerFires(c))

-----------------------------------------------------------------------------
DirectTypeOK ==
    /\ bridgeReady \in BOOLEAN
    /\ caller \in [Sends -> {"idle", "direct", "waiting", "resumed"}]
    /\ rpc \in [Sends -> {"none", "queued", "executing", "returned", "won", "over"}]
    /\ timer \in [Sends -> {"none", "armed", "running", "cancelled", "over"}]
    /\ resumed \in [Sends -> BOOLEAN]
    /\ result \in [Sends -> {"none", "envelope", "closed", "null"}]
    /\ heap \in [Sends -> 0 .. 1]
    /\ resumes \in [Sends -> 0 .. 2]
    /\ outcome \in [Sends -> Outcomes]

\* "OnceFlag guarantees exactly-once resumption" (DirectTransport.send): the
\* continuation is never resumed twice, and the caller is never past it
\* without having been resumed.
ResumedExactlyOnce ==
    \A c \in Sends : rpc[c] # "none" =>
        resumes[c] = IF caller[c] = "resumed" THEN 1 ELSE 0

\* "its memory is freed when it returns" (DirectTransport.send): once the
\* closure is over the answer has been freed, whoever won the race, and no
\* caller has been handed an answer that is still on the heap.
AnswerFreed ==
    \A c \in Sends : rpc[c] = "over" \/ outcome[c] = "data" => heap[c] = 0

\* "the continuation resumes within deadline seconds" (DirectTransport.send):
\* every caller gets an answer, also when bitcoin_rpc blocks for ever.
EverySendAnswered ==
    \A c \in Sends : caller[c] \in {"direct", "waiting"} ~> caller[c] = "resumed"

=============================================================================
