----------------------------- MODULE CheckQueue -----------------------------
(***************************************************************************)
(* The script check queue (CCheckQueue): a master adds the checks of one   *)
(* block after another, worker threads take batches of them, and the       *)
(* master joins the pool in Complete until every check is done.            *)
(*                                                                         *)
(* An action is one critical section of m_mutex, with the wait of the      *)
(* condition variable at its end, or the work between two of them.  "As    *)
(* the order of booleans doesn't matter", the queue is a set.  The error a *)
(* check returns is the check itself.                                      *)
(***************************************************************************)
EXTENDS Integers, FiniteSets

CONSTANTS
    Workers, Master,
    Checks,
    BlockOf,      \* the block each check belongs to, from 1
    MaxBlocks,
    Bad,          \* the checks that return an error
    nBatchSize,
    None          \* std::nullopt

ASSUME CheckQueueAssumption ==
    /\ Master \notin Workers
    /\ IsFiniteSet(Checks) /\ None \notin Checks /\ Bad \subseteq Checks
    /\ MaxBlocks \in Nat
    /\ BlockOf \in [Checks -> 1 .. MaxBlocks]
    /\ nBatchSize \in Nat \ {0}

Threads == Workers \cup {Master}

VARIABLES
    queue, nIdle, nTotal, nTodo, m_result, m_request_stop,
    pc,         \* where each thread is in Loop, or the master outside of it
    vChecks,    \* the batch of each thread; nNow is its size
    do_work, local_result,
    block,      \* the block ConnectBlock is at; its control exists unless idle
    added,      \* history: the checks added for this block
    notify,     \* the notifications Add and the destructor still owe
    returned    \* what the last Complete returned

queueVars == <<queue, nIdle, nTotal, nTodo, m_result, m_request_stop, pc, vChecks,
              do_work, local_result, block, added, notify, returned>>

LoopStates == {"enter", "waiting", "woken", "work", "worked", "done"}
Outside == {"idle", "adding", "stopping", "joined"}

QueueTypeOK ==
    /\ queue \in SUBSET Checks /\ added \in SUBSET Checks
    /\ nIdle \in Int /\ nTotal \in Int /\ nTodo \in Int
    /\ m_result \in Checks \cup {None} /\ returned \in Checks \cup {None}
    /\ m_request_stop \in BOOLEAN
    /\ pc \in [Threads -> LoopStates \cup Outside]
    /\ vChecks \in [Threads -> SUBSET Checks]
    /\ do_work \in [Threads -> BOOLEAN]
    /\ local_result \in [Threads -> Checks \cup {None}]
    /\ block \in 0 .. MaxBlocks
    /\ notify \in {"none", "one", "all"}

QueueInit ==
    /\ queue = {} /\ nIdle = 0 /\ nTotal = 0 /\ nTodo = 0
    /\ m_result = None /\ m_request_stop = FALSE
    /\ pc = [t \in Threads |-> IF t = Master THEN "idle" ELSE "enter"]
    /\ vChecks = [t \in Threads |-> {}]
    /\ do_work = [t \in Threads |-> FALSE]
    /\ local_result = [t \in Threads |-> None]
    /\ block = 0 /\ added = {} /\ notify = "none" /\ returned = None

-----------------------------------------------------------------------------
(* Loop. *)

\* "aim for increasingly smaller batches"
BatchSize(total, idle) ==
    LET share == Cardinality(queue) \div (total + idle + 1)
        capped == IF share < nBatchSize THEN share ELSE nBatchSize
    IN  IF capped > 1 THEN capped ELSE 1

\* The master takes the result with it.
Return(res) == returned' = res /\ m_result' = None

\* The inner while and what follows it, up to the end of the critical section.
\* Its parameters are the counters as the section has left them.
Proceed(t, res, todo, total, idle, states) ==
    \/ /\ queue = {} /\ ~m_request_stop /\ t = Master /\ todo = 0
       /\ pc' = [states EXCEPT ![t] = "idle"] /\ Return(res)
       /\ nTotal' = total - 1 /\ nIdle' = idle /\ vChecks' = [vChecks EXCEPT ![t] = {}]
       /\ UNCHANGED <<queue, do_work>>
    \/ /\ queue = {} /\ ~m_request_stop /\ ~(t = Master /\ todo = 0)
       /\ pc' = [states EXCEPT ![t] = "waiting"]
       /\ nIdle' = idle + 1 /\ nTotal' = total /\ vChecks' = [vChecks EXCEPT ![t] = {}]
       /\ m_result' = res /\ UNCHANGED <<queue, do_work, returned>>
    \/ /\ m_request_stop
       /\ pc' = [states EXCEPT ![t] = "done"]
       /\ nIdle' = idle /\ nTotal' = total /\ vChecks' = [vChecks EXCEPT ![t] = {}]
       /\ m_result' = res /\ UNCHANGED <<queue, do_work, returned>>
    \/ /\ queue # {} /\ ~m_request_stop
       /\ \E batch \in SUBSET queue :
             /\ Cardinality(batch) = BatchSize(total, idle)
             /\ vChecks' = [vChecks EXCEPT ![t] = batch] /\ queue' = queue \ batch
       /\ pc' = [states EXCEPT ![t] = "work"]
       /\ do_work' = [do_work EXCEPT ![t] = res = None]
       /\ nIdle' = idle /\ nTotal' = total
       /\ m_result' = res /\ UNCHANGED returned

\* The first iteration.
Enter(t) ==
    /\ pc[t] = "enter"
    /\ nTodo' = nTodo /\ Proceed(t, m_result, nTodo, nTotal + 1, nIdle, pc)
    /\ UNCHANGED <<m_request_stop, local_result, block, added, notify>>

\* cond.wait has been notified, or wakes spuriously, and has the mutex again.
Resume(t) ==
    /\ pc[t] = "woken"
    /\ nTodo' = nTodo /\ Proceed(t, m_result, nTodo, nTotal, nIdle - 1, pc)
    /\ UNCHANGED <<m_request_stop, local_result, block, added, notify>>

SpuriousWakeup(t) ==
    /\ pc[t] = "waiting" /\ pc' = [pc EXCEPT ![t] = "woken"]
    /\ UNCHANGED <<queue, nIdle, nTotal, nTodo, m_result, m_request_stop, vChecks,
                   do_work, local_result, block, added, notify, returned>>

\* Mutant: a result is never lost, not even to an earlier one.
KeptResultOverwrites(t) == IF local_result[t] # None THEN local_result[t] ELSE m_result

\* The first error wins.
KeptResult(t) ==
    IF local_result[t] # None /\ m_result = None THEN local_result[t] ELSE m_result

\* Mutant: the worker that finished last tells nobody.
InformNobody(t, todo) == pc

\* "We processed the last element; inform the master".
InformMaster(t, todo) ==
    IF todo = 0 /\ t # Master /\ pc[Master] = "waiting"
    THEN [pc EXCEPT ![Master] = "woken"] ELSE pc

\* The clean-up of the previous iteration, then the next one.
CleanUp(t) ==
    /\ pc[t] = "worked"
    /\ LET todo == nTodo - Cardinality(vChecks[t])
       IN  /\ nTodo' = todo
           /\ local_result' = [local_result EXCEPT ![t] =
                  IF @ # None /\ m_result = None THEN None ELSE @]
           /\ Proceed(t, KeptResult(t), todo, nTotal, nIdle, InformMaster(t, todo))
    /\ UNCHANGED <<m_request_stop, block, added, notify>>

\* The checks of the batch, in some order, until one returns an error.
Execute(t) ==
    /\ pc[t] = "work" /\ pc' = [pc EXCEPT ![t] = "worked"]
    /\ IF ~do_work[t] THEN UNCHANGED local_result
       ELSE \E r \in IF vChecks[t] \cap Bad = {} THEN {None} ELSE vChecks[t] \cap Bad :
               local_result' = [local_result EXCEPT ![t] = r]
    /\ UNCHANGED <<queue, nIdle, nTotal, nTodo, m_result, m_request_stop, vChecks,
                   do_work, block, added, notify, returned>>

-----------------------------------------------------------------------------
(* The master outside of Loop. *)

\* CCheckQueueControl takes m_control_mutex for the next block.
NewControl ==
    /\ pc[Master] = "idle" /\ block < MaxBlocks
    /\ block' = block + 1 /\ added' = {} /\ pc' = [pc EXCEPT ![Master] = "adding"]
    /\ UNCHANGED <<queue, nIdle, nTotal, nTodo, m_result, m_request_stop, vChecks,
                   do_work, local_result, notify, returned>>

\* Add, up to the unlock.
Add(S) ==
    /\ pc[Master] = "adding" /\ notify = "none" /\ S # {}
    /\ queue' = queue \cup S /\ added' = added \cup S
    /\ nTodo' = nTodo + Cardinality(S)
    /\ notify' = IF Cardinality(S) = 1 THEN "one" ELSE "all"
    /\ UNCHANGED <<nIdle, nTotal, m_result, m_request_stop, pc, vChecks, do_work,
                   local_result, block, returned>>

\* notify_one wakes one waiting worker, if there is one; notify_all all of them.
Notify ==
    /\ notify # "none" /\ notify' = "none"
    /\ LET waiting == {w \in Workers : pc[w] = "waiting"}
       IN  \E S \in IF notify = "all" \/ waiting = {} THEN {waiting} ELSE {{w} : w \in waiting} :
              pc' = [t \in Threads |-> IF t \in S THEN "woken" ELSE pc[t]]
    /\ UNCHANGED <<queue, nIdle, nTotal, nTodo, m_result, m_request_stop, vChecks,
                   do_work, local_result, block, added, returned>>

\* Every transaction has been looked at, or one of them ended the block early;
\* the master's Loop starts with its own, empty local_result.
Complete ==
    /\ pc[Master] = "adding" /\ notify = "none"
    /\ pc' = [pc EXCEPT ![Master] = "enter"]
    /\ local_result' = [local_result EXCEPT ![Master] = None]
    /\ UNCHANGED <<queue, nIdle, nTotal, nTodo, m_result, m_request_stop, vChecks,
                   do_work, block, added, notify, returned>>

\* Mutant: the destructor wakes one worker.
DestroyNotifiesOne ==
    /\ pc[Master] = "idle" /\ pc' = [pc EXCEPT ![Master] = "stopping"]
    /\ m_request_stop' = TRUE /\ notify' = "one"
    /\ UNCHANGED <<queue, nIdle, nTotal, nTodo, m_result, vChecks, do_work,
                   local_result, block, added, returned>>

\* ~CCheckQueue, up to the unlock...
Destroy ==
    /\ pc[Master] = "idle" /\ pc' = [pc EXCEPT ![Master] = "stopping"]
    /\ m_request_stop' = TRUE /\ notify' = "all"
    /\ UNCHANGED <<queue, nIdle, nTotal, nTodo, m_result, vChecks, do_work,
                   local_result, block, added, returned>>

\* ...and the join of the workers.
Join ==
    /\ pc[Master] = "stopping" /\ notify = "none"
    /\ \A w \in Workers : pc[w] = "done"
    /\ pc' = [pc EXCEPT ![Master] = "joined"]
    /\ UNCHANGED <<queue, nIdle, nTotal, nTodo, m_result, m_request_stop, vChecks,
                   do_work, local_result, block, added, notify, returned>>

Over == pc[Master] = "joined" /\ UNCHANGED queueVars

ThreadStep(t) == Enter(t) \/ Resume(t) \/ CleanUp(t) \/ Execute(t)

QueueNext ==
    \/ \E t \in Threads : ThreadStep(t) \/ SpuriousWakeup(t)
    \/ NewControl
    \/ \E S \in SUBSET {c \in Checks \ added : BlockOf[c] = block} : Add(S)
    \/ Notify \/ Complete \/ Destroy \/ Join \/ Over

QueueSpec == QueueInit /\ [][QueueNext]_queueVars

\* Threads that hold or wait for no lock run on, and a free mutex is granted.
QueueFairSpec ==
    /\ QueueSpec /\ WF_queueVars(Notify) /\ WF_queueVars(Join)
    /\ \A t \in Threads : WF_queueVars(ThreadStep(t))

-----------------------------------------------------------------------------
(* Properties. *)

Completed == pc[Master] \in {"idle", "stopping", "joined"}

\* "The overall result of the computation is std::nullopt if all invocations
\* return std::nullopt, or one of the other results": Complete answers for the
\* checks of its own block, whatever a thread remembers of the block before.
ResultRight ==
    Completed => returned \in IF added \cap Bad = {} THEN {None} ELSE added \cap Bad

\* The control "guarantees the passed queue is finished before continuing": no
\* thread still looks at the transactions of a block ConnectBlock has left.
NothingInFlight ==
    Completed => queue = {} /\ nTodo = 0 /\ \A t \in Threads : pc[t] \notin {"work", "worked"}

\* When Complete has returned, it has returned the right result and left nothing
\* in flight.
CompleteMeansDone == ResultRight /\ NothingInFlight

\* Complete returns: the master is never left asleep with all checks done.
CompleteReturns == pc[Master] = "enter" ~> pc[Master] = "idle"

\* The destructor returns: no worker sleeps through m_request_stop.
DestructorReturns == pc[Master] = "stopping" ~> pc[Master] = "joined"

=============================================================================
