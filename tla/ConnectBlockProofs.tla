------------------------- MODULE ConnectBlockProofs -------------------------
(***************************************************************************)
(* What connecting a block relies on.                                      *)
(*                                                                         *)
(* 1. The script checks: Complete answers for its own block, and leaves    *)
(*    nothing in flight, for any number of workers, checks and blocks and  *)
(*    any batch size.                                                      *)
(* 2. The coins: their database survives every interleaving of blocks,     *)
(*    flushes, failed flushes, crashes and replays, for every block tree.  *)
(***************************************************************************)
EXTENDS CheckQueue, Coins, FiniteSetTheorems, TLAPS

-----------------------------------------------------------------------------
(* The check queue. *)

Pending == queue \cup UNION {vChecks[t] : t \in Threads}

\* The batches and the queue are disjoint, and a thread has a batch while it works.
BatchesSound ==
    /\ \A t \in Threads : vChecks[t] # {} <=> pc[t] \in {"work", "worked"}
    /\ \A t \in Threads : vChecks[t] \cap queue = {}
    /\ \A t, u \in Threads : t # u => vChecks[t] \cap vChecks[u] = {}

\* What a thread at work knows of its batch: either it looks at the checks, or
\* the block has failed already, and cannot be completed before it is done.
WorkSound(t) ==
    /\ pc[t] \in {"work", "worked"} /\ ~do_work[t] => m_result # None
    /\ pc[t] = "worked" /\ do_work[t] =>
           \/ local_result[t] = None /\ vChecks[t] \cap Bad = {}
           \/ local_result[t] \in vChecks[t] \cap Bad

MasterSound ==
    /\ pc[Master] \in {"stopping", "joined"} <=> m_request_stop
    /\ pc[Master] # "done"
    /\ \A w \in Workers : pc[w] \in LoopStates
    /\ Completed => Pending = {} /\ m_result = None

\* The inductive invariant.  A thread may still remember an error of the block
\* before; WorkSound is why it never hands it on, and MasterSound why no thread
\* is at work when the master leaves.
QueueInv ==
    /\ QueueTypeOK /\ BatchesSound /\ MasterSound
    /\ Pending \subseteq added /\ nTodo = Cardinality(Pending)
    /\ m_result \in (added \cap Bad) \cup {None}
    /\ m_result = None /\ ~Completed => added \cap Bad \subseteq Pending
    /\ \A t \in Threads : WorkSound(t)
    /\ ResultRight

LEMMA PendingFinite == QueueTypeOK => IsFiniteSet(Pending)
  <1>1. QueueTypeOK => Pending \subseteq Checks
    BY DEF QueueTypeOK, Pending
  <1>2. QED
    BY <1>1, FS_Subset, CheckQueueAssumption

\* "Don't do batches smaller than 1 (duh)": no thread takes an empty batch,
\* which would leave the result of its last batch to be counted again.
LEMMA BatchIsNotEmpty ==
    ASSUME NEW total, NEW idle
    PROVE  BatchSize(total, idle) # Cardinality({})
  <1> DEFINE share == Cardinality(queue) \div (total + idle + 1)
             capped == IF share < nBatchSize THEN share ELSE nBatchSize
  <1>1. BatchSize(total, idle) = IF capped > 1 THEN capped ELSE 1
    BY DEF BatchSize
  <1> HIDE DEF capped
  <1>2. ~(0 > 1) /\ 1 # 0
    OBVIOUS
  <1>3. BatchSize(total, idle) # 0
    BY <1>1, <1>2, Zenon
  <1>4. QED
    BY <1>3, FS_EmptySet

\* Done checks leave what is pending, and added ones join it.
LEMMA Counting ==
    ASSUME NEW P, NEW S, IsFiniteSet(P), IsFiniteSet(S)
    PROVE  /\ S \subseteq P => Cardinality(P \ S) = Cardinality(P) - Cardinality(S)
           /\ S \cap P = {} => Cardinality(P \cup S) = Cardinality(P) + Cardinality(S)
  <1>1. Cardinality(P) \in Nat /\ Cardinality(S) \in Nat /\ Cardinality({}) = 0
    BY ONLY IsFiniteSet(P), IsFiniteSet(S), FS_CardinalityType, FS_EmptySet, Zenon
  <1>2. S \subseteq P => P \cap S = S
    BY Zenon
  <1>3. S \cap P = {} => P \cap S = {}
    OBVIOUS
  <1>4. Cardinality(P \ S) = Cardinality(P) - Cardinality(P \cap S)
    BY FS_Difference
  <1>5. Cardinality(P \cup S) = Cardinality(P) + Cardinality(S) - Cardinality(P \cap S)
    BY FS_Union
  <1>6. S \subseteq P => Cardinality(P \ S) = Cardinality(P) - Cardinality(S)
    BY <1>2, <1>4, Zenon
  <1>7. S \cap P = {} => Cardinality(P \cap S) = 0
    BY <1>1, <1>3, Zenon
  <1>8. QED
    BY ONLY <1>1, <1>5, <1>6, <1>7

LEMMA InitQueueInv == QueueInit => QueueInv
  <1> SUFFICES ASSUME QueueInit PROVE QueueInv
    OBVIOUS
  <1>1. QueueTypeOK
    <2>1. pc \in [Threads -> LoopStates \cup Outside]
      BY DEF QueueInit, Threads, LoopStates, Outside
    <2>2. /\ vChecks \in [Threads -> SUBSET Checks]
          /\ local_result \in [Threads -> Checks \cup {None}]
          /\ block \in 0 .. MaxBlocks
      BY CheckQueueAssumption DEF QueueInit
    <2>3. do_work \in [Threads -> BOOLEAN] /\ m_request_stop \in BOOLEAN
      BY Zenon DEF QueueInit
    <2>4. QED
      BY <2>1, <2>2, <2>3 DEF QueueInit, QueueTypeOK
  <1>2. Pending = {}
    BY DEF QueueInit, Pending
  <1>3. Cardinality(Pending) = 0
    BY <1>2, FS_EmptySet
  <1>4. BatchesSound /\ MasterSound /\ \A t \in Threads : WorkSound(t)
    BY <1>2, CheckQueueAssumption
    DEF QueueInit, BatchesSound, MasterSound, WorkSound, Threads, LoopStates, Completed
  <1>5. QED
    BY <1>1, <1>2, <1>3, <1>4 DEF QueueInit, QueueInv, ResultRight

\* The end of every critical section of Loop: once the batch of t is accounted
\* for, a new one, the return of the master, a wait or the end of the thread
\* keep the invariant.
LEMMA ProceedStep ==
    ASSUME QueueInv, NEW t \in Threads, NEW res, NEW remaining, NEW total \in Int, NEW idle \in Int,
           NEW states \in [Threads -> LoopStates \cup Outside],
           pc[t] \in {"enter", "woken", "worked"},
           \A u \in Threads : u # t =>
               states[u] = pc[u] \/ (pc[u] = "waiting" /\ states[u] = "woken"),
           remaining = Cardinality(Pending \ vChecks[t]),
           res \in (added \cap Bad) \cup {None},
           res = None => m_result = None,
           res = None /\ ~Completed => added \cap Bad \subseteq Pending \ vChecks[t],
           vChecks[t] = {} => res = m_result,
           nTodo' = remaining, Proceed(t, res, remaining, total, idle, states),
           local_result' \in [Threads -> Checks \cup {None}],
           \A u \in Threads : u # t => local_result'[u] = local_result[u],
           UNCHANGED <<m_request_stop, block, added, notify>>
    PROVE  QueueInv'
  <1> DEFINE batch == vChecks'[t]
             takes == /\ pc'[t] = "work" /\ batch # {} /\ ~m_request_stop
                      /\ do_work' = [do_work EXCEPT ![t] = res = None]
                      /\ m_result' = res /\ returned' = returned
             returns == /\ pc'[t] = "idle" /\ batch = {} /\ do_work' = do_work
                        /\ queue = {} /\ ~m_request_stop /\ t = Master /\ remaining = 0
                        /\ m_result' = None /\ returned' = res
             rests == /\ \/ pc'[t] = "waiting" /\ ~m_request_stop
                         \/ pc'[t] = "done" /\ m_request_stop
                      /\ batch = {} /\ do_work' = do_work
                      /\ m_result' = res /\ returned' = returned
  <1>0. /\ QueueTypeOK /\ BatchesSound /\ MasterSound /\ Master \in Threads /\ IsFiniteSet(Pending)
        /\ vChecks \in [Threads -> SUBSET Checks] /\ do_work \in [Threads -> BOOLEAN]
        /\ queue \subseteq Checks
    BY PendingFinite DEF QueueInv, QueueTypeOK, Threads
  <1>1. /\ vChecks' = [vChecks EXCEPT ![t] = batch] /\ batch \subseteq queue
        /\ queue' = queue \ batch
        /\ pc' = [states EXCEPT ![t] = pc'[t]]
        /\ nIdle' \in Int /\ nTotal' \in Int
    BY <1>0 DEF Proceed, Return
  <1>2. takes \/ returns \/ rests
    <2>1. CASE queue # {} /\ ~m_request_stop
      <3>1. PICK b \in SUBSET queue : /\ Cardinality(b) = BatchSize(total, idle)
                                      /\ vChecks' = [vChecks EXCEPT ![t] = b]
        BY <2>1 DEF Proceed
      <3>2. b # {}
        BY <3>1, BatchIsNotEmpty
      <3>3. QED
        BY <1>0, <2>1, <3>1, <3>2 DEF Proceed
    <2>2. CASE ~(queue # {} /\ ~m_request_stop)
      BY <1>0, <2>2 DEF Proceed, Return
    <2>3. QED
      BY <2>1, <2>2
  <1> HIDE DEF batch
  <1>3. /\ pc'[t] \in LoopStates \cup Outside
        /\ pc' \in [Threads -> LoopStates \cup Outside]
        /\ \A u \in Threads : u # t =>
               /\ pc'[u] = pc[u] \/ (pc[u] = "waiting" /\ pc'[u] = "woken")
               /\ vChecks'[u] = vChecks[u]
        /\ vChecks'[t] = batch
    BY <1>0, <1>1, <1>2 DEF LoopStates, Outside
  <1>4. /\ do_work' \in [Threads -> BOOLEAN]
        /\ \A u \in Threads : u # t => do_work'[u] = do_work[u]
        /\ takes => do_work'[t] = (res = None)
    BY <1>0, <1>2, Zenon
  <1>5. Pending' = Pending \ vChecks[t]
    <2>1. ASSUME NEW x PROVE x \in Pending' <=> x \in Pending \ vChecks[t]
      <3>1. x \in Pending' <=> x \in queue' \/ \E u \in Threads : x \in vChecks'[u]
        BY DEF Pending
      <3>2. x \in Pending <=> x \in queue \/ \E u \in Threads : x \in vChecks[u]
        BY Zenon DEF Pending
      <3>3. QED
        BY <1>0, <1>1, <1>3, <3>1, <3>2, Zenon DEF BatchesSound
    <2>2. QED
      BY <2>1, Zenon
  <1>6. QueueTypeOK'
    <2>1. res \in Checks \cup {None} /\ returned \in Checks \cup {None}
      BY <1>0 DEF QueueTypeOK
    <2>2. m_result' \in Checks \cup {None} /\ returned' \in Checks \cup {None}
      BY <1>2, <2>1, Zenon
    <2>3. queue' \in SUBSET Checks /\ vChecks' \in [Threads -> SUBSET Checks]
      BY <1>0, <1>1
    <2>4. nTodo' \in Int
      <3>1. IsFiniteSet(Pending \ vChecks[t])
        BY <1>0, FS_Difference, Zenon
      <3>2. Cardinality(Pending \ vChecks[t]) \in Nat
        BY <3>1, FS_CardinalityType, Zenon
      <3>3. QED
        BY <3>2
    <2>5. /\ added' \in SUBSET Checks /\ m_request_stop' \in BOOLEAN
          /\ block' \in 0 .. MaxBlocks /\ notify' \in {"none", "one", "all"}
      BY <1>0, Zenon DEF QueueTypeOK
    <2>6. QED
      BY <1>1, <1>3, <1>4, <2>2, <2>3, <2>4, <2>5, Zenon DEF QueueTypeOK
  <1>7. BatchesSound'
    BY <1>0, <1>1, <1>2, <1>3 DEF BatchesSound
  <1>8. returns => Pending' = {}
    BY <1>0, <1>5, FS_Difference, FS_EmptySet, Zenon
  <1>9. ASSUME NEW u \in Threads PROVE WorkSound(u)'
    <2>1. CASE u = t
      BY <1>2, <1>4, <2>1 DEF WorkSound
    <2>2. CASE u # t /\ returns
      <3>1. vChecks'[u] = {}
        BY <1>8, <2>2 DEF Pending
      <3>2. QED
        BY <1>7, <3>1 DEF BatchesSound, WorkSound
    <2>3. CASE u # t /\ ~returns
      <3>1. m_result' = None => m_result = None
        BY <1>2, <2>3
      <3>2. WorkSound(u)
        BY DEF QueueInv
      <3>3. QED
        BY <1>3, <1>4, <2>3, <3>1, <3>2 DEF WorkSound
    <2>4. QED
      BY <2>1, <2>2, <2>3
  <1>10. Completed' => returns \/ /\ Completed /\ t # Master
                                  /\ res = m_result /\ ~takes /\ ~returns
    <2>1. CASE t = Master
      BY <1>0, <1>2, <2>1, Zenon DEF Completed, MasterSound
    <2>2. CASE t # Master
      <3>1. Completed' => Completed
        BY <1>0, <1>3, <2>2 DEF Completed
      <3>2. Completed => vChecks[t] = {} /\ queue = {}
        BY <1>0 DEF MasterSound, Pending
      <3>3. Completed' => ~takes
        BY <1>1, <3>1, <3>2
      <3>4. QED
        BY <2>2, <3>1, <3>2, <3>3
    <2>3. QED
      BY <2>1, <2>2, Zenon
  <1>11. Completed' => Pending' = {} /\ m_result' = None
    BY <1>0, <1>2, <1>5, <1>8, <1>10 DEF MasterSound
  <1>12. MasterSound'
    <2>1. \A w \in Workers : pc'[w] \in LoopStates
      BY <1>0, <1>2, <1>3, CheckQueueAssumption, Zenon DEF MasterSound, LoopStates, Threads
    <2>2. pc'[Master] # "done" /\ (pc'[Master] \in {"stopping", "joined"} <=> m_request_stop')
      BY <1>0, <1>2, <1>3 DEF MasterSound
    <2>3. QED
      BY <1>11, <2>1, <2>2, Zenon DEF MasterSound
  <1>13. ResultRight'
    <2>1. CASE returns
      <3>1. res \in IF added \cap Bad = {} THEN {None} ELSE added \cap Bad
        BY <1>0, <1>5, <1>8, <2>1, Zenon DEF Completed
      <3>2. QED
        BY <2>1, <3>1 DEF ResultRight
    <2>2. CASE ~returns
      BY <1>2, <1>10, <2>2, Zenon DEF ResultRight, QueueInv
    <2>3. QED
      BY <2>1, <2>2
  <1>14. /\ Pending' \subseteq added' /\ nTodo' = Cardinality(Pending')
         /\ m_result' \in (added' \cap Bad) \cup {None}
         /\ m_result' = None /\ ~Completed' => added' \cap Bad \subseteq Pending'
    <2>1. returns => Completed'
      BY Zenon DEF Completed
    <2>2. ~Completed' => ~Completed \/ t = Master
      BY <1>0, <1>3, Zenon DEF Completed
    <2>3. t = Master => ~Completed
      BY DEF Completed
    <2>4. QED
      BY <1>2, <1>5, <2>1, <2>2, <2>3, Zenon DEF QueueInv
  <1>15. QED
    BY <1>6, <1>7, <1>9, <1>12, <1>13, <1>14 DEF QueueInv

LEMMA EnterStep ==
    ASSUME QueueInv, NEW t \in Threads, Enter(t) \/ Resume(t)
    PROVE  QueueInv'
  <1>1. vChecks[t] = {} /\ Pending \ vChecks[t] = Pending
    BY Zenon DEF Enter, Resume, QueueInv, BatchesSound
  <1>2. PICK total \in Int, idle \in Int : Proceed(t, m_result, nTodo, total, idle, pc)
    BY DEF Enter, Resume, QueueInv, QueueTypeOK
  <1>3. /\ pc \in [Threads -> LoopStates \cup Outside] /\ pc[t] \in {"enter", "woken", "worked"}
        /\ local_result' \in [Threads -> Checks \cup {None}]
        /\ nTodo' = nTodo /\ nTodo = Cardinality(Pending \ vChecks[t])
        /\ m_result = None /\ ~Completed => added \cap Bad \subseteq Pending \ vChecks[t]
        /\ m_result \in (added \cap Bad) \cup {None}
        /\ UNCHANGED <<m_request_stop, local_result, block, added, notify>>
    BY <1>1 DEF Enter, Resume, QueueInv, QueueTypeOK
  <1>4. QED
    BY <1>2, <1>3, ProceedStep, Zenon

LEMMA CleanUpStep ==
    ASSUME QueueInv, NEW t \in Threads, CleanUp(t)
    PROVE  QueueInv'
  <1> DEFINE remaining == nTodo - Cardinality(vChecks[t])
             states == InformMaster(t, remaining)
             res == KeptResult(t)
  <1>1. QueueTypeOK /\ BatchesSound /\ MasterSound /\ WorkSound(t) /\ Master \in Threads
    BY DEF QueueInv, Threads
  <1>2. vChecks[t] \subseteq Pending
    BY DEF Pending
  <1>3. remaining = Cardinality(Pending \ vChecks[t])
    <2>1. IsFiniteSet(Pending) /\ IsFiniteSet(vChecks[t])
      BY <1>1, <1>2, PendingFinite, FS_Subset
    <2>2. QED
      BY <1>2, <2>1, Counting, Zenon DEF QueueInv
  <1>4. /\ states \in [Threads -> LoopStates \cup Outside]
        /\ \A u \in Threads : u # t =>
               states[u] = pc[u] \/ (pc[u] = "waiting" /\ states[u] = "woken")
    BY <1>1, Zenon DEF InformMaster, QueueTypeOK, LoopStates
  <1>5. ~Completed /\ vChecks[t] # {}
    BY SMTT(60), <1>1 DEF CleanUp, MasterSound, BatchesSound, Pending
  <1>6. /\ res \in (added \cap Bad) \cup {None}
        /\ res = None => m_result = None
        /\ res = None /\ ~Completed => added \cap Bad \subseteq Pending \ vChecks[t]
    <2>1. CASE m_result # None
      BY <2>1 DEF KeptResult, QueueInv
    <2>2. CASE m_result = None
      <3>1. \/ local_result[t] = None /\ vChecks[t] \cap Bad = {}
            \/ local_result[t] \in vChecks[t] \cap Bad
        BY <1>1, <2>2, Zenon DEF WorkSound, CleanUp
      <3>2. local_result[t] = None => res = None
        BY <2>2 DEF KeptResult
      <3>3. local_result[t] # None => res = local_result[t]
        BY <2>2 DEF KeptResult
      <3>4. Pending \subseteq added /\ added \cap Bad \subseteq Pending /\ None \notin Checks
        BY <1>5, <2>2, CheckQueueAssumption DEF QueueInv
      <3>5. QED
        BY <1>1, <1>2, <2>2, <3>1, <3>2, <3>3, <3>4, CheckQueueAssumption
    <2>3. QED
      BY <2>1, <2>2
  <1>7. /\ local_result' \in [Threads -> Checks \cup {None}]
        /\ \A u \in Threads : u # t => local_result'[u] = local_result[u]
    BY <1>1 DEF CleanUp, QueueTypeOK
  <1>8. /\ nTodo' = remaining /\ nTotal \in Int /\ nIdle \in Int
        /\ Proceed(t, res, remaining, nTotal, nIdle, states)
        /\ pc[t] \in {"enter", "woken", "worked"}
        /\ UNCHANGED <<m_request_stop, block, added, notify>>
    BY <1>1, Zenon DEF CleanUp, QueueTypeOK
  <1> HIDE DEF remaining, states, res
  <1>9. QED
    BY <1>3, <1>4, <1>5, <1>6, <1>7, <1>8, ProceedStep, Zenon

LEMMA ExecuteStep ==
    ASSUME QueueInv, NEW t \in Threads, Execute(t)
    PROVE  QueueInv'
  <1>1. QueueTypeOK /\ Pending' = Pending /\ Master \in Threads
    BY DEF QueueInv, Execute, Pending, Threads
  <1>2. PICK r \in Checks \cup {None} :
            /\ local_result' = [local_result EXCEPT ![t] = r]
            /\ do_work[t] => \/ r = None /\ vChecks[t] \cap Bad = {}
                             \/ r \in vChecks[t] \cap Bad
    BY <1>1 DEF Execute, QueueTypeOK
  <1>3. QueueTypeOK'
    BY <1>1, <1>2, Zenon DEF Execute, QueueTypeOK, LoopStates
  <1>4. BatchesSound' /\ MasterSound' /\ ResultRight' /\ (Completed' <=> Completed)
    BY <1>1 DEF Execute, QueueInv, QueueTypeOK, BatchesSound, MasterSound, ResultRight, Completed, LoopStates
  <1>5. \A u \in Threads : WorkSound(u)'
    BY <1>1, <1>2, Zenon DEF Execute, QueueInv, QueueTypeOK, WorkSound
  <1>6. QED
    BY <1>1, <1>3, <1>4, <1>5, Zenon DEF Execute, QueueInv

\* Steps that move threads, and no check, between places outside of a batch.
LEMMA MoveStep ==
    ASSUME QueueInv,
           pc' \in [Threads -> LoopStates \cup Outside],
           \A t \in Threads : pc'[t] \in {"work", "worked"} <=> pc[t] \in {"work", "worked"},
           \A t \in Threads : pc'[t] = "worked" <=> pc[t] = "worked",
           \A t \in Threads : pc[t] \in {"work", "worked"} => local_result'[t] = local_result[t],
           local_result' \in [Threads -> Checks \cup {None}],
           notify' \in {"none", "one", "all"}, MasterSound', Completed' => Completed,
           ~Completed' => ~Completed,
           m_request_stop' \in BOOLEAN,
           UNCHANGED <<queue, nIdle, nTotal, nTodo, m_result, vChecks, do_work, block,
                       added, returned>>
    PROVE  QueueInv'
  <1>1. QueueTypeOK /\ Pending' = Pending
    BY DEF QueueInv, Pending
  <1>2. QueueTypeOK'
    BY <1>1, Zenon DEF QueueTypeOK
  <1>3. BatchesSound' /\ \A t \in Threads : WorkSound(t)'
    BY DEF QueueInv, BatchesSound, WorkSound
  <1>4. QED
    BY <1>1, <1>2, <1>3, Zenon DEF QueueInv, ResultRight

LEMMA MovesKeepIInv ==
    ASSUME QueueInv
    PROVE  /\ \A t \in Threads : SpuriousWakeup(t) => QueueInv'
           /\ Notify \/ Complete \/ Destroy \/ Join => QueueInv'
  <1>0. /\ QueueTypeOK /\ MasterSound /\ Master \in Threads /\ Master \notin Workers
        /\ \A t \in Threads : t # Master => t \in Workers
    BY CheckQueueAssumption, Zenon DEF QueueInv, Threads
  <1>1. ASSUME NEW t \in Threads, SpuriousWakeup(t) PROVE QueueInv'
    <2>1. Pending' = Pending
      BY <1>1 DEF SpuriousWakeup, Pending
    <2>2. MasterSound' /\ (Completed' <=> Completed)
      BY <1>0, <1>1, <2>1 DEF SpuriousWakeup, QueueTypeOK, MasterSound, Completed, LoopStates
    <2>3. pc' \in [Threads -> LoopStates \cup Outside]
      BY <1>0, <1>1, Zenon DEF SpuriousWakeup, QueueTypeOK, LoopStates
    <2>4. QED
      BY <1>0, <1>1, <2>2, <2>3, MoveStep, Zenon DEF SpuriousWakeup, QueueTypeOK
  <1>2. ASSUME Notify PROVE QueueInv'
    <2>1. Pending' = Pending
      BY <1>2 DEF Notify, Pending
    <2>2. PICK S : /\ S \subseteq {w \in Workers : pc[w] = "waiting"}
                   /\ pc' = [t \in Threads |-> IF t \in S THEN "woken" ELSE pc[t]]
      BY <1>2 DEF Notify
    <2>3. MasterSound' /\ (Completed' <=> Completed)
      BY <1>0, <1>2, <2>1, <2>2 DEF Notify, QueueTypeOK, MasterSound, Completed, LoopStates, Threads
    <2>4. pc' \in [Threads -> LoopStates \cup Outside]
      BY <1>0, <2>2, Zenon DEF QueueTypeOK, LoopStates
    <2>5. QED
      BY <1>0, <1>2, <2>2, <2>3, <2>4, MoveStep DEF Notify, QueueTypeOK
  <1>3. ASSUME Complete PROVE QueueInv'
    <2>1. Pending' = Pending
      BY <1>3 DEF Complete, Pending
    <2>2. MasterSound' /\ (Completed' <=> Completed)
      BY <1>0, <1>3, <2>1 DEF Complete, QueueTypeOK, MasterSound, Completed, LoopStates, Threads
    <2>3. pc' \in [Threads -> LoopStates \cup Outside]
      BY <1>0, <1>3, Zenon DEF Complete, QueueTypeOK, LoopStates
    <2>4. QED
      BY <1>0, <1>3, <2>2, <2>3, MoveStep, Zenon DEF Complete, QueueTypeOK
  <1>4. ASSUME Destroy PROVE QueueInv'
    <2>1. Pending' = Pending
      BY <1>4 DEF Destroy, Pending
    <2>2. MasterSound' /\ (Completed' <=> Completed)
      BY <1>0, <1>4, <2>1 DEF Destroy, QueueTypeOK, MasterSound, Completed, LoopStates, Threads
    <2>3. pc' \in [Threads -> LoopStates \cup Outside]
      BY <1>0, <1>4, Zenon DEF Destroy, QueueTypeOK, Outside
    <2>4. QED
      BY <1>0, <1>4, <2>2, <2>3, MoveStep DEF Destroy, QueueTypeOK
  <1>5. ASSUME Join PROVE QueueInv'
    <2>1. Pending' = Pending
      BY <1>5 DEF Join, Pending
    <2>2. MasterSound' /\ (Completed' <=> Completed)
      BY <1>0, <1>5, <2>1 DEF Join, QueueTypeOK, MasterSound, Completed, LoopStates, Threads
    <2>3. pc' \in [Threads -> LoopStates \cup Outside]
      BY <1>0, <1>5 DEF Join, QueueTypeOK, Outside
    <2>4. QED
      BY <1>0, <1>5, <2>2, <2>3, MoveStep, Zenon DEF Join, QueueTypeOK
  <1>6. QED
    BY <1>1, <1>2, <1>3, <1>4, <1>5

LEMMA NewControlStep ==
    ASSUME QueueInv, NewControl
    PROVE  QueueInv'
  <1>1. /\ QueueTypeOK /\ MasterSound /\ Master \in Threads /\ Master \notin Workers
        /\ Pending = {} /\ m_result = None
    BY CheckQueueAssumption DEF QueueInv, Threads, NewControl, MasterSound, Completed
  <1>2. Pending' = Pending
    BY DEF NewControl, Pending
  <1>3. QueueTypeOK'
    BY <1>1, CheckQueueAssumption DEF NewControl, QueueTypeOK, Outside
  <1>4. BatchesSound' /\ MasterSound' /\ ResultRight'
    BY <1>1, <1>2, Zenon
    DEF NewControl, QueueInv, QueueTypeOK, BatchesSound, MasterSound, ResultRight, Completed, Threads
  <1>5. \A t \in Threads : WorkSound(t)'
    BY <1>1 DEF NewControl, QueueInv, QueueTypeOK, WorkSound
  <1>6. QED
    BY <1>1, <1>2, <1>3, <1>4, <1>5, Zenon DEF NewControl, QueueInv

LEMMA AddStep ==
    ASSUME QueueInv, NEW S \in SUBSET (Checks \ added), Add(S)
    PROVE  QueueInv'
  <1>1. QueueTypeOK /\ Pending \subseteq added /\ S \cap Pending = {} /\ IsFiniteSet(S)
    BY FS_Subset, CheckQueueAssumption DEF QueueInv
  <1>2. Pending' = Pending \cup S
    BY DEF Add, Pending
  <1>3. nTodo' = Cardinality(Pending')
    BY <1>1, <1>2, PendingFinite, Counting, Zenon DEF Add, QueueInv
  <1>4. QueueTypeOK'
    BY <1>1, FS_CardinalityType DEF Add, QueueTypeOK
  <1>5. BatchesSound'
    <2>1. \A t \in Threads : vChecks[t] \subseteq Pending
      BY DEF Pending
    <2>2. QED
      BY <1>1, <2>1 DEF Add, QueueInv, BatchesSound
  <1>6. MasterSound' /\ ResultRight' /\ ~Completed
    BY Zenon DEF Add, QueueInv, MasterSound, ResultRight, Completed
  <1>7. \A t \in Threads : WorkSound(t)'
    BY DEF Add, QueueInv, WorkSound
  <1>8. QED
    BY <1>1, <1>2, <1>3, <1>4, <1>5, <1>6, <1>7 DEF Add, QueueInv

LEMMA NextQueueInv == QueueInv /\ [QueueNext]_queueVars => QueueInv'
  <1> SUFFICES ASSUME QueueInv, [QueueNext]_queueVars PROVE QueueInv'
    BY Zenon
  <1>1. CASE UNCHANGED queueVars
    BY SMTT(60), <1>1 DEF queueVars, QueueInv, QueueTypeOK, BatchesSound, MasterSound, WorkSound, ResultRight,
                Completed, Pending
  <1>2. ASSUME NEW t \in Threads, ThreadStep(t) \/ SpuriousWakeup(t) PROVE QueueInv'
    BY <1>2, EnterStep, CleanUpStep, ExecuteStep, MovesKeepIInv DEF ThreadStep
  <1>3. ASSUME NEW S \in SUBSET {c \in Checks \ added : BlockOf[c] = block}, Add(S) PROVE QueueInv'
    BY <1>3, AddStep
  <1>4. CASE NewControl
    BY <1>4, NewControlStep
  <1>5. CASE Notify \/ Complete \/ Destroy \/ Join
    BY <1>5, MovesKeepIInv
  <1>6. QED
    BY <1>1, <1>2, <1>3, <1>4, <1>5 DEF QueueNext, Over

\* What Complete returns is one of the errors of the checks added for its block,
\* or nothing if none of them fails, and when it returns no thread holds or will
\* take a check of the block.
THEOREM CheckQueueCorrect == QueueSpec => []CompleteMeansDone
  <1>1. QueueInv => NothingInFlight
    <2> SUFFICES ASSUME QueueInv, Completed
                 PROVE  queue = {} /\ nTodo = 0 /\ \A t \in Threads : pc[t] \notin {"work", "worked"}
      BY DEF NothingInFlight
    <2>1. Pending = {} /\ nTodo = Cardinality(Pending)
      BY DEF QueueInv, MasterSound
    <2>2. queue = {} /\ \A t \in Threads : vChecks[t] = {}
      BY <2>1 DEF Pending
    <2>3. nTodo = 0
      BY <2>1, FS_EmptySet
    <2>4. QED
      BY <2>2, <2>3 DEF QueueInv, BatchesSound
  <1>2. QueueInv => ResultRight
    BY Zenon DEF QueueInv
  <1>3. QED
    BY InitQueueInv, NextQueueInv, <1>1, <1>2, PTL DEF QueueSpec, CompleteMeansDone

-----------------------------------------------------------------------------
(* The coins database. *)

\* The combinations SanityCheck allows, and what they say of the base coin c.
EntrySound(e, c) ==
    /\ ~e.in => e = Absent
    /\ e.in /\ ~e.dirty => e.coin = c /\ c # 0 /\ ~e.fresh
    /\ e.fresh => e.coin # 0

FreshSound(e, c) == e.fresh => c = 0

CoinSound(e, c) == e \in Entry /\ c \in Nat /\ EntrySound(e, c) /\ FreshSound(e, c)

\* Undo data belongs to valid blocks on a chain of such blocks, and holds
\* what the block spent.
UndoSound(u) ==
    \A b \in Blocks : u[b].known =>
        /\ Valid(b)
        /\ b # Genesis => u[Parent[b]].known
        /\ \A o \in Spends[b] : u[b].coins[o] =
              IF o \in Creates[b] THEN Height[b] ELSE Utxo[Parent[b]][o]

\* A database is the UTXO set of its best block, or is on its way between its
\* two heads, and the block index on disk knows the blocks it names.
DiskSound(d) ==
    /\ d.heads = NoHeads => d.coins = Utxo[d.best]
    /\ d.best # NoBlock => d.heads = NoHeads /\ undoDisk[d.best].known
    /\ d.heads # NoHeads =>
          /\ d.heads.new # NoBlock /\ undoDisk[d.heads.new].known
          /\ d.heads.old # NoBlock => undoDisk[d.heads.old].known
          /\ \A o \in Outpoints :
                d.coins[o] = Utxo[d.heads.old][o] \/ d.coins[o] = Utxo[d.heads.new][o]

\* What a flush under way has written and what it still has to write.
FlushSound ==
    /\ best # NoBlock /\ undoDisk[best].known
    /\ \A o \in todo : cache[o].dirty
    /\ \A o \in Outpoints \ todo : disk.coins[o] = View[o]
    /\ mode = "sync" => \A o \in Outpoints \ todo : ~cache[o].dirty

Up == phase \in {"up", "flushing", "fatal"}
Replaying == phase \in {"rollback", "rollforward"}

\* The index in memory knows all that the index on disk knows.
IndexSound ==
    /\ UndoSound(undo) /\ UndoSound(undoDisk)
    /\ \A b \in Blocks : undoDisk[b].known => undo[b].known

CacheSound ==
    /\ \A o \in Outpoints : EntrySound(cache[o], disk.coins[o])
    /\ phase = "up" \/ Replaying =>
          \A o \in Outpoints : FreshSound(cache[o], disk.coins[o])

\* CoinsTip stands at its best block.
TipSound ==
    /\ Up \/ phase = "replayed" =>
          /\ \A o \in Outpoints : View[o] = Utxo[best][o]
          /\ best # NoBlock => undo[best].known
          /\ disk.heads = NoHeads \/ disk.heads.new = best
    /\ phase = "up" => disk.heads = NoHeads

\* During a replay every coin is right for the block the replay is at, or
\* already right for the block it goes to.
ReplaySound ==
    /\ Replaying =>
          /\ disk.heads # NoHeads
          /\ \A o \in Outpoints : View[o] = Utxo[best][o] \/ View[o] = Utxo[disk.heads.new][o]
    /\ phase = "rollback" => best # NoBlock /\ undo[best].known
    /\ Replaying \/ phase = "replayed" => mode = "flush" /\ undo = undoDisk

IInv ==
    /\ TypeOK
    /\ IndexSound
    /\ DiskSound(disk) /\ DiskSound(durable)
    /\ CacheSound /\ TipSound /\ ReplaySound
    /\ phase \in {"flushing", "replayed"} => FlushSound
    /\ phase = "down" => cache = Cold
    /\ OnlyInvalidRejected

-----------------------------------------------------------------------------
(* What the steps need to know of the tree. *)

\* Only the genesis block has no parent, heights of creating blocks are no
\* "no coin", and the UTXO sets are sets of coins.
LEMMA TreeFacts ==
    /\ Genesis \in Blocks /\ NoBlock \notin Blocks
    /\ \A b \in Blocks : Height[b] \in Nat /\ (b # Genesis => Parent[b] \in Blocks)
    /\ \A b \in Blocks : Creates[b] \subseteq Outpoints /\ Spends[b] \subseteq Outpoints
    /\ \A b \in Blocks : \A o \in Creates[b] : Height[b] # 0
    /\ \A b \in Blocks : Genesis \in Ancestors[b]
    /\ Parent[Genesis] = NoBlock /\ Creates[Genesis] = {} /\ Spends[Genesis] = {}
    /\ \A b \in Blocks \cup {NoBlock} : Utxo[b] \in [Outpoints -> Nat]
<1>1. \A b \in Blocks : Height[b] \in Nat /\ (b # Genesis => Parent[b] \in Blocks)
  BY CoinsAssumption
<1>2. \A b \in Blocks : Creates[b] \subseteq Outpoints /\ Spends[b] \subseteq Outpoints
  BY CoinsAssumption
<1>3. \A b \in Blocks : \A o \in Creates[b] : Height[b] # 0
  BY CoinsAssumption
<1>4. \A b \in Blocks \cup {NoBlock} : Utxo[b] \in [Outpoints -> Nat]
  BY CoinsAssumption, Zenon
<1>5. /\ Genesis \in Blocks /\ NoBlock \notin Blocks
      /\ \A b \in Blocks : Genesis \in Ancestors[b]
      /\ Parent[Genesis] = NoBlock /\ Creates[Genesis] = {} /\ Spends[Genesis] = {}
  BY CoinsAssumption, Zenon
<1> QED
  BY <1>1, <1>2, <1>3, <1>4, <1>5, Zenon

\* The UTXO set after a block, coin by coin.
LEMMA UtxoOf ==
    \A b \in Blocks : \A o \in Outpoints :
        Utxo[b][o] = IF o \in Spends[b] THEN 0
                     ELSE IF o \in Creates[b] THEN Height[b] ELSE Utxo[Parent[b]][o]
  BY CoinsAssumption DEF Applied

\* An entry that is not dirty is not fresh.
LEMMA CleanNotFresh ==
    ASSUME NEW e, NEW c, EntrySound(e, c), ~e.dirty
    PROVE  FreshSound(e, c)
  BY DEF EntrySound, FreshSound, Absent

\* Two sets of coins that agree on every outpoint are the same.
LEMMA SameCoins ==
    ASSUME NEW f \in [Outpoints -> Nat], NEW g \in [Outpoints -> Nat],
           \A o \in Outpoints : f[o] = g[o]
    PROVE  f = g
  OBVIOUS

-----------------------------------------------------------------------------
(* One outpoint. *)

\* Connecting a block through the overlay and merging it into CoinsTip gives
\* the entry that the block's effect on the coin calls for.
Connects(b, o, e, c, n) ==
    /\ CoinSound(e, c)
    /\ o \in Creates[b] => Height[b] # 0
    /\ o \in Creates[b] => Seen(e, c) = 0
    /\ o \in Spends[b] \ Creates[b] => Seen(e, c) # 0
    /\ n = Merge(e, ConnectCoin(b, o, Absent, Seen(e, c)))
    => /\ CoinSound(n, c)
       /\ Seen(n, c) = IF o \in Spends[b] THEN 0
                       ELSE IF o \in Creates[b] THEN Height[b] ELSE Seen(e, c)
       /\ ~MergeThrows(e, ConnectCoin(b, o, Absent, Seen(e, c)))

\* Every sound entry is connected that way, and the merge throws nothing.
LEMMA ConnectEntry ==
    ASSUME NEW b \in Blocks, NEW o \in Outpoints, NEW e, NEW c, NEW n
    PROVE  Connects(b, o, e, c, n)
<1> SUFFICES ASSUME CoinSound(e, c),
                    o \in Creates[b] => Height[b] # 0,
                    o \in Creates[b] => Seen(e, c) = 0,
                    o \in Spends[b] \ Creates[b] => Seen(e, c) # 0,
                    n = Merge(e, ConnectCoin(b, o, Absent, Seen(e, c)))
             PROVE  /\ CoinSound(n, c)
                    /\ Seen(n, c) = IF o \in Spends[b] THEN 0
                                    ELSE IF o \in Creates[b] THEN Height[b] ELSE Seen(e, c)
                    /\ ~MergeThrows(e, ConnectCoin(b, o, Absent, Seen(e, c)))
  BY Zenon DEF Connects
<1> USE DEF CoinSound
<1>1. Height[b] \in Nat
  BY CoinsAssumption
<1>2. CASE o \in Creates[b] /\ o \in Spends[b]
  BY <1>1, <1>2, Zenon DEF ConnectCoin, AddCoin, SpendCoin, FetchCoin, Merge, MergeThrows,
                    Seen, EntrySound, FreshSound, Entry, Absent
<1>3. CASE o \in Creates[b] /\ o \notin Spends[b]
  BY <1>1, <1>3, Zenon DEF ConnectCoin, AddCoin, Merge, MergeThrows,
                    Seen, EntrySound, FreshSound, Entry, Absent
<1>4. CASE o \notin Creates[b] /\ o \in Spends[b]
  BY <1>1, <1>4, Zenon DEF ConnectCoin, SpendCoin, FetchCoin, Merge, MergeThrows,
                    Seen, EntrySound, FreshSound, Entry, Absent
<1>5. CASE o \notin Creates[b] /\ o \notin Spends[b]
  BY <1>1, <1>5, Zenon DEF ConnectCoin, Merge, MergeThrows, Seen, Absent
<1> QED
  BY <1>2, <1>3, <1>4, <1>5, Zenon

\* Disconnecting a block takes an outpoint it touched back to the coin u it
\* found.
Disconnects(b, o, e, c, u, n) ==
    /\ CoinSound(e, c)
    /\ o \in Spends[b] => u[o] \in Nat \ {0} /\ Seen(e, c) = 0
    /\ n = Merge(FetchCoin(e, c), DisconnectCoin(b, o, Absent, Seen(e, c), u))
    => /\ CoinSound(n, c)
       /\ Seen(n, c) = IF o \in Creates[b] THEN 0 ELSE u[o]
       /\ ~MergeThrows(FetchCoin(e, c), DisconnectCoin(b, o, Absent, Seen(e, c), u))

\* Every sound entry is disconnected that way, and the merge throws nothing.
LEMMA DisconnectEntry ==
    ASSUME NEW b \in Blocks, NEW o \in Creates[b] \cup Spends[b], NEW e, NEW c, NEW u, NEW n
    PROVE  Disconnects(b, o, e, c, u, n)
<1> SUFFICES ASSUME CoinSound(e, c),
                    o \in Spends[b] => u[o] \in Nat \ {0} /\ Seen(e, c) = 0,
                    n = Merge(FetchCoin(e, c), DisconnectCoin(b, o, Absent, Seen(e, c), u))
             PROVE  /\ CoinSound(n, c)
                    /\ Seen(n, c) = IF o \in Creates[b] THEN 0 ELSE u[o]
                    /\ ~MergeThrows(FetchCoin(e, c), DisconnectCoin(b, o, Absent, Seen(e, c), u))
  BY DEF Disconnects
<1> USE DEF CoinSound
<1>2. CASE o \in Creates[b] /\ o \in Spends[b]
  BY <1>2, Zenon DEF DisconnectCoin, Restore, AddCoin, SpendCoin, FetchCoin, Merge, MergeThrows,
                    Seen, EntrySound, FreshSound, Entry, Absent
<1>3. CASE o \in Creates[b] /\ o \notin Spends[b]
  BY <1>3, Zenon DEF DisconnectCoin, SpendCoin, FetchCoin, Merge, MergeThrows,
                    Seen, EntrySound, FreshSound, Entry, Absent
<1>4. CASE o \notin Creates[b] /\ o \in Spends[b]
  BY <1>4, Zenon DEF DisconnectCoin, Restore, AddCoin, FetchCoin, Merge, MergeThrows,
                    Seen, EntrySound, FreshSound, Entry, Absent
<1> QED
  BY <1>2, <1>3, <1>4, Zenon

\* The same block undone by ReplayBlocks, in a cache straight over a database
\* that may or may not have the effects of the block.
RollsBack(b, o, e, c, u, n) ==
    /\ CoinSound(e, c)
    /\ o \in Spends[b] => u[o] \in Nat \ {0}
    /\ n = DisconnectCoin(b, o, e, c, u)
    => /\ CoinSound(n, c)
       /\ Seen(n, c) = IF o \in Creates[b] THEN 0
                       ELSE IF o \in Spends[b] THEN u[o] ELSE Seen(e, c)

\* Every sound entry is rolled back that way.
LEMMA RollbackEntry ==
    ASSUME NEW b \in Blocks, NEW o \in Outpoints, NEW e, NEW c, NEW u, NEW n
    PROVE  RollsBack(b, o, e, c, u, n)
<1> SUFFICES ASSUME CoinSound(e, c),
                    o \in Spends[b] => u[o] \in Nat \ {0},
                    n = DisconnectCoin(b, o, e, c, u)
             PROVE  /\ CoinSound(n, c)
                    /\ Seen(n, c) = IF o \in Creates[b] THEN 0
                                    ELSE IF o \in Spends[b] THEN u[o] ELSE Seen(e, c)
  BY Zenon DEF RollsBack
<1> USE DEF CoinSound
<1>2. CASE o \in Creates[b] /\ o \in Spends[b]
  BY <1>2, Zenon DEF DisconnectCoin, Restore, AddCoin, SpendCoin, FetchCoin,
                    Seen, EntrySound, FreshSound, Entry, Absent
<1>3. CASE o \in Creates[b] /\ o \notin Spends[b]
  BY <1>3, Zenon DEF DisconnectCoin, SpendCoin, FetchCoin,
                    Seen, EntrySound, FreshSound, Entry, Absent
<1>4. CASE o \notin Creates[b] /\ o \in Spends[b]
  BY <1>4, Zenon DEF DisconnectCoin, Restore, AddCoin, FetchCoin,
                    Seen, EntrySound, FreshSound, Entry, Absent
<1>5. CASE o \notin Creates[b] /\ o \notin Spends[b]
  BY <1>5, Zenon DEF DisconnectCoin
<1> QED
  BY <1>2, <1>3, <1>4, <1>5, Zenon

\* A block rolled forward by ReplayBlocks, whatever of it the database has.
RollsForward(b, o, e, c, n) ==
    /\ CoinSound(e, c)
    /\ o \in Creates[b] => Height[b] # 0
    /\ n = ReplayCoin(b, o, e, c)
    => /\ CoinSound(n, c)
       /\ Seen(n, c) = IF o \in Spends[b] THEN 0
                       ELSE IF o \in Creates[b] THEN Height[b] ELSE Seen(e, c)

\* Every sound entry is rolled forward that way.
LEMMA RollforwardEntry ==
    ASSUME NEW b \in Blocks, NEW o \in Outpoints, NEW e, NEW c, NEW n
    PROVE  RollsForward(b, o, e, c, n)
<1> SUFFICES ASSUME CoinSound(e, c),
                    o \in Creates[b] => Height[b] # 0,
                    n = ReplayCoin(b, o, e, c)
             PROVE  /\ CoinSound(n, c)
                    /\ Seen(n, c) = IF o \in Spends[b] THEN 0
                                    ELSE IF o \in Creates[b] THEN Height[b] ELSE Seen(e, c)
  BY Zenon DEF RollsForward
<1> USE DEF CoinSound
<1>1. Height[b] \in Nat
  BY CoinsAssumption, Zenon
<1>2. CASE o \in Creates[b] /\ o \in Spends[b]
  BY <1>1, <1>2, Zenon DEF ReplayCoin, Restore, AddCoin, SpendCoin, FetchCoin,
                    Seen, EntrySound, FreshSound, Entry, Absent
<1>3. CASE o \in Creates[b] /\ o \notin Spends[b]
  BY <1>1, <1>3, Zenon DEF ReplayCoin, Restore, AddCoin, FetchCoin,
                    Seen, EntrySound, FreshSound, Entry, Absent
<1>4. CASE o \notin Creates[b] /\ o \in Spends[b]
  BY <1>1, <1>4, Zenon DEF ReplayCoin, SpendCoin, FetchCoin,
                    Seen, EntrySound, FreshSound, Entry, Absent
<1>5. CASE o \notin Creates[b] /\ o \notin Spends[b]
  BY <1>5, Zenon DEF ReplayCoin
<1> QED
  BY <1>2, <1>3, <1>4, <1>5, Zenon


-----------------------------------------------------------------------------
(* The steps. *)

USE DEF Up, Replaying

LEMMA InitIInv == Init => IInv
<1> SUFFICES ASSUME Init PROVE IInv
  OBVIOUS
<1>1. TypeOK
  BY CoinsAssumption DEF Init, TypeOK, Disks, Undos, NoUndo, Entry, Cold, Absent, Empty,
                         NoHeads, Phases
<1>2. IndexSound /\ DiskSound(disk) /\ DiskSound(durable)
  BY CoinsAssumption, Zenon DEF Init, IndexSound, UndoSound, DiskSound, NoUndo, NoHeads
<1>3. CacheSound /\ TipSound /\ ReplaySound
  BY CoinsAssumption, Zenon DEF Init, CacheSound, EntrySound, FreshSound, TipSound, ReplaySound, View,
                         Seen, Cold, Absent, Empty
<1> QED
  BY <1>1, <1>2, <1>3, Zenon DEF IInv, Init, OnlyInvalidRejected

\* The view decides the validity of the next block as the UTXO set does.
LEMMA PassesIsValid ==
    ASSUME IInv, phase = "up", NEW b \in Blocks, Parent[b] = best
    PROVE  Passes(b) <=> Valid(b)
BY CoinsAssumption, Zenon DEF IInv, TipSound, Passes, Valid

LEMMA ConnectStep ==
    ASSUME IInv, NEW b \in Blocks, ConnectTip(b)
    PROVE  IInv'
<1>0. phase = "up" /\ phase' = "up" /\ disk' = disk /\ durable' = durable /\ undoDisk' = undoDisk
  BY DEF ConnectTip
<1>1. CASE ~Passes(b)
  <2>1. ~Valid(b)
    BY <1>0, <1>1, PassesIsValid, Zenon DEF ConnectTip
  <2>2. cache' = cache /\ undo' = undo /\ best' = best /\ rejected' = rejected \cup {b}
    BY <1>1, Zenon DEF ConnectTip
  <2>3. TypeOK' /\ OnlyInvalidRejected'
    BY <1>0, <2>1, <2>2, Zenon DEF ConnectTip, IInv, TypeOK, OnlyInvalidRejected
  <2>4. IndexSound' /\ DiskSound(disk)' /\ DiskSound(durable)'
    BY <1>0, <2>2, Zenon DEF IInv, IndexSound, DiskSound, UndoSound
  <2>5. CacheSound' /\ TipSound' /\ ReplaySound'
    BY <1>0, <2>2, Zenon DEF IInv, CacheSound, TipSound, ReplaySound, View
  <2> QED
    BY <1>0, <2>3, <2>4, <2>5, Zenon DEF IInv
<1>2. CASE Passes(b)
  <2>1. Valid(b)
    BY <1>0, <1>2, PassesIsValid, Zenon DEF ConnectTip
  <2>2. \A o \in Outpoints :
          /\ cache'[o] \in Entry /\ EntrySound(cache'[o], disk.coins[o])
          /\ FreshSound(cache'[o], disk.coins[o])
          /\ Seen(cache'[o], disk.coins[o]) = Utxo[b][o]
    <3> SUFFICES ASSUME NEW o \in Outpoints
                 PROVE  /\ cache'[o] \in Entry /\ EntrySound(cache'[o], disk.coins[o])
                        /\ FreshSound(cache'[o], disk.coins[o])
                        /\ Seen(cache'[o], disk.coins[o]) = Utxo[b][o]
      BY Zenon
    <3> DEFINE e == cache[o]  c == disk.coins[o]  n == cache'[o]
    <3>1. e \in Entry /\ c \in Nat
      BY Zenon DEF IInv, TypeOK, Disks
    <3>2. CoinSound(e, c)
      BY <1>0, <3>1, Zenon DEF IInv, CacheSound, CoinSound
    <3>3. View[o] = Seen(e, c) /\ View[o] = Utxo[Parent[b]][o]
      BY <1>0 DEF IInv, TipSound, View, ConnectTip
    <3>4. /\ o \in Creates[b] => Height[b] # 0
          /\ o \in Creates[b] => Seen(e, c) = 0
          /\ o \in Spends[b] \ Creates[b] => Seen(e, c) # 0
      BY TreeFacts, <1>2, <3>3, Zenon DEF Passes
    <3>5. n = Merge(e, ConnectCoin(b, o, Absent, Seen(e, c)))
      BY <1>2, <3>3, Zenon DEF ConnectTip
    <3>6. Utxo[b][o] = IF o \in Spends[b] THEN 0
                       ELSE IF o \in Creates[b] THEN Height[b] ELSE Seen(e, c)
      BY UtxoOf, <3>3, Zenon
    <3> HIDE DEF e, c, n
    <3>7. /\ CoinSound(n, c)
          /\ Seen(n, c) = Utxo[b][o]
      <4>1. Connects(b, o, e, c, n)
        BY ConnectEntry, Zenon
      <4> QED
        BY <3>2, <3>4, <3>5, <3>6, <4>1, Zenon DEF Connects
    <3> QED
      BY <3>7, Zenon DEF c, n, CoinSound
  <2>3. /\ undo' \in [Blocks -> Undos] /\ undo'[b].known
        /\ \A d \in Blocks : undo[d].known => undo'[d].known
        /\ UndoSound(undo')
    <3>0. Parent[b] = best /\ best \in Blocks \cup {NoBlock}
      BY <1>0, Zenon DEF IInv, TypeOK, ConnectTip
    <3>1. \A o \in Outpoints : View[o] = Utxo[Parent[b]][o] /\ View[o] \in Nat
      <4>1. Utxo[best] \in [Outpoints -> Nat]
        BY TreeFacts, <3>0, Zenon
      <4>2. \A o \in Outpoints : View[o] = Utxo[best][o]
        BY <1>0, Zenon DEF IInv, TipSound, ConnectTip
      <4> QED
        BY <3>0, <4>1, <4>2, Zenon
    <3>2. b # Genesis => undo[Parent[b]].known
      BY TreeFacts, <1>0 DEF IInv, TipSound, ConnectTip
    <3>3. undo \in [Blocks -> Undos] /\ UndoSound(undo)
      BY DEF IInv, TypeOK, IndexSound
    <3>4. CASE undo[b].known
      <4>1. undo' = undo
        BY <1>2, <3>3, <3>4, Zenon DEF ConnectTip
      <4> QED
        BY <3>3, <3>4, <4>1
    <3>5. CASE ~undo[b].known
      <4> DEFINE u == [o \in Outpoints |->
                         IF o \notin Spends[b] THEN 0
                         ELSE IF o \in Creates[b] THEN Height[b] ELSE View[o]]
      <4>1. undo' = [undo EXCEPT ![b] = [known |-> TRUE, coins |-> u]]
        BY <1>2, <3>3, <3>5, Zenon DEF ConnectTip
      <4>2. u \in [Outpoints -> Nat]
        BY TreeFacts, <3>1, Zenon
      <4>3. \A o \in Spends[b] : u[o] = IF o \in Creates[b] THEN Height[b] ELSE Utxo[Parent[b]][o]
        BY TreeFacts, <3>1, Zenon
      <4> HIDE DEF u
      <4>4. undo' \in [Blocks -> Undos]
        BY <3>3, <4>1, <4>2, Zenon DEF Undos
      <4>5. /\ undo'[b].known /\ undo'[b].coins = u
            /\ \A d \in Blocks \ {b} : undo'[d] = undo[d]
        BY <3>3, <4>1, Zenon
      <4>6. UndoSound(undo')
        <5> SUFFICES ASSUME NEW d \in Blocks, undo'[d].known
                     PROVE  /\ Valid(d) /\ (d # Genesis => undo'[Parent[d]].known)
                            /\ \A o \in Spends[d] : undo'[d].coins[o] =
                                  IF o \in Creates[d] THEN Height[d] ELSE Utxo[Parent[d]][o]
          BY Zenon DEF UndoSound
        <5>1. CASE d = b
          <6>1. d # Genesis => Parent[d] \in Blocks /\ undo[Parent[d]].known
            BY TreeFacts, <3>2, <5>1, Zenon
          <6>2. d # Genesis => undo'[Parent[d]].known
            BY <4>5, <6>1, Zenon
          <6> QED
            BY <2>1, <4>3, <4>5, <5>1, <6>2, Zenon
        <5>2. CASE d # b
          <6>1. undo'[d] = undo[d] /\ undo[d].known
            BY <4>5, <5>2, Zenon
          <6>2. /\ Valid(d) /\ (d # Genesis => Parent[d] \in Blocks /\ undo[Parent[d]].known)
                /\ \A o \in Spends[d] : undo[d].coins[o] =
                      IF o \in Creates[d] THEN Height[d] ELSE Utxo[Parent[d]][o]
            BY TreeFacts, <3>3, <6>1, Zenon DEF UndoSound
          <6>3. d # Genesis => undo'[Parent[d]].known
            BY <4>5, <6>2
          <6> QED
            BY <6>1, <6>2, <6>3, Zenon
        <5> QED
          BY <5>1, <5>2, Zenon
      <4> QED
        BY <3>5, <4>4, <4>5, <4>6, Zenon
    <3> QED
      BY <3>4, <3>5, Zenon
  <2>4. TypeOK'
    BY <1>0, <1>2, <2>2, <2>3, Zenon DEF ConnectTip, IInv, TypeOK
  <2>5. IndexSound' /\ DiskSound(disk)' /\ DiskSound(durable)'
    BY <1>0, <2>3, Zenon DEF IInv, IndexSound, DiskSound, UndoSound
  <2>6. CacheSound' /\ TipSound' /\ ReplaySound'
    BY <1>0, <1>2, <2>2, <2>3, Zenon DEF IInv, ConnectTip, CacheSound, TipSound, ReplaySound, View
  <2> QED
    BY <1>0, <1>2, <2>4, <2>5, <2>6, Zenon DEF IInv, ConnectTip, OnlyInvalidRejected
<1> QED
  BY <1>1, <1>2


LEMMA DisconnectStep ==
    ASSUME IInv, DisconnectTip
    PROVE  IInv'
<1>0. /\ phase = "up" /\ phase' = "up" /\ disk' = disk /\ durable' = durable
      /\ undo' = undo /\ undoDisk' = undoDisk /\ best' = Parent[best]
      /\ best \in Blocks \ {Genesis} /\ Parent[best] \in Blocks
  BY TreeFacts, Zenon DEF DisconnectTip
<1>1. Valid(best) /\ undo[Parent[best]].known
  BY <1>0, Zenon DEF DisconnectTip, DisconnectsCleanly, IInv, IndexSound, UndoSound
<1>2. \A o \in Outpoints :
        /\ cache'[o] \in Entry /\ EntrySound(cache'[o], disk.coins[o])
        /\ FreshSound(cache'[o], disk.coins[o])
        /\ Seen(cache'[o], disk.coins[o]) = Utxo[Parent[best]][o]
  <2> SUFFICES ASSUME NEW o \in Outpoints
               PROVE  /\ cache'[o] \in Entry /\ EntrySound(cache'[o], disk.coins[o])
                      /\ FreshSound(cache'[o], disk.coins[o])
                      /\ Seen(cache'[o], disk.coins[o]) = Utxo[Parent[best]][o]
    BY Zenon
  <2> DEFINE b == best  e == cache[o]  c == disk.coins[o]  n == cache'[o]  u == undo[best].coins
  <2>1. e \in Entry /\ c \in Nat /\ b \in Blocks
    BY <1>0, Zenon DEF IInv, TypeOK, Disks
  <2>2. CoinSound(e, c)
    BY <1>0, <2>1, Zenon DEF IInv, CacheSound, CoinSound
  <2>3. View[o] = Seen(e, c) /\ View[o] = Utxo[b][o]
    BY <1>0, Zenon DEF IInv, TipSound, View
  <2>4. Utxo[b][o] = IF o \in Spends[b] THEN 0
                     ELSE IF o \in Creates[b] THEN Height[b] ELSE Utxo[Parent[b]][o]
    BY UtxoOf, <1>0, Zenon
  <2>5. CASE o \in Creates[b] \cup Spends[b]
    <3>1. o \in Spends[b] => u[o] = IF o \in Creates[b] THEN Height[b] ELSE Utxo[Parent[b]][o]
      BY <1>0, Zenon DEF DisconnectTip, DisconnectsCleanly, IInv, IndexSound, UndoSound
    <3>2. o \in Spends[b] => u[o] \in Nat \ {0} /\ Seen(e, c) = 0
      BY TreeFacts, <1>0, <1>1, <2>3, <2>4, <3>1, Zenon DEF Valid
    <3>3. n = Merge(FetchCoin(e, c), DisconnectCoin(b, o, Absent, Seen(e, c), u))
      BY <2>3, <2>5, Zenon DEF DisconnectTip
    <3>4. Utxo[Parent[b]][o] = IF o \in Creates[b] THEN 0 ELSE u[o]
      BY <1>1, <2>5, <3>1, Zenon DEF Valid
    <3> HIDE DEF b, e, c, n, u
    <3>5. /\ CoinSound(n, c)
          /\ Seen(n, c) = Utxo[Parent[b]][o]
      <4>1. Disconnects(b, o, e, c, u, n)
        BY <2>1, <2>5, DisconnectEntry, Zenon
      <4> QED
        BY <2>2, <3>2, <3>3, <3>4, <4>1, Zenon DEF Disconnects
    <3> QED
      BY <3>5 DEF b, c, n, CoinSound
  <2>6. CASE o \notin Creates[b] \cup Spends[b]
    <3>1. n = e
      BY <2>6, Zenon DEF DisconnectTip
    <3> QED
      BY <2>2, <2>3, <2>4, <2>6, <3>1, Zenon DEF CoinSound
  <2> QED
    BY <2>5, <2>6, Zenon
<1>3. TypeOK'
  BY <1>0, <1>2, Zenon DEF DisconnectTip, IInv, TypeOK
<1>4. IndexSound' /\ DiskSound(disk)' /\ DiskSound(durable)'
  BY <1>0, Zenon DEF IInv, IndexSound, DiskSound, UndoSound
<1>5. CacheSound' /\ TipSound' /\ ReplaySound'
  BY <1>0, <1>1, <1>2, Zenon DEF IInv, CacheSound, TipSound, ReplaySound, View
<1> QED
  BY <1>0, <1>3, <1>4, <1>5, Zenon DEF IInv, DisconnectTip, OnlyInvalidRejected

\* Filling the cache and dropping clean entries change no answer.
LEMMA AccessStep ==
    ASSUME IInv, NEW o \in Outpoints, AccessCoin(o) \/ Uncache(o)
    PROVE  IInv'
<1>0. /\ phase = "up" /\ phase' = "up" /\ disk' = disk /\ durable' = durable
      /\ undo' = undo /\ undoDisk' = undoDisk /\ best' = best /\ rejected' = rejected
      /\ mode' = mode /\ todo' = todo /\ crashes' = crashes
  BY Zenon DEF AccessCoin, Uncache
<1>1. /\ cache[o] \in Entry /\ disk.coins[o] \in Nat
      /\ EntrySound(cache[o], disk.coins[o]) /\ FreshSound(cache[o], disk.coins[o])
  BY <1>0, Zenon DEF IInv, TypeOK, Disks, CacheSound
<1>2. /\ cache'[o] \in Entry /\ EntrySound(cache'[o], disk.coins[o])
      /\ FreshSound(cache'[o], disk.coins[o])
      /\ Seen(cache'[o], disk.coins[o]) = Seen(cache[o], disk.coins[o])
  <2>1. cache \in [Outpoints -> Entry]
    BY DEF IInv, TypeOK
  <2>2. CASE AccessCoin(o)
    BY <1>1, <2>1, <2>2, Zenon DEF AccessCoin, FetchCoin, EntrySound, FreshSound, Seen, Entry, Absent
  <2>3. CASE Uncache(o)
    BY <1>1, <2>1, <2>3, Zenon DEF Uncache, EntrySound, FreshSound, Seen, Entry, Absent
  <2> QED
    BY <2>2, <2>3, Zenon
<1>3. /\ cache' = [cache EXCEPT ![o] = cache'[o]]
      /\ cache \in [Outpoints -> Entry]
  BY Zenon DEF AccessCoin, Uncache, IInv, TypeOK
<1>4. \A p \in Outpoints :
        /\ EntrySound(cache'[p], disk.coins[p]) /\ FreshSound(cache'[p], disk.coins[p])
        /\ Seen(cache'[p], disk.coins[p]) = View[p]
  BY <1>0, <1>2, <1>3, Zenon DEF IInv, CacheSound, View
<1>5. TypeOK'
  BY <1>0, <1>2, <1>3 DEF IInv, TypeOK
<1>6. IndexSound' /\ DiskSound(disk)' /\ DiskSound(durable)'
  BY <1>0, Zenon DEF IInv, IndexSound, DiskSound, UndoSound
<1>7. CacheSound' /\ TipSound' /\ ReplaySound'
  BY <1>0, <1>4, Zenon DEF IInv, CacheSound, TipSound, ReplaySound, View
<1> QED
  BY <1>0, <1>5, <1>6, <1>7 DEF IInv, OnlyInvalidRejected

-----------------------------------------------------------------------------
(* Flushing. *)

LEMMA StartFlushStep ==
    ASSUME IInv, NEW m \in {"flush", "sync"}, StartFlush(m)
    PROVE  IInv'
<1>0. /\ phase \in {"up", "fatal"} /\ phase' = "flushing" /\ disk' = disk /\ durable' = durable
      /\ undo' = undo /\ undoDisk' = undo /\ best' = best /\ cache' = cache
      /\ rejected' = rejected /\ best # NoBlock /\ todo' = Dirty /\ mode' = m
  BY Zenon DEF StartFlush
<1>1. TypeOK'
  BY <1>0 DEF StartFlush, IInv, TypeOK, Dirty, Phases
<1>2. \A b \in Blocks : undoDisk[b].known => undo[b].known
  BY Zenon DEF IInv, IndexSound
<1>3. IndexSound'
  BY <1>0, Zenon DEF IInv, IndexSound, UndoSound
<1>4. DiskSound(disk)'
  BY <1>0, <1>2, Zenon DEF IInv, DiskSound, TypeOK, Disks
<1>5. DiskSound(durable)'
  BY <1>0, <1>2, Zenon DEF IInv, DiskSound, TypeOK, Disks
<1>6. CacheSound' /\ TipSound' /\ ReplaySound'
  BY <1>0, Zenon DEF IInv, CacheSound, TipSound, ReplaySound, View
<1>7. FlushSound'
  <2>1. \A o \in Outpoints : ~cache[o].dirty => disk.coins[o] = View[o]
    BY Zenon DEF IInv, CacheSound, EntrySound, View, Seen, Absent
  <2>2. undo[best].known
    BY <1>0, Zenon DEF IInv, TipSound
  <2> QED
    BY <1>0, <2>1, <2>2, Zenon DEF FlushSound, Dirty, View
<1> QED
  BY <1>0, <1>1, <1>3, <1>4, <1>5, <1>6, <1>7, Zenon DEF IInv, OnlyInvalidRejected

\* What writing the dirty entries of S does to the cache over the database.
LEMMA WriteEntries ==
    ASSUME IInv, phase \in {"flushing", "replayed"}, NEW S \in SUBSET todo
    PROVE  /\ Written(S) \in [Outpoints -> Nat]
           /\ Visited(S) \in [Outpoints -> Entry]
           /\ \A o \in Outpoints :
                /\ EntrySound(Visited(S)[o], Written(S)[o])
                /\ Seen(Visited(S)[o], Written(S)[o]) = Utxo[best][o]
                /\ Written(S)[o] = disk.coins[o] \/ Written(S)[o] = Utxo[best][o]
                /\ o \notin todo \ S => Written(S)[o] = Utxo[best][o]
                /\ o \in todo \ S => Visited(S)[o] = cache[o]
                /\ mode = "sync" /\ o \notin todo \ S => ~Visited(S)[o].dirty
<1>0. FlushSound /\ TypeOK /\ CacheSound /\ TipSound
  BY Zenon DEF IInv
<1>1. Written(S) \in [Outpoints -> Nat]
  BY <1>0 DEF Written, TypeOK, Entry, Disks
<1>2. Visited(S) \in [Outpoints -> Entry]
  BY <1>0, Zenon DEF Visited, TypeOK, Entry, Absent
<1>3. ASSUME NEW o \in Outpoints
      PROVE  /\ EntrySound(Visited(S)[o], Written(S)[o])
             /\ Seen(Visited(S)[o], Written(S)[o]) = Utxo[best][o]
             /\ Written(S)[o] = disk.coins[o] \/ Written(S)[o] = Utxo[best][o]
             /\ o \notin todo \ S => Written(S)[o] = Utxo[best][o]
             /\ o \in todo \ S => Visited(S)[o] = cache[o]
             /\ mode = "sync" /\ o \notin todo \ S => ~Visited(S)[o].dirty
  <2> DEFINE e == cache[o]  c == disk.coins[o]  v == Visited(S)[o]  w == Written(S)[o]  x == Utxo[best][o]
  <2>1. e \in Entry /\ c \in Nat /\ EntrySound(e, c) /\ Seen(e, c) = x
    BY <1>0 DEF TypeOK, Disks, CacheSound, TipSound, View
  <2>2. /\ w = IF o \in S THEN e.coin ELSE c
        /\ v = IF mode = "flush" \/ o \notin S THEN e
               ELSE IF e.coin = 0 THEN Absent
               ELSE [e EXCEPT !.dirty = FALSE, !.fresh = FALSE]
    BY Zenon DEF Written, Visited
  <2>3. /\ o \in todo => e.dirty
        /\ o \notin todo => c = x
        /\ mode = "sync" /\ o \notin todo => ~e.dirty
    BY <1>0, Zenon DEF FlushSound, TipSound
  <2>4. mode \in {"flush", "sync"}
    BY <1>0, Zenon DEF TypeOK
  <2> HIDE DEF e, c, v, w, x
  <2>5. /\ EntrySound(v, w) /\ Seen(v, w) = x /\ (w = c \/ w = x)
        /\ o \notin todo \ S => w = x
        /\ o \in todo \ S => v = e
        /\ mode = "sync" /\ o \notin todo \ S => ~v.dirty
    <3>1. CASE o \in S
      BY <2>1, <2>2, <2>3, <2>4, <3>1 DEF EntrySound, Seen, Entry, Absent
    <3>2. CASE o \notin S
      BY <2>1, <2>2, <2>3, <2>4, <3>2, Zenon DEF EntrySound, Seen
    <3> QED
      BY <3>1, <3>2
  <2> QED
    BY <2>5, Zenon DEF e, c, v, w, x
<1> QED
  BY <1>1, <1>2, <1>3, Zenon

LEMMA WriteBatchStep ==
    ASSUME IInv, NEW S \in SUBSET todo, WriteBatch(S)
    PROVE  IInv'
<1>0. /\ phase \in {"flushing", "replayed"} /\ phase' = phase /\ durable' = durable
      /\ undo' = undo /\ undoDisk' = undoDisk /\ best' = best /\ mode' = mode
      /\ rejected' = rejected /\ todo' = todo \ S /\ cache' = Visited(S)
      /\ disk' = [coins |-> Written(S), best |-> NoBlock, heads |-> Heads]
  BY Zenon DEF WriteBatch
<1>1. disk'.coins = Written(S) /\ disk'.best = NoBlock /\ disk'.heads = Heads
  BY <1>0, Zenon
<1>2. Heads.new = best /\ Heads.old = IF disk.best = NoBlock THEN disk.heads.old ELSE disk.best
  BY Zenon DEF Heads
<1>3. FlushSound /\ TypeOK /\ TipSound /\ DiskSound(disk)
  BY DEF IInv, WriteBatch
<1>4. /\ Written(S) \in [Outpoints -> Nat]
      /\ Visited(S) \in [Outpoints -> Entry]
      /\ \A o \in Outpoints :
           /\ EntrySound(Visited(S)[o], Written(S)[o])
           /\ Seen(Visited(S)[o], Written(S)[o]) = Utxo[best][o]
           /\ Written(S)[o] = disk.coins[o] \/ Written(S)[o] = Utxo[best][o]
           /\ o \notin todo \ S => Written(S)[o] = Utxo[best][o]
           /\ o \in todo \ S => Visited(S)[o] = cache[o]
           /\ mode = "sync" /\ o \notin todo \ S => ~Visited(S)[o].dirty
  BY <1>0, WriteEntries, Zenon
<1>5. disk' \in Disks
  <2>1. Heads \in [new : Blocks \cup {NoBlock}, old : Blocks \cup {NoBlock}]
    BY <1>3 DEF TypeOK, Disks, Heads
  <2> QED
    BY <1>0, <1>4, <2>1, Zenon DEF Disks
<1>6. TypeOK'
  BY <1>0, <1>3, <1>4, <1>5, Zenon DEF TypeOK, WriteBatch
<1>7. IndexSound' /\ DiskSound(durable)'
  BY <1>0, Zenon DEF IInv, IndexSound, UndoSound, DiskSound
<1>8. DiskSound(disk)'
  <2>0. NoHeads.new = NoBlock
    BY Zenon DEF NoHeads
  <2>1. best # NoBlock /\ undoDisk[best].known /\ Heads # NoHeads
    BY <1>2, <1>3, <2>0, Zenon DEF FlushSound
  <2>2. Heads.old # NoBlock => undoDisk[Heads.old].known
    BY <1>2, <1>3 DEF DiskSound, NoHeads
  <2>3. \A o \in Outpoints : disk.coins[o] = Utxo[Heads.old][o] \/ disk.coins[o] = Utxo[best][o]
    <3> HIDE DEF Heads
    <3>1. CASE disk.heads = NoHeads
      <4>1. Heads.old = disk.best
        BY <1>2, <3>1 DEF NoHeads
      <4>2. disk.coins = Utxo[disk.best]
        BY <1>3, <3>1, Zenon DEF DiskSound
      <4> QED
        BY <4>1, <4>2, Zenon
    <3>2. CASE disk.heads # NoHeads
      <4>1. disk.best = NoBlock
        BY <1>3, <3>2, Zenon DEF DiskSound
      <4>2. Heads.old = disk.heads.old
        BY <1>2, <4>1, Zenon
      <4>3. disk.heads.new = best
        BY <1>0, <1>3, <3>2, Zenon DEF TipSound
      <4>4. \A o \in Outpoints : \/ disk.coins[o] = Utxo[disk.heads.old][o]
                                 \/ disk.coins[o] = Utxo[disk.heads.new][o]
        BY <1>3, <3>2 DEF DiskSound
      <4> QED
        BY <4>2, <4>3, <4>4, Zenon
    <3> QED
      BY <3>1, <3>2, Zenon
  <2>4. \A o \in Outpoints : disk'.coins[o] = Utxo[Heads.old][o] \/ disk'.coins[o] = Utxo[best][o]
    BY <1>1, <1>4, <2>3, Zenon
  <2> HIDE DEF Heads
  <2> QED
    BY <1>0, <1>1, <1>2, <2>1, <2>2, <2>4, Zenon DEF DiskSound
<1>9. CacheSound' /\ TipSound' /\ ReplaySound'
  BY <1>0, <1>1, <1>2, <1>3, <1>4, Zenon DEF IInv, CacheSound, TipSound, ReplaySound, View
<1>10. FlushSound'
  <2>1. \A o \in todo' : cache'[o].dirty
    BY <1>0, <1>3, <1>4, Zenon DEF FlushSound, TypeOK
  <2>2. \A o \in Outpoints \ todo' : disk'.coins[o] = View'[o]
    BY <1>0, <1>1, <1>4, Zenon DEF View
  <2>3. mode' = "sync" => \A o \in Outpoints \ todo' : ~cache'[o].dirty
    BY <1>0, <1>4, Zenon
  <2> QED
    BY <1>0, <1>3, <2>1, <2>2, <2>3, Zenon DEF FlushSound
<1> QED
  BY <1>0, <1>6, <1>7, <1>8, <1>9, <1>10, Zenon DEF IInv, OnlyInvalidRejected

LEMMA FinishFlushStep ==
    ASSUME IInv, FinishFlush
    PROVE  IInv'
<1>0. /\ phase \in {"flushing", "replayed"} /\ phase' = "up" /\ durable' = durable
      /\ undo' = undo /\ undoDisk' = undoDisk /\ best' = best /\ mode' = mode
      /\ rejected' = rejected /\ todo' = {}
      /\ cache' = IF mode = "flush" THEN Cold ELSE Visited(todo)
      /\ disk'.coins = Written(todo) /\ disk'.best = best /\ disk'.heads = NoHeads
  BY DEF FinishFlush
<1>1. /\ Written(todo) \in [Outpoints -> Nat]
      /\ Visited(todo) \in [Outpoints -> Entry]
      /\ \A o \in Outpoints :
           /\ EntrySound(Visited(todo)[o], Written(todo)[o])
           /\ Written(todo)[o] = Utxo[best][o]
           /\ Seen(Visited(todo)[o], Written(todo)[o]) = Utxo[best][o]
           /\ mode = "sync" => ~Visited(todo)[o].dirty
  BY <1>0, WriteEntries, Zenon
<1>2. FlushSound /\ TypeOK /\ TipSound
  BY <1>0, Zenon DEF IInv
<1>3. /\ cache' \in [Outpoints -> Entry]
      /\ \A o \in Outpoints : /\ EntrySound(cache'[o], disk'.coins[o])
                             /\ FreshSound(cache'[o], disk'.coins[o])
                             /\ Seen(cache'[o], disk'.coins[o]) = Utxo[best][o]
  <2>1. CASE mode = "flush"
    BY <1>0, <1>1, <2>1, Zenon DEF Cold, Absent, Entry, EntrySound, FreshSound, Seen
  <2>2. CASE mode = "sync"
    <3>1. cache' = Visited(todo) /\ disk'.coins = Written(todo)
      BY <1>0, <2>2, Zenon
    <3>2. \A o \in Outpoints : FreshSound(Visited(todo)[o], Written(todo)[o])
      <4> SUFFICES ASSUME NEW o \in Outpoints
                   PROVE  FreshSound(Visited(todo)[o], Written(todo)[o])
        BY Zenon
      <4>1. EntrySound(Visited(todo)[o], Written(todo)[o]) /\ ~Visited(todo)[o].dirty
        BY <1>1, <2>2
      <4> HIDE DEF Visited, Written
      <4> QED
        BY <4>1, CleanNotFresh, Zenon
    <3> QED
      BY <1>1, <3>1, <3>2, Zenon
  <2> QED
    BY <1>2, <2>1, <2>2, Zenon DEF TypeOK
<1>4. disk' \in Disks
  BY <1>0, <1>1, <1>2, Zenon DEF FinishFlush, Disks, NoHeads, TypeOK
<1>5. TypeOK'
  BY <1>0, <1>2, <1>3, <1>4, Zenon DEF TypeOK, Phases, FinishFlush
<1>6. IndexSound' /\ DiskSound(durable)'
  BY <1>0, Zenon DEF IInv, IndexSound, UndoSound, DiskSound
<1>7. DiskSound(disk)'
  <2>1. disk'.coins = Utxo[best]
    <3>1. Utxo[best] \in [Outpoints -> Nat]
      BY TreeFacts, <1>2, Zenon DEF TypeOK
    <3>2. Written(todo) \in [Outpoints -> Nat]
      BY <1>1, Zenon
    <3>3. \A o \in Outpoints : Written(todo)[o] = Utxo[best][o]
      BY <1>1, Zenon
    <3> HIDE DEF Written
    <3>4. Written(todo) = Utxo[best]
      BY <3>1, <3>2, <3>3, SameCoins, Zenon
    <3> QED
      BY <1>0, <3>4, Zenon
  <2> QED
    BY <1>0, <1>2, <2>1, Zenon DEF DiskSound, FlushSound
<1>8. CacheSound' /\ TipSound' /\ ReplaySound'
  BY <1>0, <1>2, <1>3, Zenon DEF CacheSound, TipSound, ReplaySound, View
<1> QED
  BY <1>0, <1>5, <1>6, <1>7, <1>8, Zenon DEF IInv, OnlyInvalidRejected

\* A full flush that fails leaves the cache as it was.
LEMMA WriteFailsStep ==
    ASSUME IInv, NEW S \in SUBSET todo, WriteFails(S), "sync" \notin FailingModes
    PROVE  IInv'
<1>0. /\ phase = "flushing" /\ phase' = "fatal" /\ disk' = disk /\ durable' = durable
      /\ undo' = undo /\ undoDisk' = undoDisk /\ best' = best /\ mode' = mode
      /\ rejected' = rejected /\ todo' = {} /\ cache' = cache
  BY Zenon DEF WriteFails, Visited, IInv, TypeOK
<1>1. TypeOK'
  BY <1>0 DEF IInv, TypeOK, Phases, WriteFails
<1>2. IndexSound' /\ DiskSound(disk)' /\ DiskSound(durable)'
  BY <1>0, Zenon DEF IInv, IndexSound, UndoSound, DiskSound
<1>3. CacheSound' /\ TipSound' /\ ReplaySound'
  BY <1>0, Zenon DEF IInv, CacheSound, TipSound, ReplaySound, View
<1> QED
  BY <1>0, <1>1, <1>2, <1>3 DEF IInv, OnlyInvalidRejected

-----------------------------------------------------------------------------
(* Crash and recovery. *)

LEMMA WriteBackStep ==
    ASSUME IInv, WriteBack
    PROVE  IInv'
<1>0. /\ phase' = phase /\ disk' = disk /\ durable' = disk
      /\ undo' = undo /\ undoDisk' = undoDisk /\ best' = best /\ mode' = mode
      /\ rejected' = rejected /\ todo' = todo /\ cache' = cache
  BY Zenon DEF WriteBack
<1>1. TypeOK'
  BY <1>0 DEF IInv, TypeOK, WriteBack
<1>2. IndexSound' /\ DiskSound(disk)' /\ DiskSound(durable)'
  BY <1>0, Zenon DEF IInv, IndexSound, UndoSound, DiskSound
<1>3. CacheSound' /\ TipSound' /\ ReplaySound'
  BY <1>0, Zenon DEF IInv, CacheSound, TipSound, ReplaySound, View
<1>4. phase' \in {"flushing", "replayed"} => FlushSound'
  BY <1>0, Zenon DEF IInv, FlushSound, View
<1> QED
  BY <1>0, <1>1, <1>2, <1>3, <1>4, Zenon DEF IInv, OnlyInvalidRejected

LEMMA CrashStep ==
    ASSUME IInv, Crash
    PROVE  IInv'
<1>0. /\ phase' = "down" /\ disk' \in {disk, durable} /\ durable' = disk'
      /\ undo' = undo /\ undoDisk' = undoDisk /\ best' = NoBlock /\ mode' = mode
      /\ rejected' = rejected /\ todo' = {} /\ cache' = Cold
  BY Zenon DEF Crash
<1>1. TypeOK'
  <2>1. Cold \in [Outpoints -> Entry]
    BY Zenon DEF Cold, Entry, Absent
  <2>2. crashes' \in 0 .. MaxCrashes
    <3>1. MaxCrashes \in Nat
      BY CoinsAssumption
    <3> QED
      BY <3>1 DEF IInv, TypeOK, Crash
  <2>3. phase' \in Phases
    BY <1>0, Zenon DEF Phases
  <2>4. disk' \in Disks /\ durable' \in Disks
    BY <1>0, Zenon DEF IInv, TypeOK
  <2>5. /\ undo' \in [Blocks -> Undos] /\ undoDisk' \in [Blocks -> Undos]
        /\ mode' \in {"flush", "sync"} /\ rejected' \in SUBSET Blocks
    BY <1>0 DEF IInv, TypeOK
  <2> QED
    BY <1>0, <2>1, <2>2, <2>3, <2>4, <2>5, Zenon DEF TypeOK
<1>2. IndexSound'
  BY <1>0, Zenon DEF IInv, IndexSound, UndoSound
<1>3. DiskSound(disk)' /\ DiskSound(durable)'
  <2>1. CASE disk' = disk
    BY <1>0, <2>1, Zenon DEF IInv, DiskSound
  <2>2. CASE disk' = durable
    BY <1>0, <2>2, Zenon DEF IInv, DiskSound
  <2> QED
    BY <1>0, <2>1, <2>2
<1>4. CacheSound' /\ TipSound' /\ ReplaySound'
  BY <1>0, Zenon DEF CacheSound, TipSound, ReplaySound, EntrySound, Cold, Absent
<1> QED
  BY <1>0, <1>1, <1>2, <1>3, <1>4, Zenon DEF IInv, OnlyInvalidRejected

LEMMA RestartStep ==
    ASSUME IInv, Restart
    PROVE  IInv'
<1>0. /\ phase = "down" /\ disk' = disk /\ durable' = durable
      /\ undo' = undoDisk /\ undoDisk' = undoDisk /\ mode' = "flush"
      /\ rejected' = rejected /\ todo' = todo /\ cache' = Cold
      /\ phase' \in {"up", "rollback", "rollforward"}
  BY Zenon DEF Restart, IInv
<1>1. TypeOK /\ DiskSound(disk) /\ IndexSound
  BY Zenon DEF IInv
<1>2. \A o \in Outpoints : /\ View'[o] = disk.coins[o]
                          /\ EntrySound(cache'[o], disk.coins[o])
                          /\ FreshSound(cache'[o], disk.coins[o])
  BY <1>0 DEF View, Seen, Cold, Absent, EntrySound, FreshSound
<1>3. best' \in Blocks \cup {NoBlock}
  BY TreeFacts, <1>1, Zenon DEF Restart, TypeOK, Disks
<1>4. TypeOK'
  BY <1>0, <1>1, <1>3, Zenon DEF TypeOK, Restart, Phases, Cold, Entry, Absent
<1>5. IndexSound' /\ DiskSound(disk)' /\ DiskSound(durable)'
  BY <1>0, Zenon DEF IInv, IndexSound, UndoSound, DiskSound
<1>6. CacheSound'
  BY <1>0, <1>2, Zenon DEF CacheSound
<1>7. CASE disk.heads = NoHeads
  <2>1. phase' = "up" /\ best' = disk.best
    BY <1>7, Zenon DEF Restart
  <2>2. TipSound' /\ ReplaySound'
    BY <1>0, <1>1, <1>2, <1>7, <2>1, Zenon DEF DiskSound, TipSound, ReplaySound
  <2> QED
    BY <1>0, <1>4, <1>5, <1>6, <2>1, <2>2, Zenon DEF IInv, OnlyInvalidRejected
<1>8. CASE disk.heads # NoHeads
  <2>1. phase' \in {"rollback", "rollforward"}
    BY <1>8, Zenon DEF Restart
  <2>2. TipSound'
    BY <2>1, Zenon DEF TipSound
  <2>3. \A o \in Outpoints : Utxo[Genesis][o] = Utxo[NoBlock][o]
    BY TreeFacts, UtxoOf
  <2>4. ReplaySound'
    <3>1. CASE disk.heads.old = NoBlock
      <4>1. phase' = "rollforward" /\ best' = Genesis
        BY <1>8, <3>1, Zenon DEF Restart
      <4> QED
        BY <1>0, <1>1, <1>2, <1>8, <2>3, <3>1, <4>1, Zenon DEF ReplaySound, DiskSound
    <3>2. CASE disk.heads.old # NoBlock
      <4>1. phase' = "rollback" /\ best' = disk.heads.old
        BY <1>8, <3>2, Zenon DEF Restart
      <4> QED
        BY <1>0, <1>1, <1>2, <1>8, <3>2, <4>1, Zenon DEF ReplaySound, DiskSound
    <3> QED
      BY <3>1, <3>2
  <2> QED
    BY <1>0, <1>4, <1>5, <1>6, <2>1, <2>2, <2>4 DEF IInv, OnlyInvalidRejected
<1> QED
  BY <1>7, <1>8

LEMMA RollbackStep ==
    ASSUME IInv, Rollback
    PROVE  IInv'
<1>0. /\ phase = "rollback" /\ disk' = disk /\ durable' = durable
      /\ undo' = undo /\ undoDisk' = undoDisk /\ mode' = mode
      /\ rejected' = rejected /\ todo' = todo /\ crashes' = crashes
      /\ phase' \in {"rollback", "rollforward"}
  BY DEF Rollback
<1>1. TypeOK /\ IndexSound /\ CacheSound /\ ReplaySound /\ DiskSound(disk)
  BY DEF IInv
<1>2. IndexSound' /\ DiskSound(disk)' /\ DiskSound(durable)' /\ TipSound'
  BY <1>0, Zenon DEF IInv, IndexSound, UndoSound, DiskSound, TipSound
<1>3. CASE best \in Ancestors[disk.heads.new]
  <2>1. phase' = "rollforward" /\ cache' = cache /\ best' = best
    BY <1>3, Zenon DEF Rollback
  <2>2. TypeOK'
    BY <1>0, <1>1, <2>1 DEF TypeOK, Phases
  <2>3. CacheSound' /\ ReplaySound'
    BY <1>0, <1>1, <2>1, Zenon DEF CacheSound, ReplaySound, View
  <2> QED
    BY <1>0, <1>2, <2>1, <2>2, <2>3 DEF IInv, OnlyInvalidRejected
<1>4. CASE best \notin Ancestors[disk.heads.new]
  <2>1. /\ phase' = "rollback" /\ best' = Parent[best]
        /\ cache' = [o \in Outpoints |->
              DisconnectCoin(best, o, cache[o], disk.coins[o], undo[best].coins)]
    BY <1>0, <1>4 DEF Rollback
  <2>2. best \in Blocks \ {Genesis} /\ undo[best].known /\ Parent[best] \in Blocks
    <3>1. disk.heads.new \in Blocks /\ disk.heads # NoHeads
      BY <1>0, <1>1, Zenon DEF ReplaySound, DiskSound, TypeOK, Disks
    <3> QED
      BY TreeFacts, <1>0, <1>1, <1>4, <3>1, Zenon DEF ReplaySound, TypeOK
  <2>3. /\ Valid(best) /\ undo[Parent[best]].known
        /\ \A o \in Spends[best] : undo[best].coins[o] =
              IF o \in Creates[best] THEN Height[best] ELSE Utxo[Parent[best]][o]
    BY <1>1, <2>2 DEF IndexSound, UndoSound
  <2>4. \A o \in Outpoints :
          /\ cache'[o] \in Entry /\ EntrySound(cache'[o], disk.coins[o])
          /\ FreshSound(cache'[o], disk.coins[o])
          /\ \/ Seen(cache'[o], disk.coins[o]) = Utxo[Parent[best]][o]
             \/ Seen(cache'[o], disk.coins[o]) = Utxo[disk.heads.new][o]
    <3> SUFFICES ASSUME NEW o \in Outpoints
                 PROVE  /\ cache'[o] \in Entry /\ EntrySound(cache'[o], disk.coins[o])
                        /\ FreshSound(cache'[o], disk.coins[o])
                        /\ \/ Seen(cache'[o], disk.coins[o]) = Utxo[Parent[best]][o]
                           \/ Seen(cache'[o], disk.coins[o]) = Utxo[disk.heads.new][o]
      BY Zenon
    <3> DEFINE b == best  e == cache[o]  c == disk.coins[o]  n == cache'[o]
               u == undo[best].coins  x == Utxo[disk.heads.new][o]
    <3>1. e \in Entry /\ c \in Nat /\ b \in Blocks
      BY <1>1, <2>2, Zenon DEF TypeOK, Disks
    <3>2. CoinSound(e, c)
      BY <1>0, <1>1, <3>1, Zenon DEF CacheSound, CoinSound
    <3>3. Seen(e, c) = Utxo[b][o] \/ Seen(e, c) = x
      BY <1>0, <1>1, Zenon DEF ReplaySound, View
    <3>4. Utxo[b][o] = IF o \in Spends[b] THEN 0
                       ELSE IF o \in Creates[b] THEN Height[b] ELSE Utxo[Parent[b]][o]
      BY UtxoOf, <2>2, Zenon
    <3>5. o \in Spends[b] => u[o] \in Nat \ {0}
      BY TreeFacts, <2>2, <2>3 DEF Valid
    <3>6. n = DisconnectCoin(b, o, e, c, u)
      BY <2>1, Zenon
    <3>7. /\ o \in Creates[b] => Utxo[Parent[b]][o] = 0
          /\ o \in Spends[b] /\ o \notin Creates[b] => Utxo[Parent[b]][o] = u[o]
      BY <2>3 DEF Valid
    <3> HIDE DEF b, e, c, n, u, x
    <3>8. /\ CoinSound(n, c)
          /\ Seen(n, c) = IF o \in Creates[b] THEN 0
                          ELSE IF o \in Spends[b] THEN u[o] ELSE Seen(e, c)
      <4>1. RollsBack(b, o, e, c, u, n)
        BY <3>1, RollbackEntry, Zenon
      <4> QED
        BY <3>2, <3>5, <3>6, <4>1, Zenon DEF RollsBack
    <3>9. Seen(n, c) = Utxo[Parent[b]][o] \/ Seen(n, c) = x
      BY <3>3, <3>4, <3>7, <3>8, Zenon
    <3> QED
      BY <3>8, <3>9, Zenon DEF b, c, n, x, CoinSound
  <2>5. TypeOK'
    BY <1>0, <1>1, <2>1, <2>2, <2>4, Zenon DEF TypeOK, Phases
  <2>6. CacheSound' /\ ReplaySound'
    BY TreeFacts, <1>0, <1>1, <2>1, <2>2, <2>3, <2>4, Zenon DEF CacheSound, ReplaySound, View
  <2> QED
    BY <1>0, <1>2, <2>1, <2>5, <2>6, Zenon DEF IInv, OnlyInvalidRejected
<1> QED
  BY <1>3, <1>4, Zenon

LEMMA RollforwardStep ==
    ASSUME IInv, Rollforward
    PROVE  IInv'
<1>0. /\ phase = "rollforward" /\ disk' = disk /\ durable' = durable
      /\ undo' = undo /\ undoDisk' = undoDisk /\ mode' = mode
      /\ rejected' = rejected /\ crashes' = crashes
      /\ phase' \in {"rollforward", "replayed"}
  BY DEF Rollforward
<1>1. /\ TypeOK /\ IndexSound /\ CacheSound /\ ReplaySound /\ DiskSound(disk)
      /\ disk.heads # NoHeads /\ disk.heads.new \in Blocks
  BY <1>0, Zenon DEF IInv, ReplaySound, DiskSound, TypeOK, Disks
<1>2. IndexSound' /\ DiskSound(disk)' /\ DiskSound(durable)'
  BY <1>0, Zenon DEF IInv, IndexSound, UndoSound, DiskSound
<1>3. CASE best = disk.heads.new
  <2>1. phase' = "replayed" /\ cache' = cache /\ best' = best /\ todo' = Dirty
    BY <1>3, Zenon DEF Rollforward
  <2>2. TypeOK'
    BY <1>0, <1>1, <2>1, Zenon DEF TypeOK, Phases, Dirty
  <2>3. undoDisk[best].known /\ undo = undoDisk /\ mode = "flush"
    BY <1>0, <1>1, <1>3, Zenon DEF ReplaySound, DiskSound
  <2>4. CacheSound' /\ TipSound' /\ ReplaySound'
    BY <1>0, <1>1, <1>3, <2>1, <2>3, Zenon DEF CacheSound, TipSound, ReplaySound, View
  <2>5. \A o \in Outpoints : ~cache[o].dirty => disk.coins[o] = View[o]
    BY <1>1, Zenon DEF CacheSound, EntrySound, View, Seen, Absent
  <2>6. FlushSound'
    BY TreeFacts, <1>0, <1>1, <1>3, <2>1, <2>3, <2>5, Zenon DEF FlushSound, Dirty, View
  <2> QED
    BY <1>0, <1>2, <2>1, <2>2, <2>4, <2>6 DEF IInv, OnlyInvalidRejected
<1>4. CASE best # disk.heads.new
  <2>1. PICK b \in Blocks :
          /\ Parent[b] = best /\ best' = b /\ phase' = "rollforward" /\ todo' = todo
          /\ cache' = [o \in Outpoints |-> ReplayCoin(b, o, cache[o], disk.coins[o])]
    BY <1>0, <1>4 DEF Rollforward
  <2>2. \A o \in Outpoints :
          /\ cache'[o] \in Entry /\ EntrySound(cache'[o], disk.coins[o])
          /\ FreshSound(cache'[o], disk.coins[o])
          /\ \/ Seen(cache'[o], disk.coins[o]) = Utxo[b][o]
             \/ Seen(cache'[o], disk.coins[o]) = Utxo[disk.heads.new][o]
    <3> SUFFICES ASSUME NEW o \in Outpoints
                 PROVE  /\ cache'[o] \in Entry /\ EntrySound(cache'[o], disk.coins[o])
                        /\ FreshSound(cache'[o], disk.coins[o])
                        /\ \/ Seen(cache'[o], disk.coins[o]) = Utxo[b][o]
                           \/ Seen(cache'[o], disk.coins[o]) = Utxo[disk.heads.new][o]
      BY Zenon
    <3> DEFINE e == cache[o]  c == disk.coins[o]  n == cache'[o]  x == Utxo[disk.heads.new][o]
    <3>1. e \in Entry /\ c \in Nat
      BY <1>1, Zenon DEF TypeOK, Disks
    <3>2. CoinSound(e, c)
      BY <1>0, <1>1, <3>1, Zenon DEF CacheSound, CoinSound
    <3>3. Seen(e, c) = Utxo[Parent[b]][o] \/ Seen(e, c) = x
      BY <1>0, <1>1, <2>1, Zenon DEF ReplaySound, View
    <3>4. Utxo[b][o] = IF o \in Spends[b] THEN 0
                       ELSE IF o \in Creates[b] THEN Height[b] ELSE Utxo[Parent[b]][o]
      BY UtxoOf
    <3>5. o \in Creates[b] => Height[b] # 0
      BY TreeFacts, Zenon
    <3>6. n = ReplayCoin(b, o, e, c)
      BY <2>1, Zenon
    <3> HIDE DEF e, c, n, x
    <3>7. /\ CoinSound(n, c)
          /\ Seen(n, c) = IF o \in Spends[b] THEN 0
                          ELSE IF o \in Creates[b] THEN Height[b] ELSE Seen(e, c)
      <4>1. RollsForward(b, o, e, c, n)
        BY RollforwardEntry, Zenon
      <4> QED
        BY <3>2, <3>5, <3>6, <4>1, Zenon DEF RollsForward
    <3>8. Seen(n, c) = Utxo[b][o] \/ Seen(n, c) = x
      BY <3>3, <3>4, <3>7
    <3> QED
      BY <3>7, <3>8, Zenon DEF c, n, x, CoinSound
  <2>3. TypeOK'
    BY <1>0, <1>1, <2>1, <2>2, Zenon DEF TypeOK, Phases
  <2>4. CacheSound' /\ TipSound' /\ ReplaySound'
    BY <1>0, <1>1, <2>1, <2>2, Zenon DEF CacheSound, TipSound, ReplaySound, View
  <2> QED
    BY <1>0, <1>2, <2>1, <2>3, <2>4, Zenon DEF IInv, OnlyInvalidRejected
<1> QED
  BY <1>3, <1>4, Zenon

-----------------------------------------------------------------------------
(* The theorem. *)

LEMMA NextIInv ==
    ASSUME IInv, [Next]_vars, "sync" \notin FailingModes
    PROVE  IInv'
<1>1. CASE UNCHANGED vars
  <2>1. TypeOK'
    BY <1>1 DEF vars, IInv, TypeOK
  <2>2. IndexSound' /\ DiskSound(disk)' /\ DiskSound(durable)'
    BY <1>1, Zenon DEF vars, IInv, IndexSound, UndoSound, DiskSound
  <2>3. CacheSound' /\ TipSound' /\ ReplaySound'
    BY <1>1, Zenon DEF vars, IInv, CacheSound, TipSound, ReplaySound, View
  <2>4. phase' \in {"flushing", "replayed"} => FlushSound'
    BY <1>1, Zenon DEF vars, IInv, FlushSound, View
  <2> QED
    BY <1>1, <2>1, <2>2, <2>3, <2>4, Zenon DEF vars, IInv, OnlyInvalidRejected
<1>2. CASE Next
  <2>1. ASSUME NEW b \in Blocks, ConnectTip(b) PROVE IInv'
    BY <2>1, ConnectStep
  <2>2. ASSUME NEW o \in Outpoints, AccessCoin(o) \/ Uncache(o) PROVE IInv'
    BY <2>2, AccessStep
  <2>3. ASSUME NEW m \in {"flush", "sync"}, StartFlush(m) PROVE IInv'
    BY <2>3, StartFlushStep
  <2>4. ASSUME NEW S \in SUBSET todo, WriteBatch(S) PROVE IInv'
    BY <2>4, WriteBatchStep
  <2>5. ASSUME NEW S \in SUBSET todo, WriteFails(S) PROVE IInv'
    BY <2>5, WriteFailsStep, Zenon
  <2> QED
    BY <1>2, <2>1, <2>2, <2>3, <2>4, <2>5, DisconnectStep, FinishFlushStep, WriteBackStep,
       CrashStep, RestartStep, RollbackStep, RollforwardStep, Zenon DEF Next
<1> QED
  BY <1>1, <1>2, Zenon

\* A connected block is always one its undo data can disconnect.
LEMMA TipDisconnectsHolds == IInv => TipDisconnects
<1> SUFFICES ASSUME IInv, phase = "up", best \in Blocks \ {Genesis}
             PROVE  DisconnectsCleanly(best)
  BY Zenon DEF TipDisconnects
<1>1. undo[best].known /\ \A o \in Outpoints : View[o] = Utxo[best][o]
  BY TreeFacts, Zenon DEF IInv, TipSound
<1>2. \A o \in Outpoints : Utxo[best][o] =
         IF o \in Spends[best] THEN 0
         ELSE IF o \in Creates[best] THEN Height[best] ELSE Utxo[Parent[best]][o]
  BY UtxoOf, Zenon
<1>3. \A o \in Spends[best] : undo[best].coins[o] =
         IF o \in Creates[best] THEN Height[best] ELSE Utxo[Parent[best]][o]
  BY <1>1, Zenon DEF IInv, IndexSound, UndoSound
<1> QED
  BY TreeFacts, <1>1, <1>2, <1>3, Zenon DEF DisconnectsCleanly

\* Neither exception of BatchWrite can be thrown, nor its assertion fail.
LEMMA NoLogicErrorHolds == IInv => NoLogicError
<1> SUFFICES ASSUME IInv PROVE NoLogicError
  OBVIOUS
<1>1. phase \in {"flushing", "replayed"} /\ disk.heads # NoHeads => disk.heads.new = best
  BY Zenon DEF IInv, TipSound
<1>2. ASSUME phase = "up", NEW o \in Outpoints
      PROVE  /\ CoinSound(cache[o], disk.coins[o])
             /\ View[o] = Seen(cache[o], disk.coins[o])
  BY <1>2, Zenon DEF IInv, TypeOK, Disks, CacheSound, View, CoinSound
<1>3. ASSUME phase = "up", NEW b \in Blocks, Parent[b] = best, Passes(b), NEW o \in Outpoints
      PROVE  ~MergeThrows(cache[o], ConnectCoin(b, o, Absent, View[o]))
  <2> DEFINE e == cache[o]  c == disk.coins[o]  n == Merge(e, ConnectCoin(b, o, Absent, Seen(e, c)))
  <2>1. CoinSound(e, c) /\ View[o] = Seen(e, c)
    BY <1>2, <1>3, Zenon
  <2>2. /\ o \in Creates[b] => Height[b] # 0
        /\ o \in Creates[b] => Seen(e, c) = 0
        /\ o \in Spends[b] \ Creates[b] => Seen(e, c) # 0
    BY TreeFacts, <1>3, <2>1, Zenon DEF Passes
  <2>3. n = Merge(e, ConnectCoin(b, o, Absent, Seen(e, c)))
    BY Zenon
  <2> HIDE DEF e, c, n
  <2>4. ~MergeThrows(e, ConnectCoin(b, o, Absent, Seen(e, c)))
    <3>1. Connects(b, o, e, c, n)
      BY ConnectEntry
    <3> QED
      BY <2>1, <2>2, <2>3, <3>1, Zenon DEF Connects
  <2> QED
    BY <2>1, <2>4, Zenon DEF e
<1>4. ASSUME phase = "up", best \in Blocks \ {Genesis}, NEW o \in Outpoints
      PROVE  ~MergeThrows(FetchCoin(cache[o], disk.coins[o]),
                          DisconnectCoin(best, o, Absent, View[o], undo[best].coins))
  <2> DEFINE b == best  e == cache[o]  c == disk.coins[o]  u == undo[best].coins
             n == Merge(FetchCoin(e, c), DisconnectCoin(b, o, Absent, Seen(e, c), u))
  <2>1. CoinSound(e, c) /\ View[o] = Seen(e, c) /\ b \in Blocks
    BY <1>2, <1>4, Zenon
  <2>2. CASE o \in Creates[b] \cup Spends[b]
    <3>1. undo[best].known /\ View[o] = Utxo[best][o]
      BY TreeFacts, <1>4, Zenon DEF IInv, TipSound
    <3>2. /\ Valid(best)
          /\ o \in Spends[b] => u[o] = IF o \in Creates[b] THEN Height[b] ELSE Utxo[Parent[b]][o]
      BY <1>4, <3>1, Zenon DEF IInv, IndexSound, UndoSound
    <3>3. Utxo[b][o] = IF o \in Spends[b] THEN 0
                       ELSE IF o \in Creates[b] THEN Height[b] ELSE Utxo[Parent[b]][o]
      BY UtxoOf, <1>4
    <3>4. o \in Spends[b] => u[o] \in Nat \ {0} /\ Seen(e, c) = 0
      BY TreeFacts, <1>4, <2>1, <3>1, <3>2, <3>3, Zenon DEF Valid
    <3>5. n = Merge(FetchCoin(e, c), DisconnectCoin(b, o, Absent, Seen(e, c), u))
      BY Zenon
    <3> HIDE DEF b, e, c, u, n
    <3>6. ~MergeThrows(FetchCoin(e, c), DisconnectCoin(b, o, Absent, Seen(e, c), u))
      <4>1. Disconnects(b, o, e, c, u, n)
        BY <2>1, <2>2, DisconnectEntry, Zenon
      <4> QED
        BY <2>1, <3>4, <3>5, <4>1, Zenon DEF Disconnects
    <3> QED
      BY <2>1, <3>6, Zenon DEF b, e, c, u
  <2>3. CASE o \notin Creates[b] \cup Spends[b]
    BY <2>3, Zenon DEF DisconnectCoin, MergeThrows, Absent
  <2> QED
    BY <2>2, <2>3, Zenon
<1> QED
  BY <1>1, <1>3, <1>4, Zenon DEF NoLogicError

\* For every block tree, every set of outpoints and any number of crashes, as
\* long as only full flushes fail to write: CoinsTip answers with the UTXO set
\* of its best block, a database that names a best block holds exactly its
\* UTXO set, and the FRESH flags never mislead BatchWrite.
THEOREM CoinsCorrect ==
    ASSUME "sync" \notin FailingModes
    PROVE  Spec => [](/\ ViewIsUtxo /\ MarkedConsistent /\ FlagsSound /\ NoLogicError
                      /\ OnlyInvalidRejected /\ TipDisconnects /\ HeadsAreIndexed)
<1>1. Init => IInv
  BY InitIInv
<1>2. IInv /\ [Next]_vars => IInv'
  BY NextIInv
<1>3. IInv => /\ ViewIsUtxo /\ MarkedConsistent /\ FlagsSound /\ NoLogicError
              /\ OnlyInvalidRejected /\ TipDisconnects /\ HeadsAreIndexed
  <2> SUFFICES ASSUME IInv
               PROVE  ViewIsUtxo /\ MarkedConsistent /\ FlagsSound /\ HeadsAreIndexed
    BY NoLogicErrorHolds, TipDisconnectsHolds, Zenon DEF IInv
  <2>1. ViewIsUtxo
    <3> SUFFICES ASSUME Up PROVE View = Utxo[best]
      BY Zenon DEF ViewIsUtxo
    <3>1. Utxo[best] \in [Outpoints -> Nat]
      BY TreeFacts, Zenon DEF IInv, TypeOK
    <3>2. \A o \in Outpoints : View[o] = Utxo[best][o]
      BY Zenon DEF IInv, TipSound
    <3>3. View = [o \in Outpoints |-> View[o]]
      BY DEF View
    <3>4. View \in [Outpoints -> Nat]
      BY <3>1, <3>2, <3>3
    <3> QED
      BY <3>1, <3>2, <3>4, SameCoins, Zenon
  <2>2. MarkedConsistent
    BY Zenon DEF IInv, DiskSound, MarkedConsistent
  <2>3. HeadsAreIndexed
    BY Zenon DEF IInv, DiskSound, HeadsAreIndexed
  <2>4. FlagsSound
    BY SMTT(40) DEF IInv, TypeOK, Entry, Disks, CacheSound, EntrySound, FreshSound,
                    FlagsSound, Absent
  <2> QED
    BY <2>1, <2>2, <2>3, <2>4, Zenon
<1> QED
  BY <1>1, <1>2, <1>3, PTL DEF Spec

\* CoinsTip answers with the UTXO set of its best block, whatever was flushed,
\* replayed or lost in between.
COROLLARY ViewIsUtxoOfTip ==
    ASSUME "sync" \notin FailingModes
    PROVE  Spec => []ViewIsUtxo
<1>1. Spec => [](/\ ViewIsUtxo /\ MarkedConsistent /\ FlagsSound /\ NoLogicError
                 /\ OnlyInvalidRejected /\ TipDisconnects /\ HeadsAreIndexed)
  BY CoinsCorrect
<1> QED
  BY <1>1, PTL

\* A database that names a best block holds exactly the coins of that block.
COROLLARY MarkedDatabaseConsistent ==
    ASSUME "sync" \notin FailingModes
    PROVE  Spec => []MarkedConsistent
<1>1. Spec => [](/\ ViewIsUtxo /\ MarkedConsistent /\ FlagsSound /\ NoLogicError
                 /\ OnlyInvalidRejected /\ TipDisconnects /\ HeadsAreIndexed)
  BY CoinsCorrect
<1> QED
  BY <1>1, PTL

\* BatchWrite never throws for a misapplied FRESH flag, and a flush that resumes a
\* broken one has the same target.
COROLLARY LogicErrorsExcluded ==
    ASSUME "sync" \notin FailingModes
    PROVE  Spec => []NoLogicError
<1>1. Spec => [](/\ ViewIsUtxo /\ MarkedConsistent /\ FlagsSound /\ NoLogicError
                 /\ OnlyInvalidRejected /\ TipDisconnects /\ HeadsAreIndexed)
  BY CoinsCorrect
<1> QED
  BY <1>1, PTL

=============================================================================
