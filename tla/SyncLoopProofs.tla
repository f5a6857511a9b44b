--------------------------- MODULE SyncLoopProofs ---------------------------
(***************************************************************************)
(* Sync runs, for any block tree, finite or not, and any source: the       *)
(* results of ChainstateProofs and SyncRunProofs put together.             *)
(*                                                                         *)
(* 1. Any number of runs that share a chainstate with each other and with  *)
(*    the headers that the application feeds: the chainstate, the streams, *)
(*    and what is left of the meaning of the reported tips.                *)
(* 2. A run that has the chainstate to itself: what it reports is what the *)
(*    kernel validated.                                                    *)
(***************************************************************************)
EXTENDS ChainstateProofs, SyncRunProofs

\* The invariant of the shared kernel state, for any block tree, any number of runs,
\* any source and any headers the application feeds.
THEOREM KernelInvariant == Spec => []KernelInv
    BY ChainContractHolds, KernelUnderContract, Zenon

\* Type correctness of runSyncLoop and of the chainstate it shares.
THEOREM TypeCorrect == Spec => []TypeOK
<1>1. KernelInv => TypeOK
    BY Zenon DEF KernelInv, StreamTyped, LocalsTyped, ChainInv, TypeOK
<1> QED  BY <1>1, KernelInvariant, PTL

\* Any number of runs may feed one ChainstateManager while the application feeds it
\* headers: processBlock and processBlockHeader keep the chainstate sound.
THEOREM SharedChainstateSound == Spec => []ChainstateSound
<1>1. KernelInv => ChainstateSound
    BY ChainContractHolds, KernelInvSound
<1> QED  BY <1>1, KernelInvariant, PTL

\* The invariants of kernel and streams hold of any number of runs.
THEOREM SyncInvariant == Spec => []SyncInv
    BY KernelInvariant, StreamFollowsKernel, PTL

\* The updates of any number of runs on one chainstate are sequences that UpdateStream
\* allows: BlockchainSync.Updates keeps its promise whatever source and kernel do.
THEOREM StreamRefines == Spec => StreamContract
    BY KernelInvariant, RefinesUnderKernel, PTL

-----------------------------------------------------------------------------
(* What runs that share the chainstate report. *)

\* A step of a run is aside of the kernel, or it is one of the two halves of
\* processBlock.
LEMMA KernelSteps ==
    ASSUME ChainContract, KernelInv, [Next]_vars
    PROVE  \/ cs' = cs
           \/ \E b \in Blocks : ~BlockRejected(cs, b) /\ cs' = AcceptBlock(cs, b)
           \/ cs' \in ActivateBestChain(cs)
           \/ \E b \in AppHeaders : ~HeaderRejected(cs, b) /\ cs' = AddToBlockIndex(cs, b)
<1>1. CASE \E r \in Runs : Start(r) \/ RunStep(r)
    <2>1. PICK r \in Runs : Start(r) \/ RunStep(r)
        BY <1>1
    <2>2. CASE ProcessAccept(r)
        <3>1. fetched[r].hash \in Blocks
            BY <2>2, Zenon DEF ProcessAccept, KernelInv, FetchedBlocks
        <3> QED  BY <2>2, <3>1, Zenon DEF ProcessAccept
    <2>3. CASE ProcessActivate(r)
        BY <2>3, Zenon DEF ProcessActivate
    <2>4. CASE ~ProcessAccept(r) /\ ~ProcessActivate(r)
        BY <2>1, <2>4, ChainAssumption, SyncAssumption, RunStepAside, Zenon DEF AsideOfKernel
    <2> QED  BY <2>2, <2>3, <2>4, Zenon
<1>2. CASE processBlockHeader
    BY <1>2, Zenon DEF processBlockHeader
<1>3. CASE \/ \E r \in Runs : Consume(r) \/ ConsumerStops(r)
           \/ Shutdown \/ SourceMoves \/ Finished \/ UNCHANGED vars
    BY <1>3, Zenon DEF Consume, ConsumerStops, Shutdown, SourceMoves, Finished, vars, shared
<1> QED  BY <1>1, <1>2, <1>3, Zenon DEF Next

\* No step takes anything back, and only the application adds a header without its
\* block.
LEMMA KernelGrows ==
    ASSUME ChainContract, KernelInv, [Next]_vars
    PROVE  Keeps(cs, cs') /\ (MissingFed => MissingFed')
<1>t. ChainInv(cs) /\ cs.best \in Blocks /\ cs.tip \in Blocks
    BY Zenon DEF KernelInv, ChainInv, Chainstates
<1>g. GrowthContract
    BY Zenon DEF ChainContract
<1>1. CASE cs' = cs
    <2>1. Height[cs.tip] \in Nat /\ Height[cs.best] \in Nat
        BY <1>t, ChainAssumption, Zenon DEF ChainAssumption
    <2>2. Height[cs.tip] <= Height[cs.tip] /\ Height[cs.best] <= Height[cs.best]
        BY <2>1
    <2> QED  BY <1>1, <2>2, Zenon DEF Keeps, MissingFed
<1>2. ASSUME NEW b \in Blocks, ~BlockRejected(cs, b), cs' = AcceptBlock(cs, b)
      PROVE  Keeps(cs, cs') /\ (MissingFed => MissingFed')
    <2>1. Keeps(cs, cs') /\ cs'.known = cs.known \cup {b} /\ cs'.stored = cs.stored \cup {b}
        BY <1>t, <1>g, <1>2, Zenon DEF GrowthContract
    <2> QED  BY <2>1, Zenon DEF MissingFed
<1>3. CASE cs' \in ActivateBestChain(cs)
    <2>1. Keeps(cs, cs') /\ cs'.known = cs.known /\ cs'.stored = cs.stored
        BY <1>t, <1>g, <1>3, Zenon DEF GrowthContract
    <2> QED  BY <2>1, Zenon DEF MissingFed
<1>4. ASSUME NEW b \in AppHeaders, ~HeaderRejected(cs, b), cs' = AddToBlockIndex(cs, b)
      PROVE  Keeps(cs, cs') /\ (MissingFed => MissingFed')
    <2>1. b \in Blocks
        BY SyncAssumption, Zenon DEF SyncAssumption
    <2>2. Keeps(cs, cs') /\ cs'.known = cs.known \cup {b} /\ cs'.stored = cs.stored
        BY <1>t, <1>g, <1>4, <2>1, Zenon DEF GrowthContract
    <2> QED  BY <2>2, Zenon DEF MissingFed
<1> QED  BY <1>1, <1>2, <1>3, <1>4, KernelSteps, Zenon

\* The kernel state the runs share takes nothing back: no header, block or failure mark
\* is forgotten, and processBlock never leaves an active chain with less work.
THEOREM KernelTakesNothingBack == Spec => KernelKeeps
<1>1. KernelInv /\ [Next]_vars => [Keeps(cs, cs')]_vars
    BY ChainContractHolds, KernelGrows, Zenon
<1> QED  BY <1>1, KernelInvariant, PTL DEF Spec, KernelKeeps

\* Where a step leaves the run: before a request or kernel call other than those that
\* FeedsNext is about.
LEMMA AwayFromFeeding ==
    ASSUME StreamTyped, NEW r \in Runs,
           \/ Start(r) \/ RequestFails(r) \/ TipHeight(r) \/ RemoteTip(r) \/ ForkCheck(r)
           \/ LoopTop(r) \/ Repoll(r) \/ Advance(r)
    PROVE  pc'[r] \notin {"block", "accept", "activate", "readTip"}
<1> DEFINE Away == {"tipHeight", "tipHash", "forkHash", "pollHeight", "pollHash", "hash",
                    "loop", "done"}
<1>1. "tipHeight" \in Away /\ "tipHash" \in Away /\ "forkHash" \in Away
      /\ "pollHeight" \in Away /\ "pollHash" \in Away /\ "hash" \in Away /\ "loop" \in Away
      /\ "done" \in Away /\ \A l \in Away : l \notin {"block", "accept", "activate", "readTip"}
    OBVIOUS
<1> HIDE DEF Away
<1>2. \E l \in Away : pc' = [pc EXCEPT ![r] = l]
    BY <1>1, Zenon
       DEF Start, RequestFails, TipHeight, RemoteTip, ForkCheck, LoopTop, Repoll, Advance,
           EnterLoop, Fail, Conclude, EndSilently, Finish, Goto
<1>3. PICK l \in Away : pc' = [pc EXCEPT ![r] = l]
    BY <1>2, Zenon
<1>4. pc'[r] = l
    BY <1>3, Zenon DEF StreamTyped
<1> QED  BY <1>1, <1>4, Zenon

\* A step of a run keeps to the block above the run's tip.
LEMMA StepFeedsNext ==
    ASSUME ChainContract, KernelInv, NEW r \in Runs, FeedsNext(r), Start(r) \/ RunStep(r),
           Keeps(cs, cs')
    PROVE  FeedsNext(r)'
<1>t. StreamTyped /\ LocalsTyped /\ ChainInv(cs)
    BY Zenon DEF KernelInv
<1>y. /\ pc \in [Runs -> PCs] /\ fetched \in [Runs -> Tips] /\ remote \in Blocks
      /\ Height[localTip[r]] \in Nat /\ Height[remote] \in Nat
    BY <1>t, ChainAssumption, SyncAssumption, Zenon
       DEF StreamTyped, LocalsTyped, SyncAssumption, ChainAssumption
<1>1. CASE FetchHash(r)
    <2>1. CASE Fail(r, "source", remoteTip[r])
        <3>1. pc'[r] = "done"
            BY <1>y, <2>1, Zenon DEF Fail, Conclude, Finish
        <3> QED  BY <3>1, Zenon DEF FeedsNext
    <2>2. CASE /\ Height[localTip[r]] + 1 <= Height[remote]
               /\ fetched' = [fetched EXCEPT ![r].hash =
                                 AncestorAt(remote, Height[localTip[r]] + 1)]
               /\ Goto(r, "block") /\ localTip' = localTip
        <3>1. Height[localTip[r]] + 1 \in 0 .. Height[remote]
            BY <1>y, <2>2
        <3>2. Height[AncestorAt(remote, Height[localTip[r]] + 1)] = Height[localTip[r]] + 1
            BY <1>y, <3>1, Zenon DEF ChainContract, TreeContract
        <3>3. fetched'[r].hash = AncestorAt(remote, Height[localTip[r]] + 1)
            BY <1>y, <2>2, Zenon DEF Tips
        <3>4. pc'[r] = "block"
            BY <1>y, <2>2, Zenon DEF Goto
        <3> QED  BY <2>2, <3>2, <3>3, <3>4, Zenon DEF FeedsNext
    <2> QED  BY <1>1, <2>1, <2>2, Zenon DEF FetchHash
<1>2. CASE FetchBlock(r)
    <2>1. /\ pc[r] = "block" /\ pc'[r] = "accept" /\ fetched' = fetched
          /\ localTip' = localTip
        BY <1>2, <1>y, Zenon DEF FetchBlock, Goto, locals
    <2> QED  BY <2>1, Zenon DEF FeedsNext
<1>3. CASE ProcessAccept(r)
    <2>1. pc[r] = "accept" /\ fetched' = fetched /\ localTip' = localTip
        BY <1>3, Zenon DEF ProcessAccept, locals
    <2>2. CASE Fail(r, "rejected", remoteTip[r])
        <3>1. pc'[r] = "done"
            BY <1>y, <2>2, Zenon DEF Fail, Conclude, Finish
        <3> QED  BY <3>1, Zenon DEF FeedsNext
    <2>3. CASE /\ ~BlockRejected(cs, fetched[r].hash)
               /\ cs' = AcceptBlock(cs, fetched[r].hash) /\ Goto(r, "activate")
        <3>1. fetched[r].hash \in Blocks
            BY <2>1, Zenon DEF KernelInv, FetchedBlocks
        <3>2. fetched[r].hash \in cs'.known
            <4>1. GrowthContract
                BY Zenon DEF ChainContract
            <4>2. cs'.known = cs.known \cup {fetched[r].hash}
                BY <1>t, <2>3, <3>1, <4>1, Zenon DEF GrowthContract
            <4> QED  BY <4>2, Zenon
        <3>3. pc'[r] = "activate"
            BY <1>y, <2>3, Zenon DEF Goto
        <3> QED  BY <2>1, <3>2, <3>3, Zenon DEF FeedsNext
    <2> QED  BY <1>3, <2>2, <2>3, Zenon DEF ProcessAccept
<1>4. CASE ProcessActivate(r)
    <2>1. /\ pc[r] = "activate" /\ pc'[r] = "readTip" /\ fetched' = fetched
          /\ localTip' = localTip
        BY <1>4, <1>y, Zenon DEF ProcessActivate, Goto, locals
    <2>2. cs.known \subseteq cs'.known
        BY Zenon DEF Keeps
    <2> QED  BY <2>1, <2>2, Zenon DEF FeedsNext
<1>5. CASE \/ Start(r) \/ RequestFails(r) \/ TipHeight(r) \/ RemoteTip(r) \/ ForkCheck(r)
           \/ LoopTop(r) \/ Repoll(r) \/ Advance(r)
    <2>1. pc'[r] \notin {"block", "accept", "activate", "readTip"}
        BY <1>5, <1>t, AwayFromFeeding, Zenon
    <2> QED  BY <2>1, Zenon DEF FeedsNext
<1> QED  BY <1>1, <1>2, <1>3, <1>4, <1>5, Zenon DEF RunStep

\* The local tip of a run is the block it read last.
LEMMA LocalTipRead ==
    ASSUME NEW r \in Runs, Start(r) \/ RunStep(r)
    PROVE  \/ localTip' = localTip /\ (pc[r] # "idle" /\ pc[r] # "readTip")
           \/ localTip' = [localTip EXCEPT ![r] = cs.best] /\ cs' = cs
<1>1. CASE Start(r) \/ Advance(r)
    BY <1>1, Zenon DEF Start, Advance, readLocalTip
<1>2. CASE \/ RequestFails(r) \/ TipHeight(r) \/ RemoteTip(r) \/ ForkCheck(r) \/ LoopTop(r)
           \/ Repoll(r) \/ FetchHash(r) \/ FetchBlock(r) \/ ProcessAccept(r)
           \/ ProcessActivate(r)
    <2>1. localTip' = localTip
        BY <1>2, Zenon DEF RequestFails, TipHeight, RemoteTip, ForkCheck, LoopTop, Repoll,
              FetchHash, FetchBlock, ProcessAccept, ProcessActivate, locals
    <2>2. pc[r] \in Requests \cup {"loop", "accept", "activate"}
        BY <1>2, Zenon DEF RequestFails, TipHeight, RemoteTip, ForkCheck, LoopTop, Repoll,
              FetchHash, FetchBlock, ProcessAccept, ProcessActivate, Requests
    <2>3. pc[r] # "idle" /\ pc[r] # "readTip"
        BY <2>2 DEF Requests
    <2> QED  BY <2>1, <2>3, Zenon
<1> QED  BY <1>1, <1>2, Zenon DEF RunStep

\* A step of a run reports a tip that is indexed.
LEMMA StepReportsKnown ==
    ASSUME KernelInv, NEW r \in Runs, ReportsKnown(r), Start(r) \/ RunStep(r), StreamStep(r),
           Keeps(cs, cs')
    PROVE  ReportsKnown(r)'
<1>t. /\ localTip \in [Runs -> Blocks] /\ emitted[r] \in Seq(Updates)
      /\ cs.best \in cs.known /\ cs.known \subseteq cs'.known
    BY Zenon DEF KernelInv, LocalsTyped, StreamTyped, ChainInv, Keeps
<1>1. localTip'[r] \in cs'.known /\ (pc[r] \in Busy => localTip[r] \in cs.known)
    <2>1. pc[r] # "idle" => localTip[r] \in cs.known
        BY Zenon DEF ReportsKnown
    <2>2. pc[r] \in Busy => pc[r] # "idle"
        BY DEF Busy
    <2>3. CASE localTip' = localTip /\ (pc[r] # "idle" /\ pc[r] # "readTip")
        BY <1>t, <2>1, <2>3, Zenon
    <2>4. CASE localTip' = [localTip EXCEPT ![r] = cs.best] /\ cs' = cs
        BY <1>t, <2>1, <2>2, <2>4, Zenon
    <2> QED  BY <2>1, <2>2, <2>3, <2>4, LocalTipRead, Zenon
<1>2. CASE emitted'[r] = emitted[r]
    BY <1>t, <1>1, <1>2, Zenon DEF ReportsKnown
<1>3. ASSUME NEW u \in Updates, Tells(r, u) \/ Closes(r, u)
      PROVE  ReportsKnown(r)'
    <2>1. /\ emitted'[r] = Append(emitted[r], u) /\ u.tip \in cs'.known
          /\ u.state = "finished" => Height[u.tip] >= u.remoteTip.height
        <3>1. CASE Tells(r, u)
            <4>1. u.state # "finished"
                BY <3>1 DEF Tells
            <4> QED  BY <1>1, <3>1, <4>1, Zenon DEF Tells
        <3>2. CASE Closes(r, u)
            BY <1>t, <1>1, <3>2, Zenon DEF Closes
        <3> QED  BY <1>3, <3>1, <3>2, Zenon
    <2>2. \A i \in 1 .. Len(Append(emitted[r], u)) :
              \/ i \in 1 .. Len(emitted[r]) /\ Append(emitted[r], u)[i] = emitted[r][i]
              \/ Append(emitted[r], u)[i] = u
        BY <1>t, AppendElements, Zenon
    <2> QED  BY <1>t, <1>1, <2>1, <2>2, Zenon DEF ReportsKnown
<1> QED  BY <1>2, <1>3, Zenon DEF StreamStep, Stays, Leaves

\* The invariant holds in a synced data directory with no run started.
LEMMA InitSharedInv == ASSUME Init PROVE SharedInv
<1>1. PICK t \in InitialTips : cs = SyncedTo(t)
    BY Zenon DEF Init
<1>2. MissingFed
    BY <1>1, Zenon DEF SyncedTo, MissingFed
<1>3. ASSUME NEW r \in Runs PROVE ReportsKnown(r) /\ FeedsNext(r)
    BY DEF Init, ReportsKnown, FeedsNext
<1> QED  BY <1>2, <1>3, Zenon DEF SharedInv

\* Every step keeps the invariant.
LEMMA NextSharedInv ==
    ASSUME ChainContract, SyncInv, SharedInv, [Next]_vars
    PROVE  SharedInv'
<1>k. KernelInv /\ StreamInv /\ ReportInv
    BY Zenon DEF SyncInv
<1>1. Keeps(cs, cs') /\ MissingFed'
    BY <1>k, KernelGrows, Zenon DEF SharedInv
<1>2. ASSUME NEW q \in Runs, pc'[q] = pc[q], localTip'[q] = localTip[q],
             fetched'[q] = fetched[q], emitted'[q] = emitted[q]
      PROVE  ReportsKnown(q)' /\ FeedsNext(q)'
    <2>1. ReportsKnown(q) /\ FeedsNext(q) /\ cs.known \subseteq cs'.known
        BY <1>1, Zenon DEF SharedInv, Keeps
    <2>2. ReportsKnown(q)'
        BY <1>2, <2>1, Zenon DEF ReportsKnown
    <2>3. FeedsNext(q)'
        BY <1>2, <2>1, Zenon DEF FeedsNext
    <2> QED  BY <2>2, <2>3, Zenon
<1>3. CASE \E r \in Runs : Start(r) \/ RunStep(r)
    <2>1. PICK r \in Runs : Start(r) \/ RunStep(r)
        BY <1>3
    <2>2. StreamStep(r) /\ ReportsKnown(r) /\ FeedsNext(r)
        BY <1>k, <2>1, SyncAssumption, RunStepStream, Zenon DEF SharedInv
    <2>3. ReportsKnown(r)' /\ FeedsNext(r)'
        BY <1>k, <1>1, <2>1, <2>2, StepReportsKnown, StepFeedsNext, Zenon
    <2>4. \A q \in Runs \ {r} : fetched'[q] = fetched[q]
        <3>1. CASE ProcessAccept(r) \/ ProcessActivate(r)
            BY <3>1, Zenon DEF ProcessAccept, ProcessActivate, locals
        <3>2. CASE ~ProcessAccept(r) /\ ~ProcessActivate(r)
            BY <1>k, <2>1, <3>2, ChainAssumption, SyncAssumption, RunStepAside, Zenon
               DEF AsideOfKernel
        <3> QED  BY <3>1, <3>2, Zenon
    <2>5. ASSUME NEW q \in Runs \ {r} PROVE ReportsKnown(q)' /\ FeedsNext(q)'
        BY <1>2, <2>2, <2>4, Zenon DEF StreamStep, Alongside
    <2> QED  BY <1>1, <2>3, <2>5, Zenon DEF SharedInv
<1>4. CASE \/ \E r \in Runs : Consume(r) \/ ConsumerStops(r)
           \/ Shutdown \/ SourceMoves \/ processBlockHeader \/ Finished \/ UNCHANGED vars
    <2>1. UNCHANGED <<pc, localTip, fetched, emitted>>
        BY <1>4, Zenon DEF Consume, ConsumerStops, Shutdown, SourceMoves, processBlockHeader,
              Finished, vars, shared, locals, stream
    <2> QED  BY <1>1, <1>2, <2>1, Zenon DEF SharedInv
<1> QED  BY <1>3, <1>4, Zenon DEF Next

\* The invariant of runs that share a chainstate.
THEOREM SharedInvariant == Spec => [](SyncInv /\ SharedInv)
<1>1. SyncInv /\ SharedInv /\ [Next]_vars => SharedInv'
    BY ChainContractHolds, NextSharedInv, Zenon
<1>2. Init => SharedInv
    BY InitSharedInv, Zenon
<1> QED  BY <1>1, <1>2, SyncInvariant, PTL DEF Spec

\* What any number of runs on one chainstate report while the application feeds it
\* headers: below a reported tip only blocks are missing of which the application fed the
\* header, and finished means that the active chain has the height the source answered,
\* once no kernel call is under way, unless the reported tip is not stored or is marked
\* failed.
THEOREM SharedReports == Spec => []SharedReportsSound
<1>1. ASSUME SyncInv, SharedInv PROVE SharedReportsSound
    <2>k. /\ ChainInv(cs) /\ SettledBetweenCalls /\ emitted \in [Runs -> Seq(Updates)]
          /\ cs.tip \in Blocks
        BY <1>1, Zenon DEF SyncInv, KernelInv, StreamTyped, ChainInv, Chainstates
    <2> SUFFICES ASSUME NEW r \in Runs, NEW i \in 1 .. Len(emitted[r])
                 PROVE  LET u == emitted[r][i]
                        IN  /\ Ancestors[u.tip] \ cs.stored \subseteq AppHeaders
                            /\ /\ u.state = "finished"
                               /\ \A q \in Runs : pc[q] # "activate"
                               /\ u.tip \in Linked(cs) \ cs.failed
                               => Height[cs.tip] >= u.remoteTip.height
        BY Zenon DEF SharedReportsSound
    <2> DEFINE u == emitted[r][i]
    <2>1. u \in Updates
        <3> HIDE DEF Updates
        <3> QED  BY <2>k
    <2>2. /\ u.tip \in cs.known
          /\ u.state = "finished" => Height[u.tip] >= u.remoteTip.height
        BY <1>1, Zenon DEF SharedInv, ReportsKnown
    <2> HIDE DEF u
    <2>3. Ancestors[u.tip] \ cs.stored \subseteq AppHeaders
        <3>1. Ancestors[u.tip] \subseteq cs.known
            BY <2>k, <2>2, Zenon DEF ChainInv
        <3> QED  BY <1>1, <3>1, Zenon DEF SharedInv, MissingFed
    <2>4. ASSUME u.state = "finished", \A q \in Runs : pc[q] # "activate",
                 u.tip \in Linked(cs) \ cs.failed
          PROVE  Height[cs.tip] >= u.remoteTip.height
        <3>1. Height[u.tip] <= Height[cs.tip]
            BY <2>k, <2>4, Zenon DEF SettledBetweenCalls, Settled
        <3>2. u.tip \in Blocks /\ u.remoteTip.height \in Nat
            BY <2>1, Zenon DEF Updates, Tips
        <3>3. Height[u.tip] \in Nat /\ Height[cs.tip] \in Nat
            BY <2>k, <3>2, ChainAssumption, Zenon DEF ChainAssumption
        <3> QED  BY <2>2, <2>4, <3>1, <3>2, <3>3
    <2> QED  BY <2>3, <2>4, Zenon DEF u
<1> QED  BY <1>1, SharedInvariant, PTL

\* At readTip the tip is higher than the one the run reported last, as long as every
\* stored block connects: the block the run fed is indexed and not marked failed, so that
\* bestEntry has at least its height.
LEMMA ReadTipClimbs ==
    ASSUME KernelInv, NEW r \in Runs, FeedsNext(r), pc[r] = "readTip", cs.failed = {}
    PROVE  Height[cs.best] > Height[localTip[r]]
<1> DEFINE b == fetched[r].hash
<1>1. b \in cs.known /\ Height[b] = Height[localTip[r]] + 1
    BY Zenon DEF FeedsNext
<1>2. Height[b] <= Height[cs.best]
    BY <1>1, Zenon DEF KernelInv, ChainInv
<1>3. cs.best \in Blocks /\ localTip[r] \in Blocks
    BY Zenon DEF KernelInv, ChainInv, Chainstates, LocalsTyped
<1>4. Height[cs.best] \in Nat /\ Height[localTip[r]] \in Nat
    BY <1>3, ChainAssumption, Zenon DEF ChainAssumption
<1> HIDE DEF b
<1> QED  BY <1>1, <1>2, <1>4

\* What a step adds to the updates of a run: while every stored block connects, no lower
\* tip, and a higher one with every syncing update.
LEMMA ClimbStep ==
    ASSUME SyncInv, SharedInv, [Next]_vars, NEW r \in Runs
    PROVE  cs'.failed = {} /\ Len(emitted'[r]) > Len(emitted[r]) /\ emitted[r] # <<>>
               => LET u == emitted'[r][Len(emitted'[r])]
                  IN  /\ Height[u.tip] >= Height[lastUpdate(r).tip]
                      /\ u.state = "syncing" => Height[u.tip] > Height[lastUpdate(r).tip]
<1> SUFFICES ASSUME cs'.failed = {}, Len(emitted'[r]) > Len(emitted[r]), emitted[r] # <<>>
             PROVE  LET u == emitted'[r][Len(emitted'[r])]
                    IN  /\ Height[u.tip] >= Height[lastUpdate(r).tip]
                        /\ u.state = "syncing" => Height[u.tip] > Height[lastUpdate(r).tip]
    BY Zenon
<1>k. KernelInv /\ StreamInv /\ ReportInv /\ FeedsNext(r)
    BY Zenon DEF SyncInv, SharedInv
<1>y. /\ localTip \in [Runs -> Blocks] /\ localTip[r] \in Blocks /\ emitted[r] \in Seq(Updates)
    BY <1>k, Zenon DEF KernelInv, LocalsTyped, StreamTyped
<1>h. Height[localTip[r]] \in Nat
    BY <1>y, ChainAssumption, Zenon DEF ChainAssumption
<1>1. pc[r] # "idle" /\ (~terminated[r] => lastUpdate(r).tip = localTip[r])
    BY <1>k, Zenon DEF StreamInv, Phases, ReportInv, LastReported
<1>2. emitted'[r] # emitted[r]
    <2>1. Len(emitted[r]) \in Nat
        <3> HIDE DEF Updates
        <3> QED  BY <1>y
    <2> QED  BY <2>1
<1>3. (Start(r) \/ RunStep(r)) /\ StreamStep(r)
    <2>1. emitted' # emitted
        BY <1>2, Zenon
    <2>2. PICK q \in Runs : Start(q) \/ RunStep(q)
        BY <2>1, Zenon
           DEF Next, Consume, ConsumerStops, Shutdown, SourceMoves, processBlockHeader,
               Finished, vars, stream
    <2>3. StreamStep(q)
        BY <1>k, <2>2, SyncAssumption, RunStepStream, Zenon
    <2>4. q = r
        BY <1>2, <2>3, Zenon DEF StreamStep, Alongside
    <2> QED  BY <2>2, <2>3, <2>4, Zenon
<1>4. PICK u \in Updates : Tells(r, u) \/ Closes(r, u)
    BY <1>2, <1>3, Zenon DEF StreamStep, Stays, Leaves
<1>5. emitted'[r][Len(emitted'[r])] = u /\ ~terminated[r]
    <2>1. emitted'[r] = Append(emitted[r], u) /\ ~terminated[r]
        BY <1>4, Zenon DEF Tells, Closes
    <2> QED  BY <1>y, <2>1, AppendLast, Zenon
<1>6. lastUpdate(r).tip = localTip[r]
    BY <1>1, <1>5, Zenon
<1>7. CASE Closes(r, u)
    <2>1. u.tip = localTip[r] /\ u.state # "syncing"
        BY <1>7, Zenon DEF Closes, Terminal
    <2> QED  BY <1>h, <1>5, <1>6, <2>1
<1>8. CASE Tells(r, u)
    <2>1. pc[r] = "readTip" /\ u.tip = localTip'[r]
        BY <1>1, <1>8, Zenon DEF Tells
    <2>2. localTip' = [localTip EXCEPT ![r] = cs.best] /\ cs' = cs
        BY <1>3, <2>1, LocalTipRead, Zenon
    <2>3. u.tip = cs.best /\ cs.failed = {}
        BY <1>y, <2>1, <2>2, Zenon
    <2>4. Height[cs.best] > Height[localTip[r]]
        BY <1>k, <2>1, <2>3, ReadTipClimbs, Zenon
    <2>5. cs.best \in Blocks
        BY <1>k, Zenon DEF KernelInv, ChainInv, Chainstates
    <2>6. Height[cs.best] \in Nat
        BY <2>5, ChainAssumption, Zenon DEF ChainAssumption
    <2> QED  BY <1>h, <1>5, <1>6, <2>3, <2>4, <2>6
<1> QED  BY <1>4, <1>7, <1>8, Zenon

\* While every stored block connects the tips a run reports climb, never lower and higher
\* with every syncing update, whatever other runs and the application feed.
THEOREM TipsAlwaysClimb == Spec => TipsClimb
<1> DEFINE Climbs(r) ==
        cs'.failed = {} /\ Len(emitted'[r]) > Len(emitted[r]) /\ emitted[r] # <<>>
            => LET u == emitted'[r][Len(emitted'[r])]
               IN  /\ Height[u.tip] >= Height[lastUpdate(r).tip]
                   /\ u.state = "syncing" => Height[u.tip] > Height[lastUpdate(r).tip]
<1>1. SyncInv /\ SharedInv /\ [Next]_vars => [\A r \in Runs : Climbs(r)]_vars
    BY ClimbStep
<1>2. TipsClimb <=> [][\A r \in Runs : Climbs(r)]_vars
    BY DEF TipsClimb
<1> HIDE DEF Climbs
<1> QED  BY <1>1, <1>2, SharedInvariant, PTL DEF Spec

-----------------------------------------------------------------------------
(* A run that has the chainstate to itself. *)

\* The run starts with the tip of a synced chainstate.
LEMMA SoloStarts ==
    ASSUME ChainAssumption, ChainContract, SyncAssumption, KernelInv, NEW r \in Runs, Solo(r), Start(r)
    PROVE  Solo(r)'
<1> DEFINE u == [state |-> "preparing", why |-> "none", tip |-> readLocalTip,
                 remoteTip |-> unknownRemoteTip]
<1>t. StreamTyped /\ LocalsTyped /\ ChainInv(cs) /\ pc \in [Runs -> PCs]
      /\ localTip \in [Runs -> Blocks] /\ cs.best \in Blocks
    BY Zenon DEF KernelInv, StreamTyped, LocalsTyped, ChainInv, Chainstates
<1>1. pc[r] = "idle" /\ Line(cs, cs.tip) /\ cs.best = cs.tip /\ cs.tip \in Ancestors[cs.tip]
    BY <1>t, Zenon DEF Start, Solo, FeedsLine, Line, ChainContract, TreeContract
<1>2. /\ cs' = cs /\ progress' = progress /\ localTip'[r] = cs.best /\ pc'[r] = "tipHeight"
      /\ terminated' = terminated /\ Yield(r, u)
    BY <1>t, Zenon DEF Start, Goto, readLocalTip
<1>3. u \in Updates /\ u.tip = cs.best /\ u.state # "finished"
    BY <1>t DEF Updates, States, Reasons, Tips, unknownRemoteTip, readLocalTip
<1> HIDE DEF u
<1>4. ReportsBelowTip(r)' /\ (~terminated[r] => lastUpdate(r)' = u)
    BY <1>t, <1>1, <1>2, <1>3, YieldReports, Zenon DEF Solo
<1>5. LastReported(r)'
    BY <1>2, <1>3, <1>4, Zenon DEF LastReported
<1>6. FeedsLine(r)'
    BY <1>1, <1>2, Zenon DEF FeedsLine
<1>7. ProgressFollows(r)'
    BY <1>1, <1>2 DEF Solo, ProgressFollows, InLoop
<1> QED  BY <1>4, <1>5, <1>6, <1>7, Zenon DEF Solo

\* processBlock up to AcceptBlock: the line grows by the block above the tip.
LEMMA SoloAccepts ==
    ASSUME ChainAssumption, ChainContract, SyncAssumption, KernelInv, NEW r \in Runs, Solo(r), ProcessAccept(r)
    PROVE  Solo(r)'
<1>t. StreamTyped /\ LocalsTyped /\ ChainInv(cs) /\ pc \in [Runs -> PCs]
      /\ remoteTip[r] \in Tips
    BY DEF KernelInv, StreamTyped, LocalsTyped
<1>1. /\ pc[r] = "accept" /\ pc[r] \in Between /\ pc[r] \in InLoop
      /\ localTip' = localTip /\ progress' = progress /\ fetched' = fetched
    BY Zenon DEF ProcessAccept, Between, PCs, InLoop, locals
<1> DEFINE b == fetched[r].hash
<1>2. b \in Blocks /\ Line(cs, cs.tip) /\ localTip[r] = cs.tip /\ Height[b] = Height[cs.tip] + 1
    BY <1>1, Zenon DEF KernelInv, FetchedBlocks, Solo, FeedsLine
<1>3. CASE Fail(r, "rejected", remoteTip[r]) /\ cs' = cs
    <2>1. Conclude(r, "failed", "rejected", localTip[r], remoteTip[r])
        BY <1>3, Zenon DEF Fail
    <2>2. "failed" \in States /\ "rejected" \in Reasons
        BY DEF States, Reasons
    <2> QED  BY <1>t, <1>1, <1>3, <2>1, <2>2, SoloConcludes, Zenon
<1>4. CASE /\ ~BlockRejected(cs, b) /\ cs' = AcceptBlock(cs, b)
           /\ Goto(r, "activate") /\ UNCHANGED stream
    <2>1. b # Genesis /\ Parent[b] = cs.tip /\ Line(cs', b) /\ cs'.tip = cs.tip
        BY <1>t, <1>2, <1>4, Zenon DEF Solo, FeedsLine, ChainContract, AcceptContract
    <2>2. pc'[r] = "activate" /\ emitted' = emitted /\ terminated' = terminated
        BY <1>t, <1>4, Zenon DEF Goto, stream
    <2>3. FeedsLine(r)'
        BY <1>1, <1>2, <2>1, <2>2, Zenon DEF FeedsLine
    <2>4. ProgressFollows(r)'
        BY <1>1, <2>2, Zenon DEF Solo, ProgressFollows
    <2>5. LastReported(r)'
        BY <1>1, <2>2, Zenon DEF Solo, LastReported, lastUpdate
    <2>6. ReportsBelowTip(r)'
        BY <2>1, <2>2, Zenon DEF Solo, ReportsBelowTip
    <2> QED  BY <2>3, <2>4, <2>5, <2>6, Zenon DEF Solo
<1> QED  BY <1>3, <1>4, Zenon DEF ProcessAccept

\* ActivateBestChain: the tip moves to that block, or the block is marked failed.
LEMMA SoloActivates ==
    ASSUME ChainAssumption, ChainContract, SyncAssumption, KernelInv, NEW r \in Runs, Solo(r), ProcessActivate(r)
    PROVE  Solo(r)'
<1>t. StreamTyped /\ LocalsTyped /\ ChainInv(cs) /\ pc \in [Runs -> PCs]
      /\ cs.tip \in Blocks
    BY Zenon DEF KernelInv, StreamTyped, LocalsTyped, ChainInv, Chainstates
<1>1. /\ pc[r] = "activate" /\ pc[r] \in InLoop /\ pc'[r] = "readTip"
      /\ localTip' = localTip /\ progress' = progress /\ emitted' = emitted
      /\ terminated' = terminated /\ cs' \in ActivateBestChain(cs)
    BY <1>t, Zenon DEF ProcessActivate, InLoop, locals, stream, Goto
<1> DEFINE b == fetched[r].hash
<1>2. b \in Blocks /\ b # Genesis /\ Parent[b] = cs.tip /\ Line(cs, b) /\ localTip[r] = cs.tip
    BY <1>1, Zenon DEF KernelInv, FetchedBlocks, Solo, FeedsLine
<1>3. Line(cs', cs'.tip) /\ (cs'.tip = b \/ (cs'.tip = cs.tip /\ cs'.failed # {}))
    BY <1>t, <1>1, <1>2 DEF ChainContract, ActivateContract
<1>4. Ancestors[cs.tip] \subseteq Ancestors[cs'.tip]
    BY <1>t, <1>2, <1>3 DEF ChainContract, TreeContract
<1>5. FeedsLine(r)'
    BY <1>1, <1>2, <1>3, Zenon DEF FeedsLine
<1>6. ProgressFollows(r)'
    BY <1>1, Zenon DEF Solo, ProgressFollows
<1>7. LastReported(r)'
    BY <1>1, Zenon DEF Solo, LastReported, lastUpdate
<1>8. ReportsBelowTip(r)'
    BY <1>1, <1>4, Zenon DEF Solo, ReportsBelowTip
<1> QED  BY <1>5, <1>6, <1>7, <1>8, Zenon DEF Solo

\* The new tip is read and reported.
LEMMA SoloAdvances ==
    ASSUME ChainAssumption, ChainContract, SyncAssumption, KernelInv, NEW r \in Runs, Solo(r), Advance(r)
    PROVE  Solo(r)'
<1> DEFINE u == [state |-> "syncing", why |-> "none", tip |-> readLocalTip,
                 remoteTip |-> remoteTip[r]]
<1>t. StreamTyped /\ LocalsTyped /\ ChainInv(cs) /\ pc \in [Runs -> PCs]
      /\ localTip \in [Runs -> Blocks] /\ cs.best \in Blocks /\ remoteTip[r] \in Tips
      /\ progress \in [total : Nat, completed : Nat]
    BY Zenon DEF KernelInv, StreamTyped, LocalsTyped, ChainInv, Chainstates
<1>1. pc[r] = "readTip" /\ Line(cs, cs.tip) /\ cs.best = cs.tip /\ cs.tip \in Ancestors[cs.tip]
    BY <1>t, Zenon DEF Advance, Solo, FeedsLine, Line, ChainContract, TreeContract
<1>2. /\ cs' = cs /\ localTip'[r] = cs.best /\ pc'[r] = "loop"
      /\ terminated' = terminated /\ Yield(r, u) /\ progress'.completed = Height[cs.best]
    BY <1>t, Zenon DEF Advance, Goto, readLocalTip
<1>3. u \in Updates /\ u.tip = cs.best /\ u.state # "finished"
    BY <1>t, Zenon DEF Updates, States, Reasons, readLocalTip
<1> HIDE DEF u
<1>4. ReportsBelowTip(r)' /\ (~terminated[r] => lastUpdate(r)' = u)
    BY <1>t, <1>1, <1>2, <1>3, YieldReports, Zenon DEF Solo
<1>5. LastReported(r)'
    BY <1>2, <1>3, <1>4, Zenon DEF LastReported
<1>6. FeedsLine(r)'
    BY <1>1, <1>2, Zenon DEF FeedsLine
<1>7. ProgressFollows(r)'
    BY <1>2, Zenon DEF ProgressFollows
<1> QED  BY <1>4, <1>5, <1>6, <1>7, Zenon DEF Solo

\* The consumer, shutdown() and the source do not touch what the run relies on.
LEMMA SoloSurroundings ==
    ASSUME KernelInv, NEW r \in Runs, Solo(r), Runs = {r},
           \/ Consume(r) \/ ConsumerStops(r)
           \/ Shutdown \/ SourceMoves \/ Finished \/ UNCHANGED vars
    PROVE  Solo(r)'
<1>1. UNCHANGED <<cs, pc, fetched, localTip, progress, emitted>>
    BY Zenon DEF Consume, ConsumerStops, Shutdown, SourceMoves, Finished, vars, shared, locals, stream
<1>2. terminated[r] => terminated'[r]
    BY DEF KernelInv, StreamTyped, Consume, ConsumerStops, Shutdown, SourceMoves, Finished,
           vars, stream
<1>3. FeedsLine(r)'
    BY <1>1, Zenon DEF Solo, FeedsLine
<1>4. ProgressFollows(r)'
    BY <1>1, Zenon DEF Solo, ProgressFollows
<1>5. LastReported(r)'
    BY <1>1, <1>2, Zenon DEF Solo, LastReported, lastUpdate
<1>6. ReportsBelowTip(r)'
    BY <1>1, Zenon DEF Solo, ReportsBelowTip
<1> QED  BY <1>3, <1>4, <1>5, <1>6, Zenon DEF Solo

\* The run starts on a data directory that has validated one chain.
LEMMA InitSoloInv == ASSUME ChainAssumption, SyncAssumption, Init PROVE SoloInv
<1> SUFFICES ASSUME NEW r \in Runs PROVE Solo(r)
    BY Zenon DEF SoloInv
<1>1. PICK t \in InitialTips : cs = SyncedTo(t)
    BY DEF Init
<1>2. Line(cs, cs.tip)
    BY <1>1, Zenon DEF SyncedTo, Line
<1>3. FeedsLine(r) /\ LastReported(r) /\ ReportsBelowTip(r)
    BY <1>2 DEF Init, FeedsLine, LastReported, ReportsBelowTip
<1>4. ProgressFollows(r)
    BY DEF Init, ProgressFollows, InLoop
<1> QED  BY <1>3, <1>4, Zenon DEF Solo

\* Every step keeps the invariant.
LEMMA NextSoloInv ==
    ASSUME ChainAssumption, ChainContract, SyncAssumption, Alone, KernelInv, SoloInv, [Next]_vars
    PROVE  SoloInv'
<1>1. PICK r : Runs = {r}
    BY DEF Alone
<1>2. r \in Runs /\ Solo(r) /\ (Solo(r)' => SoloInv')
    BY <1>1, Zenon DEF SoloInv
<1>3. ~processBlockHeader
    BY Zenon DEF processBlockHeader, Alone
<1>4. CASE Start(r) \/ RunStep(r)
    BY <1>2, <1>4, SoloStarts, SoloRequests, SoloAccepts, SoloActivates, SoloAdvances, Zenon DEF RunStep
<1>5. CASE \/ Consume(r) \/ ConsumerStops(r)
           \/ Shutdown \/ SourceMoves \/ Finished \/ UNCHANGED vars
    BY <1>1, <1>2, <1>5, SoloSurroundings, Zenon
<1> QED  BY <1>1, <1>3, <1>4, <1>5, Zenon DEF Next

\* The invariant of a run that has the chainstate to itself.
THEOREM SoloInvariant == ASSUME Alone PROVE Spec => [](KernelInv /\ SoloInv)
<1>1. Init => KernelInv /\ SoloInv
    BY ChainAssumption, ChainContractHolds, SyncAssumption, InitKernelInv, InitSoloInv, Zenon
<1>2. KernelInv /\ SoloInv /\ [Next]_vars => (KernelInv /\ SoloInv)'
    BY ChainAssumption, ChainContractHolds, SyncAssumption, NextKernelInv, NextSoloInv, Zenon
<1> QED  BY <1>1, <1>2, PTL DEF Spec

\* Every tip a run with the chainstate to itself reports is, and stays, a block of the
\* active chain that the kernel has validated (runSyncLoop yields readLocalTip after
\* processBlock), and finished means that the height the source answered is reached.
THEOREM ReportsStayValidated == ASSUME Alone PROVE Spec => []ReportedTipsValidated
<1>1. ASSUME KernelInv, SoloInv PROVE ReportedTipsValidated
    <2>1. cs.tip \in Linked(cs) /\ cs.tip \notin cs.failed /\ ChainInv(cs)
        BY <1>1, Zenon DEF KernelInv, ChainInv
    <2>2. Ancestors[cs.tip] \subseteq Linked(cs) \ cs.failed
        BY <2>1, ChainContractHolds, Zenon DEF ChainContract, LinkedContract
    <2> QED  BY <1>1, <2>2, Zenon DEF SoloInv, Solo, ReportsBelowTip, ReportedTipsValidated
<1> QED  BY <1>1, SoloInvariant, PTL

\* However the run ends, Progress shows the height of bestEntry.
THEOREM ProgressIsTip == ASSUME Alone PROVE Spec => []ProgressTracksTip
<1>1. ASSUME SoloInv PROVE ProgressTracksTip
    <2>1. PICK r : Runs = {r}
        BY DEF Alone
    <2>2. Solo(r)
        BY <1>1, <2>1, Zenon DEF SoloInv
    <2>3. pc[r] = "done" => cs.best = localTip[r]
        BY <2>2, Zenon DEF Solo, FeedsLine, Line
    <2> QED  BY <2>1, <2>2, <2>3, Zenon DEF Solo, ProgressFollows, ProgressTracksTip
<1> QED  BY <1>1, SoloInvariant, PTL

=============================================================================
