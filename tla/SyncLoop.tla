------------------------------ MODULE SyncLoop ------------------------------
(***************************************************************************)
(* BlockchainSync: sync runs that feed one ChainstateManager from one      *)
(* BlockSource and report through an AsyncStream.                          *)
(*                                                                         *)
(* Every element of Runs is one iteration of updates(), that is one call   *)
(* of runSyncLoop on a task of its own.  Steps interleave at every await   *)
(* and around every kernel call.  The source is Esplora: bestTip() takes   *)
(* two requests, and the chain behind it may grow or reorganise between    *)
(* any two requests.  The kernel call processBlock takes two steps, because *)
(* ProcessNewBlock releases the chainstate lock between accepting a block  *)
(* and activating the best chain.                                          *)
(***************************************************************************)
EXTENDS Chainstate

CONSTANTS
    Runs,
    BufferLimit,      \* the 64 of bufferingNewest(64)
    InitialTips,      \* what the data directory may hold at the start
    SourceTips,       \* best blocks the source may have
    SourceFails,      \* whether a request may fail without being cancelled
    CancelSurfacesAs, \* what a source throws from a cancelled request
    AppHeaders,       \* headers the application feeds with processBlockHeader
    NoBlock           \* the all-zero hash of unknownRemoteTip

ASSUME SyncAssumption ==
    /\ BufferLimit \in Nat \ {0}
    /\ InitialTips \subseteq {b \in Blocks : Connectable(b)}
    /\ SourceTips \subseteq Blocks
    /\ SourceFails \in BOOLEAN
    /\ CancelSurfacesAs \subseteq {"CancellationError", "BlockSourceError"}
    /\ AppHeaders \subseteq Blocks
    /\ NoBlock \notin Blocks

VARIABLES
    cs,           \* the chainstate behind the manager
    remote,       \* the source's best block
    progress,     \* the shared Foundation.Progress
    interrupted,  \* the context's interrupt flag
    pc,           \* where each run stands in runSyncLoop
    localTip,     \* local variable of runSyncLoop: a block
    remoteTip,    \* local variable of runSyncLoop: hash and height
    fetched,      \* answers kept across an await: a tip height, the next hash
    cancelled,    \* Task.isCancelled of the producer
    terminated,   \* the stream is finished or was dropped
    buffer,       \* the stream's buffer
    emitted,      \* history: updates the stream accepted, in order
    dropped       \* history: states of updates that fell out of the buffer

shared == <<cs, remote, progress, interrupted>>
locals == <<localTip, remoteTip, fetched>>
stream == <<terminated, buffer, emitted, dropped>>
vars == <<cs, remote, progress, interrupted, pc, localTip, remoteTip, fetched,
          cancelled, terminated, buffer, emitted, dropped>>

Requests == {"tipHeight", "tipHash", "forkHash", "pollHeight", "pollHash",
             "hash", "block"}
PCs == Requests \cup {"idle", "loop", "accept", "activate", "readTip", "done"}
States == {"preparing", "syncing", "finished", "failed"}
Reasons == {"none", "source", "cancelled", "behind", "diverges", "rejected"}
Tips == [hash : Blocks \cup {NoBlock}, height : Nat]
Updates == [state : States, why : Reasons, tip : Blocks, remoteTip : Tips]

unknownRemoteTip == [hash |-> NoBlock, height |-> 0]

\* readLocalTip reads bestEntry.
readLocalTip == cs.best

-----------------------------------------------------------------------------
(* The stream. *)

\* Mutant: a full buffer ignores the new element.
YieldBufferingOldest(r, u) ==
    IF terminated[r] THEN UNCHANGED <<buffer, emitted, dropped>>
    ELSE /\ emitted' = [emitted EXCEPT ![r] = Append(@, u)]
         /\ IF Len(buffer[r]) < BufferLimit
            THEN /\ buffer' = [buffer EXCEPT ![r] = Append(@, u)]
                 /\ UNCHANGED dropped
            ELSE /\ dropped' = [dropped EXCEPT ![r] = @ \cup {u.state}]
                 /\ UNCHANGED buffer

\* continuation.yield: a terminated stream ignores it, a full buffer drops
\* its oldest element.
Yield(r, u) ==
    IF terminated[r] THEN UNCHANGED <<buffer, emitted, dropped>>
    ELSE /\ emitted' = [emitted EXCEPT ![r] = Append(@, u)]
         /\ IF Len(buffer[r]) < BufferLimit
            THEN /\ buffer' = [buffer EXCEPT ![r] = Append(@, u)]
                 /\ UNCHANGED dropped
            ELSE /\ buffer' = [buffer EXCEPT ![r] = Append(Tail(@), u)]
                 /\ dropped' = [dropped EXCEPT ![r] = @ \cup {Head(buffer[r]).state}]

\* continuation.finish(): the stream ends, and onTermination cancels the
\* producer and interrupts the context.
Finish(r) ==
    /\ pc' = [pc EXCEPT ![r] = "done"]
    /\ terminated' = [terminated EXCEPT ![r] = TRUE]
    /\ cancelled' = [cancelled EXCEPT ![r] = TRUE]
    /\ interrupted' = TRUE

\* A run that ends with an update.
Conclude(r, state, why, tip, rtip) ==
    /\ Yield(r, [state |-> state, why |-> why, tip |-> tip, remoteTip |-> rtip])
    /\ Finish(r)

Fail(r, why, rtip) == Conclude(r, "failed", why, localTip[r], rtip)

\* A run that ends without one.
EndSilently(r) == Finish(r) /\ UNCHANGED <<buffer, emitted, dropped>>

Goto(r, label) ==
    /\ pc' = [pc EXCEPT ![r] = label]
    /\ UNCHANGED <<cancelled, interrupted>>

-----------------------------------------------------------------------------
Init ==
    /\ cs \in {SyncedTo(t) : t \in InitialTips}
    /\ remote \in SourceTips
    /\ progress = [total |-> 0, completed |-> 0]
    /\ interrupted = FALSE
    /\ pc = [r \in Runs |-> "idle"]
    /\ localTip = [r \in Runs |-> Genesis]
    /\ remoteTip = [r \in Runs |-> unknownRemoteTip]
    /\ fetched = [r \in Runs |-> unknownRemoteTip]
    /\ cancelled = [r \in Runs |-> FALSE]
    /\ terminated = [r \in Runs |-> FALSE]
    /\ buffer = [r \in Runs |-> <<>>]
    /\ emitted = [r \in Runs |-> <<>>]
    /\ dropped = [r \in Runs |-> {}]

\* makeAsyncIterator starts the task, which reads the tip and yields preparing.
Start(r) ==
    /\ pc[r] = "idle"
    /\ localTip' = [localTip EXCEPT ![r] = readLocalTip]
    /\ Yield(r, [state |-> "preparing", why |-> "none", tip |-> readLocalTip,
                 remoteTip |-> unknownRemoteTip])
    /\ Goto(r, "tipHeight")
    /\ UNCHANGED <<cs, remote, progress, remoteTip, fetched, terminated>>

\* Mutant: an error of the source ends the run without an update.
RequestFailsSilently(r) ==
    /\ pc[r] \in Requests
    /\ SourceFails \/ cancelled[r]
    /\ EndSilently(r)
    /\ UNCHANGED <<cs, remote, progress, locals>>

\* A request fails.  CancellationError ends the run silently; every other
\* error ends it with failed, also when cancellation is what caused it.
RequestFails(r) ==
    /\ pc[r] \in Requests
    /\ \/ /\ SourceFails
          /\ Fail(r, "source", remoteTip[r])
       \/ /\ cancelled[r]
          /\ "BlockSourceError" \in CancelSurfacesAs
          /\ Fail(r, "cancelled", remoteTip[r])
       \/ /\ cancelled[r]
          /\ "CancellationError" \in CancelSurfacesAs
          /\ EndSilently(r)
    /\ UNCHANGED <<cs, remote, progress, locals>>

\* First request of EsploraBlockSource.bestTip, for the height.
TipHeight(r) ==
    /\ \/ pc[r] = "tipHeight" /\ Goto(r, "tipHash")
       \/ pc[r] = "pollHeight" /\ Goto(r, "pollHash")
    /\ fetched' = [fetched EXCEPT ![r].height = Height[remote]]
    /\ UNCHANGED <<cs, remote, progress, localTip, remoteTip, stream>>

\* The tip bestTip returns: the hash of now with the height fetched before.
answeredTip(r) == [hash |-> remote, height |-> fetched[r].height]

\* The main loop is entered: Progress is set from the two tips.
EnterLoop(r, rtip) ==
    /\ Goto(r, "loop")
    /\ progress' = [total |-> rtip.height, completed |-> Height[localTip[r]]]
    /\ UNCHANGED stream

\* Second request of the first bestTip, and the part of the fork check that
\* needs no request.
RemoteTip(r) ==
    LET rtip == answeredTip(r)
        local == Height[localTip[r]]
    IN  /\ pc[r] = "tipHash"
        /\ remoteTip' = [remoteTip EXCEPT ![r] = rtip]
        /\ \/ local = 0 /\ EnterLoop(r, rtip)
           \/ /\ local > 0 /\ rtip.height < local
              /\ Fail(r, "behind", rtip)
              /\ UNCHANGED progress
           \/ /\ local > 0 /\ rtip.height >= local
              /\ Goto(r, "forkHash")
              /\ UNCHANGED <<progress, stream>>
        /\ UNCHANGED <<cs, remote, localTip, fetched>>

\* blockHash(atHeight:) at the local height, compared with the local hash.
ForkCheck(r) ==
    LET local == Height[localTip[r]]
    IN  /\ pc[r] = "forkHash"
        /\ \/ /\ Height[remote] < local
              /\ Fail(r, "source", remoteTip[r]) /\ UNCHANGED progress
           \/ /\ Height[remote] >= local /\ AncestorAt(remote, local) # localTip[r]
              /\ Fail(r, "diverges", remoteTip[r]) /\ UNCHANGED progress
           \/ /\ Height[remote] >= local /\ AncestorAt(remote, local) = localTip[r]
              /\ EnterLoop(r, remoteTip[r])
        /\ UNCHANGED <<cs, remote, locals>>

\* Top of the loop: stop when cancelled, poll again at the remote height.
LoopTop(r) ==
    /\ pc[r] = "loop"
    /\ \/ cancelled[r] /\ EndSilently(r)
       \/ /\ ~cancelled[r] /\ Height[localTip[r]] >= remoteTip[r].height
          /\ Goto(r, "pollHeight") /\ UNCHANGED stream
       \/ /\ ~cancelled[r] /\ Height[localTip[r]] < remoteTip[r].height
          /\ Goto(r, "hash") /\ UNCHANGED stream
    /\ UNCHANGED <<cs, remote, progress, locals>>

\* Mutant: finished without comparing the fresh tip with the local one.
RepollFinishesAlways(r) ==
    /\ pc[r] = "pollHash"
    /\ Conclude(r, "finished", "none", localTip[r], answeredTip(r))
    /\ UNCHANGED <<cs, remote, progress, locals>>

\* Mutant: the run keeps polling for growth instead of finishing.
RepollForever(r) ==
    LET fresh == answeredTip(r)
    IN  /\ pc[r] = "pollHash"
        /\ remoteTip' = [remoteTip EXCEPT ![r] = fresh]
        /\ progress' = [progress EXCEPT !.total = fresh.height]
        /\ Goto(r, "loop")
        /\ UNCHANGED <<cs, remote, localTip, fetched, stream>>

\* Second request of the bestTip of a re-poll: finished when the source is no
\* higher, otherwise the new tip is the target.
Repoll(r) ==
    LET fresh == answeredTip(r)
    IN  /\ pc[r] = "pollHash"
        /\ \/ /\ fresh.height <= Height[localTip[r]]
              /\ Conclude(r, "finished", "none", localTip[r], fresh)
              /\ UNCHANGED <<remoteTip, progress>>
           \/ /\ fresh.height > Height[localTip[r]]
              /\ remoteTip' = [remoteTip EXCEPT ![r] = fresh]
              /\ progress' = [progress EXCEPT !.total = fresh.height]
              /\ Goto(r, "hash") /\ UNCHANGED stream
        /\ UNCHANGED <<cs, remote, localTip, fetched>>

\* blockHash(atHeight:) of the next block.
FetchHash(r) ==
    LET next == Height[localTip[r]] + 1
    IN  /\ pc[r] = "hash"
        /\ \/ /\ next <= Height[remote]
              /\ fetched' = [fetched EXCEPT ![r].hash = AncestorAt(remote, next)]
              /\ Goto(r, "block") /\ UNCHANGED stream
           \/ /\ next > Height[remote]
              /\ Fail(r, "source", remoteTip[r]) /\ UNCHANGED fetched
        /\ UNCHANGED <<cs, remote, progress, localTip, remoteTip>>

\* block(for:) of that hash; a source keeps serving blocks it reorganised away.
FetchBlock(r) ==
    /\ pc[r] = "block"
    /\ Goto(r, "accept")
    /\ UNCHANGED <<cs, remote, progress, locals, stream>>

\* processBlock, up to AcceptBlock; a rejected block fails the run.
ProcessAccept(r) ==
    /\ pc[r] = "accept"
    /\ \/ /\ BlockRejected(cs, fetched[r].hash)
          /\ Fail(r, "rejected", remoteTip[r])
          /\ UNCHANGED cs
       \/ /\ ~BlockRejected(cs, fetched[r].hash)
          /\ cs' = AcceptBlock(cs, fetched[r].hash)
          /\ Goto(r, "activate") /\ UNCHANGED stream
    /\ UNCHANGED <<remote, progress, locals>>

\* processBlock, ActivateBestChain: success whether or not the block connects.
ProcessActivate(r) ==
    /\ pc[r] = "activate"
    /\ cs' \in ActivateBestChain(cs)
    /\ Goto(r, "readTip")
    /\ UNCHANGED <<remote, progress, locals, stream>>

\* Mutant: Progress is not moved with the tip.
AdvanceWithoutProgress(r) ==
    /\ pc[r] = "readTip"
    /\ localTip' = [localTip EXCEPT ![r] = readLocalTip]
    /\ Yield(r, [state |-> "syncing", why |-> "none", tip |-> readLocalTip,
                 remoteTip |-> remoteTip[r]])
    /\ Goto(r, "loop")
    /\ UNCHANGED <<cs, remote, progress, remoteTip, fetched, terminated>>

\* Mutant: the update carries the tip read before processBlock.
AdvanceReportsOldTip(r) ==
    /\ pc[r] = "readTip"
    /\ localTip' = [localTip EXCEPT ![r] = readLocalTip]
    /\ progress' = [progress EXCEPT !.completed = Height[readLocalTip]]
    /\ Yield(r, [state |-> "syncing", why |-> "none", tip |-> localTip[r],
                 remoteTip |-> remoteTip[r]])
    /\ Goto(r, "loop")
    /\ UNCHANGED <<cs, remote, remoteTip, fetched, terminated>>

\* After processBlock: the new tip is read and reported.
Advance(r) ==
    /\ pc[r] = "readTip"
    /\ localTip' = [localTip EXCEPT ![r] = readLocalTip]
    /\ progress' = [progress EXCEPT !.completed = Height[readLocalTip]]
    /\ Yield(r, [state |-> "syncing", why |-> "none", tip |-> readLocalTip,
                 remoteTip |-> remoteTip[r]])
    /\ Goto(r, "loop")
    /\ UNCHANGED <<cs, remote, remoteTip, fetched, terminated>>

-----------------------------------------------------------------------------
(* The surroundings of a run. *)

\* The consumer takes an update.
Consume(r) ==
    /\ buffer[r] # <<>>
    /\ buffer' = [buffer EXCEPT ![r] = Tail(@)]
    /\ UNCHANGED <<shared, pc, locals, cancelled, terminated, emitted, dropped>>

\* The consumer leaves its loop: the stream is dropped, and onTermination
\* cancels the producer and interrupts the context.
ConsumerStops(r) ==
    /\ pc[r] # "idle"
    /\ ~terminated[r]
    /\ terminated' = [terminated EXCEPT ![r] = TRUE]
    /\ buffer' = [buffer EXCEPT ![r] = <<>>]
    /\ cancelled' = [cancelled EXCEPT ![r] = TRUE]
    /\ interrupted' = TRUE
    /\ UNCHANGED <<cs, remote, progress, pc, locals, emitted, dropped>>

\* shutdown() cancels every producer and interrupts the context while the
\* consumers are still iterating; SyncTeardown has its other half.
Shutdown ==
    /\ \E r \in Runs : pc[r] \notin {"idle", "done"} /\ ~cancelled[r]
    /\ cancelled' = [r \in Runs |-> cancelled[r] \/ pc[r] \notin {"idle", "done"}]
    /\ interrupted' = TRUE
    /\ UNCHANGED <<cs, remote, progress, pc, locals, stream>>

\* The source's best chain grows or is reorganised; once every run is over
\* nobody asks it any more.
SourceMoves ==
    /\ \E r \in Runs : pc[r] # "done"
    /\ remote' \in SourceTips \ {remote}
    /\ UNCHANGED <<cs, progress, interrupted, pc, locals, cancelled, stream>>

\* The application feeds a header to the same manager.
processBlockHeader ==
    /\ \E b \in AppHeaders :
          /\ b \notin cs.known
          /\ ~HeaderRejected(cs, b)
          /\ cs' = AddToBlockIndex(cs, b)
    /\ UNCHANGED <<remote, progress, interrupted, pc, locals, cancelled, stream>>

RunStep(r) ==
    \/ RequestFails(r) \/ TipHeight(r) \/ RemoteTip(r) \/ ForkCheck(r) \/ LoopTop(r)
    \/ Repoll(r) \/ FetchHash(r) \/ FetchBlock(r) \/ ProcessAccept(r)
    \/ ProcessActivate(r) \/ Advance(r)

Finished ==
    /\ \A r \in Runs : pc[r] = "done" /\ buffer[r] = <<>>
    /\ UNCHANGED vars

Next ==
    \/ \E r \in Runs : Start(r) \/ RunStep(r) \/ Consume(r) \/ ConsumerStops(r)
    \/ Shutdown
    \/ SourceMoves
    \/ processBlockHeader
    \/ Finished

Spec == Init /\ [][Next]_vars

\* A started task keeps running and every request is answered or fails.
\* Nobody is obliged to start a run, to consume, to cancel, and the source
\* may move for ever.
FairSpec == Spec /\ \A r \in Runs : WF_vars(RunStep(r))

-----------------------------------------------------------------------------
TypeOK ==
    /\ cs \in Chainstates
    /\ remote \in SourceTips
    /\ progress \in [total : Nat, completed : Nat]
    /\ interrupted \in BOOLEAN
    /\ pc \in [Runs -> PCs]
    /\ localTip \in [Runs -> Blocks]
    /\ remoteTip \in [Runs -> Tips]
    /\ fetched \in [Runs -> Tips]
    /\ cancelled \in [Runs -> BOOLEAN]
    /\ terminated \in [Runs -> BOOLEAN]
    /\ buffer \in [Runs -> Seq(Updates)]
    /\ emitted \in [Runs -> Seq(Updates)]
    /\ dropped \in [Runs -> SUBSET States]

(* The stream as UpdateStream sees it. *)

lastUpdate(r) == emitted[r][Len(emitted[r])]

streamPhase(r) ==
    IF emitted[r] # <<>> /\ lastUpdate(r).state \in {"finished", "failed"}
    THEN lastUpdate(r).state
    ELSE IF pc[r] = "done" THEN "cancelled"
    ELSE IF emitted[r] = <<>> THEN "new"
    ELSE lastUpdate(r).state

Contract ==
    INSTANCE UpdateStream WITH
        phase <- [r \in Runs |-> streamPhase(r)],
        height <- [r \in Runs |-> IF emitted[r] = <<>> THEN 0
                                  ELSE Height[lastUpdate(r).tip]],
        count <- [r \in Runs |-> Len(emitted[r])],
        requested <- cancelled

\* The update protocol of BlockchainSync.Updates: one preparing, then syncing
\* updates, one finished or failed, or a silent end that cancellation asked
\* for; nothing afterwards.
StreamContract == Contract!Spec

\* As long as every stored block connects, the tips of a run climb, also when
\* other runs and the application feed the same chainstate: runSyncLoop feeds
\* the block above its tip.  A block that is accepted but does not connect is
\* reported with the old tip again.
TipsClimb ==
    [][\A r \in Runs :
         cs'.failed = {} /\ Len(emitted'[r]) > Len(emitted[r]) /\ emitted[r] # <<>>
             => LET u == emitted'[r][Len(emitted'[r])]
                IN  /\ Height[u.tip] >= Height[lastUpdate(r).tip]
                    /\ u.state = "syncing" => Height[u.tip] > Height[lastUpdate(r).tip]]_vars

\* The order of the updates of one run, whatever other runs, the source and
\* the kernel do: preparing comes first and only first, and finished or failed
\* come last and only when runSyncLoop has returned.
UpdatesWellFormed ==
    \A r \in Runs : \A i \in 1 .. Len(emitted[r]) :
        /\ emitted[r][i].state = "preparing" <=> i = 1
        /\ emitted[r][i].state \in {"finished", "failed"} =>
              i = Len(emitted[r]) /\ pc[r] = "done"

\* The terminal update is "always delivered" (Updates): it never falls out of
\* the bounded buffer, however slow the consumer is.
TerminalNeverDropped ==
    \A r \in Runs : dropped[r] \cap {"finished", "failed"} = {}

\* What a run that has the chainstate to itself reports as the local tip is, and
\* stays, a block of the active chain that the kernel has validated: stored
\* with all its ancestors and never marked failed.  "Local chain has reached
\* the source's tip" (finished): the height the run finished at is at least the
\* height the source answered.
ReportedTipsValidated ==
    \A r \in Runs : \A i \in 1 .. Len(emitted[r]) :
        /\ emitted[r][i].tip \in Ancestors[cs.tip]
        /\ emitted[r][i].tip \in Linked(cs) \ cs.failed
        /\ emitted[r][i].state = "finished" =>
              Height[emitted[r][i].tip] >= emitted[r][i].remoteTip.height

\* What is left of that when runs share the chainstate with each other and with
\* the application's headers, where bestEntry may run ahead of validation: below
\* a reported tip only blocks of which the application fed the header may be
\* missing.  When a run has finished and no kernel call is under way, the active
\* chain has the height the source answered, unless a block is missing below
\* the tip that was reported or that tip is marked failed.
SharedReportsSound ==
    \A r \in Runs : \A i \in 1 .. Len(emitted[r]) :
        LET u == emitted[r][i]
        IN  /\ Ancestors[u.tip] \ cs.stored \subseteq AppHeaders
            /\ /\ u.state = "finished"
               /\ \A q \in Runs : pc[q] # "activate"
               /\ u.tip \in Linked(cs) \ cs.failed
               => Height[cs.tip] >= u.remoteTip.height

\* The kernel state the runs share: the active chain is fully stored and free
\* of failed blocks, failure marks reach all descendants and no valid chain,
\* bestEntry is never a failed block nor one with less work than the active tip,
\* and while no kernel call is under way no stored chain has more work than the
\* active one unless it is marked failed.
ChainstateSound ==
    /\ Ancestors[cs.tip] \subseteq Linked(cs) \ cs.failed
    /\ Descendants(cs.failed) \cap cs.known \subseteq cs.failed
    /\ \A b \in cs.failed : ~Connectable(b)
    /\ cs.best \notin cs.failed
    /\ Height[cs.best] >= Height[cs.tip]
    /\ (\A r \in Runs : pc[r] # "activate") =>
          \A b \in Linked(cs) \ cs.failed : Height[b] <= Height[cs.tip]

\* Every run that starts ends, whatever the source answers.
RunsEnd == \A r \in Runs : pc[r] # "idle" ~> pc[r] = "done"

\* Progress keeps "completedUnitCount = local tip height" and "tracks
\* automatically" (BlockchainSync.progress): when a single run that entered the
\* main loop is over, however it ended, it shows the height of the local tip.
ProgressTracksTip ==
    (\A r \in Runs : pc[r] = "done") /\ progress.total > 0 =>
        progress.completed = Height[cs.best]

=============================================================================
