--------------------------- MODULE SyncInvariants ---------------------------
(***************************************************************************)
(* The inductive invariants of sync runs: of the kernel state the runs     *)
(* share, of their update streams, and of a run that has the chainstate to *)
(* itself.                                                                 *)
(***************************************************************************)
EXTENDS SyncLoop, ChainstateContract

-----------------------------------------------------------------------------
(* The kernel state that the runs share. *)

StreamTyped ==
    /\ interrupted \in BOOLEAN
    /\ pc \in [Runs -> PCs]
    /\ cancelled \in [Runs -> BOOLEAN]
    /\ terminated \in [Runs -> BOOLEAN]
    /\ buffer \in [Runs -> Seq(Updates)]
    /\ emitted \in [Runs -> Seq(Updates)]
    /\ dropped \in [Runs -> SUBSET States]

LocalsTyped ==
    /\ remote \in SourceTips
    /\ progress \in [total : Nat, completed : Nat]
    /\ localTip \in [Runs -> Blocks]
    /\ remoteTip \in [Runs -> Tips]
    /\ fetched \in [Runs -> Tips]

\* A hash that block(for:) was asked for is the hash of a block.
FetchedBlocks ==
    \A r \in Runs : pc[r] \in {"block", "accept", "activate"} => fetched[r].hash \in Blocks

\* While no kernel call is under way no linked chain that is not marked failed has
\* more work than the active one.
SettledBetweenCalls == (\A r \in Runs : pc[r] # "activate") => Settled(cs)

KernelInv ==
    /\ StreamTyped /\ LocalsTyped
    /\ ChainInv(cs)
    /\ FetchedBlocks
    /\ SettledBetweenCalls

\* What no step takes back, whichever run, activation or header takes it: headers,
\* blocks, failure marks and the work of the active chain, which a reorganisation
\* only raises; bestEntry falls back only when a block is found invalid.
KernelKeeps == [][Keeps(cs, cs')]_vars

-----------------------------------------------------------------------------
(* The update streams. *)

Terminal == {"finished", "failed"}
Busy == PCs \ {"idle", "done"}

\* The stream variables are functions to sequences and sets, of whatever
\* elements.
Shape ==
    /\ pc \in [Runs -> PCs]
    /\ terminated \in [Runs -> BOOLEAN]
    /\ \E S : emitted \in [Runs -> Seq(S)] /\ buffer \in [Runs -> Seq(S)]
    /\ \E S : dropped \in [Runs -> SUBSET S]

\* How the stream of a run follows its control state.
Phases ==
    \A r \in Runs :
        /\ pc[r] = "idle" => emitted[r] = <<>> /\ ~terminated[r]
        /\ pc[r] # "idle" => emitted[r] # <<>>
        /\ pc[r] = "done" => terminated[r]

\* A run that has not returned has no terminal update in its buffer: this is
\* why a full buffer never drops one.
BufferOpen ==
    \A r \in Runs : pc[r] # "done" =>
        \A i \in 1 .. Len(buffer[r]) : buffer[r][i].state \notin Terminal

StreamInv ==
    /\ Shape
    /\ Phases
    /\ UpdatesWellFormed
    /\ BufferOpen
    /\ TerminalNeverDropped

\* The last update of an open stream carries the run's own tip.
LastReported(r) == ~terminated[r] /\ pc[r] # "idle" => lastUpdate(r).tip = localTip[r]

\* A stream that is finished or dropped has cancelled its producer.
ReportInv == \A r \in Runs : LastReported(r) /\ (terminated[r] => cancelled[r])

\* What the three invariants say together.
SyncInv == KernelInv /\ StreamInv /\ ReportInv

-----------------------------------------------------------------------------
(* Runs that share the chainstate with each other and with headers that the *)
(* application feeds.                                                       *)

\* Only the application adds a header without its block.
MissingFed == cs.known \ cs.stored \subseteq AppHeaders

\* What a run reported and reads next from is indexed, and finished was reported at
\* the height the source answered or above it.
ReportsKnown(r) ==
    /\ pc[r] # "idle" => localTip[r] \in cs.known
    /\ \A i \in 1 .. Len(emitted[r]) :
          /\ emitted[r][i].tip \in cs.known
          /\ emitted[r][i].state = "finished" =>
                Height[emitted[r][i].tip] >= emitted[r][i].remoteTip.height

\* The run feeds the block above its own tip, and AcceptBlock has indexed it.
FeedsNext(r) ==
    /\ pc[r] \in {"block", "accept", "activate", "readTip"} =>
          Height[fetched[r].hash] = Height[localTip[r]] + 1
    /\ pc[r] \in {"activate", "readTip"} => fetched[r].hash \in cs.known

SharedInv == MissingFed /\ \A r \in Runs : ReportsKnown(r) /\ FeedsNext(r)

-----------------------------------------------------------------------------
(* A run that has the chainstate to itself. *)

\* One run, and no header fed by the application.
Alone == AppHeaders = {} /\ \E r : Runs = {r}

\* The run feeds the block above its own tip, so that the chainstate is one line.
FeedsLine(r) ==
    LET b == fetched[r].hash
    IN  /\ pc[r] # "activate" => Line(cs, cs.tip)
        /\ pc[r] = "activate" => b # Genesis /\ Parent[b] = cs.tip /\ Line(cs, b)
        /\ pc[r] \notin {"idle", "readTip"} => localTip[r] = cs.tip
        /\ pc[r] = "readTip" => \/ cs.tip # Genesis /\ Parent[cs.tip] = localTip[r]
                                \/ cs.tip = localTip[r] /\ cs.failed # {}
        /\ pc[r] \in {"block", "accept"} => Height[b] = Height[cs.tip] + 1

\* The main loop.
InLoop == {"loop", "pollHeight", "pollHash", "hash", "block", "accept", "activate", "readTip"}

\* Progress shows the run's own tip once it is set: in the main loop, and afterwards
\* unless the source was found empty.
ProgressFollows(r) ==
    /\ pc[r] \in InLoop \/ progress.total > 0 => progress.completed = Height[localTip[r]]
    /\ pc[r] = "idle" => progress.total = 0

\* What was reported is in the active chain, and finished was reported at the height
\* the source answered or above it.
ReportsBelowTip(r) ==
    \A i \in 1 .. Len(emitted[r]) :
        /\ emitted[r][i].tip \in Ancestors[cs.tip]
        /\ emitted[r][i].state = "finished" =>
              Height[emitted[r][i].tip] >= emitted[r][i].remoteTip.height

Solo(r) == FeedsLine(r) /\ ProgressFollows(r) /\ LastReported(r) /\ ReportsBelowTip(r)

SoloInv == \A r \in Runs : Solo(r)

=============================================================================
