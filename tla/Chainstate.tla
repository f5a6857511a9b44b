----------------------------- MODULE Chainstate -----------------------------
(***************************************************************************)
(* What the kernel does with the headers and blocks that the Swift         *)
(* ChainstateManager hands to it, at the granularity the Swift code can    *)
(* see: the block index, the block data on disk, the failure marks, the    *)
(* best header (bestEntry) and the tip of the active chain.                *)
(*                                                                         *)
(* The operators are pure.  A chainstate is a record                       *)
(*   known   headers in the block index                                    *)
(*   stored  blocks with BLOCK_HAVE_DATA                                    *)
(*   linked  blocks whose whole ancestry is stored, in nSequenceId order    *)
(*   failed  blocks marked BLOCK_FAILED_VALID                               *)
(*   best    m_best_header, what ChainstateManager.bestEntry returns        *)
(*   tip     the tip of the active chain                                    *)
(*                                                                         *)
(* Every block adds the same work, so that work is height.                 *)
(***************************************************************************)
EXTENDS Naturals, Sequences, FiniteSets

CONSTANTS
    Blocks,          \* every block any party may know
    Genesis,
    Parent,          \* the previous block of every other block
    Height,
    Unconnectable,   \* blocks ConnectBlock finds invalid
    Malformed        \* blocks CheckBlock finds invalid

ASSUME ChainAssumption ==
    /\ Genesis \in Blocks
    /\ Height \in [Blocks -> Nat]
    /\ Height[Genesis] = 0
    /\ Parent \in [Blocks \ {Genesis} -> Blocks]
    /\ \A b \in Blocks \ {Genesis} : Height[b] = Height[Parent[b]] + 1
    /\ Unconnectable \subseteq Blocks \ {Genesis}
    /\ Malformed \subseteq Blocks \ {Genesis}

\* The block itself and everything below it.
Ancestors[b \in Blocks] ==
    IF b = Genesis THEN {b} ELSE {b} \cup Ancestors[Parent[b]]

AncestorAt(b, h) == CHOOSE a \in Ancestors[b] : Height[a] = h

Descendants(bs) == {d \in Blocks : Ancestors[d] \cap bs # {}}

Chainstates ==
    [known : SUBSET Blocks, stored : SUBSET Blocks, linked : Seq(Blocks),
     failed : SUBSET Blocks, best : Blocks, tip : Blocks]

Linked(c) == {c.linked[i] : i \in 1 .. Len(c.linked)}

\* A data directory that has validated the chain ending in t.
SyncedTo(t) ==
    [known |-> Ancestors[t], stored |-> Ancestors[t],
     linked |-> [i \in 1 .. Height[t] + 1 |-> AncestorAt(t, i - 1)],
     failed |-> {}, best |-> t, tip |-> t]

-----------------------------------------------------------------------------
(* AcceptBlockHeader and AcceptBlock. *)

\* AcceptBlockHeader answers false: the header is marked failed, its parent
\* is not in the index, or its parent is marked failed.
HeaderRejected(c, b) ==
    \/ b \in c.failed
    \/ b \notin c.known /\ (Parent[b] \notin c.known \/ Parent[b] \in c.failed)

\* AddToBlockIndex: the best header only moves to strictly more work.
AddToBlockIndex(c, b) ==
    [c EXCEPT !.known = @ \cup {b},
              !.best = IF Height[b] > Height[c.best] THEN b ELSE c.best]

\* ProcessNewBlock stops before activation: CheckBlock or AcceptBlock failed.
BlockRejected(c, b) == b \in Malformed \/ HeaderRejected(c, b)

\* Stored blocks that become connectable once b is stored, parents first.
NewlyLinked(c, b) ==
    LET stored == c.stored \cup {b}
        ready == {d \in stored : Ancestors[d] \subseteq stored} \ Linked(c)
    IN  CHOOSE q \in [1 .. Cardinality(ready) -> ready] :
           \A i, j \in 1 .. Cardinality(ready) :
              i < j => q[i] # q[j] /\ Height[q[i]] <= Height[q[j]]

\* Mutant: the block is taken for one nobody requested, and only its header kept.
AcceptHeaderOnly(c, b) == AddToBlockIndex(c, b)

\* AcceptBlock of a block that is not rejected: the header is indexed, and
\* the data is stored unless it already is.
AcceptBlock(c, b) ==
    LET h == AddToBlockIndex(c, b)
    IN  IF b \in c.stored THEN h
        ELSE [h EXCEPT !.stored = @ \cup {b}, !.linked = @ \o NewlyLinked(c, b)]

-----------------------------------------------------------------------------
(* ActivateBestChain. *)

SequenceId(c, b) == CHOOSE i \in 1 .. Len(c.linked) : c.linked[i] = b

\* CBlockIndexWorkComparator: more work first, then the block linked earlier.
Preferred(c, a, b) ==
    \/ Height[a] > Height[b]
    \/ Height[a] = Height[b] /\ SequenceId(c, a) < SequenceId(c, b)

\* setBlockIndexCandidates: the tip, and what is preferred to it.
Candidates(c) ==
    {b \in Linked(c) \ c.failed : b = c.tip \/ Preferred(c, b, c.tip)}

Connectable(b) == Ancestors[b] \cap Unconnectable = {}

\* The candidate the activation ends at: FindMostWorkChain is repeated until
\* a candidate connects, and the current tip always does.
ActivatedTip(c) ==
    CHOOSE b \in Candidates(c) :
        /\ Connectable(b)
        /\ \A d \in Candidates(c) : Connectable(d) => d = b \/ Preferred(c, b, d)

\* The marks left behind: the invalid block of every candidate that was tried
\* and failed, with all its descendants in the index (InvalidBlockFound,
\* SetBlockFailureFlags).
FailedBy(c) ==
    LET tried == {b \in Candidates(c) : Preferred(c, b, ActivatedTip(c))}
        bad == Unconnectable \cap UNION {Ancestors[b] : b \in tried}
    IN  Descendants(bad) \cap c.known

\* RecalculateBestHeader: a header of most work that is not marked failed.
\* The index is not ordered, so a tie may go either way.
BestHeaders(c) ==
    {h \in c.known \ c.failed : \A k \in c.known \ c.failed : Height[k] <= Height[h]}

\* Mutant: the best header is not recalculated when its chain turns out invalid.
ActivateKeepsBestHeader(c) ==
    {[c EXCEPT !.tip = ActivatedTip(c), !.failed = @ \cup FailedBy(c)]}

\* Every chainstate ActivateBestChain may leave behind.
ActivateBestChain(c) ==
    LET a == [c EXCEPT !.tip = ActivatedTip(c), !.failed = @ \cup FailedBy(c)]
    IN  IF a.best \in a.failed
        THEN {[a EXCEPT !.best = h] : h \in BestHeaders(a)}
        ELSE {a}

=============================================================================
