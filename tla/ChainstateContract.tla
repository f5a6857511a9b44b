------------------------- MODULE ChainstateContract -------------------------
(***************************************************************************)
(* What the block tree and the kernel's operations on a chainstate keep    *)
(* and promise, as the proofs about sync runs use it.  ChainstateProofs    *)
(* proves ChainContract.                                                   *)
(***************************************************************************)
EXTENDS Chainstate

\* The index is closed under parents, the linked blocks are those whose whole
\* ancestry is stored, each once; failure marks reach all indexed descendants
\* and no chain that connects; the active tip is linked, unmarked and
\* connectable; and no unmarked header has more work than the best header.
ChainInv(c) ==
    /\ c \in Chainstates
    /\ IsFiniteSet(c.stored) /\ c.stored \subseteq c.known /\ c.failed \subseteq c.known
    /\ \A b \in c.known : Ancestors[b] \subseteq c.known
    /\ Linked(c) = {d \in c.stored : Ancestors[d] \subseteq c.stored}
    /\ \A i, j \in 1 .. Len(c.linked) : c.linked[i] = c.linked[j] => i = j
    /\ Descendants(c.failed) \cap c.known \subseteq c.failed
    /\ \A b \in c.failed : ~Connectable(b)
    /\ c.tip \in Linked(c) \ c.failed /\ Connectable(c.tip)
    /\ c.best \in c.known \ c.failed
    /\ \A k \in c.known \ c.failed : Height[k] <= Height[c.best]

\* No linked chain that is not marked failed has more work than the active one.
Settled(c) == \A b \in Linked(c) \ c.failed : Height[b] <= Height[c.tip]

\* Everything known is stored, and the headers that are not marked failed are the
\* chain that ends in t.
Line(c, t) == c.stored = c.known /\ c.best = t /\ c.known \ c.failed = Ancestors[t]

\* What no operation takes back: no header, block or failure mark is forgotten, the
\* active tip does not lose work, and the best header only when a block is found
\* invalid.
Keeps(c, d) ==
    /\ c.known \subseteq d.known /\ c.stored \subseteq d.stored
    /\ Linked(c) \subseteq Linked(d) /\ c.failed \subseteq d.failed
    /\ Height[c.tip] <= Height[d.tip]
    /\ d.failed = c.failed => Height[c.best] <= Height[d.best]

-----------------------------------------------------------------------------
(* What the operations promise.  The proofs about sync runs use no more of  *)
(* the block tree and the kernel than this.                                 *)

\* The ancestors of a block: one block of every height up to its own.
TreeContract ==
    \A b \in Blocks :
        /\ Ancestors[b] \subseteq Blocks /\ b \in Ancestors[b]
        /\ b # Genesis => Ancestors[b] = {b} \cup Ancestors[Parent[b]]
        /\ \A h \in 0 .. Height[b] :
              AncestorAt(b, h) \in Ancestors[b] /\ Height[AncestorAt(b, h)] = h

\* A data directory that has validated the chain ending in t.
DirectoryContract ==
    \A t \in Blocks : Connectable(t) => ChainInv(SyncedTo(t)) /\ Settled(SyncedTo(t))

\* The ancestors of an active block are linked and not marked failed.
LinkedContract ==
    \A c : ChainInv(c) => \A b \in Linked(c) \ c.failed :
        b \in c.known /\ Ancestors[b] \subseteq Linked(c) \ c.failed

\* AcceptBlockHeader.
HeaderContract ==
    \A c, b : ChainInv(c) /\ b \in Blocks /\ ~HeaderRejected(c, b) =>
        LET d == AddToBlockIndex(c, b)
        IN  ChainInv(d) /\ Linked(d) = Linked(c) /\ d.tip = c.tip /\ d.failed = c.failed

\* AcceptBlock.  The block above the end of a line continues the line.
AcceptContract ==
    \A c, b : ChainInv(c) /\ b \in Blocks /\ ~BlockRejected(c, b) =>
        LET d == AcceptBlock(c, b)
        IN  /\ ChainInv(d) /\ d.tip = c.tip
            /\ Line(c, c.tip) /\ Height[b] = Height[c.tip] + 1 =>
                  b # Genesis /\ Parent[b] = c.tip /\ Line(d, b)

\* ActivateBestChain.  At the end of a line the tip moves to the new block, or that
\* block is marked failed.
ActivateContract ==
    \A c, d : ChainInv(c) /\ d \in ActivateBestChain(c) =>
        /\ ChainInv(d) /\ Settled(d)
        /\ \A b \in Blocks \ {Genesis} : Parent[b] = c.tip /\ Line(c, b) =>
              Line(d, d.tip) /\ (d.tip = b \/ (d.tip = c.tip /\ d.failed # {}))

\* What the operations add to the index and to the stored blocks.
GrowthContract ==
    \A c : ChainInv(c) =>
        /\ \A b \in Blocks : ~HeaderRejected(c, b) =>
              LET d == AddToBlockIndex(c, b)
              IN  Keeps(c, d) /\ d.known = c.known \cup {b} /\ d.stored = c.stored
        /\ \A b \in Blocks : ~BlockRejected(c, b) =>
              LET d == AcceptBlock(c, b)
              IN  Keeps(c, d) /\ d.known = c.known \cup {b} /\ d.stored = c.stored \cup {b}
        /\ \A d \in ActivateBestChain(c) :
              Keeps(c, d) /\ d.known = c.known /\ d.stored = c.stored

ChainContract ==
    /\ TreeContract /\ DirectoryContract /\ LinkedContract
    /\ HeaderContract /\ AcceptContract /\ ActivateContract /\ GrowthContract

=============================================================================
