------------------------------- MODULE Coins -------------------------------
(***************************************************************************)
(* The UTXO set of a chainstate: the coins database on disk, the cache in  *)
(* front of it (CCoinsViewCache, with its DIRTY and FRESH flags), the      *)
(* blocks that are connected and disconnected through it, the flush that   *)
(* reaches the database in several batches, and the replay that repairs a  *)
(* flush a crash has cut short.                                            *)
(*                                                                         *)
(* A coin is the height of the block that created it, 0 is "no coin" (the  *)
(* genesis block creates none).  Everything a block does to one outpoint   *)
(* happens in the order "created, then spent", so a block is two sets.     *)
(***************************************************************************)
EXTENDS Integers, FiniteSets

CONSTANTS
    Blocks, Genesis, Parent, Height,
    NoBlock,        \* the null hash
    Outpoints,
    Creates,        \* the outpoints each block creates
    Spends,         \* the outpoints each block spends
    Coinbases,      \* the outpoints of coinbase transactions
    Utxo,           \* what the UTXO set has to be after each block
    FailingModes,   \* modes in which a database write may fail
    MaxCrashes

Empty == [o \in Outpoints |-> 0]

\* What block b makes of the UTXO set u.
Applied(u, b) ==
    [o \in Outpoints |-> IF o \in Spends[b] THEN 0
                         ELSE IF o \in Creates[b] THEN Height[b] ELSE u[o]]

\* The inputs of b exist and, as BIP 30 wants it, its outputs do not.
Valid(b) ==
    /\ \A o \in Spends[b] \ Creates[b] : Utxo[Parent[b]][o] # 0
    /\ \A o \in Creates[b] : Utxo[Parent[b]][o] = 0

\* The way from b back to the genesis block, which LastCommonAncestor and
\* GetAncestor of ReplayBlocks walk.
Ancestors[b \in Blocks] ==
    IF b = Genesis THEN {b} ELSE {b} \cup Ancestors[Parent[b]]

ASSUME CoinsAssumption ==
    /\ Genesis \in Blocks /\ NoBlock \notin Blocks
    /\ Parent \in [Blocks -> Blocks \cup {NoBlock}]
    /\ \A b \in Blocks : Parent[b] = NoBlock <=> b = Genesis
    /\ \A b \in Blocks : Genesis \in Ancestors[b]
    /\ Height \in [Blocks -> Nat]
    /\ \A b \in Blocks \ {Genesis} : Height[b] > 0
    /\ Creates \in [Blocks -> SUBSET Outpoints]
    /\ Spends \in [Blocks -> SUBSET Outpoints]
    /\ Creates[Genesis] = {} /\ Spends[Genesis] = {}
    /\ Utxo \in [Blocks \cup {NoBlock} -> [Outpoints -> Nat]]
    /\ Utxo[NoBlock] = Empty
    /\ \A b \in Blocks : Utxo[b] = Applied(Utxo[Parent[b]], b)
    /\ FailingModes \subseteq {"flush", "sync"}
    /\ MaxCrashes \in Nat

-----------------------------------------------------------------------------
(* One outpoint in one cache. *)

Entry == [in : BOOLEAN, coin : Nat, dirty : BOOLEAN, fresh : BOOLEAN]
Absent == [in |-> FALSE, coin |-> 0, dirty |-> FALSE, fresh |-> FALSE]

\* PeekCoin: what a cache with entry e says of a coin its base has as c.
Seen(e, c) == IF e.in THEN e.coin ELSE c

\* FetchCoin: a coin of the base is copied into the cache, unflagged.
FetchCoin(e, c) ==
    IF e.in \/ c = 0 THEN e
    ELSE [in |-> TRUE, coin |-> c, dirty |-> FALSE, fresh |-> FALSE]

\* AddCoin of coin c.  It may be marked FRESH only if no unflushed spend of
\* it is pending here.
AddCoin(e, c, overwrite) ==
    [in |-> TRUE, coin |-> c, dirty |-> TRUE,
     fresh |-> e.fresh \/ (~overwrite /\ ~e.dirty)]

SpendCoin(e, c) ==
    LET f == FetchCoin(e, c)
    IN  IF ~f.in \/ f.fresh THEN Absent
        ELSE [in |-> TRUE, coin |-> 0, dirty |-> TRUE, fresh |-> FALSE]

\* Mutant: a spent entry is dropped although the base still has the coin.
MergeDropsSpent(p, c) ==
    IF ~c.dirty THEN p
    ELSE IF c.coin = 0 THEN Absent
    ELSE [in |-> TRUE, coin |-> c.coin, dirty |-> TRUE,
          fresh |-> IF p.in THEN p.fresh ELSE c.fresh]

\* CCoinsViewCache::BatchWrite: entry c of a child cache is merged into the
\* entry p of its parent.
Merge(p, c) ==
    IF ~c.dirty THEN p
    ELSE IF (IF p.in THEN p.fresh ELSE c.fresh) /\ c.coin = 0 THEN Absent
    ELSE [in |-> TRUE, coin |-> c.coin, dirty |-> TRUE,
          fresh |-> IF p.in THEN p.fresh ELSE c.fresh]

\* BatchWrite throws "FRESH flag misapplied".
MergeThrows(p, c) == c.dirty /\ c.fresh /\ p.in /\ p.coin # 0

-----------------------------------------------------------------------------
(* One block on one outpoint, through a cache entry e over a base coin c. *)

\* UpdateCoins: outputs are added before anything spends them.
ConnectCoin(b, o, e, c) ==
    LET a == IF o \in Creates[b] THEN AddCoin(e, Height[b], o \in Coinbases) ELSE e
    IN  IF o \in Spends[b] THEN SpendCoin(a, c) ELSE a

\* ApplyTxInUndo: HaveCoin decides whether the restored coin overwrites one.
Restore(e, c, u) == AddCoin(FetchCoin(e, c), u, Seen(e, c) # 0)

\* DisconnectBlock: spent coins are restored, then created ones are spent.
DisconnectCoin(b, o, e, c, undo) ==
    LET a == IF o \in Spends[b] THEN Restore(e, c, undo[o]) ELSE e
    IN  IF o \in Creates[b] THEN SpendCoin(a, c) ELSE a

\* RollforwardBlock: every addition may be an overwrite.
ReplayCoin(b, o, e, c) ==
    LET a == IF o \in Creates[b] THEN Restore(e, c, Height[b]) ELSE e
    IN  IF o \in Spends[b] THEN SpendCoin(a, c) ELSE a

-----------------------------------------------------------------------------
VARIABLES
    disk,       \* the coins database: its coins, DB_BEST_BLOCK, DB_HEAD_BLOCKS
    durable,    \* the part of disk that a power failure leaves
    undo,       \* the undo data of every block in the index
    undoDisk,   \* the same in the block tree database, which is synced
    cache,      \* the flags and coins of CoinsTip, or of the replay's cache
    best,       \* the block CoinsTip stands at, which is the tip of m_chain
    phase,
    mode,       \* "flush" empties the cache, "sync" keeps it
    todo,       \* the dirty entries BatchWrite has not put into a batch yet
    rejected,   \* blocks ConnectBlock has found invalid
    crashes

vars == <<disk, durable, undo, undoDisk, cache, best, phase, mode, todo,
          rejected, crashes>>

Phases == {"up", "flushing", "fatal", "down", "rollback", "rollforward", "replayed"}

\* DB_HEAD_BLOCKS is erased; a database has DB_BEST_BLOCK or the two heads.
NoHeads == [new |-> NoBlock, old |-> NoBlock]
Disks == [coins : [Outpoints -> Nat], best : Blocks \cup {NoBlock},
          heads : [new : Blocks \cup {NoBlock}, old : Blocks \cup {NoBlock}]]

NoUndo == [known |-> FALSE, coins |-> Empty]
Undos == [known : BOOLEAN, coins : [Outpoints -> Nat]]

\* The coins CoinsTip answers with.
View == [o \in Outpoints |-> Seen(cache[o], disk.coins[o])]
Dirty == {o \in Outpoints : cache[o].dirty}

Cold == [o \in Outpoints |-> Absent]

TypeOK ==
    /\ disk \in Disks /\ durable \in Disks
    /\ undo \in [Blocks -> Undos] /\ undoDisk \in [Blocks -> Undos]
    /\ cache \in [Outpoints -> Entry]
    /\ best \in Blocks \cup {NoBlock}
    /\ phase \in Phases /\ mode \in {"flush", "sync"}
    /\ todo \in SUBSET Outpoints /\ rejected \in SUBSET Blocks
    /\ crashes \in 0 .. MaxCrashes

\* A new data directory.
Init ==
    /\ disk = [coins |-> Empty, best |-> NoBlock, heads |-> NoHeads]
    /\ durable = disk
    /\ undo = [b \in Blocks |-> NoUndo] /\ undoDisk = undo
    /\ cache = Cold /\ best = NoBlock
    /\ phase = "up" /\ mode = "flush" /\ todo = {}
    /\ rejected = {} /\ crashes = 0

-----------------------------------------------------------------------------
(* Connecting and disconnecting, under cs_main. *)

\* CheckTxInputs and the BIP 30 check, against the view.
Passes(b) ==
    /\ \A o \in Spends[b] \ Creates[b] : View[o] # 0
    /\ \A o \in Creates[b] : View[o] = 0

\* ConnectTip: the block runs in an overlay that is merged into CoinsTip on
\* success and dropped on failure.  The undo data keeps what was spent.
ConnectTip(b) ==
    /\ phase = "up" /\ Parent[b] = best /\ b \notin rejected
    /\ IF Passes(b)
       THEN /\ cache' = [o \in Outpoints |->
                            Merge(cache[o], ConnectCoin(b, o, Absent, View[o]))]
            /\ undo' = [undo EXCEPT ![b] = IF @.known THEN @ ELSE
                  [known |-> TRUE, coins |-> [o \in Outpoints |->
                      IF o \notin Spends[b] THEN 0
                      ELSE IF o \in Creates[b] THEN Height[b] ELSE View[o]]]]
            /\ best' = b /\ UNCHANGED rejected
       ELSE /\ rejected' = rejected \cup {b}
            /\ UNCHANGED <<cache, undo, best>>
    /\ UNCHANGED <<disk, durable, undoDisk, phase, mode, todo, crashes>>

\* DisconnectBlock answers DISCONNECT_OK: its outputs are all there, its
\* inputs are not, and its undo data can be read.
DisconnectsCleanly(b) ==
    /\ undo[b].known
    /\ \A o \in Creates[b] \ Spends[b] : View[o] = Height[b]
    /\ \A o \in Spends[b] : View[o] = 0
    /\ \A o \in Spends[b] \cap Creates[b] : undo[b].coins[o] = Height[b]

\* DisconnectTip: a child cache whose look-ups also fill CoinsTip.
DisconnectTip ==
    /\ phase = "up" /\ best \in Blocks \ {Genesis} /\ DisconnectsCleanly(best)
    /\ cache' = [o \in Outpoints |->
          IF o \in Creates[best] \cup Spends[best]
          THEN Merge(FetchCoin(cache[o], disk.coins[o]),
                     DisconnectCoin(best, o, Absent, View[o], undo[best].coins))
          ELSE cache[o]]
    /\ best' = Parent[best]
    /\ UNCHANGED <<disk, durable, undo, undoDisk, phase, mode, todo, rejected, crashes>>

\* AccessCoin, HaveCoin: reading fills the cache.
AccessCoin(o) ==
    /\ phase = "up" /\ cache' = [cache EXCEPT ![o] = FetchCoin(@, disk.coins[o])]
    /\ UNCHANGED <<disk, durable, undo, undoDisk, best, phase, mode, todo, rejected, crashes>>

Uncache(o) ==
    /\ phase = "up" /\ ~cache[o].dirty
    /\ cache' = [cache EXCEPT ![o] = Absent]
    /\ UNCHANGED <<disk, durable, undo, undoDisk, best, phase, mode, todo, rejected, crashes>>

-----------------------------------------------------------------------------
(* FlushStateToDisk and CCoinsViewDB::BatchWrite. *)

\* The block index and the undo data go first, then the coins.  A manager
\* that is destroyed after a fatal error flushes once more.
StartFlush(m) ==
    /\ \/ phase = "up"
       \/ phase = "fatal" /\ m = "flush"
    /\ best # NoBlock
    /\ undoDisk' = undo
    /\ mode' = m /\ todo' = Dirty /\ phase' = "flushing"
    /\ UNCHANGED <<disk, durable, undo, cache, best, rejected, crashes>>

\* The database with the dirty entries of S written.
Written(S) == [o \in Outpoints |-> IF o \in S THEN cache[o].coin ELSE disk.coins[o]]

\* The heads every batch but the last carries.
Heads == [new |-> best, old |-> IF disk.best = NoBlock THEN disk.heads.old ELSE disk.best]

\* NextAndMaybeErase on the entries of S.
Visited(S) ==
    IF mode = "flush" THEN cache
    ELSE [o \in Outpoints |->
            IF o \notin S THEN cache[o]
            ELSE IF cache[o].coin = 0 THEN Absent
            ELSE [cache[o] EXCEPT !.dirty = FALSE, !.fresh = FALSE]]

\* Mutant: every batch names the best block.
WriteBatchMarks(S) ==
    /\ phase \in {"flushing", "replayed"} /\ S # {}
    /\ disk' = [coins |-> Written(S), best |-> best, heads |-> NoHeads]
    /\ cache' = Visited(S) /\ todo' = todo \ S
    /\ UNCHANGED <<durable, undo, undoDisk, best, phase, mode, rejected, crashes>>

\* A batch is full and is written with the heads instead of the best block.
WriteBatch(S) ==
    /\ phase \in {"flushing", "replayed"} /\ S # {}
    /\ disk' = [coins |-> Written(S), best |-> NoBlock, heads |-> Heads]
    /\ cache' = Visited(S) /\ todo' = todo \ S
    /\ UNCHANGED <<durable, undo, undoDisk, best, phase, mode, rejected, crashes>>

\* The last batch names the best block again.
FinishFlush ==
    /\ phase \in {"flushing", "replayed"}
    /\ disk' = [coins |-> Written(todo), best |-> best, heads |-> NoHeads]
    /\ cache' = IF mode = "flush" THEN Cold ELSE Visited(todo)
    /\ todo' = {} /\ phase' = "up"
    /\ UNCHANGED <<durable, undo, undoDisk, best, mode, rejected, crashes>>

\* Mutant: the failure is not fatal.
WriteFailsIgnored(S) ==
    /\ phase = "flushing" /\ mode \in FailingModes /\ S # {}
    /\ cache' = Visited(S) /\ todo' = {} /\ phase' = "up"
    /\ UNCHANGED <<disk, durable, undo, undoDisk, best, mode, rejected, crashes>>

\* WriteBatch throws: the entries of the batch have been visited, nothing has
\* been written, and FlushStateToDisk reports a fatal error.
WriteFails(S) ==
    /\ phase = "flushing" /\ mode \in FailingModes /\ S # {}
    /\ cache' = Visited(S) /\ todo' = {} /\ phase' = "fatal"
    /\ UNCHANGED <<disk, durable, undo, undoDisk, best, mode, rejected, crashes>>

-----------------------------------------------------------------------------
(* Crash, restart, ReplayBlocks. *)

\* The operating system writes the database log back in its own time.
WriteBack ==
    /\ durable # disk /\ durable' = disk
    /\ UNCHANGED <<disk, undo, undoDisk, cache, best, phase, mode, todo, rejected, crashes>>

\* The process dies, or the machine does.
Crash ==
    /\ phase # "down" /\ crashes < MaxCrashes
    /\ crashes' = crashes + 1 /\ phase' = "down"
    /\ disk' \in {disk, durable} /\ durable' = disk'
    /\ cache' = Cold /\ todo' = {} /\ best' = NoBlock
    /\ UNCHANGED <<undo, undoDisk, mode, rejected>>

\* LoadBlockIndex, ReplayBlocks, LoadChainTip: a database with a best block is
\* used as it is, one with heads is replayed.  The old head may be null.
Restart ==
    /\ phase = "down"
    /\ undo' = undoDisk /\ mode' = "flush"
    /\ IF disk.heads = NoHeads
       THEN phase' = "up" /\ best' = disk.best
       ELSE /\ undoDisk[disk.heads.new].known
            /\ IF disk.heads.old = NoBlock
               THEN phase' = "rollforward" /\ best' = Genesis
               ELSE /\ undoDisk[disk.heads.old].known
                    /\ phase' = "rollback" /\ best' = disk.heads.old
    /\ UNCHANGED <<disk, durable, undoDisk, cache, todo, rejected, crashes>>

\* Mutant: pindexOld is not moved to its parent.
RollbackSameBlock ==
    /\ phase = "rollback"
    /\ IF best \in Ancestors[disk.heads.new]
       THEN phase' = "rollforward" /\ UNCHANGED cache
       ELSE /\ cache' = [o \in Outpoints |->
                  DisconnectCoin(best, o, cache[o], disk.coins[o], undo[best].coins)]
            /\ UNCHANGED phase
    /\ UNCHANGED <<disk, durable, undo, undoDisk, best, mode, todo, rejected, crashes>>

\* best is the loop's pindexOld, then the block rolled forward last.
Rollback ==
    /\ phase = "rollback"
    /\ IF best \in Ancestors[disk.heads.new]
       THEN phase' = "rollforward" /\ UNCHANGED <<cache, best>>
       ELSE /\ undo[best].known
            /\ cache' = [o \in Outpoints |->
                  DisconnectCoin(best, o, cache[o], disk.coins[o], undo[best].coins)]
            /\ best' = Parent[best] /\ UNCHANGED phase
    /\ UNCHANGED <<disk, durable, undo, undoDisk, mode, todo, rejected, crashes>>

Rollforward ==
    /\ phase = "rollforward"
    /\ IF best = disk.heads.new
       THEN phase' = "replayed" /\ todo' = Dirty /\ UNCHANGED <<cache, best>>
       ELSE \E b \in Blocks :
               /\ b \in Ancestors[disk.heads.new] /\ Parent[b] = best /\ best' = b
               /\ cache' = [o \in Outpoints |-> ReplayCoin(b, o, cache[o], disk.coins[o])]
               /\ UNCHANGED <<phase, todo>>
    /\ UNCHANGED <<disk, durable, undo, undoDisk, mode, rejected, crashes>>

Recover == Restart \/ Rollback \/ Rollforward \/ (phase = "replayed" /\ FinishFlush)

Next ==
    \/ \E b \in Blocks : ConnectTip(b)
    \/ DisconnectTip
    \/ \E o \in Outpoints : AccessCoin(o) \/ Uncache(o)
    \/ \E m \in {"flush", "sync"} : StartFlush(m)
    \/ \E S \in SUBSET todo : WriteBatch(S) \/ WriteFails(S)
    \/ FinishFlush
    \/ WriteBack \/ Crash
    \/ Restart \/ Rollback \/ Rollforward

Spec == Init /\ [][Next]_vars

FairSpec == Spec /\ WF_vars(Recover)

-----------------------------------------------------------------------------
(* Properties. *)

\* Whatever is cached, dirty, fresh, half flushed or left over from a failed
\* flush, CoinsTip answers with exactly the UTXO set of its best block.
ViewIsUtxo == phase \in {"up", "flushing", "fatal"} => View = Utxo[best]

\* A database that names a best block holds exactly the UTXO set of that
\* block, both as written and as a power failure would leave it.
MarkedConsistent ==
    \A d \in {disk, durable} : d.heads = NoHeads => d.coins = Utxo[d.best]

\* While blocks are connected, a clean entry equals what the database has, and
\* a FRESH entry is a coin the database does not have (coins.h on the flags;
\* SanityCheck on their combinations).
FlagsSound ==
    phase = "up" => \A o \in Outpoints :
        /\ cache[o].in /\ ~cache[o].dirty => cache[o].coin = disk.coins[o] /\ cache[o].coin # 0
        /\ cache[o].fresh => cache[o].dirty /\ cache[o].coin # 0 /\ disk.coins[o] = 0

\* CCoinsViewCache::BatchWrite never finds a FRESH flag misapplied when a block
\* that passes is connected or the tip is disconnected, and the flush that
\* follows a broken one has the same target, as CCoinsViewDB asserts.
NoLogicError ==
    /\ phase \in {"flushing", "replayed"} /\ disk.heads # NoHeads => disk.heads.new = best
    /\ phase = "up" =>
        /\ \A b \in Blocks : Parent[b] = best /\ Passes(b) => \A o \in Outpoints :
              ~MergeThrows(cache[o], ConnectCoin(b, o, Absent, View[o]))
        /\ best \in Blocks \ {Genesis} => \A o \in Outpoints :
              ~MergeThrows(FetchCoin(cache[o], disk.coins[o]),
                           DisconnectCoin(best, o, Absent, View[o], undo[best].coins))

\* The cached view never makes ConnectBlock reject a valid block.
OnlyInvalidRejected == \A b \in rejected : ~Valid(b)

\* A reorganisation never finds a tip it cannot disconnect cleanly.
TipDisconnects == phase = "up" /\ best \in Blocks \ {Genesis} => DisconnectsCleanly(best)

\* Whenever the machine may die, the block index on disk already knows the
\* heads of the flush it would find, with the undo data to leave the old one.
HeadsAreIndexed ==
    \A d \in {disk, durable} : d.heads # NoHeads =>
        /\ undoDisk[d.heads.new].known
        /\ d.heads.old # NoBlock => undoDisk[d.heads.old].known

\* A node that went down comes up again without a reindex, if it is restarted
\* and the crashes end.
ComesBack == phase = "down" ~> phase = "up"

=============================================================================
