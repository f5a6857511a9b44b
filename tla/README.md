# swift-bitcoinkernel in TLA+

The repository embeds Bitcoin Core in a Swift process in two ways.
`BitcoinKernel` drives libbitcoinkernel (validation only) and syncs it from a
block source; `Bitcoin` runs a whole `bitcoind` on a thread and talks JSON-RPC
to it. What is hard in both is not the data but the order of events: tasks that
interleave at every `await`, cancellation, a C library with locks, worker
threads, a crash-safe database and global state underneath, and a daemon that
was never meant to run twice in a process. The modules here model that control
flow and abstract the data (a block is a name in a small tree, a coin is a
number, an answer is one of a few kinds).

## The system and its parts

| Part | State | Operations | What makes it hard |
|---|---|---|---|
| Esplora source and pacer (`EsploraBlockSource.swift`, `RequestPacer.swift`) | the pacer's next free slot, the attempt counter of every call | `fetchData`, `reserveNextSlot` | concurrent calls, late wake-ups, two kinds of retry, cancellation in three sleeps |
| Sync engine (`SyncLoop.swift`, `BlockchainSync.swift`) | local and remote tip of a run, stream buffer, shared `Progress` | `runSyncLoop`, `updates`, `next` | a source that reorganises between requests, invalid blocks, bounded buffer, two runs on one manager |
| Sync teardown (`SyncStorage.swift`, `shutdown`) | tracked producers, database lock, interrupt flag | `track`, `drainProducers`, `shutdown`, reopening | start/track race, concurrent callers, references that keep the lock |
| Kernel chainstate (vendored `validation.cpp`, `blockstorage.cpp`) | block index, stored data, failure marks, best header, active tip | `AcceptBlockHeader`, `ProcessNewBlock`, `ActivateBestChain` | the lock is released between accepting and activating |
| UTXO set and coins database (vendored `coins.cpp`, `coins.h`, `txdb.cpp`, parts of `validation.cpp`) | cache with DIRTY and FRESH flags, database, its best block or pair of heads, undo data | connect, disconnect, `Uncache`, `Flush`, `Sync`, batches, `ReplayBlocks` | crashes between batches and during a replay, writes that fail, flags that cross three layers |
| Script check queue (vendored `checkqueue.h`) | queue, `nIdle`, `nTotal`, `nTodo`, `m_result` | `Add`, `Loop`, `Complete`, destructor | two condition variables, lost and spurious wake-ups, a result left over from the block before |
| Contexts, callbacks and managers (`Context`, `bitcoinkernel.cpp`) | retained callback objects, shared owners of a context | `setNotifications`, `setValidationInterface`, callbacks, deinit in any order | who releases, also when creation fails or from inside a callback |
| Logging connections (`LoggingConnection.swift`, `logging.cpp`) | the process-wide logger, its buffer and callbacks | connect, disconnect, `disableLogging`, a daemon's start and stop | one logger for every connection and for the embedded daemon |
| Embedded daemon (`Daemon.swift`) | `isRunning`, `finished`, the daemon thread | `start`, `waitUntilStopped` | restarts, one semaphore for all runs, sticky globals |
| RPC bridge (`bitcoin_rpc.cpp`) | `g_ready`, `g_node_ctx` | `_bridge_init`, `bitcoin_rpc`, `bitcoin_rpc_reset` | two atomics written separately, calls in flight at teardown |
| Transports (`DirectTransport.swift`, `AutoTransport.swift`) | `OnceFlag`, the timer, the answer on the heap | `send` | timer against late answer, stale readiness check |
| Bootstrap (`Daemon.poll`) | deadline, delay, last error | `poll` | slow attempts, cancellation swallowed by `try?` |
| Configuration (`BitcoinConfig`, vendored `args.cpp`, `init.cpp`, `httpserver.cpp`) | arguments and flags; the registered arguments and filter types of bitcoind | builder methods, `validate`, `startAndConnect`; parsing, parameter interaction | two readings of one list of arguments; flags that outlive a setting; globals that outlive a run |
| RPC client, models | none | `decode`; conversions | null results; amounts at the edge of `Int64` |

The sync engine calls the source (every request goes through `fetchData`) and
the kernel; teardown surrounds it. Inside the kernel, connecting a block goes
through the check queue and the coins cache; what happens there reaches the
application through callbacks and the log. `start` spawns the thread that
serves both HTTP and the bridge; `bootstrap` (through `poll`) opens the bridge;
`AutoTransport` chooses between the bridge and HTTP for every call.

## Modules

* `EsploraFetch`: every element of `Tasks` is one call of `fetchData`. `pc`
  names the await a call is in: `slot` (sleep until the reserved slot),
  `request`, `backoffStatus` (the sleep in the `do` block) and `backoffNetwork`
  (the one in the `catch` clause), which differ in what cancellation turns
  into. Time is `now`; `MaxLateness` bounds how late a wait ends.
* `Chainstate`: pure operators for what the kernel does with headers and
  blocks, as far as the Swift API shows it. Work is height, so a tie between
  branches is decided by `linked`, the order of `nSequenceId`.
* `SyncLoop`: one action per stretch of `runSyncLoop` between two awaits or
  kernel calls. `bestTip()` is two requests (`TipHeight`, then `RemoteTip` or
  `Repoll`), `processBlock` two steps (`ProcessAccept`, `ProcessActivate`)
  because `ProcessNewBlock` gives up `cs_main` in between. `Yield` and `Finish`
  are the `AsyncStream`. The surroundings are the consumer, `shutdown()`, the
  moving source and an application that feeds headers. The interrupt flag is
  recorded but cuts no activation short: a feed adds at most one block to the
  best chain, and the flag is looked at between steps of the activation.
* `UpdateStream`: the promise to the consumer of one run. `SyncLoop` implements
  it under the refinement mapping `Contract` (the phase is the state of the
  last update, or `cancelled` once the run has returned without a final one).
  It counts the updates, so that an update that repeats the last one is no
  stutter. It does not ask for climbing tips, because the code does not promise
  them for every block; `TipsClimb` says when they climb.
* `SyncTeardown`: creation of iterators (`Spawn`, then `track`), the steps of
  `shutdown()` (drain, cancel, await), dropping and reopening the manager, and
  `importBlocks` under the interrupt flag. `ConcurrentIterators` and the set
  `Callers` say how the application uses it.
* `Coins`: the database (`disk`, and `durable`, what a power failure leaves of
  it), the cache with its flags, and the undo data. `ConnectTip` and
  `DisconnectTip` run a block in an overlay and merge it entry by entry
  (`Merge` is `BatchWrite`). A flush is `StartFlush` (block index and undo data
  go first), any number of `WriteBatch` steps that carry the two heads, and
  `FinishFlush`, which names the best block; any batch may fail
  (`WriteFails`), and `Crash` may come between any two steps. `Restart`,
  `Rollback` and `Rollforward` are `ReplayBlocks`. A coin is the height that
  created it, so that the same outpoint created on two branches is told apart.
  `Utxo`, what the set must be after each block, is a constant the assumption
  ties to the tree.
* `CheckQueue`: one action per critical section of `m_mutex`. The queue is a
  set, a check is its own error, and each thread has its batch, `do_work` and
  `local_result`. `notify` holds the notification that `Add` and the destructor
  send after they have left the mutex; spurious wake-ups are steps.
* `KernelHandles`: retain counts of callback objects and closures, the
  `shared_ptr` counts of the kernel's wrappers around them, contexts with their
  owners (the Swift object, a manager), callbacks in flight, and the
  process-wide logger with its connections and the embedded daemon that starts
  and resets the same one. A behaviour has one of the `Scopes`: callback
  objects and contexts, or logging.
* `EmbeddedDaemon`: runs of `bitcoind_main` are numbered and move through their
  phases. `Habits` lists where an application may depart from the shutdown
  sequence `Daemon.swift` recommends; `habits`, chosen in `Init`, says whether
  this application does. A call of `start` that finds the flag taken, and a
  direct call that finds the gate closed, change nothing and are not steps.
* `DirectTransport`: `AutoTransport.send` and `DirectTransport.send`, with the
  call, the timer and the gate as concurrent actors.
* `DaemonPoll`: `Daemon.poll` against a server that comes up at some time.
* `BitcoinConfig`: the builder as operators on a record of arguments, flags, data
  directory and port. `Call` is one builder method, `ConfigErrors` and
  `ConfigWarnings` are `validate()`; the rest is what the client derives.
* `NodeArguments`: what bitcoind makes of the same arguments: where an option is
  `Given` on the command line and which of its values counts, what the parameter interaction adds, what it refuses at which
  point of the initialisation, and where the server listens and leaves its cookie.
* `StartAndConnect`: composes these two and `DaemonPoll`. The caller builds a
  configuration method by method (`Build`); `startAndConnect` throws
  (`CallThrows`) or starts the node and polls (`CallStarts`, `Poll`), while the
  node ends its initialisation at any time in one of five ways; `Stop` is the
  stop RPC, the wait and the next configuration. The fate of a node is computed
  when it starts, from the arguments and the globals only its own thread changes;
  the steps of `Poll` and `Initialised` are those of `DaemonPoll`.
* `MCSyncLoop`, `MCCoins`, `MCCheckQueue`, `MCKernelHandles`, `MCStartAndConnect`:
  block trees, coins, checks, scopes and numbers of builder calls for TLC. The other modules are instantiated by their `.cfg`
  files alone.
* `ChainstateContract`: what the kernel's operations keep and promise, as the
  proofs about sync runs use it (`ChainContract`). `SyncInvariants`: the
  inductive invariants of sync runs.
* `*Proofs`: the theorems. `ChainstateProofs` proves `ChainContract`,
  `SyncRunProofs` what follows from it for the steps of one run, and
  `SyncLoopProofs`, which extends both, has the theorems about `SyncLoop`.
  `LifetimeProofs` is about `KernelHandles` and `SyncTeardown`,
  `EmbeddedDaemonProofs` about `EmbeddedDaemon` and `DirectTransport`,
  `ConnectBlockProofs` about `Coins` and `CheckQueue`, `StartAndConnectProofs`
  about `StartAndConnect` and `DaemonPoll`, `EsploraFetchProofs` about
  `EsploraFetch`. Two specifications meet in one such module, so those of
  `SyncTeardown`, `DirectTransport` and `CheckQueue` carry the component's
  name (`TeardownSpec`, `DirectSpec`, `QueueSpec`).

Definitions whose comment begins with `Mutant:` are deliberately wrong versions
of the definition after them. Nothing uses them; put in its place they must
break a property, which shows that the property can fail. `TypeOK` documents
the state of a module; it is part of the inductive invariant wherever there is
a proof, and is listed in no run.

## What TLC checks

Runs that hold:

| Run | Shows |
|---|---|
| `fetch` | two concurrent fetches, one retry each, Retry-After, lateness, cancellation: `SlotsSpaced`, `BurstBounded`, `BackoffHonoured`, `TransientOnlyAfterAllRetries`, `EveryFetchEnds` |
| `sync` | one run, a growing, reorganising and failing source with a malformed and an unconnectable block, a buffer of two: `StreamContract` (refinement of `UpdateStream`), `TerminalNeverDropped`, `ProgressTracksTip`, `ReportedTipsValidated`, `RunsEnd` |
| `sync_two` | two runs and a fed header on one manager, a source that reorganises between a valid and an invalid branch: `ChainstateSound`, `SharedReportsSound`, `TipsClimb` |
| `teardown` | one caller, no iterator created meanwhile: `ShutdownIsABarrier`, `ReopenNeverLocked`, `ShutdownReturns` |
| `coins` | a forked tree connected, disconnected, cached and flushed, two crashes, failing full flushes: `ViewIsUtxo`, `MarkedConsistent`, `NoLogicError`, `ComesBack` |
| `check_queue` | three workers, two blocks with bad checks: `CompleteMeansDone` (`ResultRight` and `NothingInFlight`), `CompleteReturns`, `DestructorReturns` |
| `handles` | two objects attached three times to two contexts with managers, or two log connections beside a daemon: `CalledObjectAlive`, `RetainsBalanced`, `LoggerFaithful` |
| `daemon` | three runs; any use: `OneInstance`, `SocksUsable`; the documented sequence: `JoinMeansStopped`, `BridgeServesLiveNode`, `NoTornDownContext`, `BootstrapMeansDirect`, `JoinReturns` |
| `direct_send` | two calls: `ResumedExactlyOnce`, `AnswerFreed`, `EverySendAnswered` |
| `connect` | every configuration of up to three builder calls, two calls of `startAndConnect` in one process: `ConflictsCaught`, `TimeoutExplained`, `RestartLikeFresh`, `CancellationSurfaces` |

Runs that check a sentence the code does not keep; TLC finds the behaviour, and
`PROJECT.json` quotes the sentence:

| Run | What happens |
|---|---|
| `doc_sync_error` | a database write fails in a `Sync`, whose cursor has already unflagged the entries of the batch; the flush of the manager's destruction then marks the database consistent without them (`MarkedConsistent`) |
| `doc_handed_blocks` | the block handle passed to a validation callback is copied and never destroyed, so every callback leaks one (`HandedBlocksDestroyed`) |

### Behaviour worth knowing

Several properties hold only under the use or the environment their run states.
Outside of it the model, and the code it follows, behave like this. None of
these has a run of its own; the first group is seen by changing the constants
of an existing configuration.

With other constants:

* `shutdown()` misses a producer that was started and not yet tracked
  (`ShutdownIsABarrier`, `ConcurrentIterators = TRUE`).
* The second of two concurrent calls of `shutdown()` finds the list drained and
  returns while producers run (`ShutdownIsABarrier`, two callers); the two are a
  barrier together.
* The second of two waiters is never woken, as a run signals once
  (two waiters: TLC reports the deadlock).
* The later of two runs sets `Progress` back (`ProgressTracksTip`, two runs); a
  second run may report a block before it is connected, and it may never be
  (`ReportedTipsValidated`, two runs and an unconnectable block).
* Headers fed ahead make a run finish without fetching their blocks, since the
  local tip is the best header (`ReportedTipsValidated`, `AppHeaders`);
  `SharedReportsSound` says what a report is worth then.

In an application that departs from the sequence (`habits` not empty, which the
daemon's properties then exclude):

* `start` between the clearing of `isRunning` (`Daemon.swift:98`) and the signal
  drains nothing, and the late signal wakes the waiter of the new run, although
  `waitUntilStopped` is to "block synchronously until `bitcoind_main()` has
  fully returned" (`Daemon.swift:170`).
* After a restart without `bitcoin_rpc_reset`, `_bridge_init` keeps the context
  of the previous node (`noReset`); a `_bridge_init` in flight during the reset
  reopens the gate (`lateBootstrap`); the reset does not wait for direct calls
  in flight (`inFlightCalls`).

Read off the actions:

* A late wake-up puts two request starts closer together than the minimum
  delay; `BurstBounded` says by how much.
* A fetch cancelled while it backs off from a 429 or 5xx throws `network`,
  because that sleep is inside the `do` block (`BackoffCancelled`); a run
  cancelled in such a request ends in `failed` (`RequestFails`).
* A slow consumer loses `preparing` when the buffer overflows (`Yield`).
* `bestTip` may pair the height of one block with the hash of another
  (`answeredTip`), and the walk asks for every block by height (`FetchHash`), so
  a reorganisation between two blocks makes the kernel reject a valid one.
* The re-poll compares heights only (`SyncLoop.swift:139`): after a
  reorganisation to equal height a run reports `finished` on the old branch,
  although finished means "local chain has reached the source's tip"
  (`BlockchainSync.swift:217`).
* A block that is stored but does not connect is answered by a `syncing` update
  whose tip has not moved; `TipsClimb` excepts it.
* A run that ends interrupts its context and nothing clears the flag
  (`BlockchainSync.swift:176`): the context opens no further manager (`Reopen`),
  although "one context can back multiple managers" (`Context.swift:18`).
* `importBlocks` cut short by the interrupt answers `true` (`ImportFile`).
* A gate that closes between `bitcoin_rpc_ready` and the call makes the call
  fail instead of falling back to HTTP.
* Connecting to the log after `disableLogging()` meets `assert(m_buffering)` and
  aborts; it does not throw `loggingConnectionFailed`, which is documented to
  "usually" mean just this (`KernelError.swift:28`).
* A daemon that shuts down resets the logger under a live `LoggingConnection`,
  whose `deinit` then erases an iterator that is no longer there
  (`logger.dangling`). While a daemon logs to a file, a connection that fails
  releases its closure twice, once in the kernel and once in
  `LoggingConnection.swift:62` (`ConnectFails`). Both need a daemon and a
  connection in one process, hence `logger.shared` in the properties.

Of the configuration (the exceptions in `ConflictsCaught`, `TimeoutExplained` and
`RestartLikeFresh`; each is needed, TLC finds a configuration for every one):

* Flags are never cleared, while bitcoind takes the last value of an option. So
  `.txIndex().prune(.size(mb: 550)).txIndex(false)` is rejected though bitcoind
  accepts it, and `.peerBlockFilters().blockFilterIndex(.all)` followed by
  `.blockFilterIndex(.disabled)` passes though bitcoind refuses it.
* `validate()` does not know that bitcoind refuses `txIndex` with manual pruning,
  `txoSpenderIndex` or `reindexChainstate` with any pruning, `rpcPort(0)`, and
  `bind` or `listenOnion` with `listen(false)`. It rejects `coinStatsIndex` with
  pruning and `peerBlockFilters` with the `.basic` index, which bitcoind accepts.
* `includeConf`, `rpcSerialVersion` and `blockMaxSize` write arguments bitcoind
  refuses to parse (`ParseFails`); `rpcCookiePerms("0600")`, the documented example
  (`BitcoinConfig+RPC.swift:72`), makes the server fail to start (`ServerRefused`);
  `daemon()` makes bitcoind fork and the process of the application exit.
* The client of `startAndConnect` does not find a node whose cookie is moved by
  `rpcCookieFile`, whose `rpcBind` and `rpcAllowIP` leave out 127.0.0.1, or whose
  `rpcWhitelist` leaves out the user of the cookie.
* When `ParseArgs` fails, on one of these or on a data directory that does not
  exist, `bitcoind_main` returns before `Shutdown`
  (`bitcoind.cpp:278`), the registered arguments stay, and the next start meets
  `assert(ret.second)` in `AddArg` and aborts the process, although the reset in
  `Shutdown` is there "so that bitcoind_main() can be called again within the same
  process" (`init.cpp:416`).
* Nothing clears `g_enabled_filter_types`: a node restarted without
  `blockFilterIndex` still builds the index of the run before, and
  `peerBlockFilters` alone is then accepted.
* Not in the model, which has no configuration files: `ClearArgs` leaves the
  cached data directory, so a restart with another one looks for `bitcoin.conf`
  in the old one (`common/init.cpp:34`) before the cache is cleared.

### Bounds

* Fetch: two calls are enough for every race on the pacer (a third only adds
  another slot); one retry exercises both branches of every comparison with
  `maximumRetries`; a Retry-After longer than the back-off and a lateness of
  one tick make every order of due times possible.
* Sync: the tree has a common block, then two branches of equal length, so the
  source can grow, reorganise to the same height, to a higher one and to a
  lower one. A buffer of two overflows within a run of three blocks. Two
  runs are needed for every race on the chainstate or on `Progress`; to keep
  them within TLC's reach they start one block below the source in `sync_two`,
  which moves between a valid block and an invalid one that has a fed header
  above it: a run can finish validated, ahead of validation, or on what fails.
* Teardown: three producers, so that at one call some are over, some cancelled
  and some running; two files to import.
* Coins: two branches of two blocks on a common one. One outpoint is created on
  both branches at different heights, one is created and spent in one block, one
  block double-spends. Two crashes, so that a replay can be cut short as well.
  Batches are arbitrary subsets of the dirty entries. Only full flushes fail;
  `doc_sync_error` shows what a failing `Sync` does.
* Check queue: three workers, so that two can hold failures while a third still
  works; two blocks, the least for a result to be left over; batches of at most
  two out of three checks, so that a block takes several.
* Handles: three attachments (one replaces another of its kind), two contexts
  that may share them, two callbacks; two connections, four log lines against a
  buffer of two, and two daemon starts. `Scopes` holds these bounds.
* Daemon: three starts, so that a run has both a predecessor and a successor;
  two starters and two bootstraps that race; one waiter and one client.
* Connect: three builder calls on regtest, so that an option can be set, met by a
  conflicting one and set again; one on each other network, for the port and
  directory tables; every method and value that some rule tells apart. Two runs,
  as a run leaves its successor only the two globals. The timeout leaves room
  for the delay to reach its cap and stay there.

Deadlock is checked in every run but `handles` and `doc_handed_blocks`, where an
application that has dropped everything has nothing left to do.

### Fairness

A task that is runnable runs, a sleep ends, and a request is answered or times
out (`URLSession` has a timeout): weak fairness of the steps of a call or run,
and of time. A producer owes its end to `shutdown()` only once it is cancelled.
The daemon's thread and HTTP handlers keep running. In `Coins` a node that went
down is restarted and its replay goes on (`Recover`); crashes are finitely many.
In `CheckQueue` a thread that is not asleep on a condition variable goes on, and
a notification that is owed is sent; the master owes nothing outside of `Loop`,
and nobody relies on a spurious wake-up. Nothing is assumed of callers,
consumers, cancellation, the source, or a direct `bitcoin_rpc` call, which may
block for ever.

## What is proved

TLAPS checks the following for all values of the constants: every safety
property a run checks, the action property `TipsClimb` among them, and the
refinement of `UpdateStream`. A theorem assumes what the `ASSUME` of the module it is about
says of the constants, and what is named below.

* `EsploraFetchProofs`: `TypeOK`, `SlotsSpaced`, `RetryBudget`,
  `BackoffHonoured`, `TransientOnlyAfterAllRetries` and `BurstBounded`. Spacing
  alone is not inductive: `IInv` adds that every slot is at least
  `MinimumDelay` before `earliestNextStart`, that the requests of a call are in
  step with its attempt counter in every control state, and that the wait a
  call is in, or the slot it holds, covers its back-off. `BurstInv` gives every
  request the slot it was sent for, no two the same: the k slots between two
  requests are k spacings apart wherever the scheduler put the requests, and
  each request starts at most `MaxLateness` after its slot.
* `ChainstateProofs`: `ChainContract`, for every block tree. `Ancestors` is a
  recursive function, which the lemmas characterise by least counterexamples
  (the lowest block for which they fail); on top of that, each kernel operator
  keeps `ChainInv`, activation leaves no better chain behind (`Settled`), and
  nothing is ever taken back (`Keeps`: index, data, links and failure marks only
  grow, the tip never loses height, the best header only to a failure).
* `SyncRunProofs` and `SyncLoopProofs`, for every tree, source and buffer limit,
  any number of runs that share the chainstate and any headers the application
  feeds:
  * `TypeOK` and `ChainstateSound`. `KernelInv` adds the types of the runs and
    that `Settled` holds while no run is between the two halves of
    `processBlock`. `KernelTakesNothingBack` is `Keeps` as an action property.
  * `UpdatesWellFormed`, `TerminalNeverDropped` and `StreamRefines`, which says
    that `SyncLoop` implements `UpdateStream`. Each of the eleven steps of
    `runSyncLoop` has one of four effects on the stream (nothing, a report, a
    conclusion, a silent end), and each effect is a step of `UpdateStream` or a
    stutter. `StreamInv` adds that the control state agrees with what was
    emitted and that the buffer of an unfinished run holds no terminal update,
    so none can be pushed out of it.
  * `SharedReportsSound` and `TipsClimb`: what reports are worth when bestEntry
    may run ahead of validation. `SharedInv` says that only blocks of fed headers
    can be indexed and not stored, that every reported tip is in the index, that
    finished means its height is the one the source answered or more, and that
    the block a run feeds is the one above its local tip. As the index and the
    height of an unfailed best header only grow (`Keeps`), the next tip a run
    reads is above the last it told, whoever moved it.
  * For `Alone` (one run, no fed headers): `ReportedTipsValidated` and
    `ProgressTracksTip`. The invariant `SoloInv` says that the chainstate is
    then one line of blocks with at most one block above the tip (`FeedsLine`).
    Both fail for runs that share a manager, as told above.
* `LifetimeProofs`: the handles. `CalledObjectAlive`, `RetainsBalanced`,
  `LoggerFaithful` and `TypeOK` of `KernelHandles` for any number of objects,
  contexts, connections and daemon runs. `HandlesInv` ties the three counts
  together: the use count of a wrapper is one for the options and one or two
  for every context that has it (`UsesCounted`), so a count tells whether
  anybody else is left, and an object is retained once for each wrapper that
  has not been destroyed. For the logger it says that its list holds only
  connections and, until a daemon shares it, all of them, and that it buffers
  exactly while nobody has started it. And the end of a sync:
  `TeardownInv` follows every producer from the iterator that has yet to track
  it, to `SyncStorage`, to the call that drained it and is to await it. For any
  number of overlapping callers and iterators created at any time this is
  `NoProducerIsForgotten`. If no iterator is created after the first call
  (`NoIteratorAfterShutdown`), the first two places are empty from then on
  (`NothingAfterDrain`): overlapping calls are a barrier together
  (`LastShutdownIsABarrier`), and a reopened directory can be locked only by a
  call that is unfinished (`LockedOnlyByShutdown`). With one caller
  (`SequentialUse`) these are `ShutdownIsABarrier` and `ReopenNeverLocked`.
* `ConnectBlockProofs`: `CoinsCorrect`, for every tree, set of outpoints and number of
  crashes, assuming that writes fail in full flushes only (`"sync" \notin
  FailingModes`), with a corollary each for `ViewIsUtxo`, `MarkedConsistent` and
  `NoLogicError`; beyond the run it covers `FlagsSound`, `OnlyInvalidRejected`,
  `TipDisconnects` and `HeadsAreIndexed`. The invariant says what each flag
  promises about the database, that during a flush every coin on disk is the
  old head's or the new head's, and that during a replay every coin is right
  for the block the replay is at or already right for the one it goes to; that
  is why a replay may be cut short and begun again. Lemmas on single cache
  entries (`ConnectEntry` and its siblings) carry the cases of each action.
  And `CheckQueueCorrect`, that is `CompleteMeansDone`, for any number of
  workers, checks and blocks and any batch size. `nTodo` counts the queue and
  the batches in hand; while no error is recorded every bad check is still
  among them; a thread may remember an error of the block before, but only
  where it never hands it on.
* `EmbeddedDaemonProofs`: `OneInstance` and `SocksUsable` for any use, and
  `JoinMeansStopped`, `BridgeServesLiveNode`, `NoTornDownContext` and
  `BootstrapMeansDirect` for an application that keeps the sequence, with any
  number of runs and tasks. `TokenInv`: `isRunning` is in the hands of one call
  of `start`, or of the latest run, or free. `JoinInv`: earlier runs are over
  and only the latest has signalled. `BridgeInv`: between `_bridge_init` and the
  reset the node serves. The second part is about the calls over the bridge,
  `ResumedExactlyOnce` and `AnswerFreed` of `DirectTransport` for any number of
  calls: `SendsInv` says when the flag of a call is claimed and when its answer
  is on the heap.
* `StartAndConnectProofs`: `PollCorrect` (`EndsInTime`, `ServerFound`,
  `CancellationSurfaces`) for every timeout, delay, length of an attempt and
  lateness: the invariant bounds, in each control state, how old the news can
  be that the loop condition has not seen. Then `ConflictsCaught`,
  `TimeoutExplained`, `RestartLikeFresh` and `CancellationSurfaces` of
  `StartAndConnect` for any number of builder calls and runs in one process.
  `ConfigInv` ties what `validate()` looks at (the flags a builder call sets) to
  what bitcoind reads (the last value of an option on the command line); lemmas
  on the command line say what appending an option or the parameter
  interaction changes. `EndpointDerived` compares what the client derives with
  what the node does, table by table. `NodeInv` and `GlobalsInv` say what a run
  leaves to the next one.

Where an operator is a recursive function, facts about all its values are
proved by the least counterexample: the set of inputs for which they fail has a
least member (`LeastNumber`, `LeastBlock`, from well-founded induction), and
there the definition unfolds once.

Only model-checked: liveness (`EveryFetchEnds`, `RunsEnd`, `ShutdownReturns`,
`ComesBack`, `CompleteReturns`, `DestructorReturns`, `JoinReturns`,
`EverySendAnswered`), as the prover does not reason about fairness.

## Not modelled

Nearly all lines under `src/` are vendored Bitcoin Core, twice: libbitcoinkernel
and bitcoind. Of it the project models what the Swift code drives and what can
go wrong in an order of events: the chainstate as the API shows it, the coins
database, the check queue, the callback objects, the logger, the bridge and the
reading of the arguments the builder writes. The
rest (script interpreter, consensus arithmetic, serialisation, LevelDB,
secp256k1, peer-to-peer network, mempool, wallet, RPC handlers, pruning,
snapshots, wiping and reindexing) is either not reached through the Swift API,
or pure computation on data no small instance represents. Its share of the
lines is why the part of all lines that the modules cover is small.

Of the Swift code: value types that own or view one C object; HTTP and cookie
transports and the typed RPC client (one request each, no state); JSON and hex
encoding; the builder methods whose option no modelled rule reads (`raw`, relay,
ZMQ, debug, network-scoped options, presets); `BTCAmount` (64-bit arithmetic
without state) and the data transfer objects of `Models`.
A log callback that itself logs would wait for the logger's own mutex; logging
is modelled as one step per line, so this is not seen.
`PROJECT.json` lists every component with its status, and the hazards no
property covers with the reason.

## Plan

1. Present: fetch, sync, chainstate, teardown, coins, check queue, handles,
   daemon, bridge, direct transport, poll, configuration and its composition
   with the restart, with the proofs above.
2. Next: the wipe and reindex life cycle of the manager on top of `Coins`; a
   composition of `DirectTransport` with `EmbeddedDaemon`; the cookie file and
   configuration files across restarts.
3. Prove more: `ProgressTracksTip` for runs that follow one another on one
   manager.
