---------------------------- MODULE SyncTeardown ----------------------------
(***************************************************************************)
(* The life of the objects around a sync: the producer tasks SyncStorage   *)
(* tracks, shutdown(), the references that keep the ChainstateManager and  *)
(* its LevelDB lock alive, the interrupt flag of the Context, and the      *)
(* manager the application opens next on the same data directory.          *)
(*                                                                         *)
(* A producer is only running or ended here: SyncLoop models what it does. *)
(***************************************************************************)
EXTENDS Naturals, FiniteSets

CONSTANTS
    Runs,                 \* iterations of updates(), one producer task each
    Callers,              \* tasks that call shutdown()
    Owner,                \* the caller that then reopens the data directory
    ConcurrentIterators,  \* whether iterators are created while shutdown is called
    Files                 \* block files given to importBlocks

ASSUME TeardownAssumption ==
    /\ Owner \in Callers
    /\ ConcurrentIterators \in BOOLEAN
    /\ Files \in Nat \ {0}

VARIABLES
    iterator,     \* progress of AsyncIterator.init, per run
    task,         \* the producer task
    cancelled,    \* the producer's cancellation flag
    producers,    \* SyncStorage.producers
    call,         \* where each call of shutdown() stands
    mine,         \* the local variable `producers` of shutdown()
    atCall,       \* history: producers alive when shutdown() was called
    interrupted,  \* the context's interrupt flag; nothing clears it
    appHolds,     \* the application holds the sync and the manager
    reopened,     \* outcome of the next ChainstateManager.init
    importing     \* state of importBlocks and the files it has read

runVars == <<iterator, task, cancelled, producers>>
callVars == <<call, mine, atCall>>
appVars == <<appHolds, reopened>>
teardownVars == <<iterator, task, cancelled, producers, call, mine, atCall, interrupted,
                  appHolds, reopened, importing>>

RunningProducers == {r \in Runs : task[r] = "running"}

InProgress(c) == call[c] \in {"drained", "awaiting"}

\* The data directory is locked while anything still refers to the manager:
\* the application, a producer, or a call of shutdown() through its sync.
Locked == appHolds \/ RunningProducers # {} \/ \E c \in Callers : InProgress(c)

TeardownInit ==
    /\ iterator = [r \in Runs |-> "none"]
    /\ task = [r \in Runs |-> "none"]
    /\ cancelled = [r \in Runs |-> FALSE]
    /\ producers = {}
    /\ call = [c \in Callers |-> "idle"]
    /\ mine = [c \in Callers |-> {}]
    /\ atCall = [c \in Callers |-> {}]
    /\ interrupted = FALSE
    /\ appHolds = TRUE
    /\ reopened = "no"
    /\ importing = [state |-> "idle", read |-> 0]

-----------------------------------------------------------------------------
(* AsyncIterator.init and the producer. *)

\* AsyncIterator.init starts the producer task...
Spawn(r) ==
    /\ appHolds
    /\ iterator[r] = "none"
    /\ ConcurrentIterators \/ \A c \in Callers : call[c] = "idle"
    /\ iterator' = [iterator EXCEPT ![r] = "spawned"]
    /\ task' = [task EXCEPT ![r] = "running"]
    /\ UNCHANGED <<cancelled, producers, callVars, interrupted, appVars, importing>>

\* ...and only then hands it to SyncStorage.track and sets onTermination.
track(r) ==
    /\ iterator[r] = "spawned"
    /\ iterator' = [iterator EXCEPT ![r] = "tracked"]
    /\ producers' = producers \cup {r}
    /\ UNCHANGED <<task, cancelled, callVars, interrupted, appVars, importing>>

\* runSyncLoop returns, on its own or because it saw the cancellation.  Its
\* finish() runs onTermination, which interrupts the context.
ProducerEnds(r) ==
    /\ task[r] = "running"
    /\ task' = [task EXCEPT ![r] = "ended"]
    /\ interrupted' = (interrupted \/ iterator[r] = "tracked")
    /\ UNCHANGED <<iterator, cancelled, producers, callVars, appVars, importing>>

\* The consumer stops iterating: onTermination cancels and interrupts.
ConsumerStops(r) ==
    /\ iterator[r] = "tracked"
    /\ task[r] = "running"
    /\ ~cancelled[r]
    /\ cancelled' = [cancelled EXCEPT ![r] = TRUE]
    /\ interrupted' = TRUE
    /\ UNCHANGED <<iterator, task, producers, callVars, appVars, importing>>

-----------------------------------------------------------------------------
(* shutdown(). *)

\* Mutant: the drained producers are forgotten before they are awaited.
drainLosesProducers(c) ==
    /\ appHolds
    /\ call[c] = "idle"
    /\ ConcurrentIterators \/ \A r \in Runs : iterator[r] # "spawned"
    /\ mine' = [mine EXCEPT ![c] = {r \in producers : cancelled[r]}]
    /\ atCall' = [atCall EXCEPT ![c] = RunningProducers]
    /\ producers' = {}
    /\ call' = [call EXCEPT ![c] = "drained"]
    /\ UNCHANGED <<iterator, task, cancelled, interrupted, appVars, importing>>

\* drainProducers, and the early return when nothing was tracked.
drainProducers(c) ==
    /\ appHolds
    /\ call[c] = "idle"
    /\ ConcurrentIterators \/ \A r \in Runs : iterator[r] # "spawned"
    /\ mine' = [mine EXCEPT ![c] = producers]
    /\ atCall' = [atCall EXCEPT ![c] = RunningProducers]
    /\ producers' = {}
    /\ \/ producers = {} /\ call' = [call EXCEPT ![c] = "returned"]
       \/ producers # {} /\ call' = [call EXCEPT ![c] = "drained"]
    /\ UNCHANGED <<iterator, task, cancelled, interrupted, appVars, importing>>

\* Mutant: the context is interrupted but the tasks are not cancelled.
InterruptOnly(c) ==
    /\ call[c] = "drained"
    /\ call' = [call EXCEPT ![c] = "awaiting"]
    /\ interrupted' = TRUE
    /\ UNCHANGED <<runVars, mine, atCall, appVars, importing>>

\* Every drained producer is cancelled, and the context is interrupted.
CancelProducers(c) ==
    /\ call[c] = "drained"
    /\ call' = [call EXCEPT ![c] = "awaiting"]
    /\ cancelled' = [r \in Runs |-> cancelled[r] \/ r \in mine[c]]
    /\ interrupted' = TRUE
    /\ UNCHANGED <<iterator, task, producers, mine, atCall, appVars, importing>>

\* Mutant: shutdown() returns once one producer is done.
AwaitAnyProducer(c) ==
    /\ call[c] = "awaiting"
    /\ \E r \in mine[c] : task[r] = "ended"
    /\ call' = [call EXCEPT ![c] = "returned"]
    /\ UNCHANGED <<runVars, mine, atCall, interrupted, appVars, importing>>

\* shutdown() returns when every producer it drained has ended.
AwaitProducers(c) ==
    /\ call[c] = "awaiting"
    /\ \A r \in mine[c] : task[r] = "ended"
    /\ call' = [call EXCEPT ![c] = "returned"]
    /\ UNCHANGED <<runVars, mine, atCall, interrupted, appVars, importing>>

-----------------------------------------------------------------------------
(* The application. *)

\* After its shutdown() the owner drops the sync and the manager.
Release ==
    /\ call[Owner] = "returned"
    /\ appHolds
    /\ importing.state # "running"
    /\ appHolds' = FALSE
    /\ UNCHANGED <<runVars, callVars, interrupted, reopened, importing>>

\* ChainstateManager.init on the same directory, on the same context or on a
\* new one: btck_chainstate_manager_create fails on a locked database, and
\* loading the chainstate fails while the context is interrupted.
Reopen(sameContext) ==
    /\ ~appHolds
    /\ reopened = "no"
    /\ reopened' = IF Locked THEN "locked"
                   ELSE IF sameContext /\ interrupted THEN "interrupted"
                   ELSE "open"
    /\ UNCHANGED <<runVars, callVars, interrupted, appHolds, importing>>

\* importBlocks on the manager the sync uses.
importBlocks ==
    /\ appHolds
    /\ importing.state = "idle"
    /\ importing' = [state |-> "running", read |-> 0]
    /\ UNCHANGED <<runVars, callVars, interrupted, appVars>>

\* ImportBlocks reads a file, then leaves if the context is interrupted; the
\* C function answers 0 either way.
ImportFile ==
    /\ importing.state = "running"
    /\ LET n == importing.read + 1
       IN  importing' = [state |-> IF interrupted \/ n = Files THEN "true" ELSE "running",
                         read |-> n]
    /\ UNCHANGED <<runVars, callVars, interrupted, appVars>>

Done ==
    /\ reopened # "no"
    /\ UNCHANGED teardownVars

TeardownNext ==
    \/ \E r \in Runs : Spawn(r) \/ track(r) \/ ProducerEnds(r) \/ ConsumerStops(r)
    \/ \E c \in Callers : drainProducers(c) \/ CancelProducers(c) \/ AwaitProducers(c)
    \/ Release
    \/ \E sameContext \in BOOLEAN : Reopen(sameContext)
    \/ importBlocks
    \/ ImportFile
    \/ Done

TeardownSpec == TeardownInit /\ [][TeardownNext]_teardownVars

\* A cancelled producer runs into its next cancellation check, because requests
\* are answered and kernel calls return; calls of shutdown() keep running.
\* A producer nobody cancelled owes nothing.
TeardownFairSpec ==
    /\ TeardownSpec
    /\ \A r \in Runs : WF_teardownVars(cancelled[r] /\ ProducerEnds(r))
    /\ \A c \in Callers : WF_teardownVars(CancelProducers(c)) /\ WF_teardownVars(AwaitProducers(c))

-----------------------------------------------------------------------------
TeardownTypeOK ==
    /\ iterator \in [Runs -> {"none", "spawned", "tracked"}]
    /\ task \in [Runs -> {"none", "running", "ended"}]
    /\ cancelled \in [Runs -> BOOLEAN]
    /\ producers \in SUBSET Runs
    /\ call \in [Callers -> {"idle", "drained", "awaiting", "returned"}]
    /\ mine \in [Callers -> SUBSET Runs]
    /\ atCall \in [Callers -> SUBSET Runs]
    /\ interrupted \in BOOLEAN
    /\ appHolds \in BOOLEAN
    /\ reopened \in {"no", "locked", "interrupted", "open"}
    /\ importing \in [state : {"idle", "running", "true"}, read : 0 .. Files]

\* "producer is provably done" (shutdown): when a call returns, every producer
\* that was alive when it was made has ended.
ShutdownIsABarrier ==
    \A c \in Callers : call[c] = "returned" => atCall[c] \cap RunningProducers = {}

\* "safe to reopen" (shutdown): a data directory reopened after shutdown() and
\* after dropping the old manager is never still locked by it.
ReopenNeverLocked == reopened # "locked"

\* shutdown() returns: every producer it waits for has been told to stop.
ShutdownReturns == \A c \in Callers : InProgress(c) ~> call[c] = "returned"

=============================================================================
