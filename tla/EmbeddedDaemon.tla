--------------------------- MODULE EmbeddedDaemon ---------------------------
(***************************************************************************)
(* The life of the bitcoind embedded in the process: Daemon.start and      *)
(* waitUntilStopped with the flag and the semaphore they share, the        *)
(* thread that runs bitcoind_main once per start, and the direct RPC       *)
(* bridge (bitcoin_rpc.cpp) that keeps a pointer to the NodeContext of     *)
(* one of these runs.                                                      *)
(*                                                                         *)
(* The runs of bitcoind_main are numbered from 1; a NodeContext is the     *)
(* number of its run.  bitcoind_main itself is abstracted to its phases:   *)
(*   setup  the detached thread, before bitcoind_main                      *)
(*   init   AppInit, RPC not answering yet                                 *)
(*   rpc    answering requests                                             *)
(*   stop   Interrupt and Shutdown; HTTP workers finish their requests     *)
(*   gone   parts of the NodeContext are destroyed                         *)
(*   exit   bitcoind_main has returned                                     *)
(*   clear  isRunning is reset, finished not yet signalled                 *)
(*   end    the thread is over                                             *)
(***************************************************************************)
EXTENDS Integers, FiniteSets

CONSTANTS
    MaxStarts,   \* bound: runs of bitcoind_main
    Starters,    \* tasks that call Daemon.start
    Waiters,     \* tasks that call waitUntilStopped
    Bootstraps,  \* tasks that call Daemon.bootstrap
    Clients,     \* threads that call bitcoin_rpc
    Habits       \* where the application departs from the sequence in Daemon.swift

ASSUME DaemonAssumption ==
    /\ MaxStarts \in Nat
    /\ Habits \subseteq {"noReset",        \* stops without bitcoin_rpc_reset
                         "noJoin",         \* starts again without waitUntilStopped
                         "lateBootstrap",  \* bootstraps while shutting down
                         "inFlightCalls"}  \* resets while direct calls are running

VARIABLES
    isRunning,         \* the mutex-guarded flag
    finished,          \* value of the semaphore
    gen,               \* number of runs launched
    thread,            \* phase of every run
    starter,           \* where each call of start stands
    wait,              \* each waitUntilStopped: phase and the run it is meant for
    registered,        \* _bridge_init is in tableRPC
    socksInterrupted,  \* g_socks5_interrupt
    g_ready,
    g_node_ctx,        \* 0 is nullptr
    init,              \* where each _bridge_init handler stands
    call,              \* each bitcoin_rpc: phase and the context it loaded
    shutdown,          \* how far the application is with shutting the run down
    bootstrapped,      \* history: run for which bootstrap last returned
    habits             \* the departures of this application, {} for none

threadVars == <<isRunning, finished, gen, thread, registered, socksInterrupted>>
bridge == <<g_ready, g_node_ctx>>
vars == <<isRunning, finished, gen, thread, starter, wait, registered,
          socksInterrupted, g_ready, g_node_ctx, init, call, shutdown, bootstrapped>>

Gens == 1 .. MaxStarts
Phases == {"none", "setup", "init", "rpc", "stop", "gone", "exit", "clear", "end"}

InMain(g) == thread[g] \in {"setup", "init", "rpc", "stop", "gone"}
Serving == gen > 0 /\ thread[gen] = "rpc"

Init ==
    /\ isRunning = FALSE
    /\ finished = 0
    /\ gen = 0
    /\ thread = [g \in Gens |-> "none"]
    /\ starter = [s \in Starters |-> "idle"]
    /\ wait = [w \in Waiters |-> [phase |-> "idle", gen |-> 0]]
    /\ registered = FALSE
    /\ socksInterrupted = FALSE
    /\ g_ready = FALSE
    /\ g_node_ctx = 0
    /\ init = [b \in Bootstraps |-> "idle"]
    /\ call = [c \in Clients |-> [phase |-> "idle", ctx |-> 0]]
    /\ shutdown = "no"
    /\ bootstrapped = 0
    /\ habits \in {{}, Habits}

-----------------------------------------------------------------------------
(* Daemon.start and waitUntilStopped. *)

Joined == gen = 0 \/ \E w \in Waiters : wait[w] = [phase |-> "returned", gen |-> gen]

\* Mutant: start does not look at the flag.
StartUnguarded(s) ==
    /\ starter[s] = "idle"
    /\ gen < MaxStarts
    /\ Joined \/ "noJoin" \in habits
    /\ isRunning' = TRUE
    /\ starter' = [starter EXCEPT ![s] = "claimed"]
    /\ UNCHANGED <<finished, gen, thread, wait, registered, socksInterrupted, bridge,
                   init, call, shutdown, bootstrapped>>

\* start takes the flag; while it is taken, start returns without effect.
Start(s) ==
    /\ starter[s] = "idle"
    /\ gen < MaxStarts
    /\ Joined \/ "noJoin" \in habits
    /\ ~isRunning
    /\ isRunning' = TRUE
    /\ starter' = [starter EXCEPT ![s] = "claimed"]
    /\ UNCHANGED <<finished, gen, thread, wait, registered, socksInterrupted, bridge,
                   init, call, shutdown, bootstrapped>>

\* One turn of the loop that drains the semaphore.
Drain(s) ==
    /\ starter[s] = "claimed"
    /\ finished > 0
    /\ finished' = finished - 1
    /\ UNCHANGED <<isRunning, gen, thread, starter, wait, registered, socksInterrupted,
                   bridge, init, call, shutdown, bootstrapped>>

\* Mutant: the semaphore is signalled when start returns.
LaunchSignals(s) ==
    /\ starter[s] = "claimed"
    /\ finished = 0
    /\ gen < MaxStarts
    /\ finished' = 1
    /\ gen' = gen + 1
    /\ thread' = [thread EXCEPT ![gen + 1] = "setup"]
    /\ starter' = [starter EXCEPT ![s] = "idle"]
    /\ shutdown' = "no"
    /\ UNCHANGED <<isRunning, wait, registered, socksInterrupted, bridge, init, call,
                   bootstrapped>>

\* The semaphore is found empty and the thread is detached.
Launch(s) ==
    /\ starter[s] = "claimed"
    /\ finished = 0
    /\ gen < MaxStarts
    /\ gen' = gen + 1
    /\ thread' = [thread EXCEPT ![gen + 1] = "setup"]
    /\ starter' = [starter EXCEPT ![s] = "idle"]
    /\ shutdown' = "no"
    /\ UNCHANGED <<isRunning, finished, wait, registered, socksInterrupted, bridge, init,
                   call, bootstrapped>>

\* waitUntilStopped is called for the latest run.
WaitUntilStopped(w) ==
    /\ gen > 0
    /\ wait[w].phase # "waiting"
    /\ wait[w].gen # gen
    /\ wait' = [wait EXCEPT ![w] = [phase |-> "waiting", gen |-> gen]]
    /\ UNCHANGED <<threadVars, starter, bridge, init, call, shutdown, bootstrapped>>

\* Mutant: a woken waiter passes the signal on and waits again.
WaitPassesOn(w) ==
    /\ wait[w].phase = "waiting"
    /\ finished > 0
    /\ UNCHANGED vars

\* finished.wait() returns.
WaitReturns(w) ==
    /\ wait[w].phase = "waiting"
    /\ finished > 0
    /\ finished' = finished - 1
    /\ wait' = [wait EXCEPT ![w].phase = "returned"]
    /\ UNCHANGED <<isRunning, gen, thread, starter, registered, socksInterrupted, bridge,
                   init, call, shutdown, bootstrapped>>

-----------------------------------------------------------------------------
(* The daemon thread. *)

Move(g, from, to) ==
    /\ thread[g] = from
    /\ thread' = [thread EXCEPT ![g] = to]
    /\ UNCHANGED <<gen, starter, wait, bridge, init, call, shutdown, bootstrapped>>

\* Mutant: the SOCKS5 flag is left as the last run set it.
SetUpKeepsSocks(g) ==
    /\ Move(g, "setup", "init")
    /\ registered' = TRUE
    /\ UNCHANGED <<isRunning, finished, socksInterrupted>>

\* bitcoin_socks_reset and bitcoin_rpc_register, then bitcoind_main.
SetUp(g) ==
    /\ Move(g, "setup", "init")
    /\ socksInterrupted' = FALSE
    /\ registered' = TRUE
    /\ UNCHANGED <<isRunning, finished>>

\* AppInit ends: the node serves, or start-up failed and shuts down at once;
\* bad arguments make bitcoind_main return before it.
AppInit(g) ==
    \/ /\ Move(g, "init", "rpc")
       /\ UNCHANGED <<isRunning, finished, registered, socksInterrupted>>
    \/ /\ Move(g, "init", "exit")
       /\ UNCHANGED <<isRunning, finished, registered, socksInterrupted>>
    \/ /\ Move(g, "init", "stop")
       /\ socksInterrupted' = TRUE
       /\ UNCHANGED <<isRunning, finished, registered>>

\* The application's stop RPC: Interrupt and Shutdown begin.
Stop(g) ==
    /\ g = gen
    /\ shutdown = "reset" \/ "noReset" \in habits
    /\ Move(g, "rpc", "stop")
    /\ socksInterrupted' = TRUE
    /\ UNCHANGED <<isRunning, finished, registered>>

\* Shutdown has joined the HTTP workers and destroys the node; it does not
\* know of direct calls.
Destroy(g) ==
    /\ \A b \in Bootstraps : init[b] = "idle"
    /\ Move(g, "stop", "gone")
    /\ UNCHANGED <<isRunning, finished, registered, socksInterrupted>>

MainReturns(g) ==
    /\ Move(g, "gone", "exit")
    /\ UNCHANGED <<isRunning, finished, registered, socksInterrupted>>

ClearRunning(g) ==
    /\ Move(g, "exit", "clear")
    /\ isRunning' = FALSE
    /\ UNCHANGED <<finished, registered, socksInterrupted>>

Signal(g) ==
    /\ Move(g, "clear", "end")
    /\ finished' = finished + 1
    /\ UNCHANGED <<isRunning, registered, socksInterrupted>>

ThreadStep(g) ==
    SetUp(g) \/ AppInit(g) \/ Destroy(g) \/ MainReturns(g) \/ ClearRunning(g) \/ Signal(g)

-----------------------------------------------------------------------------
(* The bridge.  The loads and stores of its two atomics are steps of their *)
(* own.                                                                    *)

\* Mutant: the bridge is declared ready before the context is stored.
BridgeInitPublishesFirst(b) ==
    /\ Serving /\ registered
    /\ init[b] = "idle"
    /\ shutdown = "no" \/ "lateBootstrap" \in habits
    /\ init' = [init EXCEPT ![b] = "store"]
    /\ g_ready' = TRUE
    /\ UNCHANGED <<threadVars, starter, wait, g_node_ctx, call, shutdown, bootstrapped>>

\* bootstrap reaches the running node: _bridge_init looks at g_ready, and
\* answers at once when it is set.
BridgeInit(b) ==
    /\ Serving /\ registered
    /\ init[b] = "idle"
    /\ shutdown = "no" \/ "lateBootstrap" \in habits
    /\ \/ g_ready /\ bootstrapped' = gen /\ UNCHANGED init
       \/ ~g_ready /\ init' = [init EXCEPT ![b] = "store"] /\ UNCHANGED bootstrapped
    /\ UNCHANGED <<threadVars, starter, wait, bridge, call, shutdown>>

BridgeStore(b) ==
    /\ init[b] = "store"
    /\ init' = [init EXCEPT ![b] = "publish"]
    /\ g_node_ctx' = gen
    /\ UNCHANGED <<threadVars, starter, wait, g_ready, call, shutdown, bootstrapped>>

BridgePublish(b) ==
    /\ init[b] = "publish"
    /\ init' = [init EXCEPT ![b] = "idle"]
    /\ g_ready' = TRUE
    /\ bootstrapped' = gen
    /\ UNCHANGED <<threadVars, starter, wait, g_node_ctx, call, shutdown>>

\* Mutant: the reset leaves the ready flag set.
ResetKeepsReady ==
    /\ Serving
    /\ shutdown = "no"
    /\ (\A b \in Bootstraps : init[b] = "idle") \/ "lateBootstrap" \in habits
    /\ (\A c \in Clients : call[c].phase = "idle") \/ "inFlightCalls" \in habits
    /\ shutdown' = "resetting"
    /\ UNCHANGED <<threadVars, starter, wait, bridge, init, call, bootstrapped>>

\* bitcoin_rpc_reset, called before the stop RPC: first store...
ResetReady ==
    /\ Serving
    /\ shutdown = "no"
    /\ (\A b \in Bootstraps : init[b] = "idle") \/ "lateBootstrap" \in habits
    /\ (\A c \in Clients : call[c].phase = "idle") \/ "inFlightCalls" \in habits
    /\ shutdown' = "resetting"
    /\ g_ready' = FALSE
    /\ UNCHANGED <<threadVars, starter, wait, g_node_ctx, init, call, bootstrapped>>

\* ...and second.
ResetContext ==
    /\ shutdown = "resetting"
    /\ shutdown' = "reset"
    /\ g_node_ctx' = 0
    /\ UNCHANGED <<threadVars, starter, wait, g_ready, init, call, bootstrapped>>

\* Mutant: bitcoin_rpc goes by the pointer alone.
CallIgnoresReady(c) ==
    /\ call[c].phase = "idle"
    /\ call' = [call EXCEPT ![c].phase = "checked"]
    /\ UNCHANGED <<threadVars, starter, wait, bridge, init, shutdown, bootstrapped>>

\* bitcoin_rpc: a closed gate answers NULL at once...
Call(c) ==
    /\ call[c].phase = "idle"
    /\ g_ready
    /\ call' = [call EXCEPT ![c].phase = "checked"]
    /\ UNCHANGED <<threadVars, starter, wait, bridge, init, shutdown, bootstrapped>>

\* ...and so does a null context; otherwise the RPC is executed on it.
CallLoad(c) ==
    /\ call[c].phase = "checked"
    /\ call' = [call EXCEPT ![c] = IF g_node_ctx = 0 THEN [phase |-> "idle", ctx |-> 0]
                                   ELSE [phase |-> "executing", ctx |-> g_node_ctx]]
    /\ UNCHANGED <<threadVars, starter, wait, bridge, init, shutdown, bootstrapped>>

CallReturns(c) ==
    /\ call[c].phase = "executing"
    /\ call' = [call EXCEPT ![c] = [phase |-> "idle", ctx |-> 0]]
    /\ UNCHANGED <<threadVars, starter, wait, bridge, init, shutdown, bootstrapped>>

\* The last run is over and everybody who waits has been served.
Done ==
    /\ gen = MaxStarts
    /\ \A g \in Gens : thread[g] = "end"
    /\ UNCHANGED vars

Next ==
    /\ \/ \E s \in Starters : Start(s) \/ Drain(s) \/ Launch(s)
       \/ \E w \in Waiters : WaitUntilStopped(w) \/ WaitReturns(w)
       \/ \E g \in Gens : ThreadStep(g) \/ Stop(g)
       \/ \E b \in Bootstraps : BridgeInit(b) \/ BridgeStore(b) \/ BridgePublish(b)
       \/ ResetReady
       \/ ResetContext
       \/ \E c \in Clients : Call(c) \/ CallLoad(c) \/ CallReturns(c)
       \/ Done
    /\ UNCHANGED habits

Spec == Init /\ [][Next]_<<vars, habits>>

\* Threads keep running: the daemon's, the starters', the handlers', and a
\* waiter the semaphore wakes.  Nobody is obliged to start, stop or wait, and a
\* direct call may block for ever.
FairSpec ==
    /\ Spec
    /\ \A s \in Starters : WF_vars(Drain(s) \/ Launch(s))
    /\ \A w \in Waiters : WF_vars(WaitReturns(w))
    /\ \A g \in Gens : WF_vars(ThreadStep(g))
    /\ \A b \in Bootstraps : WF_vars(BridgeStore(b) \/ BridgePublish(b))

-----------------------------------------------------------------------------
TypeOK ==
    /\ isRunning \in BOOLEAN
    /\ finished \in Nat
    /\ gen \in 0 .. MaxStarts
    /\ thread \in [Gens -> Phases]
    /\ starter \in [Starters -> {"idle", "claimed"}]
    /\ wait \in [Waiters -> [phase : {"idle", "waiting", "returned"}, gen : 0 .. MaxStarts]]
    /\ registered \in BOOLEAN
    /\ socksInterrupted \in BOOLEAN
    /\ g_ready \in BOOLEAN
    /\ g_node_ctx \in 0 .. MaxStarts
    /\ init \in [Bootstraps -> {"idle", "store", "publish"}]
    /\ call \in [Clients -> [phase : {"idle", "checked", "executing"}, ctx : 0 .. MaxStarts]]
    /\ shutdown \in {"no", "resetting", "reset"}
    /\ bootstrapped \in 0 .. MaxStarts
    /\ habits \in {{}, Habits}

\* "One daemon runs per process" (startAndConnect): two runs of bitcoind_main
\* never overlap, however calls of start race with each other and with the end
\* of the previous run.
OneInstance == \A g, h \in Gens : InMain(g) /\ InMain(h) => g = h

\* A run never starts up or serves with the SOCKS5 interrupt of the run before
\* (bitcoin_socks_reset).
SocksUsable ==
    \A g \in Gens : thread[g] \in {"init", "rpc"} => ~socksInterrupted

\* waitUntilStopped blocks "until bitcoind_main() has fully returned": when it
\* returns, the run it was called for has, if every run is joined before the
\* next start.
JoinMeansStopped ==
    habits = {} => \A w \in Waiters :
        wait[w].phase = "returned" => thread[wait[w].gen] \in {"exit", "clear", "end"}

\* The open bridge always leads to the node that is serving, in every run of an
\* application that keeps to the sequence.
BridgeServesLiveNode ==
    habits = {} /\ g_ready => Serving /\ g_node_ctx = gen

\* Direct calls never touch a half-destroyed NodeContext (bitcoin_rpc_reset), if
\* the application lets them return before it resets.
NoTornDownContext ==
    habits = {} => \A c \in Clients :
        call[c].phase = "executing" => thread[call[c].ctx] \in {"rpc", "stop"}

\* waitUntilStopped returns once the run it was called for is over.
JoinReturns ==
    \A w \in Waiters : \A g \in Gens :
        habits = {} /\ wait[w] = [phase |-> "waiting", gen |-> g] /\ thread[g] = "end"
            ~> wait[w].phase = "returned"

\* bootstrap: "after this method returns", RPCs are routed through the direct
\* bridge, that is to the node that was bootstrapped, in every run and until
\* the application closes the gate.
BootstrapMeansDirect ==
    habits = {} /\ bootstrapped = gen /\ Serving /\ shutdown = "no" => g_ready /\ g_node_ctx = gen

=============================================================================
