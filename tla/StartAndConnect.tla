--------------------------- MODULE StartAndConnect ---------------------------
(***************************************************************************)
(* Daemon.startAndConnect(with:) from the first builder method to the      *)
(* client or the error, and again after the node has been stopped, in one  *)
(* process.  The caller builds a configuration; the call validates it,     *)
(* starts bitcoind on a thread of its own and polls for its server with an *)
(* address and a cookie that it derives from the configuration; bitcoind   *)
(* derives its own from the arguments.                                     *)
(*                                                                         *)
(* Two globals of bitcoind outlive a run: the registered arguments and the *)
(* enabled filter types.                                                   *)
(***************************************************************************)
EXTENDS BitcoinConfig, NodeArguments, DaemonPoll

CONSTANTS
    MaxCalls,    \* bound: builder methods called on a configuration, by network
    MaxRuns      \* bound: calls of startAndConnect

ASSUME ConnectAssumption ==
    /\ MaxCalls \in [Networks -> Nat]
    /\ MaxRuns \in Nat

VARIABLES
    config,           \* the configuration being built
    calls,            \* builder methods called on it
    stage,            \* build, call, or gone: the process has ended
    runs,             \* calls of startAndConnect
    node,             \* the bitcoind of this call
    available,        \* m_available_args is not empty
    filters,          \* g_enabled_filter_types
    failedToParse,    \* history: ParseArgs failed in some run
    filtered          \* history: some earlier run enabled a filter type

pollVars == <<now, pc, delay, lastError, since, hit, upAt, cancelAt, outcome>>
globals == <<available, filters>>
history == <<failedToParse, filtered>>
connectVars == <<config, calls, stage, runs, node, globals, history, pollVars>>

\* A new configuration, with or without a data directory.
FirstConfigs ==
    LET new == {NewConfig(n) : n \in Networks}
    IN  new \cup {Call(c, Argument("datadir", "d1")) : c \in new}

NoNode ==
    [state |-> "none", fate |-> "none", fresh |-> "none", filters |-> {}, serves |-> FALSE,
     obstacles |-> {}, upSince |-> -1]

ConnectInit ==
    /\ Init
    /\ config \in FirstConfigs
    /\ calls = 0
    /\ stage = "build"
    /\ runs = 0
    /\ node = NoNode
    /\ available = FALSE
    /\ filters = {}
    /\ failedToParse = FALSE
    /\ filtered = FALSE

-----------------------------------------------------------------------------
Build ==
    /\ stage = "build"
    /\ calls < MaxCalls[config.network]
    /\ calls' = calls + 1
    /\ \E m \in Methods : config' = Call(config, m)
    /\ UNCHANGED <<stage, runs, node, globals, history, pollVars>>

\* What bitcoind_main does with the arguments a, if the registered arguments are
\* not empty (registered) and the filter types are on.
Fate(a, registered, on) ==
    LET stages ==
            <<<<registered, "aborts">>,
              <<ParseFails(a), "unparsed">>,
              <<ParametersRefused(Interact(a), on), "refused">>,
              <<Daemonizes(a), "forks">>,
              <<ServerRefused(Interact(a)), "refused">>,
              <<TRUE, "runs">>>>
    IN  SelectSeq(stages, LAMBDA s : s[1])[1][2]

\* Why the client, which asks 127.0.0.1, gets no answer from a node that serves.
Obstacles(c) ==
    {o \in {"port", "cookie", "rpccookiefile", "address", "user"} :
        CASE o = "port" -> resolvedRPCPort(c) # HTTPPort(c.args)
          [] o = "cookie" ->
                cookieURL(c) # AuthCookieFile(c.args) /\ ~IsArgSet(c.args, "rpccookiefile")
          [] o = "rpccookiefile" ->
                cookieURL(c) # AuthCookieFile(c.args) /\ IsArgSet(c.args, "rpccookiefile")
          [] o = "address" -> {"127.0.0.1", "0.0.0.0"} \cap HTTPAddresses(c.args) = {}
          [] o = "user" -> ~CookieUserAllowed(c.args)}

\* startAndConnect throws before it starts anything.
CallThrows ==
    /\ stage = "build" /\ runs < MaxRuns
    /\ config.dataDirectory = {} \/ ConfigErrors(config) # {}
    /\ stage' = "call"
    /\ runs' = runs + 1
    /\ config' = NewConfig(config.network)
    /\ calls' = 0
    /\ pc' = "done"
    /\ outcome' = IF config.dataDirectory = {} THEN "missingDataDirectory" ELSE "ConfigError"
    /\ UNCHANGED <<node, globals, history, now, delay, lastError, since, hit, upAt, cancelAt>>

\* startAndConnect up to the first iteration of poll.  What the thread of bitcoind
\* will come to is decided by the arguments and the globals, which only it changes.
CallStarts ==
    /\ stage = "build" /\ runs < MaxRuns
    /\ config.dataDirectory # {} /\ ConfigErrors(config) = {}
    /\ stage' = "call"
    /\ runs' = runs + 1
    /\ config' = NewConfig(config.network)
    /\ calls' = 0
    /\ node' =
        [state |-> "starting",
         fate |-> Fate(config.args, available, filters),
         fresh |-> Fate(config.args, FALSE, {}),
         filters |-> FilterTypes(config.args, filters),
         serves |-> Serves(Interact(config.args)),
         obstacles |-> Obstacles(config),
         upSince |-> -1]
    /\ UNCHANGED <<globals, history, pollVars>>

-----------------------------------------------------------------------------
\* The iterations of poll, against a server that Initialise may bring up.
Poll ==
    /\ stage = "call"
    /\ Loop \/ AttemptSucceeds \/ AttemptFails \/ Wake \/ Cancel \/ Tick
    /\ UNCHANGED <<config, calls, stage, runs, node, globals, history>>

\* SetupServerArgs asserts that an argument is new; AppInit, when told to run as
\* a daemon, exits the process it was called in.
ProcessEnds ==
    /\ stage = "call" /\ node.state = "starting"
    /\ node.fate \in {"aborts", "forks"}
    /\ stage' = "gone"
    /\ UNCHANGED <<config, calls, runs, node, globals, history, pollVars>>

\* bitcoind_main returns from ParseArgs, past Shutdown.
ParseArgsFails ==
    /\ stage = "call" /\ node.state = "starting"
    /\ node.fate = "unparsed"
    /\ node' = [node EXCEPT !.state = "down"]
    /\ available' = TRUE
    /\ failedToParse' = TRUE
    /\ UNCHANGED <<config, calls, stage, runs, filters, filtered, pollVars>>

\* Shutdown clears the arguments.
AppInitFails ==
    /\ stage = "call" /\ node.state = "starting"
    /\ node.fate = "refused"
    /\ node' = [node EXCEPT !.state = "down"]
    /\ available' = FALSE
    /\ filters' = node.filters
    /\ filtered' = (filtered \/ node.filters # {})
    /\ UNCHANGED <<config, calls, stage, runs, failedToParse, pollVars>>

\* The initialisation ends: the server, if there is one, has left its warm-up.
Initialised ==
    /\ stage = "call" /\ node.state = "starting"
    /\ node.fate = "runs"
    /\ node' = [node EXCEPT !.state = "up", !.upSince = now]
    /\ available' = TRUE
    /\ filters' = node.filters
    /\ filtered' = (filtered \/ node.filters # {})
    /\ upAt' = IF pc # "done" /\ node.serves /\ node.obstacles = {} THEN now ELSE upAt
    /\ UNCHANGED <<config, calls, stage, runs, failedToParse,
                   now, pc, delay, lastError, since, hit, cancelAt, outcome>>

\* A new call in the same process.
Reset ==
    /\ stage' = "build"
    /\ config' \in FirstConfigs
    /\ node' = NoNode
    /\ now' = 0 /\ pc' = "loop" /\ delay' = InitialDelay /\ lastError' = FALSE /\ since' = 0
    /\ hit' = FALSE /\ upAt' = -1 /\ cancelAt' = -1 /\ outcome' = "none"
    /\ UNCHANGED <<calls, runs, filters, history>>

\* Mutant: Shutdown does not clear the arguments.
StopKeepsArgs ==
    /\ stage = "call" /\ pc = "done" /\ runs < MaxRuns
    /\ node.state # "starting"
    /\ UNCHANGED available
    /\ Reset

\* The stop RPC, which ends in Shutdown, if the node runs; waitUntilStopped(); and
\* a new configuration.
Stop ==
    /\ stage = "call" /\ pc = "done" /\ runs < MaxRuns
    /\ node.state # "starting"
    /\ available' = IF node.state = "up" THEN FALSE ELSE available
    /\ Reset

ConnectDone ==
    /\ \/ stage = "gone"
       \/ stage = "call" /\ pc = "done" /\ node.state # "starting" /\ runs = MaxRuns
    /\ UNCHANGED connectVars

ConnectNext ==
    \/ Build \/ CallThrows \/ CallStarts \/ Poll
    \/ ProcessEnds \/ ParseArgsFails \/ AppInitFails \/ Initialised
    \/ Stop \/ ConnectDone

ConnectSpec == ConnectInit /\ [][ConnectNext]_connectVars

-----------------------------------------------------------------------------
Twice(key) == \E i, j \in Given(config.args, key) : i # j

\* validate() "for cross-field conflicts" against bitcoind's own checks of the
\* arguments.  It throws for every conflict of -txindex with automatic pruning and,
\* unless -blockfilterindex is given twice, for every missing filter index.  What
\* it throws for is refused by bitcoind, unless an option was changed by a later
\* call or the filter index is .basic.  Without a warning every -rpcbind address
\* is bound, and options of the server are given only to a node that serves.
ConflictsCaught ==
    LET a == Interact(config.args)
        errors == ConfigErrors(config)
        warnings == ConfigWarnings(config)
    IN  /\ PruneWith(a, "txindex") /\ GetArg(a, "prune", "0") # "1" => "txIndexWithPrune" \in errors
        /\ FiltersWithoutIndex(a, {}) =>
              "peerBlockFiltersWithoutIndex" \in errors \/ Twice("blockfilterindex")
        /\ "txIndexWithPrune" \in errors =>
              PruneWith(a, "txindex") \/ Twice("txindex") \/ Twice("prune")
        /\ "peerBlockFiltersWithoutIndex" \in errors =>
              \/ FiltersWithoutIndex(a, {})
              \/ GetArg(a, "blockfilterindex", "0") = "basic"
              \/ Twice("peerblockfilters")
        /\ "rpcBindWithoutAllowIP" \notin warnings => GetArgs(a, "rpcbind") \subseteq HTTPAddresses(a)
        /\ ~Serves(a) /\ (\E key \in {"rpcbind", "rpcallowip", "rpcauth", "rpccookiefile"} : IsArgSet(a, key)) =>
              "serverDisabledWithRPCOptions" \in warnings \/ Twice("server")

\* "deriving the endpoint and cookie credentials from the config": if the node has
\* been serving early enough, an uncancelled call fails only because the caller put
\* the cookie elsewhere, bound the server away from 127.0.0.1 or allowed the user
\* of the cookie nothing.  Port, directory and network are never the reason.
TimeoutExplained ==
    /\ outcome \in {"lastError", "timedOut"} /\ ~Cancelled
    /\ node.serves /\ node.upSince >= 0
    /\ node.upSince + AttemptBound + MaxDelay + MaxLateness < Timeout
    => node.obstacles \cap {"rpccookiefile", "address", "user"} # {}

\* "Reset global state so that bitcoind_main() can be called again within the same
\* process": a restarted node comes to what it would come to in a new process,
\* unless ParseArgs failed in an earlier run or an earlier run had
\* enabled a filter type.
RestartLikeFresh ==
    node.state = "starting" => node.fate = node.fresh \/ failedToParse \/ filtered

=============================================================================
