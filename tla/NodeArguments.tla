---------------------------- MODULE NodeArguments ----------------------------
(***************************************************************************)
(* What bitcoind makes of its command line: ArgsManager, the interaction   *)
(* of parameters, the errors that end the initialisation, and the address, *)
(* cookie and filter types of the server.                                  *)
(*                                                                         *)
(* a is a sequence of arguments in the order of the command line.  There   *)
(* is no configuration file.                                               *)
(***************************************************************************)
EXTENDS Sequences, FiniteSetsExt

\* Where the option stands on the command line.
Given(a, key) == {i \in DOMAIN a : a[i].key = key}

IsArgSet(a, key) == Given(a, key) # {}

\* The values of the option.  Of their order only the first and the last matter.
GetArgs(a, key) == {a[i].value : i \in Given(a, key)}

\* The last value on the command line counts.
GetArg(a, key, default) == IF IsArgSet(a, key) THEN a[Max(Given(a, key))].value ELSE default

\* An option without a value is on; so is every number but 0.
InterpretBool(value) == value # "0"

GetBoolArg(a, key, default) ==
    IF IsArgSet(a, key) THEN InterpretBool(GetArg(a, key, "0")) ELSE default

SoftSet(a, key, value) ==
    IF IsArgSet(a, key) THEN a ELSE Append(a, [key |-> key, value |-> value])

-----------------------------------------------------------------------------
\* Options the builder writes that SetupServerArgs no longer registers.
Unregistered == {"blockmaxsize", "rpcserialversion"}

ParseParametersFails(a) ==
    \E i \in DOMAIN a : a[i].key \in Unregistered \cup {"includeconf"}

\* ParseArgs fails: on a parameter, or on a data directory that does not exist.
ParseFails(a) == ParseParametersFails(a) \/ GetArg(a, "datadir", "default") = "absent"

\* The parameter interactions, as far as they reach an option that is checked.
Interact(a) ==
    LET server == SoftSet(a, "server", "1")
        bound == IF IsArgSet(a, "bind") THEN SoftSet(server, "listen", "1") ELSE server
        closed == IF \/ IsArgSet(a, "connect") \/ IsArgSet(a, "proxy")
                     \/ GetArg(a, "maxconnections", "125") = "0"
                  THEN SoftSet(bound, "listen", "0")
                  ELSE bound
    IN  IF GetBoolArg(closed, "listen", TRUE) THEN closed ELSE SoftSet(closed, "listenonion", "0")

\* g_enabled_filter_types after -blockfilterindex was read, if it was on before.
\* The names are inserted up to the first that is not the name of a type.
FilterTypes(a, on) ==
    LET value == GetArg(a, "blockfilterindex", "0")
    IN  CASE value = "0" -> on
          [] value = "1" -> {"basic"}
          [] OTHER -> on \cup ({a[Min(Given(a, "blockfilterindex"))].value} \cap {"basic"})

UnknownFilterType(a) ==
    /\ GetArg(a, "blockfilterindex", "0") \notin {"0", "1"}
    /\ GetArgs(a, "blockfilterindex") # {"basic"}

FiltersWithoutIndex(a, on) ==
    GetBoolArg(a, "peerblockfilters", FALSE) /\ "basic" \notin FilterTypes(a, on)

PruneWith(a, key) == GetArg(a, "prune", "0") # "0" /\ GetBoolArg(a, key, FALSE)

NotListening(a) ==
    /\ ~GetBoolArg(a, "listen", TRUE)
    /\ IsArgSet(a, "bind") \/ GetBoolArg(a, "listenonion", TRUE)

\* AppInitParameterInteraction fails, with a as Interact leaves it.
ParametersRefused(a, on) ==
    \/ UnknownFilterType(a)
    \/ FiltersWithoutIndex(a, on)
    \/ \E key \in {"txindex", "txospenderindex", "reindex-chainstate"} : PruneWith(a, key)
    \/ NotListening(a)

\* AppInit forks and the process that called it exits.
Daemonizes(a) == GetBoolArg(a, "daemon", FALSE)

Serves(a) == GetBoolArg(a, "server", FALSE)

\* AppInitMain fails on a port or on starting the server.
ServerRefused(a) ==
    \/ GetArg(a, "rpcport", "default") = "0"
    \/ Serves(a) /\ GetArg(a, "rpccookieperms", "owner") \notin {"owner", "group", "all"}

-----------------------------------------------------------------------------
Chain(a) ==
    CASE IsArgSet(a, "regtest") -> "regtest" [] IsArgSet(a, "signet") -> "signet"
      [] IsArgSet(a, "testnet") -> "test" [] IsArgSet(a, "testnet4") -> "testnet4"
      [] OTHER -> "main"

\* Directory and RPC port of a chain.
BaseParams(chain) ==
    CASE chain = "main" -> [dir |-> "", port |-> "8332"]
      [] chain = "test" -> [dir |-> "testnet3", port |-> "18332"]
      [] chain = "testnet4" -> [dir |-> "testnet4", port |-> "48332"]
      [] chain = "signet" -> [dir |-> "signet", port |-> "38332"]
      [] chain = "regtest" -> [dir |-> "regtest", port |-> "18443"]

HTTPPort(a) == GetArg(a, "rpcport", BaseParams(Chain(a)).port)

\* Addresses the server is bound to.
HTTPAddresses(a) ==
    IF IsArgSet(a, "rpcallowip") /\ IsArgSet(a, "rpcbind")
    THEN GetArgs(a, "rpcbind")
    ELSE {"127.0.0.1", "::1"}

\* A path the application gives is absolute.
AuthCookieFile(a) ==
    IF IsArgSet(a, "rpccookiefile")
    THEN <<GetArg(a, "rpccookiefile", "default")>>
    ELSE <<GetArg(a, "datadir", "default"), BaseParams(Chain(a)).dir, ".cookie">>

\* The user of the cookie may call any method; -rpcwhitelist names other users.
CookieUserAllowed(a) == ~GetBoolArg(a, "rpcwhitelistdefault", IsArgSet(a, "rpcwhitelist"))

=============================================================================
