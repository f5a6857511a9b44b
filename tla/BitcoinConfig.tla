---------------------------- MODULE BitcoinConfig ----------------------------
(***************************************************************************)
(* BitcoinConfig, the fluent builder of bitcoind's command line, its       *)
(* validate(), and the addresses a client derives from it.                 *)
(*                                                                         *)
(* A configuration is a value; a builder method appends one argument and   *)
(* may insert a flag, which validate() looks at.  bitcoind looks at the    *)
(* arguments: at the last one of an option, or at all of them.             *)
(*                                                                         *)
(* Options that neither validate() nor a modelled check of bitcoind reads  *)
(* are left out.  An optional value is a set of at most one element.       *)
(***************************************************************************)
EXTENDS Sequences

Networks == {"Mainnet", "Testnet", "Testnet4", "Regtest", "Signet"}

\* The option that N.flag switches on; Mainnet has none.
flag ==
    [n \in Networks \ {"Mainnet"} |->
        CASE n = "Testnet" -> "testnet" [] n = "Testnet4" -> "testnet4"
          [] n = "Regtest" -> "regtest" [] n = "Signet" -> "signet"]

defaultRPCPort ==
    [n \in Networks |->
        CASE n = "Mainnet" -> "8332" [] n = "Testnet" -> "18332" [] n = "Testnet4" -> "48332"
          [] n = "Regtest" -> "18443" [] n = "Signet" -> "38332"]

dataDirName ==
    [n \in Networks |->
        CASE n = "Mainnet" -> "" [] n = "Testnet" -> "testnet3" [] n = "Testnet4" -> "testnet4"
          [] n = "Regtest" -> "regtest" [] n = "Signet" -> "signet"]

Argument(key, value) == [key |-> key, value |-> value]

\* The static factories.
NewConfig(n) ==
    [network |-> n,
     args |-> IF n = "Mainnet" THEN <<>> ELSE <<Argument(flag[n], "")>>,
     flags |-> {},
     dataDirectory |-> {},
     rpcPortOverride |-> {}]

-----------------------------------------------------------------------------
(* The builder methods, file by file: the key and value each may append.    *)

Switch(keys) == [key : keys, value : {"0", "1"}]

CoreMethods ==
    Switch({"server", "daemon", "txindex", "coinstatsindex", "txospenderindex", "blocksonly"})
        \cup [key : {"datadir"}, value : {"d1", "d2", "absent"}]
        \cup [key : {"prune"}, value : {"0", "1", "550"}]
        \cup [key : {"blockfilterindex"}, value : {"0", "1", "basic"}]
        \cup [key : {"maxmempool"}, value : {"50"}]
        \cup [key : {"reindex-chainstate"}, value : {""}]
        \cup [key : {"includeconf"}, value : {"file"}]

RPCMethods ==
    Switch({"rpcwhitelistdefault"})
        \cup [key : {"rpcbind"}, value : {"127.0.0.1", "0.0.0.0", "::1"}]
        \cup [key : {"rpcallowip"}, value : {"127.0.0.1"}]
        \cup [key : {"rpcport"}, value : {"0", "9000"}]
        \cup [key : {"rpcauth", "rpcwhitelist"}, value : {"user"}]
        \cup [key : {"rpccookiefile"}, value : {"file"}]
        \cup [key : {"rpccookieperms"}, value : {"owner", "0600"}]
        \cup [key : {"rpcserialversion"}, value : {"1"}]

NetworkMethods ==
    Switch({"listen", "listenonion", "peerblockfilters"})
        \cup [key : {"bind", "connect", "proxy"}, value : {"host"}]
        \cup [key : {"maxconnections", "maxuploadtarget"}, value : {"0", "8"}]

MiningMethods == [key : {"blockmaxsize"}, value : {"1"}]

WalletMethods == Switch({"disablewallet"}) \cup [key : {"wallet"}, value : {"file"}]

Methods == CoreMethods \cup RPCMethods \cup NetworkMethods \cup MiningMethods \cup WalletMethods

\* Methods that insert a flag when they switch their option on, and always.
SwitchesFlagged ==
    {"server", "txindex", "coinstatsindex", "blocksonly", "listen", "peerblockfilters",
     "disablewallet", "blockfilterindex"}
AlwaysFlagged ==
    {"rpcbind", "rpcallowip", "rpcauth", "rpccookiefile", "connect", "maxmempool", "wallet"}

\* Mutant: any value of -blockfilterindex counts as .all.
FlagsOfAnyFilter(m) ==
    IF \/ m.key \in SwitchesFlagged /\ m.value = "1"
       \/ m.key \in AlwaysFlagged \cup {"blockfilterindex"}
       \/ m.key = "prune" /\ m.value \notin {"0", "1"}
       \/ m.key = "maxuploadtarget" /\ m.value # "0"
    THEN {m.key} ELSE {}

\* The ConfigFlags a method inserts, named after its option.  None is removed.
FlagsOf(m) ==
    IF \/ m.key \in SwitchesFlagged /\ m.value = "1"
       \/ m.key \in AlwaysFlagged
       \/ m.key = "prune" /\ m.value \notin {"0", "1"}
       \/ m.key = "maxuploadtarget" /\ m.value # "0"
    THEN {m.key} ELSE {}

\* Mutant: the first port and data directory stay.
CallKeepsFirst(c, m) ==
    [c EXCEPT !.args = Append(@, m),
              !.flags = @ \cup FlagsOf(m),
              !.dataDirectory = IF m.key = "datadir" /\ @ = {} THEN {m.value} ELSE @,
              !.rpcPortOverride = IF m.key = "rpcport" /\ @ = {} THEN {m.value} ELSE @]

\* One call of a builder method.
Call(c, m) ==
    [c EXCEPT !.args = Append(@, m),
              !.flags = @ \cup FlagsOf(m),
              !.dataDirectory = IF m.key = "datadir" THEN {m.value} ELSE @,
              !.rpcPortOverride = IF m.key = "rpcport" THEN {m.value} ELSE @]

-----------------------------------------------------------------------------
(* validate() and the addresses a client derives.                           *)

\* The fatal conflicts, of which validate() throws the first.
ConfigErrors(c) ==
    {e \in {"txIndexWithPrune", "coinStatsIndexWithPrune", "peerBlockFiltersWithoutIndex"} :
        CASE e = "txIndexWithPrune" -> {"txindex", "prune"} \subseteq c.flags
          [] e = "coinStatsIndexWithPrune" -> {"coinstatsindex", "prune"} \subseteq c.flags
          [] e = "peerBlockFiltersWithoutIndex" ->
                "peerblockfilters" \in c.flags /\ "blockfilterindex" \notin c.flags}

ConfigWarnings(c) ==
    {w \in {"rpcBindWithoutAllowIP", "serverDisabledWithRPCOptions", "blocksOnlyWithMaxMempool",
            "missingRPCAuth", "connectDisablesPeerDiscovery", "walletOptionWithDisableWallet",
            "maxUploadTargetWithListen"} :
        CASE w = "rpcBindWithoutAllowIP" -> "rpcbind" \in c.flags /\ "rpcallowip" \notin c.flags
          [] w = "serverDisabledWithRPCOptions" ->
                /\ "server" \notin c.flags
                /\ {"rpcbind", "rpcauth", "rpcallowip", "rpccookiefile"} \cap c.flags # {}
          [] w = "blocksOnlyWithMaxMempool" -> {"blocksonly", "maxmempool"} \subseteq c.flags
          [] w = "missingRPCAuth" ->
                "server" \in c.flags /\ {"rpcauth", "rpccookiefile"} \cap c.flags = {}
          [] w = "connectDisablesPeerDiscovery" -> "connect" \in c.flags
          [] w = "walletOptionWithDisableWallet" -> {"disablewallet", "wallet"} \subseteq c.flags
          [] w = "maxUploadTargetWithListen" -> {"maxuploadtarget", "listen"} \subseteq c.flags}

resolvedRPCPort(c) ==
    CHOOSE p \in IF c.rpcPortOverride = {} THEN {defaultRPCPort[c.network]} ELSE c.rpcPortOverride : TRUE

\* A path is the sequence of its components; c has a data directory.
cookieURL(c) ==
    <<CHOOSE d \in c.dataDirectory : TRUE, dataDirName[c.network], ".cookie">>

=============================================================================
