------------------------ MODULE StartAndConnectProofs ------------------------
(***************************************************************************)
(* The bootstrap of a node, for every sequence of builder methods and any  *)
(* number of them, any number of calls, and every timeout, delay, length   *)
(* of an attempt and lateness of a sleep.                                  *)
(*                                                                         *)
(* First Daemon.poll by itself: it ends in time, finds a server that is up *)
(* early enough and surfaces cancellation.  Then startAndConnect around    *)
(* it: what validate() catches, why a call times out, what a restart       *)
(* inherits.                                                               *)
(***************************************************************************)
EXTENDS StartAndConnect, WellFoundedInduction, TLAPS

\* The running attempt began before the deadline; a server it missed came up,
\* and a cancellation arrived, after its start.
InAttempt ==
    pc = "attempt" =>
        /\ since < Timeout /\ since <= now /\ now <= since + AttemptBound
        /\ Cancelled => cancelAt >= since
        /\ ~hit /\ upAt >= 0 => upAt >= since

\* since - delay is the time the attempt before the sleep failed.
InSleep ==
    pc = "sleep" =>
        /\ since - delay < Timeout + AttemptBound /\ since - delay <= now
        /\ now <= since + MaxLateness
        /\ Cancelled => cancelAt + AttemptBound >= now
        /\ ~Cancelled /\ upAt >= 0 => upAt + AttemptBound >= since - delay

\* How old the news can be that the loop condition has not seen yet.
AtLoop ==
    pc = "loop" =>
        /\ now <= Timeout + AttemptBound + MaxDelay + MaxLateness
        /\ Cancelled => cancelAt + AttemptBound >= now
        /\ ~Cancelled /\ upAt >= 0 =>
              upAt + AttemptBound + MaxDelay + MaxLateness >= now

AtEnd ==
    /\ pc # "done" => outcome = "none"
    /\ pc = "done" => EndsInTime /\ ServerFound /\ CancellationSurfaces

IInv == TypeOK /\ InAttempt /\ InSleep /\ AtLoop /\ AtEnd

\* A poll begins at time zero, in the loop.
LEMMA InitInv == Init => IInv
  <1> SUFFICES ASSUME Init PROVE IInv
    OBVIOUS
  <1>1. TypeOK
    <2>1. lastError \in BOOLEAN /\ hit \in BOOLEAN
      BY Zenon DEF Init
    <2>2. /\ now \in Nat /\ delay \in InitialDelay .. MaxDelay /\ since \in Nat
          /\ upAt \in Nat \cup {-1} /\ cancelAt \in Nat \cup {-1}
      BY PollAssumption DEF Init
    <2>3. QED BY <2>1, <2>2 DEF Init, TypeOK
  <1>2. InAttempt /\ InSleep /\ AtEnd
    BY DEF Init, InAttempt, InSleep, AtEnd
  <1>3. AtLoop
    BY PollAssumption DEF Init, AtLoop, Cancelled
  <1>4. QED BY <1>1, <1>2, <1>3 DEF IInv

\* Every step of poll, of the server, of the canceller and of time keeps it.
LEMMA StepInv == IInv /\ [Next]_vars => IInv'
  <1> SUFFICES ASSUME IInv, [Next]_vars PROVE IInv'
    OBVIOUS
  <1> USE PollAssumption DEF IInv, TypeOK, InAttempt, InSleep, AtLoop, AtEnd, Cancelled,
          EndsInTime, ServerFound, CancellationSurfaces
  <1>1. CASE Loop
    <2>1. CASE now >= Timeout /\ Leave(IF lastError THEN "lastError" ELSE "timedOut")
      BY <1>1, <2>1 DEF Loop, Leave
    <2>2. CASE now < Timeout /\ Cancelled /\ Leave("CancellationError")
      BY <1>1, <2>2 DEF Loop, Leave
    <2>3. CASE /\ now < Timeout /\ ~Cancelled
               /\ pc' = "attempt" /\ since' = now /\ hit' = (upAt >= 0)
               /\ UNCHANGED <<now, delay, lastError, upAt, cancelAt, outcome>>
      <3>1. hit' \in BOOLEAN
        BY <2>3
      <3>2. TypeOK'
        BY <2>3, <3>1
      <3>3. upAt >= 0 => hit'
        BY <2>3, Zenon
      <3>4. InAttempt'
        BY <2>3, <3>3
      <3>5. InSleep' /\ AtLoop'
        BY <2>3
      <3>6. AtEnd'
        BY <1>1, <2>3 DEF Loop
      <3>7. QED BY <3>2, <3>4, <3>5, <3>6, Zenon
    <2>4. QED BY <1>1, <2>1, <2>2, <2>3 DEF Loop
  <1>2. CASE AttemptSucceeds
    BY <1>2 DEF AttemptSucceeds, Leave
  <1>3. CASE AttemptFails
    BY <1>3 DEF AttemptFails
  <1>4. CASE Wake
    BY <1>4 DEF Wake
  <1>5. CASE ServerUp
    BY <1>5 DEF ServerUp
  <1>6. CASE Cancel
    BY <1>6 DEF Cancel
  <1>7. CASE Tick
    BY <1>7 DEF Tick
  <1>8. CASE UNCHANGED vars
    BY <1>8 DEF vars
  <1>9. QED
    BY <1>1, <1>2, <1>3, <1>4, <1>5, <1>6, <1>7, <1>8 DEF Next, Done

\* Daemon.poll with any policy: it overruns its timeout by no more than one
\* attempt and one full sleep, an uncancelled poll misses only a server that came
\* up too late for that, and a cancelled one throws CancellationError unless the
\* deadline passed in the attempt that was running.
THEOREM PollCorrect == Spec => [](EndsInTime /\ ServerFound /\ CancellationSurfaces)
  <1>1. IInv => EndsInTime /\ ServerFound /\ CancellationSurfaces
    <2> SUFFICES ASSUME IInv PROVE EndsInTime /\ ServerFound /\ CancellationSurfaces
      OBVIOUS
    <2>1. CASE pc = "done"
      BY <2>1 DEF IInv, AtEnd
    <2>2. CASE pc # "done"
      <3>1. outcome = "none"
        BY <2>2 DEF IInv, AtEnd
      <3>2. EndsInTime
        BY <2>2, PollAssumption DEF IInv, TypeOK, InAttempt, InSleep, AtLoop, EndsInTime
      <3>3. QED BY <3>1, <3>2 DEF ServerFound, CancellationSurfaces
    <2>3. QED BY <2>1, <2>2
  <1>2. QED
    BY InitInv, StepInv, <1>1, PTL DEF Spec

-----------------------------------------------------------------------------
(* The command line.                                                       *)

\* The options the parameter interactions may set, and those that name a network.
Soft == {"server", "listen", "listenonion"}
NetworkFlags == {"testnet", "testnet4", "regtest", "signet"}

\* What may stand on a command line.
Arguments == Methods \cup [key : Soft \cup NetworkFlags, value : {"", "0", "1"}]

\* A nonempty set of natural numbers has a least element.
LEMMA LeastNumber ==
    ASSUME NEW T \in SUBSET Nat, T # {}
    PROVE  \E m \in T : \A k \in T : m <= k
  <1> DEFINE R == OpToRel(<, Nat)
  <1>1. IsWellFoundedOn(R, Nat)
    BY NatLessThanWellFounded, Zenon
  <1>2. ASSUME NEW x \in Nat, NEW y \in Nat, ~(<<y, x>> \in R) PROVE x <= y
    BY <1>2 DEF OpToRel
  <1> HIDE DEF R
  <1>3. PICK x \in T : \A y \in T : ~(<<y, x>> \in R)
    BY <1>1, WFMin, Zenon
  <1>4. \A y \in T : x <= y
    BY <1>2, <1>3, Zenon
  <1>5. QED BY <1>4

\* GetArg reads the last place of an option that is set.
LEMMA LastPlace ==
    ASSUME NEW a \in Seq(Arguments), NEW key, NEW default, IsArgSet(a, key)
    PROVE  \E i \in Given(a, key) : /\ GetArg(a, key, default) = a[i].value
                                    /\ \A j \in Given(a, key) : j <= i
  <1> DEFINE G == Given(a, key)
             T == {k \in Nat : \E i \in G : i + k = Len(a)}
  <1>1. G \subseteq 1 .. Len(a) /\ G # {} /\ Len(a) \in Nat
    BY DEF Given, IsArgSet
  <1>2. ASSUME NEW i \in G PROVE Len(a) - i \in T
    BY <1>1
  <1>3. T # {}
    BY <1>1, <1>2
  <1>4. PICK m \in T : \A k \in T : m <= k
    BY <1>3, LeastNumber, Zenon
  <1>5. PICK i \in G : i + m = Len(a)
    BY <1>4
  <1>6. ASSUME NEW j \in G PROVE i >= j
    <2>1. m <= Len(a) - j
      BY <1>4, <1>2
    <2>2. i \in Int /\ j \in Int /\ m \in Int
      BY <1>1
    <2>3. QED BY <1>1, <1>5, <2>1, <2>2
  <1>7. Max(G) \in G /\ \A j \in G : Max(G) >= j
    BY <1>5, <1>6 DEF Max
  <1>8. \A j \in G : j <= Max(G)
    BY <1>7, <1>1
  <1>9. GetArg(a, key, default) = a[Max(G)].value
    BY DEF GetArg
  <1>10. QED BY <1>7, <1>8, <1>9

\* The option is given in the same places with the same values.
SameOption(a, b, key) ==
    Given(b, key) = Given(a, key) /\ \A i \in Given(a, key) : b[i] = a[i]

\* Such an option reads the same.
LEMMA SameReads ==
    ASSUME NEW a \in Seq(Arguments), NEW b, NEW key, NEW d, SameOption(a, b, key)
    PROVE  /\ IsArgSet(b, key) <=> IsArgSet(a, key)
           /\ GetArgs(b, key) = GetArgs(a, key)
           /\ GetArg(b, key, d) = GetArg(a, key, d)
           /\ GetBoolArg(b, key, d) <=> GetBoolArg(a, key, d)
  <1>1. IsArgSet(b, key) <=> IsArgSet(a, key)
    BY DEF SameOption, IsArgSet
  <1>2. GetArgs(b, key) = GetArgs(a, key)
    BY DEF SameOption, GetArgs
  <1>3. ASSUME NEW e PROVE GetArg(b, key, e) = GetArg(a, key, e)
    <2>1. CASE IsArgSet(a, key)
      <3>1. Max(Given(a, key)) \in Given(a, key)
        <4>1. PICK i \in Given(a, key) : \A j \in Given(a, key) : j <= i
          BY <2>1, LastPlace
        <4>2. \A j \in Given(a, key) : i >= j
          BY <4>1 DEF Given
        <4>3. QED BY <4>2 DEF Max
      <3>2. QED BY <1>1, <2>1, <3>1 DEF GetArg, SameOption
    <2>2. CASE ~IsArgSet(a, key)
      BY <1>1, <2>2 DEF GetArg
    <2>3. QED BY <2>1, <2>2
  <1>4. GetBoolArg(b, key, d) <=> GetBoolArg(a, key, d)
    <2>1. GetArg(b, key, "0") = GetArg(a, key, "0")
      BY <1>3
    <2>2. QED BY <1>1, <2>1 DEF GetBoolArg
  <1>5. QED BY <1>1, <1>2, <1>3, <1>4

\* One more argument changes its own option and leaves the others alone.
LEMMA OneMore ==
    ASSUME NEW a \in Seq(Arguments), NEW m \in Arguments
    PROVE  /\ Append(a, m) \in Seq(Arguments)
           /\ \A key : key # m.key => SameOption(a, Append(a, m), key)
           /\ Given(Append(a, m), m.key) = Given(a, m.key) \cup {Len(a) + 1}
           /\ IsArgSet(Append(a, m), m.key)
           /\ \A d : GetArg(Append(a, m), m.key, d) = m.value
  <1> DEFINE b == Append(a, m)
  <1>1. b \in Seq(Arguments) /\ Len(a) \in Nat /\ DOMAIN b = DOMAIN a \cup {Len(a) + 1}
        /\ b[Len(a) + 1] = m /\ (\A i \in DOMAIN a : b[i] = a[i]) /\ DOMAIN a = 1 .. Len(a)
    OBVIOUS
  <1> HIDE DEF b
  <1>2. ASSUME NEW key, key # m.key PROVE SameOption(a, b, key)
    BY <1>1, <1>2 DEF SameOption, Given
  <1>3. Given(b, m.key) = Given(a, m.key) \cup {Len(a) + 1}
    BY <1>1 DEF Given
  <1>4. IsArgSet(b, m.key)
    BY <1>3 DEF IsArgSet
  <1>5. ASSUME NEW d PROVE GetArg(b, m.key, d) = m.value
    <2>1. PICK i \in Given(b, m.key) : /\ GetArg(b, m.key, d) = b[i].value
                                       /\ \A j \in Given(b, m.key) : j <= i
      BY <1>1, <1>4, LastPlace
    <2>2. Given(a, m.key) \subseteq 1 .. Len(a)
      BY <1>1 DEF Given
    <2>3. i = Len(a) + 1
      BY <2>1, <2>2, <1>3, <1>1
    <2>4. QED BY <2>1, <2>3, <1>1
  <1>6. QED BY <1>1, <1>2, <1>3, <1>4, <1>5 DEF b

\* SoftSet touches one option, and only if it is not set.
LEMMA SoftSetOption ==
    ASSUME NEW a \in Seq(Arguments), NEW k \in Soft, NEW v \in {"0", "1"}
    PROVE  /\ SoftSet(a, k, v) \in Seq(Arguments)
           /\ \A key : key # k \/ IsArgSet(a, k) => SameOption(a, SoftSet(a, k, v), key)
           /\ IsArgSet(SoftSet(a, k, v), k)
           /\ ~IsArgSet(a, k) => \A d : GetArg(SoftSet(a, k, v), k, d) = v
  <1>1. CASE IsArgSet(a, k)
    BY <1>1 DEF SoftSet, SameOption
  <1>2. CASE ~IsArgSet(a, k)
    <2> DEFINE m == [key |-> k, value |-> v]
    <2>1. m \in Arguments /\ m.key = k /\ m.value = v
      BY Zenon DEF Arguments
    <2>2. SoftSet(a, k, v) = Append(a, m)
      BY <1>2 DEF SoftSet
    <2> HIDE DEF m
    <2>3. QED BY <1>2, <2>1, <2>2, OneMore
  <1>3. QED BY <1>1, <1>2

\* SameOption is an equivalence; only this much of it is used.
LEMMA SameTransitive ==
    ASSUME NEW a, NEW b, NEW c, NEW key, SameOption(a, b, key), SameOption(b, c, key)
    PROVE  SameOption(a, c, key)
  BY DEF SameOption

\* Interact leaves alone every option but those of Soft, and -server unless it is
\* not set, when it switches it on.
LEMMA InteractOption ==
    ASSUME NEW a \in Seq(Arguments)
    PROVE  /\ Interact(a) \in Seq(Arguments)
           /\ \A key : key \notin Soft => SameOption(a, Interact(a), key)
           /\ IsArgSet(a, "server") => SameOption(a, Interact(a), "server")
           /\ ~IsArgSet(a, "server") => GetBoolArg(Interact(a), "server", FALSE)
  <1> DEFINE server == SoftSet(a, "server", "1")
             bound == IF IsArgSet(a, "bind") THEN SoftSet(server, "listen", "1") ELSE server
             closed == IF \/ IsArgSet(a, "connect") \/ IsArgSet(a, "proxy")
                          \/ GetArg(a, "maxconnections", "125") = "0"
                       THEN SoftSet(bound, "listen", "0")
                       ELSE bound
             result == IF GetBoolArg(closed, "listen", TRUE) THEN closed
                       ELSE SoftSet(closed, "listenonion", "0")
  <1>1. Interact(a) = result
    BY DEF Interact
  <1>2. /\ server \in Seq(Arguments)
        /\ \A key : key # "server" \/ IsArgSet(a, "server") => SameOption(a, server, key)
        /\ IsArgSet(server, "server")
        /\ ~IsArgSet(a, "server") => \A d : GetArg(server, "server", d) = "1"
    BY SoftSetOption DEF Soft
  <1> HIDE DEF server
  <1>3. /\ bound \in Seq(Arguments)
        /\ \A key : key # "listen" => SameOption(server, bound, key)
    <2>1. \A key : SameOption(server, server, key)
      BY DEF SameOption
    <2>2. QED BY <1>2, <2>1, SoftSetOption DEF Soft
  <1> HIDE DEF bound
  <1>4. /\ closed \in Seq(Arguments)
        /\ \A key : key # "listen" => SameOption(bound, closed, key)
    <2>1. \A key : SameOption(bound, bound, key)
      BY DEF SameOption
    <2>2. QED BY <1>3, <2>1, SoftSetOption DEF Soft
  <1> HIDE DEF closed
  <1>5. /\ result \in Seq(Arguments)
        /\ \A key : key # "listenonion" => SameOption(closed, result, key)
    <2>1. \A key : SameOption(closed, closed, key)
      BY DEF SameOption
    <2>2. QED BY <1>4, <2>1, SoftSetOption, Zenon DEF Soft
  <1> HIDE DEF result
  <1>6. ASSUME NEW key, key # "listen", key # "listenonion"
        PROVE  SameOption(server, result, key)
    <2>1. SameOption(server, bound, key) /\ SameOption(bound, closed, key)
          /\ SameOption(closed, result, key)
      BY <1>3, <1>4, <1>5, <1>6
    <2>2. SameOption(server, closed, key)
      BY <2>1, SameTransitive
    <2>3. QED BY <2>1, <2>2, SameTransitive
  <1>7. ASSUME NEW key, key \notin Soft PROVE SameOption(a, result, key)
    <2>1. key # "server" /\ key # "listen" /\ key # "listenonion"
      BY <1>7 DEF Soft
    <2>2. SameOption(a, server, key)
      BY <1>2, <2>1
    <2>3. SameOption(server, result, key)
      BY <1>6, <2>1
    <2>4. QED BY <2>2, <2>3, SameTransitive
  <1>8. ASSUME ~IsArgSet(a, "server") PROVE GetBoolArg(result, "server", FALSE)
    <2>1. SameOption(server, result, "server")
      BY <1>6
    <2>2. IsArgSet(result, "server") /\ GetArg(result, "server", "0") = "1"
      <3>1. server \in Seq(Arguments)
        BY <1>2
      <3>2. /\ IsArgSet(result, "server") <=> IsArgSet(server, "server")
            /\ GetArg(result, "server", "0") = GetArg(server, "server", "0")
        BY <3>1, <2>1, SameReads
      <3>3. QED BY <1>2, <1>8, <3>2
    <2>3. QED BY <2>2 DEF GetBoolArg, InterpretBool
  <1>9. ASSUME IsArgSet(a, "server") PROVE SameOption(a, result, "server")
    <2>1. SameOption(a, server, "server")
      BY <1>2, <1>9
    <2>2. SameOption(server, result, "server")
      BY <1>6
    <2>3. QED BY <2>1, <2>2, SameTransitive
  <1>10. QED BY <1>1, <1>5, <1>7, <1>8, <1>9, Zenon

-----------------------------------------------------------------------------
(* The builder.                                                            *)

\* What the properties need to know of the values a method writes.
MethodValues(m) ==
    /\ m.key \in {"server", "txindex", "peerblockfilters"} => m.value \in {"0", "1"}
    /\ m.key = "blockfilterindex" => m.value \in {"0", "1", "basic"}
    /\ m.key \notin NetworkFlags

\* Every method writes such values, and none names a network.
LEMMA MethodWrites == \A m \in Methods : MethodValues(m)
  <1>1. \A m \in CoreMethods : MethodValues(m)
    BY Zenon DEF CoreMethods, Switch, MethodValues, NetworkFlags
  <1>2. \A m \in RPCMethods : MethodValues(m)
    BY DEF RPCMethods, Switch, MethodValues, NetworkFlags
  <1>3. \A m \in NetworkMethods : MethodValues(m)
    BY DEF NetworkMethods, Switch, MethodValues, NetworkFlags
  <1>4. \A m \in MiningMethods : MethodValues(m)
    BY DEF MiningMethods, Switch, MethodValues, NetworkFlags
  <1>5. \A m \in WalletMethods : MethodValues(m)
    BY DEF WalletMethods, Switch, MethodValues, NetworkFlags
  <1>6. QED BY <1>1, <1>2, <1>3, <1>4, <1>5 DEF Methods

\* The configuration and its command line agree: a flag stands for an argument,
\* the network is the one its option names, and the port and the directory are
\* those of the last argument.
ConfigRecord(c) ==
    c \in [network : Networks, args : Seq(Arguments), flags : SUBSET {m.key : m \in Arguments},
           dataDirectory : SUBSET {m.value : m \in Arguments},
           rpcPortOverride : SUBSET {m.value : m \in Arguments}]

FlagsAgree(c) ==
    /\ \A i \in DOMAIN c.args : FlagsOf(c.args[i]) \subseteq c.flags
    /\ \A f \in c.flags : \E i \in Given(c.args, f) : f \in FlagsOf(c.args[i])

ValuesAgree(c) ==
    \A i \in DOMAIN c.args :
        /\ c.args[i].key \in {"server", "txindex", "peerblockfilters"} =>
               c.args[i].value \in {"0", "1"}
        /\ c.args[i].key = "blockfilterindex" => c.args[i].value \in {"0", "1", "basic"}

NetworkAgrees(c) ==
    /\ c.network \in Networks
    /\ IsArgSet(c.args, "testnet") <=> c.network = "Testnet"
    /\ IsArgSet(c.args, "testnet4") <=> c.network = "Testnet4"
    /\ IsArgSet(c.args, "regtest") <=> c.network = "Regtest"
    /\ IsArgSet(c.args, "signet") <=> c.network = "Signet"

LastAgrees(c) ==
    /\ c.rpcPortOverride = IF IsArgSet(c.args, "rpcport")
                           THEN {GetArg(c.args, "rpcport", "default")} ELSE {}
    /\ c.dataDirectory = IF IsArgSet(c.args, "datadir")
                         THEN {GetArg(c.args, "datadir", "default")} ELSE {}

ConfigInv(c) ==
    /\ ConfigRecord(c)
    /\ FlagsAgree(c) /\ ValuesAgree(c) /\ NetworkAgrees(c) /\ LastAgrees(c)

\* The static factories give such a configuration.
LEMMA NewConfigInv == ASSUME NEW n \in Networks PROVE ConfigInv(NewConfig(n))
  <1> DEFINE c == NewConfig(n)
  <1>1. PICK a : a = IF n = "Mainnet" THEN <<>> ELSE <<Argument(flag[n], "")>>
    BY Zenon
  <1>2. c = [network |-> n, args |-> a, flags |-> {}, dataDirectory |-> {}, rpcPortOverride |-> {}]
    BY <1>1, Zenon DEF NewConfig
  <1> SUFFICES ConfigInv(c)
    OBVIOUS
  <1> HIDE DEF c
  <1>3. /\ c.network = n /\ c.args = a /\ c.flags = {}
        /\ c.dataDirectory = {} /\ c.rpcPortOverride = {}
    BY <1>2
  <1>4. a \in Seq(Arguments) => ConfigRecord(c)
    BY <1>2 DEF ConfigRecord
  <1>5. CASE n = "Mainnet"
    <2>1. c.args = <<>>
      BY <1>1, <1>3, <1>5
    <2>2. c.args \in Seq(Arguments) /\ DOMAIN c.args = {}
      BY <2>1
    <2>3. \A key : ~IsArgSet(c.args, key)
      BY <2>2 DEF IsArgSet, Given
    <2>4. FlagsAgree(c) /\ ValuesAgree(c)
      BY <2>2, <1>3 DEF FlagsAgree, ValuesAgree
    <2>5. NetworkAgrees(c) /\ LastAgrees(c)
      BY <2>3, <1>3, <1>5 DEF NetworkAgrees, LastAgrees
    <2>6. QED BY <1>3, <1>4, <2>2, <2>4, <2>5 DEF ConfigInv
  <1>6. CASE n # "Mainnet"
    <2>1. PICK x : x = Argument(flag[n], "")
      BY Zenon
    <2>2. c.args = <<x>>
      BY <1>1, <1>3, <1>6, <2>1, Zenon
    <2>3. x.key = flag[n] /\ x \in [key : {flag[n]}, value : {"", "0", "1"}]
      BY <2>1, Zenon DEF Argument
    <2>4. /\ flag[n] \in NetworkFlags
          /\ flag[n] = "testnet" <=> n = "Testnet"
          /\ flag[n] = "testnet4" <=> n = "Testnet4"
          /\ flag[n] = "regtest" <=> n = "Regtest"
          /\ flag[n] = "signet" <=> n = "Signet"
      BY <1>6 DEF flag, Networks, NetworkFlags
    <2>5. x \in Arguments
      BY <2>3, <2>4, Zenon DEF Arguments
    <2>6. c.args \in Seq(Arguments) /\ DOMAIN c.args = {1} /\ c.args[1] = x
      BY <2>2, <2>5
    <2>7. \A key : IsArgSet(c.args, key) <=> key = flag[n]
      BY <2>6, <2>3, Zenon DEF IsArgSet, Given
    <2>8. FlagsOf(x) = {}
      BY <2>3, <2>4, Zenon DEF FlagsOf, NetworkFlags, SwitchesFlagged, AlwaysFlagged
    <2>9. FlagsAgree(c) /\ ValuesAgree(c)
      BY <2>3, <2>4, <2>6, <2>8, <1>3, Zenon DEF FlagsAgree, ValuesAgree, NetworkFlags
    <2>10. NetworkAgrees(c)
      BY <2>4, <2>7, <1>3 DEF NetworkAgrees
    <2>11. LastAgrees(c)
      BY <2>4, <2>7, <1>3 DEF LastAgrees, NetworkFlags
    <2>12. QED BY <1>3, <1>4, <2>6, <2>9, <2>10, <2>11 DEF ConfigInv
  <1>7. QED BY <1>5, <1>6

\* A builder method keeps it.
LEMMA CallInv ==
    ASSUME NEW c, ConfigInv(c), NEW m \in Methods
    PROVE  ConfigInv(Call(c, m))
  <1> DEFINE d == Call(c, m)
             a == c.args
             b == Append(a, m)
  <1>1. /\ d.network = c.network /\ d.args = b /\ d.flags = c.flags \cup FlagsOf(m)
        /\ d.dataDirectory = IF m.key = "datadir" THEN {m.value} ELSE c.dataDirectory
        /\ d.rpcPortOverride = IF m.key = "rpcport" THEN {m.value} ELSE c.rpcPortOverride
        /\ ConfigRecord(d)
    <2> DEFINE Values == {x.value : x \in Arguments}
               Keys == {x.key : x \in Arguments}
    <2>1. m \in Arguments /\ m.value \in Values /\ m.key \in Keys
      BY Zenon DEF Arguments
    <2>2. FlagsOf(m) \in SUBSET Keys
      BY <2>1 DEF FlagsOf
    <2> HIDE DEF Values, Keys
    <2>3. c \in [network : Networks, args : Seq(Arguments), flags : SUBSET Keys,
                 dataDirectory : SUBSET Values, rpcPortOverride : SUBSET Values]
      BY DEF ConfigInv, ConfigRecord, Keys, Values
    <2>4. b \in Seq(Arguments)
      BY <2>1, <2>3
    <2>5. d \in [network : Networks, args : Seq(Arguments), flags : SUBSET Keys,
                 dataDirectory : SUBSET Values, rpcPortOverride : SUBSET Values]
      BY <2>1, <2>2, <2>3, <2>4, Zenon DEF Call
    <2>6. ConfigRecord(d)
      BY <2>5 DEF ConfigRecord, Keys, Values
    <2>7. QED BY <2>3, <2>6 DEF Call
  <1>2. m \in Arguments /\ a \in Seq(Arguments) /\ MethodValues(m)
    BY MethodWrites, Zenon DEF ConfigInv, ConfigRecord, Arguments
  <1>3. /\ b \in Seq(Arguments)
        /\ \A key : key # m.key => SameOption(a, b, key)
        /\ Given(b, m.key) = Given(a, m.key) \cup {Len(a) + 1}
        /\ IsArgSet(b, m.key)
        /\ GetArg(b, m.key, "default") = m.value
    BY <1>2, OneMore, Zenon
  <1>4. /\ DOMAIN b = DOMAIN a \cup {Len(a) + 1} /\ b[Len(a) + 1] = m
        /\ \A i \in DOMAIN a : b[i] = a[i]
    BY <1>2
  <1> HIDE DEF d, b
  <1>5. FlagsAgree(d)
    <2>1. FlagsAgree(c)
      BY DEF ConfigInv
    <2>2. ASSUME NEW i \in DOMAIN b PROVE FlagsOf(b[i]) \subseteq d.flags
      BY <2>1, <1>1, <1>4 DEF FlagsAgree
    <2>3. ASSUME NEW f \in d.flags PROVE \E i \in Given(b, f) : f \in FlagsOf(b[i])
      <3>1. CASE f \in FlagsOf(m)
        <4>1. f = m.key
          BY <3>1 DEF FlagsOf
        <4>2. Len(a) + 1 \in Given(b, f)
          BY <4>1, <1>3
        <4>3. QED BY <3>1, <4>2, <1>4
      <3>2. CASE f \in c.flags
        <4>1. PICK i \in Given(a, f) : f \in FlagsOf(a[i])
          BY <3>2, <2>1 DEF FlagsAgree
        <4>2. i \in Given(b, f) /\ b[i] = a[i]
          BY <4>1, <1>4 DEF Given
        <4>3. QED BY <4>1, <4>2
      <3>3. QED BY <3>1, <3>2, <1>1
    <2>4. QED BY <2>2, <2>3, <1>1 DEF FlagsAgree
  <1>6. ValuesAgree(d)
    BY <1>1, <1>2, <1>4 DEF ConfigInv, ValuesAgree, MethodValues
  <1>7. \A key : key # m.key => (IsArgSet(b, key) <=> IsArgSet(a, key))
    BY <1>3 DEF SameOption, IsArgSet
  <1>8. NetworkAgrees(d)
    BY <1>1, <1>2, <1>7 DEF ConfigInv, NetworkAgrees, MethodValues, NetworkFlags
  <1>9. LastAgrees(d)
    <2>1. LastAgrees(c)
      BY DEF ConfigInv
    <2>2. ASSUME NEW key, key # m.key
          PROVE  GetArg(b, key, "default") = GetArg(a, key, "default")
      BY <2>2, <1>2, <1>3, SameReads
    <2>3. d.rpcPortOverride = IF IsArgSet(b, "rpcport")
                              THEN {GetArg(b, "rpcport", "default")} ELSE {}
      BY <2>1, <2>2, <1>1, <1>3, <1>7, Zenon DEF LastAgrees
    <2>4. d.dataDirectory = IF IsArgSet(b, "datadir")
                            THEN {GetArg(b, "datadir", "default")} ELSE {}
      BY <2>1, <2>2, <1>1, <1>3, <1>7, Zenon DEF LastAgrees
    <2>5. QED BY <2>3, <2>4, <1>1 DEF LastAgrees
  <1>10. QED BY <1>1, <1>3, <1>5, <1>6, <1>8, <1>9 DEF ConfigInv, d

-----------------------------------------------------------------------------
(* What validate() catches.                                                *)

\* The places of an option that is set to a value, or was flagged.
LEMMA Places ==
    ASSUME NEW c, ConfigInv(c), NEW key
    PROVE  /\ Given(c.args, key) \subseteq DOMAIN c.args
           /\ \A i \in Given(c.args, key) : c.args[i].key = key
           /\ key \in c.flags <=> \E i \in Given(c.args, key) : key \in FlagsOf(c.args[i])
  <1>1. /\ Given(c.args, key) \subseteq DOMAIN c.args
        /\ \A i \in Given(c.args, key) : c.args[i].key = key
    BY DEF Given
  <1>2. key \in c.flags <=> \E i \in Given(c.args, key) : key \in FlagsOf(c.args[i])
    BY <1>1 DEF ConfigInv, FlagsAgree
  <1>3. QED BY <1>1, <1>2

\* A configuration whose arguments agree with its flags is judged as bitcoind
\* judges it.
LEMMA Caught == ConfigInv(config) => ConflictsCaught
  <1> SUFFICES ASSUME ConfigInv(config) PROVE ConflictsCaught
    OBVIOUS
  <1> DEFINE args == config.args
             a == Interact(args)
             errors == ConfigErrors(config)
             warnings == ConfigWarnings(config)
  <1>1. /\ args \in Seq(Arguments) /\ a \in Seq(Arguments)
        /\ \A key : key \notin Soft => SameOption(args, a, key)
    BY InteractOption, Zenon DEF ConfigInv, ConfigRecord
  <1>2. /\ IsArgSet(args, "server") => SameOption(args, a, "server")
        /\ ~IsArgSet(args, "server") => GetBoolArg(a, "server", FALSE)
    BY <1>1, InteractOption, Zenon
  <1> HIDE DEF a
  <1>3. ASSUME NEW key, key \notin Soft, NEW d
        PROVE  /\ IsArgSet(a, key) <=> IsArgSet(args, key)
               /\ GetArgs(a, key) = GetArgs(args, key)
               /\ GetArg(a, key, d) = GetArg(args, key, d)
               /\ GetBoolArg(a, key, d) <=> GetBoolArg(args, key, d)
               /\ Given(a, key) = Given(args, key)
               /\ \A i \in Given(args, key) : a[i] = args[i]
    <2>1. SameOption(args, a, key)
      BY <1>1, <1>3, Zenon
    <2>2. QED BY <1>1, <2>1, SameReads DEF SameOption
  <1>4. ASSUME NEW key, NEW d, IsArgSet(args, key)
        PROVE  \E i \in Given(args, key) : GetArg(args, key, d) = args[i].value
    BY <1>1, <1>4, LastPlace
  <1>5. /\ "txIndexWithPrune" \in errors <=> "txindex" \in config.flags /\ "prune" \in config.flags
        /\ "peerBlockFiltersWithoutIndex" \in errors <=>
              "peerblockfilters" \in config.flags /\ "blockfilterindex" \notin config.flags
    BY DEF ConfigErrors
  <1>6. /\ "rpcBindWithoutAllowIP" \in warnings <=>
              "rpcbind" \in config.flags /\ "rpcallowip" \notin config.flags
        /\ "serverDisabledWithRPCOptions" \in warnings <=>
              /\ "server" \notin config.flags
              /\ \E key \in {"rpcbind", "rpcauth", "rpcallowip", "rpccookiefile"} : key \in config.flags
    BY DEF ConfigWarnings
  <1>7. ASSUME NEW key \in {"server", "txindex", "peerblockfilters", "blockfilterindex"}
        PROVE  key \in config.flags <=> \E i \in Given(args, key) : args[i].value = "1"
    <2>1. ASSUME NEW i \in Given(args, key) PROVE key \in FlagsOf(args[i]) <=> args[i].value = "1"
      <3>1. args[i].key = key
        BY Places, Zenon
      <3>2. QED BY <3>1 DEF FlagsOf, SwitchesFlagged, AlwaysFlagged
    <2>2. QED BY <2>1, Places
  <1>8. ASSUME NEW key \in {"rpcbind", "rpcallowip", "rpcauth", "rpccookiefile"}
        PROVE  key \in config.flags <=> IsArgSet(args, key)
    <2>1. ASSUME NEW i \in Given(args, key) PROVE key \in FlagsOf(args[i])
      <3>1. args[i].key = key
        BY Places
      <3>2. QED BY <3>1 DEF FlagsOf, AlwaysFlagged
    <2>2. QED BY <2>1, Places DEF IsArgSet
  <1>9. "prune" \in config.flags <=> \E i \in Given(args, "prune") : args[i].value \notin {"0", "1"}
    <2>1. ASSUME NEW i \in Given(args, "prune")
          PROVE  "prune" \in FlagsOf(args[i]) <=> args[i].value \notin {"0", "1"}
      <3>1. args[i].key = "prune"
        BY Places, Zenon
      <3>2. QED BY <3>1 DEF FlagsOf, SwitchesFlagged, AlwaysFlagged
    <2>2. QED BY <2>1, Places
  <1>10. ASSUME NEW key \in {"server", "txindex", "peerblockfilters"}, NEW i \in Given(args, key)
         PROVE  args[i].value \in {"0", "1"}
    <2>1. i \in DOMAIN args /\ args[i].key = key
      BY Places, Zenon
    <2>2. ValuesAgree(config)
      BY DEF ConfigInv
    <2>3. QED BY <2>1, <2>2 DEF ValuesAgree
  <1>11. ASSUME NEW i \in Given(args, "blockfilterindex")
         PROVE  args[i].value \in {"0", "1", "basic"}
    BY Places DEF ConfigInv, ValuesAgree
  <1>12. ASSUME NEW key, ~Twice(key), NEW i \in Given(args, key), NEW j \in Given(args, key)
         PROVE  i = j
    BY <1>12 DEF Twice
  <1> HIDE DEF args, errors, warnings
  <1>13. PruneWith(a, "txindex") /\ GetArg(a, "prune", "0") # "1" => "txIndexWithPrune" \in errors
    <2> SUFFICES ASSUME PruneWith(a, "txindex"), GetArg(a, "prune", "0") # "1"
                 PROVE  "txIndexWithPrune" \in errors
      OBVIOUS
    <2>1. GetArg(args, "prune", "0") \notin {"0", "1"} /\ GetBoolArg(args, "txindex", FALSE)
      BY <1>3, Zenon DEF PruneWith, Soft
    <2>2. IsArgSet(args, "prune") /\ IsArgSet(args, "txindex") /\ GetArg(args, "txindex", "0") # "0"
      BY <2>1 DEF GetArg, GetBoolArg, InterpretBool
    <2>3. PICK i \in Given(args, "prune") : GetArg(args, "prune", "0") = args[i].value
      BY <2>2, <1>4
    <2>4. PICK j \in Given(args, "txindex") : GetArg(args, "txindex", "0") = args[j].value
      BY <2>2, <1>4
    <2>5. QED BY <2>1, <2>2, <2>3, <2>4, <1>5, <1>7, <1>9, <1>10
  <1>14. FiltersWithoutIndex(a, {}) =>
            "peerBlockFiltersWithoutIndex" \in errors \/ Twice("blockfilterindex")
    <2> SUFFICES ASSUME FiltersWithoutIndex(a, {}), ~Twice("blockfilterindex")
                 PROVE  "peerBlockFiltersWithoutIndex" \in errors
      OBVIOUS
    <2>1. GetBoolArg(args, "peerblockfilters", FALSE) /\ "basic" \notin FilterTypes(a, {})
      BY <1>3, Zenon DEF FiltersWithoutIndex, Soft
    <2>2. IsArgSet(args, "peerblockfilters") /\ GetArg(args, "peerblockfilters", "0") # "0"
      BY <2>1 DEF GetBoolArg, InterpretBool
    <2>3. PICK j \in Given(args, "peerblockfilters") :
              GetArg(args, "peerblockfilters", "0") = args[j].value
      BY <2>2, <1>4
    <2>4. "peerblockfilters" \in config.flags
      BY <2>2, <2>3, <1>7, <1>10
    <2>5. GetArg(args, "blockfilterindex", "0") # "1"
      BY <2>1, <1>3 DEF FilterTypes, Soft
    <2>6. ASSUME NEW i \in Given(args, "blockfilterindex") PROVE args[i].value # "1"
      <3>1. IsArgSet(args, "blockfilterindex")
        BY DEF IsArgSet
      <3>2. PICK k \in Given(args, "blockfilterindex") :
                GetArg(args, "blockfilterindex", "0") = args[k].value
        BY <3>1, <1>4
      <3>3. i = k
        BY <1>12
      <3>4. QED BY <2>5, <3>2, <3>3
    <2>7. QED BY <2>4, <2>6, <1>5, <1>7
  <1>15. "txIndexWithPrune" \in errors =>
            PruneWith(a, "txindex") \/ Twice("txindex") \/ Twice("prune")
    <2> SUFFICES ASSUME "txIndexWithPrune" \in errors, ~Twice("txindex"), ~Twice("prune")
                 PROVE  PruneWith(a, "txindex")
      OBVIOUS
    <2>1. PICK i \in Given(args, "prune") : args[i].value \notin {"0", "1"}
      BY <1>5, <1>9
    <2>2. PICK j \in Given(args, "txindex") : args[j].value = "1"
      BY <1>5, <1>7
    <2>3. IsArgSet(args, "prune") /\ IsArgSet(args, "txindex")
      BY <2>1, <2>2 DEF IsArgSet
    <2>4. GetArg(args, "prune", "0") = args[i].value
      BY <2>3, <1>4, <1>12
    <2>5. GetArg(args, "txindex", "0") = args[j].value
      BY <2>3, <1>4, <1>12
    <2>6. GetArg(args, "prune", "0") # "0" /\ GetBoolArg(args, "txindex", FALSE)
      BY <2>1, <2>2, <2>3, <2>4, <2>5 DEF GetBoolArg, InterpretBool
    <2>7. QED BY <2>6, <1>3, Zenon DEF PruneWith, Soft
  <1>16. "peerBlockFiltersWithoutIndex" \in errors =>
            \/ FiltersWithoutIndex(a, {})
            \/ GetArg(a, "blockfilterindex", "0") = "basic"
            \/ Twice("peerblockfilters")
    <2> SUFFICES ASSUME "peerBlockFiltersWithoutIndex" \in errors,
                        GetArg(a, "blockfilterindex", "0") # "basic",
                        ~Twice("peerblockfilters")
                 PROVE  FiltersWithoutIndex(a, {})
      OBVIOUS
    <2>1. PICK j \in Given(args, "peerblockfilters") : args[j].value = "1"
      BY <1>5, <1>7
    <2>2. IsArgSet(args, "peerblockfilters")
      BY <2>1 DEF IsArgSet
    <2>3. GetArg(args, "peerblockfilters", "0") = args[j].value
      BY <2>2, <1>4, <1>12
    <2>4. GetBoolArg(args, "peerblockfilters", FALSE)
      BY <2>1, <2>2, <2>3 DEF GetBoolArg, InterpretBool
    <2>5. GetArg(args, "blockfilterindex", "0") = "0"
      <3>1. CASE IsArgSet(args, "blockfilterindex")
        <4>1. PICK k \in Given(args, "blockfilterindex") :
                  GetArg(args, "blockfilterindex", "0") = args[k].value
          BY <3>1, <1>4
        <4>2. args[k].value # "1"
          BY <1>5, <1>7
        <4>3. args[k].value # "basic"
          BY <4>1, <1>3 DEF Soft
        <4>4. QED BY <4>1, <4>2, <4>3, <1>11
      <3>2. CASE ~IsArgSet(args, "blockfilterindex")
        BY <3>2 DEF GetArg
      <3>3. QED BY <3>1, <3>2
    <2>6. FilterTypes(a, {}) = {}
      BY <2>5, <1>3 DEF FilterTypes, Soft
    <2>7. QED BY <2>4, <2>6, <1>3, Zenon DEF FiltersWithoutIndex, Soft
  <1>17. "rpcBindWithoutAllowIP" \notin warnings => GetArgs(a, "rpcbind") \subseteq HTTPAddresses(a)
    <2> SUFFICES ASSUME "rpcBindWithoutAllowIP" \notin warnings
                 PROVE  GetArgs(a, "rpcbind") \subseteq HTTPAddresses(a)
      OBVIOUS
    <2>1. IsArgSet(args, "rpcbind") => IsArgSet(args, "rpcallowip")
      BY <1>6, <1>8
    <2>2. IsArgSet(a, "rpcbind") => IsArgSet(a, "rpcallowip")
      BY <2>1, <1>3 DEF Soft
    <2>3. ~IsArgSet(a, "rpcbind") => GetArgs(a, "rpcbind") = {}
      BY DEF IsArgSet, GetArgs
    <2>4. QED BY <2>2, <2>3 DEF HTTPAddresses
  <1>18. ~Serves(a) /\ (\E key \in {"rpcbind", "rpcallowip", "rpcauth", "rpccookiefile"} :
                            IsArgSet(a, key)) =>
            "serverDisabledWithRPCOptions" \in warnings \/ Twice("server")
    <2> SUFFICES ASSUME ~Serves(a), ~Twice("server"),
                        NEW key \in {"rpcbind", "rpcallowip", "rpcauth", "rpccookiefile"},
                        IsArgSet(a, key)
                 PROVE  "serverDisabledWithRPCOptions" \in warnings
      OBVIOUS
    <2>1. key \in config.flags
      BY <1>3, <1>8 DEF Soft
    <2>2. IsArgSet(args, "server") /\ SameOption(args, a, "server")
      BY <1>2, Zenon DEF Serves
    <2>3. ~GetBoolArg(args, "server", FALSE)
      BY <2>2, <1>1, SameReads, Zenon DEF Serves
    <2>4. GetArg(args, "server", "0") = "0"
      BY <2>2, <2>3 DEF GetBoolArg, InterpretBool
    <2>5. PICK k \in Given(args, "server") : GetArg(args, "server", "0") = args[k].value
      BY <2>2, <1>4
    <2>6. "server" \notin config.flags
      BY <2>4, <2>5, <1>7, <1>12
    <2>7. QED BY <2>1, <2>6, <1>6
  <1>19. QED BY <1>13, <1>14, <1>15, <1>16, <1>17, <1>18
             DEF ConflictsCaught, a, args, errors, warnings

-----------------------------------------------------------------------------
(* Where the client looks for the server.                                  *)

\* What the caller alone is responsible for.
CallersObstacles == {"rpccookiefile", "address", "user"}

\* The client asks the port bitcoind serves, and reads the cookie it writes,
\* unless -rpccookiefile was given.
LEMMA EndpointDerived ==
    ASSUME NEW c, ConfigInv(c), c.dataDirectory # {}
    PROVE  Obstacles(c) \subseteq CallersObstacles
  <1> DEFINE a == c.args
             base == BaseParams(Chain(a))
  <1>1. NetworkAgrees(c) /\ LastAgrees(c)
    BY Zenon DEF ConfigInv
  <1>2. base.port = defaultRPCPort[c.network] /\ base.dir = dataDirName[c.network]
    <2>1. CASE c.network = "Mainnet"
      <3>1. Chain(a) = "main"
        BY <1>1, <2>1 DEF NetworkAgrees, Chain
      <3>2. QED BY <2>1, <3>1, Zenon DEF BaseParams, defaultRPCPort, dataDirName, Networks
    <2>2. CASE c.network = "Testnet"
      <3>1. Chain(a) = "test"
        BY <1>1, <2>2 DEF NetworkAgrees, Chain
      <3>2. QED BY <2>2, <3>1 DEF BaseParams, defaultRPCPort, dataDirName, Networks
    <2>3. CASE c.network = "Testnet4"
      <3>1. Chain(a) = "testnet4"
        BY <1>1, <2>3 DEF NetworkAgrees, Chain
      <3>2. QED BY <2>3, <3>1 DEF BaseParams, defaultRPCPort, dataDirName, Networks
    <2>4. CASE c.network = "Regtest"
      <3>1. Chain(a) = "regtest"
        BY <1>1, <2>4 DEF NetworkAgrees, Chain
      <3>2. QED BY <2>4, <3>1 DEF BaseParams, defaultRPCPort, dataDirName, Networks
    <2>5. CASE c.network = "Signet"
      <3>1. Chain(a) = "signet"
        BY <1>1, <2>5 DEF NetworkAgrees, Chain
      <3>2. QED BY <2>5, <3>1 DEF BaseParams, defaultRPCPort, dataDirName, Networks
    <2>6. QED BY <1>1, <2>1, <2>2, <2>3, <2>4, <2>5 DEF NetworkAgrees, Networks
  <1> HIDE DEF base
  <1>3. resolvedRPCPort(c) = HTTPPort(a)
    <2>1. CASE IsArgSet(a, "rpcport")
      <3>1. c.rpcPortOverride = {GetArg(a, "rpcport", "default")}
        BY <1>1, <2>1 DEF LastAgrees
      <3>2. GetArg(a, "rpcport", "default") = GetArg(a, "rpcport", base.port)
        BY <2>1 DEF GetArg
      <3>3. QED BY <3>1, <3>2, Zenon DEF resolvedRPCPort, HTTPPort, base
    <2>2. CASE ~IsArgSet(a, "rpcport")
      <3>1. c.rpcPortOverride = {}
        BY <1>1, <2>2 DEF LastAgrees
      <3>2. HTTPPort(a) = base.port
        BY <2>2, Zenon DEF HTTPPort, GetArg, base
      <3>3. QED BY <1>2, <3>1, <3>2 DEF resolvedRPCPort
    <2>3. QED BY <2>1, <2>2
  <1>4. ASSUME ~IsArgSet(a, "rpccookiefile") PROVE cookieURL(c) = AuthCookieFile(a)
    <2>1. c.dataDirectory = {GetArg(a, "datadir", "default")}
      BY <1>1 DEF LastAgrees
    <2>2. cookieURL(c) = <<GetArg(a, "datadir", "default"), dataDirName[c.network], ".cookie">>
      BY <2>1 DEF cookieURL
    <2>3. QED BY <1>2, <1>4, <2>2 DEF AuthCookieFile, base
  <1>5. "port" \notin Obstacles(c) /\ "cookie" \notin Obstacles(c)
    BY <1>3, <1>4 DEF Obstacles
  <1>6. QED BY <1>5, Zenon DEF Obstacles, CallersObstacles

-----------------------------------------------------------------------------
(* startAndConnect.                                                        *)

\* The poll of a call is a run of Daemon.poll; one that gave up did so at its
\* deadline.  A call that threw before it did anything never polled.
PollInv ==
    \/ /\ IInv /\ (stage = "build" => Init)
       /\ outcome \in {"lastError", "timedOut"} => now >= Timeout
    \/ pc = "done" /\ outcome \in {"missingDataDirectory", "ConfigError"} /\ stage # "build"

\* What the poll can see of the node, and since when.
NodeInv ==
    /\ node \in [state : {"none", "starting", "down", "up"}, fate : {node.fate},
                 fresh : {node.fresh}, filters : {node.filters}, serves : BOOLEAN,
                 obstacles : SUBSET CallersObstacles, upSince : Nat \cup {-1}]
    /\ node.state # "up" => node.upSince = -1 /\ upAt = -1
    /\ stage = "build" => node.state = "none"
    /\ node.state # "none" => outcome \notin {"missingDataDirectory", "ConfigError"}
    /\ node.state = "up" /\ node.serves /\ node.obstacles = {} =>
          upAt = node.upSince \/ (pc = "done" /\ node.upSince = now)

\* Which globals of bitcoind an earlier run may have left behind.
GlobalsInv ==
    /\ available \in BOOLEAN /\ failedToParse \in BOOLEAN /\ filtered \in BOOLEAN
    /\ node.state # "up" /\ available => failedToParse
    /\ filters # {} => filtered
    /\ RestartLikeFresh

ConnectInv == ConfigInv(config) /\ PollInv /\ NodeInv /\ GlobalsInv

\* The caller begins with a configuration that agrees with its command line.
LEMMA FirstConfigInv == \A c \in FirstConfigs : ConfigInv(c)
  <1> SUFFICES ASSUME NEW c \in FirstConfigs PROVE ConfigInv(c)
    OBVIOUS
  <1>1. Argument("datadir", "d1") \in Methods
    BY DEF Argument, Methods, CoreMethods
  <1>2. PICK n \in Networks : c = NewConfig(n) \/ c = Call(NewConfig(n), Argument("datadir", "d1"))
    BY DEF FirstConfigs
  <1>3. QED BY <1>1, <1>2, NewConfigInv, CallInv

\* No node has been started.
LEMMA NoNodeInv ==
    ASSUME node = NoNode, upAt = -1
    PROVE  NodeInv
  BY DEF NodeInv, NoNode, CallersObstacles

LEMMA ConnectInitInv == ConnectInit => ConnectInv
  <1> SUFFICES ASSUME ConnectInit PROVE ConnectInv
    OBVIOUS
  <1>1. ConfigInv(config)
    BY FirstConfigInv DEF ConnectInit
  <1>2. Init
    BY DEF ConnectInit
  <1>3. PollInv
    <2>1. IInv /\ outcome = "none"
      BY <1>2, InitInv DEF Init
    <2>2. QED BY <1>2, <2>1 DEF PollInv
  <1>4. NodeInv
    BY <1>2, NoNodeInv DEF ConnectInit, Init
  <1>5. GlobalsInv
    BY Zenon DEF ConnectInit, GlobalsInv, RestartLikeFresh, NoNode
  <1>6. QED BY <1>1, <1>3, <1>4, <1>5 DEF ConnectInv

\* Every step of poll, of the server, of the canceller and of time keeps PollInv.
LEMMA PollStepInv ==
    ASSUME PollInv, [Next]_vars, stage' = stage, stage = "call"
    PROVE  PollInv'
  <1>1. CASE IInv /\ (outcome \in {"lastError", "timedOut"} => now >= Timeout)
    <2>1. IInv'
      BY <1>1, StepInv
    <2>2. outcome' \in {"lastError", "timedOut"} => now' >= Timeout
      <3>1. CASE outcome' = outcome /\ now' = now
        BY <1>1, <3>1
      <3>2. CASE outcome' # outcome
        BY <3>2, <1>1 DEF Next, Loop, Leave, AttemptSucceeds, AttemptFails, Wake, ServerUp,
                          Cancel, Tick, Done, vars
      <3>3. CASE outcome' = outcome /\ now' # now
        <4>1. Tick
          BY <3>3 DEF Next, Loop, Leave, AttemptSucceeds, AttemptFails, Wake, ServerUp,
                      Cancel, Done, vars
        <4>2. now' = now + 1 /\ now \in Nat
          BY <4>1, <1>1 DEF Tick, IInv, TypeOK
        <4>3. QED BY <1>1, <3>3, <4>2, PollAssumption
      <3>4. QED BY <3>1, <3>2, <3>3
    <2>3. QED BY <2>1, <2>2 DEF PollInv
  <1>2. CASE pc = "done" /\ outcome \in {"missingDataDirectory", "ConfigError"}
    <2>1. pc' = pc /\ outcome' = outcome
      BY <1>2 DEF Next, Loop, AttemptSucceeds, AttemptFails, Wake, ServerUp, Cancel, Tick,
                  Done, vars
    <2>2. QED BY <1>2, <2>1 DEF PollInv
  <1>3. QED BY <1>1, <1>2 DEF PollInv

\* What the application does before the call leaves node, globals and poll alone.
LEMMA BuildKeeps ==
    ASSUME ConnectInv, Build
    PROVE  ConnectInv'
  <1>1. ConfigInv(config')
    BY CallInv, Zenon DEF ConnectInv, Build
  <1>2. UNCHANGED <<stage, node, available, filters, failedToParse, filtered, vars>>
    BY Zenon DEF Build, globals, history, pollVars, vars
  <1>3. PollInv'
    <2>1. IInv => IInv'
      BY <1>2, StepInv
    <2>2. Init => Init'
      BY <1>2 DEF Init, vars
    <2>3. QED BY <1>2, <2>1, <2>2 DEF ConnectInv, PollInv, vars
  <1>4. NodeInv' /\ GlobalsInv'
    BY <1>2 DEF ConnectInv, NodeInv, GlobalsInv, RestartLikeFresh, vars
  <1>5. QED BY <1>1, <1>3, <1>4, Zenon DEF ConnectInv

\* A call that throws starts no node.
LEMMA ThrowKeeps ==
    ASSUME ConnectInv, CallThrows
    PROVE  ConnectInv'
  <1>1. ConfigInv(config')
    BY NewConfigInv DEF ConnectInv, ConfigInv, NetworkAgrees, CallThrows
  <1>2. PollInv'
    BY DEF CallThrows, PollInv
  <1>3. UNCHANGED <<node, available, filters, failedToParse, filtered, now, upAt>>
    BY DEF CallThrows, globals, history
  <1>4. outcome' \in {"missingDataDirectory", "ConfigError"} /\ pc' = "done"
    BY DEF CallThrows
  <1>5. GlobalsInv'
    BY <1>3 DEF ConnectInv, GlobalsInv, RestartLikeFresh
  <1>6. NodeInv'
    <2>1. node.state = "none"
      BY DEF ConnectInv, NodeInv, CallThrows
    <2>2. QED BY <1>3, <1>4, <2>1 DEF ConnectInv, NodeInv
  <1>7. QED BY <1>1, <1>2, <1>5, <1>6, Zenon DEF ConnectInv

\* What the new node will come to is what it would come to in a new process,
\* unless an earlier run left something behind.
LEMMA StartKeeps ==
    ASSUME ConnectInv, CallStarts
    PROVE  ConnectInv'
  <1>1. ConfigInv(config')
    BY NewConfigInv, Zenon DEF ConnectInv, ConfigInv, NetworkAgrees, CallStarts
  <1>2. UNCHANGED <<available, filters, failedToParse, filtered, vars>> /\ stage' = "call"
    BY Zenon DEF CallStarts, globals, history, pollVars, vars
  <1>3. Init /\ IInv
    BY DEF ConnectInv, PollInv, CallStarts
  <1>4. PollInv'
    <2>1. IInv'
      BY <1>2, <1>3, StepInv
    <2>2. outcome' = "none"
      BY <1>2, <1>3, Zenon DEF Init, vars
    <2>3. QED BY <1>2, <2>1, <2>2 DEF PollInv
  <1>5. Obstacles(config) \subseteq CallersObstacles
    BY EndpointDerived, Zenon DEF ConnectInv, CallStarts
  <1>6. /\ node'.state = "starting" /\ node'.upSince = -1
        /\ node'.fate = Fate(config.args, available, filters)
        /\ node'.fresh = Fate(config.args, FALSE, {})
        /\ node' \in [state : {"none", "starting", "down", "up"}, fate : {node'.fate},
                      fresh : {node'.fresh}, filters : {node'.filters}, serves : BOOLEAN,
                      obstacles : SUBSET CallersObstacles, upSince : Nat \cup {-1}]
    <2>1. Serves(Interact(config.args)) \in BOOLEAN
      BY Zenon DEF Serves, GetBoolArg, InterpretBool
    <2>2. QED BY <1>5, <2>1 DEF CallStarts
  <1>7. NodeInv'
    <2>1. upAt' = -1 /\ outcome' = "none"
      BY <1>2, <1>3 DEF Init, vars
    <2>2. QED BY <1>2, <1>6, <2>1, Zenon DEF NodeInv
  <1>8. GlobalsInv'
    <2>1. node.state # "up"
      BY DEF ConnectInv, NodeInv, CallStarts
    <2>2. failedToParse \/ filtered \/ (available = FALSE /\ filters = {})
      BY <2>1 DEF ConnectInv, GlobalsInv
    <2>3. node'.fate = node'.fresh \/ failedToParse \/ filtered
      BY <1>6, <2>2, Zenon
    <2>4. QED BY <1>2, <1>6, <2>1, <2>3, Zenon DEF ConnectInv, GlobalsInv, RestartLikeFresh
  <1>9. QED BY <1>1, <1>4, <1>7, <1>8, Zenon DEF ConnectInv

\* The iterations of poll leave the node alone.
LEMMA PollKeeps ==
    ASSUME ConnectInv, Poll
    PROVE  ConnectInv'
  <1>1. UNCHANGED <<config, stage, node, available, filters, failedToParse, filtered>> /\ stage = "call"
    BY DEF Poll, globals, history
  <1>2. Next
    BY DEF Poll, Next
  <1>3. PollInv'
    BY <1>1, <1>2, PollStepInv DEF ConnectInv
  <1>4. upAt' = upAt
    BY DEF Poll, Loop, Leave, AttemptSucceeds, AttemptFails, Wake, Cancel, Tick
  <1>5. pc = "done" => pc' = pc /\ now' = now
    BY DEF Poll, Loop, AttemptSucceeds, AttemptFails, Wake, Cancel, Tick
  <1>6. outcome' = outcome \/ outcome' \notin {"missingDataDirectory", "ConfigError"}
    BY DEF Poll, Loop, Leave, AttemptSucceeds, AttemptFails, Wake, Cancel, Tick
  <1>7. NodeInv'
    <2>1. NodeInv
      BY DEF ConnectInv
    <2>2. node.state # "none" => outcome' \notin {"missingDataDirectory", "ConfigError"}
      BY <1>6, <2>1 DEF NodeInv
    <2>3. node.state = "up" /\ node.serves /\ node.obstacles = {} =>
              upAt' = node.upSince \/ (pc' = "done" /\ node.upSince = now')
      <3> SUFFICES ASSUME node.state = "up" /\ node.serves /\ node.obstacles = {}
                   PROVE  upAt' = node.upSince \/ (pc' = "done" /\ node.upSince = now')
        OBVIOUS
      <3>1. upAt = node.upSince \/ (pc = "done" /\ node.upSince = now)
        BY <2>1, Zenon DEF NodeInv
      <3>2. QED BY <1>4, <1>5, <3>1
    <2>4. QED BY <1>1, <1>4, <2>1, <2>2, <2>3 DEF NodeInv
  <1>8. GlobalsInv' /\ ConfigInv(config')
    BY <1>1 DEF ConnectInv, GlobalsInv, RestartLikeFresh
  <1>9. QED BY <1>3, <1>7, <1>8 DEF ConnectInv

\* A node that ends, with or without the process, is seen by nobody.
LEMMA FailureKeeps ==
    ASSUME ConnectInv, ProcessEnds \/ ParseArgsFails \/ AppInitFails
    PROVE  ConnectInv'
  <1>1. UNCHANGED <<config, vars>> /\ stage # "build" /\ stage' # "build"
    BY DEF ProcessEnds, ParseArgsFails, AppInitFails, pollVars, vars
  <1>2. PollInv'
    <2>1. IInv => IInv'
      BY <1>1, StepInv
    <2>2. QED BY <1>1, <2>1 DEF ConnectInv, PollInv, vars
  <1>3. node' = node \/ (node.state = "starting" /\ node' = [node EXCEPT !.state = "down"])
    BY DEF ProcessEnds, ParseArgsFails, AppInitFails
  <1>4. NodeInv'
    BY <1>1, <1>3 DEF ConnectInv, NodeInv, vars
  <1>5. node'.state \in {node.state, "down"}
    BY <1>3 DEF ConnectInv, NodeInv
  <1>6. GlobalsInv'
    <2>1. CASE ProcessEnds
      BY <2>1 DEF ProcessEnds, ConnectInv, GlobalsInv, RestartLikeFresh, globals, history
    <2>2. CASE ParseArgsFails
      BY <2>2, <1>5 DEF ParseArgsFails, ConnectInv, NodeInv, GlobalsInv, RestartLikeFresh
    <2>3. CASE AppInitFails
      <3>1. node'.state = "down"
        BY <2>3 DEF AppInitFails, ConnectInv, NodeInv
      <3>2. filtered' \in BOOLEAN /\ (filters' # {} => filtered') /\ (available' = FALSE)
            /\ failedToParse' = failedToParse
        BY <2>3, Zenon DEF AppInitFails, ConnectInv, GlobalsInv
      <3>3. QED BY <3>1, <3>2, Zenon DEF ConnectInv, GlobalsInv, RestartLikeFresh
    <2>4. QED BY <2>1, <2>2, <2>3
  <1>7. QED BY <1>1, <1>2, <1>4, <1>6 DEF ConnectInv

\* The server comes up, in time for the poll or after it.
LEMMA InitialisedKeeps ==
    ASSUME ConnectInv, Initialised
    PROVE  ConnectInv'
  <1>1. /\ node.state = "starting" /\ upAt = -1 /\ stage' = stage /\ stage = "call"
        /\ config' = config /\ outcome' = outcome /\ now' = now /\ pc' = pc
    BY DEF Initialised, ConnectInv, NodeInv
  <1>2. IInv
    BY <1>1 DEF ConnectInv, NodeInv, PollInv
  <1>3. now \in Nat
    BY <1>2 DEF IInv, TypeOK
  <1>4. node' = [node EXCEPT !.state = "up", !.upSince = now]
    BY DEF Initialised
  <1>5. PollInv'
    <2>1. ServerUp \/ UNCHANGED vars
      BY <1>1 DEF Initialised, ServerUp, vars
    <2>2. QED BY <1>1, <2>1, PollStepInv DEF ConnectInv, Next
  <1>6. NodeInv'
    <2>1. upAt' = IF pc # "done" /\ node.serves /\ node.obstacles = {} THEN now ELSE upAt
      BY DEF Initialised
    <2>2. node \in [state : {"none", "starting", "down", "up"}, fate : {node.fate},
                    fresh : {node.fresh}, filters : {node.filters}, serves : BOOLEAN,
                    obstacles : SUBSET CallersObstacles, upSince : Nat \cup {-1}]
      BY DEF ConnectInv, NodeInv
    <2>3. /\ node'.state = "up" /\ node'.upSince = now /\ node'.serves = node.serves
          /\ node'.obstacles = node.obstacles
          /\ node' \in [state : {"none", "starting", "down", "up"}, fate : {node'.fate},
                      fresh : {node'.fresh}, filters : {node'.filters}, serves : BOOLEAN,
                      obstacles : SUBSET CallersObstacles, upSince : Nat \cup {-1}]
      BY <1>3, <1>4, <2>2, Zenon
    <2>4. outcome' \notin {"missingDataDirectory", "ConfigError"}
      BY <1>1, Zenon DEF ConnectInv, NodeInv
    <2>5. QED BY <1>1, <2>1, <2>3, <2>4 DEF NodeInv
  <1>7. GlobalsInv'
    <2>1. node'.state = "up"
      BY <1>4 DEF ConnectInv, NodeInv
    <2>2. filtered' \in BOOLEAN /\ (filters' # {} => filtered') /\ available' = TRUE
          /\ failedToParse' = failedToParse
      BY Zenon DEF Initialised, ConnectInv, GlobalsInv
    <2>3. QED BY <2>1, <2>2 DEF ConnectInv, GlobalsInv, RestartLikeFresh
  <1>8. QED BY <1>1, <1>5, <1>6, <1>7 DEF ConnectInv

\* A stopped node leaves nothing of itself but the globals.
LEMMA StopKeeps ==
    ASSUME ConnectInv, Stop
    PROVE  ConnectInv'
  <1>1. ConfigInv(config')
    BY FirstConfigInv DEF Stop, Reset
  <1>2. Init'
    BY DEF Stop, Reset, Init
  <1>3. PollInv'
    <2>1. (Init => IInv)'
      BY InitInv, PTL
    <2>2. IInv' /\ outcome' = "none"
      BY <1>2, <2>1 DEF Init
    <2>3. QED BY <1>2, <2>2 DEF PollInv
  <1>4. NodeInv'
    <2>1. node' = NoNode /\ upAt' = -1
      BY DEF Stop, Reset
    <2>2. QED BY <2>1 DEF NodeInv, NoNode, CallersObstacles
  <1>5. GlobalsInv'
    <2>1. node'.state = "none" /\ UNCHANGED <<filters, failedToParse, filtered>>
      BY DEF Stop, Reset, NoNode, history
    <2>2. available' = IF node.state = "up" THEN FALSE ELSE available
      BY DEF Stop
    <2>3. QED BY <2>1, <2>2, Zenon DEF ConnectInv, GlobalsInv, RestartLikeFresh
  <1>6. QED BY <1>1, <1>3, <1>4, <1>5 DEF ConnectInv

\* Every step of the application, of the call and of bitcoind keeps it.
LEMMA ConnectStepInv == ConnectInv /\ [ConnectNext]_connectVars => ConnectInv'
  <1> SUFFICES ASSUME ConnectInv, [ConnectNext]_connectVars PROVE ConnectInv'
    OBVIOUS
  <1>1. CASE Build
    BY <1>1, BuildKeeps
  <1>2. CASE CallThrows
    BY <1>2, ThrowKeeps
  <1>3. CASE CallStarts
    BY <1>3, StartKeeps
  <1>4. CASE Poll
    BY <1>4, PollKeeps
  <1>5. CASE ProcessEnds \/ ParseArgsFails \/ AppInitFails
    BY <1>5, FailureKeeps
  <1>6. CASE Initialised
    BY <1>6, InitialisedKeeps
  <1>7. CASE Stop
    BY <1>7, StopKeeps
  <1>8. CASE UNCHANGED connectVars
    <2>1. UNCHANGED <<config, stage, node, available, filters, failedToParse, filtered, vars>>
      BY <1>8 DEF connectVars, globals, history, pollVars, vars
    <2>2. IInv => IInv'
      BY <2>1, StepInv
    <2>3. Init => Init'
      BY <2>1 DEF Init, vars
    <2>4. PollInv'
      BY <2>1, <2>2, <2>3, Zenon DEF ConnectInv, PollInv, vars
    <2>5. NodeInv' /\ GlobalsInv' /\ ConfigInv(config')
      BY <2>1 DEF ConnectInv, NodeInv, GlobalsInv, RestartLikeFresh, vars
    <2>6. QED BY <2>4, <2>5 DEF ConnectInv
  <1>9. QED
    BY <1>1, <1>2, <1>3, <1>4, <1>5, <1>6, <1>7, <1>8 DEF ConnectNext, ConnectDone

\* The invariant of the composition: the configuration agrees with its command
\* line, the poll with its own invariant, the node with what the poll can see.
THEOREM ConnectInvariant == ConnectSpec => []ConnectInv
  BY ConnectInitInv, ConnectStepInv, PTL DEF ConnectSpec

\* BitcoinConfig.validate() against bitcoind's own checks, after any number of
\* builder methods in any order: it throws for every conflict of -txindex with
\* automatic pruning and for every missing filter index, throws for nothing that
\* bitcoind accepts, and warns about what bitcoind ignores, up to the exceptions
\* ConflictsCaught names.
THEOREM ValidateCatchesConflicts == ConnectSpec => []ConflictsCaught
  <1>1. ConnectInv => ConflictsCaught
    BY Caught DEF ConnectInv
  <1>2. QED BY <1>1, ConnectInvariant, PTL

\* startAndConnect derives "the endpoint and cookie credentials from the config":
\* whatever was built and however long everything takes, an uncancelled call does
\* not time out on a node that serves in time, unless the caller moved the cookie,
\* the address or the user's rights.
THEOREM TimeoutsExplained == ConnectSpec => []TimeoutExplained
  <1>1. ConnectInv => TimeoutExplained
    <2> SUFFICES ASSUME ConnectInv,
                        outcome \in {"lastError", "timedOut"}, ~Cancelled,
                        node.serves, node.upSince >= 0,
                        node.upSince + AttemptBound + MaxDelay + MaxLateness < Timeout,
                        node.obstacles \cap CallersObstacles = {}
                 PROVE  FALSE
      BY DEF TimeoutExplained, CallersObstacles
    <2>1. node.obstacles = {} /\ node.upSince \in Nat /\ node.state = "up"
      <3>1. node.obstacles \subseteq CallersObstacles /\ node.upSince \in Nat \cup {-1}
        BY DEF ConnectInv, NodeInv
      <3>2. node.upSince # -1
        OBVIOUS
      <3>3. node.state = "up"
        BY <3>2 DEF ConnectInv, NodeInv
      <3>4. QED BY <3>1, <3>2, <3>3
    <2>2. IInv /\ now >= Timeout
      BY DEF ConnectInv, PollInv
    <2>3. upAt = node.upSince \/ node.upSince = now
      BY <2>1, Zenon DEF ConnectInv, NodeInv
    <2>4. CASE node.upSince = now
      BY <2>1, <2>2, <2>4, PollAssumption
    <2>5. CASE upAt = node.upSince
      <3>1. pc = "done"
        BY <2>2 DEF IInv, AtEnd
      <3>2. ServerFound
        BY <2>2, <3>1 DEF IInv, AtEnd
      <3>3. upAt >= 0
        BY <2>1, <2>5
      <3>4. upAt + AttemptBound + MaxDelay + MaxLateness >= Timeout
        BY <3>2, <3>3 DEF ServerFound
      <3>5. QED BY <2>1, <2>5, <3>4, PollAssumption
    <2>6. QED BY <2>3, <2>4, <2>5
  <1>2. QED BY <1>1, ConnectInvariant, PTL

\* bitcoind_main "can be called again within the same process": any number of
\* runs after each other come to what they would come to alone, unless ParseArgs
\* failed or a filter type was enabled in one of them.
THEOREM RestartsLikeFresh == ConnectSpec => []RestartLikeFresh
  <1>1. ConnectInv => RestartLikeFresh
    BY DEF ConnectInv, GlobalsInv
  <1>2. QED BY <1>1, ConnectInvariant, PTL

\* A cancelled startAndConnect throws CancellationError, unless the deadline passed
\* during the attempt that was running.
THEOREM ConnectCancellationSurfaces == ConnectSpec => []CancellationSurfaces
  <1>1. ConnectInv => CancellationSurfaces
    <2>1. IInv => CancellationSurfaces
      BY DEF IInv, AtEnd, CancellationSurfaces
    <2>2. outcome \in {"missingDataDirectory", "ConfigError"} => CancellationSurfaces
      BY DEF CancellationSurfaces
    <2>3. QED BY <2>1, <2>2 DEF ConnectInv, PollInv
  <1>2. QED BY <1>1, ConnectInvariant, PTL

=============================================================================
