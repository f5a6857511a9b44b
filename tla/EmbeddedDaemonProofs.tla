------------------------ MODULE EmbeddedDaemonProofs ------------------------
(***************************************************************************)
(* The embedded daemon for any number of runs, starters, waiters,          *)
(* bootstraps and direct calls: runs never overlap, and an application     *)
(* that keeps to the documented sequence can trust the join and the        *)
(* bridge.                                                                 *)
(*                                                                         *)
(* And the calls over that bridge, for any number of them and whatever     *)
(* becomes of its gate g_ready: DirectTransport.send resumes its           *)
(* continuation exactly once and frees every answer of bitcoin_rpc.        *)
(***************************************************************************)
EXTENDS EmbeddedDaemon, DirectTransport, TLAPS

\* The phases in which a run holds isRunning.
Holding == {"setup", "init", "rpc", "stop", "gone", "exit"}

\* isRunning is a token: it is in the hands of one call of start, or of the
\* latest run, or free.
TokenInv ==
    /\ \A s, t \in Starters : starter[s] = "claimed" /\ starter[t] = "claimed" => s = t
    /\ \A s \in Starters : starter[s] = "claimed" =>
          isRunning /\ \A g \in Gens : thread[g] \notin Holding
    /\ \A g \in Gens : thread[g] \in Holding => isRunning /\ g = gen
    /\ \A g \in Gens : g > gen => thread[g] = "none"

\* An application that joins before it starts again finds every earlier run
\* over, and the semaphore signalled only by the latest one.
JoinInv ==
    /\ \A g \in Gens : g < gen => thread[g] = "end"
    /\ finished > 0 => gen > 0 /\ thread[gen] = "end"
    /\ \A s \in Starters : starter[s] = "claimed" => gen = 0 \/ thread[gen] = "end"
    /\ \A w \in Waiters : wait[w].phase # "idle" => wait[w].gen \in 1 .. gen
    /\ \A w \in Waiters : wait[w].phase = "returned" => thread[wait[w].gen] = "end"

\* Between _bridge_init and the reset the node serves, and the bridge has it.
BridgeInv ==
    /\ \A b \in Bootstraps : init[b] # "idle" => Serving /\ shutdown = "no"
    /\ \A b \in Bootstraps : init[b] = "publish" => g_node_ctx = gen
    /\ g_ready => Serving /\ shutdown = "no" /\ g_node_ctx = gen
    /\ \A c \in Clients : call[c].phase # "idle" => g_ready
    /\ \A c \in Clients : call[c].phase = "executing" => call[c].ctx = gen
    /\ bootstrapped <= gen
    /\ gen > 0 /\ thread[gen] \in {"setup", "init"} => bootstrapped # gen
    /\ bootstrapped = gen /\ Serving /\ shutdown = "no" => g_ready

IInv ==
    /\ TypeOK
    /\ TokenInv
    /\ SocksUsable
    /\ habits = {} => JoinInv /\ BridgeInv

\* Before the first start nothing runs and the bridge is closed.
LEMMA InitInv == Init => IInv
  <1> SUFFICES ASSUME Init PROVE IInv
    OBVIOUS
  <1>1. TypeOK
    <2>1. thread \in [Gens -> Phases] /\ starter \in [Starters -> {"idle", "claimed"}]
      BY DEF Init, Phases
    <2>2. wait \in [Waiters -> [phase : {"idle", "waiting", "returned"}, gen : 0 .. MaxStarts]]
      BY DaemonAssumption DEF Init
    <2>3. call \in [Clients -> [phase : {"idle", "checked", "executing"}, ctx : 0 .. MaxStarts]]
      BY DaemonAssumption DEF Init
    <2>4. finished \in Nat /\ {gen, g_node_ctx, bootstrapped} \subseteq 0 .. MaxStarts
      BY DaemonAssumption DEF Init
    <2>5. {isRunning, registered, socksInterrupted, g_ready} \subseteq BOOLEAN
      BY Zenon DEF Init
    <2>6. QED BY <2>1, <2>2, <2>3, <2>4, <2>5 DEF Init, TypeOK
  <1>2. TokenInv /\ SocksUsable
    BY DEF Init, TokenInv, SocksUsable, Holding
  <1>3. JoinInv
    BY DaemonAssumption DEF Init, JoinInv, Gens
  <1>4. BridgeInv
    BY DEF Init, BridgeInv, Serving
  <1>5. QED BY <1>1, <1>2, <1>3, <1>4 DEF IInv

\* Every step keeps the types.
LEMMA TypeStep == IInv /\ [Next]_<<vars, habits>> => TypeOK'
  <1> SUFFICES ASSUME IInv, [Next]_<<vars, habits>> PROVE TypeOK'
    OBVIOUS
  <1> USE DaemonAssumption DEF IInv, TypeOK, Gens, Phases, threadVars, bridge
  <1>1. ASSUME NEW s \in Starters, Start(s), UNCHANGED habits PROVE TypeOK'
    BY <1>1 DEF Start
  <1>2. ASSUME NEW s \in Starters, Drain(s), UNCHANGED habits PROVE TypeOK'
    BY <1>2 DEF Drain
  <1>3. ASSUME NEW s \in Starters, Launch(s), UNCHANGED habits PROVE TypeOK'
    BY <1>3 DEF Launch
  <1>4. ASSUME NEW w \in Waiters, WaitUntilStopped(w), UNCHANGED habits PROVE TypeOK'
    BY <1>4 DEF WaitUntilStopped
  <1>5. ASSUME NEW w \in Waiters, WaitReturns(w), UNCHANGED habits PROVE TypeOK'
    BY <1>5 DEF WaitReturns
  <1>6. ASSUME NEW g \in Gens, SetUp(g), UNCHANGED habits PROVE TypeOK'
    BY <1>6, Zenon DEF SetUp, Move
  <1>7. ASSUME NEW g \in Gens, AppInit(g), UNCHANGED habits PROVE TypeOK'
    BY ZenonT(60), <1>7 DEF AppInit, Move
  <1>8. ASSUME NEW g \in Gens, Stop(g), UNCHANGED habits PROVE TypeOK'
    BY <1>8 DEF Stop, Move
  <1>9. ASSUME NEW g \in Gens, Destroy(g), UNCHANGED habits PROVE TypeOK'
    BY <1>9 DEF Destroy, Move
  <1>10. ASSUME NEW g \in Gens, MainReturns(g), UNCHANGED habits PROVE TypeOK'
    BY <1>10 DEF MainReturns, Move
  <1>11. ASSUME NEW g \in Gens, ClearRunning(g), UNCHANGED habits PROVE TypeOK'
    BY <1>11, Zenon DEF ClearRunning, Move
  <1>12. ASSUME NEW g \in Gens, Signal(g), UNCHANGED habits PROVE TypeOK'
    BY <1>12 DEF Signal, Move
  <1>13. ASSUME NEW b \in Bootstraps, BridgeInit(b), UNCHANGED habits PROVE TypeOK'
    BY <1>13 DEF BridgeInit
  <1>14. ASSUME NEW b \in Bootstraps, BridgeStore(b), UNCHANGED habits PROVE TypeOK'
    BY <1>14 DEF BridgeStore
  <1>15. ASSUME NEW b \in Bootstraps, BridgePublish(b), UNCHANGED habits PROVE TypeOK'
    BY <1>15 DEF BridgePublish
  <1>16. ASSUME ResetReady, UNCHANGED habits PROVE TypeOK'
    BY <1>16, Zenon DEF ResetReady
  <1>17. ASSUME ResetContext, UNCHANGED habits PROVE TypeOK'
    BY <1>17 DEF ResetContext
  <1>18. ASSUME NEW c \in Clients, Call(c), UNCHANGED habits PROVE TypeOK'
    BY <1>18 DEF Call
  <1>19. ASSUME NEW c \in Clients, CallLoad(c), UNCHANGED habits PROVE TypeOK'
    BY <1>19 DEF CallLoad
  <1>20. ASSUME NEW c \in Clients, CallReturns(c), UNCHANGED habits PROVE TypeOK'
    BY <1>20 DEF CallReturns
  <1>21. CASE UNCHANGED <<vars, habits>>
    BY <1>21, Zenon DEF vars
  <1>22. QED
    BY <1>1, <1>2, <1>3, <1>4, <1>5, <1>6, <1>7, <1>8, <1>9, <1>10, <1>11,
       <1>12, <1>13, <1>14, <1>15, <1>16, <1>17, <1>18, <1>19, <1>20, <1>21
    DEF Next, ThreadStep, Done

\* The token: start takes it only when it is free, and a thread gives it back last.
LEMMA TokenStep == IInv /\ [Next]_<<vars, habits>> => TokenInv'
  <1> SUFFICES ASSUME IInv, [Next]_<<vars, habits>> PROVE TokenInv'
    OBVIOUS
  <1> USE DaemonAssumption
          DEF IInv, TypeOK, TokenInv, Holding, Gens, Phases, threadVars, bridge
  <1>1. ASSUME NEW s \in Starters, Start(s), UNCHANGED habits PROVE TokenInv'
    BY <1>1 DEF Start
  <1>2. ASSUME NEW s \in Starters, Drain(s), UNCHANGED habits PROVE TokenInv'
    BY <1>2 DEF Drain
  <1>3. ASSUME NEW s \in Starters, Launch(s), UNCHANGED habits PROVE TokenInv'
    BY <1>3 DEF Launch
  <1>4. ASSUME NEW w \in Waiters, WaitUntilStopped(w), UNCHANGED habits PROVE TokenInv'
    BY <1>4 DEF WaitUntilStopped
  <1>5. ASSUME NEW w \in Waiters, WaitReturns(w), UNCHANGED habits PROVE TokenInv'
    BY <1>5 DEF WaitReturns
  <1>6. ASSUME NEW g \in Gens, SetUp(g), UNCHANGED habits PROVE TokenInv'
    BY <1>6 DEF SetUp, Move
  <1>7. ASSUME NEW g \in Gens, AppInit(g), UNCHANGED habits PROVE TokenInv'
    BY <1>7 DEF AppInit, Move
  <1>8. ASSUME NEW g \in Gens, Stop(g), UNCHANGED habits PROVE TokenInv'
    BY <1>8 DEF Stop, Move
  <1>9. ASSUME NEW g \in Gens, Destroy(g), UNCHANGED habits PROVE TokenInv'
    BY <1>9 DEF Destroy, Move
  <1>10. ASSUME NEW g \in Gens, MainReturns(g), UNCHANGED habits PROVE TokenInv'
    BY <1>10 DEF MainReturns, Move
  <1>11. ASSUME NEW g \in Gens, ClearRunning(g), UNCHANGED habits PROVE TokenInv'
    BY <1>11 DEF ClearRunning, Move
  <1>12. ASSUME NEW g \in Gens, Signal(g), UNCHANGED habits PROVE TokenInv'
    BY <1>12 DEF Signal, Move
  <1>13. ASSUME NEW b \in Bootstraps, BridgeInit(b), UNCHANGED habits PROVE TokenInv'
    BY <1>13 DEF BridgeInit
  <1>14. ASSUME NEW b \in Bootstraps, BridgeStore(b), UNCHANGED habits PROVE TokenInv'
    BY <1>14 DEF BridgeStore
  <1>15. ASSUME NEW b \in Bootstraps, BridgePublish(b), UNCHANGED habits PROVE TokenInv'
    BY <1>15 DEF BridgePublish
  <1>16. ASSUME ResetReady, UNCHANGED habits PROVE TokenInv'
    BY <1>16 DEF ResetReady
  <1>17. ASSUME ResetContext, UNCHANGED habits PROVE TokenInv'
    BY <1>17 DEF ResetContext
  <1>18. ASSUME NEW c \in Clients, Call(c), UNCHANGED habits PROVE TokenInv'
    BY <1>18 DEF Call
  <1>19. ASSUME NEW c \in Clients, CallLoad(c), UNCHANGED habits PROVE TokenInv'
    BY <1>19 DEF CallLoad
  <1>20. ASSUME NEW c \in Clients, CallReturns(c), UNCHANGED habits PROVE TokenInv'
    BY <1>20 DEF CallReturns
  <1>21. CASE UNCHANGED <<vars, habits>>
    BY <1>21 DEF vars
  <1>22. QED
    BY <1>1, <1>2, <1>3, <1>4, <1>5, <1>6, <1>7, <1>8, <1>9, <1>10, <1>11,
       <1>12, <1>13, <1>14, <1>15, <1>16, <1>17, <1>18, <1>19, <1>20, <1>21
    DEF Next, ThreadStep, Done

\* Only the run that holds the token touches the SOCKS5 flag.
LEMMA SocksStep == IInv /\ [Next]_<<vars, habits>> => SocksUsable'
  <1> SUFFICES ASSUME IInv, [Next]_<<vars, habits>> PROVE SocksUsable'
    OBVIOUS
  <1> USE DaemonAssumption
          DEF IInv, TypeOK, TokenInv, Holding, SocksUsable, Gens, Phases, threadVars, bridge
  <1>1. ASSUME NEW s \in Starters, Start(s), UNCHANGED habits PROVE SocksUsable'
    BY <1>1 DEF Start
  <1>2. ASSUME NEW s \in Starters, Drain(s), UNCHANGED habits PROVE SocksUsable'
    BY <1>2 DEF Drain
  <1>3. ASSUME NEW s \in Starters, Launch(s), UNCHANGED habits PROVE SocksUsable'
    BY <1>3 DEF Launch
  <1>4. ASSUME NEW w \in Waiters, WaitUntilStopped(w), UNCHANGED habits
        PROVE SocksUsable'
    BY <1>4 DEF WaitUntilStopped
  <1>5. ASSUME NEW w \in Waiters, WaitReturns(w), UNCHANGED habits PROVE SocksUsable'
    BY <1>5 DEF WaitReturns
  <1>6. ASSUME NEW g \in Gens, SetUp(g), UNCHANGED habits PROVE SocksUsable'
    BY <1>6 DEF SetUp, Move
  <1>7. ASSUME NEW g \in Gens, AppInit(g), UNCHANGED habits PROVE SocksUsable'
    BY SMTT(60), <1>7 DEF AppInit, Move
  <1>8. ASSUME NEW g \in Gens, Stop(g), UNCHANGED habits PROVE SocksUsable'
    BY <1>8 DEF Stop, Move
  <1>9. ASSUME NEW g \in Gens, Destroy(g), UNCHANGED habits PROVE SocksUsable'
    BY <1>9 DEF Destroy, Move
  <1>10. ASSUME NEW g \in Gens, MainReturns(g), UNCHANGED habits PROVE SocksUsable'
    BY <1>10 DEF MainReturns, Move
  <1>11. ASSUME NEW g \in Gens, ClearRunning(g), UNCHANGED habits PROVE SocksUsable'
    BY <1>11 DEF ClearRunning, Move
  <1>12. ASSUME NEW g \in Gens, Signal(g), UNCHANGED habits PROVE SocksUsable'
    BY <1>12 DEF Signal, Move
  <1>13. ASSUME NEW b \in Bootstraps, BridgeInit(b), UNCHANGED habits PROVE SocksUsable'
    BY <1>13 DEF BridgeInit
  <1>14. ASSUME NEW b \in Bootstraps, BridgeStore(b), UNCHANGED habits
         PROVE SocksUsable'
    BY <1>14 DEF BridgeStore
  <1>15. ASSUME NEW b \in Bootstraps, BridgePublish(b), UNCHANGED habits
         PROVE SocksUsable'
    BY <1>15 DEF BridgePublish
  <1>16. ASSUME ResetReady, UNCHANGED habits PROVE SocksUsable'
    BY <1>16 DEF ResetReady
  <1>17. ASSUME ResetContext, UNCHANGED habits PROVE SocksUsable'
    BY <1>17 DEF ResetContext
  <1>18. ASSUME NEW c \in Clients, Call(c), UNCHANGED habits PROVE SocksUsable'
    BY <1>18 DEF Call
  <1>19. ASSUME NEW c \in Clients, CallLoad(c), UNCHANGED habits PROVE SocksUsable'
    BY <1>19 DEF CallLoad
  <1>20. ASSUME NEW c \in Clients, CallReturns(c), UNCHANGED habits PROVE SocksUsable'
    BY <1>20 DEF CallReturns
  <1>21. CASE UNCHANGED <<vars, habits>>
    BY <1>21 DEF vars
  <1>22. QED
    BY <1>1, <1>2, <1>3, <1>4, <1>5, <1>6, <1>7, <1>8, <1>9, <1>10, <1>11,
       <1>12, <1>13, <1>14, <1>15, <1>16, <1>17, <1>18, <1>19, <1>20, <1>21
    DEF Next, ThreadStep, Done

\* The semaphore, for an application that joins.
LEMMA JoinStep == IInv /\ [Next]_<<vars, habits>> => (habits = {} => JoinInv)'
  <1> SUFFICES ASSUME IInv, [Next]_<<vars, habits>> PROVE (habits = {} => JoinInv)'
    OBVIOUS
  <1> USE DaemonAssumption
          DEF IInv, TypeOK, TokenInv, Holding, JoinInv, Gens, Phases, Joined, threadVars, bridge
  <1>1. ASSUME NEW s \in Starters, Start(s), UNCHANGED habits
        PROVE (habits = {} => JoinInv)'
    BY <1>1 DEF Start
  <1>2. ASSUME NEW s \in Starters, Drain(s), UNCHANGED habits
        PROVE (habits = {} => JoinInv)'
    BY <1>2 DEF Drain
  <1>3. ASSUME NEW s \in Starters, Launch(s), UNCHANGED habits
        PROVE (habits = {} => JoinInv)'
    BY <1>3 DEF Launch
  <1>4. ASSUME NEW w \in Waiters, WaitUntilStopped(w), UNCHANGED habits
        PROVE (habits = {} => JoinInv)'
    BY <1>4 DEF WaitUntilStopped
  <1>5. ASSUME NEW w \in Waiters, WaitReturns(w), UNCHANGED habits
        PROVE (habits = {} => JoinInv)'
    BY <1>5 DEF WaitReturns
  <1>6. ASSUME NEW g \in Gens, SetUp(g), UNCHANGED habits
        PROVE (habits = {} => JoinInv)'
    BY <1>6 DEF SetUp, Move
  <1>7. ASSUME NEW g \in Gens, AppInit(g), UNCHANGED habits
        PROVE (habits = {} => JoinInv)'
    BY <1>7 DEF AppInit, Move
  <1>8. ASSUME NEW g \in Gens, Stop(g), UNCHANGED habits PROVE (habits = {} => JoinInv)'
    BY <1>8 DEF Stop, Move
  <1>9. ASSUME NEW g \in Gens, Destroy(g), UNCHANGED habits
        PROVE (habits = {} => JoinInv)'
    BY <1>9 DEF Destroy, Move
  <1>10. ASSUME NEW g \in Gens, MainReturns(g), UNCHANGED habits
         PROVE (habits = {} => JoinInv)'
    BY <1>10 DEF MainReturns, Move
  <1>11. ASSUME NEW g \in Gens, ClearRunning(g), UNCHANGED habits
         PROVE (habits = {} => JoinInv)'
    BY <1>11 DEF ClearRunning, Move
  <1>12. ASSUME NEW g \in Gens, Signal(g), UNCHANGED habits
         PROVE (habits = {} => JoinInv)'
    BY <1>12 DEF Signal, Move
  <1>13. ASSUME NEW b \in Bootstraps, BridgeInit(b), UNCHANGED habits
         PROVE (habits = {} => JoinInv)'
    BY <1>13 DEF BridgeInit
  <1>14. ASSUME NEW b \in Bootstraps, BridgeStore(b), UNCHANGED habits
         PROVE (habits = {} => JoinInv)'
    BY <1>14 DEF BridgeStore
  <1>15. ASSUME NEW b \in Bootstraps, BridgePublish(b), UNCHANGED habits
         PROVE (habits = {} => JoinInv)'
    BY <1>15 DEF BridgePublish
  <1>16. ASSUME ResetReady, UNCHANGED habits PROVE (habits = {} => JoinInv)'
    BY <1>16 DEF ResetReady
  <1>17. ASSUME ResetContext, UNCHANGED habits PROVE (habits = {} => JoinInv)'
    BY <1>17 DEF ResetContext
  <1>18. ASSUME NEW c \in Clients, Call(c), UNCHANGED habits
         PROVE (habits = {} => JoinInv)'
    BY <1>18 DEF Call
  <1>19. ASSUME NEW c \in Clients, CallLoad(c), UNCHANGED habits
         PROVE (habits = {} => JoinInv)'
    BY <1>19 DEF CallLoad
  <1>20. ASSUME NEW c \in Clients, CallReturns(c), UNCHANGED habits
         PROVE (habits = {} => JoinInv)'
    BY <1>20 DEF CallReturns
  <1>21. CASE UNCHANGED <<vars, habits>>
    BY <1>21, Zenon DEF vars
  <1>22. QED
    BY <1>1, <1>2, <1>3, <1>4, <1>5, <1>6, <1>7, <1>8, <1>9, <1>10, <1>11,
       <1>12, <1>13, <1>14, <1>15, <1>16, <1>17, <1>18, <1>19, <1>20, <1>21, Zenon
    DEF Next, ThreadStep, Done

\* The bridge, for an application that keeps to the sequence.
LEMMA BridgeStep == IInv /\ [Next]_<<vars, habits>> => (habits = {} => BridgeInv)'
  <1> SUFFICES ASSUME IInv, [Next]_<<vars, habits>> PROVE (habits = {} => BridgeInv)'
    OBVIOUS
  <1> USE DaemonAssumption
          DEF IInv, TypeOK, TokenInv, Holding, JoinInv, BridgeInv, Serving, Gens, Phases, threadVars, bridge
  <1>1. ASSUME NEW s \in Starters, Start(s), UNCHANGED habits
        PROVE (habits = {} => BridgeInv)'
    BY <1>1 DEF Start
  <1>2. ASSUME NEW s \in Starters, Drain(s), UNCHANGED habits
        PROVE (habits = {} => BridgeInv)'
    BY <1>2 DEF Drain
  <1>3. ASSUME NEW s \in Starters, Launch(s), UNCHANGED habits
        PROVE (habits = {} => BridgeInv)'
    BY <1>3 DEF Launch
  <1>4. ASSUME NEW w \in Waiters, WaitUntilStopped(w), UNCHANGED habits
        PROVE (habits = {} => BridgeInv)'
    BY <1>4 DEF WaitUntilStopped
  <1>5. ASSUME NEW w \in Waiters, WaitReturns(w), UNCHANGED habits
        PROVE (habits = {} => BridgeInv)'
    BY <1>5 DEF WaitReturns
  <1>6. ASSUME NEW g \in Gens, SetUp(g), UNCHANGED habits
        PROVE (habits = {} => BridgeInv)'
    BY <1>6 DEF SetUp, Move
  <1>7. ASSUME NEW g \in Gens, AppInit(g), UNCHANGED habits
        PROVE (habits = {} => BridgeInv)'
    BY <1>7 DEF AppInit, Move
  <1>8. ASSUME NEW g \in Gens, Stop(g), UNCHANGED habits
        PROVE (habits = {} => BridgeInv)'
    BY <1>8 DEF Stop, Move
  <1>9. ASSUME NEW g \in Gens, Destroy(g), UNCHANGED habits
        PROVE (habits = {} => BridgeInv)'
    BY <1>9 DEF Destroy, Move
  <1>10. ASSUME NEW g \in Gens, MainReturns(g), UNCHANGED habits
         PROVE (habits = {} => BridgeInv)'
    BY <1>10 DEF MainReturns, Move
  <1>11. ASSUME NEW g \in Gens, ClearRunning(g), UNCHANGED habits
         PROVE (habits = {} => BridgeInv)'
    BY <1>11 DEF ClearRunning, Move
  <1>12. ASSUME NEW g \in Gens, Signal(g), UNCHANGED habits
         PROVE (habits = {} => BridgeInv)'
    BY <1>12 DEF Signal, Move
  <1>13. ASSUME NEW b \in Bootstraps, BridgeInit(b), UNCHANGED habits
         PROVE (habits = {} => BridgeInv)'
    BY <1>13 DEF BridgeInit
  <1>14. ASSUME NEW b \in Bootstraps, BridgeStore(b), UNCHANGED habits
         PROVE (habits = {} => BridgeInv)'
    BY <1>14 DEF BridgeStore
  <1>15. ASSUME NEW b \in Bootstraps, BridgePublish(b), UNCHANGED habits
         PROVE (habits = {} => BridgeInv)'
    BY <1>15 DEF BridgePublish
  <1>16. ASSUME ResetReady, UNCHANGED habits PROVE (habits = {} => BridgeInv)'
    BY <1>16 DEF ResetReady
  <1>17. ASSUME ResetContext, UNCHANGED habits PROVE (habits = {} => BridgeInv)'
    BY <1>17 DEF ResetContext
  <1>18. ASSUME NEW c \in Clients, Call(c), UNCHANGED habits
         PROVE (habits = {} => BridgeInv)'
    BY <1>18 DEF Call
  <1>19. ASSUME NEW c \in Clients, CallLoad(c), UNCHANGED habits
         PROVE (habits = {} => BridgeInv)'
    BY <1>19 DEF CallLoad
  <1>20. ASSUME NEW c \in Clients, CallReturns(c), UNCHANGED habits
         PROVE (habits = {} => BridgeInv)'
    BY <1>20 DEF CallReturns
  <1>21. CASE UNCHANGED <<vars, habits>>
    BY <1>21 DEF vars
  <1>22. QED
    BY <1>1, <1>2, <1>3, <1>4, <1>5, <1>6, <1>7, <1>8, <1>9, <1>10, <1>11,
       <1>12, <1>13, <1>14, <1>15, <1>16, <1>17, <1>18, <1>19, <1>20, <1>21, Zenon
    DEF Next, ThreadStep, Done

\* The invariant of the daemon: the flag isRunning is one token, and for an
\* application that keeps to the sequence join and bridge follow the latest run.
THEOREM DaemonInvariant == Spec => []IInv
  <1>1. IInv /\ [Next]_<<vars, habits>> => IInv'
    BY TypeStep, TokenStep, SocksStep, JoinStep, BridgeStep DEF IInv
  <1>2. QED
    BY InitInv, <1>1, PTL DEF Spec

\* "One daemon runs per process", for any use of Daemon by any number of tasks.
THEOREM RunsNeverOverlap == Spec => []OneInstance
  <1>1. IInv => OneInstance
    BY DEF IInv, TokenInv, OneInstance, InMain, Holding
  <1>2. QED
    BY <1>1, DaemonInvariant, PTL

\* No run of bitcoind starts up or serves with the SOCKS5 interrupt of the one
\* before, for any use.
THEOREM SocksAlwaysUsable == Spec => []SocksUsable
  <1>1. IInv => SocksUsable
    BY DEF IInv
  <1>2. QED
    BY <1>1, DaemonInvariant, PTL

\* waitUntilStopped means stopped, for an application that keeps to the sequence
\* in Daemon.swift.
THEOREM JoinIsFinal == Spec => []JoinMeansStopped
  <1>1. IInv => JoinMeansStopped
    BY DEF IInv, JoinInv, JoinMeansStopped
  <1>2. QED
    BY <1>1, DaemonInvariant, PTL

\* Under the same sequence the open bridge leads to the node that serves.
THEOREM BridgeIsCurrent == Spec => []BridgeServesLiveNode
  <1>1. IInv => BridgeServesLiveNode
    BY DEF IInv, BridgeInv, BridgeServesLiveNode
  <1>2. QED
    BY <1>1, DaemonInvariant, PTL

\* Under the same sequence no direct call meets a node that is torn down.
THEOREM DirectCallsMeetLiveNode == Spec => []NoTornDownContext
  <1>1. IInv => NoTornDownContext
    BY DEF IInv, BridgeInv, NoTornDownContext, Serving
  <1>2. QED
    BY <1>1, DaemonInvariant, PTL

\* Under the same sequence a bootstrapped node is reached directly.
THEOREM BootstrappedIsDirect == Spec => []BootstrapMeansDirect
  <1>1. IInv => BootstrapMeansDirect
    BY DEF IInv, BridgeInv, BootstrapMeansDirect
  <1>2. QED
    BY <1>1, DaemonInvariant, PTL

-----------------------------------------------------------------------------
(* The calls over the bridge. *)

\* What the flag of a call stands for: it is claimed exactly while the closure
\* is about to resume the caller or the caller has been resumed, and an answer
\* is on the heap exactly between bitcoin_rpc's return and the closure's end.
CallInv(c) ==
    /\ rpc[c] = "none" => ~resumed[c] /\ timer[c] = "none"
    /\ caller[c] \in {"idle", "direct"} => rpc[c] = "none"
    /\ rpc[c] = "none" => caller[c] # "waiting" /\ resumes[c] = 0 /\ outcome[c] # "data"
    /\ rpc[c] = "won" => resumed[c] /\ caller[c] = "waiting"
    /\ rpc[c] = "over" => resumed[c]
    /\ rpc[c] # "none" /\ ~resumed[c] => caller[c] = "waiting"
    /\ resumed[c] /\ rpc[c] # "won" => caller[c] = "resumed"
    /\ rpc[c] # "none" => resumes[c] = IF caller[c] = "resumed" THEN 1 ELSE 0
    /\ heap[c] = IF rpc[c] \in {"returned", "won"} /\ result[c] = "envelope" THEN 1 ELSE 0
    /\ outcome[c] = "data" => rpc[c] = "over"

SendsInv == DirectTypeOK /\ \A c \in Sends : CallInv(c)

\* Nothing has been dispatched before the first call.
LEMMA InitSendsInv == DirectInit => SendsInv
  BY DEF DirectInit, SendsInv, DirectTypeOK, CallInv, Outcomes

\* What a step of one call leaves alone: the other calls.
SameCall(d) ==
    /\ caller'[d] = caller[d] /\ rpc'[d] = rpc[d] /\ timer'[d] = timer[d]
    /\ resumed'[d] = resumed[d] /\ result'[d] = result[d] /\ heap'[d] = heap[d]
    /\ resumes'[d] = resumes[d] /\ outcome'[d] = outcome[d]

\* A call nobody touched keeps its invariant.
LEMMA SameCallInv ==
    ASSUME NEW d \in Sends, CallInv(d), SameCall(d)
    PROVE  CallInv(d)'
  BY Zenon DEF CallInv, SameCall

\* Every step of the caller, the closure and the timer keeps the invariant.
LEMMA StepSendsInv == SendsInv /\ [DirectNext]_directVars => SendsInv'
  <1> SUFFICES ASSUME SendsInv, [DirectNext]_directVars PROVE SendsInv'
    OBVIOUS
  <1> USE DEF SendsInv, Outcomes
  <1>1. ASSUME NEW c \in Sends, Send(c) PROVE SendsInv'
    <2>1. DirectTypeOK'
      BY <1>1 DEF Send, DirectTypeOK
    <2>2. CallInv(c)'
      BY <1>1 DEF Send, DirectTypeOK, CallInv
    <2>3. ASSUME NEW d \in Sends, d # c PROVE SameCall(d)
      BY <1>1, <2>3 DEF Send, DirectTypeOK, SameCall
    <2>4. QED BY <2>1, <2>2, <2>3, SameCallInv
  <1>2. ASSUME NEW c \in Sends, Dispatch(c) PROVE SendsInv'
    <2>1. DirectTypeOK'
      BY <1>2, Zenon DEF Dispatch, DirectTypeOK
    <2>2. CallInv(c)'
      BY <1>2 DEF Dispatch, DirectTypeOK, CallInv
    <2>3. ASSUME NEW d \in Sends, d # c PROVE SameCall(d)
      BY <1>2, <2>3 DEF Dispatch, DirectTypeOK, SameCall
    <2>4. QED BY <2>1, <2>2, <2>3, SameCallInv
  <1>3. ASSUME NEW c \in Sends, RpcStarts(c) PROVE SendsInv'
    <2>1. DirectTypeOK'
      BY <1>3 DEF RpcStarts, DirectTypeOK
    <2>2. CallInv(c)'
      BY <1>3 DEF RpcStarts, DirectTypeOK, CallInv
    <2>3. ASSUME NEW d \in Sends, d # c PROVE SameCall(d)
      BY <1>3, <2>3 DEF RpcStarts, DirectTypeOK, SameCall
    <2>4. QED BY <2>1, <2>2, <2>3, SameCallInv
  <1>4. ASSUME NEW c \in Sends, RpcReturns(c) PROVE SendsInv'
    <2>0. heap[c] = 0
      BY <1>4 DEF RpcReturns, DirectTypeOK, CallInv
    <2>1. DirectTypeOK'
      BY <1>4, <2>0 DEF RpcReturns, DirectTypeOK
    <2>2. CallInv(c)'
      BY <1>4, <2>0 DEF RpcReturns, DirectTypeOK, CallInv
    <2>3. ASSUME NEW d \in Sends, d # c PROVE SameCall(d)
      BY <1>4, <2>3 DEF RpcReturns, DirectTypeOK, SameCall
    <2>4. QED BY <2>1, <2>2, <2>3, SameCallInv
  <1>5. ASSUME NEW c \in Sends, RpcClaims(c) PROVE SendsInv'
    <2>0. heap[c] = IF result[c] = "envelope" THEN 1 ELSE 0
      BY <1>5 DEF RpcClaims, DirectTypeOK, CallInv
    <2>1. DirectTypeOK'
      <3>1. CASE resumed[c]
        BY <1>5, <2>0, <3>1 DEF RpcClaims, FreeResult, DirectTypeOK
      <3>2. CASE ~resumed[c]
        <4>1. timer'[c] \in {"none", "armed", "running", "cancelled", "over"}
          BY <1>5, <3>2 DEF RpcClaims, DirectTypeOK
        <4>2. QED BY <1>5, <3>2, <4>1, Zenon DEF RpcClaims, DirectTypeOK
      <3>3. QED BY <3>1, <3>2
    <2>2. CallInv(c)'
      BY <1>5, <2>0 DEF RpcClaims, FreeResult, DirectTypeOK, CallInv
    <2>3. ASSUME NEW d \in Sends, d # c PROVE SameCall(d)
      BY <1>5, <2>3 DEF RpcClaims, FreeResult, DirectTypeOK, SameCall
    <2>4. QED BY <2>1, <2>2, <2>3, SameCallInv
  <1>6. ASSUME NEW c \in Sends, RpcResumes(c) PROVE SendsInv'
    <2>0. /\ heap[c] = IF result[c] = "envelope" THEN 1 ELSE 0
          /\ resumes[c] = 0
      BY <1>6 DEF RpcResumes, DirectTypeOK, CallInv
    <2>1. DirectTypeOK'
      BY <1>6, <2>0 DEF RpcResumes, FreeResult, Resume, DirectTypeOK
    <2>2. CallInv(c)'
      BY <1>6, <2>0 DEF RpcResumes, FreeResult, Resume, DirectTypeOK, CallInv
    <2>3. ASSUME NEW d \in Sends, d # c PROVE SameCall(d)
      BY <1>6, <2>3 DEF RpcResumes, FreeResult, Resume, DirectTypeOK, SameCall
    <2>4. QED BY <2>1, <2>2, <2>3, SameCallInv
  <1>7. ASSUME NEW c \in Sends, TimerStarts(c) PROVE SendsInv'
    <2>1. DirectTypeOK'
      BY <1>7, Zenon DEF TimerStarts, DirectTypeOK
    <2>2. CallInv(c)'
      BY <1>7 DEF TimerStarts, DirectTypeOK, CallInv
    <2>3. ASSUME NEW d \in Sends, d # c PROVE SameCall(d)
      BY <1>7, <2>3 DEF TimerStarts, DirectTypeOK, SameCall
    <2>4. QED BY <2>1, <2>2, <2>3, SameCallInv
  <1>8. ASSUME NEW c \in Sends, TimerFires(c) PROVE SendsInv'
    <2>0. rpc[c] # "none" /\ (~resumed[c] => resumes[c] = 0)
      BY <1>8 DEF TimerFires, DirectTypeOK, CallInv
    <2>1. DirectTypeOK'
      <3>1. CASE resumed[c]
        BY <1>8, <3>1 DEF TimerFires, DirectTypeOK
      <3>2. CASE ~resumed[c]
        <4>1. resumed' = [resumed EXCEPT ![c] = TRUE] /\ Resume(c, "timedOut")
          BY <1>8, <3>2 DEF TimerFires
        <4>2. /\ resumes' \in [Sends -> 0 .. 2]
              /\ caller' \in [Sends -> {"idle", "direct", "waiting", "resumed"}]
              /\ outcome' \in [Sends -> Outcomes]
          BY <2>0, <3>2, <4>1 DEF Resume, DirectTypeOK
        <4>3. timer' = [timer EXCEPT ![c] = "over"] /\ UNCHANGED <<bridgeReady, rpc, result, heap>>
          BY <1>8 DEF TimerFires
        <4>4. QED BY <4>1, <4>2, <4>3 DEF DirectTypeOK
      <3>3. QED BY <3>1, <3>2
    <2>2. CallInv(c)'
      BY <1>8, <2>0 DEF TimerFires, Resume, DirectTypeOK, CallInv
    <2>3. ASSUME NEW d \in Sends, d # c PROVE SameCall(d)
      BY <1>8, <2>3 DEF TimerFires, Resume, DirectTypeOK, SameCall
    <2>4. QED BY <2>1, <2>2, <2>3, SameCallInv
  <1>9. CASE Gate
    BY <1>9 DEF Gate, sendVars, DirectTypeOK, CallInv
  <1>10. CASE UNCHANGED directVars
    BY <1>10 DEF directVars, DirectTypeOK, CallInv
  <1>11. QED
    BY <1>1, <1>2, <1>3, <1>4, <1>5, <1>6, <1>7, <1>8, <1>9, <1>10, Zenon
    DEF DirectNext, Finished

\* The invariant of the calls in flight.
THEOREM SendsInvariant == DirectSpec => []SendsInv
  BY InitSendsInv, StepSendsInv, PTL DEF DirectSpec

\* "OnceFlag guarantees exactly-once resumption": for any number of concurrent
\* calls the continuation is resumed exactly once, whoever of bitcoin_rpc and the
\* timer comes first.
THEOREM SendsResumeOnce == DirectSpec => []ResumedExactlyOnce
  <1>1. SendsInv => ResumedExactlyOnce
    BY Zenon DEF SendsInv, CallInv, ResumedExactlyOnce
  <1>2. QED
    BY <1>1, SendsInvariant, PTL

\* Every answer of bitcoin_rpc is freed, and none is handed on before.
THEOREM AnswersFreed == DirectSpec => []AnswerFreed
  <1>1. SendsInv => AnswerFreed
    BY Zenon DEF SendsInv, CallInv, AnswerFreed
  <1>2. QED
    BY <1>1, SendsInvariant, PTL

=============================================================================
