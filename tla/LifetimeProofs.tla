--------------------------- MODULE LifetimeProofs ---------------------------
(***************************************************************************)
(* TLAPS proofs about what outlives what.                                  *)
(*                                                                         *)
(* First the handles given to the kernel: for any number of callback       *)
(* objects, contexts, managers, logging connections and daemon runs,       *)
(* dropped in any order, an object that is called is alive, every object   *)
(* is released as often as it was passed, and the logger serves the        *)
(* connections it has as long as no daemon shares it.                      *)
(*                                                                         *)
(* Then the end of a sync: for any number of sync runs, an application     *)
(* that creates iterators and calls shutdown() from one task gets the      *)
(* barrier the documentation promises, and finds the data directory free   *)
(* when it reopens it.                                                     *)
(***************************************************************************)
EXTENDS KernelHandles, SyncTeardown, FiniteSetTheorems, TLAPS

Managers == {"none", "live", "destroying", "gone"}

CallbackTypes ==
    /\ scope \in Scopes /\ appRefs \subseteq scope.refs
    /\ user_data \in Seq(Objects) /\ uses \in Seq(Nat) /\ Len(uses) = Len(user_data)
    /\ options \subseteq Ids /\ built \in BOOLEAN
    /\ context \in [Contexts -> [owners : SUBSET {"swift", "manager"},
                                 wrappers : SUBSET Ids, manager : Managers]]
    /\ running \in [Contexts -> Ids \cup {0}]

\* The record of the logger when n lines have been logged.
LoggerStates(n) ==
    [buffering : BOOLEAN, callbacks : SUBSET Closures, buffer : SUBSET (1 .. n),
     disabled : BOOLEAN, daemon : {"off", "init", "on"}, starts : Nat, shared : BOOLEAN,
     dangling : BOOLEAN, aborted : BOOLEAN]

LogTypes ==
    /\ conn \in [Closures -> {"none", "live", "gone"}]
    /\ logger \in LoggerStates(lines)
    /\ lines \in Nat
    /\ delivered \in [Closures -> SUBSET Nat] /\ due \in [Closures -> SUBSET Nat]

\* The contexts whose members refer to a wrapper.
Sharers(i) == {c \in Contexts : i \in context[c].wrappers}

\* The wrappers that have not been destroyed.
Live == options \cup UNION {context[c].wrappers : c \in Contexts}

\* The wrappers of an object that have not been destroyed.
LiveOf(o) == {i \in Ids : user_data[i] = o /\ i \in Live}

\* The use count is the number of shared_ptrs: one of the options, and one or
\* two of every context.
UsesCounted ==
    \A i \in Ids :
        /\ IsFiniteSet(Sharers(i))
        /\ uses[i] = (IF i \in options THEN 1 ELSE 0) + Shares[i] * Cardinality(Sharers(i))

\* A context nobody owns has dropped its wrappers; a manager that exists owns
\* its context; and a callback runs inside a manager that exists.
ContextsOwned ==
    \A c \in Contexts :
        /\ context[c].owners = {} => context[c].wrappers = {}
        /\ "manager" \in context[c].owners <=> context[c].manager \in {"live", "destroying"}
        /\ running[c] # 0 => /\ running[c] \in context[c].wrappers
                             /\ context[c].manager \in {"live", "destroying"}

ObjectsRetained ==
    /\ retains \in [Objects \cup Closures -> Int]
    /\ \A o \in Objects : retains[o] = Cardinality(LiveOf(o))

ClosuresRetained ==
    \A l \in Closures :
        /\ conn[l] = "none" => retains[l] = 0
        /\ conn[l] = "live" => retains[l] = 1
        /\ conn[l] = "gone" /\ ~logger.shared => retains[l] = 0

\* Only connections are called.  While no daemon shares the logger its list is
\* exactly the connections, a daemon has it to itself, and it buffers if and
\* only if nobody has started it.
LoggerInv ==
    /\ logger.callbacks \subseteq Connected /\ IsFiniteSet(logger.callbacks)
    /\ ~logger.shared =>
          /\ logger.callbacks = Connected
          /\ logger.daemon # "off" => Connected = {}
          /\ Connected # {} => ~logger.buffering
          /\ ~logger.disabled /\ Connected = {} /\ logger.daemon # "on" => logger.buffering
    /\ LoggerFaithful

HandlesInv ==
    /\ CallbackTypes /\ LogTypes /\ UsesCounted /\ ContextsOwned
    /\ ObjectsRetained /\ ClosuresRetained /\ LoggerInv

-----------------------------------------------------------------------------
(* Counting. *)

\* A function on 1 .. n is a sequence of length n.
LEMMA FunctionIsSeq ==
    ASSUME NEW S, NEW n \in Nat, NEW f \in [1 .. n -> S]
    PROVE  f \in Seq(S) /\ Len(f) = n
OBVIOUS

\* What is left of a finite set without some of its members.
LEMMA CardinalityWithout ==
    ASSUME NEW A, IsFiniteSet(A), NEW B, B \subseteq A
    PROVE  /\ IsFiniteSet(A \ B)
           /\ Cardinality(A) \in Nat /\ Cardinality(B) \in Nat /\ Cardinality(A \ B) \in Nat
           /\ Cardinality(A \ B) = Cardinality(A) - Cardinality(B)
<1>1. IsFiniteSet(B) /\ IsFiniteSet(A \ B)
    BY FS_Subset
<1>2. Cardinality(A) \in Nat /\ Cardinality(B) \in Nat /\ Cardinality(A \ B) \in Nat
    BY <1>1, FS_CardinalityType
<1>3. (A \ B) \cup B = A /\ (A \ B) \cap B = {}
    OBVIOUS
<1>4. Cardinality((A \ B) \cup B)
          = Cardinality(A \ B) + Cardinality(B) - Cardinality((A \ B) \cap B)
    BY <1>1, FS_Union
<1>5. Cardinality((A \ B) \cup B) = Cardinality(A) /\ Cardinality((A \ B) \cap B) = 0
    BY <1>3, FS_EmptySet
<1>6. Cardinality(A) = Cardinality(A \ B) + Cardinality(B) - 0
    BY <1>4, <1>5
<1> QED  BY <1>1, <1>2, <1>6

\* Every set of wrappers is finite.
LEMMA WrappersFinite ==
    ASSUME CallbackTypes, NEW S, S \subseteq Ids
    PROVE  IsFiniteSet(S) /\ Cardinality(S) \in Nat
<1>1. Len(user_data) \in Nat
    BY DEF CallbackTypes
<1>2. IsFiniteSet(Ids)
    BY <1>1, FS_Interval DEF Ids
<1> QED  BY <1>2, FS_Subset, FS_CardinalityType

\* What a use count says: a wrapper of the options that counts 1 has no other
\* user, and a wrapper of a context that counts no more than the context's
\* shares is in no other context and not in the options.
LEMMA UsesTell ==
    ASSUME CallbackTypes, UsesCounted, NEW i \in Ids
    PROVE  /\ Shares[i] \in {1, 2} /\ Cardinality(Sharers(i)) \in Nat
           /\ i \in options => uses[i] >= 1 /\ (uses[i] = 1 <=> Sharers(i) = {})
           /\ \A c \in Contexts : i \in context[c].wrappers =>
                 /\ uses[i] >= Shares[i]
                 /\ uses[i] = Shares[i] <=> i \notin options /\ Sharers(i) = {c}
<1>1. Shares[i] \in {1, 2}
    BY DEF Shares
<1>2. IsFiniteSet(Sharers(i)) /\ Cardinality(Sharers(i)) \in Nat
    BY FS_CardinalityType DEF UsesCounted
<1>3. uses[i] = (IF i \in options THEN 1 ELSE 0) + Shares[i] * Cardinality(Sharers(i))
    BY DEF UsesCounted
<1>4. Cardinality(Sharers(i)) = 0 <=> Sharers(i) = {}
    BY <1>2, FS_EmptySet
<1>5. i \in options => uses[i] >= 1 /\ (uses[i] = 1 <=> Sharers(i) = {})
    <2>1. CASE Shares[i] = 1  BY <1>2, <1>3, <1>4, <2>1
    <2>2. CASE Shares[i] = 2  BY <1>2, <1>3, <1>4, <2>2
    <2> QED  BY <1>1, <2>1, <2>2
<1>6. ASSUME NEW c \in Contexts, i \in context[c].wrappers
      PROVE  uses[i] >= Shares[i] /\ (uses[i] = Shares[i] <=> i \notin options /\ Sharers(i) = {c})
    <2>1. c \in Sharers(i)  BY <1>6 DEF Sharers
    <2>2. Cardinality(Sharers(i)) = 1 <=> Sharers(i) = {c}
        <3>1. Cardinality(Sharers(i)) = 1 <=> \E x : Sharers(i) = {x}
            BY <1>2, FS_Singleton, Zenon
        <3> QED  BY <2>1, <3>1
    <2>3. Cardinality(Sharers(i)) >= 1
        BY <1>2, <1>4, <2>1
    <2>4. CASE Shares[i] = 1  BY <1>2, <1>3, <2>2, <2>3, <2>4
    <2>5. CASE Shares[i] = 2  BY <1>2, <1>3, <2>2, <2>3, <2>5
    <2> QED  BY <1>1, <2>4, <2>5
<1> QED  BY <1>1, <1>2, <1>5, <1>6

\* When the shares of some wrappers are dropped, the destructors that run keep
\* the balance: the objects of the wrappers nobody shares any more lose one
\* retain for each.
LEMMA DropReleases ==
    ASSUME HandlesInv, NEW S, S \subseteq Ids, NEW n, Drop(S, n),
           {i \in S : uses[i] = n[i]} \subseteq Live,
           Live' = Live \ {i \in S : uses[i] = n[i]},
           UNCHANGED <<conn, logger>>
    PROVE  ObjectsRetained' /\ ClosuresRetained'
<1> DEFINE gone == {i \in S : uses[i] = n[i]}
           goneOf(o) == {i \in S : user_data[i] = o /\ uses[i] = n[i]}
<1> USE DEF HandlesInv
<1>1. /\ user_data' = user_data /\ Ids' = Ids /\ user_data \in Seq(Objects)
      /\ retains \in [Objects \cup Closures -> Int]
      /\ retains' = [o \in Objects \cup Closures |-> retains[o] - Cardinality(goneOf(o))]
    BY DEF Drop, Ids, CallbackTypes, ObjectsRetained
<1>2. \A o \in Objects \cup Closures : Cardinality(goneOf(o)) \in Nat
    <2> SUFFICES ASSUME NEW o \in Objects \cup Closures PROVE Cardinality(goneOf(o)) \in Nat
        OBVIOUS
    <2>1. goneOf(o) \subseteq Ids  OBVIOUS
    <2> QED  BY <2>1, WrappersFinite
<1>3. retains' \in [Objects \cup Closures -> Int]
    <2> HIDE DEF goneOf
    <2>1. \A o \in Objects \cup Closures : retains[o] - Cardinality(goneOf(o)) \in Int
        BY <1>1, <1>2
    <2> QED  BY <1>1, <2>1
<1>4. ASSUME NEW o \in Objects PROVE retains'[o] = Cardinality(LiveOf(o)')
    <2>1. LiveOf(o)' = LiveOf(o) \ goneOf(o)
        BY <1>1 DEF LiveOf
    <2>2. goneOf(o) \subseteq LiveOf(o) /\ LiveOf(o) \subseteq Ids
        BY DEF LiveOf
    <2>3. IsFiniteSet(LiveOf(o))
        BY <2>2, WrappersFinite
    <2>4. Cardinality(LiveOf(o) \ goneOf(o)) = Cardinality(LiveOf(o)) - Cardinality(goneOf(o))
        BY <2>2, <2>3, CardinalityWithout
    <2>5. retains[o] = Cardinality(LiveOf(o)) /\ retains'[o] = retains[o] - Cardinality(goneOf(o))
        BY <1>1 DEF ObjectsRetained
    <2> QED  BY <2>1, <2>4, <2>5
<1>5. ASSUME NEW l \in Closures PROVE retains'[l] = retains[l]
    <2>1. \A i \in Ids : user_data[i] \in Objects
        BY <1>1 DEF Ids
    <2>2. goneOf(l) = {}
        BY <2>1, KernelHandlesAssumption
    <2>3. Cardinality(goneOf(l)) = 0
        BY <2>2, FS_EmptySet
    <2>4. retains'[l] = retains[l] - Cardinality(goneOf(l)) /\ retains[l] \in Int
        BY <1>1
    <2> QED  BY <2>3, <2>4
<1>6. ObjectsRetained'
    BY <1>3, <1>4 DEF ObjectsRetained
<1>7. ClosuresRetained'
    BY <1>5 DEF ClosuresRetained
<1> QED  BY <1>6, <1>7

\* Steps that leave every context its wrappers leave the counts alone.
LEMMA CountsKept ==
    ASSUME HandlesInv, UNCHANGED <<user_data, uses, options>>,
           \A c \in Contexts : context'[c].wrappers = context[c].wrappers
    PROVE  /\ UsesCounted' /\ Live' = Live
           /\ retains' = retains => ObjectsRetained'
<1>1. Ids' = Ids /\ Shares' = Shares
    BY DEF Ids, Shares
<1>2. \A i : Sharers(i)' = Sharers(i)
    BY DEF Sharers
<1>3. UsesCounted'
    BY <1>1, <1>2 DEF HandlesInv, UsesCounted
<1>4. UNION {context'[c].wrappers : c \in Contexts} = UNION {context[c].wrappers : c \in Contexts}
    OBVIOUS
<1>5. Live' = Live
    BY <1>4 DEF Live
<1>6. \A o : LiveOf(o)' = LiveOf(o)
    BY <1>1, <1>5 DEF LiveOf
<1> QED  BY <1>3, <1>5, <1>6 DEF HandlesInv, ObjectsRetained

\* Steps of the callback objects leave the logger alone.
LEMMA LogKept ==
    ASSUME HandlesInv, UNCHANGED logVars
    PROVE  LogTypes' /\ LoggerInv' /\ (retains' = retains => ClosuresRetained')
<1>1. UNCHANGED <<conn, logger, lines, delivered, due>>
    BY DEF logVars
<1>2. LogTypes'
    BY <1>1 DEF HandlesInv, LogTypes
<1>3. LoggerInv'
    BY <1>1 DEF HandlesInv, LoggerInv, LoggerFaithful, Connected
<1>4. retains' = retains => ClosuresRetained'
    BY <1>1 DEF HandlesInv, ClosuresRetained
<1> QED  BY <1>2, <1>3, <1>4

-----------------------------------------------------------------------------
(* The steps of options, contexts and managers. *)

\* At first nothing has been passed to the kernel.
LEMMA InitInv == Init => HandlesInv
<1> SUFFICES ASSUME Init PROVE HandlesInv  OBVIOUS
<1>1. Ids = {} /\ Len(user_data) = 0
    BY DEF Init, Ids
<1>2. CallbackTypes
    BY <1>1 DEF Init, CallbackTypes, Managers
<1>3. LogTypes
    <2>1. logger \in LoggerStates(lines)
        BY DEF Init, LoggerStates
    <2> QED  BY <2>1 DEF Init, LogTypes
<1>4. UsesCounted
    BY <1>1 DEF UsesCounted
<1>5. ContextsOwned
    BY DEF Init, ContextsOwned
<1>6. ObjectsRetained
    <2>1. \A o : LiveOf(o) = {}
        BY <1>1 DEF LiveOf
    <2>2. \A o : Cardinality(LiveOf(o)) = 0
        BY <2>1, FS_EmptySet
    <2> QED  BY <2>2 DEF Init, ObjectsRetained
<1>7. ClosuresRetained
    BY DEF Init, ClosuresRetained
<1>8. LoggerInv
    BY FS_EmptySet DEF Init, LoggerInv, LoggerFaithful, Connected
<1> QED  BY <1>2, <1>3, <1>4, <1>5, <1>6, <1>7, <1>8 DEF HandlesInv

\* setNotifications and setValidationInterface.
LEMMA SetCallbacksInv ==
    ASSUME HandlesInv, NEW o \in Objects, SetCallbacks(o)
    PROVE  HandlesInv'
<1> DEFINE old == {i \in options : SameKind(user_data[i], o)}
           new == Len(user_data) + 1
           gone == {i \in old : uses[i] = 1}
           goneOf(p) == {i \in old : user_data[i] = p /\ uses[i] = 1}
           kept == [i \in Ids |-> IF i \in old THEN uses[i] - 1 ELSE uses[i]]
<1>1. /\ user_data' = Append(user_data, o) /\ uses' = Append(kept, 1)
      /\ options' = (options \ old) \cup {new}
      /\ UNCHANGED <<scope, appRefs, built, context, running>> /\ UNCHANGED logVars
      /\ retains' = [p \in Objects \cup Closures |->
               retains[p] + (IF p = o THEN 1 ELSE 0) - Cardinality(goneOf(p))]
    BY DEF SetCallbacks
<1>2. /\ CallbackTypes /\ UsesCounted /\ ContextsOwned /\ ObjectsRetained /\ ClosuresRetained
    BY DEF HandlesInv
<1>3. /\ user_data \in Seq(Objects) /\ Len(user_data) \in Nat /\ new \in Nat
      /\ uses \in Seq(Nat) /\ Len(uses) = Len(user_data) /\ options \subseteq Ids
    BY <1>2 DEF CallbackTypes
<1>4. /\ Ids' = Ids \cup {new} /\ new \notin Ids
      /\ \A i \in Ids : user_data'[i] = user_data[i]
      /\ user_data'[new] = o
      /\ user_data' \in Seq(Objects) /\ Len(user_data') = new
    BY <1>1, <1>3 DEF Ids
<1>5. kept \in [1 .. Len(user_data) -> Nat]
    <2>1. \A i \in Ids : uses[i] \in Nat /\ (i \in old => uses[i] >= 1)
        BY <1>2, <1>3, UsesTell DEF Ids
    <2> QED  BY <2>1 DEF Ids
<1>6. kept \in Seq(Nat) /\ Len(kept) = Len(user_data)
    BY <1>3, <1>5, FunctionIsSeq
<1>7. /\ uses' \in Seq(Nat) /\ Len(uses') = new /\ uses'[new] = 1
      /\ \A i \in Ids : uses'[i] = IF i \in old THEN uses[i] - 1 ELSE uses[i]
    <2> HIDE DEF kept
    <2>1. uses' \in Seq(Nat) /\ Len(uses') = new /\ uses'[new] = 1
        BY <1>1, <1>3, <1>6
    <2>2. \A i \in Ids : uses'[i] = kept[i]
        BY <1>1, <1>3, <1>6 DEF Ids
    <2> QED  BY <2>1, <2>2 DEF kept
<1>8. CallbackTypes'
    <2>1. context' \in [Contexts -> [owners : SUBSET {"swift", "manager"},
                                     wrappers : SUBSET Ids', manager : Managers]]
        BY <1>1, <1>2, <1>4 DEF CallbackTypes
    <2>2. running' \in [Contexts -> Ids' \cup {0}]
        BY <1>1, <1>2, <1>4 DEF CallbackTypes
    <2>3. options' \subseteq Ids'
        BY <1>1, <1>3, <1>4
    <2> QED  BY <1>1, <1>2, <1>4, <1>7, <2>1, <2>2, <2>3, Zenon DEF CallbackTypes
<1>9. \A i : Sharers(i)' = Sharers(i)
    BY <1>1 DEF Sharers
<1>10. Sharers(new) = {}
    BY <1>2, <1>4 DEF Sharers, CallbackTypes
<1>11. \A i \in Ids : Shares'[i] = Shares[i]
    BY <1>4 DEF Shares
<1>12. UsesCounted'
    <2> SUFFICES ASSUME NEW i \in Ids'
                 PROVE  /\ IsFiniteSet(Sharers(i)')
                        /\ uses'[i] = (IF i \in options' THEN 1 ELSE 0)
                                       + Shares'[i] * Cardinality(Sharers(i)')
        BY DEF UsesCounted
    <2>1. CASE i \in Ids
        <3>1. /\ IsFiniteSet(Sharers(i)) /\ Cardinality(Sharers(i)) \in Nat
              /\ Shares[i] \in {1, 2}
              /\ uses[i] = (IF i \in options THEN 1 ELSE 0) + Shares[i] * Cardinality(Sharers(i))
            BY <1>2, <2>1, UsesTell DEF UsesCounted
        <3>2. i \in options' <=> i \in options /\ i \notin old
            BY <1>1, <1>4, <2>1
        <3>3. Shares[i] * Cardinality(Sharers(i)) \in Nat
            BY <3>1
        <3>4. uses'[i] = (IF i \in options' THEN 1 ELSE 0) + Shares[i] * Cardinality(Sharers(i))
            <4>1. CASE i \in old  BY <1>7, <2>1, <3>1, <3>2, <3>3, <4>1
            <4>2. CASE i \notin old  BY <1>7, <2>1, <3>1, <3>2, <3>3, <4>2
            <4> QED  BY <4>1, <4>2
        <3> QED  BY <1>9, <1>11, <2>1, <3>1, <3>4
    <2>2. CASE i = new
        <3>1. Sharers(i)' = {} /\ i \in options' /\ uses'[i] = 1 /\ Shares'[i] \in {1, 2}
            BY <1>1, <1>4, <1>7, <1>9, <1>10, <2>2 DEF Shares
        <3>2. IsFiniteSet(Sharers(i)') /\ Cardinality(Sharers(i)') = 0
            BY <3>1, FS_EmptySet
        <3> QED  BY <3>1, <3>2
    <2> QED  BY <1>4, <2>1, <2>2
<1>13. ContextsOwned'
    BY <1>1, <1>2 DEF ContextsOwned
<1>14. gone \subseteq Live /\ Live' = (Live \ gone) \cup {new} /\ new \notin Live
    <2> DEFINE held == UNION {context[c].wrappers : c \in Contexts}
    <2>1. \A i \in old : uses[i] = 1 <=> i \notin held
        <3> SUFFICES ASSUME NEW i \in old PROVE uses[i] = 1 <=> i \notin held
            OBVIOUS
        <3>1. uses[i] = 1 <=> Sharers(i) = {}
            BY <1>2, <1>3, UsesTell
        <3>2. Sharers(i) = {} <=> i \notin held
            BY DEF Sharers
        <3> QED  BY <3>1, <3>2
    <2>2. held \subseteq Ids
        BY <1>2 DEF CallbackTypes
    <2>3. Live = options \cup held /\ Live' = options' \cup held
        BY <1>1 DEF Live
    <2> HIDE DEF held
    <2> QED  BY <1>1, <1>3, <1>4, <2>1, <2>2, <2>3
<1>15. \A p \in Objects \cup Closures : goneOf(p) \subseteq Ids /\ Cardinality(goneOf(p)) \in Nat
    <2> SUFFICES ASSUME NEW p \in Objects \cup Closures
                 PROVE  goneOf(p) \subseteq Ids /\ Cardinality(goneOf(p)) \in Nat
        OBVIOUS
    <2>1. goneOf(p) \subseteq Ids  BY <1>3
    <2> QED  BY <1>2, <2>1, WrappersFinite
<1>16. retains \in [Objects \cup Closures -> Int] /\ retains' \in [Objects \cup Closures -> Int]
    <2> HIDE DEF goneOf
    <2>1. retains \in [Objects \cup Closures -> Int]
        BY <1>2 DEF ObjectsRetained
    <2>2. \A p \in Objects \cup Closures :
              retains[p] + (IF p = o THEN 1 ELSE 0) - Cardinality(goneOf(p)) \in Int
        BY <1>15, <2>1
    <2> QED  BY <1>1, <2>1, <2>2
<1>17. ASSUME NEW p \in Objects PROVE retains'[p] = Cardinality(LiveOf(p)')
    <2>1. LiveOf(p)' = (LiveOf(p) \ goneOf(p)) \cup (IF p = o THEN {new} ELSE {})
        BY <1>4, <1>14 DEF LiveOf
    <2>2. goneOf(p) \subseteq LiveOf(p) /\ LiveOf(p) \subseteq Ids /\ new \notin LiveOf(p)
        BY <1>3, <1>4, <1>14 DEF LiveOf
    <2>3. IsFiniteSet(LiveOf(p)) /\ Cardinality(LiveOf(p)) \in Nat
        BY <1>2, <2>2, WrappersFinite
    <2> HIDE DEF goneOf
    <2>4. /\ IsFiniteSet(LiveOf(p) \ goneOf(p))
          /\ Cardinality(LiveOf(p) \ goneOf(p)) = Cardinality(LiveOf(p)) - Cardinality(goneOf(p))
        BY <2>2, <2>3, CardinalityWithout
    <2>5. retains'[p] = retains[p] + (IF p = o THEN 1 ELSE 0) - Cardinality(goneOf(p))
        BY <1>1
    <2>6. retains[p] = Cardinality(LiveOf(p)) /\ Cardinality(goneOf(p)) \in Nat
        BY <1>2, <1>15 DEF ObjectsRetained
    <2>7. CASE p = o
        <3>1. Cardinality((LiveOf(p) \ goneOf(p)) \cup {new})
                  = Cardinality(LiveOf(p) \ goneOf(p)) + 1
            BY <2>2, <2>4, FS_AddElement, Zenon
        <3>2. LiveOf(p)' = (LiveOf(p) \ goneOf(p)) \cup {new}
            BY <2>1, <2>7
        <3>3. Cardinality(LiveOf(p)') = Cardinality(LiveOf(p)) - Cardinality(goneOf(p)) + 1
            BY <2>4, <3>1, <3>2
        <3> QED  BY <2>3, <2>5, <2>6, <2>7, <3>3
    <2>8. CASE p # o
        <3>1. LiveOf(p)' = LiveOf(p) \ goneOf(p)
            BY <2>1, <2>8
        <3>2. Cardinality(LiveOf(p)') = Cardinality(LiveOf(p)) - Cardinality(goneOf(p))
            BY <2>4, <3>1
        <3> QED  BY <2>3, <2>5, <2>6, <2>8, <3>2
    <2> QED  BY <2>7, <2>8
<1>18. ASSUME NEW l \in Closures PROVE retains'[l] = retains[l]
    <2>1. \A i \in Ids : user_data[i] \in Objects
        BY <1>3 DEF Ids
    <2>2. goneOf(l) = {} /\ l # o
        BY <1>3, <2>1, KernelHandlesAssumption
    <2>3. Cardinality(goneOf(l)) = 0
        BY <2>2, FS_EmptySet
    <2> HIDE DEF goneOf
    <2>4. retains'[l] = retains[l] + (IF l = o THEN 1 ELSE 0) - Cardinality(goneOf(l))
        BY <1>1
    <2> QED  BY <1>16, <2>2, <2>3, <2>4
<1>19. ObjectsRetained'
    BY <1>16, <1>17 DEF ObjectsRetained
<1>20. ClosuresRetained'
    BY <1>1, <1>2, <1>18, Zenon DEF ClosuresRetained, logVars
<1>21. LogTypes' /\ LoggerInv'
    BY <1>1, LogKept
<1> QED  BY <1>8, <1>12, <1>13, <1>19, <1>20, <1>21, Zenon DEF HandlesInv

\* The deinit of ContextOptions.
LEMMA DropOptionsInv ==
    ASSUME HandlesInv, DropOptions
    PROVE  HandlesInv'
<1> DEFINE one == [i \in Ids |-> 1]
           held == UNION {context[c].wrappers : c \in Contexts}
<1>1. /\ options' = {} /\ built' = FALSE /\ Drop(options, one)
      /\ UNCHANGED <<scope, appRefs, context, running>> /\ UNCHANGED logVars
    BY DEF DropOptions
<1>2. CallbackTypes /\ UsesCounted /\ ContextsOwned
    BY DEF HandlesInv
<1>3. /\ user_data' = user_data /\ Ids' = Ids /\ Shares' = Shares /\ Len(user_data) \in Nat
      /\ uses' = [i \in Ids |-> IF i \in options THEN uses[i] - one[i] ELSE uses[i]]
      /\ options \subseteq Ids /\ uses \in Seq(Nat) /\ Len(uses) = Len(user_data)
    BY <1>1, <1>2 DEF Drop, Ids, Shares, CallbackTypes
<1>4. \A i \in Ids : /\ uses[i] \in Nat /\ (i \in options => uses[i] >= 1)
                     /\ uses'[i] = IF i \in options THEN uses[i] - 1 ELSE uses[i]
    BY <1>2, <1>3, UsesTell DEF Ids
<1>5. uses' \in [1 .. Len(user_data) -> Nat]
    BY <1>3, <1>4 DEF Ids
<1>6. CallbackTypes'
    <2>1. uses' \in Seq(Nat) /\ Len(uses') = Len(user_data)
        BY <1>3, <1>5, FunctionIsSeq
    <2> QED  BY <1>1, <1>2, <1>3, <2>1, Zenon DEF CallbackTypes
<1>7. UsesCounted'
    <2> SUFFICES ASSUME NEW i \in Ids
                 PROVE  /\ IsFiniteSet(Sharers(i)')
                        /\ uses'[i] = (IF i \in options' THEN 1 ELSE 0)
                                       + Shares'[i] * Cardinality(Sharers(i)')
        BY <1>3 DEF UsesCounted
    <2>1. Sharers(i)' = Sharers(i)
        BY <1>1 DEF Sharers
    <2>2. /\ IsFiniteSet(Sharers(i)) /\ Cardinality(Sharers(i)) \in Nat /\ Shares[i] \in {1, 2}
          /\ uses[i] = (IF i \in options THEN 1 ELSE 0) + Shares[i] * Cardinality(Sharers(i))
        BY <1>2, UsesTell DEF UsesCounted
    <2>3. Shares[i] * Cardinality(Sharers(i)) \in Nat
        BY <2>2
    <2>4. uses'[i] = Shares[i] * Cardinality(Sharers(i))
        BY <1>4, <2>2, <2>3
    <2> QED  BY <1>1, <1>3, <2>1, <2>2, <2>3, <2>4
<1>8. /\ {i \in options : uses[i] = one[i]} \subseteq Live
      /\ Live' = Live \ {i \in options : uses[i] = one[i]}
    <2>1. \A i \in options : uses[i] = one[i] <=> i \notin held
        <3> SUFFICES ASSUME NEW i \in options PROVE uses[i] = one[i] <=> i \notin held
            OBVIOUS
        <3>1. uses[i] = 1 <=> Sharers(i) = {}
            BY <1>2, <1>3, UsesTell
        <3>2. Sharers(i) = {} <=> i \notin held
            BY DEF Sharers
        <3> QED  BY <1>3, <3>1, <3>2
    <2>2. Live = options \cup held /\ Live' = held
        BY <1>1, Zenon DEF Live
    <2> HIDE DEF held, one
    <2> QED  BY <2>1, <2>2
<1>9. ObjectsRetained' /\ ClosuresRetained'
    <2> HIDE DEF one
    <2> QED  BY <1>1, <1>3, <1>8, DropReleases, Zenon DEF logVars
<1>10. ContextsOwned'
    BY <1>1, <1>2 DEF ContextsOwned
<1>11. LogTypes' /\ LoggerInv'
    BY <1>1, LogKept
<1> QED  BY <1>6, <1>7, <1>9, <1>10, <1>11 DEF HandlesInv

\* Context.init.
LEMMA CreateContextInv ==
    ASSUME HandlesInv, NEW c \in Contexts, CreateContext(c)
    PROVE  HandlesInv'
<1>1. /\ context[c].owners = {} /\ context[c].manager = "none"
      /\ context' = [context EXCEPT ![c].owners = {"swift"}, ![c].wrappers = options]
      /\ uses' = [i \in Ids |-> IF i \in options THEN uses[i] + Shares[i] ELSE uses[i]]
      /\ UNCHANGED <<scope, retains, appRefs, user_data, options, built, running>>
      /\ UNCHANGED logVars
    BY DEF CreateContext
<1>2. CallbackTypes /\ UsesCounted /\ ContextsOwned /\ ObjectsRetained
    BY DEF HandlesInv
<1>3. /\ Ids' = Ids /\ Shares' = Shares /\ Len(user_data) \in Nat
      /\ options \subseteq Ids /\ uses \in Seq(Nat) /\ Len(uses) = Len(user_data)
      /\ \A i \in Ids : Shares[i] \in {1, 2}
    BY <1>1, <1>2, UsesTell DEF Ids, Shares, CallbackTypes
<1>4. /\ context[c].wrappers = {}
      /\ context'[c].owners = {"swift"} /\ context'[c].wrappers = options
      /\ context'[c].manager = "none"
      /\ \A d \in Contexts \ {c} : context'[d] = context[d]
      /\ context' \in [Contexts -> [owners : SUBSET {"swift", "manager"},
                                    wrappers : SUBSET Ids, manager : Managers]]
    <2>1. context \in [Contexts -> [owners : SUBSET {"swift", "manager"},
                                    wrappers : SUBSET Ids, manager : Managers]]
        BY <1>2 DEF CallbackTypes
    <2>2. context[c].wrappers = {}
        BY <1>1, <1>2 DEF ContextsOwned
    <2>3. /\ context'[c].owners = {"swift"} /\ context'[c].wrappers = options
          /\ context'[c].manager = "none"
          /\ \A d \in Contexts \ {c} : context'[d] = context[d]
        BY <1>1, <2>1
    <2>4. context' \in [Contexts -> [owners : SUBSET {"swift", "manager"},
                                     wrappers : SUBSET Ids, manager : Managers]]
        <3> DEFINE made == [context[c] EXCEPT !.owners = {"swift"}, !.wrappers = options]
        <3>1. context' = [context EXCEPT ![c] = made]
            BY <1>1, <2>1, Zenon
        <3>2. made \in [owners : SUBSET {"swift", "manager"}, wrappers : SUBSET Ids,
                        manager : Managers]
            <4>1. context[c] \in [owners : SUBSET {"swift", "manager"}, wrappers : SUBSET Ids,
                                 manager : Managers]
                BY <2>1
            <4>2. options \in SUBSET Ids /\ {"swift"} \in SUBSET {"swift", "manager"}
                BY <1>3
            <4> QED  BY <4>1, <4>2, Zenon
        <3> HIDE DEF made
        <3> QED  BY <2>1, <3>1, <3>2
    <2> QED  BY <2>2, <2>3, <2>4
<1>5. \A i \in Ids : uses[i] \in Nat /\ uses'[i] \in Nat
    BY <1>1, <1>3 DEF Ids
<1>6. CallbackTypes'
    <2>1. uses' \in [1 .. Len(user_data) -> Nat]
        BY <1>1, <1>5 DEF Ids
    <2>2. uses' \in Seq(Nat) /\ Len(uses') = Len(user_data)
        BY <1>3, <2>1, FunctionIsSeq
    <2> QED  BY <1>1, <1>2, <1>3, <1>4, <2>2 DEF CallbackTypes
<1>7. UsesCounted'
    <2> SUFFICES ASSUME NEW i \in Ids
                 PROVE  /\ IsFiniteSet(Sharers(i)')
                        /\ uses'[i] = (IF i \in options' THEN 1 ELSE 0)
                                       + Shares'[i] * Cardinality(Sharers(i)')
        BY <1>3 DEF UsesCounted
    <2>1. /\ IsFiniteSet(Sharers(i)) /\ Cardinality(Sharers(i)) \in Nat /\ Shares[i] \in {1, 2}
          /\ uses[i] = (IF i \in options THEN 1 ELSE 0) + Shares[i] * Cardinality(Sharers(i))
        BY <1>2, UsesTell DEF UsesCounted
    <2>2. c \notin Sharers(i)
        BY <1>4 DEF Sharers
    <2>3. CASE i \in options
        <3>1. Sharers(i)' = Sharers(i) \cup {c}
            BY <1>4, <2>3 DEF Sharers
        <3>2. /\ IsFiniteSet(Sharers(i)')
              /\ Cardinality(Sharers(i)') = Cardinality(Sharers(i)) + 1
            BY <2>1, <2>2, <3>1, FS_AddElement
        <3>3. uses'[i] = uses[i] + Shares[i]
            BY <1>1, <2>3
        <3>4. uses'[i] = 1 + Shares[i] * (Cardinality(Sharers(i)) + 1)
            <4>1. CASE Shares[i] = 1  BY <2>1, <2>3, <3>3, <4>1
            <4>2. CASE Shares[i] = 2  BY <2>1, <2>3, <3>3, <4>2
            <4> QED  BY <2>1, <4>1, <4>2
        <3> QED  BY <1>1, <1>3, <2>3, <3>2, <3>4
    <2>4. CASE i \notin options
        <3>1. Sharers(i)' = Sharers(i)
            BY <1>4, <2>4 DEF Sharers
        <3> QED  BY <1>1, <1>3, <2>1, <2>4, <3>1
    <2> QED  BY <2>3, <2>4
<1>8. Live' = Live
    <2>1. UNION {context'[d].wrappers : d \in Contexts}
              = options \cup UNION {context[d].wrappers : d \in Contexts}
        BY <1>4
    <2> QED  BY <1>1, <2>1, Zenon DEF Live
<1>9. ObjectsRetained'
    <2>1. \A o : LiveOf(o)' = LiveOf(o)
        BY <1>1, <1>3, <1>8 DEF LiveOf
    <2> QED  BY <1>1, <1>2, <2>1 DEF ObjectsRetained
<1>10. ContextsOwned'
    <2> SUFFICES ASSUME NEW d \in Contexts
                 PROVE  /\ context'[d].owners = {} => context'[d].wrappers = {}
                        /\ "manager" \in context'[d].owners
                              <=> context'[d].manager \in {"live", "destroying"}
                        /\ running'[d] # 0 => /\ running'[d] \in context'[d].wrappers
                                              /\ context'[d].manager \in {"live", "destroying"}
        BY DEF ContextsOwned
    <2>1. CASE d = c  BY <1>1, <1>2, <1>4, <2>1 DEF ContextsOwned
    <2>2. CASE d # c  BY <1>1, <1>2, <1>4, <2>2 DEF ContextsOwned
    <2> QED  BY <2>1, <2>2
<1>11. LogTypes' /\ LoggerInv' /\ ClosuresRetained'
    BY <1>1, LogKept
<1> QED  BY <1>6, <1>7, <1>9, <1>10, <1>11 DEF HandlesInv

\* An owner of a context goes, by the deinit of Context or of its manager.
LEMMA DisownInv ==
    ASSUME HandlesInv, NEW c \in Contexts, NEW owner \in {"swift", "manager"},
           NEW manager \in Managers, Disown(c, owner, manager),
           owner = "swift" => manager = context[c].manager
                              \/ (context[c].manager = "none" /\ manager = "gone"),
           owner = "manager" => manager = "gone" /\ running[c] = 0
    PROVE  HandlesInv'
<1> DEFINE left == context[c].owners \ {owner}
           S == IF left = {} THEN context[c].wrappers ELSE {}
           after == [owners |-> left, wrappers |-> IF left = {} THEN {} ELSE context[c].wrappers,
                     manager |-> manager]
<1>1. /\ owner \in context[c].owners
      /\ context' = [context EXCEPT ![c] = after] /\ Drop(S, Shares)
      /\ UNCHANGED <<scope, appRefs, options, built, running>> /\ UNCHANGED logVars
    BY DEF Disown
<1>2. CallbackTypes /\ UsesCounted /\ ContextsOwned
    BY DEF HandlesInv
<1>3. /\ context \in [Contexts -> [owners : SUBSET {"swift", "manager"},
                                   wrappers : SUBSET Ids, manager : Managers]]
      /\ context[c].wrappers \subseteq Ids /\ context[c].owners \subseteq {"swift", "manager"}
      /\ S \subseteq Ids /\ S \subseteq context[c].wrappers
    BY <1>2, Zenon DEF CallbackTypes
<1>4. /\ user_data' = user_data /\ Ids' = Ids /\ Shares' = Shares /\ Len(user_data) \in Nat
      /\ uses' = [i \in Ids |-> IF i \in S THEN uses[i] - Shares[i] ELSE uses[i]]
      /\ options \subseteq Ids /\ uses \in Seq(Nat) /\ Len(uses) = Len(user_data)
    BY <1>1, <1>2 DEF Drop, Ids, Shares, CallbackTypes
<1>5. /\ context'[c].owners = left /\ context'[c].manager = manager
      /\ context'[c].wrappers = IF left = {} THEN {} ELSE context[c].wrappers
      /\ \A d \in Contexts \ {c} : context'[d] = context[d]
    BY <1>1, <1>3
<1>6. context' \in [Contexts -> [owners : SUBSET {"swift", "manager"},
                                 wrappers : SUBSET Ids, manager : Managers]]
    <2>1. after \in [owners : SUBSET {"swift", "manager"}, wrappers : SUBSET Ids,
                     manager : Managers]
        BY <1>3
    <2> HIDE DEF after
    <2> QED  BY <1>1, <1>3, <2>1
<1>7. \A i \in Ids : /\ uses[i] \in Nat /\ Shares[i] \in {1, 2}
                     /\ i \in S => uses[i] >= Shares[i]
                     /\ uses'[i] = IF i \in S THEN uses[i] - Shares[i] ELSE uses[i]
    <2> HIDE DEF S
    <2>1. \A i \in Ids : uses[i] \in Nat
        BY <1>4 DEF Ids
    <2>2. \A i \in Ids : Shares[i] \in {1, 2} /\ (i \in S => uses[i] >= Shares[i])
        BY <1>2, <1>3, UsesTell
    <2> QED  BY <1>4, <2>1, <2>2
<1>8. CallbackTypes'
    <2> HIDE DEF S
    <2>3. \A i \in Ids : (IF i \in S THEN uses[i] - Shares[i] ELSE uses[i]) \in Nat
        BY <1>7
    <2>4. uses' \in [Ids -> Nat]
        BY <1>4, <2>3
    <2>1. uses' \in [1 .. Len(user_data) -> Nat]
        BY <2>4 DEF Ids
    <2>2. uses' \in Seq(Nat) /\ Len(uses') = Len(user_data)
        BY <1>4, <2>1, FunctionIsSeq, Zenon
    <2> QED  BY <1>1, <1>2, <1>4, <1>6, <2>2, Zenon DEF CallbackTypes
<1>9. UsesCounted'
    <2> SUFFICES ASSUME NEW i \in Ids
                 PROVE  /\ IsFiniteSet(Sharers(i)')
                        /\ uses'[i] = (IF i \in options' THEN 1 ELSE 0)
                                       + Shares'[i] * Cardinality(Sharers(i)')
        BY <1>4, Zenon DEF UsesCounted
    <2>1. /\ IsFiniteSet(Sharers(i)) /\ Cardinality(Sharers(i)) \in Nat /\ Shares[i] \in {1, 2}
          /\ uses[i] = (IF i \in options THEN 1 ELSE 0) + Shares[i] * Cardinality(Sharers(i))
        BY <1>2, UsesTell, Zenon DEF UsesCounted
    <2>2. CASE i \in S
        <3>1. Sharers(i)' = Sharers(i) \ {c} /\ c \in Sharers(i)
            BY <1>5, <2>2, Zenon DEF Sharers
        <3>2. /\ IsFiniteSet(Sharers(i)')
              /\ Cardinality(Sharers(i)') = Cardinality(Sharers(i)) - 1
            BY <2>1, <3>1, FS_RemoveElement, Zenon
        <3>3. uses'[i] = uses[i] - Shares[i]
            BY <1>7, <2>2, Zenon
        <3>4. uses'[i] = (IF i \in options THEN 1 ELSE 0)
                          + Shares[i] * (Cardinality(Sharers(i)) - 1)
            <4>1. CASE Shares[i] = 1  BY <2>1, <3>3, <4>1
            <4>2. CASE Shares[i] = 2  BY <2>1, <3>3, <4>2
            <4> QED  BY <2>1, <4>1, <4>2, Zenon
        <3> QED  BY <1>1, <1>4, <3>2, <3>4, Zenon
    <2>3. CASE i \notin S
        <3>1. Sharers(i)' = Sharers(i)
            BY <1>5, <2>3, Zenon DEF Sharers
        <3>2. uses'[i] = uses[i]
            BY <1>7, <2>3, Zenon
        <3> QED  BY <1>1, <1>4, <2>1, <3>1, <3>2, Zenon
    <2> QED  BY <2>2, <2>3, Zenon
<1>10. /\ {i \in S : uses[i] = Shares[i]} \subseteq Live
       /\ Live' = Live \ {i \in S : uses[i] = Shares[i]}
    <2> DEFINE others == UNION {context[d].wrappers : d \in Contexts \ {c}}
    <2>1. Live = options \cup context[c].wrappers \cup others
        BY DEF Live
    <2>2. Live' = options \cup context'[c].wrappers \cup others
        BY <1>1, <1>5 DEF Live
    <2>3. \A i \in S : uses[i] = Shares[i] <=> i \notin options /\ i \notin others
        <3> SUFFICES ASSUME NEW i \in S
                     PROVE  uses[i] = Shares[i] <=> i \notin options /\ i \notin others
            OBVIOUS
        <3>1. i \in Ids /\ i \in context[c].wrappers
            BY <1>3
        <3>2. uses[i] = Shares[i] <=> i \notin options /\ Sharers(i) = {c}
            BY <1>2, <3>1, UsesTell, Zenon
        <3>3. Sharers(i) = {c} <=> i \notin others
            BY <3>1 DEF Sharers
        <3> QED  BY <3>2, <3>3
    <2>4. context'[c].wrappers = context[c].wrappers \ S
        BY <1>5, Zenon
    <2> HIDE DEF S, others
    <2> QED  BY <1>3, <2>1, <2>2, <2>3, <2>4, Zenon
<1>11. ObjectsRetained' /\ ClosuresRetained'
    <2> HIDE DEF S
    <2> QED  BY <1>1, <1>3, <1>10, DropReleases, Zenon DEF logVars
<1>12. ContextsOwned'
    <2> SUFFICES ASSUME NEW d \in Contexts
                 PROVE  /\ context'[d].owners = {} => context'[d].wrappers = {}
                        /\ "manager" \in context'[d].owners
                              <=> context'[d].manager \in {"live", "destroying"}
                        /\ running'[d] # 0 => /\ running'[d] \in context'[d].wrappers
                                              /\ context'[d].manager \in {"live", "destroying"}
        BY Zenon DEF ContextsOwned
    <2>1. CASE d # c  BY <1>1, <1>2, <1>5, <2>1, Zenon DEF ContextsOwned
    <2>2. CASE d = c /\ owner = "swift"
        BY <1>1, <1>2, <1>5, <2>2, Zenon DEF ContextsOwned
    <2>3. CASE d = c /\ owner = "manager"
        BY <1>1, <1>2, <1>5, <2>3 DEF ContextsOwned
    <2> QED  BY <2>1, <2>2, <2>3
<1>13. LogTypes' /\ LoggerInv'
    BY <1>1, LogKept
<1> QED  BY <1>8, <1>9, <1>11, <1>12, <1>13, Zenon DEF HandlesInv

\* ChainstateManager.init and deinit, a callback and its return, and an object
\* the application forgets: no share changes hands.
LEMMA QuietStepsInv ==
    ASSUME HandlesInv, NEW c \in Contexts,
           \/ CreateManager(c) \/ DestroyManager(c) \/ Returned(c)
           \/ \E i \in Ids : Call(c, i)
           \/ \E o \in Objects \cup Closures : Forget(o)
    PROVE  HandlesInv'
<1>1. /\ UNCHANGED <<scope, retains, user_data, uses, options, built>> /\ UNCHANGED logVars
      /\ appRefs' \subseteq appRefs
    BY DEF CreateManager, DestroyManager, Returned, Call, Forget
<1>2. CallbackTypes /\ ContextsOwned
    BY DEF HandlesInv
<1>3. /\ Ids' = Ids
      /\ context \in [Contexts -> [owners : SUBSET {"swift", "manager"},
                                   wrappers : SUBSET Ids, manager : Managers]]
      /\ running \in [Contexts -> Ids \cup {0}]
    BY <1>1, <1>2, Zenon DEF CallbackTypes, Ids
<1>4. CASE CreateManager(c) \/ DestroyManager(c)
    <2>1. /\ running' = running /\ \A d \in Contexts \ {c} : context'[d] = context[d]
          /\ context'[c].wrappers = context[c].wrappers
        BY <1>3, <1>4 DEF CreateManager, DestroyManager
    <2>2. /\ context[c].owners # {} /\ context'[c].owners # {}
          /\ "manager" \in context'[c].owners
          /\ context'[c].manager \in {"live", "destroying"}
        BY <1>2, <1>3, <1>4 DEF CreateManager, DestroyManager, ContextsOwned
    <2>3. context' \in [Contexts -> [owners : SUBSET {"swift", "manager"},
                                     wrappers : SUBSET Ids, manager : Managers]]
        <3>1. CASE CreateManager(c)
            <4> DEFINE made == [context[c] EXCEPT !.owners = @ \cup {"manager"}, !.manager = "live"]
            <4>1. context' = [context EXCEPT ![c] = made]
                BY <1>3, <3>1 DEF CreateManager
            <4>2. made \in [owners : SUBSET {"swift", "manager"}, wrappers : SUBSET Ids,
                            manager : Managers]
                BY <1>3, Zenon DEF Managers
            <4> HIDE DEF made
            <4> QED  BY <1>3, <4>1, <4>2
        <3>2. CASE DestroyManager(c)
            BY <1>3, <3>2 DEF DestroyManager, Managers
        <3> QED  BY <1>4, <3>1, <3>2
    <2>4. ContextsOwned'
        BY <1>2, <2>1, <2>2, Zenon DEF ContextsOwned
    <2>5. CallbackTypes'
        BY <1>1, <1>2, <1>3, <2>1, <2>3 DEF CallbackTypes
    <2>6. UsesCounted' /\ ObjectsRetained'
        BY <1>1, <2>1, CountsKept, Zenon
    <2> QED  BY <1>1, <2>4, <2>5, <2>6, LogKept DEF HandlesInv
<1>5. CASE Returned(c) \/ (\E i \in Ids : Call(c, i)) \/ \E o \in Objects \cup Closures : Forget(o)
    <2>1. context' = context
        BY <1>5, Zenon DEF Returned, Call, Forget
    <2>2. running' \in [Contexts -> Ids \cup {0}]
        BY <1>3, <1>5 DEF Returned, Call, Forget
    <2>3. ContextsOwned'
        <3>1. CASE Returned(c)
            BY <1>2, <1>3, <3>1, Zenon DEF Returned, ContextsOwned
        <3>2. CASE \E i \in Ids : Call(c, i)
            BY <1>2, <1>3, <3>2, Zenon DEF Call, ContextsOwned
        <3>3. CASE \E o \in Objects \cup Closures : Forget(o)
            BY <1>2, <3>3, Zenon DEF Forget, ContextsOwned
        <3> QED  BY <1>5, <3>1, <3>2, <3>3
    <2>4. CallbackTypes'
        BY <1>1, <1>2, <1>3, <2>1, <2>2 DEF CallbackTypes
    <2>5. UsesCounted' /\ ObjectsRetained'
        BY <1>1, <2>1, CountsKept
    <2> QED  BY <1>1, <2>3, <2>4, <2>5, LogKept DEF HandlesInv
<1> QED  BY <1>4, <1>5

-----------------------------------------------------------------------------
(* The steps of the logger. *)

\* Steps of the logger leave the callback objects alone: at most one closure is
\* retained or released.
LEMMA CallbacksKept ==
    ASSUME HandlesInv, UNCHANGED <<scope, cbVars>>, retains' \in [Objects \cup Closures -> Int],
           \A o \in Objects : retains'[o] = retains[o]
    PROVE  CallbackTypes' /\ UsesCounted' /\ ContextsOwned' /\ ObjectsRetained'
<1>1. UNCHANGED <<scope, appRefs, user_data, uses, options, built, context, running>>
    BY DEF cbVars
<1>2. Ids' = Ids /\ Live' = Live /\ UsesCounted'
    BY <1>1, CountsKept DEF Ids
<1>3. CallbackTypes'
    BY <1>1, <1>2 DEF HandlesInv, CallbackTypes
<1>4. ContextsOwned'
    BY <1>1 DEF HandlesInv, ContextsOwned
<1>5. \A o : LiveOf(o)' = LiveOf(o)
    BY <1>1, <1>2 DEF LiveOf
<1>6. ObjectsRetained'
    BY <1>5 DEF HandlesInv, ObjectsRetained
<1> QED  BY <1>2, <1>3, <1>4, <1>6

\* StartLogging changes what it says and no more.
LEMMA StartFacts ==
    ASSUME NEW n, NEW g \in LoggerStates(n)
    PROVE  /\ Start(g) \in LoggerStates(n)
           /\ Start(g).callbacks = g.callbacks /\ Start(g).daemon = g.daemon
           /\ Start(g).shared <=> g.shared
           /\ Start(g).disabled <=> g.disabled
           /\ Start(g).dangling <=> g.dangling
           /\ ~Start(g).buffering
           /\ Start(g).aborted <=> g.aborted \/ ~g.buffering
<1>1. CASE g.buffering
    <2>1. Start(g) = [g EXCEPT !.buffering = FALSE, !.buffer = {}]
        BY <1>1 DEF Start
    <2> QED  BY <1>1, <2>1, Zenon DEF LoggerStates
<1>2. CASE ~g.buffering
    <2>1. Start(g) = [g EXCEPT !.aborted = TRUE]
        BY <1>2 DEF Start
    <2> QED  BY <1>2, <2>1, Zenon DEF LoggerStates
<1> QED  BY <1>1, <1>2

\* DisconnectTestLogger changes what it says and no more.
LEMMA ResetFacts ==
    ASSUME NEW n, NEW g \in LoggerStates(n)
    PROVE  /\ Reset(g) \in LoggerStates(n)
           /\ Reset(g).callbacks = {} /\ Reset(g).buffering
           /\ Reset(g).daemon = g.daemon
           /\ Reset(g).shared <=> g.shared
           /\ Reset(g).disabled <=> g.disabled
           /\ Reset(g).dangling <=> g.dangling
           /\ Reset(g).aborted <=> g.aborted
BY Zenon DEF LoggerStates, Reset

\* LogPrintStr_.
LEMMA LogInv ==
    ASSUME HandlesInv, Log
    PROVE  HandlesInv'
<1> DEFINE kept == {n \in logger.buffer \cup {lines + 1} : n + BufferLines > lines + 1}
<1>1. /\ lines' = lines + 1 /\ UNCHANGED <<scope, retains, cbVars, conn>>
      /\ logger.buffering => logger' = [logger EXCEPT !.buffer = kept] /\ UNCHANGED delivered
      /\ ~logger.buffering =>
            /\ delivered' = [l \in Closures |-> IF l \in logger.callbacks
                                 THEN delivered[l] \cup {lines + 1} ELSE delivered[l]]
            /\ UNCHANGED logger
      /\ due' = [l \in Closures |-> IF l \in Connected THEN due[l] \cup {lines + 1} ELSE due[l]]
    BY DEF Log
<1>2. /\ logger \in LoggerStates(lines) /\ lines \in Nat /\ LoggerInv /\ ClosuresRetained
      /\ delivered \in [Closures -> SUBSET Nat] /\ due \in [Closures -> SUBSET Nat]
      /\ conn \in [Closures -> {"none", "live", "gone"}]
      /\ retains \in [Objects \cup Closures -> Int]
    BY DEF HandlesInv, LogTypes, ObjectsRetained
<1>3. logger.buffer \subseteq 1 .. lines
    BY <1>2 DEF LoggerStates
<1>4. kept \subseteq 1 .. (lines + 1) /\ 1 .. lines \subseteq 1 .. (lines + 1)
    BY <1>2, <1>3
<1> HIDE DEF kept
<1>5. /\ logger' \in LoggerStates(lines + 1)
      /\ logger'.callbacks = logger.callbacks /\ logger'.daemon = logger.daemon
      /\ logger'.shared <=> logger.shared
      /\ logger'.disabled <=> logger.disabled
      /\ logger'.dangling <=> logger.dangling
      /\ logger'.aborted <=> logger.aborted
      /\ logger'.buffering <=> logger.buffering
    <2>1. CASE logger.buffering  BY <1>1, <1>2, <1>4, <2>1 DEF LoggerStates
    <2>2. CASE ~logger.buffering  BY <1>1, <1>2, <1>4, <2>2 DEF LoggerStates
    <2> QED  BY <2>1, <2>2
<1>6. Connected' = Connected
    BY <1>1 DEF Connected
<1>7. LogTypes'
    <2>1. delivered' \in [Closures -> SUBSET Nat] /\ due' \in [Closures -> SUBSET Nat]
        BY <1>1, <1>2
    <2> QED  BY <1>1, <1>2, <1>5, <2>1 DEF LogTypes
<1>8. ~logger.shared => \A l \in Connected : delivered'[l] = due'[l]
    <2> SUFFICES ASSUME ~logger.shared, NEW l \in Connected PROVE delivered'[l] = due'[l]
        OBVIOUS
    <2>1. ~logger.buffering /\ l \in logger.callbacks /\ delivered[l] = due[l] /\ l \in Closures
        BY <1>2, Zenon DEF LoggerInv, LoggerFaithful, Connected
    <2> QED  BY <1>1, <2>1
<1>9. LoggerInv'
    BY <1>2, <1>5, <1>6, <1>8 DEF LoggerInv, LoggerFaithful
<1>10. ClosuresRetained'
    BY <1>1, <1>2, <1>5 DEF ClosuresRetained
<1>11. CallbackTypes' /\ UsesCounted' /\ ContextsOwned' /\ ObjectsRetained'
    BY <1>1, <1>2, CallbacksKept
<1> QED  BY <1>7, <1>9, <1>10, <1>11 DEF HandlesInv

\* LoggingConnection.init, when the kernel accepts the connection.
LEMMA ConnectInv ==
    ASSUME HandlesInv, NEW l \in Closures, Connect(l), ~logger.aborted
    PROVE  HandlesInv'
<1> DEFINE first == logger.callbacks = {}
           pushed == [logger EXCEPT !.callbacks = @ \cup {l},
                                    !.shared = @ \/ logger.daemon # "off"]
           early == IF first THEN logger.buffer ELSE {}
<1>1. /\ conn[l] = "none" /\ conn' = [conn EXCEPT ![l] = "live"]
      /\ retains' = [retains EXCEPT ![l] = @ + 1]
      /\ logger' = IF first THEN Start(pushed) ELSE pushed
      /\ delivered' = [delivered EXCEPT ![l] = early] /\ due' = [due EXCEPT ![l] = early]
      /\ UNCHANGED <<scope, cbVars, lines>>
    BY DEF Connect
<1>2. /\ logger \in LoggerStates(lines) /\ lines \in Nat /\ LoggerInv /\ ClosuresRetained
      /\ delivered \in [Closures -> SUBSET Nat] /\ due \in [Closures -> SUBSET Nat]
      /\ conn \in [Closures -> {"none", "live", "gone"}]
      /\ retains \in [Objects \cup Closures -> Int]
    BY DEF HandlesInv, LogTypes, ObjectsRetained
<1>3. /\ pushed \in LoggerStates(lines) /\ pushed.callbacks = logger.callbacks \cup {l}
      /\ pushed.daemon = logger.daemon
      /\ pushed.shared <=> logger.shared \/ logger.daemon # "off"
      /\ pushed.disabled <=> logger.disabled
      /\ pushed.dangling <=> logger.dangling
      /\ pushed.aborted <=> logger.aborted
      /\ pushed.buffering <=> logger.buffering
    BY <1>2, Zenon DEF LoggerStates
<1> HIDE DEF pushed
<1>4. /\ logger' \in LoggerStates(lines) /\ logger'.callbacks = logger.callbacks \cup {l}
      /\ logger'.daemon = logger.daemon
      /\ logger'.shared <=> logger.shared \/ logger.daemon # "off"
      /\ logger'.disabled <=> logger.disabled
      /\ logger'.dangling <=> logger.dangling
      /\ first => ~logger'.buffering /\ (logger'.aborted <=> logger.aborted \/ ~logger.buffering)
      /\ ~first => /\ logger'.buffering <=> logger.buffering
                   /\ logger'.aborted <=> logger.aborted
    <2>1. CASE first
        <3>1. logger' = Start(pushed)  BY <1>1, <2>1, Zenon
        <3> QED  BY <1>3, <2>1, <3>1, StartFacts
    <2>2. CASE ~first
        <3>1. logger' = pushed  BY <1>1, <2>2, Zenon
        <3> QED  BY <1>3, <2>2, <3>1, Zenon
    <2> QED  BY <2>1, <2>2, Zenon
<1>5. Connected' = Connected \cup {l} /\ l \notin Connected
    BY <1>1, <1>2, Zenon DEF Connected
<1>6. early \subseteq Nat
    BY <1>2 DEF LoggerStates
<1> HIDE DEF early
<1>7. LogTypes'
    <2>1. delivered' \in [Closures -> SUBSET Nat] /\ due' \in [Closures -> SUBSET Nat]
        BY <1>1, <1>2, <1>6, Zenon
    <2>2. conn' \in [Closures -> {"none", "live", "gone"}]
        BY <1>1, <1>2, Zenon
    <2> QED  BY <1>1, <1>2, <1>4, <2>1, <2>2, Zenon DEF LogTypes
<1>8. IsFiniteSet(logger'.callbacks)
    <2>1. IsFiniteSet(logger.callbacks)
        BY <1>2 DEF LoggerInv
    <2>2. IsFiniteSet(logger.callbacks \cup {l})
        BY <2>1, FS_AddElement
    <2> QED  BY <1>4, <2>2
<1>9. ~logger'.shared => \A m \in Connected' : delivered'[m] = due'[m]
    <2> SUFFICES ASSUME ~logger'.shared, NEW m \in Connected' PROVE delivered'[m] = due'[m]
        OBVIOUS
    <2>1. CASE m = l  BY <1>1, <1>2, <2>1, Zenon
    <2>2. CASE m # l
        <3>1. m \in Connected /\ m \in Closures /\ delivered[m] = due[m]
            BY <1>2, <1>4, <1>5, <2>2, Zenon DEF LoggerInv, LoggerFaithful, Connected
        <3> QED  BY <1>1, <1>2, <2>2, <3>1, Zenon
    <2> QED  BY <2>1, <2>2
<1>10. /\ logger'.callbacks \subseteq Connected'
       /\ ~logger'.shared =>
             /\ logger'.callbacks = Connected'
             /\ logger'.daemon = "off"
             /\ Connected' # {}
             /\ ~logger'.buffering
    BY <1>2, <1>4, <1>5, Zenon DEF LoggerInv
<1>11. logger'.aborted => logger'.shared \/ logger'.disabled
    BY <1>2, <1>4, <1>5, Zenon DEF LoggerInv, LoggerFaithful
<1>12. logger'.dangling => logger'.shared
    BY <1>2, <1>4, Zenon DEF LoggerInv, LoggerFaithful
<1>13. LoggerInv'
    BY <1>8, <1>9, <1>10, <1>11, <1>12, Zenon DEF LoggerInv, LoggerFaithful
<1>14. ClosuresRetained'
    <2> SUFFICES ASSUME NEW m \in Closures
                 PROVE  /\ conn'[m] = "none" => retains'[m] = 0
                        /\ conn'[m] = "live" => retains'[m] = 1
                        /\ conn'[m] = "gone" /\ ~logger'.shared => retains'[m] = 0
        BY Zenon DEF ClosuresRetained
    <2>1. CASE m = l  BY <1>1, <1>2, <2>1 DEF ClosuresRetained
    <2>2. CASE m # l  BY <1>1, <1>2, <1>4, <2>2, Zenon DEF ClosuresRetained
    <2> QED  BY <2>1, <2>2, Zenon
<1>15. CallbackTypes' /\ UsesCounted' /\ ContextsOwned' /\ ObjectsRetained'
    <2>1. /\ retains' \in [Objects \cup Closures -> Int]
          /\ \A o \in Objects : retains'[o] = retains[o]
        BY <1>1, <1>2, KernelHandlesAssumption
    <2> QED  BY <1>1, <2>1, CallbacksKept, Zenon
<1> QED  BY <1>7, <1>13, <1>14, <1>15 DEF HandlesInv

\* LoggingConnection.init with a log file that cannot be opened, and the deinit
\* of a connection: one closure loses a retain.
LEMMA ConnectionEndsInv ==
    ASSUME HandlesInv, NEW l \in Closures, ConnectFails(l) \/ Disconnect(l)
    PROVE  HandlesInv'
<1>1. /\ conn' = [conn EXCEPT ![l] = "gone"] /\ retains' = [retains EXCEPT ![l] = @ - 1]
      /\ UNCHANGED <<scope, cbVars, lines, delivered, due>>
    BY Zenon DEF ConnectFails, Disconnect
<1>2. /\ logger \in LoggerStates(lines) /\ lines \in Nat /\ LoggerInv /\ ClosuresRetained
      /\ delivered \in [Closures -> SUBSET Nat] /\ due \in [Closures -> SUBSET Nat]
      /\ conn \in [Closures -> {"none", "live", "gone"}]
      /\ retains \in [Objects \cup Closures -> Int]
      /\ IsFiniteSet(logger.callbacks)
    BY DEF HandlesInv, LogTypes, ObjectsRetained, LoggerInv
<1>3. Connected' = Connected \ {l}
    BY <1>1, <1>2 DEF Connected
<1>4. /\ logger' \in LoggerStates(lines) /\ LoggerInv'
      /\ conn[l] # "live" => logger'.shared
      /\ logger.shared => logger'.shared
    <2>1. CASE ConnectFails(l)
        <3>1. conn[l] = "none" /\ logger' = [logger EXCEPT !.shared = TRUE]
            BY <2>1 DEF ConnectFails
        <3>2. /\ logger' \in LoggerStates(lines) /\ logger'.shared
              /\ logger'.callbacks = logger.callbacks
            BY <1>2, <3>1, Zenon DEF LoggerStates
        <3>3. l \notin Connected
            BY <3>1, Zenon DEF Connected
        <3> QED  BY <1>2, <1>3, <3>1, <3>2, <3>3 DEF LoggerInv, LoggerFaithful
    <2>2. CASE Disconnect(l)
        <3>1. l \in Connected /\ conn[l] = "live"
            BY <2>2 DEF Disconnect, Connected
        <3>2. \A m \in Connected' :
                  m \in Connected /\ delivered'[m] = delivered[m] /\ due'[m] = due[m]
            BY <1>1, <1>3, Zenon
        <3>3. CASE Cardinality(logger.callbacks) = 1
            <4>1. logger' = Reset(logger)
                BY <2>2, <3>3, Zenon DEF Disconnect
            <4>2. /\ logger' \in LoggerStates(lines) /\ logger'.callbacks = {}
                  /\ logger'.buffering /\ logger'.daemon = logger.daemon
                  /\ logger'.shared <=> logger.shared
                  /\ logger'.disabled <=> logger.disabled
                  /\ logger'.dangling <=> logger.dangling
                  /\ logger'.aborted <=> logger.aborted
                BY <1>2, <4>1, ResetFacts, Zenon
            <4>3. \E x : logger.callbacks = {x}
                BY <1>2, <3>3, FS_Singleton, Zenon
            <4>4. ~logger.shared => Connected' = {}
                BY <1>2, <1>3, <3>1, <4>3, Zenon DEF LoggerInv
            <4>5. IsFiniteSet(logger'.callbacks)
                BY <4>2, FS_EmptySet, Zenon
            <4> QED  BY <1>2, <3>1, <3>2, <4>2, <4>4, <4>5, Zenon DEF LoggerInv, LoggerFaithful
        <3>4. CASE Cardinality(logger.callbacks) # 1 /\ l \in logger.callbacks
            <4>1. logger' = [logger EXCEPT !.callbacks = @ \ {l}]
                BY <2>2, <3>4 DEF Disconnect
            <4>2. /\ logger' \in LoggerStates(lines) /\ logger'.callbacks = logger.callbacks \ {l}
                  /\ logger'.daemon = logger.daemon
                  /\ logger'.buffering <=> logger.buffering
                  /\ logger'.shared <=> logger.shared
                  /\ logger'.disabled <=> logger.disabled
                  /\ logger'.dangling <=> logger.dangling
                  /\ logger'.aborted <=> logger.aborted
                BY <1>2, <4>1, Zenon DEF LoggerStates
            <4>3. logger.callbacks \ {l} # {}
                <5>1. logger.callbacks # {l}
                    BY <3>4, FS_Singleton, Zenon
                <5> QED  BY <3>4, <5>1
            <4>4. IsFiniteSet(logger.callbacks \ {l})
                BY <1>2, FS_RemoveElement, Zenon
            <4>5. IsFiniteSet(logger'.callbacks)
                BY <4>2, <4>4, Zenon
            <4>6. /\ logger'.callbacks \subseteq Connected'
                  /\ ~logger'.shared => /\ logger'.callbacks = Connected'
                                        /\ Connected' # {} /\ Connected # {}
                BY <1>2, <1>3, <4>2, <4>3, Zenon DEF LoggerInv
            <4> QED  BY <1>2, <3>1, <3>2, <4>2, <4>5, <4>6, Zenon DEF LoggerInv, LoggerFaithful
        <3>5. CASE Cardinality(logger.callbacks) # 1 /\ l \notin logger.callbacks
            <4>1. logger' = [logger EXCEPT !.dangling = TRUE]
                BY <2>2, <3>5 DEF Disconnect
            <4>2. /\ logger' \in LoggerStates(lines) /\ logger'.callbacks = logger.callbacks
                  /\ logger'.shared <=> logger.shared
                BY <1>2, <4>1, Zenon DEF LoggerStates
            <4>3. logger.shared
                BY <1>2, <3>1, <3>5 DEF LoggerInv
            <4>4. IsFiniteSet(logger'.callbacks)
                BY <1>2, <4>2
            <4> QED  BY <1>2, <1>3, <3>1, <3>5, <4>2, <4>3, <4>4 DEF LoggerInv, LoggerFaithful
        <3> QED  BY <3>3, <3>4, <3>5
    <2> QED  BY <2>1, <2>2
<1>5. LogTypes'
    <2>1. conn' \in [Closures -> {"none", "live", "gone"}]
        BY <1>1, <1>2, Zenon
    <2> QED  BY <1>1, <1>2, <1>4, <2>1 DEF LogTypes
<1>6. ClosuresRetained'
    <2> SUFFICES ASSUME NEW m \in Closures
                 PROVE  /\ conn'[m] = "none" => retains'[m] = 0
                        /\ conn'[m] = "live" => retains'[m] = 1
                        /\ conn'[m] = "gone" /\ ~logger'.shared => retains'[m] = 0
        BY Zenon DEF ClosuresRetained
    <2>1. CASE m = l  BY <1>1, <1>2, <1>4, <2>1 DEF ClosuresRetained
    <2>2. CASE m # l  BY <1>1, <1>2, <1>4, <2>2 DEF ClosuresRetained
    <2> QED  BY <2>1, <2>2, Zenon
<1>7. CallbackTypes' /\ UsesCounted' /\ ContextsOwned' /\ ObjectsRetained'
    <2>1. /\ retains' \in [Objects \cup Closures -> Int]
          /\ \A o \in Objects : retains'[o] = retains[o]
        BY <1>1, <1>2, KernelHandlesAssumption
    <2> QED  BY <1>1, <2>1, CallbacksKept, Zenon
<1> QED  BY <1>4, <1>5, <1>6, <1>7 DEF HandlesInv

\* disableLogging, and the start and the shutdown of an embedded daemon: no
\* connection comes or goes.
LEMMA DaemonLoggingInv ==
    ASSUME HandlesInv, ~logger.aborted,
           disableLogging \/ DaemonInit \/ DaemonStart \/ DaemonShutdown
    PROVE  HandlesInv'
<1>1. /\ UNCHANGED <<scope, retains, cbVars, conn, delivered, due>>
      /\ lines' \in {lines, lines + 1}
    BY Zenon DEF disableLogging, DaemonInit, DaemonStart, DaemonShutdown
<1>2. /\ logger \in LoggerStates(lines) /\ lines \in Nat /\ LoggerInv /\ ClosuresRetained
      /\ delivered \in [Closures -> SUBSET Nat] /\ due \in [Closures -> SUBSET Nat]
      /\ conn \in [Closures -> {"none", "live", "gone"}]
      /\ retains \in [Objects \cup Closures -> Int]
      /\ IsFiniteSet(logger.callbacks)
    BY DEF HandlesInv, LogTypes, ObjectsRetained, LoggerInv
<1>3. Connected' = Connected
    BY <1>1 DEF Connected
<1>4. /\ logger' \in LoggerStates(lines') /\ LoggerInv'
      /\ logger.shared => logger'.shared
    <2>1. CASE disableLogging
        <3> DEFINE g == [logger EXCEPT !.disabled = TRUE, !.shared = @ \/ logger.daemon # "off"]
        <3>1. Connected = {} /\ lines' = lines /\ logger' = Start(g)
            BY <2>1 DEF disableLogging
        <3>2. /\ g \in LoggerStates(lines) /\ g.callbacks = logger.callbacks /\ g.disabled
              /\ g.daemon = logger.daemon
              /\ g.shared <=> logger.shared \/ logger.daemon # "off"
              /\ g.dangling <=> logger.dangling
            BY <1>2, Zenon DEF LoggerStates
        <3> HIDE DEF g
        <3>3. /\ logger' \in LoggerStates(lines) /\ logger'.callbacks = logger.callbacks
              /\ logger'.disabled /\ logger'.daemon = logger.daemon
              /\ logger'.shared <=> logger.shared \/ logger.daemon # "off"
              /\ logger'.dangling <=> logger.dangling
            BY <3>1, <3>2, StartFacts
        <3>4. IsFiniteSet(logger'.callbacks)
            BY <1>2, <3>3
        <3> QED  BY <1>1, <1>2, <1>3, <3>1, <3>3, <3>4 DEF LoggerInv, LoggerFaithful
    <2>2. CASE DaemonInit
        <3>1. /\ lines' = lines
              /\ logger' = [logger EXCEPT !.daemon = "init", !.starts = @ + 1,
                                          !.shared = @ \/ Connected # {}]
              /\ logger.daemon = "off"
            BY <2>2 DEF DaemonInit
        <3> DEFINE n == logger.starts + 1
                   busy == logger.shared \/ Connected # {}
        <3>4. n \in Nat
            BY <1>2 DEF LoggerStates
        <3>5. busy \in BOOLEAN
            OBVIOUS
        <3>6. logger' = [logger EXCEPT !.daemon = "init", !.starts = n, !.shared = busy]
            BY <3>1
        <3>7. busy <=> logger.shared \/ Connected # {}
            OBVIOUS
        <3> HIDE DEF n, busy
        <3>2. /\ logger' \in LoggerStates(lines) /\ logger'.callbacks = logger.callbacks
              /\ logger'.daemon = "init"
              /\ logger'.shared <=> busy
              /\ logger'.buffering <=> logger.buffering
              /\ logger'.disabled <=> logger.disabled
              /\ logger'.dangling <=> logger.dangling
              /\ logger'.aborted <=> logger.aborted
            BY <1>2, <3>4, <3>5, <3>6, Zenon DEF LoggerStates
        <3>3. IsFiniteSet(logger'.callbacks)
            BY <1>2, <3>2
        <3> QED  BY <1>1, <1>2, <1>3, <3>1, <3>2, <3>3, <3>7 DEF LoggerInv, LoggerFaithful
    <2>3. CASE DaemonStart
        <3>1. /\ lines' = lines /\ logger.daemon = "init"
              /\ logger' = [Start(logger) EXCEPT !.daemon = "on"]
            BY <2>3, Zenon DEF DaemonStart
        <3> DEFINE g == Start(logger)
        <3>2. /\ g \in LoggerStates(lines) /\ g.callbacks = logger.callbacks
              /\ g.shared <=> logger.shared
              /\ g.disabled <=> logger.disabled
              /\ g.dangling <=> logger.dangling
              /\ ~g.buffering
              /\ g.aborted <=> logger.aborted \/ ~logger.buffering
            BY <1>2, StartFacts
        <3>3. logger' = [g EXCEPT !.daemon = "on"]
            BY <3>1
        <3> HIDE DEF g
        <3>4. /\ logger' \in LoggerStates(lines) /\ logger'.callbacks = logger.callbacks
              /\ logger'.daemon = "on"
              /\ logger'.shared <=> logger.shared
              /\ logger'.disabled <=> logger.disabled
              /\ logger'.dangling <=> logger.dangling
              /\ ~logger'.buffering
              /\ logger'.aborted <=> logger.aborted \/ ~logger.buffering
            BY <3>2, <3>3 DEF LoggerStates
        <3>5. IsFiniteSet(logger'.callbacks)
            BY <1>2, <3>4
        <3> QED  BY <1>1, <1>2, <1>3, <3>1, <3>4, <3>5 DEF LoggerInv, LoggerFaithful
    <2>4. CASE DaemonShutdown
        <3>1. /\ lines' = lines + 1 /\ logger.daemon # "off"
              /\ logger' = [Reset(logger) EXCEPT !.daemon = "off", !.buffer = {lines + 1}]
            BY <2>4, Zenon DEF DaemonShutdown
        <3> DEFINE g == Reset(logger)
        <3>2. /\ g \in LoggerStates(lines) /\ g.callbacks = {} /\ g.buffering
              /\ g.shared <=> logger.shared
              /\ g.disabled <=> logger.disabled
              /\ g.dangling <=> logger.dangling
              /\ g.aborted <=> logger.aborted
            BY <1>2, ResetFacts
        <3>3. logger' = [g EXCEPT !.daemon = "off", !.buffer = {lines + 1}]
            BY <3>1
        <3> HIDE DEF g
        <3>4. {lines + 1} \subseteq 1 .. lines'
            BY <1>2, <3>1
        <3>5. /\ logger' \in LoggerStates(lines') /\ logger'.callbacks = {}
              /\ logger'.daemon = "off" /\ logger'.buffering
              /\ logger'.shared <=> logger.shared
              /\ logger'.disabled <=> logger.disabled
              /\ logger'.dangling <=> logger.dangling
              /\ logger'.aborted <=> logger.aborted
            BY <3>2, <3>3, <3>4, Zenon DEF LoggerStates
        <3>6. IsFiniteSet(logger'.callbacks)
            BY <3>5, FS_EmptySet
        <3> QED  BY <1>1, <1>2, <1>3, <3>1, <3>5, <3>6, Zenon DEF LoggerInv, LoggerFaithful
    <2> QED  BY <2>1, <2>2, <2>3, <2>4, Zenon
<1>5. LogTypes'
    BY <1>1, <1>2, <1>4 DEF LogTypes
<1>6. ClosuresRetained'
    BY <1>1, <1>2, <1>4 DEF ClosuresRetained
<1>7. CallbackTypes' /\ UsesCounted' /\ ContextsOwned' /\ ObjectsRetained'
    BY <1>1, <1>2, CallbacksKept, Zenon
<1> QED  BY <1>4, <1>5, <1>6, <1>7 DEF HandlesInv

\* Every step keeps the invariant.
LEMMA NextInv == HandlesInv /\ [Next]_vars => HandlesInv'
<1> SUFFICES ASSUME HandlesInv, [Next]_vars PROVE HandlesInv'  OBVIOUS
<1>1. ASSUME NEW o \in Objects, SetCallbacks(o) PROVE HandlesInv'
    BY <1>1, SetCallbacksInv
<1>2. ASSUME NEW o \in Objects \cup Closures, Forget(o) PROVE HandlesInv'
    <2>1. /\ UNCHANGED <<scope, retains, user_data, uses, options, built, context, running>>
          /\ UNCHANGED logVars /\ appRefs' \subseteq appRefs
        BY <1>2 DEF Forget
    <2>2. UsesCounted' /\ ObjectsRetained'
        BY <2>1, CountsKept, Zenon
    <2>3. CallbackTypes' /\ ContextsOwned'
        BY <2>1 DEF HandlesInv, CallbackTypes, ContextsOwned, Ids
    <2> QED  BY <2>1, <2>2, <2>3, LogKept DEF HandlesInv
<1>3. ASSUME NEW c \in Contexts,
             CreateContext(c) \/ CreateManager(c) \/ DestroyManager(c) \/ Returned(c)
             \/ \E i \in Ids : Call(c, i)
      PROVE  HandlesInv'
    BY <1>3, CreateContextInv, QuietStepsInv
<1>4. ASSUME NEW c \in Contexts, DropContext(c) \/ DestroyedManager(c) PROVE HandlesInv'
    <2>1. context[c].manager \in Managers
        BY DEF HandlesInv, CallbackTypes
    <2>2. CASE DropContext(c)
        <3> DEFINE m == IF context[c].manager = "none" THEN "gone" ELSE context[c].manager
        <3>1. Disown(c, "swift", m)
            BY <2>2 DEF DropContext
        <3>2. m \in Managers
            BY <2>1 DEF Managers
        <3>3. m = context[c].manager \/ (context[c].manager = "none" /\ m = "gone")
            BY Zenon
        <3> HIDE DEF m
        <3> QED  BY <3>1, <3>2, <3>3, DisownInv
    <2>3. CASE DestroyedManager(c)
        <3>1. Disown(c, "manager", "gone") /\ running[c] = 0 /\ "gone" \in Managers
            BY <2>3 DEF DestroyedManager, Managers
        <3> QED  BY <3>1, DisownInv, Zenon
    <2> QED  BY <1>4, <2>2, <2>3
<1>5. CASE DropOptions
    BY <1>5, DropOptionsInv
<1>6. CASE Log
    BY <1>6, LogInv
<1>7. CASE ~logger.aborted /\ (disableLogging \/ DaemonInit \/ DaemonStart \/ DaemonShutdown)
    BY <1>7, DaemonLoggingInv
<1>8. ASSUME NEW l \in Closures,
             (~logger.aborted /\ Connect(l)) \/ ConnectFails(l) \/ Disconnect(l)
      PROVE  HandlesInv'
    BY <1>8, ConnectInv, ConnectionEndsInv
<1>9. CASE UNCHANGED vars
    <2>1. UNCHANGED <<scope, retains, cbVars>> /\ UNCHANGED logVars
        BY <1>9 DEF vars
    <2>2. retains \in [Objects \cup Closures -> Int]
        BY DEF HandlesInv, ObjectsRetained
    <2>3. CallbackTypes' /\ UsesCounted' /\ ContextsOwned' /\ ObjectsRetained'
        BY <2>1, <2>2, CallbacksKept
    <2> QED  BY <2>1, <2>3, LogKept DEF HandlesInv
<1> QED
    BY <1>1, <1>2, <1>3, <1>4, <1>5, <1>6, <1>7, <1>8, <1>9 DEF Next

\* For any number of objects, contexts, managers, connections and daemon runs,
\* and whatever is dropped in whatever order, the use counts, retains and the
\* list of the logger are in step with who still refers to what.
THEOREM HandlesInvariant == Spec => []HandlesInv
<1> QED  BY InitInv, NextInv, PTL DEF Spec

\* The variables of the handles keep their types.
THEOREM HandlesTypeCorrect == Spec => []TypeOK
<1>1. HandlesInv => TypeOK
    BY DEF HandlesInv, CallbackTypes, LogTypes, LoggerStates, ObjectsRetained, Managers, TypeOK
<1> QED  BY <1>1, HandlesInvariant, PTL

\* The kernel calls a Swift callback object only while it exists, and the
\* logger holds no closure that has been released, whatever the application
\* drops and in whatever order.
THEOREM CalledObjectsAlive == Spec => []CalledObjectAlive
<1>1. ASSUME HandlesInv PROVE CalledObjectAlive
    <2> USE DEF HandlesInv
    <2>1. ASSUME NEW c \in Contexts, running[c] # 0 PROVE Alive(user_data[running[c]])
        <3> DEFINE i == running[c]
        <3>1. i \in context[c].wrappers /\ i \in Ids /\ user_data[i] \in Objects
            BY <1>1, <2>1 DEF ContextsOwned, CallbackTypes, Ids
        <3>2. i \in LiveOf(user_data[i])
            BY <3>1 DEF LiveOf, Live
        <3>3. LiveOf(user_data[i]) \subseteq Ids
            BY DEF LiveOf
        <3>4. IsFiniteSet(LiveOf(user_data[i])) /\ Cardinality(LiveOf(user_data[i])) \in Nat
            BY <1>1, <3>3, WrappersFinite
        <3>5. Cardinality(LiveOf(user_data[i])) # 0
            BY <3>2, <3>4, FS_EmptySet
        <3>6. retains[user_data[i]] = Cardinality(LiveOf(user_data[i]))
            BY <1>1, <3>1, Zenon DEF ObjectsRetained
        <3> QED  BY <3>4, <3>5, <3>6 DEF Alive
    <2>2. ASSUME NEW l \in logger.callbacks PROVE Alive(l)
        BY <1>1, <2>2 DEF LoggerInv, Connected, ClosuresRetained, Alive
    <2> QED  BY <2>1, <2>2, Zenon DEF CalledObjectAlive
<1> QED  BY <1>1, HandlesInvariant, PTL

\* user_data_destroy runs once for every object that was passed: an object is
\* retained once for each of its wrappers that options or a context still
\* share, and the closure of a connection while the connection exists.
THEOREM RetainsAlwaysBalanced == Spec => []RetainsBalanced
<1>1. ASSUME HandlesInv PROVE RetainsBalanced
    <2>1. \A o \in Objects : retains[o] =
              Cardinality({i \in Ids : /\ user_data[i] = o
                                       /\ i \in options \cup UNION {context[c].wrappers : c \in Contexts}})
        BY <1>1 DEF HandlesInv, ObjectsRetained, LiveOf, Live
    <2>2. ~logger.shared => \A l \in Closures : retains[l] = IF l \in Connected THEN 1 ELSE 0
        BY <1>1 DEF HandlesInv, ClosuresRetained, LogTypes, Connected
    <2> QED  BY <2>1, <2>2, Zenon DEF RetainsBalanced
<1> QED  BY <1>1, HandlesInvariant, PTL

\* As long as no daemon shares the logger, every connection gets every line
\* logged while it exists, and connections come and go without hitting an
\* assertion of the logger or a dangling iterator.
THEOREM LoggerAlwaysFaithful == Spec => []LoggerFaithful
<1>1. HandlesInv => LoggerFaithful
    BY DEF HandlesInv, LoggerInv
<1> QED  BY <1>1, HandlesInvariant, PTL

-----------------------------------------------------------------------------
(* The end of a sync. *)

\* An application that creates no iterator once shutdown() has been called, and
\* the same with one caller of shutdown().
NoIteratorAfterShutdown == ~ConcurrentIterators
SequentialUse == Callers = {Owner} /\ NoIteratorAfterShutdown

\* Whatever calls of shutdown() overlap, and whatever iterators are created
\* meanwhile: a call that has returned has outlived every producer it drained,
\* and a running producer is one that AsyncIterator.init has yet to track, one
\* that SyncStorage still holds, or one that an unfinished call is to await.
NoProducerIsForgotten ==
    /\ \A c \in Callers : call[c] = "returned" => mine[c] \cap RunningProducers = {}
    /\ \A r \in RunningProducers :
          \/ iterator[r] = "spawned"
          \/ r \in producers
          \/ \E d \in Callers : InProgress(d) /\ r \in mine[d]

\* Once a shutdown() has returned and no other is unfinished, no producer runs:
\* overlapping calls are a barrier together, whichever drained the producers.
LastShutdownIsABarrier ==
    (\E c \in Callers : call[c] = "returned") /\ (\A c \in Callers : ~InProgress(c))
        => RunningProducers = {}

\* ChainstateManager.init finds the data directory locked only while another
\* call of shutdown() is unfinished.
LockedOnlyByShutdown ==
    [][reopened' = "locked" /\ reopened # "locked" => \E c \in Callers : InProgress(c)]_teardownVars

\* Only a tracked producer is in SyncStorage or in the local list of a call.
DrainedWereTracked ==
    \A r \in Runs : r \in producers \/ (\E c \in Callers : r \in mine[c]) => iterator[r] = "tracked"

\* The application lets go of the manager only after its own shutdown().
ReleasedAfterShutdown == ~appHolds => call[Owner] = "returned"

\* Once a shutdown() has drained SyncStorage nothing is added to it any more.
NothingAfterDrain ==
    (\E c \in Callers : call[c] # "idle") =>
        producers = {} /\ \A r \in Runs : iterator[r] # "spawned"

\* A running import has a file left to read: TypeOK bounds the number read, and
\* is not inductive without this.
ImportHasFiles == importing.state = "running" => importing.read < Files

TeardownTypes == TeardownTypeOK /\ ImportHasFiles

TeardownInv ==
    /\ TeardownTypes
    /\ NoProducerIsForgotten
    /\ DrainedWereTracked
    /\ ReleasedAfterShutdown

\* The initial state satisfies the type invariant.
LEMMA TeardownInitTypes ==
    ASSUME TeardownInit
    PROVE  TeardownTypes
<1>1. importing \in [state : {"idle", "running", "true"}, read : 0 .. Files]
    BY TeardownAssumption DEF TeardownInit
<1>2. ImportHasFiles  BY DEF TeardownInit, ImportHasFiles
<1> QED  BY <1>1, <1>2, Zenon DEF TeardownInit, TeardownTypes, TeardownTypeOK

\* Every step of producers, shutdown() and the application keeps the types.
LEMMA TeardownNextTypes == TeardownTypes /\ [TeardownNext]_teardownVars => TeardownTypes'
<1> SUFFICES ASSUME TeardownTypes, [TeardownNext]_teardownVars PROVE TeardownTypes'  OBVIOUS
<1> USE DEF TeardownTypes, TeardownTypeOK, ImportHasFiles, runVars,
            callVars, appVars
<1>1. ASSUME NEW r \in Runs, Spawn(r) PROVE TeardownTypes'
    BY <1>1 DEF Spawn
<1>2. ASSUME NEW r \in Runs, track(r) PROVE TeardownTypes'
    BY <1>2, Zenon DEF track
<1>3. ASSUME NEW r \in Runs, ProducerEnds(r) PROVE TeardownTypes'
    <2>1. interrupted' \in BOOLEAN  BY <1>3, Zenon DEF ProducerEnds
    <2> QED  BY <1>3, <2>1 DEF ProducerEnds
<1>4. ASSUME NEW r \in Runs, ConsumerStops(r) PROVE TeardownTypes'
    BY <1>4, Zenon DEF ConsumerStops
<1>5. ASSUME NEW c \in Callers, drainProducers(c) PROVE TeardownTypes'
    BY <1>5 DEF drainProducers, RunningProducers
<1>6. ASSUME NEW c \in Callers, CancelProducers(c) PROVE TeardownTypes'
    <2>1. cancelled' \in [Runs -> BOOLEAN]  BY <1>6, Zenon DEF CancelProducers
    <2> QED  BY <1>6, <2>1 DEF CancelProducers
<1>7. ASSUME NEW c \in Callers, AwaitProducers(c) PROVE TeardownTypes'
    BY <1>7 DEF AwaitProducers
<1>8. CASE Release  BY <1>8, Zenon DEF Release
<1>9. ASSUME NEW s \in BOOLEAN, Reopen(s) PROVE TeardownTypes'
    BY <1>9, Zenon DEF Reopen
<1>10. CASE importBlocks
    <2>1. importing' \in [state : {"idle", "running", "true"}, read : 0 .. Files]
        BY <1>10, TeardownAssumption DEF importBlocks
    <2>2. ImportHasFiles'  BY <1>10, TeardownAssumption DEF importBlocks
    <2> QED  BY <1>10, <2>1, <2>2, Zenon DEF importBlocks
<1>11. CASE ImportFile
    <2> DEFINE n == importing.read + 1
    <2>1. importing.read \in 0 .. Files /\ importing.read < Files /\ Files \in Nat
        BY <1>11, TeardownAssumption DEF ImportFile
    <2>2. n \in 0 .. Files /\ (n # Files => n < Files)  BY <2>1
    <2>3. importing' = [state |-> IF interrupted \/ n = Files THEN "true" ELSE "running",
                        read |-> n]
        BY <1>11, Zenon DEF ImportFile
    <2> HIDE DEF n
    <2>4. importing' \in [state : {"idle", "running", "true"}, read : 0 .. Files]
        BY <2>2, <2>3, Zenon
    <2>5. ImportHasFiles'
        BY <2>2, <2>3, Zenon
    <2> QED  BY <1>11, <2>4, <2>5, Zenon DEF ImportFile
<1>12. CASE UNCHANGED teardownVars  BY <1>12 DEF teardownVars
<1> QED
    BY <1>1, <1>2, <1>3, <1>4, <1>5, <1>6, <1>7, <1>8, <1>9, <1>10, <1>11, <1>12, Zenon
    DEF TeardownNext, Done

\* The variables of the teardown keep their types, and a running import always
\* has a file left to read.
THEOREM TeardownTypeCorrect == TeardownSpec => []TeardownTypeOK
<1>2. TeardownInit => TeardownTypes  BY TeardownInitTypes
<1>1. TeardownTypes => TeardownTypeOK  BY DEF TeardownTypes
<1> QED  BY <1>1, <1>2, TeardownNextTypes, PTL DEF TeardownSpec

\* The initial state satisfies the inductive invariant of the barrier.
LEMMA TeardownInitInv ==
    ASSUME TeardownInit
    PROVE  TeardownInv /\ NothingAfterDrain
<1>1. TeardownTypes  BY TeardownInitTypes, Zenon
<1>2. NoProducerIsForgotten
    BY Zenon DEF TeardownInit, NoProducerIsForgotten, RunningProducers
<1>3. DrainedWereTracked /\ ReleasedAfterShutdown /\ NothingAfterDrain
    BY Zenon DEF TeardownInit, DrainedWereTracked, ReleasedAfterShutdown, NothingAfterDrain
<1> QED  BY <1>1, <1>2, <1>3 DEF TeardownInv

\* A step that leaves the calls, their lists, the iterators and SyncStorage
\* alone, starts no producer and releases nothing too early keeps the invariant.
LEMMA QuietStep ==
    ASSUME TeardownInv, TeardownTypes', UNCHANGED <<iterator, producers, mine>>,
           RunningProducers' \subseteq RunningProducers,
           \A c \in Callers : InProgress(c) => InProgress(c)',
           \A c \in Callers : call'[c] = "returned" => call[c] = "returned",
           ReleasedAfterShutdown'
    PROVE  TeardownInv'
<1>1. NoProducerIsForgotten'
    BY Zenon DEF TeardownInv, NoProducerIsForgotten
<1>2. DrainedWereTracked'
    BY Zenon DEF TeardownInv, DrainedWereTracked
<1> QED  BY <1>1, <1>2, Zenon DEF TeardownInv

\* AsyncIterator.init keeps the invariant: what it starts it has yet to track,
\* and nobody has drained it.
LEMMA SpawnKeepsInv ==
    ASSUME TeardownInv, TeardownTypes', NEW r \in Runs, Spawn(r)
    PROVE  TeardownInv'
<1>1. /\ UNCHANGED <<call, mine, producers, appHolds>>
      /\ iterator[r] = "none" /\ iterator'[r] = "spawned"
      /\ \A q \in Runs : q # r => iterator'[q] = iterator[q] /\ task'[q] = task[q]
    BY Zenon DEF Spawn, TeardownInv, TeardownTypes, TeardownTypeOK, callVars, appVars
<1>2. r \notin producers /\ \A c \in Callers : r \notin mine[c]
    BY <1>1, Zenon DEF TeardownInv, DrainedWereTracked
<1>3. \A q \in RunningProducers' : q = r \/ q \in RunningProducers
    BY <1>1, Zenon DEF RunningProducers
<1>4. \A c \in Callers : call'[c] = "returned" => mine'[c] \cap RunningProducers' = {}
    BY <1>1, <1>2, <1>3, Zenon DEF TeardownInv, NoProducerIsForgotten
<1>5. ASSUME NEW q \in RunningProducers'
      PROVE  \/ iterator'[q] = "spawned"
             \/ q \in producers'
             \/ \E d \in Callers : InProgress(d)' /\ q \in mine'[d]
    <2>1. CASE q = r  BY <1>1, <2>1, Zenon
    <2>2. CASE q # r
        BY <1>1, <1>3, <2>2, Zenon DEF TeardownInv, NoProducerIsForgotten, RunningProducers, InProgress
    <2> QED  BY <2>1, <2>2
<1>6. NoProducerIsForgotten'
    BY <1>4, <1>5, Zenon DEF NoProducerIsForgotten
<1>7. DrainedWereTracked'
    BY <1>1, <1>2, Zenon DEF TeardownInv, DrainedWereTracked
<1>8. ReleasedAfterShutdown'
    BY <1>1, Zenon DEF TeardownInv, ReleasedAfterShutdown
<1> QED  BY <1>6, <1>7, <1>8, Zenon DEF TeardownInv

\* SyncStorage.track keeps the invariant: what was to be tracked now is.
LEMMA TrackKeepsInv ==
    ASSUME TeardownInv, TeardownTypes', NEW r \in Runs, track(r)
    PROVE  TeardownInv'
<1>1. /\ UNCHANGED <<call, mine, task, appHolds>>
      /\ producers' = producers \cup {r}
      /\ iterator'[r] = "tracked"
      /\ \A q \in Runs : q # r => iterator'[q] = iterator[q]
    BY Zenon DEF track, TeardownInv, TeardownTypes, TeardownTypeOK, callVars, appVars
<1>2. RunningProducers' = RunningProducers
    BY <1>1, Zenon DEF RunningProducers
<1>3. \A c \in Callers : call'[c] = "returned" => mine'[c] \cap RunningProducers' = {}
    BY <1>1, <1>2, Zenon DEF TeardownInv, NoProducerIsForgotten
<1>4. ASSUME NEW q \in RunningProducers'
      PROVE  \/ iterator'[q] = "spawned"
             \/ q \in producers'
             \/ \E d \in Callers : InProgress(d)' /\ q \in mine'[d]
    <2>1. CASE q = r  BY <1>1, <2>1, Zenon
    <2>2. CASE q # r
        BY <1>1, <1>2, <2>2, Zenon DEF TeardownInv, NoProducerIsForgotten, RunningProducers, InProgress
    <2> QED  BY <2>1, <2>2
<1>5. NoProducerIsForgotten'
    BY <1>3, <1>4, Zenon DEF NoProducerIsForgotten
<1>6. DrainedWereTracked'
    BY <1>1, Zenon DEF TeardownInv, DrainedWereTracked
<1>7. ReleasedAfterShutdown'
    BY <1>1, Zenon DEF TeardownInv, ReleasedAfterShutdown
<1> QED  BY <1>5, <1>6, <1>7, Zenon DEF TeardownInv

\* drainProducers keeps the invariant: what SyncStorage held is now for this
\* call to await, and a call that found nothing has nothing to outlive.
LEMMA DrainKeepsInv ==
    ASSUME TeardownInv, TeardownTypes', NEW c \in Callers, drainProducers(c)
    PROVE  TeardownInv'
<1>1. /\ UNCHANGED <<iterator, task, appHolds>> /\ appHolds
      /\ call[c] = "idle"
      /\ producers' = {} /\ mine'[c] = producers
      /\ call'[c] = "returned" => producers = {}
      /\ producers # {} => call'[c] = "drained"
      /\ \A d \in Callers : d # c => call'[d] = call[d] /\ mine'[d] = mine[d]
    BY DEF drainProducers, TeardownInv, TeardownTypes, TeardownTypeOK, appVars
<1>2. RunningProducers' = RunningProducers
    BY <1>1, Zenon DEF RunningProducers
<1>3. ASSUME NEW d \in Callers, call'[d] = "returned"
      PROVE  mine'[d] \cap RunningProducers' = {}
    <2>1. CASE d = c  BY <1>1, <1>3, <2>1, Zenon
    <2>2. CASE d # c  BY <1>1, <1>2, <1>3, <2>2, Zenon DEF TeardownInv, NoProducerIsForgotten
    <2> QED  BY <2>1, <2>2
<1>4. ASSUME NEW q \in RunningProducers'
      PROVE  \/ iterator'[q] = "spawned"
             \/ q \in producers'
             \/ \E d \in Callers : InProgress(d)' /\ q \in mine'[d]
    <2>1. CASE iterator[q] = "spawned"  BY <1>1, <2>1, Zenon
    <2>2. CASE q \in producers
        <3>1. InProgress(c)' /\ q \in mine'[c]  BY <1>1, <2>2, Zenon DEF InProgress
        <3> QED  BY <3>1
    <2>3. ASSUME NEW d \in Callers, InProgress(d), q \in mine[d]
          PROVE  InProgress(d)' /\ q \in mine'[d]
        <3>1. d # c  BY <1>1, <2>3 DEF InProgress
        <3> QED  BY <1>1, <2>3, <3>1, Zenon DEF InProgress
    <2> QED  BY <1>2, <2>1, <2>2, <2>3, Zenon DEF TeardownInv, NoProducerIsForgotten
<1>5. NoProducerIsForgotten'
    BY <1>3, <1>4, Zenon DEF NoProducerIsForgotten
<1>6. DrainedWereTracked'
    <2> SUFFICES ASSUME NEW q \in Runs, NEW d \in Callers, q \in mine'[d]
                 PROVE  iterator[q] = "tracked"
        BY <1>1, Zenon DEF DrainedWereTracked
    <2>1. CASE d = c  BY <1>1, <2>1, Zenon DEF TeardownInv, DrainedWereTracked
    <2>2. CASE d # c  BY <1>1, <2>2, Zenon DEF TeardownInv, DrainedWereTracked
    <2> QED  BY <2>1, <2>2
<1>7. ReleasedAfterShutdown'
    BY <1>1, Zenon DEF ReleasedAfterShutdown
<1> QED  BY <1>5, <1>6, <1>7, Zenon DEF TeardownInv

\* The end of a shutdown() keeps the invariant: what it awaited has ended.
LEMMA AwaitKeepsInv ==
    ASSUME TeardownInv, TeardownTypes', NEW c \in Callers, AwaitProducers(c)
    PROVE  TeardownInv'
<1>1. /\ UNCHANGED <<iterator, task, producers, mine, appHolds>>
      /\ call'[c] = "returned"
      /\ \A r \in mine[c] : task[r] = "ended"
      /\ \A d \in Callers : d # c => call'[d] = call[d]
    BY Zenon DEF AwaitProducers, TeardownInv, TeardownTypes, TeardownTypeOK, runVars, appVars
<1>2. RunningProducers' = RunningProducers
    BY <1>1, Zenon DEF RunningProducers
<1>3. \A r \in mine[c] : r \notin RunningProducers
    BY <1>1 DEF RunningProducers
<1>4. ASSUME NEW d \in Callers, call'[d] = "returned"
      PROVE  mine'[d] \cap RunningProducers' = {}
    <2>1. CASE d = c  BY <1>1, <1>2, <1>3, <2>1, Zenon
    <2>2. CASE d # c  BY <1>1, <1>2, <1>4, <2>2, Zenon DEF TeardownInv, NoProducerIsForgotten
    <2> QED  BY <2>1, <2>2
<1>5. ASSUME NEW q \in RunningProducers'
      PROVE  \/ iterator'[q] = "spawned"
             \/ q \in producers'
             \/ \E d \in Callers : InProgress(d)' /\ q \in mine'[d]
    <2>1. ASSUME NEW d \in Callers, InProgress(d), q \in mine[d]
          PROVE  InProgress(d)' /\ q \in mine'[d]
        <3>1. d # c  BY <1>2, <1>3, <2>1, Zenon
        <3> QED  BY <1>1, <2>1, <3>1, Zenon DEF InProgress
    <2> QED  BY <1>1, <1>2, <2>1, Zenon DEF TeardownInv, NoProducerIsForgotten
<1>6. NoProducerIsForgotten'
    BY <1>4, <1>5, Zenon DEF NoProducerIsForgotten
<1>7. DrainedWereTracked'
    BY <1>1, Zenon DEF TeardownInv, DrainedWereTracked
<1>8. ReleasedAfterShutdown'
    BY <1>1, TeardownAssumption, Zenon DEF TeardownInv, ReleasedAfterShutdown
<1> QED  BY <1>6, <1>7, <1>8, Zenon DEF TeardownInv

\* Every step keeps the inductive invariant, whatever calls of shutdown()
\* overlap and whatever iterators are created meanwhile.
LEMMA TeardownNextInv == TeardownInv /\ [TeardownNext]_teardownVars => TeardownInv'
<1> SUFFICES ASSUME TeardownInv, [TeardownNext]_teardownVars PROVE TeardownInv'  OBVIOUS
<1>1. TeardownTypes' /\ TeardownTypeOK
    BY TeardownNextTypes, Zenon DEF TeardownInv, TeardownTypes
<1> USE DEF runVars, callVars, appVars
<1>2. ASSUME NEW r \in Runs, Spawn(r) PROVE TeardownInv'
    BY <1>1, <1>2, SpawnKeepsInv, Zenon
<1>3. ASSUME NEW r \in Runs, track(r) PROVE TeardownInv'
    BY <1>1, <1>3, TrackKeepsInv, Zenon
<1>4. ASSUME NEW r \in Runs, ProducerEnds(r) PROVE TeardownInv'
    <2>1. RunningProducers' \subseteq RunningProducers
        BY <1>1, <1>4, Zenon DEF ProducerEnds, TeardownTypeOK, RunningProducers
    <2>2. UNCHANGED <<iterator, producers, mine, call, appHolds>>
        BY <1>4, Zenon DEF ProducerEnds
    <2>3. ReleasedAfterShutdown'  BY <2>2, Zenon DEF TeardownInv, ReleasedAfterShutdown
    <2> QED  BY <1>1, <2>1, <2>2, <2>3, QuietStep, Zenon DEF InProgress
<1>5. ASSUME NEW c \in Callers, drainProducers(c) PROVE TeardownInv'
    BY <1>1, <1>5, DrainKeepsInv, Zenon
<1>6. ASSUME NEW c \in Callers, CancelProducers(c) PROVE TeardownInv'
    <2>1. /\ UNCHANGED <<iterator, task, producers, mine, appHolds>>
          /\ call[c] = "drained" /\ call'[c] = "awaiting"
          /\ \A d \in Callers : d # c => call'[d] = call[d]
        BY <1>1, <1>6, Zenon DEF CancelProducers, TeardownTypeOK
    <2>2. /\ \A d \in Callers : InProgress(d) => InProgress(d)'
          /\ \A d \in Callers : call'[d] = "returned" => call[d] = "returned"
        BY <2>1 DEF InProgress
    <2>3. RunningProducers' \subseteq RunningProducers
        BY <2>1, Zenon DEF RunningProducers
    <2>4. ReleasedAfterShutdown'
        <3>1. call[Owner] = "returned" => call'[Owner] = "returned"
            BY <2>1, TeardownAssumption
        <3> QED  BY <2>1, <3>1, Zenon DEF TeardownInv, ReleasedAfterShutdown
    <2> QED  BY <1>1, <2>1, <2>2, <2>3, <2>4, QuietStep, Zenon
<1>7. ASSUME NEW c \in Callers, AwaitProducers(c) PROVE TeardownInv'
    BY <1>1, <1>7, AwaitKeepsInv, Zenon
<1>8. CASE Release
    <2>1. UNCHANGED <<iterator, task, producers, mine, call>> /\ call[Owner] = "returned"
        BY <1>8, Zenon DEF Release
    <2>2. RunningProducers' \subseteq RunningProducers  BY <2>1, Zenon DEF RunningProducers
    <2>3. ReleasedAfterShutdown'  BY <2>1, Zenon DEF ReleasedAfterShutdown
    <2> QED  BY <1>1, <2>1, <2>2, <2>3, QuietStep, Zenon DEF InProgress
<1>9. ASSUME UNCHANGED <<iterator, task, producers, mine, call, appHolds>> PROVE TeardownInv'
    <2>1. RunningProducers' \subseteq RunningProducers  BY <1>9, Zenon DEF RunningProducers
    <2>2. ReleasedAfterShutdown'  BY <1>9, Zenon DEF TeardownInv, ReleasedAfterShutdown
    <2> QED  BY <1>1, <1>9, <2>1, <2>2, QuietStep, Zenon DEF InProgress
<1>10. ASSUME NEW r \in Runs, ConsumerStops(r) PROVE TeardownInv'
    BY <1>9, <1>10, Zenon DEF ConsumerStops
<1>11. ASSUME NEW s \in BOOLEAN, Reopen(s) PROVE TeardownInv'
    BY <1>9, <1>11, Zenon DEF Reopen
<1>12. CASE importBlocks \/ ImportFile
    BY <1>9, <1>12, Zenon DEF importBlocks, ImportFile
<1>13. CASE UNCHANGED teardownVars
    BY <1>9, <1>13, Zenon DEF teardownVars
<1> QED
    BY <1>2, <1>3, <1>4, <1>5, <1>6, <1>7, <1>8, <1>10, <1>11, <1>12, <1>13, Zenon
    DEF TeardownNext, Done

\* When no iterator is created after the first shutdown(), no step puts
\* anything into SyncStorage once a call has drained it.
LEMMA TeardownNextDrained ==
    ASSUME NoIteratorAfterShutdown, TeardownInv, NothingAfterDrain, [TeardownNext]_teardownVars
    PROVE  NothingAfterDrain'
<1>1. TeardownTypeOK  BY DEF TeardownInv, TeardownTypes
<1> USE DEF runVars, callVars, appVars
<1>2. ASSUME NEW r \in Runs, Spawn(r) PROVE NothingAfterDrain'
    BY <1>2, Zenon DEF Spawn, NoIteratorAfterShutdown, NothingAfterDrain
<1>3. ASSUME NEW r \in Runs, track(r) PROVE NothingAfterDrain'
    BY <1>3, Zenon DEF track, NothingAfterDrain
<1>4. ASSUME NEW c \in Callers, drainProducers(c) PROVE NothingAfterDrain'
    BY <1>4, Zenon DEF drainProducers, NoIteratorAfterShutdown, NothingAfterDrain
<1>5. ASSUME NEW c \in Callers, CancelProducers(c) \/ AwaitProducers(c) PROVE NothingAfterDrain'
    <2>1. call[c] # "idle" /\ UNCHANGED <<iterator, producers>>
        BY <1>5 DEF CancelProducers, AwaitProducers
    <2> QED  BY <2>1, Zenon DEF NothingAfterDrain
<1>6. ASSUME UNCHANGED <<iterator, producers, call>> PROVE NothingAfterDrain'
    BY <1>6, Zenon DEF NothingAfterDrain
<1>7. ASSUME NEW r \in Runs, ProducerEnds(r) \/ ConsumerStops(r) PROVE NothingAfterDrain'
    BY <1>6, <1>7, Zenon DEF ProducerEnds, ConsumerStops
<1>8. CASE Release \/ importBlocks \/ ImportFile
    BY <1>6, <1>8, Zenon DEF Release, importBlocks, ImportFile
<1>9. ASSUME NEW s \in BOOLEAN, Reopen(s) PROVE NothingAfterDrain'
    BY <1>6, <1>9, Zenon DEF Reopen
<1>10. CASE UNCHANGED teardownVars
    BY <1>6, <1>10, Zenon DEF teardownVars
<1> QED
    BY <1>2, <1>3, <1>4, <1>5, <1>7, <1>8, <1>9, <1>10, Zenon DEF TeardownNext, Done

\* What the two invariants say together: with a call made and none unfinished,
\* there is nowhere left for a running producer to be.
LEMMA QuietWhenAllReturned ==
    ASSUME TeardownInv, NothingAfterDrain
    PROVE  LastShutdownIsABarrier
<1> SUFFICES ASSUME \E c \in Callers : call[c] = "returned",
                    \A c \in Callers : ~InProgress(c),
                    NEW r \in RunningProducers
             PROVE  FALSE
    BY Zenon DEF LastShutdownIsABarrier
<1>1. \E c \in Callers : call[c] # "idle"  OBVIOUS
<1>2. r \in Runs  BY DEF RunningProducers
<1> QED  BY <1>1, <1>2, Zenon DEF TeardownInv, NoProducerIsForgotten, NothingAfterDrain

\* Every producer a returned shutdown() drained has ended, and every running
\* one is still to be tracked, in SyncStorage, or awaited by an unfinished
\* call: for any number of callers, and with iterators created at any time.
THEOREM ProducersNeverForgotten == TeardownSpec => []NoProducerIsForgotten
<1>1. TeardownInv => NoProducerIsForgotten  BY DEF TeardownInv
<1>2. TeardownInit => TeardownInv  BY TeardownInitInv
<1> QED  BY <1>1, <1>2, TeardownNextInv, PTL DEF TeardownSpec

\* Both invariants hold throughout, when no iterator is created after the first
\* shutdown().
LEMMA TeardownInvariant ==
    ASSUME NoIteratorAfterShutdown
    PROVE  TeardownSpec => [](TeardownInv /\ NothingAfterDrain)
<1>1. TeardownInv /\ NothingAfterDrain /\ [TeardownNext]_teardownVars => NothingAfterDrain'
    BY TeardownNextDrained
<1>2. TeardownInit => TeardownInv /\ NothingAfterDrain  BY TeardownInitInv
<1> QED  BY <1>1, <1>2, TeardownNextInv, PTL DEF TeardownSpec

\* Any number of overlapping shutdown() calls are a barrier once the last of
\* them has returned, when no iterator is created after the first.
THEOREM OverlappingShutdownsBarrier ==
    ASSUME NoIteratorAfterShutdown
    PROVE  TeardownSpec => []LastShutdownIsABarrier
<1>1. TeardownInv /\ NothingAfterDrain => LastShutdownIsABarrier  BY QuietWhenAllReturned
<1> QED  BY <1>1, TeardownInvariant, PTL

\* A step that finds the data directory locked is a Reopen with a call of
\* shutdown() unfinished.
LEMMA LockedStep ==
    ASSUME TeardownInv, NothingAfterDrain, [TeardownNext]_teardownVars,
           reopened' = "locked", reopened # "locked"
    PROVE  \E c \in Callers : InProgress(c)
<1>1. PICK s \in BOOLEAN : Reopen(s)
    BY Zenon DEF TeardownNext, Spawn, track, ProducerEnds, ConsumerStops, drainProducers,
        CancelProducers, AwaitProducers, Release, importBlocks, ImportFile, Done, teardownVars,
        appVars
<1>2. Locked /\ ~appHolds
    BY <1>1 DEF Reopen
<1>3. call[Owner] = "returned"
    BY <1>2, Zenon DEF TeardownInv, ReleasedAfterShutdown
<1>4. LastShutdownIsABarrier  BY QuietWhenAllReturned
<1> QED  BY <1>2, <1>3, <1>4, TeardownAssumption, Zenon DEF Locked, LastShutdownIsABarrier

\* A data directory reopened after the owner's shutdown() is locked only if
\* another call of shutdown() is unfinished, when no iterator is created after
\* the first.
THEOREM ReopenLockedOnlyByShutdown ==
    ASSUME NoIteratorAfterShutdown
    PROVE  TeardownSpec => LockedOnlyByShutdown
<1>1. TeardownInv /\ NothingAfterDrain /\ [TeardownNext]_teardownVars
        => [reopened' = "locked" /\ reopened # "locked" => \E c \in Callers : InProgress(c)]_teardownVars
    BY LockedStep
<1> QED  BY <1>1, TeardownInvariant, PTL DEF TeardownSpec, LockedOnlyByShutdown

\* BlockchainSync.shutdown(): with one caller and no iterator created
\* meanwhile, no producer that was alive at the call is alive at the return.
THEOREM ShutdownBarrier ==
    ASSUME SequentialUse
    PROVE  TeardownSpec => []ShutdownIsABarrier
<1>1. LastShutdownIsABarrier => ShutdownIsABarrier
    <2> SUFFICES ASSUME LastShutdownIsABarrier, NEW c \in Callers, call[c] = "returned"
                 PROVE  RunningProducers = {}
        BY Zenon DEF ShutdownIsABarrier
    <2>1. \A d \in Callers : call[d] = "returned"  BY Zenon DEF SequentialUse
    <2>2. \A d \in Callers : ~InProgress(d)  BY <2>1 DEF InProgress
    <2> QED  BY <2>2, Zenon DEF LastShutdownIsABarrier
<1>2. NoIteratorAfterShutdown  BY DEF SequentialUse
<1> QED  BY <1>1, <1>2, OverlappingShutdownsBarrier, PTL

\* Under the same use, a data directory reopened after shutdown() is never
\* locked by the manager it replaces.
THEOREM ReopenIsSafe ==
    ASSUME SequentialUse
    PROVE  TeardownSpec => []ReopenNeverLocked
<1>1. TeardownInv /\ NothingAfterDrain /\ [TeardownNext]_teardownVars /\ ReopenNeverLocked
        => ReopenNeverLocked'
    <2> SUFFICES ASSUME TeardownInv, NothingAfterDrain, [TeardownNext]_teardownVars,
                        reopened' = "locked", reopened # "locked"
                 PROVE  FALSE
        BY Zenon DEF ReopenNeverLocked
    <2>1. InProgress(Owner)  BY LockedStep, Zenon DEF SequentialUse
    <2>2. PICK s \in BOOLEAN : Reopen(s)
        BY Zenon DEF TeardownNext, Spawn, track, ProducerEnds, ConsumerStops, drainProducers,
            CancelProducers, AwaitProducers, Release, importBlocks, ImportFile, Done, teardownVars,
            appVars
    <2>3. call[Owner] = "returned"
        BY <2>2, Zenon DEF Reopen, TeardownInv, ReleasedAfterShutdown
    <2> QED  BY <2>1, <2>3 DEF InProgress
<1>2. TeardownInit => ReopenNeverLocked
    BY DEF TeardownInit, ReopenNeverLocked
<1>3. NoIteratorAfterShutdown  BY DEF SequentialUse
<1> QED  BY <1>1, <1>2, <1>3, TeardownInvariant, PTL DEF TeardownSpec

=============================================================================
