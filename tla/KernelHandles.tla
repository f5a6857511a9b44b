---------------------------- MODULE KernelHandles ----------------------------
(***************************************************************************)
(* What the Swift wrapper hands to the kernel and has to get back: the     *)
(* callback objects attached to a context, the closures of logging         *)
(* connections, and the block handles given to validation callbacks.       *)
(*                                                                         *)
(* A callback object is passed retained; the kernel wraps it in a shared   *)
(* object (KernelNotifications, KernelValidationInterface) whose           *)
(* destructor runs user_data_destroy, which releases it.  ContextOptions   *)
(* and every Context made from them share the wrapper; a chainstate        *)
(* manager shares the context.  The logger is one per process: logging     *)
(* connections and the embedded daemon start and reset the same one.       *)
(***************************************************************************)
EXTENDS Integers, FiniteSets, Sequences

CONSTANTS
    Objects,      \* NotificationCallbacks and ValidationInterfaceCallbacks objects
    Validation,   \* those of them that are ValidationInterfaceCallbacks
    Closures,     \* callbacks of logging connections
    Contexts,
    BufferLines,  \* DEFAULT_MAX_LOG_BUFFER, in lines
    Scopes        \* what a behaviour may use, and how often: the bounds

ASSUME KernelHandlesAssumption ==
    /\ Validation \subseteq Objects /\ Objects \cap Closures = {}
    /\ BufferLines \in Nat \ {0}
    /\ \A s \in Scopes : /\ s.refs \subseteq Objects \cup Closures
                         /\ {s.sets, s.events, s.lines, s.starts} \subseteq Nat

VARIABLES
    scope,
    appRefs,    \* the objects and closures the application still refers to
    retains,    \* passRetained minus release, per object and closure
    user_data,  \* the object in each wrapper, in the order they are made
    uses,       \* the use count of each wrapper's shared_ptr
    options,    \* the wrappers the ContextOptions refer to
    built,      \* FALSE after the deinit of the ContextOptions
    context,    \* the owners and wrappers of each context, and its manager
    running,    \* the wrapper a thread inside the manager is calling, or 0
    handed,     \* btck_Block handles passed to callbacks and not destroyed
    events,     \* callbacks so far
    conn,       \* the state of each logging connection
    logger,     \* LogInstance(), and the daemon's use of it
    lines,      \* lines logged so far
    delivered,  \* the lines each logging callback got...
    due         \* ...and those it should have got

cbVars == <<appRefs, user_data, uses, options, built, context, running, handed, events>>
logVars == <<conn, logger, lines, delivered, due>>
vars == <<scope, retains, cbVars, logVars>>

Ids == 1 .. Len(user_data)
SameKind(o, p) == o \in Validation <=> p \in Validation
Alive(o) == o \in appRefs \/ retains[o] > 0

TypeOK ==
    /\ scope \in Scopes /\ appRefs \subseteq scope.refs
    /\ retains \in [Objects \cup Closures -> Int]
    /\ user_data \in Seq(Objects) /\ uses \in Seq(Nat) /\ Len(uses) = Len(user_data)
    /\ options \subseteq Ids /\ built \in BOOLEAN
    /\ \A c \in Contexts : /\ context[c].owners \subseteq {"swift", "manager"}
                           /\ context[c].wrappers \subseteq Ids
                           /\ context[c].manager \in {"none", "live", "destroying", "gone"}
                           /\ running[c] \in Ids \cup {0}
    /\ conn \in [Closures -> {"none", "live", "gone"}]
    /\ logger.callbacks \subseteq Closures /\ logger.buffer \subseteq 1 .. lines

Init ==
    /\ scope \in Scopes /\ appRefs = scope.refs
    /\ retains = [o \in Objects \cup Closures |-> 0]
    /\ user_data = <<>> /\ uses = <<>> /\ options = {} /\ built = TRUE
    /\ context = [c \in Contexts |-> [owners |-> {}, wrappers |-> {}, manager |-> "none"]]
    /\ running = [c \in Contexts |-> 0] /\ handed = 0 /\ events = 0
    /\ conn = [l \in Closures |-> "none"]
    /\ logger = [buffering |-> TRUE, callbacks |-> {}, buffer |-> {}, disabled |-> FALSE,
                 daemon |-> "off", starts |-> 0, shared |-> FALSE, dangling |-> FALSE,
                 aborted |-> FALSE]
    /\ lines = 0
    /\ delivered = [l \in Closures |-> {}] /\ due = [l \in Closures |-> {}]

-----------------------------------------------------------------------------
(* The callback objects. *)

\* How many shared_ptrs a context has to a wrapper: its member, and for the
\* validation interface the list entry of ValidationSignals.
Shares == [i \in Ids |-> IF user_data[i] \in Validation THEN 2 ELSE 1]

\* n[i] shared_ptrs to each wrapper i of S are gone.  The destructor of a
\* wrapper nobody shares any more releases the object.
Drop(S, n) ==
    /\ uses' = [i \in Ids |-> IF i \in S THEN uses[i] - n[i] ELSE uses[i]]
    /\ retains' = [o \in Objects \cup Closures |->
           retains[o] - Cardinality({i \in S : user_data[i] = o /\ uses[i] = n[i]})]
    /\ UNCHANGED user_data

\* Mutant: a replaced wrapper is forgotten, not destroyed.
SetCallbacksLeaks(o) ==
    LET old == {i \in options : SameKind(user_data[i], o)}
    IN  /\ built /\ o \in appRefs /\ Len(user_data) < scope.sets
        /\ user_data' = Append(user_data, o) /\ uses' = Append(uses, 1)
        /\ retains' = [retains EXCEPT ![o] = @ + 1]
        /\ options' = (options \ old) \cup {Len(user_data) + 1}
        /\ UNCHANGED <<scope, appRefs, built, context, running, handed, events, logVars>>

\* setNotifications and setValidationInterface: the new wrapper replaces the
\* one of the same kind, which a context may still share.
SetCallbacks(o) ==
    LET old == {i \in options : SameKind(user_data[i], o)}
    IN  /\ built /\ o \in appRefs /\ Len(user_data) < scope.sets
        /\ user_data' = Append(user_data, o)
        /\ uses' = Append([i \in Ids |-> IF i \in old THEN uses[i] - 1 ELSE uses[i]], 1)
        /\ retains' = [p \in Objects \cup Closures |->
               retains[p] + (IF p = o THEN 1 ELSE 0)
               - Cardinality({i \in old : user_data[i] = p /\ uses[i] = 1})]
        /\ options' = (options \ old) \cup {Len(user_data) + 1}
        /\ UNCHANGED <<scope, appRefs, built, context, running, handed, events, logVars>>

DropOptions ==
    /\ built /\ built' = FALSE /\ options' = {}
    /\ Drop(options, [i \in Ids |-> 1])
    /\ UNCHANGED <<scope, appRefs, context, running, handed, events, logVars>>

\* Mutant: the context refers to the wrappers of the options without a share.
CreateContextBorrows(c) ==
    /\ built /\ context[c].owners = {} /\ context[c].manager = "none" /\ scope.sets > 0
    /\ context' = [context EXCEPT ![c].owners = {"swift"}, ![c].wrappers = options]
    /\ UNCHANGED <<scope, retains, appRefs, user_data, uses, options, built, running, handed,
                   events, logVars>>

\* When the sanity checks fail the shares are dropped again and nothing is left.
CreateContext(c) ==
    /\ built /\ context[c].owners = {} /\ context[c].manager = "none" /\ scope.sets > 0
    /\ context' = [context EXCEPT ![c].owners = {"swift"}, ![c].wrappers = options]
    /\ uses' = [i \in Ids |-> IF i \in options THEN uses[i] + Shares[i] ELSE uses[i]]
    /\ UNCHANGED <<scope, retains, appRefs, user_data, options, built, running, handed,
                   events, logVars>>

CreateManager(c) ==
    /\ "swift" \in context[c].owners /\ context[c].manager = "none"
    /\ context' = [context EXCEPT ![c].owners = @ \cup {"manager"}, ![c].manager = "live"]
    /\ UNCHANGED <<scope, retains, appRefs, user_data, uses, options, built, running, handed,
                   events, logVars>>

\* An owner of the context goes; ~Context unregisters the validation interface
\* and drops its members.
Disown(c, owner, manager) ==
    LET left == context[c].owners \ {owner}
    IN  /\ owner \in context[c].owners
        /\ context' = [context EXCEPT ![c] =
               [owners |-> left, wrappers |-> IF left = {} THEN {} ELSE @.wrappers,
                manager |-> manager]]
        /\ Drop(IF left = {} THEN context[c].wrappers ELSE {}, Shares)
        /\ UNCHANGED <<scope, appRefs, options, built, running, handed, events, logVars>>

\* The deinit of Context; it leaves a context without a manager for good.
DropContext(c) ==
    Disown(c, "swift", IF context[c].manager = "none" THEN "gone" ELSE context[c].manager)

\* The deinit of ChainstateManager: first the flush, which may call back...
DestroyManager(c) ==
    /\ context[c].manager = "live" /\ running[c] = 0
    /\ context' = [context EXCEPT ![c].manager = "destroying"]
    /\ UNCHANGED <<scope, retains, appRefs, user_data, uses, options, built, running, handed,
                   events, logVars>>

\* ...then delete, which drops the context before the manager itself.
DestroyedManager(c) ==
    /\ context[c].manager = "destroying" /\ running[c] = 0
    /\ Disown(c, "manager", "gone")

\* A notification or a signal, with the object unretained.  A validation
\* callback is passed a handle of its own to the block.
Call(c, i) ==
    /\ context[c].manager \in {"live", "destroying"} /\ running[c] = 0
    /\ i \in context[c].wrappers /\ events < scope.events
    /\ running' = [running EXCEPT ![c] = i] /\ events' = events + 1
    /\ handed' = handed + IF user_data[i] \in Validation THEN 1 ELSE 0
    /\ UNCHANGED <<scope, retains, appRefs, user_data, uses, options, built, context, logVars>>

\* The closure returns, and with it go the copies the Swift trampoline made of
\* the block and the state; the handle it was passed stays.
Returned(c) ==
    /\ running[c] # 0 /\ running' = [running EXCEPT ![c] = 0]
    /\ UNCHANGED <<scope, retains, appRefs, user_data, uses, options, built, context, handed,
                   events, logVars>>

\* The application lets go of an object, inside a callback or not.
Forget(o) ==
    /\ o \in appRefs /\ appRefs' = appRefs \ {o}
    /\ UNCHANGED <<scope, retains, user_data, uses, options, built, context, running, handed,
                   events, logVars>>

-----------------------------------------------------------------------------
(* The logger. *)

Connected == {l \in Closures : conn[l] = "live"}

\* DisconnectTestLogger
Reset(g) == [g EXCEPT !.buffering = TRUE, !.callbacks = {}, !.buffer = {}]

\* StartLogging: assert(m_buffering), then the buffered lines go to everyone.
Start(g) == IF g.buffering THEN [g EXCEPT !.buffering = FALSE, !.buffer = {}]
            ELSE [g EXCEPT !.aborted = TRUE]

\* LogPrintStr_: into the buffer, which drops its oldest lines, or to everyone.
Log ==
    /\ lines < scope.lines /\ lines' = lines + 1
    /\ LET buffer == logger.buffer \cup {lines + 1}
           kept == {n \in buffer : n + BufferLines > lines + 1}
       IN  IF logger.buffering
           THEN logger' = [logger EXCEPT !.buffer = kept] /\ UNCHANGED delivered
           ELSE /\ delivered' = [l \in Closures |-> IF l \in logger.callbacks
                                    THEN delivered[l] \cup {lines + 1} ELSE delivered[l]]
                /\ UNCHANGED logger
    /\ due' = [l \in Closures |-> IF l \in Connected THEN due[l] \cup {lines + 1} ELSE due[l]]
    /\ UNCHANGED <<scope, retains, cbVars, conn>>

\* LoggingConnection.init: the first connection starts the logger and gets what
\* was buffered.
Connect(l) ==
    LET first == logger.callbacks = {}
        pushed == [logger EXCEPT !.callbacks = @ \cup {l},
                                 !.shared = @ \/ logger.daemon # "off"]
        early == IF first THEN logger.buffer ELSE {}
    IN  /\ conn[l] = "none" /\ l \in appRefs
        /\ conn' = [conn EXCEPT ![l] = "live"] /\ retains' = [retains EXCEPT ![l] = @ + 1]
        /\ logger' = IF first THEN Start(pushed) ELSE pushed
        /\ delivered' = [delivered EXCEPT ![l] = early] /\ due' = [due EXCEPT ![l] = early]
        /\ UNCHANGED <<scope, cbVars, lines>>

\* The log file the daemon has asked for cannot be opened: the constructor
\* releases the closure, and so does init when it gets null.
ConnectFails(l) ==
    /\ conn[l] = "none" /\ l \in appRefs
    /\ logger.callbacks = {} /\ logger.buffering /\ logger.daemon = "init"
    /\ conn' = [conn EXCEPT ![l] = "gone"] /\ retains' = [retains EXCEPT ![l] = @ - 1]
    /\ logger' = [logger EXCEPT !.shared = TRUE]
    /\ UNCHANGED <<scope, cbVars, lines, delivered, due>>

\* Mutant: a connection resets the logger whether or not it is the last one.
DisconnectResets(l) ==
    /\ l \in Connected
    /\ conn' = [conn EXCEPT ![l] = "gone"] /\ retains' = [retains EXCEPT ![l] = @ - 1]
    /\ logger' = IF l \in logger.callbacks THEN Reset(logger)
                 ELSE [logger EXCEPT !.dangling = TRUE]
    /\ UNCHANGED <<scope, cbVars, lines, delivered, due>>

\* The deinit of LoggingConnection.  To erase a callback that a reset of the
\* logger has already taken out is undefined: the iterator dangles.
Disconnect(l) ==
    /\ l \in Connected
    /\ conn' = [conn EXCEPT ![l] = "gone"] /\ retains' = [retains EXCEPT ![l] = @ - 1]
    /\ logger' = IF Cardinality(logger.callbacks) = 1 THEN Reset(logger)
                 ELSE IF l \in logger.callbacks THEN [logger EXCEPT !.callbacks = @ \ {l}]
                 ELSE [logger EXCEPT !.dangling = TRUE]
    /\ UNCHANGED <<scope, cbVars, lines, delivered, due>>

\* "Must only be called once", and "not while a LoggingConnection exists".
disableLogging ==
    /\ ~logger.disabled /\ Connected = {} /\ scope.lines > 0
    /\ logger' = Start([logger EXCEPT !.disabled = TRUE, !.shared = @ \/ logger.daemon # "off"])
    /\ UNCHANGED <<scope, retains, cbVars, conn, lines, delivered, due>>

\* InitLogging of an embedded daemon.
DaemonInit ==
    /\ logger.daemon = "off" /\ logger.starts < scope.starts
    /\ logger' = [logger EXCEPT !.daemon = "init", !.starts = @ + 1,
                                !.shared = @ \/ Connected # {}]
    /\ UNCHANGED <<scope, retains, cbVars, conn, lines, delivered, due>>

DaemonStart ==
    /\ logger.daemon = "init" /\ logger' = [Start(logger) EXCEPT !.daemon = "on"]
    /\ UNCHANGED <<scope, retains, cbVars, conn, lines, delivered, due>>

\* Shutdown, also after an initialization that failed: the logger is reset for
\* the next start, and "Shutdown done" is buffered.
DaemonShutdown ==
    /\ logger.daemon # "off" /\ lines' = lines + 1
    /\ logger' = [Reset(logger) EXCEPT !.daemon = "off", !.buffer = {lines + 1}]
    /\ UNCHANGED <<scope, retains, cbVars, conn, delivered, due>>

Next ==
    /\ ~logger.aborted /\ ~logger.dangling
    /\ \/ \E o \in Objects : SetCallbacks(o)
       \/ \E o \in Objects \cup Closures : Forget(o)
       \/ \E c \in Contexts :
             \/ CreateContext(c) \/ CreateManager(c) \/ DropContext(c)
             \/ DestroyManager(c) \/ DestroyedManager(c) \/ Returned(c)
             \/ \E i \in Ids : Call(c, i)
       \/ DropOptions
       \/ Log \/ disableLogging \/ DaemonInit \/ DaemonStart \/ DaemonShutdown
       \/ \E l \in Closures : Connect(l) \/ ConnectFails(l) \/ Disconnect(l)

Spec == Init /\ [][Next]_vars

-----------------------------------------------------------------------------
(* Properties. *)

\* "You may release your Swift reference": a callback never runs on an object
\* that is gone, whatever the application drops, and in whatever order: options,
\* contexts, managers, the object itself, even from inside the callback; and the
\* logger holds no closure that has been released.
CalledObjectAlive ==
    /\ \A c \in Contexts : running[c] # 0 => Alive(user_data[running[c]])
    /\ \A l \in logger.callbacks : Alive(l)

\* user_data_destroy runs once for every time an object was passed: an object is
\* retained as often as options and contexts that still exist refer to it.  The
\* closure of a logging connection is retained while the connection exists.
RetainsBalanced ==
    /\ \A o \in Objects : retains[o] =
           Cardinality({i \in Ids : /\ user_data[i] = o
                                    /\ i \in options \cup UNION {context[c].wrappers : c \in Contexts}})
    /\ ~logger.shared =>
           \A l \in Closures : retains[l] = IF l \in Connected THEN 1 ELSE 0

\* As long as no daemon shares the logger, a connection gets every line that is
\* logged while it exists, and the first one the lines "buffered" before it.
\* Connections come and go without hitting the logger's assertions or a dangling
\* iterator, unless a daemon shares the logger or it was disabled.
LoggerFaithful ==
    /\ ~logger.shared => \A l \in Connected : delivered[l] = due[l]
    /\ logger.aborted => logger.shared \/ logger.disabled
    /\ logger.dangling => logger.shared

\* Violated.  "Const pointers represent views, and do not transfer ownership";
\* the block handle of a validation callback is not const, and is the
\* trampoline's to destroy.
HandedBlocksDestroyed == (\A c \in Contexts : running[c] = 0) => handed = 0

=============================================================================
