--------------------------- MODULE SyncRunProofs ----------------------------
(***************************************************************************)
(* The steps of sync runs, for any block tree, any source, any buffer size *)
(* and any number of runs on one chainstate, where the kernel keeps its    *)
(* contract.                                                               *)
(*                                                                         *)
(* 1. The update streams.  A step of runSyncLoop does one of four things   *)
(*    to its stream (Quiet, Reports, Concludes, EndsQuietly), and each of  *)
(*    them keeps the invariant: what the kernel and the source answer does *)
(*    not matter.  That the stream implements UpdateStream also takes the  *)
(*    invariant of the kernel state.                                       *)
(* 2. The kernel state that runs share with each other and with headers    *)
(*    that the application feeds.                                          *)
(* 3. A run that has the chainstate to itself, between two blocks.         *)
(***************************************************************************)
EXTENDS SyncInvariants, TLAPS

\* The two numbers the application sees are natural numbers.
LEMMA ProgressTyped ==
    ASSUME NEW n \in Nat, NEW m \in Nat
    PROVE  [total |-> n, completed |-> m] \in [total : Nat, completed : Nat]
    OBVIOUS

-----------------------------------------------------------------------------
(* The four things a step of runSyncLoop does to its stream. *)

Quiet(r) ==
    /\ pc[r] \in Busy
    /\ \E l \in Busy : pc' = [pc EXCEPT ![r] = l]
    /\ UNCHANGED stream

Reports(r) ==
    /\ \/ pc[r] = "idle" /\ \E u : u.state = "preparing" /\ Yield(r, u)
       \/ pc[r] \in Busy /\ \E u : u.state = "syncing" /\ Yield(r, u)
    /\ \E l \in Busy : pc' = [pc EXCEPT ![r] = l]
    /\ UNCHANGED terminated

Concludes(r) ==
    /\ pc[r] \in Busy
    /\ \E u : u.state \in Terminal /\ Yield(r, u)
    /\ pc' = [pc EXCEPT ![r] = "done"]
    /\ terminated' = [terminated EXCEPT ![r] = TRUE]

EndsQuietly(r) ==
    /\ pc[r] \in Busy
    /\ UNCHANGED <<buffer, emitted, dropped>>
    /\ pc' = [pc EXCEPT ![r] = "done"]
    /\ terminated' = [terminated EXCEPT ![r] = TRUE]

\* Start is a report.
LEMMA StartReports == ASSUME NEW r \in Runs, Start(r) PROVE Reports(r)
    BY Zenon DEF Start, Reports, Goto, Busy, PCs, Requests

\* A failing run concludes with a terminal update.
LEMMA FailConcludes ==
    ASSUME NEW r \in Runs, NEW why, NEW rtip, pc[r] \in Busy, Fail(r, why, rtip)
    PROVE  Concludes(r)
    BY DEF Fail, Conclude, Finish, Concludes, Terminal

\* A run that moves on to a request or kernel call without touching its
\* stream is quiet.
LEMMA GotoQuiet ==
    ASSUME NEW r \in Runs, NEW l \in Busy, pc[r] \in Busy, Goto(r, l), UNCHANGED stream
    PROVE  Quiet(r)
    BY Zenon DEF Goto, Quiet

\* Every step of runSyncLoop is one of the four.
LEMMA RunStepEffect ==
    ASSUME NEW r \in Runs, RunStep(r)
    PROVE  Quiet(r) \/ Reports(r) \/ Concludes(r) \/ EndsQuietly(r)
<1>b. {"tipHash", "forkHash", "pollHeight", "pollHash", "loop", "hash", "block",
       "accept", "activate", "readTip"} \subseteq Busy /\ Requests \subseteq Busy
    BY DEF Busy, PCs, Requests
<1>e. ASSUME pc[r] \in Busy, EndSilently(r) PROVE EndsQuietly(r)
    BY <1>e DEF EndSilently, Finish, EndsQuietly
<1>1. CASE RequestFails(r)
    BY <1>1, <1>b, <1>e, FailConcludes DEF RequestFails
<1>2. CASE TipHeight(r)
    BY <1>2, <1>b, GotoQuiet DEF TipHeight, Requests, stream
<1>3. CASE RemoteTip(r)
    BY <1>3, <1>b, GotoQuiet, FailConcludes DEF RemoteTip, EnterLoop, Requests, stream
<1>4. CASE ForkCheck(r)
    BY <1>4, <1>b, GotoQuiet, FailConcludes DEF ForkCheck, EnterLoop
<1>5. CASE LoopTop(r)
    BY <1>5, <1>b, <1>e, GotoQuiet DEF LoopTop
<1>6. CASE Repoll(r)
  <2>1. pc[r] \in Busy
    BY <1>6, <1>b DEF Repoll
  <2>2. ASSUME NEW tip, NEW rtip, Conclude(r, "finished", "none", tip, rtip)
        PROVE  Concludes(r)
    BY <2>1, <2>2 DEF Conclude, Finish, Concludes, Terminal
  <2> QED
    BY <1>6, <1>b, <2>1, <2>2, GotoQuiet DEF Repoll
<1>7. CASE FetchHash(r)
    BY <1>7, <1>b, GotoQuiet, FailConcludes DEF FetchHash
<1>8. CASE FetchBlock(r)
    BY <1>8, <1>b, GotoQuiet DEF FetchBlock, stream
<1>9. CASE ProcessAccept(r)
    BY <1>9, <1>b, GotoQuiet, FailConcludes DEF ProcessAccept
<1>10. CASE ProcessActivate(r)
    BY <1>10, <1>b, GotoQuiet DEF ProcessActivate, stream
<1>11. CASE Advance(r)
    BY <1>11, <1>b, Zenon DEF Advance, Reports, Goto
<1> QED
    BY <1>1, <1>2, <1>3, <1>4, <1>5, <1>6, <1>7, <1>8, <1>9, <1>10, <1>11 DEF RunStep

-----------------------------------------------------------------------------
(* What a yield does to the sequences. *)

\* Sequences stay sequences when the set of their elements grows.
LEMMA SeqWiden ==
    ASSUME NEW S, NEW T, S \subseteq T, NEW s \in Seq(S)
    PROVE  s \in Seq(T)
    OBVIOUS

\* A yield keeps the shape of the stream variables.
LEMMA YieldShape ==
    ASSUME SyncAssumption, Shape, NEW r \in Runs, NEW u, Yield(r, u),
           pc' \in [Runs -> PCs], terminated' \in [Runs -> BOOLEAN]
    PROVE  Shape'
<1>1. PICK S : emitted \in [Runs -> Seq(S)] /\ buffer \in [Runs -> Seq(S)]
    BY Zenon DEF Shape
<1>2. PICK D : dropped \in [Runs -> SUBSET D]
    BY Zenon DEF Shape
<1> DEFINE T == S \cup {u}
           E == D \cup {Head(buffer[r]).state}
<1>3. emitted \in [Runs -> Seq(T)] /\ buffer \in [Runs -> Seq(T)]
  <2>1. S \subseteq T
    OBVIOUS
  <2> HIDE DEF T
  <2> QED
    BY <1>1, <2>1, SeqWiden
<1>4. u \in T
    OBVIOUS
<1>5. emitted' \in [Runs -> Seq(T)]
  <2> HIDE DEF T
  <2>1. Append(emitted[r], u) \in Seq(T)
    BY <1>3, <1>4
  <2>2. emitted' = emitted \/ emitted' = [emitted EXCEPT ![r] = Append(emitted[r], u)]
    BY DEF Yield
  <2> QED
    BY <1>3, <2>1, <2>2, Zenon
<1>6. buffer' \in [Runs -> Seq(T)]
  <2> HIDE DEF T
  <2>1. Len(buffer[r]) >= BufferLimit => buffer[r] # <<>>
    BY <1>3 DEF SyncAssumption
  <2>2. Len(buffer[r]) \in Nat /\ BufferLimit \in Nat
    BY <1>3 DEF SyncAssumption
  <2>3. Len(buffer[r]) >= BufferLimit => Append(Tail(buffer[r]), u) \in Seq(T)
    BY <1>3, <1>4, <2>1
  <2>4. Append(buffer[r], u) \in Seq(T)
    BY <1>3, <1>4
  <2>5. \/ buffer' = buffer
        \/ buffer' = [buffer EXCEPT ![r] = Append(buffer[r], u)]
        \/ /\ Len(buffer[r]) >= BufferLimit
           /\ buffer' = [buffer EXCEPT ![r] = Append(Tail(buffer[r]), u)]
    BY <2>2 DEF Yield
  <2> QED
    BY <1>3, <2>3, <2>4, <2>5, Zenon
<1>7. dropped' \in [Runs -> SUBSET E]
  <2>1. dropped \in [Runs -> SUBSET E]
    BY <1>2
  <2> QED
    BY <2>1 DEF Yield
<1> QED
    BY <1>5, <1>6, <1>7, Zenon DEF Shape

\* A yield that keeps to the order of the states keeps the invariant.
LEMMA YieldKeepsInv ==
    ASSUME SyncAssumption, StreamInv, NEW r \in Runs, NEW u, NEW l \in PCs \ {"idle"},
           Yield(r, u), pc[r] # "done",
           pc' = [pc EXCEPT ![r] = l],
           terminated' \in [Runs -> BOOLEAN],
           \A q \in Runs : terminated[q] => terminated'[q],
           \A q \in Runs \ {r} : terminated'[q] = terminated[q],
           l = "done" => terminated'[r],
           u.state = "preparing" <=> pc[r] = "idle",
           u.state \in Terminal <=> l = "done"
    PROVE  StreamInv'
<1>1. Shape /\ Phases /\ UpdatesWellFormed /\ BufferOpen /\ TerminalNeverDropped
    BY DEF StreamInv
<1>2. pc \in [Runs -> PCs] /\ terminated \in [Runs -> BOOLEAN]
    BY <1>1 DEF Shape
<1>3. pc' \in [Runs -> PCs] /\ pc'[r] = l /\ \A q \in Runs \ {r} : pc'[q] = pc[q]
    BY <1>2
<1>4. Shape'
    BY <1>1, <1>3, YieldShape
<1>5. PICK S : emitted \in [Runs -> Seq(S)] /\ buffer \in [Runs -> Seq(S)]
    BY <1>1, Zenon DEF Shape
<1>6. PICK D : dropped \in [Runs -> SUBSET D]
    BY <1>1, Zenon DEF Shape
<1>7. BufferLimit \in Nat \ {0} /\ Len(buffer[r]) \in Nat
    BY <1>5 DEF SyncAssumption
<1>8. CASE terminated[r]
  <2>1. emitted' = emitted /\ buffer' = buffer /\ dropped' = dropped
    BY <1>8 DEF Yield
  <2>2. pc[r] # "idle"
    BY <1>1, <1>8 DEF Phases
  <2>3. Phases'
    BY <1>1, <1>3, <2>1, <2>2 DEF Phases
  <2>4. UpdatesWellFormed'
    BY <1>1, <1>3, <2>1 DEF UpdatesWellFormed
  <2>5. BufferOpen'
    BY <1>1, <1>3, <2>1 DEF BufferOpen
  <2>6. TerminalNeverDropped'
    BY <1>1, <2>1 DEF TerminalNeverDropped
  <2> QED
    BY <1>4, <2>3, <2>4, <2>5, <2>6 DEF StreamInv
<1>9. CASE ~terminated[r]
  <2> DEFINE e == emitted[r]
             b == IF Len(buffer[r]) < BufferLimit THEN buffer[r] ELSE Tail(buffer[r])
  <2>1. emitted' = [emitted EXCEPT ![r] = Append(e, u)]
    BY <1>9 DEF Yield
  <2>2. buffer' = [buffer EXCEPT ![r] = Append(b, u)]
    BY <1>9 DEF Yield
  <2>3. /\ emitted'[r] = Append(e, u) /\ buffer'[r] = Append(b, u)
        /\ \A q \in Runs \ {r} : emitted'[q] = emitted[q] /\ buffer'[q] = buffer[q]
    BY <1>5, <2>1, <2>2
  <2>4. /\ Append(e, u) # <<>>
        /\ Len(Append(e, u)) = Len(e) + 1
        /\ Len(e) \in Nat
        /\ Append(e, u)[Len(e) + 1] = u
        /\ \A i \in 1 .. Len(e) : Append(e, u)[i] = e[i]
    <3> DEFINE T == S \cup {u}
    <3>1. e \in Seq(T) /\ u \in T
      <4>1. S \subseteq T /\ u \in T
        OBVIOUS
      <4> HIDE DEF T
      <4> QED
        BY <1>5, <4>1, SeqWiden
    <3> HIDE DEF T, e
    <3> QED
      BY <3>1
  <2>5. Phases'
    BY <1>1, <1>3, <2>3, <2>4 DEF Phases
  <2>6. UpdatesWellFormed'
    <3>1. ASSUME NEW i \in 1 .. Len(e)
          PROVE  /\ e[i].state = "preparing" <=> i = 1
                 /\ e[i].state \notin Terminal
      BY <1>1, <3>1 DEF UpdatesWellFormed, Terminal
    <3>2. pc[r] = "idle" <=> Len(e) = 0
      BY <1>1, <1>5 DEF Phases
    <3>3. ASSUME NEW i \in 1 .. Len(Append(e, u))
          PROVE  /\ Append(e, u)[i].state = "preparing" <=> i = 1
                 /\ Append(e, u)[i].state \in Terminal =>
                       i = Len(Append(e, u)) /\ l = "done"
      <4>1. CASE i \in 1 .. Len(e)
        BY <2>4, <3>1, <4>1
      <4>2. CASE i = Len(e) + 1
        BY <2>4, <3>2, <4>2
      <4> QED
        BY <2>4, <3>3, <4>1, <4>2
    <3> HIDE DEF e
    <3>4. ASSUME NEW q \in Runs \ {r}, NEW i \in 1 .. Len(emitted'[q])
          PROVE  /\ emitted'[q][i].state = "preparing" <=> i = 1
                 /\ emitted'[q][i].state \in Terminal =>
                       i = Len(emitted'[q]) /\ pc'[q] = "done"
      BY <1>1, <1>3, <2>3, <3>4 DEF UpdatesWellFormed, Terminal
    <3> QED
      BY <1>3, <2>3, <3>3, <3>4 DEF UpdatesWellFormed, Terminal
  <2>7. BufferOpen'
    <3>1. ASSUME l # "done", NEW i \in 1 .. Len(Append(b, u))
          PROVE  Append(b, u)[i].state \notin Terminal
      <4>1. u.state \notin Terminal
        BY <3>1
      <4>2. b \in Seq(S) /\ \A j \in 1 .. Len(b) : b[j].state \notin Terminal
        <5>1. \A j \in 1 .. Len(buffer[r]) : buffer[r][j].state \notin Terminal
          BY <1>1 DEF BufferOpen
        <5>2. CASE Len(buffer[r]) < BufferLimit
          BY <1>5, <5>1, <5>2
        <5>3. CASE ~(Len(buffer[r]) < BufferLimit)
          <6>1. buffer[r] # <<>> /\ buffer[r] \in Seq(S)
            BY <1>5, <1>7, <5>3
          <6>2. /\ Tail(buffer[r]) \in Seq(S)
                /\ Len(Tail(buffer[r])) = Len(buffer[r]) - 1
                /\ \A j \in 1 .. Len(Tail(buffer[r])) :
                      Tail(buffer[r])[j] = buffer[r][j + 1]
            BY <6>1
          <6> QED
            BY <1>7, <5>1, <5>3, <6>2
        <5> QED
          BY <5>2, <5>3, Zenon
      <4> HIDE DEF b
      <4> DEFINE T == S \cup {u}
      <4>3. b \in Seq(T) /\ u \in T
        <5>1. S \subseteq T /\ u \in T
          OBVIOUS
        <5> HIDE DEF T
        <5> QED
          BY <4>2, <5>1, SeqWiden
      <4> HIDE DEF T
      <4>4. CASE i \in 1 .. Len(b)
        BY <4>2, <4>3, <4>4
      <4>5. CASE i = Len(b) + 1
        BY <4>1, <4>3, <4>5
      <4> QED
        BY <3>1, <4>3, <4>4, <4>5
    <3> HIDE DEF b
    <3> QED
      BY <1>1, <1>3, <2>3, <3>1, Zenon DEF BufferOpen
  <2>8. TerminalNeverDropped'
    <3>1. CASE Len(buffer[r]) < BufferLimit
      BY <1>1, <1>9, <3>1 DEF Yield, TerminalNeverDropped
    <3>2. CASE ~(Len(buffer[r]) < BufferLimit)
      <4>1. Head(buffer[r]).state \notin Terminal
        <5>1. 1 \in 1 .. Len(buffer[r]) /\ Head(buffer[r]) = buffer[r][1]
          BY <1>5, <1>7, <3>2
        <5> QED
          BY <1>1, <5>1 DEF BufferOpen
      <4>2. dropped' = [dropped EXCEPT ![r] = @ \cup {Head(buffer[r]).state}]
        BY <1>9, <3>2 DEF Yield
      <4> QED
        BY <1>1, <1>6, <4>1, <4>2 DEF TerminalNeverDropped, Terminal
    <3> QED
      BY <3>1, <3>2
  <2> QED
    BY <1>4, <2>5, <2>6, <2>7, <2>8 DEF StreamInv
<1> QED
    BY <1>2, <1>8, <1>9

-----------------------------------------------------------------------------
\* A step that leaves the updates alone and moves one run between control
\* states other than idle, terminating its stream when it returns.
LEMMA SilentKeepsInv ==
    ASSUME StreamInv, NEW r \in Runs, NEW l \in PCs \ {"idle"}, pc[r] \in Busy,
           UNCHANGED <<emitted, buffer, dropped>>,
           pc' = [pc EXCEPT ![r] = l],
           terminated' \in [Runs -> BOOLEAN],
           \A q \in Runs \ {r} : terminated'[q] = terminated[q],
           l = "done" => terminated'[r]
    PROVE  StreamInv'
<1>1. Shape /\ Phases /\ UpdatesWellFormed /\ BufferOpen /\ TerminalNeverDropped
    BY DEF StreamInv
<1>2. pc \in [Runs -> PCs] /\ pc[r] \notin {"idle", "done"}
    BY <1>1 DEF Shape, Busy
<1>3. pc' \in [Runs -> PCs] /\ pc'[r] = l /\ \A q \in Runs \ {r} : pc'[q] = pc[q]
    BY <1>2
<1>4. Shape'
    BY <1>1, <1>3, Zenon DEF Shape
<1>5. Phases'
    BY <1>1, <1>2, <1>3 DEF Phases
<1>6. UpdatesWellFormed'
    BY <1>1, <1>2, <1>3 DEF UpdatesWellFormed
<1>7. BufferOpen'
    BY <1>1, <1>2, <1>3 DEF BufferOpen
<1>8. TerminalNeverDropped'
    BY <1>1 DEF TerminalNeverDropped
<1> QED
    BY <1>4, <1>5, <1>6, <1>7, <1>8 DEF StreamInv

\* The four effects keep the invariant.
LEMMA EffectsKeepInv ==
    ASSUME SyncAssumption, StreamInv, NEW r \in Runs,
           Quiet(r) \/ Reports(r) \/ Concludes(r) \/ EndsQuietly(r)
    PROVE  StreamInv'
<1>1. terminated \in [Runs -> BOOLEAN]
    BY DEF StreamInv, Shape
<1>b. Busy \subseteq PCs \ {"idle"} /\ "done" \in PCs \ {"idle"} /\ "done" \notin Busy
      /\ "idle" \notin Busy
    BY DEF Busy, PCs
<1>2. CASE Quiet(r)
    BY <1>1, <1>2, <1>b, SilentKeepsInv, Zenon DEF Quiet, stream
<1>3. CASE EndsQuietly(r)
    BY <1>1, <1>3, <1>b, SilentKeepsInv, Zenon DEF EndsQuietly
<1>4. CASE Reports(r)
  <2>1. PICK l \in Busy : pc' = [pc EXCEPT ![r] = l]
    BY <1>4, Zenon DEF Reports
  <2>2. PICK u : /\ Yield(r, u)
                 /\ \/ pc[r] = "idle" /\ u.state = "preparing"
                    \/ pc[r] \in Busy /\ u.state = "syncing"
    BY <1>4 DEF Reports
  <2>3. terminated' = terminated
    BY <1>4 DEF Reports
  <2>4. /\ u.state = "preparing" <=> pc[r] = "idle"
        /\ u.state \notin Terminal
        /\ pc[r] # "done" /\ l # "done"
    BY <2>2, <1>b DEF Terminal
  <2> QED
    BY <1>1, <1>b, <2>1, <2>2, <2>3, <2>4, YieldKeepsInv, Zenon
<1>5. CASE Concludes(r)
  <2>1. PICK u : u.state \in Terminal /\ Yield(r, u)
    BY <1>5 DEF Concludes
  <2>2. /\ pc' = [pc EXCEPT ![r] = "done"]
        /\ terminated' = [terminated EXCEPT ![r] = TRUE]
        /\ pc[r] \in Busy
    BY <1>5 DEF Concludes
  <2>3. u.state # "preparing" /\ pc[r] # "idle" /\ pc[r] # "done"
    BY <1>b, <2>1, <2>2 DEF Terminal
  <2>4. /\ terminated' \in [Runs -> BOOLEAN] /\ terminated'[r]
        /\ \A q \in Runs : terminated[q] => terminated'[q]
        /\ \A q \in Runs \ {r} : terminated'[q] = terminated[q]
    BY <1>1, <2>2
  <2> QED
    BY <1>b, <2>1, <2>2, <2>3, <2>4, YieldKeepsInv, Zenon
<1> QED
    BY <1>2, <1>3, <1>4, <1>5

\* The consumer takes an update or leaves.
LEMMA ConsumerKeepsInv ==
    ASSUME StreamInv, NEW r \in Runs, Consume(r) \/ ConsumerStops(r)
    PROVE  StreamInv'
<1>1. Shape /\ Phases /\ UpdatesWellFormed /\ BufferOpen /\ TerminalNeverDropped
    BY DEF StreamInv
<1>2. PICK S : emitted \in [Runs -> Seq(S)] /\ buffer \in [Runs -> Seq(S)]
    BY <1>1, Zenon DEF Shape
<1>3. pc' = pc /\ emitted' = emitted /\ dropped' = dropped
    BY DEF Consume, ConsumerStops
<1>4. UpdatesWellFormed' /\ TerminalNeverDropped'
    BY <1>1, <1>3 DEF UpdatesWellFormed, TerminalNeverDropped
<1>5. CASE Consume(r)
  <2>1. buffer[r] # <<>> /\ buffer' = [buffer EXCEPT ![r] = Tail(buffer[r])]
        /\ terminated' = terminated
    BY <1>5 DEF Consume
  <2>2. /\ Tail(buffer[r]) \in Seq(S)
        /\ Len(Tail(buffer[r])) = Len(buffer[r]) - 1
        /\ Len(buffer[r]) \in Nat
        /\ \A i \in 1 .. Len(Tail(buffer[r])) : Tail(buffer[r])[i] = buffer[r][i + 1]
    BY <1>2, <2>1
  <2>3. buffer' \in [Runs -> Seq(S)] /\ buffer'[r] = Tail(buffer[r])
        /\ \A q \in Runs \ {r} : buffer'[q] = buffer[q]
    BY <1>2, <2>1, <2>2
  <2>4. Shape'
    BY <1>1, <1>2, <1>3, <2>1, <2>3, Zenon DEF Shape
  <2>5. Phases'
    BY <1>1, <1>3, <2>1 DEF Phases
  <2>6. BufferOpen'
    <3>1. ASSUME pc[r] # "done", NEW i \in 1 .. Len(Tail(buffer[r]))
          PROVE  Tail(buffer[r])[i].state \notin Terminal
      <4>1. i + 1 \in 1 .. Len(buffer[r])
        BY <2>2, <3>1
      <4> QED
        BY <1>1, <2>2, <3>1, <4>1 DEF BufferOpen
    <3> QED
      BY <1>1, <1>3, <2>3, <3>1, Zenon DEF BufferOpen
  <2> QED
    BY <1>4, <2>4, <2>5, <2>6 DEF StreamInv
<1>6. CASE ConsumerStops(r)
  <2>1. /\ pc[r] # "idle"
        /\ buffer' = [buffer EXCEPT ![r] = <<>>]
        /\ terminated' = [terminated EXCEPT ![r] = TRUE]
    BY <1>6 DEF ConsumerStops
  <2>2. buffer' \in [Runs -> Seq(S)] /\ buffer'[r] = <<>>
        /\ \A q \in Runs \ {r} : buffer'[q] = buffer[q]
    BY <1>2, <2>1
  <2>3. Shape'
    BY <1>1, <1>2, <1>3, <2>1, <2>2, Zenon DEF Shape
  <2>4. Phases'
    <3>1. terminated'[r] = TRUE /\ \A q \in Runs \ {r} : terminated'[q] = terminated[q]
      BY <1>1, <2>1 DEF Shape
    <3> QED
      BY <1>1, <1>3, <2>1, <3>1 DEF Phases
  <2>5. BufferOpen'
    BY <1>1, <1>3, <2>2 DEF BufferOpen
  <2> QED
    BY <1>4, <2>3, <2>4, <2>5 DEF StreamInv
<1> QED
    BY <1>5, <1>6

\* Steps of the surroundings that no stream sees.
LEMMA ElsewhereKeepsInv ==
    ASSUME StreamInv, UNCHANGED <<pc, stream>>
    PROVE  StreamInv'
    BY ZenonT(60) DEF StreamInv, Shape, Phases, UpdatesWellFormed, BufferOpen,
           TerminalNeverDropped, stream

\* No run has started and no update has been yielded.
LEMMA InitStreamInv == ASSUME Init PROVE StreamInv
<1>1. Shape
    BY DEF Init, Shape, PCs
<1>2. Phases /\ UpdatesWellFormed /\ BufferOpen /\ TerminalNeverDropped
    BY DEF Init, Phases, UpdatesWellFormed, BufferOpen, TerminalNeverDropped
<1> QED
    BY <1>1, <1>2 DEF StreamInv

\* Every step of a run, of its consumer or of their surroundings keeps the
\* invariant.
LEMMA NextStreamInv ==
    ASSUME SyncAssumption, StreamInv, [Next]_vars
    PROVE  StreamInv'
<1>1. CASE \E r \in Runs : Start(r) \/ RunStep(r)
    BY <1>1, StartReports, RunStepEffect, EffectsKeepInv
<1>2. CASE \E r \in Runs : Consume(r) \/ ConsumerStops(r)
    BY <1>2, ConsumerKeepsInv
<1>3. CASE Shutdown \/ SourceMoves \/ processBlockHeader \/ Finished \/ UNCHANGED vars
    BY <1>3, ElsewhereKeepsInv
       DEF Shutdown, SourceMoves, processBlockHeader, Finished, vars, stream
<1> QED
    BY <1>1, <1>2, <1>3 DEF Next

-----------------------------------------------------------------------------
\* The inductive invariant of the update streams of runSyncLoop holds for any
\* number of runs, any block tree and any buffer limit.
THEOREM StreamInvariant == Spec => []StreamInv
    BY SyncAssumption, InitStreamInv, NextStreamInv, PTL DEF Spec

\* The updates of every run come in the documented order: preparing first and
\* only first, finished or failed last, and only once runSyncLoop has returned
\* (SyncLoop.swift; State in BlockchainSync.swift).
THEOREM UpdatesInOrder == Spec => []UpdatesWellFormed
    BY StreamInvariant, PTL DEF StreamInv

\* The terminal update never falls out of the bufferingNewest buffer, whatever
\* its size and however slow the consumer (Updates in BlockchainSync.swift).
THEOREM TerminalDelivered == Spec => []TerminalNeverDropped
    BY StreamInvariant, PTL DEF StreamInv

-----------------------------------------------------------------------------
(* The update stream implements UpdateStream. *)

\* What a step of a run does to its own stream: nothing,
Stays(r) ==
    /\ pc[r] \in Busy /\ pc'[r] \in Busy
    /\ emitted'[r] = emitted[r]
    /\ terminated'[r] = terminated[r] /\ cancelled'[r] = cancelled[r]
    /\ terminated[r] \/ localTip'[r] = localTip[r]

\* or add the update u and go on,
Tells(r, u) ==
    /\ ~terminated[r] /\ ~terminated'[r] /\ cancelled'[r] = cancelled[r]
    /\ pc'[r] \in Busy
    /\ emitted'[r] = Append(emitted[r], u) /\ u.tip = localTip'[r]
    /\ \/ pc[r] = "idle" /\ u.state = "preparing"
       \/ pc[r] = "readTip" /\ u.state = "syncing"

\* or add it and end,
Closes(r, u) ==
    /\ pc[r] \in Busy /\ pc'[r] = "done"
    /\ ~terminated[r] /\ terminated'[r] /\ cancelled'[r]
    /\ emitted'[r] = Append(emitted[r], u) /\ u.tip = localTip[r] /\ u.state \in Terminal
    /\ u.state = "finished" => Height[u.tip] >= u.remoteTip.height

\* or end without one because it was cancelled.
Leaves(r) ==
    /\ pc[r] \in Busy /\ pc'[r] = "done"
    /\ cancelled[r] /\ terminated'[r] /\ cancelled'[r]
    /\ emitted'[r] = emitted[r]

\* It does nothing to the streams of the others.
Alongside(r) ==
    \A q \in Runs \ {r} :
        /\ pc'[q] = pc[q] /\ localTip'[q] = localTip[q]
        /\ emitted'[q] = emitted[q] /\ terminated'[q] = terminated[q]
        /\ cancelled'[q] = cancelled[q]

StreamStep(r) ==
    /\ Alongside(r)
    /\ Stays(r) \/ Leaves(r) \/ \E u \in Updates : Tells(r, u) \/ Closes(r, u)

\* A run goes on without an update.
LEMMA GotoStays ==
    ASSUME StreamTyped, NEW r \in Runs, NEW l \in Busy, pc[r] \in Busy, Goto(r, l),
           UNCHANGED <<localTip, stream>>
    PROVE  StreamStep(r)
<1>1. /\ pc' = [pc EXCEPT ![r] = l] /\ cancelled' = cancelled
      /\ localTip' = localTip /\ emitted' = emitted /\ terminated' = terminated
    BY DEF Goto, stream
<1>2. pc \in [Runs -> PCs]
    BY Zenon DEF StreamTyped
<1> QED  BY <1>1, <1>2 DEF StreamStep, Alongside, Stays

\* A run that yields and goes on; a dropped stream ignores the update.
LEMMA ReportTells ==
    ASSUME StreamTyped, LocalsTyped, NEW r \in Runs, NEW l \in Busy, NEW u \in Updates,
           Yield(r, u), Goto(r, l), UNCHANGED terminated,
           localTip' = [localTip EXCEPT ![r] = u.tip],
           pc[r] = "idle" => ~terminated[r],
           \/ pc[r] = "idle" /\ u.state = "preparing"
           \/ pc[r] = "readTip" /\ u.state = "syncing"
    PROVE  StreamStep(r)
<1>b. "readTip" \in Busy
    BY DEF Busy, PCs
<1>1. pc' = [pc EXCEPT ![r] = l] /\ cancelled' = cancelled
    BY DEF Goto
<1>2. /\ pc \in [Runs -> PCs] /\ localTip \in [Runs -> Blocks]
      /\ emitted \in [Runs -> Seq(Updates)]
    BY Zenon DEF StreamTyped, LocalsTyped
<1>3. Alongside(r) /\ pc'[r] = l /\ localTip'[r] = u.tip
    BY <1>1, <1>2, Zenon DEF Alongside, Yield
<1>4. CASE terminated[r]
    <2>1. emitted' = emitted
        BY <1>4 DEF Yield
    <2> QED  BY <1>b, <1>1, <1>3, <1>4, <2>1, Zenon DEF StreamStep, Stays
<1>5. CASE ~terminated[r]
    <2>1. emitted'[r] = Append(emitted[r], u)
        BY <1>2, <1>5 DEF Yield
    <2>2. Tells(r, u)
        BY <1>1, <1>3, <1>5, <2>1, Zenon DEF Tells
    <2> QED  BY <1>3, <2>2 DEF StreamStep
<1> QED  BY <1>4, <1>5

\* A run that ends with an update of its own tip; a dropped stream ignores it.
LEMMA ConcludeCloses ==
    ASSUME StreamTyped, LocalsTyped, NEW r \in Runs, pc[r] \in Busy, terminated[r] => cancelled[r],
           NEW state \in Terminal, NEW why \in Reasons, NEW rtip \in Tips,
           Conclude(r, state, why, localTip[r], rtip), UNCHANGED localTip,
           state = "finished" => Height[localTip[r]] >= rtip.height
    PROVE  StreamStep(r)
<1> DEFINE u == [state |-> state, why |-> why, tip |-> localTip[r], remoteTip |-> rtip]
<1>1. u \in Updates /\ u.tip = localTip[r] /\ u.state = state /\ u.remoteTip = rtip
    BY Zenon DEF Updates, States, Terminal, LocalsTyped
<1>2. Yield(r, u) /\ Finish(r)
    BY DEF Conclude
<1> HIDE DEF u
<1>3. /\ pc \in [Runs -> PCs] /\ emitted \in [Runs -> Seq(Updates)]
      /\ terminated \in [Runs -> BOOLEAN] /\ cancelled \in [Runs -> BOOLEAN]
    BY DEF StreamTyped
<1>4. Alongside(r) /\ pc'[r] = "done" /\ terminated'[r] /\ cancelled'[r]
    BY <1>2, <1>3, Zenon DEF Alongside, Yield, Finish
<1>5. CASE terminated[r]
    <2>1. emitted' = emitted
        BY <1>2, <1>5, Zenon DEF Yield
    <2> QED  BY <1>4, <1>5, <2>1, Zenon DEF StreamStep, Leaves
<1>6. CASE ~terminated[r]
    <2>1. emitted'[r] = Append(emitted[r], u)
        BY <1>2, <1>3, <1>6 DEF Yield
    <2>2. Closes(r, u)
        BY <1>1, <1>4, <1>6, <2>1, Zenon DEF Closes
    <2> QED  BY <1>1, <1>4, <2>2 DEF StreamStep
<1> QED  BY <1>5, <1>6

\* A run that ends without an update.
LEMMA EndLeaves ==
    ASSUME StreamTyped, NEW r \in Runs, pc[r] \in Busy, cancelled[r], EndSilently(r),
           UNCHANGED localTip
    PROVE  StreamStep(r)
<1>1. /\ pc \in [Runs -> PCs]
      /\ terminated \in [Runs -> BOOLEAN] /\ cancelled \in [Runs -> BOOLEAN]
    BY DEF StreamTyped
<1>2. Alongside(r) /\ pc'[r] = "done" /\ terminated'[r] /\ cancelled'[r] /\ emitted' = emitted
    BY <1>1 DEF Alongside, EndSilently, Finish
<1> QED  BY <1>2 DEF StreamStep, Leaves

\* Every step of a run is one of these.
LEMMA RunStepStream ==
    ASSUME SyncAssumption, KernelInv, StreamInv, ReportInv, NEW r \in Runs, Start(r) \/ RunStep(r)
    PROVE  StreamStep(r)
<1>t. StreamTyped /\ LocalsTyped /\ cs.best \in Blocks /\ (terminated[r] => cancelled[r])
    BY Zenon DEF KernelInv, ChainInv, Chainstates, ReportInv
<1>y. remoteTip[r] \in Tips /\ answeredTip(r) \in Tips /\ unknownRemoteTip \in Tips
    BY <1>t DEF LocalsTyped, Tips, answeredTip, unknownRemoteTip, SyncAssumption
<1>b. /\ {"tipHeight", "tipHash", "forkHash", "pollHeight", "pollHash", "loop", "hash", "block",
          "accept", "activate", "readTip"} \subseteq Busy
      /\ Requests \subseteq Busy
      /\ {"source", "cancelled", "behind", "diverges", "rejected", "none"} \subseteq Reasons
      /\ {"failed", "finished"} \subseteq Terminal
    BY Zenon DEF Busy, PCs, Requests, Reasons, Terminal
<1>f. ASSUME NEW why \in Reasons, NEW rtip \in Tips, Fail(r, why, rtip), pc[r] \in Busy,
             localTip' = localTip
      PROVE  StreamStep(r)
    BY <1>f, <1>t, <1>b, ConcludeCloses DEF Fail
<1>1. CASE Start(r)
    <2> DEFINE u == [state |-> "preparing", why |-> "none", tip |-> readLocalTip,
                     remoteTip |-> unknownRemoteTip]
    <2>1. u \in Updates /\ u.tip = readLocalTip /\ u.state = "preparing"
        BY <1>t, <1>y DEF Updates, States, Reasons, readLocalTip
    <2>2. /\ Yield(r, u) /\ Goto(r, "tipHeight") /\ UNCHANGED terminated /\ pc[r] = "idle"
          /\ localTip' = [localTip EXCEPT ![r] = readLocalTip]
        BY <1>1, Zenon DEF Start
    <2>3. ~terminated[r]
        BY <2>2 DEF StreamInv, Phases
    <2> HIDE DEF u
    <2> QED  BY <1>t, <1>b, <2>1, <2>2, <2>3, ReportTells, Zenon
<1>2. CASE Advance(r)
    <2> DEFINE u == [state |-> "syncing", why |-> "none", tip |-> readLocalTip,
                     remoteTip |-> remoteTip[r]]
    <2>1. u \in Updates /\ u.tip = readLocalTip /\ u.state = "syncing"
        BY <1>t, <1>y DEF Updates, States, Reasons, readLocalTip
    <2>2. /\ Yield(r, u) /\ Goto(r, "loop") /\ UNCHANGED terminated /\ pc[r] = "readTip"
          /\ localTip' = [localTip EXCEPT ![r] = readLocalTip]
        BY <1>2, Zenon DEF Advance
    <2> HIDE DEF u
    <2> QED  BY <1>t, <1>b, <2>1, <2>2, ReportTells, Zenon
<1>3. CASE RequestFails(r)
    <2>1. /\ pc[r] \in Busy /\ localTip' = localTip
          /\ \/ \E why \in Reasons : Fail(r, why, remoteTip[r])
             \/ cancelled[r] /\ EndSilently(r)
        BY <1>3, <1>b DEF RequestFails, locals
    <2> QED  BY <1>t, <1>y, <1>f, <2>1, EndLeaves, Zenon
<1>4. CASE TipHeight(r)
    BY <1>4, <1>t, <1>b, GotoStays, Zenon DEF TipHeight, stream
<1>5. CASE RemoteTip(r)
    <2>1. /\ pc[r] \in Busy /\ localTip' = localTip
          /\ \/ Fail(r, "behind", answeredTip(r))
             \/ \E l \in Busy : Goto(r, l) /\ UNCHANGED stream
        BY <1>5, <1>b, Zenon DEF RemoteTip, EnterLoop
    <2> QED  BY <1>t, <1>y, <1>b, <1>f, <2>1, GotoStays, Zenon
<1>6. CASE ForkCheck(r)
    <2>1. /\ pc[r] \in Busy /\ localTip' = localTip
          /\ \/ \E why \in Reasons : Fail(r, why, remoteTip[r])
             \/ Goto(r, "loop") /\ UNCHANGED stream
        BY <1>6, <1>b, Zenon DEF ForkCheck, EnterLoop, locals
    <2> QED  BY <1>t, <1>y, <1>b, <1>f, <2>1, GotoStays, Zenon
<1>7. CASE LoopTop(r)
    <2>1. /\ pc[r] \in Busy /\ localTip' = localTip
          /\ \/ cancelled[r] /\ EndSilently(r)
             \/ \E l \in Busy : Goto(r, l) /\ UNCHANGED stream
        BY <1>7, <1>b, Zenon DEF LoopTop, locals
    <2> QED  BY <1>t, <2>1, EndLeaves, GotoStays, Zenon
<1>8. CASE Repoll(r)
    <2>1. /\ pc[r] \in Busy /\ localTip' = localTip
          /\ \/ /\ Conclude(r, "finished", "none", localTip[r], answeredTip(r))
                /\ answeredTip(r).height <= Height[localTip[r]]
             \/ \E l \in Busy : Goto(r, l) /\ UNCHANGED stream
        BY <1>8, <1>b, Zenon DEF Repoll
    <2> QED  BY <1>t, <1>y, <1>b, <2>1, ConcludeCloses, GotoStays
<1>9. CASE FetchHash(r)
    <2>1. /\ pc[r] \in Busy /\ localTip' = localTip
          /\ \/ Fail(r, "source", remoteTip[r])
             \/ \E l \in Busy : Goto(r, l) /\ UNCHANGED stream
        BY <1>9, <1>b, Zenon DEF FetchHash
    <2> QED  BY <1>t, <1>y, <1>b, <1>f, <2>1, GotoStays
<1>10. CASE FetchBlock(r) \/ ProcessActivate(r)
    BY <1>10, <1>t, <1>b, GotoStays, Zenon DEF FetchBlock, ProcessActivate, locals, stream
<1>11. CASE ProcessAccept(r)
    <2>1. /\ pc[r] \in Busy /\ localTip' = localTip
          /\ \/ Fail(r, "rejected", remoteTip[r])
             \/ \E l \in Busy : Goto(r, l) /\ UNCHANGED stream
        BY <1>11, <1>b DEF ProcessAccept, locals
    <2> QED  BY <1>t, <1>y, <1>b, <1>f, <2>1, GotoStays, Zenon
<1> QED
    BY <1>1, <1>2, <1>3, <1>4, <1>5, <1>6, <1>7, <1>8, <1>9, <1>10, <1>11, Zenon DEF RunStep

\* The end of a sequence that grew.
LEMMA AppendLast ==
    ASSUME NEW s \in Seq(Updates), NEW u \in Updates
    PROVE  /\ Append(s, u) # <<>> /\ Len(Append(s, u)) = Len(s) + 1
           /\ Append(s, u)[Len(Append(s, u))] = u
<1> HIDE DEF Updates
<1> QED  OBVIOUS

\* Its elements.
LEMMA AppendElements ==
    ASSUME NEW s \in Seq(Updates), NEW u \in Updates
    PROVE  \A i \in 1 .. Len(Append(s, u)) :
               (i \in 1 .. Len(s) /\ Append(s, u)[i] = s[i]) \/ Append(s, u)[i] = u
<1> HIDE DEF Updates
<1>1. /\ Len(Append(s, u)) = Len(s) + 1 /\ Len(s) \in Nat
      /\ Append(s, u)[Len(s) + 1] = u
      /\ \A i \in 1 .. Len(s) : Append(s, u)[i] = s[i]
    OBVIOUS
<1> QED  BY <1>1

\* ReportInv is kept by every step.
LEMMA NextReportInv ==
    ASSUME SyncAssumption, KernelInv, StreamInv, ReportInv, [Next]_vars
    PROVE  ReportInv'
<1>t. StreamTyped
    BY Zenon DEF KernelInv
<1>1. CASE \E r \in Runs : Start(r) \/ RunStep(r)
    <2>1. PICK r \in Runs : Start(r) \/ RunStep(r)
        BY <1>1
    <2>2. StreamStep(r)
        BY <2>1, RunStepStream, Zenon
    <2>3. LastReported(r)' /\ (terminated'[r] => cancelled'[r])
        <3>0. LastReported(r) /\ (terminated[r] => cancelled[r]) /\ emitted[r] \in Seq(Updates)
            BY <1>t, Zenon DEF ReportInv, StreamTyped
        <3>1. CASE Stays(r)
            BY <3>0, <3>1 DEF Stays, LastReported, lastUpdate, Busy
        <3>2. CASE Leaves(r)
            BY <3>2, Zenon DEF Leaves, LastReported
        <3>3. ASSUME NEW u \in Updates, Tells(r, u) PROVE LastReported(r)' /\ ~terminated'[r]
            BY <3>0, <3>3, AppendLast DEF Tells, LastReported, lastUpdate
        <3>4. ASSUME NEW u \in Updates, Closes(r, u) PROVE LastReported(r)' /\ cancelled'[r]
            BY <3>4, Zenon DEF Closes, LastReported
        <3> QED  BY <2>2, <3>1, <3>2, <3>3, <3>4, <3>0, Zenon DEF StreamStep, Leaves, Stays
    <2>4. ASSUME NEW q \in Runs \ {r} PROVE LastReported(q)' /\ (terminated'[q] => cancelled'[q])
        BY <2>2, Zenon DEF StreamStep, Alongside, ReportInv, LastReported, lastUpdate
    <2> QED  BY <2>3, <2>4 DEF ReportInv
<1>2. CASE \/ \E r \in Runs : Consume(r) \/ ConsumerStops(r)
           \/ Shutdown \/ SourceMoves \/ processBlockHeader \/ Finished \/ UNCHANGED vars
    <2>1. UNCHANGED <<pc, localTip, emitted>>
        BY <1>2 DEF Consume, ConsumerStops, Shutdown, SourceMoves, processBlockHeader, Finished,
                    vars, shared, locals, stream
    <2>2. \A q \in Runs : /\ terminated[q] => terminated'[q]
                          /\ (terminated[q] => cancelled[q]) => (terminated'[q] => cancelled'[q])
        BY <1>2, <1>t, Zenon DEF StreamTyped, Consume, ConsumerStops, Shutdown, SourceMoves,
                    processBlockHeader, Finished, vars, shared, locals, stream
    <2> QED  BY <2>1, <2>2, Zenon DEF ReportInv, LastReported, lastUpdate
<1> QED  BY <1>1, <1>2 DEF Next

\* Where the kernel's invariant holds the other two do, for any number of runs.
LEMMA StreamFollowsKernel == Spec /\ []KernelInv => []SyncInv
<1>1. Init => ReportInv
    BY DEF Init, ReportInv, LastReported
<1>2. KernelInv /\ StreamInv /\ ReportInv /\ [Next]_vars => ReportInv'
    BY SyncAssumption, NextReportInv, Zenon
<1> QED  BY <1>1, <1>2, StreamInvariant, PTL DEF Spec, SyncInv

-----------------------------------------------------------------------------
(* The refinement mapping. *)

barPhase == [r \in Runs |-> streamPhase(r)]
tipHeight(r) == IF emitted[r] = <<>> THEN 0 ELSE Height[lastUpdate(r).tip]
barHeight == [r \in Runs |-> tipHeight(r)]
barCount == [r \in Runs |-> Len(emitted[r])]

\* Where the abstract sequence of a run stands.
LEMMA PhaseFacts ==
    ASSUME SyncInv, NEW r \in Runs
    PROVE  /\ emitted[r] \in Seq(Updates)
           /\ pc[r] = "idle" => streamPhase(r) = "new" /\ emitted[r] = <<>>
           /\ pc[r] \in Busy => /\ emitted[r] # <<>>
                                /\ streamPhase(r) = lastUpdate(r).state
                                /\ streamPhase(r) \in {"preparing", "syncing"}
<1>1. /\ StreamTyped /\ Phases /\ UpdatesWellFormed /\ emitted[r] \in Seq(Updates)
    BY Zenon DEF SyncInv, KernelInv, StreamInv, StreamTyped
<1>2. CASE pc[r] = "idle"
    BY <1>1, <1>2, Zenon DEF Phases, streamPhase, Busy
<1>3. CASE pc[r] \in Busy
    <2>1. emitted[r] # <<>> /\ pc[r] # "done" /\ pc[r] # "idle"
        BY <1>1, <1>3 DEF Phases, Busy
    <2>2. Len(emitted[r]) \in 1 .. Len(emitted[r]) /\ lastUpdate(r) \in Updates
        <3> HIDE DEF Updates
        <3> QED  BY <1>1, <2>1 DEF lastUpdate
    <2>3. lastUpdate(r).state \in States /\ lastUpdate(r).state \notin Terminal
        BY <1>1, <2>1, <2>2 DEF UpdatesWellFormed, lastUpdate, Updates, Terminal
    <2> QED  BY <1>1, <2>1, <2>3 DEF streamPhase, States, Terminal
<1> QED  BY <1>1, <1>2, <1>3 DEF Busy

\* A run whose stream does not change keeps its place.
LEMMA SamePlace ==
    ASSUME NEW q, emitted'[q] = emitted[q], pc'[q] = pc[q]
    PROVE  /\ streamPhase(q)' = streamPhase(q) /\ tipHeight(q)' = tipHeight(q)
           /\ Len(emitted[q])' = Len(emitted[q])
    BY Zenon DEF streamPhase, tipHeight, lastUpdate

\* A run gets a place after an update.
LEMMA PlaceAfterUpdate ==
    ASSUME NEW r \in Runs, emitted[r] \in Seq(Updates), NEW u \in Updates,
           emitted'[r] = Append(emitted[r], u), pc'[r] \in Busy \/ u.state \in Terminal
    PROVE  /\ streamPhase(r)' = u.state /\ tipHeight(r)' = Height[u.tip]
           /\ Len(emitted[r])' = Len(emitted[r]) + 1
<1>1. emitted'[r] # <<>> /\ Len(emitted'[r]) = Len(emitted[r]) + 1
      /\ emitted'[r][Len(emitted'[r])] = u
    BY AppendLast, Zenon
<1> QED  BY <1>1 DEF streamPhase, tipHeight, lastUpdate, Busy, Terminal

\* Every step of a run is a step of UpdateStream, or none.
LEMMA RunStepRefines ==
    ASSUME ChainAssumption, SyncAssumption, SyncInv, KernelInv', NEW r \in Runs, StreamStep(r)
    PROVE  Contract!Next \/ UNCHANGED <<barPhase, barHeight, barCount, cancelled>>
<1>t. /\ StreamTyped /\ LocalsTyped /\ ReportInv /\ StreamTyped' /\ LocalsTyped'
      /\ cancelled \in [Runs -> BOOLEAN] /\ cancelled' \in [Runs -> BOOLEAN]
    BY DEF SyncInv, KernelInv, StreamTyped
<1>1. \A q \in Runs \ {r} :
          /\ streamPhase(q)' = streamPhase(q) /\ tipHeight(q)' = tipHeight(q)
          /\ Len(emitted[q])' = Len(emitted[q]) /\ cancelled'[q] = cancelled[q]
    BY SamePlace, Zenon DEF StreamStep, Alongside
<1>2. ASSUME NEW p, NEW h, NEW n, NEW c,
             streamPhase(r)' = p, tipHeight(r)' = h, Len(emitted[r])' = n, cancelled'[r] = c
      PROVE  /\ barPhase' = [barPhase EXCEPT ![r] = p] /\ barHeight' = [barHeight EXCEPT ![r] = h]
             /\ barCount' = [barCount EXCEPT ![r] = n] /\ cancelled' = [cancelled EXCEPT ![r] = c]
    BY <1>t, <1>1, <1>2, Zenon DEF barPhase, barHeight, barCount
<1>3. /\ barPhase[r] = streamPhase(r) /\ barHeight[r] = tipHeight(r)
      /\ barCount[r] = Len(emitted[r]) /\ barHeight'[r] = tipHeight(r)'
    BY DEF barPhase, barHeight, barCount
<1>4. CASE Stays(r)
    <2>1. streamPhase(r)' = streamPhase(r) /\ tipHeight(r)' = tipHeight(r)
          /\ Len(emitted[r])' = Len(emitted[r]) /\ cancelled'[r] = cancelled[r]
        BY <1>4, Zenon DEF Stays, Busy, streamPhase, tipHeight, lastUpdate
    <2>2. UNCHANGED <<barPhase, barHeight, barCount, cancelled>>
        BY <1>1, <1>t, <2>1 DEF barPhase, barHeight, barCount
    <2> QED  BY <2>2, Zenon
<1>5. CASE Leaves(r)
    <2>1. streamPhase(r)' = "cancelled" /\ tipHeight(r)' = tipHeight(r)
          /\ Len(emitted[r])' = Len(emitted[r]) /\ cancelled'[r] = cancelled[r]
          /\ streamPhase(r) \in {"preparing", "syncing"} /\ cancelled[r]
        <3>1. emitted'[r] = emitted[r] /\ pc'[r] = "done" /\ cancelled[r] /\ cancelled'[r]
              /\ pc[r] \in Busy
            BY <1>5, Zenon DEF Leaves
        <3>2. streamPhase(r) = lastUpdate(r).state /\ streamPhase(r) \in {"preparing", "syncing"}
            BY <3>1, PhaseFacts, Zenon
        <3>3. lastUpdate(r)' = lastUpdate(r)
            BY <3>1, Zenon DEF lastUpdate
        <3>4. streamPhase(r)' = "cancelled" /\ tipHeight(r)' = tipHeight(r)
            BY <3>1, <3>2, <3>3, Zenon DEF streamPhase, tipHeight
        <3> QED  BY <1>t, <3>1, <3>2, <3>4, Zenon
    <2>2. /\ barPhase' = [barPhase EXCEPT ![r] = "cancelled"]
          /\ UNCHANGED <<barHeight, barCount, cancelled>>
        <3>1. barPhase' = [barPhase EXCEPT ![r] = "cancelled"]
            BY <1>2, <2>1, Zenon
        <3>2. barHeight' = barHeight /\ barCount' = barCount
            BY <1>1, <2>1, Zenon DEF barHeight, barCount
        <3>3. cancelled' = cancelled
            <4>1. cancelled'[r] = cancelled[r]
                BY <2>1, Zenon
            <4> QED  BY <1>1, <1>t, <4>1
        <3> QED  BY <3>1, <3>2, <3>3
    <2>3. Contract!EndSilently(r)
        BY <1>3, <2>1, <2>2
           DEF Contract!EndSilently, Contract!Live, barPhase, barHeight, barCount, tipHeight
    <2> QED  BY <2>3, Zenon DEF Contract!Next
<1>6. ASSUME NEW u \in Updates, Tells(r, u) PROVE Contract!Next
    <2>1. /\ streamPhase(r)' = u.state /\ tipHeight(r)' = Height[u.tip]
          /\ Len(emitted[r])' = Len(emitted[r]) + 1
        BY <1>6, <1>t, PlaceAfterUpdate, Zenon DEF Tells, StreamTyped
    <2>2. Height[u.tip] \in Nat /\ cancelled'[r] = cancelled[r]
        BY <1>6, Zenon DEF Tells, Updates, ChainAssumption
    <2>3. /\ barPhase' = [barPhase EXCEPT ![r] = u.state]
          /\ barHeight' = [barHeight EXCEPT ![r] = barHeight'[r]] /\ barHeight'[r] \in Nat
          /\ barCount' = [barCount EXCEPT ![r] = barCount[r] + 1]
        BY <1>2, <1>3, <2>1, <2>2, Zenon
    <2>4. cancelled' = cancelled
        BY <1>t, <1>1, <2>2
    <2>5. CASE pc[r] = "idle" /\ u.state = "preparing"
        <3>1. barPhase[r] = "new"
            BY <1>3, <2>5, PhaseFacts, Zenon
        <3>2. Contract!Prepare(r)
            BY <2>3, <2>4, <2>5, <3>1, Zenon
               DEF Contract!Prepare, Contract!Update, barPhase, barHeight, barCount, tipHeight
        <3> QED  BY <3>2, Zenon DEF Contract!Next
    <2>6. CASE pc[r] = "readTip" /\ u.state = "syncing"
        <3>0. pc[r] \in Busy
            BY <2>6 DEF Busy, PCs
        <3>1. barPhase[r] \in {"preparing", "syncing"}
            BY <1>3, <3>0, PhaseFacts, Zenon
        <3>2. Contract!Advance(r)
            BY <2>3, <2>4, <2>6, <3>1, Zenon
               DEF Contract!Advance, Contract!Update, Contract!Live, barPhase, barHeight,
                   barCount, tipHeight
        <3> QED  BY <3>2, Zenon DEF Contract!Next
    <2> QED  BY <1>6, <2>5, <2>6, Zenon DEF Tells
<1>7. ASSUME NEW u \in Updates, Closes(r, u) PROVE Contract!Next
    <2>1. /\ streamPhase(r)' = u.state /\ tipHeight(r)' = Height[u.tip]
          /\ Len(emitted[r])' = Len(emitted[r]) + 1
        BY <1>7, <1>t, PlaceAfterUpdate, Zenon DEF Closes, StreamTyped
    <2>2. pc[r] \in Busy /\ ~terminated[r] /\ u.tip = localTip[r] /\ u.state \in Terminal
          /\ cancelled'[r] = TRUE
        BY <1>7, <1>t, Zenon DEF Closes
    <2>3. barPhase[r] \in {"preparing", "syncing"} /\ emitted[r] # <<>>
        BY <1>3, <2>2, PhaseFacts, Zenon
    <2>4. tipHeight(r)' = tipHeight(r)
        BY <1>t, <2>1, <2>2, <2>3, Zenon DEF ReportInv, LastReported, tipHeight, Busy
    <2>5. /\ barPhase' = [barPhase EXCEPT ![r] = u.state]
          /\ barCount' = [barCount EXCEPT ![r] = barCount[r] + 1]
          /\ cancelled' = [cancelled EXCEPT ![r] = TRUE]
        BY <1>2, <1>3, <2>1, <2>2
    <2>6. barHeight' = barHeight
        BY <1>1, <2>4, Zenon DEF barHeight
    <2>7. Contract!Conclude(r)
        BY <2>2, <2>3, <2>5, <2>6, Zenon
           DEF Contract!Conclude, Contract!Update, Contract!Live, Terminal, barPhase, barHeight,
               barCount, tipHeight
    <2> QED  BY <2>7 DEF Contract!Next
<1> QED  BY <1>4, <1>5, <1>6, <1>7, Zenon DEF StreamStep

\* The consumer, shutdown() and the surroundings ask for cancellation or do nothing.
LEMMA SurroundingsRefine ==
    ASSUME StreamTyped,
           \/ \E r \in Runs : Consume(r) \/ ConsumerStops(r)
           \/ Shutdown \/ SourceMoves \/ processBlockHeader \/ Finished \/ UNCHANGED vars
    PROVE  Contract!Next \/ UNCHANGED <<barPhase, barHeight, barCount, cancelled>>
<1>1. UNCHANGED <<pc, emitted>>
    BY Zenon DEF Consume, ConsumerStops, Shutdown, SourceMoves, processBlockHeader, Finished,
           vars, shared, locals, stream
<1>2. UNCHANGED <<barPhase, barHeight, barCount>>
    BY <1>1, SamePlace DEF barPhase, barHeight, barCount
<1>3. \/ cancelled' = cancelled
      \/ \E rs \in SUBSET Runs : cancelled' = [q \in Runs |-> cancelled[q] \/ q \in rs]
    <2>1. CASE \E r \in Runs : ConsumerStops(r)
        <3>1. PICK r \in Runs : cancelled' = [cancelled EXCEPT ![r] = TRUE]
            BY <2>1, Zenon DEF ConsumerStops
        <3>2. cancelled' = [q \in Runs |-> cancelled[q] \/ q \in {r}]
            BY <3>1, Zenon DEF StreamTyped
        <3> QED  BY <3>2, Zenon
    <2>2. CASE Shutdown
        <3> DEFINE rs == {q \in Runs : pc[q] \notin {"idle", "done"}}
        <3>1. cancelled' = [q \in Runs |-> cancelled[q] \/ q \in rs]
            BY <2>2, Zenon DEF Shutdown
        <3> QED  BY <3>1, Zenon
    <2>3. CASE \/ \E r \in Runs : Consume(r)
               \/ SourceMoves \/ processBlockHeader \/ Finished \/ UNCHANGED vars
        BY <2>3 DEF Consume, SourceMoves, processBlockHeader, Finished, vars
    <2> QED  BY <2>1, <2>2, <2>3
<1>4. ASSUME NEW rs \in SUBSET Runs, cancelled' = [q \in Runs |-> cancelled[q] \/ q \in rs]
      PROVE  Contract!RequestCancel(rs)
    BY <1>2, <1>4, Zenon DEF Contract!RequestCancel, barPhase, barHeight, barCount, tipHeight
<1> QED  BY <1>2, <1>3, <1>4, Zenon DEF Contract!Next

\* Where the kernel's invariant holds every step of a run, of its consumer and of their
\* surroundings is a step of UpdateStream or none.
LEMMA RefinesUnderKernel == Spec /\ []KernelInv => StreamContract
<1>1. ASSUME Init  PROVE Contract!Init
    <2>1. \A r \in Runs : emitted[r] = <<>> /\ pc[r] = "idle"
        BY <1>1, Zenon DEF Init
    <2>2. \A r \in Runs : streamPhase(r) = "new"
        BY <2>1, Zenon DEF streamPhase
    <2>3. [r \in Runs |-> streamPhase(r)] = [r \in Runs |-> "new"]
        BY <2>2, Zenon
    <2>4. [r \in Runs |-> IF emitted[r] = <<>> THEN 0 ELSE Height[lastUpdate(r).tip]]
          = [r \in Runs |-> 0]
        BY <2>1, Zenon
    <2>5. Len(<<>>) = 0
        OBVIOUS
    <2>6. [r \in Runs |-> Len(emitted[r])] = [r \in Runs |-> 0]
        BY <2>1, <2>5, Zenon
    <2>7. cancelled = [r \in Runs |-> FALSE]
        BY <1>1, Zenon DEF Init
    <2> QED  BY <2>3, <2>4, <2>6, <2>7, Zenon DEF Contract!Init
<1>2. SyncInv /\ SyncInv' /\ [Next]_vars => [Contract!Next]_(Contract!streamVars)
    <2> SUFFICES ASSUME SyncInv, SyncInv', [Next]_vars PROVE [Contract!Next]_(Contract!streamVars)
        OBVIOUS
    <2>1. KernelInv /\ StreamInv /\ ReportInv /\ KernelInv' /\ StreamTyped
        BY DEF SyncInv, KernelInv
    <2>2. Contract!Next \/ UNCHANGED <<barPhase, barHeight, barCount, cancelled>>
        <3>1. CASE \E r \in Runs : Start(r) \/ RunStep(r)
            BY <2>1, <3>1, ChainAssumption, SyncAssumption, RunStepStream, RunStepRefines
        <3>2. CASE \/ \E r \in Runs : Consume(r) \/ ConsumerStops(r)
                   \/ Shutdown \/ SourceMoves \/ processBlockHeader \/ Finished \/ UNCHANGED vars
            BY <2>1, <3>2, SurroundingsRefine
        <3> QED  BY <3>1, <3>2 DEF Next
    <2> QED  BY <2>2 DEF Contract!streamVars, barPhase, barHeight, barCount, tipHeight
<1> QED  BY <1>1, <1>2, StreamFollowsKernel, PTL DEF Spec, StreamContract, Contract!Spec

-----------------------------------------------------------------------------
(* What the pieces of an action do to the types. *)

\* A yield of an update keeps the types of the stream variables.
LEMMA YieldTyped ==
    ASSUME SyncAssumption, StreamTyped, NEW r \in Runs, NEW u \in Updates, Yield(r, u)
    PROVE  /\ buffer' \in [Runs -> Seq(Updates)]
           /\ emitted' \in [Runs -> Seq(Updates)]
           /\ dropped' \in [Runs -> SUBSET States]
<1>1. buffer[r] \in Seq(Updates) /\ emitted[r] \in Seq(Updates)
    BY Zenon DEF StreamTyped
<1>2. Append(buffer[r], u) \in Seq(Updates) /\ Append(emitted[r], u) \in Seq(Updates)
    <2> HIDE DEF Updates
    <2> QED  BY <1>1
<1>3. emitted' \in [Runs -> Seq(Updates)]
    BY <1>2, Zenon DEF StreamTyped, Yield
<1>4. CASE terminated[r] \/ Len(buffer[r]) < BufferLimit
    BY <1>2, <1>3, <1>4, Zenon DEF StreamTyped, Yield
<1>5. CASE ~terminated[r] /\ ~(Len(buffer[r]) < BufferLimit)
    <2>1. buffer[r] # <<>>
        BY <1>1, <1>5 DEF SyncAssumption
    <2>2. /\ Head(buffer[r]) \in Updates /\ Append(Tail(buffer[r]), u) \in Seq(Updates)
        <3> HIDE DEF Updates
        <3> QED  BY <1>1, <2>1
    <2>3. Head(buffer[r]).state \in States
        BY <2>2 DEF Updates
    <2>4. /\ buffer' = [buffer EXCEPT ![r] = Append(Tail(buffer[r]), u)]
          /\ dropped' = [dropped EXCEPT ![r] = dropped[r] \cup {Head(buffer[r]).state}]
        BY <1>5 DEF Yield
    <2> QED  BY <1>3, <2>2, <2>3, <2>4 DEF StreamTyped
<1> QED  BY <1>4, <1>5

\* A run that ends with an update.
LEMMA ConcludeTyped ==
    ASSUME SyncAssumption, StreamTyped, NEW r \in Runs, NEW state \in States, NEW why \in Reasons,
           NEW tip \in Blocks, NEW rtip \in Tips, Conclude(r, state, why, tip, rtip)
    PROVE  StreamTyped' /\ pc' = [pc EXCEPT ![r] = "done"]
<1> DEFINE u == [state |-> state, why |-> why, tip |-> tip, remoteTip |-> rtip]
<1>1. u \in Updates /\ Yield(r, u) /\ Finish(r)
    BY DEF Updates, Conclude
<1> HIDE DEF u
<1>2. /\ buffer' \in [Runs -> Seq(Updates)]
      /\ emitted' \in [Runs -> Seq(Updates)]
      /\ dropped' \in [Runs -> SUBSET States]
    BY <1>1, YieldTyped
<1> QED  BY <1>1, <1>2, Zenon DEF Finish, StreamTyped, PCs

\* A run that fails.
LEMMA FailTyped ==
    ASSUME SyncAssumption, StreamTyped, LocalsTyped, NEW r \in Runs, NEW why \in Reasons,
           NEW rtip \in Tips, Fail(r, why, rtip)
    PROVE  StreamTyped' /\ pc' = [pc EXCEPT ![r] = "done"]
    BY ConcludeTyped DEF Fail, LocalsTyped, States

\* A run that ends without an update.
LEMMA EndSilentlyTyped ==
    ASSUME StreamTyped, NEW r \in Runs, EndSilently(r)
    PROVE  StreamTyped' /\ pc' = [pc EXCEPT ![r] = "done"]
    BY DEF EndSilently, Finish, StreamTyped, PCs

\* A run that goes on without touching its stream.
LEMMA GotoTyped ==
    ASSUME StreamTyped, NEW r \in Runs, NEW l \in PCs, Goto(r, l), UNCHANGED stream
    PROVE  StreamTyped' /\ pc' = [pc EXCEPT ![r] = l]
    BY DEF Goto, StreamTyped, stream

\* A run that goes on after an update.
LEMMA ReportTyped ==
    ASSUME SyncAssumption, StreamTyped, NEW r \in Runs, NEW l \in PCs, NEW u \in Updates,
           Yield(r, u), Goto(r, l), UNCHANGED terminated
    PROVE  StreamTyped' /\ pc' = [pc EXCEPT ![r] = l]
    BY YieldTyped DEF Goto, StreamTyped

\* A block at a height of the source's chain.
LEMMA SourceBlock ==
    ASSUME ChainAssumption, ChainContract, SyncAssumption, LocalsTyped, NEW h \in Nat, h <= Height[remote]
    PROVE  AncestorAt(remote, h) \in Blocks
<1>1. remote \in Blocks /\ Height[remote] \in Nat
    BY DEF LocalsTyped, SyncAssumption, ChainAssumption
<1>2. h \in 0 .. Height[remote]
    BY <1>1
<1> QED  BY <1>1, <1>2 DEF ChainContract, TreeContract

-----------------------------------------------------------------------------
(* Steps of a run, as the kernel sees them. *)

\* A step that leaves the kernel alone.
AsideOfKernel(r) ==
    /\ pc[r] # "activate"
    /\ cs' = cs
    /\ StreamTyped' /\ LocalsTyped'
    /\ \E l \in PCs \ {"activate"} :
          /\ pc' = [pc EXCEPT ![r] = l]
          /\ l \in {"block", "accept"} => fetched'[r].hash \in Blocks
    /\ \A q \in Runs \ {r} : fetched'[q] = fetched[q]

\* Every step of a run but AcceptBlock and ActivateBestChain is one.
LEMMA RunStepAside ==
    ASSUME ChainAssumption, ChainContract, SyncAssumption, KernelInv, NEW r \in Runs, Start(r) \/ RunStep(r),
           ~ProcessAccept(r), ~ProcessActivate(r)
    PROVE  AsideOfKernel(r)
<1>t. StreamTyped /\ LocalsTyped /\ cs.best \in Blocks /\ Height \in [Blocks -> Nat]
    BY DEF KernelInv, ChainInv, Chainstates, ChainAssumption
<1>r. /\ remote \in Blocks /\ Height[remote] \in Nat
      /\ localTip[r] \in Blocks /\ Height[localTip[r]] \in Nat
      /\ remoteTip[r] \in Tips /\ remoteTip[r].height \in Nat
      /\ fetched[r] \in Tips /\ fetched[r].height \in Nat
      /\ unknownRemoteTip \in Tips
      /\ answeredTip(r) \in Tips /\ answeredTip(r).height \in Nat
    BY <1>t DEF LocalsTyped, SyncAssumption, Tips, answeredTip, unknownRemoteTip
<1>p. /\ {"tipHeight", "tipHash", "forkHash", "pollHeight", "pollHash", "hash", "block",
          "loop", "accept", "readTip", "done"} \subseteq PCs \ {"activate"}
      /\ "activate" \notin Requests /\ {"source", "cancelled", "behind", "diverges"} \subseteq Reasons
      /\ {"preparing", "syncing", "finished"} \subseteq States /\ "none" \in Reasons
    BY DEF PCs, Requests, Reasons, States
<1>q. pc \in [Runs -> PCs] /\ fetched \in [Runs -> Tips]
    BY <1>t DEF StreamTyped, LocalsTyped
<1>1. CASE Start(r)
    <2> DEFINE u == [state |-> "preparing", why |-> "none", tip |-> readLocalTip,
                     remoteTip |-> unknownRemoteTip]
    <2>1. u \in Updates
        BY <1>t, <1>r, <1>p, Zenon DEF Updates, readLocalTip
    <2>2. Yield(r, u) /\ Goto(r, "tipHeight") /\ UNCHANGED terminated
        BY <1>1 DEF Start
    <2> HIDE DEF u
    <2>3. StreamTyped' /\ pc' = [pc EXCEPT ![r] = "tipHeight"]
        BY <1>t, <1>p, <2>1, <2>2, ReportTyped, Zenon
    <2>4. LocalsTyped'
        BY <1>1, <1>t DEF Start, LocalsTyped, readLocalTip
    <2> QED  BY <1>1, <1>p, <2>3, <2>4, Zenon DEF Start, AsideOfKernel
<1>2. CASE RequestFails(r)
    <2>1. \/ \E why \in Reasons : Fail(r, why, remoteTip[r])
          \/ EndSilently(r)
        BY <1>2, <1>p, Zenon DEF RequestFails
    <2>2. StreamTyped' /\ pc' = [pc EXCEPT ![r] = "done"]
        BY <1>t, <1>r, <2>1, FailTyped, EndSilentlyTyped, Zenon
    <2>3. LocalsTyped' /\ cs' = cs /\ fetched' = fetched /\ pc[r] # "activate"
        BY <1>2, <1>t, <1>p DEF RequestFails, LocalsTyped, locals
    <2> QED  BY <1>p, <2>2, <2>3, Zenon DEF AsideOfKernel
<1>3. CASE TipHeight(r)
    <2>1. PICK l \in {"tipHash", "pollHash"} : Goto(r, l) /\ UNCHANGED stream
        BY <1>3 DEF TipHeight
    <2>2. StreamTyped' /\ pc' = [pc EXCEPT ![r] = l]
        BY <1>t, <1>p, <2>1, GotoTyped
    <2>3. LocalsTyped' /\ cs' = cs /\ pc[r] # "activate"
          /\ \A q \in Runs \ {r} : fetched'[q] = fetched[q]
        BY <1>3, <1>t, <1>r, Zenon DEF TipHeight, LocalsTyped, Tips
    <2> QED  BY <1>p, <2>2, <2>3, Zenon DEF AsideOfKernel
<1>4. CASE RemoteTip(r)
    <2>1. /\ pc[r] = "tipHash" /\ cs' = cs /\ remote' = remote /\ localTip' = localTip
          /\ fetched' = fetched /\ remoteTip' = [remoteTip EXCEPT ![r] = answeredTip(r)]
          /\ progress' = progress \/ progress' = [total |-> answeredTip(r).height,
                                                  completed |-> Height[localTip[r]]]
        BY <1>4, Zenon DEF RemoteTip, EnterLoop
    <2>7. progress \in [total : Nat, completed : Nat]
        BY <1>t, Zenon DEF LocalsTyped
    <2>8. [total |-> answeredTip(r).height, completed |-> Height[localTip[r]]]
          \in [total : Nat, completed : Nat]
        BY <1>r, ProgressTyped, Zenon
    <2>5. progress' \in [total : Nat, completed : Nat]
        BY <2>1, <2>7, <2>8, Zenon
    <2>6. remoteTip' \in [Runs -> Tips]
        BY <1>t, <1>r, <2>1, Zenon DEF LocalsTyped
    <2>2. LocalsTyped'
        BY <1>t, <2>1, <2>5, <2>6 DEF LocalsTyped
    <2>3. \/ Fail(r, "behind", answeredTip(r))
          \/ \E l \in {"loop", "forkHash"} : Goto(r, l) /\ UNCHANGED stream
        BY <1>4, Zenon DEF RemoteTip, EnterLoop
    <2>4. StreamTyped' /\ \E l \in {"done", "loop", "forkHash"} : pc' = [pc EXCEPT ![r] = l]
        BY <1>t, <1>r, <1>p, <2>3, FailTyped, GotoTyped
    <2> QED  BY <1>p, <2>1, <2>2, <2>4, Zenon DEF AsideOfKernel
<1>5. CASE ForkCheck(r)
    <2>1. /\ pc[r] = "forkHash" /\ cs' = cs /\ remote' = remote /\ locals' = locals
          /\ progress' = progress \/ progress' = [total |-> remoteTip[r].height,
                                                  completed |-> Height[localTip[r]]]
        BY <1>5, Zenon DEF ForkCheck, EnterLoop
    <2>7. progress \in [total : Nat, completed : Nat]
        BY <1>t, Zenon DEF LocalsTyped
    <2>8. [total |-> remoteTip[r].height, completed |-> Height[localTip[r]]]
          \in [total : Nat, completed : Nat]
        BY <1>r, ProgressTyped, Zenon
    <2>5. progress' \in [total : Nat, completed : Nat]
        BY <2>1, <2>7, <2>8, Zenon
    <2>2. LocalsTyped'
        BY <1>t, <2>1, <2>5, Zenon DEF LocalsTyped, locals
    <2>3. \/ \E why \in Reasons : Fail(r, why, remoteTip[r])
          \/ Goto(r, "loop") /\ UNCHANGED stream
        BY <1>5, <1>p, Zenon DEF ForkCheck, EnterLoop
    <2>4. StreamTyped' /\ \E l \in {"done", "loop"} : pc' = [pc EXCEPT ![r] = l]
        BY <1>t, <1>r, <1>p, <2>3, FailTyped, GotoTyped, Zenon
    <2> QED  BY <1>p, <2>1, <2>2, <2>4, Zenon DEF AsideOfKernel, locals
<1>6. CASE LoopTop(r)
    <2>1. EndSilently(r) \/ \E l \in {"pollHeight", "hash"} : Goto(r, l) /\ UNCHANGED stream
        BY <1>6, Zenon DEF LoopTop
    <2>2. StreamTyped' /\ \E l \in {"done", "pollHeight", "hash"} : pc' = [pc EXCEPT ![r] = l]
        BY <1>t, <1>p, <2>1, EndSilentlyTyped, GotoTyped
    <2>3. LocalsTyped' /\ cs' = cs /\ fetched' = fetched /\ pc[r] # "activate"
        BY <1>6, <1>t, Zenon DEF LoopTop, LocalsTyped, locals
    <2> QED  BY <1>p, <2>2, <2>3, Zenon DEF AsideOfKernel
<1>7. CASE Repoll(r)
    <2>1. /\ pc[r] = "pollHash" /\ cs' = cs /\ remote' = remote /\ localTip' = localTip
          /\ fetched' = fetched
          /\ \/ UNCHANGED <<remoteTip, progress>>
             \/ /\ remoteTip' = [remoteTip EXCEPT ![r] = answeredTip(r)]
                /\ progress' = [progress EXCEPT !.total = answeredTip(r).height]
        BY <1>7 DEF Repoll
    <2>2. LocalsTyped'
        BY <1>t, <1>r, <2>1 DEF LocalsTyped
    <2>3. \/ Conclude(r, "finished", "none", localTip[r], answeredTip(r))
          \/ Goto(r, "hash") /\ UNCHANGED stream
        BY <1>7, Zenon DEF Repoll
    <2>4. StreamTyped' /\ \E l \in {"done", "hash"} : pc' = [pc EXCEPT ![r] = l]
        BY <1>t, <1>r, <1>p, <2>3, ConcludeTyped, GotoTyped, Zenon
    <2> QED  BY <1>p, <2>1, <2>2, <2>4, Zenon DEF AsideOfKernel
<1>8. CASE FetchHash(r)
    <2>1. pc[r] = "hash" /\ cs' = cs /\ UNCHANGED <<remote, progress, localTip, remoteTip>>
        BY <1>8 DEF FetchHash
    <2>2. CASE Fail(r, "source", remoteTip[r]) /\ fetched' = fetched
        <3>1. StreamTyped' /\ pc' = [pc EXCEPT ![r] = "done"]
            BY <1>t, <1>r, <1>p, <2>2, FailTyped
        <3>2. LocalsTyped'
            BY <1>t, <2>1, <2>2 DEF LocalsTyped
        <3> QED  BY <1>p, <2>1, <2>2, <3>1, <3>2, Zenon DEF AsideOfKernel
    <2>3. CASE /\ Height[localTip[r]] + 1 <= Height[remote]
               /\ fetched' = [fetched EXCEPT ![r].hash =
                                 AncestorAt(remote, Height[localTip[r]] + 1)]
               /\ Goto(r, "block") /\ UNCHANGED stream
        <3>1. StreamTyped' /\ pc' = [pc EXCEPT ![r] = "block"]
            BY <1>t, <1>p, <2>3, GotoTyped
        <3>2. AncestorAt(remote, Height[localTip[r]] + 1) \in Blocks
            BY <1>t, <1>r, <2>3, SourceBlock
        <3>3. LocalsTyped' /\ fetched'[r].hash \in Blocks
              /\ \A q \in Runs \ {r} : fetched'[q] = fetched[q]
            BY <1>t, <2>1, <2>3, <3>2 DEF LocalsTyped, Tips
        <3> QED  BY <1>p, <2>1, <3>1, <3>3, Zenon DEF AsideOfKernel
    <2> QED  BY <1>8, <2>2, <2>3 DEF FetchHash
<1>9. CASE FetchBlock(r)
    <2>1. StreamTyped' /\ pc' = [pc EXCEPT ![r] = "accept"]
        BY <1>9, <1>t, <1>p, GotoTyped, Zenon DEF FetchBlock
    <2>2. LocalsTyped' /\ cs' = cs /\ fetched' = fetched /\ pc[r] = "block"
        BY <1>9, <1>t, Zenon DEF FetchBlock, LocalsTyped, locals
    <2>3. fetched[r].hash \in Blocks
        BY <2>2 DEF KernelInv, FetchedBlocks
    <2> QED  BY <1>p, <2>1, <2>2, <2>3, Zenon DEF AsideOfKernel
<1>10. CASE Advance(r)
    <2> DEFINE u == [state |-> "syncing", why |-> "none", tip |-> readLocalTip,
                     remoteTip |-> remoteTip[r]]
    <2>1. u \in Updates
        BY <1>t, <1>r, <1>p DEF Updates, readLocalTip
    <2>2. Yield(r, u) /\ Goto(r, "loop") /\ UNCHANGED terminated
        BY <1>10 DEF Advance
    <2> HIDE DEF u
    <2>3. StreamTyped' /\ pc' = [pc EXCEPT ![r] = "loop"]
        BY <1>t, <1>p, <2>1, <2>2, ReportTyped
    <2>4. LocalsTyped'
        BY <1>10, <1>t, Zenon DEF Advance, LocalsTyped, readLocalTip
    <2> QED  BY <1>10, <1>p, <2>3, <2>4, Zenon DEF Advance, AsideOfKernel
<1> QED
    BY <1>1, <1>2, <1>3, <1>4, <1>5, <1>6, <1>7, <1>8, <1>9, <1>10, Zenon DEF RunStep

\* Such a step keeps the invariant.
LEMMA AsideKeepsInv ==
    ASSUME KernelInv, NEW r \in Runs, AsideOfKernel(r)
    PROVE  KernelInv'
<1>1. PICK l \in PCs \ {"activate"} :
          /\ pc' = [pc EXCEPT ![r] = l]
          /\ l \in {"block", "accept"} => fetched'[r].hash \in Blocks
    BY Zenon DEF AsideOfKernel
<1>2. pc'[r] = l /\ \A q \in Runs \ {r} : pc'[q] = pc[q] /\ fetched'[q] = fetched[q]
    BY <1>1 DEF AsideOfKernel, KernelInv, StreamTyped
<1>3. FetchedBlocks'
    BY <1>1, <1>2 DEF KernelInv, FetchedBlocks
<1>4. SettledBetweenCalls'
    <2>1. (\A q \in Runs : pc'[q] # "activate") => \A q \in Runs : pc[q] # "activate"
        BY <1>2, Zenon DEF AsideOfKernel
    <2> QED  BY <2>1 DEF KernelInv, SettledBetweenCalls, AsideOfKernel
<1> QED  BY <1>3, <1>4 DEF KernelInv, AsideOfKernel

\* processBlock up to AcceptBlock keeps the invariant.
LEMMA AcceptStepKeepsInv ==
    ASSUME ChainAssumption, ChainContract, SyncAssumption, KernelInv, NEW r \in Runs, ProcessAccept(r)
    PROVE  KernelInv'
<1>t. StreamTyped /\ LocalsTyped /\ ChainInv(cs)
    BY DEF KernelInv
<1>1. pc[r] = "accept" /\ fetched' = fetched /\ LocalsTyped'
    BY <1>t, Zenon DEF ProcessAccept, LocalsTyped, locals
<1>2. fetched[r].hash \in Blocks
    BY <1>1 DEF KernelInv, FetchedBlocks
<1>3. CASE Fail(r, "rejected", remoteTip[r]) /\ cs' = cs
    <2>1. StreamTyped' /\ pc' = [pc EXCEPT ![r] = "done"]
        BY <1>t, <1>3, FailTyped DEF LocalsTyped, Reasons
    <2>2. AsideOfKernel(r)
        <3>1. "done" \in PCs \ {"activate"}
            BY DEF PCs
        <3> QED  BY <1>1, <1>3, <2>1, <3>1, Zenon DEF AsideOfKernel
    <2> QED  BY <2>2, AsideKeepsInv
<1>4. CASE /\ ~BlockRejected(cs, fetched[r].hash)
           /\ cs' = AcceptBlock(cs, fetched[r].hash)
           /\ Goto(r, "activate") /\ UNCHANGED stream
    <2>1. StreamTyped' /\ pc' = [pc EXCEPT ![r] = "activate"]
        BY <1>t, <1>4, GotoTyped, Zenon DEF PCs
    <2>2. ChainInv(cs')
        BY <1>t, <1>2, <1>4, Zenon DEF ChainContract, AcceptContract
    <2>3. pc'[r] = "activate" /\ \A q \in Runs \ {r} : pc'[q] = pc[q]
        BY <1>t, <2>1, Zenon DEF StreamTyped
    <2>4. FetchedBlocks' /\ SettledBetweenCalls'
        BY <1>1, <1>2, <2>3 DEF KernelInv, FetchedBlocks, SettledBetweenCalls
    <2>5. ChainInv(cs)'
        BY <2>2
    <2> QED  BY <1>1, <2>1, <2>4, <2>5 DEF KernelInv
<1> QED  BY <1>3, <1>4 DEF ProcessAccept

\* ActivateBestChain keeps the invariant.
LEMMA ActivateStepKeepsInv ==
    ASSUME ChainAssumption, ChainContract, SyncAssumption, KernelInv, NEW r \in Runs, ProcessActivate(r)
    PROVE  KernelInv'
<1>t. StreamTyped /\ LocalsTyped /\ ChainInv(cs)
    BY DEF KernelInv
<1>1. pc[r] = "activate" /\ fetched' = fetched /\ LocalsTyped' /\ cs' \in ActivateBestChain(cs)
    BY <1>t DEF ProcessActivate, LocalsTyped, locals
<1>2. StreamTyped' /\ pc' = [pc EXCEPT ![r] = "readTip"]
    BY <1>t, GotoTyped, Zenon DEF ProcessActivate, PCs
<1>3. ChainInv(cs') /\ Settled(cs')
    BY <1>t, <1>1 DEF ChainContract, ActivateContract
<1>4. ChainInv(cs)' /\ Settled(cs)'
    BY <1>3, Zenon
<1>5. FetchedBlocks'
    BY <1>1, <1>2, Zenon DEF KernelInv, FetchedBlocks, StreamTyped
<1> QED  BY <1>1, <1>2, <1>4, <1>5, Zenon DEF KernelInv, SettledBetweenCalls

\* Feeding a header keeps the chainstate invariant and the linked blocks.
LEMMA HeaderStepKeepsInv ==
    ASSUME ChainAssumption, ChainContract, SyncAssumption, KernelInv, processBlockHeader
    PROVE  KernelInv'
<1>1. PICK b \in AppHeaders : ~HeaderRejected(cs, b) /\ cs' = AddToBlockIndex(cs, b)
    BY Zenon DEF processBlockHeader
<1>2. b \in Blocks /\ cs \in Chainstates /\ ChainInv(cs)
    BY Zenon DEF SyncAssumption, KernelInv, ChainInv
<1>3. ChainInv(cs')
    BY <1>1, <1>2, Zenon DEF ChainContract, HeaderContract
<1>4. Linked(cs') = Linked(cs) /\ cs'.tip = cs.tip /\ cs'.failed = cs.failed
    BY <1>1, <1>2, Zenon DEF ChainContract, HeaderContract
<1>5. Settled(cs) => Settled(cs')
    BY <1>4 DEF Settled
<1>6. ChainInv(cs)' /\ (Settled(cs) => Settled(cs)')
    BY <1>3, <1>5, Zenon
<1>7. UNCHANGED <<remote, progress, interrupted, pc, locals, cancelled, stream>>
    BY Zenon DEF processBlockHeader
<1>8. StreamTyped' /\ LocalsTyped' /\ FetchedBlocks'
    BY <1>7 DEF KernelInv, StreamTyped, LocalsTyped, FetchedBlocks, stream, locals
<1>9. SettledBetweenCalls'
    BY <1>6, <1>7, Zenon DEF KernelInv, SettledBetweenCalls
<1> QED  BY <1>6, <1>8, <1>9, Zenon DEF KernelInv

\* The consumers, shutdown() and the source keep the invariant.
LEMMA SurroundingsKeepInv ==
    ASSUME SyncAssumption, KernelInv,
           \/ \E r \in Runs : Consume(r) \/ ConsumerStops(r)
           \/ Shutdown \/ SourceMoves \/ Finished \/ UNCHANGED vars
    PROVE  KernelInv'
<1>1. UNCHANGED <<cs, pc, fetched, localTip, remoteTip, progress, emitted, dropped>>
    BY Zenon DEF Consume, ConsumerStops, Shutdown, SourceMoves, Finished, vars, shared, locals, stream
<1>2. remote' \in SourceTips
    BY DEF KernelInv, LocalsTyped, Consume, ConsumerStops, Shutdown, SourceMoves, Finished,
           vars, shared
<1>3. LocalsTyped'
    BY <1>1, <1>2 DEF KernelInv, LocalsTyped
<1>4. interrupted' \in BOOLEAN /\ cancelled' \in [Runs -> BOOLEAN] /\ terminated' \in [Runs -> BOOLEAN]
    BY Zenon DEF KernelInv, StreamTyped, Consume, ConsumerStops, Shutdown, SourceMoves, Finished,
           vars, shared, stream
<1>5. buffer' \in [Runs -> Seq(Updates)]
    <2>0. buffer \in [Runs -> Seq(Updates)]
        BY DEF KernelInv, StreamTyped
    <2>1. CASE \E r \in Runs : Consume(r)
        <3> HIDE DEF Updates
        <3>1. PICK r \in Runs : buffer[r] # <<>> /\ buffer' = [buffer EXCEPT ![r] = Tail(buffer[r])]
            BY <2>1, Zenon DEF Consume
        <3>2. Tail(buffer[r]) \in Seq(Updates)
            BY <2>0, <3>1
        <3> QED  BY <2>0, <3>1, <3>2
    <2>2. CASE \E r \in Runs : ConsumerStops(r)
        BY <2>0, <2>2 DEF ConsumerStops
    <2>3. CASE Shutdown \/ SourceMoves \/ Finished \/ UNCHANGED vars
        BY <2>0, <2>3, Zenon DEF Shutdown, SourceMoves, Finished, vars, stream
    <2> QED  BY <2>1, <2>2, <2>3
<1>6. StreamTyped'
    BY <1>1, <1>4, <1>5, Zenon DEF KernelInv, StreamTyped
<1> QED  BY <1>1, <1>3, <1>6, Zenon DEF KernelInv, FetchedBlocks, SettledBetweenCalls

\* The invariant holds in a synced data directory with no run started.
LEMMA InitKernelInv ==
    ASSUME ChainAssumption, ChainContract, SyncAssumption, Init
    PROVE  KernelInv
<1>1. PICK t \in InitialTips : cs = SyncedTo(t)
    BY DEF Init
<1>2. t \in Blocks /\ Connectable(t)
    BY Zenon DEF SyncAssumption
<1>3. ChainInv(cs) /\ Settled(cs)
    BY <1>1, <1>2 DEF ChainContract, DirectoryContract
<1>4. StreamTyped
    <2>1. "idle" \in PCs /\ <<>> \in Seq(Updates) /\ {} \in SUBSET States
        BY DEF PCs
    <2> QED  BY <2>1, Zenon DEF Init, StreamTyped
<1>5. LocalsTyped
    BY Zenon DEF Init, LocalsTyped, Tips, unknownRemoteTip, ChainAssumption
<1>6. FetchedBlocks
    BY DEF Init, FetchedBlocks
<1> QED  BY <1>3, <1>4, <1>5, <1>6, Zenon DEF KernelInv, SettledBetweenCalls

\* Every step keeps the invariant.
LEMMA NextKernelInv ==
    ASSUME ChainAssumption, ChainContract, SyncAssumption, KernelInv, [Next]_vars
    PROVE  KernelInv'
<1>1. CASE \E r \in Runs : Start(r) \/ RunStep(r)
    BY <1>1, RunStepAside, AsideKeepsInv, AcceptStepKeepsInv, ActivateStepKeepsInv, Zenon
<1>2. CASE processBlockHeader
    BY <1>2, HeaderStepKeepsInv, Zenon
<1>3. CASE \/ \E r \in Runs : Consume(r) \/ ConsumerStops(r)
           \/ Shutdown \/ SourceMoves \/ Finished \/ UNCHANGED vars
    BY <1>3, SurroundingsKeepInv
<1> QED  BY <1>1, <1>2, <1>3, Zenon DEF Next

\* The invariant of the kernel state, where the kernel keeps its contract.
LEMMA KernelUnderContract == ASSUME ChainContract PROVE Spec => []KernelInv
    BY ChainAssumption, SyncAssumption, InitKernelInv, NextKernelInv, PTL DEF Spec

\* What the invariant says of the chainstate.
LEMMA KernelInvSound == ASSUME ChainContract, KernelInv PROVE ChainstateSound
<1>1. ChainInv(cs) /\ SettledBetweenCalls
    BY Zenon DEF KernelInv
<1>2. cs.tip \in Linked(cs) /\ cs.tip \notin cs.failed
    BY <1>1 DEF ChainInv
<1>3. Ancestors[cs.tip] \subseteq Linked(cs) \ cs.failed /\ cs.tip \in cs.known
    BY <1>1, <1>2, Zenon DEF ChainContract, LinkedContract
<1>4. /\ Descendants(cs.failed) \cap cs.known \subseteq cs.failed /\ cs.best \notin cs.failed
      /\ \A b \in cs.failed : ~Connectable(b)
    BY <1>1, Zenon DEF ChainInv
<1>5. cs.best \in Blocks /\ cs.tip \in Blocks
    BY <1>1, Zenon DEF ChainInv, Chainstates
<1>6. Height[cs.best] >= Height[cs.tip]
    BY <1>1, <1>2, <1>3, <1>5, ChainAssumption DEF ChainInv, ChainAssumption
<1>7. (\A r \in Runs : pc[r] # "activate") =>
          \A b \in Linked(cs) \ cs.failed : Height[b] <= Height[cs.tip]
    BY <1>1, Zenon DEF SettledBetweenCalls, Settled
<1> QED  BY <1>3, <1>4, <1>6, <1>7, Zenon DEF ChainstateSound

-----------------------------------------------------------------------------
(* A run that has the chainstate to itself: its steps between two blocks. *)

\* What a yield adds to the updates of its run.
LEMMA YieldAppends ==
    ASSUME StreamTyped, NEW r \in Runs, NEW u \in Updates, Yield(r, u)
    PROVE  /\ terminated[r] => emitted'[r] = emitted[r]
           /\ ~terminated[r] => /\ emitted'[r] = Append(emitted[r], u)
                                /\ Len(emitted'[r]) = Len(emitted[r]) + 1
                                /\ emitted'[r][Len(emitted'[r])] = u
           /\ \A i \in 1 .. Len(emitted'[r]) :
                 \/ i \in 1 .. Len(emitted[r]) /\ emitted'[r][i] = emitted[r][i]
                 \/ emitted'[r][i] = u
<1>1. emitted \in [Runs -> Seq(Updates)]
    BY DEF StreamTyped
<1>2. CASE terminated[r]
    BY <1>1, <1>2, Zenon DEF Yield
<1>3. CASE ~terminated[r]
    <2>1. emitted'[r] = Append(emitted[r], u)
        BY <1>1, <1>3 DEF Yield
    <2>2. PICK s : s = emitted[r]
        OBVIOUS
    <2>3. s \in Seq(Updates)
        BY <1>1, <2>2
    <2> HIDE DEF Updates
    <2>4. /\ Len(Append(s, u)) = Len(s) + 1 /\ Len(s) \in Nat
          /\ Append(s, u)[Len(s) + 1] = u
          /\ \A i \in 1 .. Len(s) : Append(s, u)[i] = s[i]
        BY <2>3
    <2>5. \A i \in 1 .. Len(Append(s, u)) :
              (i \in 1 .. Len(s) /\ Append(s, u)[i] = s[i]) \/ Append(s, u)[i] = u
        BY <2>4
    <2> QED  BY <1>3, <2>1, <2>2, <2>4, <2>5, Zenon
<1> QED  BY <1>2, <1>3

\* A yield of a tip of the active chain keeps the reports in it.
LEMMA YieldReports ==
    ASSUME StreamTyped, NEW r \in Runs, NEW u \in Updates, Yield(r, u), ReportsBelowTip(r),
           cs' = cs, u.tip \in Ancestors[cs.tip],
           u.state = "finished" => Height[u.tip] >= u.remoteTip.height
    PROVE  ReportsBelowTip(r)' /\ (~terminated[r] => lastUpdate(r)' = u)
<1>1. \A i \in 1 .. Len(emitted'[r]) :
                 \/ i \in 1 .. Len(emitted[r]) /\ emitted'[r][i] = emitted[r][i]
                 \/ emitted'[r][i] = u
    BY YieldAppends, Zenon
<1>2. ReportsBelowTip(r)'
    BY <1>1, Zenon DEF ReportsBelowTip
<1>3. ~terminated[r] => emitted'[r][Len(emitted'[r])] = u
    BY YieldAppends, Zenon
<1> QED  BY <1>2, <1>3 DEF lastUpdate

\* Where the run stands between its kernel calls.
Between == PCs \ {"idle", "readTip", "activate"}

\* The run goes on, or ends, without an update.
LEMMA SoloQuiet ==
    ASSUME NEW r \in Runs, Solo(r), pc \in [Runs -> PCs], pc[r] \in Between,
           NEW l \in Between, pc' = [pc EXCEPT ![r] = l],
           cs' = cs, localTip' = localTip, emitted' = emitted,
           terminated[r] => terminated'[r],
           l \in {"block", "accept"} => Height[fetched'[r].hash] = Height[cs.tip] + 1,
           l \in InLoop \/ progress'.total > 0 => progress'.completed = Height[localTip[r]]
    PROVE  Solo(r)'
<1>1. pc'[r] = l /\ l \notin {"idle", "readTip", "activate"} /\ pc[r] \notin {"idle", "readTip", "activate"}
    BY DEF Between
<1>2. FeedsLine(r)'
    BY <1>1, Zenon DEF Solo, FeedsLine
<1>3. ProgressFollows(r)'
    BY <1>1, Zenon DEF Solo, ProgressFollows
<1>4. LastReported(r)'
    BY <1>1, Zenon DEF Solo, LastReported, lastUpdate
<1>5. ReportsBelowTip(r)'
    BY Zenon DEF Solo, ReportsBelowTip
<1> QED  BY <1>2, <1>3, <1>4, <1>5, Zenon DEF Solo

\* The run ends with an update that carries its own tip.
LEMMA SoloConcludes ==
    ASSUME ChainAssumption, ChainContract, KernelInv, NEW r \in Runs, Solo(r), pc[r] \in Between,
           NEW state \in States, NEW why \in Reasons, NEW rtip \in Tips,
           Conclude(r, state, why, localTip[r], rtip),
           state = "finished" => Height[localTip[r]] >= rtip.height,
           cs' = cs, localTip' = localTip, progress' = progress
    PROVE  Solo(r)'
<1> DEFINE u == [state |-> state, why |-> why, tip |-> localTip[r], remoteTip |-> rtip]
<1>t. StreamTyped /\ LocalsTyped /\ ChainInv(cs)
    BY DEF KernelInv
<1>1. localTip[r] = cs.tip /\ cs.tip \in Ancestors[cs.tip] /\ Line(cs, cs.tip)
    BY <1>t, Zenon DEF Solo, FeedsLine, Between, ChainInv, Chainstates, ChainContract, TreeContract
<1>2. u \in Updates /\ Yield(r, u) /\ Finish(r)
    BY <1>t, Zenon DEF Conclude, Updates, LocalsTyped
<1>3. u.tip = localTip[r] /\ u.state = state /\ u.remoteTip = rtip
    BY Zenon
<1> HIDE DEF u
<1>4. ReportsBelowTip(r)'
    BY <1>t, <1>1, <1>2, <1>3, YieldReports, Zenon DEF Solo
<1>5. pc'[r] = "done" /\ terminated'[r]
    BY <1>t, <1>2 DEF Finish, StreamTyped
<1>6. FeedsLine(r)'
    BY <1>1, <1>5, Zenon DEF Solo, FeedsLine
<1>7. ProgressFollows(r)' /\ LastReported(r)'
    BY <1>5, Zenon DEF Solo, ProgressFollows, LastReported, InLoop
<1> QED  BY <1>4, <1>6, <1>7, Zenon DEF Solo

\* A request that fails, or the answer of one, keeps the invariant.
LEMMA SoloRequests ==
    ASSUME ChainAssumption, ChainContract, SyncAssumption, KernelInv, NEW r \in Runs, Solo(r),
           RequestFails(r) \/ TipHeight(r) \/ RemoteTip(r) \/ ForkCheck(r) \/ LoopTop(r)
              \/ Repoll(r) \/ FetchHash(r) \/ FetchBlock(r)
    PROVE  Solo(r)'
<1>t. StreamTyped /\ LocalsTyped /\ ChainInv(cs)
    BY Zenon DEF KernelInv
<1>y. /\ pc \in [Runs -> PCs] /\ terminated \in [Runs -> BOOLEAN]
      /\ localTip[r] \in Blocks /\ Height[localTip[r]] \in Nat
      /\ remoteTip[r] \in Tips /\ remoteTip[r].height \in Nat
      /\ answeredTip(r) \in Tips /\ answeredTip(r).height \in Nat
      /\ fetched \in [Runs -> Tips] /\ remote \in Blocks /\ Height[remote] \in Nat
      /\ progress \in [total : Nat, completed : Nat]
    BY <1>t, Zenon DEF StreamTyped, LocalsTyped, SyncAssumption, ChainAssumption, Tips, answeredTip
<1>p. /\ {"tipHeight", "tipHash", "forkHash", "pollHeight", "pollHash", "hash", "block",
          "loop", "accept", "done"} \subseteq Between
      /\ Requests \subseteq Between
      /\ {"source", "cancelled", "behind", "diverges", "none"} \subseteq Reasons
      /\ {"failed", "finished"} \subseteq States
    BY DEF Between, PCs, Requests, Reasons, States
<1>f. ASSUME NEW why \in Reasons, NEW rtip \in Tips, Fail(r, why, rtip), pc[r] \in Between,
             cs' = cs, localTip' = localTip, progress' = progress
      PROVE  Solo(r)'
    <2>1. Conclude(r, "failed", why, localTip[r], rtip)
        BY <1>f, Zenon DEF Fail
    <2> QED  BY <1>f, <1>p, <2>1, SoloConcludes, Zenon
<1>e. ASSUME EndSilently(r), pc[r] \in Between, cs' = cs, localTip' = localTip, progress' = progress
      PROVE  Solo(r)'
    <2>1. pc' = [pc EXCEPT ![r] = "done"] /\ emitted' = emitted /\ terminated'[r]
        BY <1>e, <1>y, Zenon DEF EndSilently, Finish
    <2>2. "done" \in InLoop \/ progress'.total > 0 => progress'.completed = Height[localTip[r]]
        BY <1>e, Zenon DEF Solo, ProgressFollows, InLoop
    <2> QED  BY <1>e, <1>y, <1>p, <2>1, <2>2, SoloQuiet, Zenon
<1>g. ASSUME NEW l \in Between, Goto(r, l), UNCHANGED stream, pc[r] \in Between,
             cs' = cs, localTip' = localTip,
             l \in {"block", "accept"} => Height[fetched'[r].hash] = Height[cs.tip] + 1,
             l \in InLoop \/ progress'.total > 0 => progress'.completed = Height[localTip[r]]
      PROVE  Solo(r)'
    <2>1. pc' = [pc EXCEPT ![r] = l] /\ emitted' = emitted /\ terminated' = terminated
        BY <1>g, Zenon DEF Goto, stream
    <2> QED  BY <1>g, <1>y, <2>1, SoloQuiet, Zenon
<1>o. pc[r] \in InLoop \/ progress.total > 0 => progress.completed = Height[localTip[r]]
    BY Zenon DEF Solo, ProgressFollows
<1>l. pc[r] \in Between => localTip[r] = cs.tip
    BY Zenon DEF Solo, FeedsLine, Between
<1>1. CASE RequestFails(r)
    <2>1. /\ pc[r] \in Between /\ cs' = cs /\ localTip' = localTip /\ progress' = progress
          /\ (\E why \in Reasons : Fail(r, why, remoteTip[r])) \/ EndSilently(r)
        BY <1>1, <1>p, Zenon DEF RequestFails, locals
    <2> QED  BY <1>y, <1>f, <1>e, <2>1, Zenon
<1>2. CASE TipHeight(r)
    <2>1. /\ pc[r] \in Between /\ cs' = cs /\ localTip' = localTip /\ progress' = progress
          /\ \E l \in Between \ {"block", "accept"} :
                Goto(r, l) /\ UNCHANGED stream /\ (l \in InLoop => pc[r] \in InLoop)
        BY <1>2, <1>p DEF TipHeight, InLoop
    <2> QED  BY <1>o, <1>g, <2>1, Zenon
<1>3. CASE RemoteTip(r)
    <2>1. pc[r] \in Between /\ cs' = cs /\ localTip' = localTip
        BY <1>3, <1>p, Zenon DEF RemoteTip
    <2>2. \/ Fail(r, "behind", answeredTip(r)) /\ progress' = progress
          \/ Goto(r, "forkHash") /\ UNCHANGED stream /\ progress' = progress
          \/ /\ Goto(r, "loop") /\ UNCHANGED stream
             /\ progress' = [total |-> answeredTip(r).height, completed |-> Height[localTip[r]]]
        BY <1>3, <1>p, Zenon DEF RemoteTip, EnterLoop
    <2>3. CASE Fail(r, "behind", answeredTip(r)) /\ progress' = progress
        BY <1>y, <1>p, <1>f, <2>1, <2>3, Zenon
    <2>4. CASE Goto(r, "forkHash") /\ UNCHANGED stream /\ progress' = progress
        <3>1. "forkHash" \notin InLoop
            BY DEF InLoop
        <3> QED  BY <1>p, <1>o, <1>g, <2>1, <2>4, <3>1, Zenon
    <2>5. CASE /\ Goto(r, "loop") /\ UNCHANGED stream
               /\ progress' = [total |-> answeredTip(r).height, completed |-> Height[localTip[r]]]
        <3>1. progress'.completed = Height[localTip[r]]
            BY <2>5, Zenon
        <3> QED  BY <1>p, <1>g, <2>1, <2>5, <3>1, Zenon
    <2> QED  BY <2>2, <2>3, <2>4, <2>5, Zenon
<1>4. CASE ForkCheck(r)
    <2>1. pc[r] \in Between /\ cs' = cs /\ localTip' = localTip
        BY <1>4, <1>p, Zenon DEF ForkCheck, locals
    <2>2. \/ progress' = progress /\ \E why \in Reasons : Fail(r, why, remoteTip[r])
          \/ /\ Goto(r, "loop") /\ UNCHANGED stream
             /\ progress' = [total |-> remoteTip[r].height, completed |-> Height[localTip[r]]]
        BY <1>4, <1>p, Zenon DEF ForkCheck, EnterLoop
    <2>3. CASE progress' = progress /\ \E why \in Reasons : Fail(r, why, remoteTip[r])
        BY <1>y, <1>f, <2>1, <2>3, Zenon
    <2>4. CASE /\ Goto(r, "loop") /\ UNCHANGED stream
               /\ progress' = [total |-> remoteTip[r].height, completed |-> Height[localTip[r]]]
        <3>1. progress'.completed = Height[localTip[r]]
            BY <2>4, Zenon
        <3> QED  BY <1>p, <1>g, <2>1, <2>4, <3>1, Zenon
    <2> QED  BY <2>2, <2>3, <2>4, Zenon
<1>5. CASE LoopTop(r)
    <2>1. /\ pc[r] \in Between /\ cs' = cs /\ localTip' = localTip /\ progress' = progress
          /\ pc[r] \in InLoop
          /\ \/ EndSilently(r)
             \/ \E l \in Between \ {"block", "accept"} : Goto(r, l) /\ UNCHANGED stream
        BY <1>5, <1>p, Zenon DEF LoopTop, locals, InLoop
    <2> QED  BY <1>o, <1>e, <1>g, <2>1, Zenon
<1>6. CASE Repoll(r)
    <2>1. pc[r] \in Between /\ cs' = cs /\ localTip' = localTip /\ pc[r] \in InLoop
        BY <1>6, <1>p DEF Repoll, InLoop
    <2>2. \/ /\ answeredTip(r).height <= Height[localTip[r]]
             /\ Conclude(r, "finished", "none", localTip[r], answeredTip(r))
             /\ progress' = progress
          \/ /\ progress' = [progress EXCEPT !.total = answeredTip(r).height]
             /\ remoteTip' = [remoteTip EXCEPT ![r] = answeredTip(r)]
             /\ answeredTip(r).height > Height[localTip[r]]
             /\ Goto(r, "hash") /\ UNCHANGED stream
        BY <1>6 DEF Repoll
    <2>3. CASE /\ answeredTip(r).height <= Height[localTip[r]]
               /\ Conclude(r, "finished", "none", localTip[r], answeredTip(r))
               /\ progress' = progress
        BY <1>y, <1>p, <2>1, <2>3, SoloConcludes, Zenon
    <2>4. CASE /\ progress' = [progress EXCEPT !.total = answeredTip(r).height]
               /\ Goto(r, "hash") /\ UNCHANGED stream
        <3>1. progress'.completed = progress.completed
            BY <1>y, <2>4
        <3> QED  BY <1>p, <1>o, <1>g, <2>1, <2>4, <3>1, Zenon
    <2> QED  BY <2>2, <2>3, <2>4
<1>7. CASE FetchHash(r)
    <2>1. /\ pc[r] \in Between /\ cs' = cs /\ localTip' = localTip /\ progress' = progress
          /\ pc[r] \in InLoop
        BY <1>7, <1>p DEF FetchHash, InLoop
    <2>2. CASE Fail(r, "source", remoteTip[r])
        BY <1>y, <1>p, <1>f, <2>1, <2>2, Zenon
    <2>3. CASE /\ Height[localTip[r]] + 1 <= Height[remote]
               /\ fetched' = [fetched EXCEPT ![r].hash =
                                 AncestorAt(remote, Height[localTip[r]] + 1)]
               /\ Goto(r, "block") /\ UNCHANGED stream
        <3>1. Height[localTip[r]] + 1 \in 0 .. Height[remote]
            BY <1>y, <2>3
        <3>2. Height[AncestorAt(remote, Height[localTip[r]] + 1)] = Height[localTip[r]] + 1
            BY <1>y, <3>1, Zenon DEF ChainContract, TreeContract
        <3>3. fetched'[r].hash = AncestorAt(remote, Height[localTip[r]] + 1)
            BY <1>y, <2>3, Zenon DEF Tips
        <3>4. Height[fetched'[r].hash] = Height[cs.tip] + 1
            BY <1>l, <2>1, <3>2, <3>3, Zenon
        <3> QED  BY <1>p, <1>o, <1>g, <2>1, <2>3, <3>4
    <2> QED  BY <1>7, <2>2, <2>3 DEF FetchHash
<1>8. CASE FetchBlock(r)
    <2>1. /\ pc[r] = "block" /\ pc[r] \in Between /\ pc[r] \in InLoop
          /\ cs' = cs /\ localTip' = localTip /\ progress' = progress
          /\ fetched' = fetched /\ Goto(r, "accept") /\ UNCHANGED stream
        BY <1>8, <1>p, Zenon DEF FetchBlock, locals, InLoop
    <2>2. Height[fetched'[r].hash] = Height[cs.tip] + 1
        BY <2>1, Zenon DEF Solo, FeedsLine
    <2> QED  BY <1>p, <1>o, <1>g, <2>1, <2>2, Zenon
<1> QED  BY <1>1, <1>2, <1>3, <1>4, <1>5, <1>6, <1>7, <1>8, Zenon

=============================================================================
