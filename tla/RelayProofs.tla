---------------------------- MODULE RelayProofs ----------------------------
(***************************************************************************)
(* The relay implements ExclusiveLink, for any number of connections and   *)
(* whatever the multiplexer, the companion and the owner of the relay do.  *)
(*                                                                         *)
(* The invariant: at most one handler holds the lock, a connection to the  *)
(* companion is open only for a handler that does, and close() has         *)
(* returned only when no handler is left and none can begin.               *)
(*                                                                         *)
(* And the two scripts that use it: an "ok" of the reconnect check shows   *)
(* the fault it is about, and one of the scope check the order in which    *)
(* the companion took the commands.                                        *)
(***************************************************************************)
EXTENDS LiveScope, SequenceTheorems, TLAPS

TypeInv ==
  /\ handler \in [Conns -> HandlerStates]
  /\ physical_open \in [Conns -> BOOLEAN]
  /\ generation \in Nat
  /\ shutdown \in {"no", "waiting", "joining", "done"}

OneHolder == \A c, d \in Conns : HoldsLock(c) /\ HoldsLock(d) => c = d

OpenMeansHeld ==
  \A c \in Conns :
    physical_open[c] => handler[c] \in {"pump", "closing"} /\ generation # 0

ShutIsFinal ==
  /\ shutdown # "no" => closing
  /\ shutdown = "done" => \A c \in Conns : handler[c] \in {"none", "done"}

RelayInv == TypeInv /\ OneHolder /\ OpenMeansHeld /\ ShutIsFinal

-----------------------------------------------------------------------------

\* Steps that leave alone everything that RelayInv is about.
quietVars == <<handler, physical_open, generation, closing, shutdown>>

LEMMA QuietStep ==
  ASSUME RelayInv, UNCHANGED quietVars
  PROVE  RelayInv'
BY DEF RelayInv, TypeInv, OneHolder, OpenMeansHeld, ShutIsFinal, HoldsLock,
       quietVars

\* Steps of one handler that takes or keeps its turn, or gives it up.
LEMMA HandlerMoves ==
  ASSUME RelayInv, NEW c \in Conns, NEW h \in HandlerStates,
         handler' = [handler EXCEPT ![c] = h],
         h \in {"connect", "pump", "closing"} =>
           HoldsLock(c) \/ \A d \in Conns : ~ HoldsLock(d),
         \/ physical_open' = physical_open
         \/ physical_open' = [physical_open EXCEPT ![c] = FALSE],
         handler[c] \in {"pump", "closing"} =>
           h \in {"pump", "closing"} \/ ~ physical_open'[c],
         shutdown = "done" => h \in {"none", "done"},
         UNCHANGED <<generation, closing, shutdown>>
  PROVE  RelayInv'
<1>1. TypeInv'
  BY DEF RelayInv, TypeInv
<1>2. OneHolder'
  BY DEF RelayInv, TypeInv, OneHolder, HoldsLock
<1>3. OpenMeansHeld'
  BY DEF RelayInv, TypeInv, OpenMeansHeld
<1>4. ShutIsFinal'
  BY DEF RelayInv, TypeInv, ShutIsFinal
<1> QED
  BY <1>1, <1>2, <1>3, <1>4 DEF RelayInv

LEMMA InitInv == RelayInit => RelayInv
BY DEF RelayInit, RelayInv, TypeInv, OneHolder, OpenMeansHeld, ShutIsFinal,
       HoldsLock, HandlerStates

LEMMA OpenPhysicalInv ==
  ASSUME RelayInv, NEW c \in Conns, OpenPhysical(c)
  PROVE  RelayInv'
<1> USE DEF OpenPhysical, closeVars
<1>1. TypeInv'
  BY DEF RelayInv, TypeInv, HandlerStates
<1>2. OneHolder'
  BY DEF RelayInv, TypeInv, OneHolder, HoldsLock
<1>3. OpenMeansHeld'
  BY DEF RelayInv, TypeInv, OpenMeansHeld
<1>4. ShutIsFinal'
  BY DEF RelayInv, TypeInv, ShutIsFinal
<1> QED
  BY <1>1, <1>2, <1>3, <1>4 DEF RelayInv

LEMMA CancelTasksInv ==
  ASSUME RelayInv, CancelTasks
  PROVE  RelayInv'
<1> USE DEF CancelTasks
<1>1. TypeInv'
  BY DEF RelayInv, TypeInv, HandlerStates
<1>2. OneHolder'
  BY DEF RelayInv, TypeInv, OneHolder, HoldsLock
<1>3. OpenMeansHeld'
  BY DEF RelayInv, TypeInv, OpenMeansHeld
<1>4. ShutIsFinal'
  BY DEF RelayInv, TypeInv, ShutIsFinal
<1> QED
  BY <1>1, <1>2, <1>3, <1>4 DEF RelayInv

LEMMA DropInv ==
  ASSUME RelayInv, NEW g \in Nat, Drop(g)
  PROVE  RelayInv'
BY DEF Drop, RelayInv, TypeInv, OneHolder, OpenMeansHeld, ShutIsFinal,
       HoldsLock, handlerVars, closeVars

LEMMA CloseInv ==
  ASSUME RelayInv, CloseServer \/ Joined
  PROVE  RelayInv'
BY DEF CloseServer, Joined, RelayInv, TypeInv, OneHolder, OpenMeansHeld,
       ShutIsFinal, HoldsLock, handlerVars, socketVars, HandlerStates

\* All that a step does to what RelayInv is about, whoever takes it.
RelayMove ==
  \/ UNCHANGED quietVars
  \/ \E c \in Conns :
       \/ AcquireLock(c) \/ OpenPhysical(c) \/ OpenFails(c) \/ PumpsEnd(c)
       \/ Finish(c) \/ MuxConnects(c)
  \/ \E g \in Nat : Drop(g)
  \/ CancelTasks \/ Joined \/ CloseServer

\* The steps that do nothing to it.
LEMMA QuietMoves ==
  ASSUME \/ \E c :
              \/ PumpCommand(c) \/ PumpResponse(c)
              \/ \E op : MuxSends(c, op) \/ CompanionSends(c, op)
              \/ MuxReads(c) \/ MuxCloses(c) \/ CompanionCloses(c)
              \/ \E answer : CompanionReads(c, answer)
         \/ \E g, op : HoldNextResponse(g, op) \/ PauseAfterResponse(g, op)
         \/ ResetFaults \/ TakeConnection \/ TakeClosed \/ TakeFault
         \/ UNCHANGED relayVars
  PROVE  RelayMove
BY DEF PumpCommand, PumpResponse, MuxSends, CompanionSends, MuxReads, MuxCloses,
       CompanionCloses, CompanionReads, HoldNextResponse, PauseAfterResponse,
       ResetFaults, TakeConnection, TakeClosed, TakeFault, RelayMove,
       quietVars, relayVars, handlerVars, socketVars, closeVars

LEMMA NextMoves ==
  ASSUME [RelayNext]_relayVars
  PROVE  RelayMove
<1>1. Conns \subseteq Nat
  BY DEF Conns
<1> QED
  BY <1>1, QuietMoves DEF RelayNext, HandlerStep, RelayMove

LEMMA MoveInv ==
  ASSUME RelayInv, RelayMove
  PROVE  RelayInv'
<1>1. CASE UNCHANGED quietVars
  BY <1>1, QuietStep
<1>2. ASSUME NEW c \in Conns, AcquireLock(c) PROVE RelayInv'
  <2>1. CASE closing
    BY <1>2, <2>1, HandlerMoves, "done" \in HandlerStates
      DEF AcquireLock, HandlerStates, RelayInv, ShutIsFinal, closeVars
  <2>2. CASE ~ closing
    BY <1>2, <2>2, HandlerMoves, "connect" \in HandlerStates
      DEF AcquireLock, HandlerStates, RelayInv, ShutIsFinal, closeVars
  <2> QED
    BY <2>1, <2>2
<1>3. ASSUME NEW c \in Conns, OpenFails(c) PROVE RelayInv'
  BY <1>3, HandlerMoves, "done" \in HandlerStates
    DEF OpenFails, HandlerStates, closeVars
<1>4. ASSUME NEW c \in Conns, PumpsEnd(c) PROVE RelayInv'
  BY <1>4, HandlerMoves, "closing" \in HandlerStates
    DEF PumpsEnd, HandlerStates, HoldsLock, RelayInv, ShutIsFinal, socketVars,
        closeVars
<1>5. ASSUME NEW c \in Conns, Finish(c) PROVE RelayInv'
  BY <1>5, HandlerMoves, "done" \in HandlerStates
    DEF Finish, HandlerStates, RelayInv, TypeInv, closeVars
<1>6. ASSUME NEW c \in Conns, MuxConnects(c) PROVE RelayInv'
  BY <1>6, HandlerMoves, "lock" \in HandlerStates
    DEF MuxConnects, HandlerStates, RelayInv, ShutIsFinal, closeVars
<1> QED
  BY <1>1, <1>2, <1>3, <1>4, <1>5, <1>6, OpenPhysicalInv, CancelTasksInv,
     DropInv, CloseInv
  DEF RelayMove

-----------------------------------------------------------------------------
(* Every step of the relay is one of the link, or none.                    *)

Linked == \E c \in Conns : physical_open[c]

LinkStep == [Link!Open \/ Link!Close \/ Link!Shut]_(Link!linkVars)

LEMMA NoLinkStep ==
  ASSUME UNCHANGED <<physical_open, generation, shutdown>>
  PROVE  LinkStep
BY DEF LinkStep, Link!linkVars

\* A step that only closes: the link is closed, or some other one is open
\* still and the link is the same.
LEMMA ClosingStep ==
  ASSUME RelayInv,
         \A c \in Conns : physical_open'[c] => physical_open[c],
         UNCHANGED generation, (shutdown = "done") = (shutdown' = "done")
  PROVE  LinkStep
<1>1. CASE Linked' \/ ~ Linked
  BY <1>1 DEF LinkStep, Link!linkVars, Linked
<1>2. CASE ~ Linked' /\ Linked
  <2> generation # 0
    BY <1>2 DEF RelayInv, OpenMeansHeld, Linked
  <2> QED
    BY <1>2 DEF LinkStep, Link!Close, Linked
<1> QED
  BY <1>1, <1>2

LEMMA OpenStep ==
  ASSUME RelayInv, NEW c \in Conns, OpenPhysical(c)
  PROVE  LinkStep
<1> USE DEF OpenPhysical
<1>1. ~ Linked
  BY DEF RelayInv, TypeInv, OneHolder, OpenMeansHeld, HoldsLock, Linked
<1>2. Linked'
  BY DEF RelayInv, TypeInv, Linked
<1>3. shutdown # "done" /\ UNCHANGED shutdown
  BY DEF RelayInv, ShutIsFinal, closeVars
<1>4. generation' = generation + 1
  OBVIOUS
<1> QED
  BY <1>1, <1>2, <1>3, <1>4 DEF LinkStep, Link!Open, Linked

LEMMA ShutStep ==
  ASSUME RelayInv, Joined
  PROVE  LinkStep
<1> ~ Linked /\ ~ Linked'
  BY DEF Joined, RelayInv, OpenMeansHeld, Linked, socketVars
<1> QED
  BY DEF Joined, LinkStep, Link!Shut, Linked, handlerVars

LEMMA MoveImplementsLink ==
  ASSUME RelayInv, RelayMove
  PROVE  LinkStep
<1> USE DEF handlerVars, socketVars, closeVars
<1>1. CASE UNCHANGED quietVars
  BY <1>1, NoLinkStep DEF quietVars
<1>2. ASSUME NEW c \in Conns,
             AcquireLock(c) \/ PumpsEnd(c) \/ OpenFails(c) \/ MuxConnects(c)
      PROVE  LinkStep
  <2> UNCHANGED <<physical_open, generation, shutdown>>
    BY <1>2 DEF AcquireLock, PumpsEnd, OpenFails, MuxConnects
  <2> QED
    BY NoLinkStep
<1>3. ASSUME NEW c \in Conns, Finish(c) PROVE LinkStep
  BY <1>3, ClosingStep DEF Finish, RelayInv, TypeInv
<1>4. ASSUME NEW g \in Nat, Drop(g) PROVE LinkStep
  BY <1>4, ClosingStep DEF Drop, RelayInv, TypeInv
<1>5. CASE CancelTasks
  <2>1. \A c \in Conns : physical_open'[c] => physical_open[c]
    BY <1>5 DEF CancelTasks
  <2>2. UNCHANGED generation /\ shutdown # "done" /\ shutdown' # "done"
    BY <1>5 DEF CancelTasks
  <2> QED
    BY <2>1, <2>2, ClosingStep
<1>6. CASE CloseServer
  BY <1>6, ClosingStep DEF CloseServer
<1> QED
  BY <1>1, <1>2, <1>3, <1>4, <1>5, <1>6, OpenStep, ShutStep DEF RelayMove

\* The invariant holds in every reachable state of the relay.
THEOREM RelayInvariant == RelaySpec => []RelayInv
<1>1. RelayInit => RelayInv
  BY InitInv
<1>2. RelayInv /\ [RelayNext]_relayVars => RelayInv'
  BY NextMoves, MoveInv
<1> QED
  BY <1>1, <1>2, PTL DEF RelaySpec

\* ExclusiveFrameRelay gives its owner an exclusive link: one physical
\* connection at a time, numbered by generation, none after close() returned.
THEOREM RelayIsExclusive == RelaySpec => CompanionIsExclusive
<1>1. RelayInit => Link!LinkInit
  BY DEF RelayInit, Link!LinkInit
<1>2. RelayInv /\ [RelayNext]_relayVars => LinkStep
  BY NextMoves, MoveImplementsLink
<1> QED
  BY <1>1, <1>2, RelayInvariant, PTL
  DEF RelaySpec, CompanionIsExclusive, Link!LinkSpec, LinkStep

-----------------------------------------------------------------------------
(* The relay in the hands of the two scripts                               *)

\* A multiplexer that has an epoch has a connection.
Linkage == link \in Conns \cup {0} /\ (stage # "down" => link # 0)

\* All that a step of the scripts, the multiplexer or the companion does to
\* the relay.
RelayStep ==
  \/ UNCHANGED relayVars
  \/ \E c \in Conns :
       \/ HandlerStep(c) \/ OpenFails(c) \/ MuxConnects(c)
       \/ \E op \in Commands : MuxSends(c, op)
       \/ MuxReads(c) \/ MuxCloses(c) \/ CompanionCloses(c)
       \/ \E answer \in Seq(Responses) : CompanionReads(c, answer)
  \/ \E op \in Responses : HoldNextResponse(1, op) \/ PauseAfterResponse(1, op)
  \/ ResetFaults \/ TakeConnection \/ TakeClosed \/ TakeFault
  \/ Drop(1)
  \/ CancelTasks \/ Joined \/ CloseServer

LEMMA StepMoves ==
  ASSUME RelayStep
  PROVE  RelayMove
BY QuietMoves DEF RelayStep, HandlerStep, RelayMove

LEMMA AnswersMade == \A op : Answer(op) \in Seq(Responses)
BY LiveReconnectAssumption, LiveScopeAssumption DEF Answer

LEMMA MuxSteps ==
  ASSUME Linkage, MuxStep \/ AnswerLocally \/ SendUnasked
  PROVE  RelayStep
<1>1. CASE MuxConnect
  BY <1>1 DEF MuxConnect, RelayStep
<1>2. CASE MuxStart
  BY <1>2, LiveReconnectAssumption DEF MuxStart, RelayStep, Linkage
<1>3. CASE MuxDispatch
  BY <1>3 DEF MuxDispatch, RelayStep, Linkage
<1>4. CASE SendUnasked
  BY <1>4, LiveReconnectAssumption, LiveScopeAssumption
    DEF SendUnasked, RelayStep, Linkage, Watched
<1>5. CASE MuxReceive
  BY <1>5 DEF MuxReceive, RelayStep, Linkage
<1>6. CASE MuxGivesUp \/ MuxExits
  BY <1>6 DEF MuxGivesUp, MuxExits, RelayStep, Linkage
<1>7. CASE AnswerLocally
  BY <1>7 DEF AnswerLocally, RelayStep
<1> QED
  BY <1>1, <1>2, <1>3, <1>4, <1>5, <1>6, <1>7 DEF MuxStep

LEMMA ScriptSteps ==
  ASSUME Linkage, ScriptStep \/ ScopeScript \/ CleanupStep
  PROVE  RelayStep
<1>1. CASE DropGeneration \/ CloseRelay \/ ClearFaults
  BY <1>1 DEF DropGeneration, CloseRelay, ClearFaults, RelayStep
<1>2. ASSUME NEW g, NEW from, NEW to, ExpectGeneration(g, from, to)
      PROVE  RelayStep
  BY <1>2 DEF ExpectGeneration, RelayStep
<1>3. CASE DropObserved \/ OldClosed \/ FaultReached
  BY <1>3 DEF DropObserved, OldClosed, FaultReached, RelayStep
<1>4. CASE HoldReply \/ PauseStream
  BY <1>4, LiveReconnectAssumption DEF HoldReply, PauseStream, RelayStep
<1>5. ASSUME NEW x, NEW y, NEW from, NEW to,
             \/ ExpectReady(x, from, to) \/ ConnectPair(x, from, to)
             \/ QueryPair(x, y, from, to) \/ PairAnswered(x, y, from, to)
             \/ Spawn \/ AwaitReady \/ OldDisconnected \/ SuccessorNotSent
             \/ Succeed \/ Raise \/ DisconnectClients \/ Reaped \/ Ended
             \/ AskContacts \/ SelectScope \/ SendStatus \/ StatusAccepted
             \/ StatusRejected \/ ClockRead \/ ResetScope \/ CompareOrder
      PROVE  RelayStep
  <2> UNCHANGED relayVars
    BY <1>5
    DEF ExpectReady, ConnectPair, QueryPair, PairAnswered, Spawn, AwaitReady,
        OldDisconnected, SuccessorNotSent, Succeed, Raise, DisconnectClients,
        Reaped, Ended, AskContacts, SelectScope, SendStatus, StatusAccepted,
        StatusRejected, ClockRead, ResetScope, CompareOrder
  <2> QED
    BY DEF RelayStep
<1>6. CASE Kill
  BY <1>6 DEF Kill, RelayStep, Linkage
<1> QED
  BY <1>1, <1>2, <1>3, <1>4, <1>5, <1>6
  DEF ScriptStep, ScopeScript, ScopeSetup, ScopeRaise, CleanupStep

LEMMA CheckSteps ==
  ASSUME Linkage, [CheckNext]_checkVars
  PROVE  RelayStep
<1>1. CASE UNCHANGED checkVars
  BY <1>1 DEF checkVars, reconnectVars, RelayStep
<1>2. CASE \E c \in Conns : CopyTask(c)
  BY <1>2 DEF CopyTask, HandlerTask, RelayStep
<1>3. CASE CloseTurn
  BY <1>3 DEF CloseTurn, CloseTask, RelayStep
<1>4. CASE CompanionTurn
  BY <1>4, AnswersMade DEF CompanionTurn, CompanionStep, RelayStep
<1>5. CASE MuxTurn
  BY <1>5, MuxSteps DEF MuxTurn
<1>6. CASE ScriptTurn \/ CleanupTurn
  BY <1>6, ScriptSteps DEF ScriptTurn, CleanupTurn
<1> QED
  BY <1>1, <1>2, <1>3, <1>4, <1>5, <1>6 DEF CheckNext

\* Only the multiplexer's own steps and its end change its connection.
LEMMA LinkageStep ==
  ASSUME Linkage, [CheckNext]_checkVars
  PROVE  Linkage'
<1>1. CASE UNCHANGED <<link, stage>>
  BY <1>1 DEF Linkage
<1>2. CASE EpochEnds
  BY <1>2 DEF Linkage, EpochEnds
<1>3. CASE MuxConnect
  <2>1. link' \in Conns /\ 0 \notin Conns
    BY <1>3 DEF MuxConnect, Conns
  <2> QED
    BY <2>1 DEF Linkage
<1>4. CASE MuxStart
  BY <1>4 DEF MuxStart, Linkage
<1>5. CASE MuxReceive
  BY <1>5 DEF MuxReceive, Linkage
<1>6. CASE MuxDispatch \/ AnswerLocally \/ SendUnasked
  BY <1>1, <1>6 DEF MuxDispatch, AnswerLocally, SendUnasked, muxVars
<1>7. CASE MuxTurn
  BY <1>2, <1>3, <1>4, <1>5, <1>6, <1>7
    DEF MuxTurn, MuxStep, MuxGivesUp, MuxExits
<1>8. CASE ScriptTurn \/ CleanupTurn
  <2> USE DEF muxVars, Ask
  <2>1. CASE Kill
    BY <1>2, <2>1 DEF Kill
  <2>2. ASSUME NEW g, NEW from, NEW to, ExpectGeneration(g, from, to)
        PROVE  Linkage'
    BY <1>1, <2>2 DEF ExpectGeneration
  <2>3. ASSUME NEW x, NEW y, NEW from, NEW to,
               \/ ExpectReady(x, from, to) \/ ConnectPair(x, from, to)
               \/ QueryPair(x, y, from, to) \/ PairAnswered(x, y, from, to)
               \/ Spawn \/ AwaitReady \/ OldDisconnected \/ SuccessorNotSent
               \/ Succeed \/ Raise \/ DisconnectClients \/ Reaped \/ Ended
               \/ AskContacts \/ SelectScope \/ SendStatus \/ StatusAccepted
               \/ StatusRejected \/ ClockRead \/ ResetScope \/ CompareOrder
        PROVE  Linkage'
    <3> UNCHANGED <<link, stage>>
      BY <2>3
      DEF ExpectReady, ConnectPair, QueryPair, PairAnswered, Spawn, AwaitReady,
          OldDisconnected, SuccessorNotSent, Succeed, Raise, DisconnectClients,
          Reaped, Ended, AskContacts, SelectScope, SendStatus, StatusAccepted,
          StatusRejected, ClockRead, ResetScope, CompareOrder
    <3> QED
      BY <1>1
  <2>4. CASE \/ DropGeneration \/ CloseRelay \/ ClearFaults \/ DropObserved
             \/ OldClosed \/ FaultReached \/ HoldReply \/ PauseStream
    <3> UNCHANGED <<link, stage>>
      BY <2>4 DEF DropGeneration, CloseRelay, ClearFaults, DropObserved,
         OldClosed, FaultReached, HoldReply, PauseStream
    <3> QED
      BY <1>1
  <2> QED
    BY <1>8, <2>1, <2>2, <2>3, <2>4
    DEF ScriptTurn, CleanupTurn, ScriptStep, ScopeScript, ScopeSetup,
        ScopeRaise, CleanupStep
<1>9. CASE \/ \E c \in Conns : CopyTask(c)
           \/ CloseTurn \/ CompanionTurn \/ UNCHANGED checkVars
  BY <1>1, <1>9
  DEF CopyTask, HandlerTask, CloseTurn, CloseTask, CompanionTurn, CompanionStep,
      checkVars, reconnectVars, muxVars
<1> QED
  BY <1>7, <1>8, <1>9 DEF CheckNext

LEMMA CheckRelayInv == CheckSpec => [](RelayInv /\ Linkage)
<1>1. CheckInit => RelayInv /\ Linkage
  BY InitInv DEF CheckInit, ReconnectInit, ScriptInit, Linkage
<1>2. RelayInv /\ Linkage /\ [CheckNext]_checkVars => RelayInv' /\ Linkage'
  BY CheckSteps, StepMoves, MoveInv, LinkageStep
<1> QED
  BY <1>1, <1>2, PTL DEF CheckSpec

\* Whatever the scripts and the multiplexer between them and the relay do, and
\* however long the companion's answers are, the companion has one connection
\* at a time and none after the cleanup.
THEOREM ChecksAreExclusive == CheckSpec => CompanionIsExclusive
<1>1. CheckInit => Link!LinkInit
  BY DEF CheckInit, ReconnectInit, ScriptInit, RelayInit, Link!LinkInit
<1>2. RelayInv /\ Linkage /\ [CheckNext]_checkVars => LinkStep
  BY CheckSteps, StepMoves, MoveImplementsLink
<1> QED
  BY <1>1, <1>2, CheckRelayInv, PTL
  DEF CheckSpec, CompanionIsExclusive, Link!LinkSpec, LinkStep

-----------------------------------------------------------------------------
(* What is on the wires, and whose it is                                   *)

WireType ==
  /\ gen \in [Conns -> Nat]
  /\ mux_open \in [Conns -> BOOLEAN] /\ relay_open \in [Conns -> BOOLEAN]
  /\ peer_open \in [Conns -> BOOLEAN]
  /\ up \in [Conns -> Seq(Commands)] /\ fwd \in [Conns -> Seq(Commands)]
  /\ down \in [Conns -> Seq(Responses)] /\ ret \in [Conns -> Seq(Responses)]
  /\ connections \in Seq(Nat) /\ closed \in Seq(Nat)
  /\ fault_reached \in Seq(Nat \X Responses)
  /\ frame_counts \in [Conns \X Queried -> Nat]
  /\ responses_paused \in BOOLEAN

\* A connection that has no turn yet has no generation and nothing to copy; a
\* generation belongs to one connection, and one that was reported closed to
\* a handler that has ended.
GenInv ==
  /\ \A c \in Conns :
       handler[c] \in {"none", "lock", "connect"} =>
         gen[c] = 0 /\ fwd[c] = <<>> /\ down[c] = <<>> /\ ret[c] = <<>>
  /\ \A c \in Conns :
       /\ handler[c] \in {"pump", "closing"} => gen[c] # 0
       /\ gen[c] <= generation
  /\ \A c, d \in Conns : gen[c] = gen[d] /\ gen[c] # 0 => c = d
  /\ \A i \in DOMAIN closed :
       /\ closed[i] \in 1 .. generation
       /\ \A c \in Conns : gen[c] = closed[i] => handler[c] = "done"

FlowInv == WireType /\ GenInv

LEMMA CountedType ==
  ASSUME frame_counts \in [Conns \X Queried -> Nat], NEW c, NEW op
  PROVE  Counted(c, op) \in [Conns \X Queried -> Nat]
<1>1. \A f \in Conns \X Queried : frame_counts[f] + 1 \in Nat /\ frame_counts[f] \in Nat
  OBVIOUS
<1>2. DOMAIN frame_counts = Conns \X Queried
  OBVIOUS
<1> QED
  BY <1>1, <1>2 DEF Counted

LEMMA WireTypeStep ==
  ASSUME RelayInv, WireType, RelayStep
  PROVE  WireType'
<1> USE DEF WireType, handlerVars, socketVars, wireVars, faultVars, closeVars
<1>1. CASE UNCHANGED relayVars
  BY <1>1 DEF relayVars
<1>2. ASSUME NEW c \in Conns,
             AcquireLock(c) \/ PumpsEnd(c) \/ MuxConnects(c) \/ MuxCloses(c)
               \/ CompanionCloses(c)
      PROVE  WireType'
  BY <1>2 DEF AcquireLock, PumpsEnd, MuxConnects, MuxCloses, CompanionCloses
<1>3. ASSUME NEW c \in Conns, OpenPhysical(c) \/ OpenFails(c) \/ Finish(c)
      PROVE  WireType'
  <2>1. generation \in Nat
    BY DEF RelayInv, TypeInv
  <2>2. CASE OpenPhysical(c)
    BY <2>1, <2>2 DEF OpenPhysical
  <2>3. CASE OpenFails(c)
    BY <2>3 DEF OpenFails
  <2>4. CASE Finish(c)
    <3>1. closed' \in Seq(Nat)
      BY <2>4 DEF Finish
    <3> QED
      BY <2>4, <3>1 DEF Finish
  <2> QED
    BY <1>3, <2>2, <2>3, <2>4
<1>4. ASSUME NEW c \in Conns, PumpCommand(c) PROVE WireType'
  <2>1. up[c] # <<>> /\ up[c] \in Seq(Commands)
    BY <1>4, RelayAssumption DEF PumpCommand, NextFrame
  <2>2. Head(up[c]) \in Commands /\ Tail(up[c]) \in Seq(Commands)
    BY <2>1
  <2>3. frame_counts' \in [Conns \X Queried -> Nat]
    <3>1. frame_counts' = Counted(c, Head(up[c]))
      BY <1>4 DEF PumpCommand
    <3> QED
      BY <3>1, CountedType
  <2>4. up' \in [Conns -> Seq(Commands)] /\ fwd' \in [Conns -> Seq(Commands)]
    BY <1>4, <2>2 DEF PumpCommand, Written
  <2>5. UNCHANGED <<gen, mux_open, relay_open, peer_open, down, ret, connections,
                    closed, fault_reached, responses_paused>>
    BY <1>4 DEF PumpCommand
  <2> QED
    BY <2>3, <2>4, <2>5
<1>5. ASSUME NEW c \in Conns, PumpResponse(c) PROVE WireType'
  <2>1. down[c] # <<>> /\ down[c] \in Seq(Responses)
    BY <1>5, RelayAssumption DEF PumpResponse, NextFrame
  <2>2. Head(down[c]) \in Responses /\ Tail(down[c]) \in Seq(Responses)
    BY <2>1
  <2>3. frame_counts' \in [Conns \X Queried -> Nat]
    <3>1. frame_counts' = Counted(c, Head(down[c]))
      BY <1>5 DEF PumpResponse
    <3> QED
      BY <3>1, CountedType
  <2>4. ret' \in [Conns -> Seq(Responses)]
    BY <1>5, <2>2 DEF PumpResponse, Written
  <2>5. /\ fault_reached' \in Seq(Nat \X Responses)
        /\ responses_paused' \in BOOLEAN
    <3> DEFINE frame == <<gen[c], Head(down[c])>>
    <3>1. Withhold(frame) /\ frame \in Nat \X Responses
      BY <1>5, <2>2 DEF PumpResponse
    <3> HIDE DEF frame
    <3>2. fault_reached' \in {fault_reached, Append(fault_reached, frame)}
      BY <3>1 DEF Withhold
    <3>3. responses_paused' \in BOOLEAN
      BY <3>1 DEF Withhold
    <3>4. Append(fault_reached, frame) \in Seq(Nat \X Responses)
      BY <3>1
    <3> QED
      BY <3>2, <3>3, <3>4
  <2> QED
    BY <1>5, <2>2, <2>3, <2>4, <2>5 DEF PumpResponse
<1>6. ASSUME NEW c \in Conns, NEW op \in Commands, MuxSends(c, op)
      PROVE  WireType'
  BY <1>6 DEF MuxSends
<1>7. ASSUME NEW c \in Conns, MuxReads(c) PROVE WireType'
  BY <1>7 DEF MuxReads
<1>8. ASSUME NEW c \in Conns, NEW answer \in Seq(Responses),
             CompanionReads(c, answer)
      PROVE  WireType'
  BY <1>8 DEF CompanionReads
<1>9. ASSUME NEW op \in Responses,
             HoldNextResponse(1, op) \/ PauseAfterResponse(1, op)
      PROVE  WireType'
  BY <1>9 DEF HoldNextResponse, PauseAfterResponse
<1>10. CASE ResetFaults \/ TakeConnection \/ TakeClosed \/ TakeFault
  <2>1. CASE ResetFaults
    BY <2>1 DEF ResetFaults
  <2>2. CASE TakeConnection
    <3>1. connections' \in Seq(Nat)
      BY <2>2 DEF TakeConnection, Take
    <3> QED
      BY <2>2, <3>1 DEF TakeConnection
  <2>3. CASE TakeClosed
    <3>1. closed' \in Seq(Nat)
      BY <2>3 DEF TakeClosed, Take
    <3> QED
      BY <2>3, <3>1 DEF TakeClosed
  <2>4. CASE TakeFault
    <3>1. fault_reached' \in Seq(Nat \X Responses)
      BY <2>4 DEF TakeFault, Take
    <3> QED
      BY <2>4, <3>1 DEF TakeFault
  <2> QED
    BY <1>10, <2>1, <2>2, <2>3, <2>4
<1>11. CASE Drop(1) \/ CancelTasks \/ Joined \/ CloseServer
  BY <1>11 DEF Drop, CancelTasks, Joined, CloseServer
<1> QED
  BY <1>1, <1>2, <1>3, <1>4, <1>5, <1>6, <1>7, <1>8, <1>9, <1>10, <1>11
  DEF RelayStep, HandlerStep

\* Steps that give no generation and report none, and move nothing on the
\* wires of a connection that has no turn yet.
GenStill ==
  /\ UNCHANGED <<gen, generation, closed>>
  /\ \A c \in Conns :
       /\ \/ handler'[c] = handler[c]
          \/ /\ handler[c] \in {"none", "lock", "connect"}
             /\ handler'[c] \in {"lock", "connect", "done"}
          \/ handler[c] = "pump" /\ handler'[c] = "closing"
       /\ handler[c] \in {"none", "lock", "connect"} =>
            fwd'[c] = fwd[c] /\ down'[c] = down[c] /\ ret'[c] = ret[c]

LEMMA GenKept ==
  ASSUME GenInv, GenStill
  PROVE  GenInv'
BY DEF GenInv, GenStill

LEMMA Appended ==
  ASSUME NEW S, NEW q \in Seq(S), NEW x \in S
  PROVE  \A i \in DOMAIN Append(q, x) :
           IF i \in DOMAIN q THEN Append(q, x)[i] = q[i]
                            ELSE Append(q, x)[i] = x
OBVIOUS

LEMMA GenMoves ==
  ASSUME RelayInv, FlowInv, RelayStep
  PROVE  \/ GenStill \/ TakeClosed
         \/ \E c \in Conns : OpenPhysical(c) \/ Finish(c)
<1> USE DEF handlerVars, socketVars, wireVars, faultVars, closeVars
<1>1. CASE UNCHANGED relayVars
  BY <1>1 DEF GenStill, relayVars
<1>2. ASSUME NEW c \in Conns,
             AcquireLock(c) \/ PumpsEnd(c) \/ MuxConnects(c) \/ OpenFails(c)
      PROVE  GenStill
  BY <1>2 DEF GenStill, AcquireLock, PumpsEnd, MuxConnects, OpenFails,
       RelayInv, TypeInv
<1>3. ASSUME NEW c \in Conns, NEW op \in Commands,
             MuxCloses(c) \/ CompanionCloses(c) \/ MuxSends(c, op)
      PROVE  GenStill
  BY <1>3 DEF GenStill, MuxCloses, CompanionCloses, MuxSends
<1>4. ASSUME NEW c \in Conns, PumpCommand(c) \/ PumpResponse(c)
      PROVE  GenStill
  BY <1>4 DEF GenStill, PumpCommand, PumpResponse, FlowInv, WireType
<1>5. ASSUME NEW c \in Conns, MuxReads(c) PROVE GenStill
  BY <1>5 DEF GenStill, MuxReads, FlowInv, WireType, GenInv
<1>6. ASSUME NEW c \in Conns, NEW answer \in Seq(Responses),
             CompanionReads(c, answer)
      PROVE  GenStill
  <2>1. handler[c] \notin {"none", "lock", "connect"}
    BY <1>6 DEF CompanionReads, FlowInv, GenInv
  <2> QED
    BY <1>6, <2>1 DEF GenStill, CompanionReads, FlowInv, WireType
<1>7. ASSUME NEW op \in Responses,
             \/ HoldNextResponse(1, op) \/ PauseAfterResponse(1, op)
             \/ ResetFaults \/ TakeConnection \/ TakeFault
             \/ Drop(1) \/ Joined \/ CloseServer
      PROVE  GenStill
  BY <1>7 DEF GenStill, HoldNextResponse, PauseAfterResponse, ResetFaults,
       TakeConnection, TakeFault, Drop, Joined, CloseServer
<1>8. CASE CancelTasks
  BY <1>8 DEF GenStill, CancelTasks, RelayInv, TypeInv
<1> QED
  BY <1>1, <1>2, <1>3, <1>4, <1>5, <1>6, <1>7, <1>8, LiveReconnectAssumption
  DEF RelayStep, HandlerStep

LEMMA GenStep ==
  ASSUME RelayInv, FlowInv, RelayStep
  PROVE  GenInv'
<1> USE DEF handlerVars, socketVars, wireVars, faultVars, closeVars
<1>1. ASSUME NEW c \in Conns, OpenPhysical(c) PROVE GenInv'
  <2> USE DEF OpenPhysical, FlowInv, WireType, GenInv, RelayInv, TypeInv
  <2>0. gen \in [Conns -> Nat]
    OBVIOUS
  <2>1. gen' = [gen EXCEPT ![c] = generation + 1] /\ generation' = generation + 1
    BY <1>1
  <2>2. \A d \in Conns : gen'[d] <= generation'
    BY <2>1
  <2>3. \A d, e \in Conns : gen'[d] = gen'[e] /\ gen'[d] # 0 => d = e
    <3>1. \A d \in Conns : gen[d] # generation + 1
      OBVIOUS
    <3> QED
      BY <2>1, <3>1
  <2>4. \A i \in DOMAIN closed : closed[i] \in Nat
    OBVIOUS
  <2>5. \A i \in DOMAIN closed' :
          /\ closed'[i] \in 1 .. generation'
          /\ \A d \in Conns : gen'[d] = closed'[i] => handler'[d] = "done"
    <3> SUFFICES ASSUME NEW i \in DOMAIN closed
                 PROVE  /\ closed[i] \in 1 .. generation + 1
                        /\ \A d \in Conns : gen'[d] = closed[i] => handler'[d] = "done"
      BY <1>1, <2>1
    <3>1. closed[i] \in 1 .. generation /\ generation \in Nat
      OBVIOUS
    <3>2. ASSUME NEW d \in Conns, gen'[d] = closed[i]
          PROVE  d # c /\ gen[d] = closed[i]
      <4> HIDE DEF GenInv, OpenPhysical, RelayInv, FlowInv
      <4>1. gen'[d] = IF d = c THEN generation + 1 ELSE gen[d]
        BY <2>1, <2>0
      <4>2. generation + 1 # closed[i]
        BY <3>1
      <4> QED
        BY <3>2, <4>1, <4>2
    <3>3. \A d \in Conns : d # c => handler'[d] = handler[d]
      BY <1>1
    <3>4. \A d \in Conns : gen[d] = closed[i] => handler[d] = "done"
      OBVIOUS
    <3> HIDE DEF GenInv, OpenPhysical, RelayInv, FlowInv, TypeInv, WireType
    <3>5. closed[i] \in 1 .. generation + 1
      BY <3>1
    <3>6. \A d \in Conns : gen'[d] = closed[i] => handler'[d] = "done"
      BY <3>2, <3>3, <3>4
    <3> QED
      BY <3>5, <3>6
  <2>6. \A d \in Conns :
          /\ handler'[d] \in {"pump", "closing"} => gen'[d] # 0
          /\ handler'[d] \in {"none", "lock", "connect"} =>
               /\ gen'[d] = 0 /\ fwd'[d] = <<>>
               /\ down'[d] = <<>> /\ ret'[d] = <<>>
    BY <1>1, <2>1
  <2> QED
    BY <2>2, <2>3, <2>5, <2>6
<1>2. ASSUME NEW c \in Conns, Finish(c) PROVE GenInv'
  <2> USE DEF Finish, FlowInv, WireType, GenInv, RelayInv, TypeInv
  <2>1. gen[c] # 0 /\ gen[c] \in 1 .. generation
    BY <1>2
  <2>2. \A i \in DOMAIN closed' :
          IF i \in DOMAIN closed THEN closed'[i] = closed[i]
                                 ELSE closed'[i] = gen[c]
    <3>1. closed \in Seq(Nat) /\ closed' = Append(closed, gen[c])
      BY <1>2
    <3>2. gen[c] \in Nat
      OBVIOUS
    <3> HIDE DEF GenInv, Finish, RelayInv, FlowInv, WireType
    <3> QED
      BY <3>1, <3>2, Appended
  <2>3. \A d \in Conns : handler'[d] = IF d = c THEN "done" ELSE handler[d]
    BY <1>2
  <2>4. /\ \A d \in Conns : gen'[d] = gen[d]
        /\ generation' = generation
    BY <1>2
  <2>5. \A d \in Conns : gen[d] = gen[c] => d = c
    BY <2>1
  <2>6. \A i \in DOMAIN closed' :
          /\ closed'[i] \in 1 .. generation'
          /\ \A d \in Conns : gen'[d] = closed'[i] => handler'[d] = "done"
    <3> SUFFICES ASSUME NEW i \in DOMAIN closed'
                 PROVE  /\ closed'[i] \in 1 .. generation
                        /\ \A d \in Conns : gen[d] = closed'[i] => handler'[d] = "done"
      BY <2>4
    <3>1. CASE i \in DOMAIN closed
      <4>1. /\ closed[i] \in 1 .. generation
            /\ \A d \in Conns : gen[d] = closed[i] => handler[d] = "done"
        BY <3>1
      <4> HIDE DEF Finish, FlowInv, WireType, GenInv, RelayInv, TypeInv
      <4>2. closed'[i] = closed[i]
        BY <2>2, <3>1
      <4>3. \A d \in Conns : handler[d] = "done" => handler'[d] = "done"
        BY <2>3
      <4> QED
        BY <4>1, <4>2, <4>3
    <3>2. CASE i \notin DOMAIN closed
      <4> HIDE DEF Finish, FlowInv, WireType, GenInv, RelayInv, TypeInv
      <4>1. closed'[i] = gen[c]
        BY <2>2, <3>2
      <4> QED
        BY <4>1, <2>1, <2>3, <2>5
    <3> QED
      BY <3>1, <3>2
  <2> QED
    BY <1>2, <2>3, <2>6
<1>3. CASE TakeClosed
  <2> USE DEF FlowInv, WireType, GenInv
  <2>1. \A i \in DOMAIN closed' :
          i + 1 \in DOMAIN closed /\ closed'[i] = closed[i + 1]
    BY <1>3 DEF TakeClosed, Take
  <2> QED
    BY <1>3, <2>1 DEF TakeClosed
<1> QED
  BY <1>1, <1>2, <1>3, GenMoves, GenKept DEF FlowInv

LEMMA FlowStep ==
  ASSUME RelayInv, FlowInv, RelayStep
  PROVE  FlowInv'
BY WireTypeStep, GenStep DEF FlowInv

-----------------------------------------------------------------------------
(* Where a command can be, from its client's request to its last reply     *)

LEMMA Shortened ==
  ASSUME NEW S, NEW q \in Seq(S), q # <<>>
  PROVE  /\ Tail(q) \in Seq(S) /\ Head(q) = q[1] /\ 1 \in DOMAIN q
         /\ \A i \in DOMAIN Tail(q) :
              /\ i \in Nat /\ i # 0
              /\ i + 1 \in DOMAIN q /\ Tail(q)[i] = q[i + 1]
OBVIOUS

LEMMA Lengthened ==
  ASSUME NEW S, NEW q \in Seq(S), NEW r \in Seq(S)
  PROVE  /\ q \o r \in Seq(S)
         /\ \A i \in DOMAIN (q \o r) :
              \/ i \in DOMAIN q /\ (q \o r)[i] = q[i]
              \/ /\ i \in Nat /\ i > Len(q)
                 /\ i - Len(q) \in DOMAIN r /\ (q \o r)[i] = r[i - Len(q)]
OBVIOUS

Requests ==
  (Old \cup Fresh \cup {"mux"})
    \X {"device", "time", "contacts", "battery", "virtual", "scope", "status",
        "default"}

PendingType == pending \in Seq(Requests)

\* The last answer to a command, where a fault or a check waits for it; what is
\* no frame in one direction is none in the other.
LastReply(cmd) ==
  CASE cmd = "time" -> "time_reply"
    [] cmd = "contacts" -> "end"
    [] cmd = Malformed -> Malformed
    [] OTHER -> "none"

Spots == {"pending", "up", "fwd", "down"} \X (Conns \cup {0}) \X Nat

\* The frame or request at a spot stands for the command.
At(cmd, s) ==
  \/ /\ s[1] = "pending"
     /\ s[2] = 0 /\ s[3] \in DOMAIN pending /\ pending[s[3]][2] = cmd
  \/ /\ s[2] \in Conns
     /\ \/ /\ s[1] = "up"
           /\ s[3] \in DOMAIN up[s[2]] /\ up[s[2]][s[3]] = cmd
        \/ /\ s[1] = "fwd"
           /\ s[3] \in DOMAIN fwd[s[2]] /\ fwd[s[2]][s[3]] = cmd
        \/ /\ s[1] = "down"
           /\ s[3] \in DOMAIN down[s[2]] /\ down[s[2]][s[3]] = LastReply(cmd)

Nowhere(cmd) == \A s \in Spots : ~ At(cmd, s)

AtMostOnce(cmd) == \A s, t \in Spots : At(cmd, s) /\ At(cmd, t) => s = t

\* What stands for the command after a step stood for it before, and no two
\* come from one.
Flows(cmd) ==
  \E from \in [Spots -> Spots] :
    /\ \A s \in Spots : At(cmd, s)' => At(cmd, from[s])
    /\ \A s, t \in Spots : At(cmd, s)' /\ At(cmd, t)' /\ from[s] = from[t] => s = t

LEMMA FlowsKeep ==
  ASSUME NEW cmd, Flows(cmd)
  PROVE  /\ Nowhere(cmd) => Nowhere(cmd)'
         /\ AtMostOnce(cmd) => AtMostOnce(cmd)'
<1>1. PICK from \in [Spots -> Spots] :
        /\ \A s \in Spots : At(cmd, s)' => At(cmd, from[s])
        /\ \A s, t \in Spots : At(cmd, s)' /\ At(cmd, t)' /\ from[s] = from[t] => s = t
  BY DEF Flows
<1>2. Nowhere(cmd) => Nowhere(cmd)'
  BY <1>1 DEF Nowhere
<1>3. AtMostOnce(cmd) => AtMostOnce(cmd)'
  BY <1>1 DEF AtMostOnce
<1> QED
  BY <1>2, <1>3

\* Where nothing moves on.
LEMMA FlowsInPlace ==
  ASSUME NEW cmd, \A s \in Spots : At(cmd, s)' => At(cmd, s)
  PROVE  Flows(cmd)
<1> DEFINE from == [s \in Spots |-> s]
<1>1. from \in [Spots -> Spots] /\ \A s \in Spots : from[s] = s
  OBVIOUS
<1> QED
  BY <1>1 DEF Flows

LEMMA IsSpot ==
  ASSUME NEW w \in {"pending", "up", "fwd", "down"}, NEW c \in Conns \cup {0},
         NEW i \in Nat
  PROVE  <<w, c, i>> \in Spots
BY DEF Spots

LEMMA SpotParts ==
  ASSUME NEW s \in Spots
  PROVE  /\ s = <<s[1], s[2], s[3]>> /\ s[3] \in Nat
         /\ s[1] \in {"pending", "up", "fwd", "down"} /\ s[2] \in Conns \cup {0}
BY DEF Spots

\* The first of one wire is taken off, and may be put at place n of another.
Passes(cmd, w, c, v, d, n) ==
  /\ \A i \in Nat : At(cmd, <<w, c, i>>)' => i # 0 /\ At(cmd, <<w, c, i + 1>>)
  /\ \A i \in Nat :
       At(cmd, <<v, d, i>>)' =>
         \/ i # n /\ At(cmd, <<v, d, i>>)
         \/ i = n /\ At(cmd, <<w, c, 1>>)
  /\ \A s \in Spots :
       At(cmd, s)' =>
         \/ s[1] = w /\ s[2] = c
         \/ s[1] = v /\ s[2] = d
         \/ At(cmd, s)

LEMMA FlowsOn ==
  ASSUME NEW cmd,
         NEW w \in {"pending", "up", "fwd", "down"}, NEW c \in Conns \cup {0},
         NEW v \in {"pending", "up", "fwd", "down"}, NEW d \in Conns \cup {0},
         NEW n \in Nat, v # w, Passes(cmd, w, c, v, d, n)
  PROVE  Flows(cmd)
<1> USE DEF Passes
<1> DEFINE from == [s \in Spots |->
             IF s[1] = w /\ s[2] = c THEN <<w, c, s[3] + 1>>
             ELSE IF s = <<v, d, n>> THEN <<w, c, 1>>
             ELSE s]
<1>1. from \in [Spots -> Spots]
  <2> SUFFICES ASSUME NEW s \in Spots
               PROVE  <<w, c, s[3] + 1>> \in Spots /\ <<w, c, 1>> \in Spots
    OBVIOUS
  <2> QED
    BY SpotParts, IsSpot
<1>2. \A s \in Spots : At(cmd, s)' => At(cmd, from[s])
  <2> SUFFICES ASSUME NEW s \in Spots, At(cmd, s)'
               PROVE  At(cmd, from[s])
    OBVIOUS
  <2>1. s = <<s[1], s[2], s[3]>> /\ s[3] \in Nat
    BY SpotParts
  <2>2. CASE s[1] = w /\ s[2] = c
    BY <2>1, <2>2
  <2>3. CASE s[1] = v /\ s[2] = d
    BY <2>1, <2>3
  <2> QED
    BY <2>1, <2>2, <2>3
<1>3. \A s, t \in Spots : At(cmd, s)' /\ At(cmd, t)' /\ from[s] = from[t] => s = t
  <2> SUFFICES ASSUME NEW s \in Spots, NEW t \in Spots,
                      At(cmd, s)', At(cmd, t)', from[s] = from[t]
               PROVE  s = t
    OBVIOUS
  <2>1. /\ s = <<s[1], s[2], s[3]>> /\ s[3] \in Nat
        /\ t = <<t[1], t[2], t[3]>> /\ t[3] \in Nat
    BY SpotParts
  <2>2. /\ s[1] = w /\ s[2] = c => s[3] # 0
        /\ t[1] = w /\ t[2] = c => t[3] # 0
    BY <2>1
  <2> QED
    BY <2>1, <2>2
<1> QED
  BY <1>1, <1>2, <1>3 DEF Flows

LEMMA SpotUnmoved ==
  ASSUME NEW cmd, NEW s \in Spots, At(cmd, s)',
         s[1] = "pending" => pending' = pending,
         s[1] = "up" /\ s[2] \in Conns => up'[s[2]] = up[s[2]],
         s[1] = "fwd" /\ s[2] \in Conns => fwd'[s[2]] = fwd[s[2]],
         s[1] = "down" /\ s[2] \in Conns => down'[s[2]] = down[s[2]]
  PROVE  At(cmd, s)
<1>1. CASE s[1] = "pending"
  BY <1>1 DEF At
<1>2. CASE s[1] = "up"
  BY <1>2 DEF At
<1>3. CASE s[1] = "fwd"
  BY <1>3 DEF At
<1>4. CASE s[1] = "down"
  BY <1>4 DEF At, LastReply, Malformed
<1> QED
  BY <1>1, <1>2, <1>3, <1>4, SpotParts

LEMMA PumpCommandFlows ==
  ASSUME FlowInv, NEW c \in Conns, PumpCommand(c), UNCHANGED pending, NEW cmd
  PROVE  Flows(cmd)
<1> USE DEF PumpCommand
<1>1. /\ up[c] \in Seq(Commands) /\ up[c] # <<>> /\ fwd[c] \in Seq(Commands)
      /\ Head(up[c]) \in Commands
  BY RelayAssumption DEF FlowInv, WireType, NextFrame
<1>2. /\ \A d \in Conns : d # c => up'[d] = up[d] /\ fwd'[d] = fwd[d]
      /\ up'[c] = Tail(up[c])
      /\ fwd'[c] \in {fwd[c], Append(fwd[c], Head(up[c]))}
      /\ UNCHANGED <<down, pending>>
  BY DEF FlowInv, WireType, Written
<1> HIDE DEF PumpCommand
<1>3. \A i \in DOMAIN up'[c] :
        i # 0 /\ i + 1 \in DOMAIN up[c] /\ up'[c][i] = up[c][i + 1]
  BY <1>1, <1>2, Shortened
<1>4. \A i \in DOMAIN fwd'[c] :
        \/ i \in DOMAIN fwd[c] /\ i # Len(fwd[c]) + 1 /\ fwd'[c][i] = fwd[c][i]
        \/ i = Len(fwd[c]) + 1 /\ fwd'[c][i] = up[c][1]
  <2>1. CASE fwd'[c] = fwd[c]
    BY <1>1, <2>1
  <2>2. CASE fwd'[c] = Append(fwd[c], Head(up[c]))
    BY <2>2, <1>1, Appended
  <2> QED
    BY <1>2, <2>1, <2>2
<1>5. 1 \in DOMAIN up[c] /\ Len(fwd[c]) + 1 \in Nat
  BY <1>1
<1>6. \A i \in Nat : At(cmd, <<"up", c, i>>)' => i # 0 /\ At(cmd, <<"up", c, i + 1>>)
  BY <1>3 DEF At
<1>7. \A i \in Nat :
        At(cmd, <<"fwd", c, i>>)' =>
          \/ i # Len(fwd[c]) + 1 /\ At(cmd, <<"fwd", c, i>>)
          \/ i = Len(fwd[c]) + 1 /\ At(cmd, <<"up", c, 1>>)
  BY <1>4, <1>5 DEF At
<1>8. \A s \in Spots :
        At(cmd, s)' =>
          \/ s[1] = "up" /\ s[2] = c
          \/ s[1] = "fwd" /\ s[2] = c
          \/ At(cmd, s)
  <2> SUFFICES ASSUME NEW s \in Spots, At(cmd, s)',
                      s[1] \in {"up", "fwd"} => s[2] # c
               PROVE  At(cmd, s)
    BY SpotParts
  <2>1. s[2] \in Conns /\ s[2] # c =>
          up'[s[2]] = up[s[2]] /\ fwd'[s[2]] = fwd[s[2]]
    BY <1>2
  <2>2. down' = down /\ pending' = pending
    BY <1>2
  <2> QED
    BY <2>1, <2>2, SpotUnmoved
<1>9. Passes(cmd, "up", c, "fwd", c, Len(fwd[c]) + 1)
  BY <1>6, <1>7, <1>8 DEF Passes
<1> QED
  BY <1>5, <1>9, FlowsOn

LEMMA PumpResponsePasses ==
  ASSUME FlowInv, NEW c \in Conns, PumpResponse(c), UNCHANGED pending, NEW cmd
  PROVE  Passes(cmd, "down", c, "fwd", c, 0)
<1>1. /\ down[c] \in Seq(Responses) /\ down[c] # <<>>
      /\ \A d \in Conns : d # c => down'[d] = down[d]
      /\ down'[c] = Tail(down[c])
      /\ up' = up /\ fwd' = fwd /\ pending' = pending
  BY RelayAssumption DEF FlowInv, WireType, NextFrame, PumpResponse
<1>2. \A i \in DOMAIN down'[c] :
        i # 0 /\ i + 1 \in DOMAIN down[c] /\ down'[c][i] = down[c][i + 1]
  BY <1>1, Shortened
<1>3. \A i \in Nat :
        At(cmd, <<"down", c, i>>)' => i # 0 /\ At(cmd, <<"down", c, i + 1>>)
  BY <1>2 DEF At, LastReply, Malformed
<1>4. \A i \in Nat :
        At(cmd, <<"fwd", c, i>>)' => i # 0 /\ At(cmd, <<"fwd", c, i>>)
  <2>1. fwd[c] \in Seq(Commands)
    BY DEF FlowInv, WireType
  <2> QED
    BY <1>1, <2>1 DEF At
<1>5. \A s \in Spots :
        At(cmd, s)' => (s[1] = "down" /\ s[2] = c) \/ At(cmd, s)
  <2> SUFFICES ASSUME NEW s \in Spots, At(cmd, s)',
                      s[1] = "down" => s[2] # c
               PROVE  At(cmd, s)
    OBVIOUS
  <2> QED
    BY <1>1, SpotUnmoved
<1> QED
  BY <1>3, <1>4, <1>5 DEF Passes

LEMMA PumpResponseFlows ==
  ASSUME FlowInv, NEW c \in Conns, PumpResponse(c), UNCHANGED pending, NEW cmd
  PROVE  Flows(cmd)
BY PumpResponsePasses, FlowsOn

LEMMA ReplyPumped ==
  ASSUME FlowInv, NEW c \in Conns, PumpResponse(c), UNCHANGED pending, NEW cmd,
         At(cmd, <<"down", c, 1>>), AtMostOnce(cmd)
  PROVE  Nowhere(cmd)'
<1>1. Passes(cmd, "down", c, "fwd", c, 0)
  BY PumpResponsePasses
<1>2. SUFFICES ASSUME NEW s \in Spots, At(cmd, s)'
               PROVE  FALSE
  BY DEF Nowhere
<1>3. <<"down", c, 1>> \in Spots
  BY IsSpot
<1>4. CASE s[1] = "down" /\ s[2] = c
  <2>1. s = <<"down", c, s[3]>> /\ s[3] \in Nat
    BY <1>4, SpotParts
  <2>2. s[3] # 0 /\ At(cmd, <<"down", c, s[3] + 1>>)
    BY <1>1, <1>2, <2>1 DEF Passes
  <2>3. <<"down", c, s[3] + 1>> \in Spots
    BY <2>1, IsSpot
  <2> QED
    BY <1>3, <2>1, <2>2, <2>3 DEF AtMostOnce
<1>5. CASE ~ (s[1] = "down" /\ s[2] = c)
  <2>1. At(cmd, s)
    <3>1. CASE s[1] = "fwd" /\ s[2] = c
      <4>1. fwd' = fwd
        BY DEF PumpResponse
      <4> QED
        BY <1>2, <3>1, <4>1, SpotUnmoved
    <3>2. CASE ~ (s[1] = "fwd" /\ s[2] = c)
      BY <1>1, <1>2, <1>5, <3>2 DEF Passes
    <3> QED
      BY <3>1, <3>2
  <2> QED
    BY <1>3, <1>5, <2>1 DEF AtMostOnce
<1> QED
  BY <1>4, <1>5

\* What the companion answers, as far as the scripts wait for it.
LEMMA AnswersEnd ==
  ASSUME NEW cmd, LastReply(cmd) # "none", NEW op,
         NEW k \in DOMAIN Answer(op), Answer(op)[k] = LastReply(cmd)
  PROVE  op = cmd /\ k = Len(Answer(op))
BY DEF Answer, LastReply, Malformed

LEMMA CompanionFlows ==
  ASSUME FlowInv, NEW c \in Conns, CompanionReads(c, Answer(NextFrame(fwd[c]))),
         UNCHANGED pending, NEW cmd
  PROVE  Flows(cmd)
<1> DEFINE answer == Answer(Head(fwd[c]))
           spot == IF answer = <<>> THEN 0 ELSE Len(down[c]) + Len(answer)
<1>1. /\ fwd[c] \in Seq(Commands) /\ fwd[c] # <<>> /\ down[c] \in Seq(Responses)
      /\ \A d \in Conns : d # c => fwd'[d] = fwd[d] /\ down'[d] = down[d]
      /\ fwd'[c] = Tail(fwd[c])
      /\ down'[c] \in {down[c], down[c] \o answer}
      /\ up' = up /\ pending' = pending
  BY DEF FlowInv, WireType, NextFrame, CompanionReads
<1>2. answer \in Seq(Responses)
  BY AnswersMade
<1>3. \A i \in DOMAIN fwd'[c] :
        i # 0 /\ i + 1 \in DOMAIN fwd[c] /\ fwd'[c][i] = fwd[c][i + 1]
  BY <1>1, Shortened
<1>4. 1 \in DOMAIN fwd[c] /\ Head(fwd[c]) = fwd[c][1]
  BY <1>1
<1>5. /\ spot \in Nat
      /\ \A i \in DOMAIN down[c] : i # spot /\ down[c][i] \in Responses
      /\ \A i \in DOMAIN answer : answer[i] \in Responses
  <2> HIDE DEF answer
  <2> QED
    BY <1>1, <1>2
<1>6. ASSUME NEW i \in DOMAIN down'[c], down'[c][i] = LastReply(cmd)
      PROVE  \/ i # spot /\ i \in DOMAIN down[c] /\ down[c][i] = LastReply(cmd)
             \/ i = spot /\ fwd[c][1] = cmd
  <2>1. CASE i \in DOMAIN down[c] /\ down'[c][i] = down[c][i]
    BY <1>5, <1>6, <2>1
  <2>2. CASE /\ i \in Nat /\ i > Len(down[c]) /\ i - Len(down[c]) \in DOMAIN answer
             /\ down'[c][i] = answer[i - Len(down[c])]
    <3>1. LastReply(cmd) # "none"
      BY <1>5, <1>6, <2>2, RelayAssumption
    <3>2. Head(fwd[c]) = cmd /\ i - Len(down[c]) = Len(answer)
      BY <1>6, <2>2, <3>1, AnswersEnd
    <3>3. i = spot
      <4> HIDE DEF answer
      <4>1. answer # <<>> /\ Len(answer) \in Nat /\ Len(down[c]) \in Nat
        BY <1>1, <1>2, <2>2
      <4> QED
        BY <2>2, <3>2, <4>1
    <3> QED
      BY <1>4, <3>2, <3>3
  <2> QED
    <3> HIDE DEF answer
    <3>1. CASE down'[c] = down[c]
      BY <2>1, <3>1
    <3>2. CASE down'[c] = down[c] \o answer
      BY <1>1, <1>2, <2>1, <2>2, <3>2, Lengthened
    <3> QED
      BY <1>1, <3>1, <3>2
<1> HIDE DEF answer, spot
<1>7. Passes(cmd, "fwd", c, "down", c, spot)
  <2>1. \A i \in Nat :
          At(cmd, <<"fwd", c, i>>)' => i # 0 /\ At(cmd, <<"fwd", c, i + 1>>)
    BY <1>3 DEF At
  <2>2. \A i \in Nat :
          At(cmd, <<"down", c, i>>)' =>
            \/ i # spot /\ At(cmd, <<"down", c, i>>)
            \/ i = spot /\ At(cmd, <<"fwd", c, 1>>)
    <3> SUFFICES ASSUME NEW i \in Nat, At(cmd, <<"down", c, i>>)'
                 PROVE  \/ i # spot /\ At(cmd, <<"down", c, i>>)
                        \/ i = spot /\ At(cmd, <<"fwd", c, 1>>)
      OBVIOUS
    <3>1. i \in DOMAIN down'[c] /\ down'[c][i] = LastReply(cmd)
      BY DEF At, LastReply, Malformed
    <3> QED
      BY <1>4, <1>6, <3>1 DEF At
  <2>3. \A s \in Spots :
          At(cmd, s)' =>
            \/ s[1] = "fwd" /\ s[2] = c
            \/ s[1] = "down" /\ s[2] = c
            \/ At(cmd, s)
    <3> SUFFICES ASSUME NEW s \in Spots, At(cmd, s)',
                        s[1] \in {"down", "fwd"} => s[2] # c
                 PROVE  At(cmd, s)
      OBVIOUS
    <3> QED
      BY <1>1, SpotUnmoved
  <2> QED
    BY <2>1, <2>2, <2>3 DEF Passes
<1> QED
  BY <1>5, <1>7, FlowsOn

LEMMA DispatchFlows ==
  ASSUME FlowInv, Linkage, PendingType, MuxDispatch, NEW cmd
  PROVE  Flows(cmd)
<1>1. PICK c \in Conns : c = link
  BY DEF MuxDispatch, Linkage
<1>2. /\ pending # <<>> /\ up[c] \in Seq(Commands)
      /\ up'[c] = Append(up[c], Head(pending)[2])
      /\ Head(pending)[2] \in Commands
      /\ \A d \in Conns : d # c => up'[d] = up[d]
      /\ fwd' = fwd /\ down' = down /\ pending' = Tail(pending)
  BY <1>1 DEF MuxDispatch, MuxSends, FlowInv, WireType
<1>3. \A i \in DOMAIN pending' :
        i # 0 /\ i + 1 \in DOMAIN pending /\ pending'[i] = pending[i + 1]
  BY <1>2, Shortened DEF PendingType
<1>4. 1 \in DOMAIN pending /\ Head(pending) = pending[1]
  BY <1>2, Shortened DEF PendingType
<1>5. /\ Len(up[c]) + 1 \in Nat
      /\ \A i \in DOMAIN up'[c] :
           \/ /\ i \in DOMAIN up[c] /\ i # Len(up[c]) + 1
              /\ up'[c][i] = up[c][i]
           \/ i = Len(up[c]) + 1 /\ up'[c][i] = pending[1][2]
  BY <1>2, <1>4, Appended
<1>6. Passes(cmd, "pending", 0, "up", c, Len(up[c]) + 1)
  <2>1. \A i \in Nat :
          At(cmd, <<"pending", 0, i>>)' => i # 0 /\ At(cmd, <<"pending", 0, i + 1>>)
    BY <1>3 DEF At
  <2>2. \A i \in Nat :
          At(cmd, <<"up", c, i>>)' =>
            \/ i # Len(up[c]) + 1 /\ At(cmd, <<"up", c, i>>)
            \/ i = Len(up[c]) + 1 /\ At(cmd, <<"pending", 0, 1>>)
    <3> SUFFICES ASSUME NEW i \in Nat, At(cmd, <<"up", c, i>>)'
                 PROVE  \/ i # Len(up[c]) + 1 /\ At(cmd, <<"up", c, i>>)
                        \/ /\ i = Len(up[c]) + 1
                           /\ At(cmd, <<"pending", 0, 1>>)
      OBVIOUS
    <3>1. i \in DOMAIN up'[c] /\ up'[c][i] = cmd
      BY DEF At
    <3> QED
      BY <1>2, <1>4, <1>5, <3>1 DEF At
  <2>3. \A s \in Spots :
          At(cmd, s)' =>
            \/ s[1] = "pending" /\ s[2] = 0
            \/ s[1] = "up" /\ s[2] = c
            \/ At(cmd, s)
    <3> SUFFICES ASSUME NEW s \in Spots, At(cmd, s)',
                        s[1] = "pending" => s[2] # 0,
                        s[1] = "up" => s[2] # c
                 PROVE  At(cmd, s)
      OBVIOUS
    <3>1. s[1] # "pending"
      BY DEF At
    <3> QED
      BY <1>2, <3>1, SpotUnmoved
  <2> QED
    BY <2>1, <2>2, <2>3 DEF Passes
<1> QED
  BY <1>2, <1>5, <1>6, FlowsOn

\* Requests that are answered or given up without being sent.
LEMMA AnsweredFlows ==
  ASSUME PendingType, UNCHANGED <<up, fwd, down>>, NEW cmd,
         pending' = <<>> \/ (pending # <<>> /\ pending' = Tail(pending))
  PROVE  Flows(cmd)
<1>1. \A i \in DOMAIN pending' :
        i # 0 /\ i + 1 \in DOMAIN pending /\ pending'[i] = pending[i + 1]
  BY Shortened DEF PendingType
<1>2. Passes(cmd, "pending", 0, "up", 0, 0)
  <2>1. \A i \in Nat :
          At(cmd, <<"pending", 0, i>>)' => i # 0 /\ At(cmd, <<"pending", 0, i + 1>>)
    BY <1>1 DEF At
  <2>2. \A i \in Nat : ~ At(cmd, <<"up", 0, i>>)'
    BY DEF At, Conns
  <2>3. \A s \in Spots :
          At(cmd, s)' => (s[1] = "pending" /\ s[2] = 0) \/ At(cmd, s)
    <3> SUFFICES ASSUME NEW s \in Spots, At(cmd, s)', s[1] = "pending" => s[2] # 0
                 PROVE  At(cmd, s)
      OBVIOUS
    <3>1. s[1] # "pending"
      BY DEF At
    <3> QED
      BY <3>1, SpotUnmoved
  <2> QED
    BY <2>1, <2>2, <2>3 DEF Passes
<1> QED
  BY <1>2, FlowsOn

\* A frame of another command is sent.
LEMMA SentFlows ==
  ASSUME FlowInv, NEW c \in Conns, NEW op \in Commands, MuxSends(c, op),
         UNCHANGED pending, NEW cmd, op # cmd
  PROVE  Flows(cmd)
<1>1. /\ up[c] \in Seq(Commands) /\ up'[c] = Append(up[c], op)
      /\ \A d \in Conns : d # c => up'[d] = up[d]
      /\ fwd' = fwd /\ down' = down /\ pending' = pending
  BY DEF MuxSends, FlowInv, WireType
<1>2. \A i \in DOMAIN up'[c] :
        \/ i \in DOMAIN up[c] /\ up'[c][i] = up[c][i]
        \/ up'[c][i] = op
  BY <1>1, Appended
<1>3. ASSUME NEW s \in Spots, At(cmd, s)' PROVE At(cmd, s)
  <2>1. CASE s[1] = "up" /\ s[2] = c
    BY <1>2, <1>3, <2>1 DEF At
  <2>2. CASE s[1] = "up" => s[2] # c
    BY <1>1, <1>3, <2>2, SpotUnmoved
  <2> QED
    BY <2>1, <2>2
<1> QED
  BY <1>3, FlowsInPlace

\* Other requests are made.
LEMMA AskedFlows ==
  ASSUME PendingType, UNCHANGED <<up, fwd, down>>, NEW cmd,
         NEW asked \in Seq(Requests), pending' = pending \o asked,
         \A i \in DOMAIN asked : asked[i][2] # cmd
  PROVE  Flows(cmd)
<1>1. \A i \in DOMAIN pending' :
        \/ i \in DOMAIN pending /\ pending'[i] = pending[i]
        \/ pending'[i][2] # cmd
  BY Lengthened DEF PendingType
<1>2. ASSUME NEW s \in Spots, At(cmd, s)' PROVE At(cmd, s)
  <2>1. CASE s[1] = "pending"
    BY <1>1, <1>2, <2>1 DEF At
  <2>2. CASE s[1] # "pending"
    BY <1>2, <2>2, SpotUnmoved
  <2> QED
    BY <2>1, <2>2
<1> QED
  BY <1>2, FlowsInPlace

LEMMA UnmovedFlows ==
  ASSUME UNCHANGED <<up, fwd, down, pending>>, NEW cmd
  PROVE  Flows(cmd)
BY SpotUnmoved, FlowsInPlace

\* Every step but those of the scripts before their cleanup, and but the
\* commands that an unruly multiplexer makes up.
Unscripted ==
  \/ \E c \in Conns : CopyTask(c)
  \/ CloseTurn \/ CompanionTurn
  \/ MuxTurn \/ CleanupTurn
  \/ UNCHANGED checkVars

LEMMA UnscriptedFlows ==
  ASSUME FlowInv, Linkage, PendingType, Unscripted, NEW cmd, cmd # "start",
         cmd \in Watched /\ InScope => ~ SendUnasked
  PROVE  Flows(cmd)
<1> USE DEF handlerVars, socketVars, wireVars, faultVars, closeVars, muxVars,
            relayVars
<1>1. ASSUME NEW c \in Conns, CopyTask(c) PROVE Flows(cmd)
  <2>1. CASE PumpCommand(c)
    BY <1>1, <2>1, PumpCommandFlows DEF CopyTask, HandlerTask
  <2>2. CASE PumpResponse(c)
    BY <1>1, <2>2, PumpResponseFlows DEF CopyTask, HandlerTask
  <2>3. CASE AcquireLock(c) \/ OpenPhysical(c) \/ PumpsEnd(c) \/ Finish(c)
               \/ OpenFails(c)
    <3>1. UNCHANGED <<up, fwd, down, pending>>
      BY <1>1, <2>3
      DEF CopyTask, HandlerTask, AcquireLock, OpenPhysical, PumpsEnd, Finish,
          OpenFails
    <3> QED
      BY <3>1, UnmovedFlows
  <2> QED
    BY <1>1, <2>1, <2>2, <2>3 DEF CopyTask, HandlerTask, HandlerStep
<1>2. CASE CloseTurn \/ UNCHANGED checkVars
  <2>1. UNCHANGED <<up, fwd, down, pending>>
    BY <1>2 DEF CloseTurn, CloseTask, CancelTasks, Joined, checkVars,
       reconnectVars
  <2> QED
    BY <2>1, UnmovedFlows
<1>3. CASE CompanionTurn
  <2>1. PICK c \in Conns :
          \/ CompanionReads(c, Answer(NextFrame(fwd[c]))) \/ CompanionCloses(c)
    BY <1>3 DEF CompanionTurn, CompanionStep
  <2>2. CASE CompanionReads(c, Answer(NextFrame(fwd[c])))
    BY <1>3, <2>2, CompanionFlows DEF CompanionTurn, CompanionStep
  <2>3. CASE CompanionCloses(c)
    <3>1. UNCHANGED <<up, fwd, down, pending>>
      BY <1>3, <2>3 DEF CompanionTurn, CompanionStep, CompanionCloses
    <3> QED
      BY <3>1, UnmovedFlows
  <2> QED
    BY <2>1, <2>2, <2>3
<1>4. CASE MuxTurn
  <2>1. CASE MuxConnect
    <3>1. UNCHANGED <<up, fwd, down, pending>>
      BY <2>1 DEF MuxConnect, MuxConnects
    <3> QED
      BY <3>1, UnmovedFlows
  <2>2. CASE MuxReceive
    <3>1. UNCHANGED <<up, fwd, down, pending>>
      BY <2>2 DEF MuxReceive, MuxReads
    <3> QED
      BY <3>1, UnmovedFlows
  <2>3. CASE MuxStart
    <3>1. PICK c \in Conns : c = link
      BY <2>3 DEF MuxStart, Linkage
    <3>2. MuxSends(c, "start") /\ "start" \in Commands /\ UNCHANGED pending
      BY <2>3, <3>1, LiveReconnectAssumption DEF MuxStart
    <3> QED
      BY <3>2, SentFlows
  <2>4. CASE MuxDispatch
    BY <2>4, DispatchFlows
  <2>5. CASE MuxGivesUp \/ MuxExits
    <3>1. UNCHANGED <<up, fwd, down>> /\ pending' = <<>>
      BY <2>5 DEF MuxGivesUp, MuxExits, MuxCloses, EpochEnds
    <3> QED
      BY <3>1, AnsweredFlows
  <2>6. CASE AnswerLocally
    <3>1. UNCHANGED <<up, fwd, down>> /\ pending # <<>> /\ pending' = Tail(pending)
      BY <2>6 DEF AnswerLocally
    <3> QED
      BY <3>1, AnsweredFlows
  <2>7. CASE InScope /\ SendUnasked
    <3>1. PICK c \in Conns : c = link
      BY <2>7 DEF SendUnasked, Linkage
    <3>2. PICK op \in Watched : MuxSends(c, op)
      BY <2>7, <3>1 DEF SendUnasked
    <3>3. op \in Commands /\ op # cmd
      BY <2>7, LiveReconnectAssumption, LiveScopeAssumption DEF Watched
    <3>4. UNCHANGED pending
      BY <2>7 DEF SendUnasked
    <3> QED
      BY <3>2, <3>3, <3>4, SentFlows
  <2> QED
    BY <1>4, <2>1, <2>2, <2>3, <2>4, <2>5, <2>6, <2>7 DEF MuxTurn, MuxStep
<1>5. CASE CleanupTurn
  <2>1. CASE Kill
    <3>1. UNCHANGED <<up, fwd, down>> /\ pending' = <<>>
      BY <2>1 DEF Kill, MuxCloses, EpochEnds
    <3> QED
      BY <3>1, AnsweredFlows
  <2>2. CASE DisconnectClients \/ Reaped \/ CloseRelay \/ Ended
    <3>1. UNCHANGED <<up, fwd, down, pending>>
      BY <2>2 DEF DisconnectClients, Reaped, CloseRelay, CloseServer, Ended
    <3> QED
      BY <3>1, UnmovedFlows
  <2> QED
    BY <1>5, <2>1, <2>2 DEF CleanupTurn, CleanupStep
<1> QED
  BY <1>1, <1>2, <1>3, <1>4, <1>5 DEF Unscripted

\* The scripts' own requests.
Asks(ops) ==
  \E asked \in Seq(Requests) :
    /\ pending' = pending \o asked
    /\ \A i \in DOMAIN asked : asked[i][2] \in ops

LEMMA AsksFlows ==
  ASSUME PendingType, UNCHANGED <<up, fwd, down>>, NEW ops, Asks(ops),
         NEW cmd, cmd \notin ops
  PROVE  Flows(cmd)
<1>1. PICK asked \in Seq(Requests) :
        /\ pending' = pending \o asked
        /\ \A i \in DOMAIN asked : asked[i][2] \in ops
  BY DEF Asks
<1>2. \A i \in DOMAIN asked : asked[i][2] # cmd
  BY <1>1
<1> QED
  BY <1>1, <1>2, AskedFlows

LEMMA RequestMade ==
  ASSUME NEW c \in Old \cup Fresh,
         NEW op \in {"device", "time", "contacts", "battery", "virtual"}
  PROVE  /\ Request(c, op) \in Seq(Requests)
         /\ \A i \in DOMAIN Request(c, op) : Request(c, op)[i][2] \in {op}
<1>1. <<c, op>> \in Requests
  BY DEF Requests
<1> QED
  BY <1>1 DEF Request

LEMMA AskOne ==
  ASSUME NEW c \in Old \cup Fresh,
         NEW op \in {"device", "time", "contacts", "battery", "virtual"},
         NEW askers, Ask(Request(c, op), askers)
  PROVE  Asks({op})
<1> DEFINE asked == Request(c, op)
<1>1. asked \in Seq(Requests) /\ \A i \in DOMAIN asked : asked[i][2] \in {op}
  BY RequestMade
<1>2. pending' = pending \o asked
  BY DEF Ask
<1> HIDE DEF asked
<1> QED
  BY <1>1, <1>2 DEF Asks

LEMMA AskTwo ==
  ASSUME NEW c \in Old \cup Fresh, NEW d \in Old \cup Fresh, NEW askers,
         Ask(Request(c, "device") \o Request(d, "device"), askers)
  PROVE  Asks({"device"})
<1> DEFINE q == Request(c, "device")
           r == Request(d, "device")
<1>1. q \in Seq(Requests) /\ \A i \in DOMAIN q : q[i][2] \in {"device"}
  BY RequestMade
<1>2. r \in Seq(Requests) /\ \A i \in DOMAIN r : r[i][2] \in {"device"}
  BY RequestMade
<1>3. pending' = pending \o (q \o r)
  BY DEF Ask
<1> HIDE DEF q, r
<1>4. q \o r \in Seq(Requests) /\ \A i \in DOMAIN (q \o r) : (q \o r)[i][2] \in {"device"}
  BY <1>1, <1>2, Lengthened
<1> QED
  BY <1>3, <1>4 DEF Asks

LEMMA AskNone ==
  ASSUME PendingType, UNCHANGED pending, NEW ops
  PROVE  Asks(ops)
<1>1. <<>> \in Seq(Requests) /\ pending' = pending \o <<>>
  BY DEF PendingType
<1>2. \A i \in DOMAIN <<>> : <<>>[i][2] \in ops
  OBVIOUS
<1> QED
  BY <1>1, <1>2 DEF Asks

LEMMA AsksType ==
  ASSUME PendingType, NEW ops, Asks(ops)
  PROVE  PendingType'
BY DEF PendingType, Asks

LEMMA ReconnectAsks ==
  ASSUME PendingType, ScriptStep
  PROVE  \/ HoldReply /\ Asks({"time"})
         \/ PauseStream /\ Asks({"contacts"})
         \/ FaultReached /\ Asks({"battery"})
         \/ ~ HoldReply /\ ~ PauseStream /\ ~ FaultReached /\ Asks({"device"})
<1> USE DEF Old, Fresh, muxVars
<1>1. CASE HoldReply
  BY <1>1, AskOne DEF HoldReply
<1>2. CASE PauseStream
  BY <1>2, AskOne DEF PauseStream
<1>3. CASE FaultReached
  BY <1>3, AskOne DEF FaultReached
<1>4. ASSUME NEW c \in Old \cup Fresh, NEW d \in Old \cup Fresh, NEW from, NEW to,
             QueryPair(c, d, from, to)
      PROVE  Asks({"device"})
  BY <1>4, AskTwo DEF QueryPair
<1>5. ASSUME NEW x, NEW y, NEW from, NEW to,
             \/ ExpectGeneration(x, from, to) \/ ExpectReady(x, from, to)
             \/ ConnectPair(x, from, to) \/ PairAnswered(x, y, from, to)
             \/ Spawn \/ DropGeneration \/ DropObserved \/ OldDisconnected
             \/ OldClosed \/ ClearFaults \/ SuccessorNotSent \/ Succeed \/ Raise
      PROVE  Asks({"device"})
  <2>1. UNCHANGED pending
    BY <1>5
    DEF ExpectGeneration, ExpectReady, ConnectPair, PairAnswered, Spawn,
        DropGeneration, DropObserved, OldDisconnected, OldClosed, ClearFaults,
        SuccessorNotSent, Succeed, Raise
  <2> QED
    BY <2>1, AskNone
<1> QED
  BY <1>1, <1>2, <1>3, <1>4, <1>5 DEF ScriptStep

\* Before a scope is selected, the script of the scope check asks for contacts
\* only.
LEMMA ScopeAsks ==
  ASSUME PendingType, ScopeScript
  PROVE  /\ Asks(Watched \cup {"contacts", "virtual"})
         /\ ~ Recording' => Asks({"contacts"})
<1> USE DEF Old, muxVars
<1>1. CASE AskContacts
  <2>1. Asks({"contacts"})
    BY <1>1, AskOne DEF AskContacts
  <2> QED
    BY <2>1 DEF Asks
<1>2. CASE SelectScope \/ StatusAccepted \/ ResetScope
  <2>1. Asks({"virtual"}) \/ Asks({"time"})
    BY <1>2, AskOne DEF SelectScope, StatusAccepted, ResetScope
  <2>2. Asks(Watched \cup {"contacts", "virtual"})
    BY <2>1 DEF Asks, Watched
  <2>3. Recording'
    BY <1>2 DEF SelectScope, StatusAccepted, ResetScope, Goto, Recording
  <2> QED
    BY <2>2, <2>3
<1>3. CASE SendStatus
  <2>1. /\ Scoped \in Seq(Requests)
        /\ \A i \in DOMAIN Scoped : Scoped[i][2] \in Watched \cup {"contacts", "virtual"}
    BY DEF Scoped, Requests, Watched
  <2>2. pending' = pending \o Scoped
    BY <1>3 DEF SendStatus
  <2>3. Recording'
    BY <1>3 DEF SendStatus, Goto, Recording
  <2> QED
    BY <2>1, <2>2, <2>3 DEF Asks
<1>4. ASSUME NEW x, NEW y, NEW from, NEW to,
             \/ ExpectGeneration(x, from, to) \/ ConnectPair(x, from, to)
             \/ Spawn \/ AwaitReady \/ StatusRejected \/ ClockRead
             \/ CompareOrder \/ ScopeRaise
      PROVE  \A ops : Asks(ops)
  <2>1. UNCHANGED pending
    BY <1>4
    DEF ExpectGeneration, ConnectPair, Spawn, AwaitReady, StatusRejected,
        ClockRead, CompareOrder, ScopeRaise, Raise
  <2> QED
    BY <2>1, AskNone
<1> QED
  BY <1>1, <1>2, <1>3, <1>4 DEF ScopeScript, ScopeSetup

LEMMA PendingStep ==
  ASSUME PendingType, [CheckNext]_checkVars
  PROVE  PendingType'
<1>1. CASE ScriptTurn
  BY <1>1, ReconnectAsks, ScopeAsks, AsksType DEF ScriptTurn
<1>2. CASE UNCHANGED pending
  BY <1>2 DEF PendingType
<1>3. CASE pending' = <<>> \/ (pending # <<>> /\ pending' = Tail(pending))
  <2>1. <<>> \in Seq(Requests)
    OBVIOUS
  <2> QED
    BY <1>3, <2>1, Shortened DEF PendingType
<1>4. CASE \/ \E c \in Conns : CopyTask(c)
           \/ CloseTurn \/ CompanionTurn \/ UNCHANGED checkVars
  BY <1>2, <1>4
  DEF CopyTask, HandlerTask, CloseTurn, CloseTask, CompanionTurn, CompanionStep,
      checkVars, reconnectVars, muxVars
<1>5. CASE MuxTurn
  BY <1>2, <1>3, <1>5
  DEF MuxTurn, MuxStep, MuxConnect, MuxStart, MuxDispatch, MuxReceive,
      MuxGivesUp, MuxExits, EpochEnds, AnswerLocally, SendUnasked, muxVars
<1>6. CASE CleanupTurn
  BY <1>2, <1>3, <1>6
  DEF CleanupTurn, CleanupStep, DisconnectClients, Reaped, Kill, EpochEnds,
      CloseRelay, Ended, muxVars
<1> QED
  BY <1>1, <1>4, <1>5, <1>6 DEF CheckNext

-----------------------------------------------------------------------------
(* A fault that the script provokes                                        *)

FaultScenario == scenario \in {"single-timeout", "contacts-timeout"}

Before ==
  {"spawn", "generation_1", "ready_1", "connect_1", "query_1", "answered_1",
   "fault"}
AfterCheck ==
  {"generation_2", "ready_2", "connect_2", "query_2", "answered_2"}
AfterClosed == AfterCheck \cup {"reset", "successor"}

\* The handler of the first generation has ended.
FirstOver ==
  generation # 0 /\ \A c \in Conns : gen[c] = 1 => handler[c] = "done"

Battery == <<1, "battery">>

\* What the companion executes in the first generation was counted; once that
\* generation is over, and the script has found nothing counted, nothing is.
CountInv ==
  /\ Battery \in executed => 1 \in Conns /\ frame_counts[Battery] # 0
  /\ \A c \in Conns :
       gen[c] = 1 /\ (\E i \in DOMAIN fwd[c] : fwd[c][i] = "battery") =>
         frame_counts[Battery] # 0
  /\ FaultScenario /\ (pc \in AfterClosed \/ verdict = "ok") => FirstOver
  /\ FaultScenario /\ (pc \in AfterCheck \/ verdict = "ok") /\ 1 \in Conns =>
       frame_counts[Battery] = 0

VerdictInv ==
  /\ verdict \in {"none", "ok", "failed"}
  /\ scenario \in ScenarioNames \cup {"test", "unscoped"}
  /\ verdict = "none" <=> pc \notin Cleanup
  /\ FaultScenario =>
       pc \in Before \cup {"await_fault", "disconnected", "closed"}
                \cup AfterClosed \cup Cleanup

\* The scope check sends no successor.
ScopeQuiet == InScope => executed = {} /\ Nowhere("battery")

LEMMA FirstOverKept ==
  ASSUME RelayInv, FlowInv, RelayStep, FirstOver
  PROVE  FirstOver'
<1> USE DEF FirstOver, RelayInv, TypeInv, FlowInv, WireType
<1>1. ASSUME NEW c \in Conns, OpenPhysical(c) PROVE FirstOver'
  <2>1. /\ gen' = [gen EXCEPT ![c] = generation + 1] /\ generation' = generation + 1
        /\ handler' = [handler EXCEPT ![c] = "pump"]
    BY <1>1 DEF OpenPhysical
  <2>2. generation + 1 # 1 /\ generation' # 0
    BY <2>1
  <2> QED
    BY <2>1, <2>2
<1>2. ASSUME NEW c \in Conns, Finish(c) PROVE FirstOver'
  BY <1>2 DEF Finish
<1>3. CASE GenStill
  BY <1>3 DEF GenStill
<1>4. CASE TakeClosed
  BY <1>4 DEF TakeClosed
<1> QED
  BY <1>1, <1>2, <1>3, <1>4, GenMoves

\* All that a step does to where the script is.
PcStep ==
  /\ scenario' = scenario /\ conduct' = conduct
  /\ \/ UNCHANGED <<pc, verdict>>
     \/ pc \notin Cleanup /\ pc' = "finally" /\ verdict' = "failed"
     \/ pc \in Cleanup /\ pc' \in Cleanup /\ verdict' = verdict
     \/ /\ pc \notin Cleanup /\ pc' = "finally" /\ verdict' = "ok"
        /\ FaultScenario => pc = "answered_2"
     \/ /\ pc \notin Cleanup /\ pc' \notin Cleanup /\ verdict' = verdict
        /\ FaultScenario =>
             \/ pc \in Before /\ pc' \in Before
             \/ pc = "fault" /\ pc' = "await_fault" /\ (HoldReply \/ PauseStream)
             \/ pc = "await_fault" /\ pc' = "disconnected" /\ FaultReached
             \/ pc = "disconnected" /\ pc' = "closed"
             \/ pc = "closed" /\ pc' = "reset" /\ OldClosed
             \/ pc = "reset" /\ pc' = "successor"
             \/ pc = "successor" /\ pc' = "generation_2" /\ SuccessorNotSent
             \/ pc \in AfterCheck /\ pc' \in AfterCheck

LEMMA PcSteps ==
  ASSUME VerdictInv, [CheckNext]_checkVars
  PROVE  PcStep
<1> USE DEF PcStep, Cleanup, Goto, muxVars, scriptVars
<1>1. CASE ScriptTurn /\ ~ InScope
  <2> USE DEF FaultScenario, Before, AfterCheck
  <2>1. ASSUME NEW g, NEW x, NEW y,
               \/ ExpectGeneration(g, "generation_1", "ready_1")
               \/ ExpectReady(g, "ready_1", "connect_1")
               \/ ConnectPair(x, "connect_1", "query_1")
               \/ QueryPair(x, y, "query_1", "answered_1")
               \/ PairAnswered(x, y, "answered_1", "fault")
               \/ Spawn
        PROVE  PcStep
    BY <2>1 DEF ExpectGeneration, ExpectReady, ConnectPair, QueryPair,
       PairAnswered, Spawn
  <2>2. ASSUME NEW g, NEW x, NEW y,
               \/ ExpectGeneration(g, "generation_2", "ready_2")
               \/ ExpectReady(g, "ready_2", "connect_2")
               \/ ConnectPair(x, "connect_2", "query_2")
               \/ QueryPair(x, y, "query_2", "answered_2")
               \/ Succeed
        PROVE  PcStep
    BY <2>2 DEF ExpectGeneration, ExpectReady, ConnectPair, QueryPair, Succeed
  <2>3. CASE HoldReply
    BY <2>3 DEF HoldReply
  <2>4. CASE PauseStream
    BY <2>4 DEF PauseStream
  <2>5. CASE FaultReached
    BY <2>5 DEF FaultReached
  <2>6. CASE DropGeneration \/ DropObserved
    BY <2>6 DEF DropGeneration, DropObserved, VerdictInv, AfterClosed
  <2>7. CASE OldClosed
    BY <2>7 DEF OldClosed
  <2>8. CASE SuccessorNotSent
    BY <2>8 DEF SuccessorNotSent
  <2>9. CASE OldDisconnected \/ ClearFaults \/ Raise
    BY <2>9 DEF OldDisconnected, ClearFaults, Raise
  <2> QED
    BY <1>1, <2>1, <2>2, <2>3, <2>4, <2>5, <2>6, <2>7, <2>8, <2>9
    DEF ScriptTurn, ScriptStep
<1>2. CASE ScriptTurn /\ InScope
  <2> ~ FaultScenario
    BY <1>2 DEF FaultScenario, InScope
  <2>1. ASSUME NEW g, NEW x,
               \/ ExpectGeneration(g, "generation_1", "ready_1")
               \/ ConnectPair(x, "connect_1", "contacts")
               \/ Spawn \/ AwaitReady \/ AskContacts \/ SelectScope
        PROVE  PcStep
    BY <2>1 DEF ExpectGeneration, ConnectPair, Spawn, AwaitReady, AskContacts,
       SelectScope
  <2>2. CASE \/ SendStatus \/ StatusAccepted \/ StatusRejected \/ ClockRead
             \/ ResetScope \/ CompareOrder \/ ScopeRaise
    BY <2>2 DEF SendStatus, StatusAccepted, StatusRejected, ClockRead,
       ResetScope, CompareOrder, ScopeRaise, Raise
  <2> QED
    BY <1>2, <2>1, <2>2 DEF ScriptTurn, ScopeScript, ScopeSetup
<1>3. CASE CleanupTurn
  BY <1>3 DEF CleanupTurn, CleanupStep, DisconnectClients, Reaped, Kill,
     CloseRelay, Ended
<1>4. CASE MuxTurn
  BY <1>4 DEF MuxTurn, MuxStep, MuxConnect, MuxStart, MuxDispatch, MuxReceive,
     MuxGivesUp, MuxExits, AnswerLocally, SendUnasked
<1>5. CASE \/ \E c \in Conns : CopyTask(c)
           \/ CloseTurn \/ CompanionTurn \/ UNCHANGED checkVars
  BY <1>5 DEF CopyTask, HandlerTask, CloseTurn, CloseTask, CompanionTurn,
     CompanionStep, checkVars, reconnectVars
<1> QED
  BY <1>1, <1>2, <1>3, <1>4, <1>5 DEF CheckNext

LEMMA VerdictStep ==
  ASSUME VerdictInv, [CheckNext]_checkVars
  PROVE  VerdictInv'
<1>1. PcStep
  BY PcSteps
<1>2. CASE UNCHANGED <<pc, verdict>>
  BY <1>1, <1>2 DEF PcStep, VerdictInv, FaultScenario
<1>3. CASE pc' \in Cleanup
  BY <1>1, <1>3 DEF PcStep, VerdictInv, FaultScenario, Cleanup
<1>4. CASE pc' \notin Cleanup /\ pc \notin Cleanup
  BY <1>1, <1>4
  DEF PcStep, VerdictInv, FaultScenario, Before, AfterCheck, AfterClosed, Cleanup
<1> QED
  BY <1>1, <1>2, <1>3, <1>4 DEF PcStep

\* The scripts do not touch the wires.
LEMMA ScriptLeavesWires ==
  ASSUME ScriptTurn
  PROVE  UNCHANGED <<up, fwd, down, ret, gen, frame_counts, executed, got>>
<1> USE DEF handlerVars, socketVars, wireVars, faultVars, closeVars, relayVars,
            otherVars
<1>1. ASSUME NEW g, NEW x, NEW y, NEW from, NEW to,
             \/ ExpectGeneration(g, from, to) \/ ExpectReady(g, from, to)
             \/ ConnectPair(x, from, to) \/ QueryPair(x, y, from, to)
             \/ PairAnswered(x, y, from, to)
      PROVE  UNCHANGED <<up, fwd, down, ret, gen, frame_counts, executed, got>>
  BY <1>1 DEF ExpectGeneration, ExpectReady, ConnectPair, QueryPair,
     PairAnswered, TakeConnection
<1>2. CASE \/ Spawn \/ DropGeneration \/ DropObserved \/ HoldReply \/ PauseStream
           \/ FaultReached \/ OldDisconnected
  BY <1>2 DEF Spawn, DropGeneration, DropObserved, HoldReply, PauseStream,
     FaultReached, OldDisconnected, Drop, TakeClosed, TakeFault,
     HoldNextResponse, PauseAfterResponse
<1>3. CASE \/ OldClosed \/ ClearFaults \/ SuccessorNotSent \/ Succeed \/ Raise
  BY <1>3 DEF OldClosed, ClearFaults, SuccessorNotSent, Succeed, Raise,
     TakeClosed, ResetFaults
<1>4. CASE \/ AwaitReady \/ AskContacts \/ SelectScope \/ SendStatus
           \/ StatusAccepted \/ StatusRejected \/ ClockRead \/ ResetScope
           \/ CompareOrder \/ ScopeRaise
  BY <1>4 DEF AwaitReady, AskContacts, SelectScope, SendStatus, StatusAccepted,
     StatusRejected, ClockRead, ResetScope, CompareOrder, ScopeRaise, Raise
<1> QED
  BY <1>1, <1>2, <1>3, <1>4 DEF ScriptTurn, ScriptStep, ScopeScript, ScopeSetup

\* Only the companion executes.
LEMMA Executes ==
  ASSUME FlowInv, [CheckNext]_checkVars
  PROVE  \/ UNCHANGED executed
         \/ \E c \in Conns :
              /\ CompanionReads(c, Answer(NextFrame(fwd[c])))
              /\ fwd[c] # <<>> /\ fwd[c] \in Seq(Commands)
              /\ executed' = executed \cup
                   {<<gen[c], op>> : op \in {Head(fwd[c])} \cap Successor}
<1>1. CASE CompanionTurn
  BY <1>1 DEF CompanionTurn, CompanionStep, CompanionReads, FlowInv, WireType
<1>2. CASE \/ \E c \in Conns : CopyTask(c)
           \/ CloseTurn \/ UNCHANGED checkVars
  BY <1>2 DEF CopyTask, HandlerTask, CloseTurn, CloseTask, checkVars,
     reconnectVars, otherVars
<1>3. CASE MuxTurn
  BY <1>3 DEF MuxTurn, MuxStep, MuxConnect, MuxStart, MuxDispatch, MuxReceive,
     MuxGivesUp, MuxExits, AnswerLocally, SendUnasked, otherVars
<1>4. CASE CleanupTurn
  BY <1>4 DEF CleanupTurn, CleanupStep, DisconnectClients, Reaped, Kill,
     CloseRelay, Ended, otherVars
<1>5. CASE ScriptTurn
  BY <1>5, ScriptLeavesWires
<1> QED
  BY <1>1, <1>2, <1>3, <1>4, <1>5 DEF CheckNext

LEMMA ScopeQuietStep ==
  ASSUME FlowInv, Linkage, PendingType, VerdictInv, ScopeQuiet,
         [CheckNext]_checkVars
  PROVE  ScopeQuiet'
<1> SUFFICES ASSUME InScope, executed = {}, Nowhere("battery")
             PROVE  executed' = {} /\ Nowhere("battery")'
  BY PcSteps DEF ScopeQuiet, InScope, PcStep
<1>1. executed' = {}
  <2>1. ASSUME NEW c \in Conns, fwd[c] # <<>>, fwd[c] \in Seq(Commands)
        PROVE  Head(fwd[c]) # "battery"
    <3>1. 1 \in DOMAIN fwd[c] /\ Head(fwd[c]) = fwd[c][1]
      BY <2>1
    <3>2. <<"fwd", c, 1>> \in Spots
      BY IsSpot
    <3> QED
      BY <3>1, <3>2 DEF Nowhere, At
  <2> QED
    BY <2>1, Executes DEF Successor
<1>2. Nowhere("battery")'
  <2>1. CASE Unscripted
    BY <2>1, UnscriptedFlows, FlowsKeep, "battery" # "start",
       "battery" \notin Watched DEF Watched
  <2>2. CASE ScriptTurn
    <3>1. Asks(Watched \cup {"contacts", "virtual"})
      BY <2>2, ScopeAsks DEF ScriptTurn
    <3>2. UNCHANGED <<up, fwd, down>>
      BY <2>2, ScriptLeavesWires
    <3> QED
      BY <3>1, <3>2, AsksFlows, FlowsKeep DEF Watched
  <2> QED
    BY <2>1, <2>2 DEF CheckNext, Unscripted
<1> QED
  BY <1>1, <1>2

LEMMA FirstConn ==
  ASSUME NEW c \in Conns
  PROVE  1 \in Conns
BY RelayAssumption DEF Conns

\* What a step does to the count of the successor in the first generation.
LEMMA BatteryCount ==
  ASSUME FlowInv, RelayStep, 1 \in Conns
  PROVE  /\ frame_counts[Battery] \in Nat /\ frame_counts'[Battery] \in Nat
         /\ frame_counts'[Battery] >= frame_counts[Battery]
         /\ FirstOver => frame_counts'[Battery] = frame_counts[Battery]
<1> USE DEF handlerVars, socketVars, wireVars, faultVars, closeVars
<1>1. Battery \in Conns \X Queried
  BY LiveReconnectAssumption DEF Battery
<1>2. frame_counts \in [Conns \X Queried -> Nat]
  BY DEF FlowInv, WireType
<1>3. ASSUME NEW c \in Conns, NEW op, frame_counts' = Counted(c, op),
             handler[c] = "pump"
      PROVE  /\ frame_counts'[Battery] \in Nat
             /\ frame_counts'[Battery] >= frame_counts[Battery]
             /\ FirstOver => frame_counts'[Battery] = frame_counts[Battery]
  <2>1. frame_counts'[Battery] =
          IF Battery = <<gen[c], op>> THEN frame_counts[Battery] + 1
                                      ELSE frame_counts[Battery]
    BY <1>1, <1>2, <1>3 DEF Counted
  <2>2. FirstOver => Battery # <<gen[c], op>>
    BY <1>3 DEF FirstOver, Battery
  <2> QED
    BY <1>1, <1>2, <2>1, <2>2
<1>4. ASSUME NEW c \in Conns, PumpCommand(c) \/ PumpResponse(c)
      PROVE  /\ frame_counts'[Battery] \in Nat
             /\ frame_counts'[Battery] >= frame_counts[Battery]
             /\ FirstOver => frame_counts'[Battery] = frame_counts[Battery]
  BY <1>3, <1>4 DEF PumpCommand, PumpResponse
<1>5. CASE UNCHANGED frame_counts
  BY <1>1, <1>2, <1>5
<1>6. ASSUME NEW c \in Conns, NEW op \in Commands, NEW answer,
             \/ AcquireLock(c) \/ OpenPhysical(c) \/ PumpsEnd(c) \/ Finish(c)
             \/ OpenFails(c) \/ MuxConnects(c) \/ MuxSends(c, op) \/ MuxReads(c)
             \/ MuxCloses(c) \/ CompanionCloses(c) \/ CompanionReads(c, answer)
      PROVE  UNCHANGED frame_counts
  BY <1>6 DEF AcquireLock, OpenPhysical, PumpsEnd, Finish, OpenFails,
     MuxConnects, MuxSends, MuxReads, MuxCloses, CompanionCloses, CompanionReads
<1>7. ASSUME NEW op,
             \/ HoldNextResponse(1, op) \/ PauseAfterResponse(1, op)
             \/ ResetFaults \/ TakeConnection \/ TakeClosed \/ TakeFault
             \/ Drop(1) \/ CancelTasks \/ Joined \/ CloseServer
             \/ UNCHANGED relayVars
      PROVE  UNCHANGED frame_counts
  BY <1>7 DEF HoldNextResponse, PauseAfterResponse, ResetFaults, TakeConnection,
     TakeClosed, TakeFault, Drop, CancelTasks, Joined, CloseServer, relayVars
<1>8. (\E c \in Conns : PumpCommand(c) \/ PumpResponse(c)) \/ UNCHANGED frame_counts
  BY <1>6, <1>7, LiveReconnectAssumption DEF RelayStep, HandlerStep
<1> QED
  BY <1>1, <1>2, <1>4, <1>5, <1>8

\* What reaches the companion in a generation is counted there.
LEMMA ForwardedCounted ==
  ASSUME RelayInv, FlowInv, RelayStep, NEW c \in Conns, gen'[c] = 1,
         NEW i \in DOMAIN fwd'[c], fwd'[c][i] = "battery"
  PROVE  \/ gen[c] = 1 /\ \E j \in DOMAIN fwd[c] : fwd[c][j] = "battery"
         \/ frame_counts'[Battery] # 0
<1> USE DEF handlerVars, socketVars, wireVars, faultVars, closeVars
<1>1. CASE PumpCommand(c)
  <2>1. /\ up[c] # <<>> /\ gen' = gen /\ frame_counts' = Counted(c, Head(up[c]))
        /\ fwd'[c] \in {fwd[c], Append(fwd[c], Head(up[c]))}
        /\ fwd[c] \in Seq(Commands) /\ Head(up[c]) \in Commands
    <3>1. up[c] \in Seq(Commands) /\ up[c] # <<>>
      BY <1>1, RelayAssumption DEF PumpCommand, NextFrame, FlowInv, WireType
    <3> QED
      BY <1>1, <3>1 DEF PumpCommand, FlowInv, WireType, Written
  <2>2. CASE fwd'[c] = fwd[c]
    BY <2>1, <2>2
  <2>3. CASE fwd'[c] = Append(fwd[c], Head(up[c])) /\ i \in DOMAIN fwd[c]
    BY <2>1, <2>3, Appended
  <2>4. CASE fwd'[c] = Append(fwd[c], Head(up[c])) /\ i \notin DOMAIN fwd[c]
    <3>1. Head(up[c]) = "battery"
      BY <2>1, <2>4, Appended
    <3>2. Battery \in Conns \X Queried /\ frame_counts \in [Conns \X Queried -> Nat]
      BY FirstConn, LiveReconnectAssumption DEF Battery, FlowInv, WireType
    <3>3. Battery = <<gen[c], Head(up[c])>>
      BY <2>1, <3>1 DEF Battery
    <3> QED
      BY <2>1, <3>2, <3>3 DEF Counted
  <2> QED
    BY <2>1, <2>2, <2>3, <2>4
<1>2. CASE fwd'[c] = fwd[c] /\ gen'[c] = gen[c]
  BY <1>2
<1>3. CASE OpenPhysical(c)
  <2>1. fwd'[c] = <<>>
    BY <1>3 DEF OpenPhysical, FlowInv, GenInv
  <2> QED
    BY <2>1
<1>4. ASSUME NEW d \in Conns, NEW answer, CompanionReads(d, answer)
      PROVE  gen[c] = 1 /\ \E j \in DOMAIN fwd[c] : fwd[c][j] = "battery"
  <2>1. /\ gen' = gen /\ fwd[c] \in Seq(Commands)
        /\ fwd'[c] = fwd[c] \/ (fwd[c] # <<>> /\ fwd'[c] = Tail(fwd[c]))
    BY <1>4 DEF CompanionReads, FlowInv, WireType
  <2>2. CASE fwd[c] # <<>> /\ fwd'[c] = Tail(fwd[c])
    BY <2>1, <2>2, Shortened
  <2> QED
    BY <2>1, <2>2
<1>5. ASSUME NEW d \in Conns, d # c, OpenPhysical(d) \/ PumpCommand(d)
      PROVE  fwd'[c] = fwd[c] /\ gen'[c] = gen[c]
  BY <1>5 DEF OpenPhysical, PumpCommand, FlowInv, WireType
<1>6. ASSUME NEW d \in Conns, NEW op \in Commands,
             \/ AcquireLock(d) \/ PumpsEnd(d) \/ Finish(d)
             \/ OpenFails(d) \/ MuxConnects(d) \/ MuxSends(d, op) \/ MuxReads(d)
             \/ MuxCloses(d) \/ CompanionCloses(d) \/ PumpResponse(d)
      PROVE  UNCHANGED <<fwd, gen>>
  BY <1>6 DEF AcquireLock, PumpsEnd, Finish, OpenFails, MuxConnects, MuxSends,
     MuxReads, MuxCloses, CompanionCloses, PumpResponse
<1>7. ASSUME NEW op,
             \/ HoldNextResponse(1, op) \/ PauseAfterResponse(1, op)
             \/ ResetFaults \/ TakeConnection \/ TakeClosed \/ TakeFault
             \/ Drop(1) \/ CancelTasks \/ Joined \/ CloseServer
             \/ UNCHANGED relayVars
      PROVE  UNCHANGED <<fwd, gen>>
  BY <1>7 DEF HoldNextResponse, PauseAfterResponse, ResetFaults, TakeConnection,
     TakeClosed, TakeFault, Drop, CancelTasks, Joined, CloseServer, relayVars
<1> QED
  BY <1>1, <1>2, <1>3, <1>4, <1>5, <1>6, <1>7, LiveReconnectAssumption
  DEF RelayStep, HandlerStep

LEMMA CountStep ==
  ASSUME RelayInv, Linkage, FlowInv, VerdictInv, CountInv, [CheckNext]_checkVars
  PROVE  CountInv'
<1>1. RelayStep /\ PcStep
  BY CheckSteps, PcSteps
<1>2. (Battery \in executed)' => (1 \in Conns /\ frame_counts[Battery] # 0)'
  <2> SUFFICES ASSUME Battery \in executed'
               PROVE  1 \in Conns /\ frame_counts'[Battery] # 0
    BY DEF Battery, Conns
  <2>1. 1 \in Conns /\ frame_counts[Battery] # 0
    <3>1. CASE UNCHANGED executed
      BY <3>1 DEF CountInv
    <3>2. ASSUME NEW c \in Conns, fwd[c] # <<>>, fwd[c] \in Seq(Commands),
                 executed' = executed \cup
                   {<<gen[c], op>> : op \in {Head(fwd[c])} \cap Successor},
                 Battery \notin executed
          PROVE  1 \in Conns /\ frame_counts[Battery] # 0
      <4>1. gen[c] = 1 /\ Head(fwd[c]) = "battery"
        BY <3>2 DEF Battery
      <4>2. 1 \in DOMAIN fwd[c] /\ fwd[c][1] = "battery"
        BY <3>2, <4>1
      <4> QED
        BY <4>1, <4>2, FirstConn DEF CountInv
    <3> QED
      BY <3>1, <3>2, Executes DEF CountInv
  <2> QED
    BY <1>1, <2>1, BatteryCount
<1>3. ASSUME NEW c \in Conns, gen'[c] = 1,
             NEW i \in DOMAIN fwd'[c], fwd'[c][i] = "battery"
      PROVE  frame_counts'[Battery] # 0
  <2>1. 1 \in Conns
    BY FirstConn
  <2>2. frame_counts[Battery] # 0 \/ frame_counts'[Battery] # 0
    BY <1>1, <1>3, ForwardedCounted DEF CountInv
  <2> QED
    BY <1>1, <2>1, <2>2, BatteryCount
<1>4. ASSUME FaultScenario', (pc \in AfterClosed \/ verdict = "ok")'
      PROVE  FirstOver'
  <2>1. CASE OldClosed
    <3>1. closed \in Seq(Nat) /\ closed # <<>> /\ Head(closed) = 1
      BY <2>1 DEF OldClosed, TakeClosed, Take, FlowInv, WireType
    <3>2. 1 \in DOMAIN closed /\ closed[1] = 1
      BY <3>1
    <3>3. FirstOver
      BY <3>2 DEF FlowInv, GenInv, FirstOver, RelayInv, TypeInv
    <3> QED
      BY <1>1, <3>3, FirstOverKept
  <2>2. CASE ~ OldClosed
    <3>1. FaultScenario /\ (pc \in AfterClosed \/ verdict = "ok")
      BY <1>1, <1>4, <2>2
      DEF PcStep, FaultScenario, AfterClosed, AfterCheck, Before, VerdictInv,
          Cleanup
    <3> QED
      BY <1>1, <3>1, FirstOverKept DEF CountInv
  <2> QED
    BY <2>1, <2>2
<1>5. ASSUME FaultScenario', (pc \in AfterCheck \/ verdict = "ok")', 1 \in Conns
      PROVE  frame_counts'[Battery] = 0
  <2>1. /\ FaultScenario
        /\ pc \in AfterCheck \/ verdict = "ok" \/ (pc = "successor" /\ SuccessorNotSent)
    BY <1>1, <1>5
    DEF PcStep, FaultScenario, AfterCheck, Before, VerdictInv, Cleanup
  <2>2. FirstOver /\ frame_counts[Battery] = 0
    BY <1>5, <2>1 DEF CountInv, AfterClosed, SuccessorNotSent, count_frames, Battery
  <2> QED
    BY <1>1, <1>5, <2>2, BatteryCount
<1> QED
  BY <1>2, <1>3, <1>4, <1>5 DEF CountInv, Conns, Battery

-----------------------------------------------------------------------------
(* The reply that a fault point withholds                                  *)

NoneReturned(op) ==
  /\ <<1, op>> \notin got
  /\ \A c \in Conns : gen[c] = 1 => \A i \in DOMAIN ret[c] : ret[c][i] # op

faultPoints == <<hold_response, pause_after, responses_paused, fault_reached>>

Disarmed ==
  hold_response = NoFault /\ pause_after = NoFault /\ ~ responses_paused

\* The clock query is somewhere until the reply has reached the fault point,
\* and nowhere from then on.
TimeInv ==
  scenario = "single-timeout" /\ verdict # "failed" =>
    /\ NoneReturned("time_reply")
    /\ pause_after = NoFault /\ ~ responses_paused
    /\ pc \in Before =>
         Nowhere("time") /\ hold_response = NoFault /\ fault_reached = <<>>
    /\ pc = "await_fault" =>
         \/ /\ AtMostOnce("time")
            /\ hold_response = <<1, "time_reply">> /\ fault_reached = <<>>
         \/ Nowhere("time") /\ fault_reached # <<>>
    /\ pc \notin Before \cup {"await_fault"} => Nowhere("time")

\* An end of contacts comes after the contact at which the responses pause.
Ahead(q) ==
  \A i \in DOMAIN q :
    q[i] = "end" => \E j \in DOMAIN q : j < i /\ q[j] = "contact"

ContactsInv ==
  scenario = "contacts-timeout" /\ verdict # "failed" =>
    /\ NoneReturned("end")
    /\ pc \in Before => Nowhere("contacts") /\ Disarmed /\ fault_reached = <<>>
    /\ pc = "await_fault" =>
         \/ responses_paused
         \/ /\ hold_response = NoFault /\ pause_after = <<1, "contact">>
            /\ fault_reached = <<>>
            /\ \A c \in Conns : gen[c] = 1 => Ahead(down[c])
    /\ pc \in {"disconnected", "closed"} => responses_paused

\* The steps that something depends on which is under way to the multiplexer.
LEMMA UnscriptedMoves ==
  ASSUME Unscripted
  PROVE  \/ \E c \in Conns : CopyTask(c) /\ PumpResponse(c)
         \/ \E c \in Conns : CopyTask(c) /\ OpenPhysical(c)
         \/ \E c \in Conns : /\ CompanionTurn
                             /\ CompanionReads(c, Answer(NextFrame(fwd[c])))
         \/ MuxReceive
         \/ UNCHANGED <<down, ret, gen, got, faultPoints>>
<1> USE DEF handlerVars, socketVars, wireVars, faultVars, closeVars, relayVars,
            otherVars, faultPoints
<1>1. ASSUME NEW c \in Conns, CopyTask(c),
             \/ AcquireLock(c) \/ PumpsEnd(c) \/ Finish(c) \/ PumpCommand(c)
             \/ OpenFails(c)
      PROVE  UNCHANGED <<down, ret, gen, got, faultPoints>>
  BY <1>1 DEF CopyTask, HandlerTask, AcquireLock, PumpsEnd, Finish, PumpCommand,
     OpenFails
<1>2. CASE CloseTurn \/ UNCHANGED checkVars
  BY <1>2 DEF CloseTurn, CloseTask, CancelTasks, Joined, checkVars,
     reconnectVars
<1>3. ASSUME NEW c \in Conns, CompanionTurn, CompanionCloses(c)
      PROVE  UNCHANGED <<down, ret, gen, got, faultPoints>>
  BY <1>3 DEF CompanionTurn, CompanionStep, CompanionCloses
<1>4. CASE MuxTurn /\ ~ MuxReceive
  BY <1>4 DEF MuxTurn, MuxStep, MuxConnect, MuxStart, MuxDispatch, MuxGivesUp,
     MuxExits, AnswerLocally, SendUnasked, MuxConnects, MuxSends, MuxCloses
<1>5. CASE CleanupTurn
  BY <1>5 DEF CleanupTurn, CleanupStep, DisconnectClients, Reaped, Kill,
     CloseRelay, Ended, MuxCloses, CloseServer
<1> QED
  BY <1>1, <1>2, <1>3, <1>4, <1>5
  DEF Unscripted, CopyTask, HandlerTask, HandlerStep, CompanionTurn,
      CompanionStep

\* What is done to a response that is copied.
LEMMA Pumped ==
  ASSUME FlowInv, NEW c \in Conns, CopyTask(c), PumpResponse(c)
  PROVE  /\ handler[c] = "pump" /\ gen' = gen /\ got' = got
         /\ UNCHANGED pending
         /\ down[c] \in Seq(Responses) /\ down[c] # <<>>
         /\ Head(down[c]) \in Responses
         /\ down' = [down EXCEPT ![c] = Tail(down[c])]
         /\ Withhold(<<gen[c], Head(down[c])>>)
         /\ \A d \in Conns :
              \/ ret'[d] = ret[d]
              \/ /\ d = c /\ ~ Withheld(<<gen[c], Head(down[c])>>)
                 /\ ret[d] \in Seq(Responses)
                 /\ ret'[d] = Append(ret[d], Head(down[c]))
<1>1. down[c] \in Seq(Responses) /\ down[c] # <<>>
  BY RelayAssumption DEF FlowInv, WireType, NextFrame, PumpResponse
<1>2. Head(down[c]) \in Responses
  BY <1>1
<1> QED
  BY <1>1, <1>2
  DEF CopyTask, HandlerTask, muxVars, otherVars, PumpResponse, handlerVars,
      FlowInv, WireType, Written

LEMMA ReturnedStep ==
  ASSUME FlowInv, Linkage, Unscripted, NEW op, NoneReturned(op),
         \A c \in Conns :
           CopyTask(c) /\ PumpResponse(c) /\ gen[c] = 1 =>
             Head(down[c]) # op \/ Withheld(<<1, op>>)
  PROVE  NoneReturned(op)'
<1>1. ASSUME NEW c \in Conns, CopyTask(c), PumpResponse(c)
      PROVE  NoneReturned(op)'
  <2>1. ASSUME NEW d \in Conns, gen[d] = 1, NEW i \in DOMAIN ret'[d]
        PROVE  ret'[d][i] # op
    <3>1. CASE ret'[d] = ret[d]
      BY <2>1, <3>1 DEF NoneReturned
    <3>2. CASE /\ d = c /\ ~ Withheld(<<gen[c], Head(down[c])>>)
               /\ ret[d] \in Seq(Responses) /\ Head(down[c]) \in Responses
               /\ ret'[d] = Append(ret[d], Head(down[c]))
      <4>1. Head(down[c]) # op
        BY <1>1, <2>1, <3>2
      <4> QED
        BY <2>1, <3>2, <4>1, Appended DEF NoneReturned
    <3> QED
      BY <1>1, <3>1, <3>2, Pumped
  <2> QED
    BY <1>1, <2>1, Pumped DEF NoneReturned
<1>2. ASSUME NEW c \in Conns, CopyTask(c), OpenPhysical(c)
      PROVE  NoneReturned(op)'
  <2>1. ret[c] = <<>> /\ UNCHANGED <<ret, got>>
        /\ \A d \in Conns : d # c => gen'[d] = gen[d]
    BY <1>2 DEF CopyTask, HandlerTask, otherVars, OpenPhysical, wireVars,
       FlowInv, WireType, GenInv
  <2> QED
    BY <2>1 DEF NoneReturned
<1>3. ASSUME NEW c \in Conns, CompanionTurn,
             CompanionReads(c, Answer(NextFrame(fwd[c])))
      PROVE  NoneReturned(op)'
  BY <1>3 DEF CompanionTurn, CompanionStep, CompanionReads, handlerVars,
     NoneReturned
<1>4. CASE MuxReceive
  <2>1. /\ link \in Conns /\ ret[link] # <<>> /\ ret[link] \in Seq(Responses)
        /\ ret' = [ret EXCEPT ![link] = Tail(ret[link])]
        /\ gen' = gen
        /\ got' = got \cup {<<gen[link], r>> : r \in {Head(ret[link])} \cap HeldReplies}
    BY <1>4 DEF MuxReceive, MuxReads, Linkage, handlerVars, FlowInv, WireType
  <2>2. gen[link] = 1 => Head(ret[link]) # op
    BY <2>1, Shortened DEF NoneReturned
  <2>3. <<1, op>> \notin got'
    BY <2>1, <2>2 DEF NoneReturned
  <2>4. ASSUME NEW d \in Conns, gen[d] = 1, NEW i \in DOMAIN ret'[d]
        PROVE  ret'[d][i] # op
    <3>1. CASE d = link
      <4>1. ret'[d] = Tail(ret[d]) /\ ret[d] # <<>> /\ ret[d] \in Seq(Responses)
        BY <2>1, <3>1 DEF FlowInv, WireType
      <4> QED
        BY <2>4, <4>1, Shortened DEF NoneReturned
    <3>2. CASE d # link
      BY <2>1, <2>4, <3>2 DEF NoneReturned
    <3> QED
      BY <3>1, <3>2
  <2> QED
    BY <2>1, <2>3, <2>4 DEF NoneReturned
<1>5. CASE UNCHANGED <<down, ret, gen, got, faultPoints>>
  BY <1>5 DEF NoneReturned
<1> QED
  BY <1>1, <1>2, <1>3, <1>4, <1>5, UnscriptedMoves

\* What the scripts do to the fault points.
LEMMA ScriptArms ==
  ASSUME ScriptTurn
  PROVE  \/ UNCHANGED faultPoints
         \/ HoldReply \/ PauseStream \/ FaultReached
         \/ pc = "reset" /\ pc' = "successor" /\ ResetFaults
<1> USE DEF faultPoints, handlerVars, socketVars, wireVars, faultVars,
            closeVars, relayVars
<1>1. ASSUME NEW g, NEW x, NEW y, NEW from, NEW to,
             \/ ExpectGeneration(g, from, to) \/ ExpectReady(g, from, to)
             \/ ConnectPair(x, from, to) \/ QueryPair(x, y, from, to)
             \/ PairAnswered(x, y, from, to)
      PROVE  UNCHANGED faultPoints
  BY <1>1 DEF ExpectGeneration, ExpectReady, ConnectPair, QueryPair,
     PairAnswered, TakeConnection
<1>2. CASE \/ Spawn \/ DropGeneration \/ DropObserved \/ OldDisconnected
           \/ OldClosed \/ SuccessorNotSent \/ Succeed \/ Raise
  BY <1>2 DEF Spawn, DropGeneration, DropObserved, OldDisconnected, OldClosed,
     SuccessorNotSent, Succeed, Raise, Drop, TakeClosed
<1>3. CASE ClearFaults
  BY <1>3 DEF ClearFaults, Goto
<1>4. CASE \/ AwaitReady \/ AskContacts \/ SelectScope \/ SendStatus
           \/ StatusAccepted \/ StatusRejected \/ ClockRead \/ ResetScope
           \/ CompareOrder \/ ScopeRaise
  BY <1>4 DEF AwaitReady, AskContacts, SelectScope, SendStatus, StatusAccepted,
     StatusRejected, ClockRead, ResetScope, CompareOrder, ScopeRaise, Raise
<1> QED
  BY <1>1, <1>2, <1>3, <1>4 DEF ScriptTurn, ScriptStep, ScopeScript, ScopeSetup

\* The command that is waited for has its reply at the end of the wire.
LEMMA ReplyThere ==
  ASSUME NEW cmd \in {"time", "contacts"}, NEW c \in Conns,
         down[c] # <<>>, down[c] \in Seq(Responses),
         Head(down[c]) = LastReply(cmd)
  PROVE  At(cmd, <<"down", c, 1>>) /\ ~ Nowhere(cmd)
<1>1. 1 \in DOMAIN down[c] /\ down[c][1] = LastReply(cmd)
  OBVIOUS
<1>2. <<"down", c, 1>> \in Spots
  BY IsSpot
<1> QED
  BY <1>1, <1>2 DEF At, Nowhere

\* A command that is nowhere is asked for.
LEMMA AskedOnce ==
  ASSUME FlowInv, PendingType, UNCHANGED <<up, fwd, down>>,
         NEW c \in Old, NEW op \in {"time", "contacts"}, NEW askers,
         Nowhere(op), Ask(Request(c, op), askers)
  PROVE  AtMostOnce(op)'
<1>1. pending' = pending \o Request(c, op) /\ pending \in Seq(Requests)
  BY DEF Ask, PendingType
<1>2. \A i \in DOMAIN pending' : i \in DOMAIN pending \/ i = Len(pending) + 1
  BY <1>1 DEF Request
<1>3. ASSUME NEW s \in Spots, At(op, s)'
      PROVE  s = <<"pending", 0, Len(pending) + 1>>
  <2>1. CASE s[1] # "pending"
    BY <1>3, <2>1, SpotUnmoved DEF Nowhere
  <2>2. CASE s[1] = "pending" /\ s[3] \in DOMAIN pending
    <3>1. pending'[s[3]] = pending[s[3]]
      BY <1>1, <2>2, Lengthened, RequestMade DEF Old
    <3> QED
      BY <1>3, <2>2, <3>1 DEF Nowhere, At
  <2>3. CASE s[1] = "pending" /\ s[3] \notin DOMAIN pending
    <3>1. s[2] = 0 /\ s[3] = Len(pending) + 1
      BY <1>2, <1>3, <2>3 DEF At
    <3> QED
      BY <2>3, <3>1, SpotParts
  <2> QED
    BY <2>1, <2>2, <2>3
<1> QED
  BY <1>3 DEF AtMostOnce

LEMMA UnscriptedPc ==
  ASSUME Unscripted
  PROVE  /\ UNCHANGED <<scenario, verdict>>
         /\ pc' = pc \/ (pc \in Cleanup /\ pc' \in Cleanup)
<1> USE DEF Cleanup, Goto, muxVars, scriptVars
<1>1. CASE CleanupTurn
  BY <1>1 DEF CleanupTurn, CleanupStep, DisconnectClients, Reaped, Kill,
     CloseRelay, Ended
<1>2. CASE MuxTurn
  BY <1>2 DEF MuxTurn, MuxStep, MuxConnect, MuxStart, MuxDispatch, MuxReceive,
     MuxGivesUp, MuxExits, AnswerLocally, SendUnasked
<1>3. CASE \/ \E c \in Conns : CopyTask(c)
           \/ CloseTurn \/ CompanionTurn \/ UNCHANGED checkVars
  BY <1>3 DEF CopyTask, HandlerTask, CloseTurn, CloseTask, CompanionTurn,
     CompanionStep, checkVars, reconnectVars
<1> QED
  BY <1>1, <1>2, <1>3 DEF Unscripted

\* A reply that is copied while the query is somewhere, at the fault point.
LEMMA TimeHeld ==
  ASSUME FlowInv, NEW c \in Conns, CopyTask(c), PumpResponse(c),
         AtMostOnce("time"), AtMostOnce("time")',
         hold_response = <<1, "time_reply">>, fault_reached = <<>>,
         pause_after = NoFault, ~ responses_paused
  PROVE  /\ \/ /\ AtMostOnce("time")'
               /\ hold_response' = <<1, "time_reply">> /\ fault_reached' = <<>>
            \/ Nowhere("time")' /\ fault_reached' # <<>>
         /\ pause_after' = NoFault /\ ~ responses_paused'
<1> DEFINE frame == <<gen[c], Head(down[c])>>
<1>1. /\ Withhold(frame) /\ frame # NoFault /\ UNCHANGED pending
      /\ down[c] \in Seq(Responses) /\ down[c] # <<>>
  BY Pumped, RelayAssumption DEF NoFault
<1>2. pause_after' = NoFault /\ ~ responses_paused'
  BY <1>1 DEF Withhold
<1>3. CASE frame = <<1, "time_reply">>
  <2>1. Head(down[c]) = LastReply("time")
    BY <1>3 DEF LastReply, Malformed
  <2>2. At("time", <<"down", c, 1>>)
    BY <1>1, <2>1, ReplyThere
  <2>3. Nowhere("time")'
    BY <1>1, <2>2, ReplyPumped
  <2>4. fault_reached' = Append(<<>>, frame)
    BY <1>1, <1>3 DEF Withhold
  <2>5. fault_reached' # <<>>
    BY <2>4
  <2> QED
    BY <1>2, <2>3, <2>5
<1>4. CASE frame # <<1, "time_reply">>
  <2>1. hold_response' = hold_response /\ fault_reached' = fault_reached
    BY <1>1, <1>4 DEF Withhold
  <2> QED
    BY <1>2, <2>1
<1> QED
  BY <1>3, <1>4

LEMMA TimeUnscripted ==
  ASSUME FlowInv, Linkage, PendingType, TimeInv, Unscripted,
         scenario = "single-timeout", verdict # "failed"
  PROVE  TimeInv'
<1>1. /\ UNCHANGED <<scenario, verdict>>
      /\ pc' = pc \/ (pc \in Cleanup /\ pc' \in Cleanup)
  BY UnscriptedPc
<1>2. Flows("time")
  <2>1. ~ InScope
    BY DEF InScope
  <2> QED
    BY <2>1, UnscriptedFlows
<1>3. /\ Nowhere("time") => Nowhere("time")'
      /\ AtMostOnce("time") => AtMostOnce("time")'
  BY <1>2, FlowsKeep
<1>4. ASSUME NEW c \in Conns, CopyTask(c), PumpResponse(c)
      PROVE  /\ gen[c] = 1 => Head(down[c]) # "time_reply" \/ Withheld(<<1, "time_reply">>)
             /\ pause_after' = NoFault /\ ~ responses_paused'
             /\ pc \in Before => hold_response' = NoFault /\ fault_reached' = <<>>
             /\ pc = "await_fault" =>
                  \/ /\ AtMostOnce("time")'
                     /\ hold_response' = <<1, "time_reply">> /\ fault_reached' = <<>>
                  \/ Nowhere("time")' /\ fault_reached' # <<>>
  <2> DEFINE frame == <<gen[c], Head(down[c])>>
  <2>1. /\ Withhold(frame) /\ frame # NoFault
        /\ down[c] \in Seq(Responses) /\ down[c] # <<>>
    BY <1>4, Pumped, RelayAssumption DEF NoFault
  <2>2. pause_after = NoFault /\ ~ responses_paused
    BY DEF TimeInv
  <2>3. Nowhere("time") => Head(down[c]) # "time_reply"
    BY <2>1, ReplyThere DEF LastReply, Malformed
  <2>4. Nowhere("time") \/ hold_response = <<1, "time_reply">>
    BY DEF TimeInv
  <2>5. pause_after' = NoFault /\ ~ responses_paused'
    BY <2>1, <2>2 DEF Withhold
  <2>6. pc \in Before => hold_response' = NoFault /\ fault_reached' = <<>>
    BY <2>1, <2>2 DEF Withhold, TimeInv
  <2>7. CASE pc = "await_fault" /\ Nowhere("time") /\ fault_reached # <<>>
    <3>1. fault_reached' # <<>>
      <4>1. fault_reached' \in {fault_reached, Append(fault_reached, frame)}
        BY <2>1 DEF Withhold
      <4>2. fault_reached \in Seq(Nat \X Responses) /\ frame \in Nat \X Responses
        BY <1>4, Pumped DEF FlowInv, WireType
      <4> HIDE DEF frame
      <4> QED
        BY <2>7, <4>1, <4>2
    <3> QED
      BY <1>3, <2>2, <2>3, <2>5, <2>7, <3>1 DEF Before
  <2>8. CASE /\ pc = "await_fault" /\ AtMostOnce("time")
             /\ hold_response = <<1, "time_reply">> /\ fault_reached = <<>>
    BY <1>3, <1>4, <2>2, <2>5, <2>8, TimeHeld DEF Before, Withheld
  <2> QED
    BY <2>3, <2>4, <2>5, <2>6, <2>7, <2>8 DEF TimeInv, Withheld
<1>5. NoneReturned("time_reply")'
  BY <1>4, ReturnedStep DEF TimeInv
<1>6. CASE \E c \in Conns : CopyTask(c) /\ PumpResponse(c)
  BY <1>1, <1>3, <1>4, <1>5, <1>6 DEF TimeInv, Before, Cleanup
<1>7. CASE UNCHANGED faultPoints
  BY <1>1, <1>3, <1>5, <1>7 DEF TimeInv, Before, Cleanup, faultPoints
<1>8. (\E c \in Conns : CopyTask(c) /\ PumpResponse(c)) \/ UNCHANGED faultPoints
  BY UnscriptedMoves
  DEF OpenPhysical, CompanionReads, MuxReceive, MuxReads, faultPoints, faultVars
<1> QED
  BY <1>6, <1>7, <1>8

LEMMA TimeScripted ==
  ASSUME FlowInv, PendingType, VerdictInv, TimeInv, ScriptTurn, PcStep,
         scenario = "single-timeout", verdict' # "failed"
  PROVE  TimeInv'
<1>1. /\ ~ InScope /\ FaultScenario /\ scenario' = scenario /\ ScriptStep
  BY DEF InScope, FaultScenario, PcStep, ScriptTurn
<1>2. verdict # "failed"
  BY DEF PcStep, VerdictInv
<1>3. NoneReturned("time_reply")' /\ UNCHANGED <<up, fwd, down>>
  BY <1>2, ScriptLeavesWires DEF TimeInv, NoneReturned
<1>4. CASE HoldReply
  <2>1. /\ Nowhere("time") /\ hold_response' = <<1, "time_reply">>
        /\ UNCHANGED <<fault_reached, pause_after, responses_paused>>
        /\ fault_reached = <<>> /\ pc' = "await_fault"
    BY <1>2, <1>4 DEF HoldReply, HoldNextResponse, Goto, TimeInv, Before
  <2>2. AtMostOnce("time")'
    BY <1>3, <1>4, <2>1, AskedOnce DEF HoldReply, Old
  <2> QED
    BY <1>1, <1>2, <1>3, <2>1, <2>2 DEF TimeInv, Before
<1>5. CASE FaultReached
  <2>1. Nowhere("time")'
    <3>1. Nowhere("time") /\ Asks({"battery"})
      BY <1>2, <1>5, ReconnectAsks, <1>1, AskOne
      DEF FaultReached, Goto, TakeFault, Take, TimeInv, Before, Old
    <3> QED
      BY <1>3, <3>1, AsksFlows, FlowsKeep
  <2>2. pc' = "disconnected" /\ UNCHANGED <<pause_after, responses_paused>>
    BY <1>5 DEF FaultReached, Goto, TakeFault
  <2> QED
    BY <1>1, <1>2, <1>3, <2>1, <2>2 DEF TimeInv, Before
<1>6. CASE ~ HoldReply /\ ~ FaultReached
  <2>1. ~ PauseStream
    BY DEF PauseStream
  <2>2. Asks({"device"})
    BY <1>1, <1>6, <2>1, ReconnectAsks
  <2>3. /\ Nowhere("time") => Nowhere("time")'
        /\ AtMostOnce("time") => AtMostOnce("time")'
    BY <1>3, <2>2, AsksFlows, FlowsKeep
  <2>4. \/ pc \in Before /\ pc' \in Before
        \/ pc \notin Before \cup {"await_fault"} /\ pc' \notin Before \cup {"await_fault"}
        \/ pc' = pc
    BY <1>1, <1>6, <2>1 DEF PcStep, VerdictInv, Before, AfterCheck, Cleanup
  <2>5. UNCHANGED faultPoints \/ (pc = "reset" /\ pc' = "successor" /\ ResetFaults)
    BY <1>6, <2>1, ScriptArms
  <2>6. CASE UNCHANGED faultPoints
    <3>1. UNCHANGED <<hold_response, pause_after, responses_paused, fault_reached>>
      BY <2>6 DEF faultPoints
    <3>2. CASE pc \in Before /\ pc' \in Before
      BY <1>1, <1>2, <1>3, <2>3, <3>1, <3>2 DEF TimeInv, Before
    <3>3. CASE /\ pc \notin Before \cup {"await_fault"}
               /\ pc' \notin Before \cup {"await_fault"}
      BY <1>1, <1>2, <1>3, <2>3, <3>1, <3>3 DEF TimeInv
    <3>4. CASE pc' = pc
      BY <1>1, <1>2, <1>3, <2>3, <3>1, <3>4 DEF TimeInv
    <3> QED
      BY <2>4, <3>2, <3>3, <3>4
  <2>7. CASE pc = "reset" /\ pc' = "successor" /\ ResetFaults
    BY <1>1, <1>2, <1>3, <2>3, <2>7 DEF TimeInv, Before, ResetFaults
  <2> QED
    BY <2>5, <2>6, <2>7
<1> QED
  BY <1>4, <1>5, <1>6

LEMMA TimeStep ==
  ASSUME FlowInv, Linkage, PendingType, VerdictInv, TimeInv, [CheckNext]_checkVars
  PROVE  TimeInv'
<1>1. PcStep
  BY PcSteps
<1>2. SUFFICES ASSUME scenario = "single-timeout", verdict' # "failed"
               PROVE  TimeInv'
  BY <1>1 DEF TimeInv, PcStep
<1>3. verdict # "failed"
  BY <1>1, <1>2 DEF PcStep, VerdictInv
<1>4. Unscripted \/ ScriptTurn
  BY DEF CheckNext, Unscripted
<1> QED
  BY <1>1, <1>2, <1>3, <1>4, TimeUnscripted, TimeScripted

-----------------------------------------------------------------------------
(* The stream that a fault point pauses                                    *)

LEMMA AheadStep ==
  ASSUME FlowInv, Unscripted, NEW d \in Conns, gen'[d] = 1,
         gen[d] = 1 => Ahead(down[d]),
         CopyTask(d) /\ PumpResponse(d) => Head(down[d]) # "contact"
  PROVE  Ahead(down'[d])
<1>1. down[d] \in Seq(Responses)
  BY DEF FlowInv, WireType
<1>2. ASSUME NEW c \in Conns, CopyTask(c), PumpResponse(c)
      PROVE  Ahead(down'[d])
  <2>1. gen[d] = 1 /\ (d # c => down'[d] = down[d])
    BY <1>2, Pumped DEF FlowInv, WireType
  <2>2. CASE d = c
    <3>0. /\ down' = [down EXCEPT ![c] = Tail(down[c])] /\ down[c] # <<>>
          /\ down \in [Conns -> Seq(Responses)]
      BY <1>2, Pumped DEF FlowInv, WireType
    <3>1. down'[d] = Tail(down[d]) /\ down[d] # <<>> /\ Head(down[d]) # "contact"
      BY <1>2, <2>2, <3>0
    <3>2. /\ \A i \in DOMAIN Tail(down[d]) :
               /\ i \in Nat /\ i + 1 \in DOMAIN down[d]
               /\ Tail(down[d])[i] = down[d][i + 1]
          /\ \A j \in DOMAIN down[d] :
               j = 1 \/ (j - 1 \in DOMAIN Tail(down[d])
                          /\ Tail(down[d])[j - 1] = down[d][j])
          /\ down[d][1] # "contact"
      BY <1>1, <3>1
    <3>3. ASSUME NEW i \in DOMAIN Tail(down[d]), Tail(down[d])[i] = "end"
          PROVE  \E j \in DOMAIN Tail(down[d]) : j < i /\ Tail(down[d])[j] = "contact"
      <4>1. PICK j \in DOMAIN down[d] : j < i + 1 /\ down[d][j] = "contact"
        BY <2>1, <3>2, <3>3 DEF Ahead
      <4>2. j \in Nat /\ i \in Nat /\ j - 1 < i
        BY <1>1, <3>2, <4>1
      <4> QED
        BY <3>2, <4>1, <4>2
    <3> QED
      BY <3>1, <3>3 DEF Ahead
  <2> QED
    BY <2>1, <2>2
<1>3. ASSUME NEW c \in Conns, CopyTask(c), OpenPhysical(c)
      PROVE  Ahead(down'[d])
  <2>1. /\ down[c] = <<>> /\ down' = down
        /\ d # c => gen'[d] = gen[d]
    BY <1>3 DEF OpenPhysical, wireVars, FlowInv, WireType, GenInv
  <2> QED
    BY <2>1 DEF Ahead
<1>4. ASSUME NEW c \in Conns, CompanionReads(c, Answer(NextFrame(fwd[c])))
      PROVE  Ahead(down'[d])
  <2> DEFINE answer == Answer(NextFrame(fwd[c]))
  <2>1. gen[d] = 1 /\ Ahead(down[d]) /\ answer \in Seq(Responses)
    BY <1>4, AnswersMade DEF CompanionReads, handlerVars
  <2>2. down'[d] \in {down[d], down[d] \o answer}
    BY <1>4 DEF CompanionReads, FlowInv, WireType
  <2>3. \A i \in DOMAIN answer :
          answer[i] = "end" => i = 2 /\ 1 \in DOMAIN answer /\ answer[1] = "contact"
    BY DEF Answer
  <2> HIDE DEF answer
  <2>4. ASSUME down'[d] = down[d] \o answer,
               NEW i \in DOMAIN down'[d], down'[d][i] = "end"
        PROVE  \E j \in DOMAIN down'[d] : j < i /\ down'[d][j] = "contact"
    <3>1. CASE i \in DOMAIN down[d] /\ down'[d][i] = down[d][i]
      <4>1. PICK j \in DOMAIN down[d] : j < i /\ down[d][j] = "contact"
        BY <2>1, <2>4, <3>1 DEF Ahead
      <4>2. j \in DOMAIN down'[d] /\ down'[d][j] = down[d][j]
        BY <1>1, <2>1, <2>4
      <4> QED
        BY <4>1, <4>2
    <3>2. CASE /\ i - Len(down[d]) \in DOMAIN answer
               /\ down'[d][i] = answer[i - Len(down[d])]
      <4>1. i - Len(down[d]) = 2 /\ 1 \in DOMAIN answer /\ answer[1] = "contact"
        BY <2>3, <2>4, <3>2
      <4>2. /\ Len(down[d]) + 1 \in DOMAIN down'[d]
            /\ down'[d][Len(down[d]) + 1] = answer[1]
        BY <1>1, <2>1, <2>4, <4>1
      <4>3. Len(down[d]) + 1 < i
        BY <1>1, <2>1, <2>4, <4>1
      <4> QED
        BY <4>1, <4>2, <4>3
    <3> QED
      BY <1>1, <2>1, <2>4, <3>1, <3>2, Lengthened
  <2> QED
    BY <2>1, <2>2, <2>4 DEF Ahead
<1>5. CASE MuxReceive
  BY <1>5 DEF MuxReceive, MuxReads, handlerVars
<1> QED
  BY <1>2, <1>3, <1>4, <1>5, UnscriptedMoves

LEMMA ContactsUnscripted ==
  ASSUME RelayInv, FlowInv, Linkage, PendingType, CountInv, ContactsInv,
         VerdictInv, Unscripted,
         scenario = "contacts-timeout", verdict # "failed"
  PROVE  ContactsInv'
<1>1. /\ UNCHANGED <<scenario, verdict>>
      /\ pc' = pc \/ (pc \in Cleanup /\ pc' \in Cleanup)
  BY UnscriptedPc
<1>2. Nowhere("contacts") => Nowhere("contacts")'
  BY UnscriptedFlows, FlowsKeep DEF Watched
<1>3. ASSUME NEW c \in Conns, CopyTask(c), PumpResponse(c)
      PROVE  /\ gen[c] = 1 => Head(down[c]) # "end" \/ Withheld(<<1, "end">>)
             /\ pc \in Before => Disarmed' /\ fault_reached' = <<>>
             /\ pc = "await_fault" =>
                  \/ responses_paused'
                  \/ /\ hold_response' = NoFault /\ pause_after' = <<1, "contact">>
                     /\ fault_reached' = <<>> /\ ~ (gen[c] = 1 /\ Head(down[c]) = "contact")
             /\ pc \in {"disconnected", "closed"} => responses_paused'
  <2> DEFINE frame == <<gen[c], Head(down[c])>>
  <2>1. /\ Withhold(frame) /\ frame # NoFault
        /\ down[c] \in Seq(Responses) /\ down[c] # <<>>
        /\ handler[c] = "pump" /\ gen[c] \in Nat
    BY <1>3, Pumped, RelayAssumption DEF NoFault, FlowInv, WireType
  <2>2. CASE pc \in Before
    <3>1. Nowhere("contacts") /\ Disarmed /\ fault_reached = <<>>
      BY <2>2 DEF ContactsInv
    <3>2. Head(down[c]) # "end"
      BY <2>1, <3>1, ReplyThere DEF LastReply, Malformed
    <3>3. Disarmed' /\ fault_reached' = <<>>
      BY <2>1, <3>1 DEF Withhold, Disarmed
    <3> QED
      BY <2>2, <3>2, <3>3 DEF Before
  <2>3. CASE responses_paused
    BY <2>1, <2>3 DEF Withhold, Withheld, ContactsInv, Before, Disarmed
  <2>4. CASE /\ pc = "await_fault"
             /\ hold_response = NoFault /\ pause_after = <<1, "contact">>
             /\ fault_reached = <<>> /\ ~ responses_paused
             /\ \A d \in Conns : gen[d] = 1 => Ahead(down[d])
    <3>1. gen[c] = 1 => Head(down[c]) # "end"
      <4>1. 1 \in DOMAIN down[c] /\ down[c][1] = Head(down[c])
            /\ \A j \in DOMAIN down[c] : ~ (j < 1)
        BY <2>1
      <4> QED
        BY <2>4, <4>1 DEF Ahead
    <3>2. CASE frame = <<1, "contact">>
      <4>1. responses_paused'
        BY <2>1, <2>4, <3>2 DEF Withhold
      <4> QED
        BY <2>4, <3>1, <4>1 DEF Before
    <3>3. CASE frame # <<1, "contact">>
      <4>1. /\ hold_response' = NoFault /\ pause_after' = <<1, "contact">>
            /\ fault_reached' = <<>>
        BY <2>1, <2>4, <3>3 DEF Withhold
      <4> QED
        BY <2>4, <3>1, <3>3, <4>1 DEF Before
    <3> QED
      BY <3>2, <3>3
  <2>5. CASE FirstOver /\ pc \notin Before \cup {"await_fault", "disconnected", "closed"}
    <3>1. gen[c] # 1
      BY <2>1, <2>5 DEF FirstOver
    <3> QED
      BY <2>5, <3>1
  <2>6. pc \notin Before \cup {"await_fault", "disconnected", "closed"} => FirstOver
    BY DEF CountInv, FaultScenario, VerdictInv
  <2> QED
    BY <2>2, <2>3, <2>4, <2>5, <2>6 DEF ContactsInv
<1>4. NoneReturned("end")'
  BY <1>3, ReturnedStep DEF ContactsInv
<1>5. CASE \E c \in Conns : CopyTask(c) /\ PumpResponse(c)
  <2>1. PICK c \in Conns : CopyTask(c) /\ PumpResponse(c)
    BY <1>5
  <2>2. ASSUME pc = "await_fault", ~ responses_paused'
        PROVE  /\ hold_response' = NoFault /\ pause_after' = <<1, "contact">>
               /\ fault_reached' = <<>>
               /\ \A d \in Conns : gen'[d] = 1 => Ahead(down'[d])
    <3>1. ~ responses_paused
      BY <2>1, Pumped, <2>2 DEF Withhold
    <3>2. ASSUME NEW d \in Conns, gen'[d] = 1 PROVE Ahead(down'[d])
      <4>1. gen[d] = 1
        BY <2>1, <3>2, Pumped
      <4>2. CopyTask(d) /\ PumpResponse(d) => Head(down[d]) # "contact"
        BY <1>3, <2>2, <4>1
      <4>3. Ahead(down[d])
        BY <2>2, <3>1, <4>1 DEF ContactsInv
      <4> QED
        BY <3>2, <4>2, <4>3, AheadStep
    <3> QED
      BY <1>3, <2>1, <2>2, <3>2
  <2> QED
    BY <1>1, <1>2, <1>3, <1>4, <2>1, <2>2 DEF ContactsInv, Before, Cleanup
<1>6. CASE UNCHANGED faultPoints
  <2>1. ASSUME pc = "await_fault", ~ responses_paused,
               NEW d \in Conns, gen'[d] = 1,
               ~ \E c \in Conns : CopyTask(c) /\ PumpResponse(c)
        PROVE  Ahead(down'[d])
    BY <2>1, AheadStep DEF ContactsInv
  <2>2. UNCHANGED <<hold_response, pause_after, responses_paused, fault_reached>>
    BY <1>6 DEF faultPoints
  <2> QED
    BY <1>1, <1>2, <1>4, <1>5, <2>1, <2>2
    DEF ContactsInv, Before, Cleanup, Disarmed
<1>7. (\E c \in Conns : CopyTask(c) /\ PumpResponse(c)) \/ UNCHANGED faultPoints
  BY UnscriptedMoves
  DEF OpenPhysical, CompanionReads, MuxReceive, MuxReads, faultPoints, faultVars
<1> QED
  BY <1>5, <1>6, <1>7

LEMMA ContactsScripted ==
  ASSUME FlowInv, PendingType, VerdictInv, ContactsInv, ScriptTurn, PcStep,
         scenario = "contacts-timeout", verdict' # "failed"
  PROVE  ContactsInv'
<1>1. /\ ~ InScope /\ FaultScenario /\ scenario' = scenario /\ ScriptStep
  BY DEF InScope, FaultScenario, PcStep, ScriptTurn
<1>2. verdict # "failed"
  BY DEF PcStep, VerdictInv
<1>3. NoneReturned("end")' /\ UNCHANGED <<up, fwd, down, gen>>
  BY <1>2, ScriptLeavesWires DEF ContactsInv, NoneReturned
<1>4. CASE PauseStream
  <2>1. /\ Nowhere("contacts") /\ pause_after' = <<1, "contact">>
        /\ UNCHANGED <<fault_reached, hold_response, responses_paused>>
        /\ Disarmed /\ fault_reached = <<>> /\ pc' = "await_fault"
    BY <1>2, <1>4 DEF PauseStream, PauseAfterResponse, Goto, ContactsInv, Before
  <2>2. \A c \in Conns : Ahead(down[c])
    <3> SUFFICES ASSUME NEW c \in Conns, NEW i \in DOMAIN down[c],
                        down[c][i] = "end"
                 PROVE  FALSE
      BY DEF Ahead
    <3>1. i \in Nat
      BY DEF FlowInv, WireType
    <3>2. <<"down", c, i>> \in Spots /\ At("contacts", <<"down", c, i>>)
      BY <3>1, IsSpot DEF At, LastReply, Malformed
    <3> QED
      BY <2>1, <3>2 DEF Nowhere
  <2> QED
    BY <1>1, <1>2, <1>3, <2>1, <2>2 DEF ContactsInv, Before, Disarmed
<1>5. CASE FaultReached
  <2>1. pc = "await_fault" /\ fault_reached # <<>> /\ pc' = "disconnected"
        /\ UNCHANGED responses_paused
    BY <1>5 DEF FaultReached, Goto, TakeFault, Take
  <2>2. responses_paused'
    BY <1>2, <2>1 DEF ContactsInv
  <2> QED
    BY <1>1, <1>2, <1>3, <2>1, <2>2 DEF ContactsInv, Before
<1>6. CASE ~ PauseStream /\ ~ FaultReached
  <2>1. ~ HoldReply
    BY DEF HoldReply
  <2>2. Asks({"device"})
    BY <1>1, <1>6, <2>1, ReconnectAsks
  <2>3. Nowhere("contacts") => Nowhere("contacts")'
    BY <1>3, <2>2, AsksFlows, FlowsKeep
  <2>4. \/ pc \in Before /\ pc' \in Before
        \/ pc = "disconnected" /\ pc' = "closed"
        \/ pc' \notin Before \cup {"await_fault", "disconnected", "closed"}
        \/ pc' = pc
    BY <1>1, <1>6, <2>1
    DEF PcStep, VerdictInv, Before, AfterCheck, AfterClosed, Cleanup
  <2>5. UNCHANGED faultPoints \/ (pc = "reset" /\ pc' = "successor" /\ ResetFaults)
    BY <1>6, <2>1, ScriptArms
  <2>6. CASE UNCHANGED faultPoints
    <3>1. UNCHANGED <<hold_response, pause_after, responses_paused, fault_reached>>
      BY <2>6 DEF faultPoints
    <3>2. CASE pc \in Before /\ pc' \in Before
      BY <1>1, <1>2, <1>3, <2>3, <3>1, <3>2 DEF ContactsInv, Before, Disarmed
    <3>3. CASE pc = "disconnected" /\ pc' = "closed"
      BY <1>1, <1>2, <1>3, <3>1, <3>3 DEF ContactsInv, Before
    <3>4. CASE pc' \notin Before \cup {"await_fault", "disconnected", "closed"}
      BY <1>1, <1>2, <1>3, <3>4 DEF ContactsInv
    <3>5. CASE pc' = pc
      BY <1>1, <1>2, <1>3, <2>3, <3>1, <3>5 DEF ContactsInv, Disarmed
    <3> QED
      BY <2>4, <3>2, <3>3, <3>4, <3>5
  <2>7. CASE pc = "reset" /\ pc' = "successor" /\ ResetFaults
    BY <1>1, <1>2, <1>3, <2>7 DEF ContactsInv, Before
  <2> QED
    BY <2>5, <2>6, <2>7
<1> QED
  BY <1>4, <1>5, <1>6

LEMMA ContactsStep ==
  ASSUME RelayInv, FlowInv, Linkage, PendingType, VerdictInv, CountInv,
         ContactsInv, [CheckNext]_checkVars
  PROVE  ContactsInv'
<1>1. PcStep
  BY PcSteps
<1>2. SUFFICES ASSUME scenario = "contacts-timeout", verdict' # "failed"
               PROVE  ContactsInv'
  BY <1>1 DEF ContactsInv, PcStep
<1>3. verdict # "failed"
  BY <1>1, <1>2 DEF PcStep, VerdictInv
<1>4. Unscripted \/ ScriptTurn
  BY DEF CheckNext, Unscripted
<1> QED
  BY <1>1, <1>2, <1>3, <1>4, ContactsUnscripted, ContactsScripted

FaultInv ==
  /\ RelayInv /\ Linkage /\ FlowInv /\ PendingType /\ VerdictInv
  /\ CountInv /\ ScopeQuiet /\ TimeInv /\ ContactsInv

LEMMA FaultInit ==
  ASSUME CheckInit
  PROVE  FaultInv
<1> USE DEF CheckInit, ReconnectInit, ScriptInit
<1>1. RelayInit
  OBVIOUS
<1>2. RelayInv /\ Linkage
  BY InitInv DEF Linkage
<1>3. FlowInv
  <2> HIDE DEF CheckInit
  <2>1. <<>> \in Seq(Commands) /\ <<>> \in Seq(Responses) /\ <<>> \in Seq(Nat)
        /\ <<>> \in Seq(Nat \X Responses)
    OBVIOUS
  <2>2. WireType
    <3>1. /\ gen \in [Conns -> Nat] /\ frame_counts \in [Conns \X Queried -> Nat]
          /\ mux_open \in [Conns -> BOOLEAN] /\ relay_open \in [Conns -> BOOLEAN]
          /\ peer_open \in [Conns -> BOOLEAN] /\ responses_paused \in BOOLEAN
      BY <1>1 DEF RelayInit
    <3>2. /\ up \in [Conns -> Seq(Commands)] /\ fwd \in [Conns -> Seq(Commands)]
          /\ down \in [Conns -> Seq(Responses)] /\ ret \in [Conns -> Seq(Responses)]
      BY <1>1, <2>1 DEF RelayInit
    <3>3. /\ connections \in Seq(Nat) /\ closed \in Seq(Nat)
          /\ fault_reached \in Seq(Nat \X Responses)
      BY <1>1, <2>1 DEF RelayInit
    <3> QED
      BY <3>1, <3>2, <3>3 DEF WireType
  <2>3. GenInv
    BY <1>1 DEF RelayInit, GenInv
  <2> QED
    BY <2>2, <2>3 DEF FlowInv
<1>4. pending = <<>> /\ executed = {} /\ got = {} /\ pc = "spawn" /\ verdict = "none"
  OBVIOUS
<1>5. PendingType
  BY <1>4 DEF PendingType
<1>6. scenario \in ScenarioNames \cup {"test", "unscoped"}
  BY LiveReconnectAssumption, LiveScopeAssumption
<1>7. VerdictInv
  BY <1>4, <1>6 DEF VerdictInv, Cleanup, Before
<1>8. CountInv
  BY <1>4 DEF CountInv, RelayInit, AfterClosed, AfterCheck
<1>9. \A cmd : Nowhere(cmd)
  <2>1. pending = <<>> /\ up = [c \in Conns |-> <<>>] /\ fwd = [c \in Conns |-> <<>>]
        /\ down = [c \in Conns |-> <<>>]
    BY DEF RelayInit
  <2> QED
    BY <2>1 DEF Nowhere, At
<1>10. ScopeQuiet
  BY <1>4, <1>9 DEF ScopeQuiet
<1>11. \A op : NoneReturned(op)
  BY <1>4 DEF RelayInit, NoneReturned
<1>12. TimeInv /\ ContactsInv
  BY <1>4, <1>9, <1>11 DEF RelayInit, TimeInv, ContactsInv, Disarmed, Before
<1> QED
  BY <1>2, <1>3, <1>5, <1>7, <1>8, <1>10, <1>12 DEF FaultInv

LEMMA FaultStep ==
  ASSUME FaultInv, [CheckNext]_checkVars
  PROVE  FaultInv'
<1>1. RelayStep
  BY CheckSteps DEF FaultInv
<1>2. RelayInv' /\ Linkage' /\ FlowInv'
  BY <1>1, StepMoves, MoveInv, LinkageStep, FlowStep DEF FaultInv
<1> QED
  BY <1>2, PendingStep, VerdictStep, CountStep, ScopeQuietStep, TimeStep,
     ContactsStep
  DEF FaultInv

LEMMA FaultInvariant == CheckSpec => []FaultInv
<1>1. CheckInit => FaultInv
  BY FaultInit
<1>2. FaultInv /\ [CheckNext]_checkVars => FaultInv'
  BY FaultStep
<1> QED
  BY <1>1, <1>2, PTL DEF CheckSpec

\* Whatever the multiplexer does, an "ok" of check_live_reconnect.py means that
\* the successor did not reach the companion in the first generation and that
\* the withheld reply stayed withheld.
THEOREM FaultsAreShown == CheckSpec => []FaultShown
<1>1. FaultInv => FaultShown
  <2> SUFFICES ASSUME FaultInv, verdict = "ok"
               PROVE  FaultShown
    BY DEF FaultShown
  <2>1. scenario # "completed-drop" => Battery \notin executed
    <3>1. CASE InScope
      BY <3>1 DEF FaultInv, ScopeQuiet
    <3>2. CASE FaultScenario
      BY <3>2 DEF FaultInv, CountInv
    <3> QED
      BY <3>1, <3>2 DEF FaultInv, VerdictInv, InScope, FaultScenario, ScenarioNames
  <2>2. /\ scenario = "single-timeout" => NoneReturned("time_reply")
        /\ scenario = "contacts-timeout" => NoneReturned("end")
    BY DEF FaultInv, TimeInv, ContactsInv
  <2> QED
    BY <2>1, <2>2 DEF FaultShown, NoneReturned, Battery
<1> QED
  BY <1>1, FaultInvariant, PTL

-----------------------------------------------------------------------------
(* The commands of the scope check on their way to the companion           *)

LEMMA LastQueued ==
  ASSUME NEW S, NEW q \in Seq(S), NEW x
  PROVE  /\ Len(Append(q, x)) = Len(q) + 1 /\ DOMAIN q = 1 .. Len(q)
         /\ DOMAIN Append(q, x) = 1 .. Len(q) + 1 /\ Len(q) \in Nat
         /\ \A i \in DOMAIN q : Append(q, x)[i] = q[i]
         /\ Append(q, x)[Len(q) + 1] = x
OBVIOUS

\* What the history h has beyond its first m commands is, in this order, the
\* commands of Watched in the queue q.
Continues(m, h, q) ==
  \E f \in [m + 1 .. Len(h) -> DOMAIN q] :
    /\ \A k \in m + 1 .. Len(h) : h[k] = q[f[k]]
    /\ \A k, l \in m + 1 .. Len(h) : k < l => f[k] < f[l]
    /\ \A j \in DOMAIN q : q[j] \in Watched => \E k \in m + 1 .. Len(h) : f[k] = j

LEMMA ContinuesNothing ==
  ASSUME NEW m \in Nat, NEW h \in Seq(Watched)
  PROVE  Continues(m, h, <<>>) <=> m >= Len(h)
<1>1. DOMAIN <<>> = {} /\ Len(h) \in Nat
  OBVIOUS
<1>2. ASSUME Continues(m, h, <<>>) PROVE m >= Len(h)
  <2>1. PICK f \in [m + 1 .. Len(h) -> {}] : TRUE
    BY <1>1, <1>2 DEF Continues
  <2>2. m + 1 \notin m + 1 .. Len(h)
    BY <2>1
  <2> QED
    BY <1>1, <2>2
<1>3. ASSUME m >= Len(h) PROVE Continues(m, h, <<>>)
  <2>1. m + 1 .. Len(h) = {}
    BY <1>1, <1>3
  <2>2. [k \in {} |-> 0] \in [{} -> {}]
    OBVIOUS
  <2> QED
    BY <1>1, <2>1, <2>2 DEF Continues
<1> QED
  BY <1>2, <1>3

LEMMA ContinuesFurther ==
  ASSUME NEW m \in Nat, NEW h \in Seq(Watched), m <= Len(h), NEW S,
         NEW q \in Seq(S), NEW x \in S, Continues(m, h, q)
  PROVE  IF x \in Watched THEN Continues(m, Append(h, x), Append(q, x))
                          ELSE Continues(m, h, Append(q, x))
<1>1. PICK f \in [m + 1 .. Len(h) -> DOMAIN q] :
        /\ \A k \in m + 1 .. Len(h) : h[k] = q[f[k]]
        /\ \A k, l \in m + 1 .. Len(h) : k < l => f[k] < f[l]
        /\ \A j \in DOMAIN q : q[j] \in Watched => \E k \in m + 1 .. Len(h) : f[k] = j
  BY DEF Continues
<1>2. /\ DOMAIN q = 1 .. Len(q) /\ DOMAIN Append(q, x) = 1 .. Len(q) + 1
      /\ Len(q) \in Nat /\ Append(q, x)[Len(q) + 1] = x
      /\ \A i \in DOMAIN q : Append(q, x)[i] = q[i]
  BY LastQueued
<1>3. CASE x \notin Watched
  <2>1. f \in [m + 1 .. Len(h) -> DOMAIN Append(q, x)]
    BY <1>2
  <2>2. \A k \in m + 1 .. Len(h) : h[k] = Append(q, x)[f[k]]
    BY <1>1, <1>2
  <2>3. \A j \in DOMAIN Append(q, x) :
          Append(q, x)[j] \in Watched => \E k \in m + 1 .. Len(h) : f[k] = j
    BY <1>1, <1>2, <1>3
  <2> QED
    BY <1>1, <1>3, <2>1, <2>2, <2>3 DEF Continues
<1>4. CASE x \in Watched
  <2> DEFINE n == Len(h) + 1
             r == Append(q, x)
             g == [k \in m + 1 .. n |-> IF k = n THEN Len(q) + 1 ELSE f[k]]
  <2>1. /\ Len(Append(h, x)) = n /\ Len(h) \in Nat /\ Append(h, x)[n] = x
        /\ \A i \in 1 .. Len(h) : Append(h, x)[i] = h[i]
    BY <1>4, LastQueued
  <2>2. \A k \in m + 1 .. n : k = n \/ k \in m + 1 .. Len(h)
    BY <2>1
  <2>3. g \in [m + 1 .. n -> DOMAIN r]
    BY <1>2, <2>2
  <2>4. \A k \in m + 1 .. n : Append(h, x)[k] = r[g[k]]
    <3>1. ASSUME NEW k \in m + 1 .. Len(h), k # n
          PROVE  Append(h, x)[k] = r[f[k]]
      BY <1>1, <1>2, <2>1, <3>1
    <3> QED
      BY <1>2, <2>1, <2>2, <3>1
  <2>5. ASSUME NEW k \in m + 1 .. n, NEW l \in m + 1 .. n, k < l
        PROVE  g[k] < g[l]
    <3>1. k \in m + 1 .. Len(h) /\ k # n
      BY <2>1, <2>5
    <3>2. g[k] = f[k] /\ f[k] \in 1 .. Len(q)
      BY <1>2, <3>1
    <3>3. CASE l = n
      <4>1. g[l] = Len(q) + 1
        BY <3>3
      <4> QED
        BY <1>2, <3>2, <4>1
    <3>4. CASE l # n
      <4>1. l \in m + 1 .. Len(h)
        BY <2>2, <3>4
      <4>2. g[l] = f[l]
        BY <3>4
      <4> QED
        BY <1>1, <2>5, <3>1, <3>2, <4>1, <4>2
    <3> QED
      BY <3>3, <3>4
  <2>6. \A j \in DOMAIN r : r[j] \in Watched => \E k \in m + 1 .. n : g[k] = j
    <3>1. n \in m + 1 .. n /\ g[n] = Len(q) + 1
      BY <2>1
    <3>2. ASSUME NEW j \in DOMAIN q, r[j] \in Watched
          PROVE  \E k \in m + 1 .. n : g[k] = j
      BY <1>1, <1>2, <2>1, <3>2
    <3> QED
      BY <1>2, <3>1, <3>2
  <2> HIDE DEF g
  <2>7. Len(Append(h, x)) = n
    BY <2>1
  <2> HIDE DEF n, r
  <2>8. \E e \in [m + 1 .. n -> DOMAIN r] :
          /\ \A k \in m + 1 .. n : Append(h, x)[k] = r[e[k]]
          /\ \A k, l \in m + 1 .. n : k < l => e[k] < e[l]
          /\ \A j \in DOMAIN r : r[j] \in Watched => \E k \in m + 1 .. n : e[k] = j
    BY <2>3, <2>4, <2>5, <2>6
  <2>9. Continues(m, Append(h, x), r)
    BY <2>7, <2>8 DEF Continues
  <2> QED
    BY <1>4, <2>9 DEF r
<1> QED
  BY <1>3, <1>4

LEMMA ContinuesAfter ==
  ASSUME NEW m \in Nat, NEW h \in Seq(Watched), m <= Len(h), NEW S,
         NEW q \in Seq(S), q # <<>>, Continues(m, h, q)
  PROVE  IF Head(q) \in Watched
         THEN m < Len(h) /\ h[m + 1] = Head(q) /\ Continues(m + 1, h, Tail(q))
         ELSE Continues(m, h, Tail(q))
<1>1. PICK f \in [m + 1 .. Len(h) -> DOMAIN q] :
        /\ \A k \in m + 1 .. Len(h) : h[k] = q[f[k]]
        /\ \A k, l \in m + 1 .. Len(h) : k < l => f[k] < f[l]
        /\ \A j \in DOMAIN q : q[j] \in Watched => \E k \in m + 1 .. Len(h) : f[k] = j
  BY DEF Continues
<1>2. /\ DOMAIN q = 1 .. Len(q) /\ Len(q) \in Nat /\ Len(q) # 0
      /\ DOMAIN Tail(q) = 1 .. Len(q) - 1 /\ Head(q) = q[1]
      /\ \A i \in 1 .. Len(q) - 1 : Tail(q)[i] = q[i + 1]
  OBVIOUS
<1>3. Len(h) \in Nat /\ \A k \in m + 1 .. Len(h) : h[k] \in Watched /\ f[k] \in 1 .. Len(q)
  BY <1>2
<1> DEFINE n == IF Head(q) \in Watched THEN m + 1 ELSE m
           g == [k \in n + 1 .. Len(h) |-> f[k] - 1]
<1>4. Head(q) \in Watched => m + 1 \in m + 1 .. Len(h) /\ f[m + 1] = 1
  <2> SUFFICES ASSUME Head(q) \in Watched
               PROVE  m + 1 \in m + 1 .. Len(h) /\ f[m + 1] = 1
    OBVIOUS
  <2>1. PICK k \in m + 1 .. Len(h) : f[k] = 1
    BY <1>1, <1>2
  <2>2. m + 1 \in m + 1 .. Len(h)
    BY <1>3, <2>1
  <2>3. k = m + 1
    <3>1. m + 1 < k => f[m + 1] < 1
      BY <1>1, <2>1, <2>2
    <3> QED
      BY <1>3, <2>1, <2>2, <3>1
  <2> QED
    BY <2>1, <2>2, <2>3
<1>5. \A k \in n + 1 .. Len(h) : k \in m + 1 .. Len(h) /\ f[k] - 1 \in DOMAIN Tail(q)
  <2> SUFFICES ASSUME NEW k \in n + 1 .. Len(h)
               PROVE  k \in m + 1 .. Len(h) /\ f[k] - 1 \in DOMAIN Tail(q)
    OBVIOUS
  <2>1. k \in m + 1 .. Len(h)
    BY <1>3
  <2>2. f[k] # 1
    <3>1. CASE Head(q) \in Watched
      BY <1>1, <1>3, <1>4, <2>1, <3>1
    <3>2. CASE Head(q) \notin Watched
      BY <1>1, <1>2, <1>3, <2>1, <3>2
    <3> QED
      BY <3>1, <3>2
  <2> QED
    BY <1>2, <1>3, <2>1, <2>2
<1>6. g \in [n + 1 .. Len(h) -> DOMAIN Tail(q)]
  BY <1>5
<1>7. \A k \in n + 1 .. Len(h) : h[k] = Tail(q)[g[k]]
  <2> SUFFICES ASSUME NEW k \in n + 1 .. Len(h)
               PROVE  h[k] = Tail(q)[f[k] - 1]
    OBVIOUS
  <2>1. h[k] = q[f[k]] /\ f[k] \in 1 .. Len(q) /\ f[k] - 1 \in 1 .. Len(q) - 1
    BY <1>1, <1>2, <1>3, <1>5
  <2>2. Tail(q)[f[k] - 1] = q[(f[k] - 1) + 1]
    BY <1>2, <2>1
  <2> QED
    BY <1>2, <2>1, <2>2
<1>8. \A k, l \in n + 1 .. Len(h) : k < l => g[k] < g[l]
  BY <1>1, <1>2, <1>3, <1>5
<1>9. \A j \in DOMAIN Tail(q) :
        Tail(q)[j] \in Watched => \E k \in n + 1 .. Len(h) : g[k] = j
  <2> SUFFICES ASSUME NEW j \in DOMAIN Tail(q), Tail(q)[j] \in Watched
               PROVE  \E k \in n + 1 .. Len(h) : g[k] = j
    OBVIOUS
  <2>1. j + 1 \in DOMAIN q /\ q[j + 1] \in Watched /\ j \in Nat /\ j # 0
    BY <1>2
  <2>2. PICK k \in m + 1 .. Len(h) : f[k] = j + 1
    BY <1>1, <2>1
  <2>3. k \in n + 1 .. Len(h)
    BY <1>3, <1>4, <2>1, <2>2
  <2>4. g[k] = j
    BY <2>1, <2>2, <2>3
  <2> QED
    BY <2>3, <2>4
<1>10. Continues(n, h, Tail(q))
  <2> HIDE DEF g, n
  <2>1. \E e \in [n + 1 .. Len(h) -> DOMAIN Tail(q)] :
          /\ \A k \in n + 1 .. Len(h) : h[k] = Tail(q)[e[k]]
          /\ \A k, l \in n + 1 .. Len(h) : k < l => e[k] < e[l]
          /\ \A j \in DOMAIN Tail(q) :
               Tail(q)[j] \in Watched => \E k \in n + 1 .. Len(h) : e[k] = j
    BY <1>6, <1>7, <1>8, <1>9
  <2> QED
    BY <2>1 DEF Continues
<1>11. Head(q) \in Watched => m < Len(h) /\ h[m + 1] = Head(q)
  BY <1>1, <1>2, <1>3, <1>4
<1> QED
  BY <1>10, <1>11

\* A connection that the relay copies for has both its ends, and only close()
\* takes one from the multiplexer.
EndsInv ==
  \A c \in Conns :
    /\ handler[c] = "pump" => physical_open[c] /\ peer_open[c]
    /\ mux_open[c] => closing \/ (relay_open[c] /\ handler[c] # "closing")

\* Commands are under way on one connection, which is the multiplexer's last.
Busy(c) == up[c] # <<>> \/ fwd[c] # <<>>

OneBusy ==
  /\ link = 0 <=> stage = "down"
  /\ link # 0 => mux_open[link]
  /\ pc = "spawn" => process = "none"
  /\ \A c \in Conns :
       Busy(c) => c = link \/ (link = 0 /\ (process = "exited" \/ closing))
  /\ \A c, d \in Conns : Busy(c) /\ Busy(d) => c = d

\* Nothing that is recorded is under way before it is recorded.
Unrecorded ==
  /\ Nowhere(Malformed)
  /\ ~ Recording => \A op \in Watched : Nowhere(op)

\* The relay records what it copies and the companion takes it in that order.
InOrder ==
  /\ frame_history \in Seq(Watched) /\ order \in Seq(Watched)
  /\ Len(order) <= Len(frame_history)
  /\ \A k \in DOMAIN order : order[k] = frame_history[k]
  /\ \A c \in Conns :
       (\A d \in Conns : d # c => fwd[d] = <<>>) =>
         Continues(Len(order), frame_history, fwd[c])

Compared ==
  verdict = "ok" =>
    /\ Len(frame_history) >= 4
    /\ \A i \in 1 .. 4 : Frame(frame_history[i]) = Frame(ExpectedOrder[i])

ScopeInv ==
  InScope => /\ conduct # "any" /\ EndsInv /\ OneBusy /\ Unrecorded /\ InOrder
             /\ Compared

endVars == <<handler, physical_open, peer_open, mux_open, relay_open, closing>>

\* The steps of the scope check that something depends on which is at the ends
\* of a connection.
LEMMA ScopeMoves ==
  ASSUME Linkage, InScope, conduct # "any", [CheckNext]_checkVars
  PROVE  \/ UNCHANGED endVars
         \/ \E c \in Conns :
              \/ AcquireLock(c) \/ OpenPhysical(c) \/ PumpsEnd(c) \/ Finish(c)
              \/ MuxConnects(c) \/ MuxCloses(c)
         \/ CancelTasks \/ CloseServer
<1> USE DEF endVars, handlerVars, socketVars, wireVars, faultVars, closeVars,
            relayVars, muxVars, scriptVars
<1>1. CASE \E c \in Conns : CopyTask(c)
  BY <1>1 DEF CopyTask, HandlerTask, HandlerStep, PumpCommand, PumpResponse
<1>2. CASE CloseTurn \/ CompanionTurn \/ UNCHANGED checkVars
  BY <1>2 DEF CloseTurn, CloseTask, Joined, CompanionTurn, CompanionStep,
     CompanionReads, checkVars, reconnectVars
<1>3. CASE MuxTurn
  <2>1. CASE MuxStart \/ MuxDispatch \/ MuxReceive \/ AnswerLocally \/ SendUnasked
    BY <2>1 DEF MuxStart, MuxDispatch, MuxReceive, AnswerLocally, SendUnasked,
       MuxSends, MuxReads
  <2>2. CASE MuxConnect \/ MuxGivesUp \/ MuxExits
    BY <2>2 DEF MuxConnect, MuxGivesUp, MuxExits, Linkage
  <2> QED
    BY <1>3, <2>1, <2>2 DEF MuxTurn, MuxStep
<1>4. CASE CleanupTurn
  BY <1>4 DEF CleanupTurn, CleanupStep, DisconnectClients, Reaped, Kill,
     CloseRelay, Ended, Linkage
<1>5. CASE ScriptTurn
  <2>1. ASSUME NEW g, NEW x, NEW from, NEW to,
               \/ ExpectGeneration(g, from, to) \/ ConnectPair(x, from, to)
        PROVE  UNCHANGED endVars
    BY <2>1 DEF ExpectGeneration, ConnectPair, TakeConnection
  <2>2. CASE \/ Spawn \/ AwaitReady \/ AskContacts \/ SelectScope \/ SendStatus
             \/ StatusAccepted \/ StatusRejected \/ ClockRead \/ ResetScope
             \/ CompareOrder \/ ScopeRaise
    BY <2>2 DEF Spawn, AwaitReady, AskContacts, SelectScope, SendStatus,
       StatusAccepted, StatusRejected, ClockRead, ResetScope, CompareOrder,
       ScopeRaise, Raise
  <2> QED
    BY <1>5, <2>1, <2>2 DEF ScriptTurn, ScopeScript, ScopeSetup
<1> QED
  BY <1>1, <1>2, <1>3, <1>4, <1>5 DEF CheckNext

\* While both its ends are open and frames are frames, nothing ends a pump.
LEMMA PumpKept ==
  ASSUME FlowInv, EndsInv, Nowhere(Malformed), NEW c \in Conns, PumpsEnd(c),
         mux_open[c], ~ closing
  PROVE  FALSE
<1>1. handler[c] = "pump" /\ relay_open[c] /\ physical_open[c] /\ peer_open[c]
  BY DEF EndsInv, PumpsEnd
<1>2. NextFrame(up[c]) # Malformed
  <2>1. <<"up", c, 1>> \in Spots
    BY IsSpot
  <2>2. up[c] \in Seq(Commands)
    BY DEF FlowInv, WireType
  <2>3. up[c] # <<>> => Head(up[c]) # Malformed
    BY <2>1, <2>2 DEF Nowhere, At
  <2> QED
    BY <2>3 DEF NextFrame, Malformed
<1>3. NextFrame(down[c]) # Malformed
  <2>1. <<"down", c, 1>> \in Spots
    BY IsSpot
  <2>2. down[c] \in Seq(Responses)
    BY DEF FlowInv, WireType
  <2>3. LastReply(Malformed) = Malformed
    BY DEF LastReply, Malformed
  <2>4. down[c] # <<>> => Head(down[c]) # Malformed
    BY <2>1, <2>2, <2>3 DEF Nowhere, At
  <2> QED
    BY <2>4 DEF NextFrame, Malformed
<1> QED
  BY <1>1, <1>2, <1>3 DEF PumpsEnd, PumpEnds

LEMMA EndsStep ==
  ASSUME RelayInv, FlowInv, Linkage, InScope, conduct # "any", EndsInv,
         Nowhere(Malformed), [CheckNext]_checkVars
  PROVE  EndsInv'
<1> USE DEF RelayInv, TypeInv, FlowInv, WireType, EndsInv, HandlerStates
<1>1. CASE UNCHANGED endVars
  BY <1>1 DEF endVars
<1>2. ASSUME NEW c \in Conns, AcquireLock(c) PROVE EndsInv'
  BY <1>2 DEF AcquireLock, closeVars
<1>3. ASSUME NEW c \in Conns, OpenPhysical(c) PROVE EndsInv'
  BY <1>3 DEF OpenPhysical, closeVars
<1>4. ASSUME NEW c \in Conns, PumpsEnd(c) PROVE EndsInv'
  <2>1. mux_open[c] => closing
    BY <1>4, PumpKept
  <2> QED
    BY <1>4, <2>1 DEF PumpsEnd, socketVars, closeVars
<1>5. ASSUME NEW c \in Conns, Finish(c) PROVE EndsInv'
  BY <1>5 DEF Finish, closeVars
<1>6. ASSUME NEW c \in Conns, MuxConnects(c) PROVE EndsInv'
  BY <1>6 DEF MuxConnects, closeVars
<1>7. ASSUME NEW c \in Conns, MuxCloses(c) PROVE EndsInv'
  BY <1>7 DEF MuxCloses, handlerVars, closeVars
<1>8. CASE CancelTasks
  BY <1>8 DEF CancelTasks, ShutIsFinal
<1>9. CASE CloseServer
  BY <1>9 DEF CloseServer, handlerVars, socketVars
<1> QED
  BY <1>1, <1>2, <1>3, <1>4, <1>5, <1>6, <1>7, <1>8, <1>9, ScopeMoves

\* All that a step of the scope check does to the commands under way.
LEMMA BusyMoves ==
  ASSUME FlowInv, Linkage, InScope, conduct # "any", [CheckNext]_checkVars
  PROVE  \/ UNCHANGED <<up, fwd>>
         \/ \E c \in Conns : CopyTask(c) /\ PumpCommand(c)
         \/ /\ CompanionTurn
            /\ \E c \in Conns : CompanionReads(c, Answer(NextFrame(fwd[c])))
         \/ /\ link # 0
            /\ MuxStart \/ MuxDispatch \/ SendUnasked
<1> USE DEF handlerVars, socketVars, wireVars, faultVars, closeVars, relayVars
<1>1. CASE \E c \in Conns : CopyTask(c)
  BY <1>1 DEF CopyTask, HandlerTask, HandlerStep, PumpResponse, AcquireLock,
     OpenPhysical, PumpsEnd, Finish
<1>2. CASE CloseTurn \/ CompanionTurn \/ UNCHANGED checkVars
  BY <1>2 DEF CloseTurn, CloseTask, CancelTasks, Joined, CompanionTurn,
     CompanionStep, checkVars, reconnectVars
<1>3. CASE MuxTurn
  <2>1. CASE MuxStart \/ MuxDispatch \/ SendUnasked
    <3>1. stage # "down"
      BY <2>1 DEF MuxStart, MuxDispatch, SendUnasked
    <3> QED
      BY <2>1, <3>1 DEF Linkage
  <2>2. CASE \/ MuxConnect \/ MuxReceive \/ MuxGivesUp \/ MuxExits
             \/ AnswerLocally
    BY <2>2 DEF MuxConnect, MuxReceive, MuxGivesUp, MuxExits, AnswerLocally,
       MuxConnects, MuxReads, MuxCloses
  <2> QED
    BY <1>3, <2>1, <2>2 DEF MuxTurn, MuxStep
<1>4. CASE CleanupTurn
  BY <1>4 DEF CleanupTurn, CleanupStep, DisconnectClients, Reaped, Kill,
     CloseRelay, Ended, MuxCloses, CloseServer
<1>5. CASE ScriptTurn
  BY <1>5, ScriptLeavesWires
<1> QED
  BY <1>1, <1>2, <1>3, <1>4, <1>5 DEF CheckNext

\* Who is busy after a step was so before, or is the multiplexer's connection.
LEMMA BusyAfter ==
  ASSUME FlowInv, Linkage, InScope, conduct # "any", [CheckNext]_checkVars
  PROVE  \/ \A c \in Conns : Busy(c)' => Busy(c)
         \/ /\ link # 0 /\ UNCHANGED <<link, process, closing, mux_open, pc>>
            /\ stage # "down" /\ stage' # "down"
            /\ \A c \in Conns : Busy(c)' => Busy(c) \/ c = link
<1>1. CASE UNCHANGED <<up, fwd>>
  BY <1>1 DEF Busy
<1>2. ASSUME NEW c \in Conns, PumpCommand(c)
      PROVE  \A d \in Conns : Busy(d)' => Busy(d)
  <2>1. up[c] # <<>>
    BY <1>2, RelayAssumption DEF PumpCommand, NextFrame
  <2> QED
    BY <1>2, <2>1 DEF PumpCommand, Busy, FlowInv, WireType
<1>3. ASSUME NEW c \in Conns, NEW answer, CompanionReads(c, answer)
      PROVE  \A d \in Conns : Busy(d)' => Busy(d)
  BY <1>3 DEF CompanionReads, Busy, FlowInv, WireType
<1>4. CASE link # 0 /\ (MuxStart \/ MuxDispatch \/ SendUnasked)
  <2>1. link \in Conns
    BY <1>4 DEF Linkage
  <2>2. PICK op : MuxSends(link, op)
    BY <1>4 DEF MuxStart, MuxDispatch, SendUnasked
  <2>3. \A c \in Conns : c # link => up'[c] = up[c] /\ fwd'[c] = fwd[c]
    BY <2>1, <2>2 DEF MuxSends, FlowInv, WireType
  <2>4. MuxStart => UNCHANGED <<link, process, pc>>
    BY DEF MuxStart, scriptVars
  <2>5. UNCHANGED <<link, process, pc, mux_open, closing>>
    BY <1>4, <2>2, <2>4
    DEF MuxDispatch, SendUnasked, muxVars, scriptVars, MuxSends, socketVars,
        closeVars
  <2>6. stage # "down" /\ stage' # "down"
    BY <1>4 DEF MuxStart, MuxDispatch, SendUnasked, muxVars
  <2> QED
    BY <1>4, <2>3, <2>5, <2>6 DEF Busy
<1> QED
  BY <1>1, <1>2, <1>3, <1>4, BusyMoves

\* All that a step of the scope check does to the multiplexer's connection.
LEMMA LinkMoves ==
  ASSUME Linkage, InScope, conduct # "any", [CheckNext]_checkVars
  PROVE  \/ /\ UNCHANGED <<link, process, mux_open>>
            /\ closing => closing'
            /\ stage' = "down" <=> stage = "down"
            /\ pc' = "spawn" => pc = "spawn"
         \/ /\ pc = "spawn" /\ pc' # "spawn" /\ process' = "running"
            /\ UNCHANGED <<link, stage, mux_open, closing>>
         \/ MuxConnect
         \/ MuxGivesUp
         \/ MuxExits
         \/ Kill
<1> USE DEF handlerVars, socketVars, wireVars, faultVars, closeVars, relayVars,
            muxVars, scriptVars
<1>1. CASE \E c \in Conns : CopyTask(c)
  BY <1>1 DEF CopyTask, HandlerTask, HandlerStep, PumpCommand, PumpResponse,
     AcquireLock, OpenPhysical, PumpsEnd, Finish
<1>2. CASE CloseTurn \/ CompanionTurn \/ UNCHANGED checkVars
  BY <1>2 DEF CloseTurn, CloseTask, CancelTasks, Joined, CompanionTurn,
     CompanionStep, CompanionReads, checkVars, reconnectVars
<1>3. CASE MuxTurn
  BY <1>3 DEF MuxTurn, MuxStep, MuxStart, MuxDispatch, MuxReceive,
     AnswerLocally, SendUnasked, MuxSends, MuxReads
<1>4. CASE CleanupTurn
  BY <1>4 DEF CleanupTurn, CleanupStep, DisconnectClients, Reaped, CloseRelay,
     Ended, CloseServer, Goto
<1>5. CASE ScriptTurn
  <2> USE DEF Goto
  <2>1. ASSUME NEW x,
               \/ ExpectGeneration(x, "generation_1", "ready_1")
               \/ ConnectPair(x, "connect_1", "contacts")
        PROVE  /\ UNCHANGED <<link, process, mux_open, stage, closing>>
               /\ pc' # "spawn"
    BY <2>1 DEF ExpectGeneration, ConnectPair, TakeConnection
  <2>2. CASE Spawn
    BY <2>2 DEF Spawn
  <2>3. CASE \/ AwaitReady \/ AskContacts \/ SelectScope \/ SendStatus
             \/ StatusAccepted \/ StatusRejected \/ ClockRead \/ ResetScope
             \/ CompareOrder \/ ScopeRaise
    BY <2>3 DEF AwaitReady, AskContacts, SelectScope, SendStatus, Ask,
       StatusAccepted, StatusRejected, ClockRead, ResetScope, CompareOrder,
       ScopeRaise, Raise
  <2> QED
    BY <1>5, <2>1, <2>2, <2>3 DEF ScriptTurn, ScopeScript, ScopeSetup
<1> QED
  BY <1>1, <1>2, <1>3, <1>4, <1>5 DEF CheckNext

LEMMA OneBusyStep ==
  ASSUME FlowInv, Linkage, InScope, conduct # "any", EndsInv, OneBusy,
         [CheckNext]_checkVars
  PROVE  OneBusy'
<1>1. CASE /\ link # 0 /\ UNCHANGED <<link, process, closing, mux_open, pc>>
           /\ stage # "down" /\ stage' # "down"
           /\ \A c \in Conns : Busy(c)' => Busy(c) \/ c = link
  BY <1>1 DEF OneBusy
<1>2. CASE \A c \in Conns : Busy(c)' => Busy(c)
  <2>1. \A c, d \in Conns : Busy(c)' /\ Busy(d)' => c = d
    BY <1>2 DEF OneBusy
  <2>2. CASE \/ /\ UNCHANGED <<link, process, mux_open>>
                /\ closing => closing'
                /\ stage' = "down" <=> stage = "down"
                /\ pc' = "spawn" => pc = "spawn"
             \/ /\ pc = "spawn" /\ pc' # "spawn" /\ process' = "running"
                /\ UNCHANGED <<link, stage, mux_open, closing>>
    BY <1>2, <2>1, <2>2 DEF OneBusy
  <2>3. CASE MuxConnect
    <3>1. \A c \in Conns : ~ Busy(c)
      BY <2>3 DEF OneBusy, MuxConnect, MuxConnects, Conns
    <3>2. PICK c \in Conns : link' = c /\ MuxConnects(c)
      BY <2>3 DEF MuxConnect
    <3>3. link' # 0 /\ mux_open'[link'] /\ stage' # "down" /\ pc' = pc /\ process' = process
      BY <2>3, <3>2 DEF MuxConnect, MuxConnects, scriptVars, FlowInv, WireType, Conns
    <3> QED
      BY <1>2, <3>1, <3>3 DEF OneBusy
  <2>4. CASE MuxGivesUp
    <3>1. link # 0 /\ link' = 0 /\ stage' = "down" /\ pc' = pc /\ process' = process
      BY <2>4 DEF MuxGivesUp, EpochEnds, scriptVars
    <3>2. closing' = closing
      BY <2>4 DEF MuxGivesUp, MuxCloses, closeVars
    <3>3. link \in Conns /\ mux_open[link]
      BY <3>1 DEF OneBusy, Linkage
    <3>4. closing \/ Quiet(link)
      BY <2>4, <3>3 DEF MuxGivesUp, EndsInv
    <3>5. \A c \in Conns : Busy(c) => closing
      BY <3>1, <3>3, <3>4 DEF OneBusy, Quiet, Busy
    <3> QED
      BY <1>2, <2>1, <3>1, <3>2, <3>5 DEF OneBusy
  <2>5. CASE MuxExits \/ Kill
    <3>1. link' = 0 /\ stage' = "down" /\ process' = "exited" /\ pc' # "spawn"
      BY <2>5 DEF MuxExits, Kill, EpochEnds, scriptVars, Goto, OneBusy
    <3> QED
      BY <1>2, <2>1, <3>1 DEF OneBusy
  <2> QED
    BY <2>2, <2>3, <2>4, <2>5, LinkMoves
<1> QED
  BY <1>1, <1>2, BusyAfter

LEMMA UnrecordedStep ==
  ASSUME FlowInv, Linkage, PendingType, InScope, Unrecorded,
         [CheckNext]_checkVars
  PROVE  Unrecorded'
<1>1. CASE Unscripted
  <2>1. Malformed # "start" /\ Malformed \notin Watched
    BY DEF Malformed, Watched
  <2>2. Nowhere(Malformed)'
    BY <1>1, <2>1, UnscriptedFlows, FlowsKeep DEF Unrecorded
  <2>3. ASSUME ~ Recording' PROVE ~ Recording
    BY <1>1, <2>3, UnscriptedPc DEF Recording, Cleanup
  <2>4. ASSUME NEW op \in Watched, ~ Recording PROVE Nowhere(op)'
    <3>1. ~ SendUnasked /\ op # "start"
      BY <2>4 DEF SendUnasked, Watched
    <3> QED
      BY <1>1, <2>4, <3>1, UnscriptedFlows, FlowsKeep DEF Unrecorded
  <2> QED
    BY <2>2, <2>3, <2>4 DEF Unrecorded
<1>2. CASE ScriptTurn
  <2>1. ScopeScript
    BY <1>2 DEF ScriptTurn
  <2>2. UNCHANGED <<up, fwd, down>>
    BY <1>2, ScriptLeavesWires
  <2>3. Nowhere(Malformed)'
    <3>1. Malformed \notin Watched \cup {"contacts", "virtual"}
      BY DEF Malformed, Watched
    <3> QED
      BY <2>1, <2>2, <3>1, ScopeAsks, AsksFlows, FlowsKeep DEF Unrecorded
  <2>4. ASSUME ~ Recording' PROVE ~ Recording
    <3> USE DEF Recording, Goto, Cleanup
    <3>1. ASSUME NEW x,
                 \/ ExpectGeneration(x, "generation_1", "ready_1")
                 \/ ConnectPair(x, "connect_1", "contacts")
          PROVE  ~ Recording
      BY <3>1 DEF ExpectGeneration, ConnectPair
    <3>2. CASE Spawn \/ AwaitReady \/ AskContacts
      BY <3>2 DEF Spawn, AwaitReady, AskContacts
    <3>3. CASE \/ SelectScope \/ SendStatus \/ StatusAccepted \/ StatusRejected
               \/ ClockRead \/ ResetScope \/ CompareOrder \/ ScopeRaise
      BY <2>4, <3>3 DEF SelectScope, SendStatus, StatusAccepted,
         StatusRejected, ClockRead, ResetScope, CompareOrder, ScopeRaise, Raise
    <3> QED
      BY <2>1, <3>1, <3>2, <3>3 DEF ScopeScript, ScopeSetup
  <2>5. ASSUME NEW op \in Watched, ~ Recording' PROVE Nowhere(op)'
    <3>1. op \notin {"contacts"}
      BY DEF Watched
    <3>2. Asks({"contacts"})
      BY <2>1, <2>5, ScopeAsks
    <3>3. Nowhere(op)
      BY <2>4, <2>5 DEF Unrecorded
    <3> QED
      BY <2>2, <3>1, <3>2, <3>3, AsksFlows, FlowsKeep
  <2> QED
    BY <2>3, <2>5 DEF Unrecorded
<1> QED
  BY <1>1, <1>2 DEF CheckNext, Unscripted

\* The relay's record is one of what it copies.
LEMMA Recorded ==
  ASSUME FlowInv, InScope, EndsInv, Unrecorded, NEW c \in Conns, CopyTask(c),
         PumpCommand(c)
  PROVE  /\ up[c] \in Seq(Commands) /\ up[c] # <<>>
         /\ fwd' = [fwd EXCEPT ![c] = Append(fwd[c], Head(up[c]))]
         /\ order' = order
         /\ frame_history' = IF Head(up[c]) \in Watched
                             THEN Append(frame_history, Head(up[c]))
                             ELSE frame_history
<1>1. up[c] \in Seq(Commands) /\ up[c] # <<>>
  BY RelayAssumption DEF PumpCommand, NextFrame, FlowInv, WireType
<1>2. fwd' = [fwd EXCEPT ![c] = Append(fwd[c], Head(up[c]))]
  BY DEF PumpCommand, Written, EndsInv
<1>3. up' # up
  <2>1. up'[c] = Tail(up[c])
    BY DEF PumpCommand, FlowInv, WireType
  <2>2. Tail(up[c]) # up[c]
    <3>1. Len(Tail(up[c])) # Len(up[c])
      BY <1>1
    <3> QED
      BY <3>1
  <2> QED
    BY <2>1, <2>2
<1>4. Head(up[c]) \in Watched => Recording
  <2>1. <<"up", c, 1>> \in Spots /\ 1 \in DOMAIN up[c] /\ Head(up[c]) = up[c][1]
    BY <1>1, IsSpot
  <2> QED
    BY <2>1 DEF Unrecorded, Nowhere, At
<1> QED
  BY <1>1, <1>2, <1>3, <1>4 DEF CopyTask, RecordFrame

\* So is the companion's, of what it takes.
LEMMA Delivered ==
  ASSUME FlowInv, InScope, Unrecorded, NEW c \in Conns, CompanionTurn,
         CompanionReads(c, Answer(NextFrame(fwd[c])))
  PROVE  /\ fwd[c] \in Seq(Commands) /\ fwd[c] # <<>>
         /\ fwd' = [fwd EXCEPT ![c] = Tail(fwd[c])]
         /\ frame_history' = frame_history
         /\ order' = IF Head(fwd[c]) \in Watched
                     THEN Append(order, Head(fwd[c])) ELSE order
<1>1. fwd[c] \in Seq(Commands) /\ fwd[c] # <<>>
  BY DEF CompanionReads, FlowInv, WireType
<1>2. fwd' = [fwd EXCEPT ![c] = Tail(fwd[c])]
  BY DEF CompanionReads
<1>3. fwd'[c] # fwd[c] /\ \A d \in Conns : d # c => fwd'[d] = fwd[d]
  <2>1. Len(Tail(fwd[c])) # Len(fwd[c])
    BY <1>1
  <2> QED
    BY <1>2, <2>1 DEF FlowInv, WireType
<1>4. c = CHOOSE d \in Conns : fwd'[d] # fwd[d]
  BY <1>3
<1>5. Head(fwd[c]) \in Watched => Recording
  <2>1. <<"fwd", c, 1>> \in Spots /\ 1 \in DOMAIN fwd[c] /\ Head(fwd[c]) = fwd[c][1]
    BY <1>1, IsSpot
  <2> QED
    BY <2>1 DEF Unrecorded, Nowhere, At
<1>6. fwd' # fwd
  BY <1>3
<1> QED
  BY <1>1, <1>2, <1>4, <1>5, <1>6 DEF CompanionTurn, RecordOrder

\* No other step touches either record.
LEMMA RecordsKept ==
  ASSUME FlowInv, Linkage, InScope, conduct # "any", [CheckNext]_checkVars
  PROVE  \/ UNCHANGED <<fwd, frame_history, order>>
         \/ \E c \in Conns : CopyTask(c) /\ PumpCommand(c)
         \/ /\ CompanionTurn
            /\ \E c \in Conns : CompanionReads(c, Answer(NextFrame(fwd[c])))
<1> USE DEF wireVars, scopeVars
<1>1. ASSUME NEW c \in Conns, CopyTask(c), ~ PumpCommand(c)
      PROVE  UNCHANGED <<fwd, frame_history, order>>
  <2>1. UNCHANGED <<up, fwd>>
    BY <1>1 DEF CopyTask, HandlerTask, HandlerStep, PumpResponse, AcquireLock,
       OpenPhysical, PumpsEnd, Finish
  <2> QED
    BY <1>1, <2>1 DEF CopyTask, RecordFrame
<1>2. CASE CompanionTurn
  BY <1>2 DEF CompanionTurn, CompanionStep
<1>3. CASE MuxTurn \/ ScriptTurn \/ CleanupTurn \/ CloseTurn \/ UNCHANGED checkVars
  <2>1. UNCHANGED <<frame_history, order>>
    BY <1>3 DEF MuxTurn, ScriptTurn, CleanupTurn, CloseTurn, checkVars
  <2>2. MuxStart \/ MuxDispatch \/ SendUnasked => UNCHANGED fwd
    BY DEF MuxStart, MuxDispatch, SendUnasked, MuxSends
  <2> QED
    BY <1>3, <2>1, <2>2, BusyMoves
<1> QED
  BY <1>1, <1>2, <1>3 DEF CheckNext

LEMMA InOrderStep ==
  ASSUME FlowInv, Linkage, InScope, conduct # "any", EndsInv, OneBusy, Unrecorded,
         InOrder, [CheckNext]_checkVars
  PROVE  InOrder'
<1>1. CASE UNCHANGED <<fwd, frame_history, order>>
  BY <1>1 DEF InOrder
<1>2. ASSUME NEW c \in Conns, CopyTask(c), PumpCommand(c)
      PROVE  InOrder'
  <2> DEFINE op == Head(up[c])
  <2>1. /\ op \in Commands
        /\ fwd' = [fwd EXCEPT ![c] = Append(fwd[c], op)]
        /\ order' = order
        /\ frame_history' = IF op \in Watched THEN Append(frame_history, op)
                            ELSE frame_history
    <3>1. up[c] \in Seq(Commands) /\ up[c] # <<>>
      BY <1>2, Recorded
    <3>2. op \in Commands
      BY <3>1
    <3> QED
      BY <1>2, <3>2, Recorded
  <2>2. fwd \in [Conns -> Seq(Commands)]
    BY DEF FlowInv, WireType
  <2> HIDE DEF op
  <2>3. /\ frame_history' \in Seq(Watched) /\ Len(order) \in Nat
        /\ Len(order) <= Len(frame_history')
        /\ \A k \in DOMAIN order : order[k] = frame_history'[k]
    <3>1. CASE op \in Watched
      <4>1. /\ Len(frame_history') = Len(frame_history) + 1
            /\ DOMAIN frame_history = 1 .. Len(frame_history)
            /\ \A k \in DOMAIN frame_history : frame_history'[k] = frame_history[k]
        BY <2>1, <3>1, LastQueued DEF InOrder
      <4>2. frame_history' \in Seq(Watched)
        BY <2>1, <3>1 DEF InOrder
      <4> QED
        BY <4>1, <4>2 DEF InOrder
    <3>2. CASE op \notin Watched
      BY <2>1, <3>2 DEF InOrder
    <3> QED
      BY <3>1, <3>2
  <2>4. ASSUME NEW d \in Conns, \A e \in Conns : e # d => fwd'[e] = <<>>
        PROVE  Continues(Len(order), frame_history', fwd'[d])
    <3>1. d = c
      <4>1. fwd'[c] # <<>>
        <5>1. fwd'[c] = Append(fwd[c], op) /\ fwd[c] \in Seq(Commands)
          BY <2>1, <2>2
        <5>2. Len(Append(fwd[c], op)) # 0
          BY <2>1, <5>1
        <5> QED
          BY <5>1, <5>2
      <4> QED
        BY <2>4, <4>1
    <3>2. \A e \in Conns : e # c => fwd[e] = <<>>
      BY <2>1, <2>2, <2>4, <3>1
    <3>3. Continues(Len(order), frame_history, fwd[c])
      BY <3>2 DEF InOrder
    <3>4. fwd'[d] = Append(fwd[c], op) /\ fwd[c] \in Seq(Commands)
      BY <2>1, <2>2, <3>1
    <3>5. IF op \in Watched
          THEN Continues(Len(order), Append(frame_history, op), Append(fwd[c], op))
          ELSE Continues(Len(order), frame_history, Append(fwd[c], op))
      BY <2>1, <2>3, <3>3, <3>4, ContinuesFurther DEF InOrder
    <3> QED
      BY <2>1, <3>4, <3>5
  <2> QED
    BY <2>1, <2>3, <2>4 DEF InOrder
<1>3. ASSUME NEW c \in Conns, CompanionTurn,
             CompanionReads(c, Answer(NextFrame(fwd[c])))
      PROVE  InOrder'
  <2> DEFINE op == Head(fwd[c])
             m == Len(order)
  <2>1. /\ fwd[c] \in Seq(Commands) /\ fwd[c] # <<>>
        /\ fwd' = [fwd EXCEPT ![c] = Tail(fwd[c])]
        /\ frame_history' = frame_history
        /\ order' = IF op \in Watched THEN Append(order, op) ELSE order
    BY <1>3, Delivered
  <2>2. fwd \in [Conns -> Seq(Commands)]
    BY DEF FlowInv, WireType
  <2>3. \A d \in Conns : d # c => fwd[d] = <<>>
    BY <2>1 DEF OneBusy, Busy
  <2>4. m \in Nat /\ Continues(m, frame_history, fwd[c])
    BY <2>3 DEF InOrder
  <2> HIDE DEF op
  <2>5. IF op \in Watched
        THEN /\ m < Len(frame_history) /\ frame_history[m + 1] = op
             /\ Continues(m + 1, frame_history, Tail(fwd[c]))
        ELSE Continues(m, frame_history, Tail(fwd[c]))
    BY <2>1, <2>4, ContinuesAfter DEF InOrder, op
  <2>6. /\ order' \in Seq(Watched) /\ Len(order') \in Nat
        /\ Len(order') <= Len(frame_history)
        /\ \A k \in DOMAIN order' : order'[k] = frame_history[k]
        /\ Continues(Len(order'), frame_history, Tail(fwd[c]))
    <3>1. CASE op \in Watched
      <4>1. /\ Len(order') = m + 1
            /\ DOMAIN order = 1 .. m /\ DOMAIN order' = 1 .. m + 1
            /\ \A k \in DOMAIN order : order'[k] = order[k]
            /\ order'[m + 1] = op
        BY <2>1, <3>1, LastQueued DEF InOrder
      <4>2. order' \in Seq(Watched)
        BY <2>1, <3>1 DEF InOrder
      <4>3. \A k \in DOMAIN order' : order'[k] = frame_history[k]
        BY <2>4, <2>5, <3>1, <4>1 DEF InOrder
      <4>4. Len(frame_history) \in Nat
        BY DEF InOrder
      <4> QED
        BY <2>4, <2>5, <3>1, <4>1, <4>2, <4>3, <4>4
    <3>2. CASE op \notin Watched
      BY <2>1, <2>4, <2>5, <3>2 DEF InOrder
    <3> QED
      BY <3>1, <3>2
  <2>7. ASSUME NEW d \in Conns, \A e \in Conns : e # d => fwd'[e] = <<>>
        PROVE  Continues(Len(order'), frame_history, fwd'[d])
    <3>1. CASE d = c
      BY <2>1, <2>2, <2>6, <3>1
    <3>2. CASE d # c
      <4>1. Tail(fwd[c]) = <<>> /\ fwd'[d] = <<>>
        BY <2>1, <2>2, <2>3, <2>7, <3>2
      <4> QED
        BY <2>6, <4>1
    <3> QED
      BY <3>1, <3>2
  <2> QED
    BY <2>1, <2>6, <2>7 DEF InOrder
<1> QED
  BY <1>1, <1>2, <1>3, RecordsKept

LEMMA ComparedStep ==
  ASSUME VerdictInv, InScope, InOrder, Compared, [CheckNext]_checkVars
  PROVE  Compared'
<1> SUFFICES ASSUME verdict' = "ok"
             PROVE  Compared'
  BY DEF Compared
<1>1. PcStep
  BY PcSteps
<1>2. \A x : Frame(x)' = Frame(x)
  BY <1>1 DEF PcStep, Frame
<1>3. CASE verdict = "ok"
  <2>1. /\ \/ frame_history' = frame_history
           \/ \E c \in Conns : frame_history' = Append(frame_history, Head(up[c]))
    <3>1. CASE \E c \in Conns : CopyTask(c)
      BY <3>1 DEF CopyTask, RecordFrame
    <3>2. CASE ~ \E c \in Conns : CopyTask(c)
      BY <3>2 DEF CheckNext, CloseTurn, CompanionTurn, MuxTurn, ScriptTurn,
         CleanupTurn, scopeVars, checkVars
    <3> QED
      BY <3>1, <3>2
  <2>2. /\ Len(frame_history') >= 4
        /\ \A i \in 1 .. 4 : frame_history'[i] = frame_history[i]
    <3>1. /\ Len(frame_history) >= 4 /\ Len(frame_history) \in Nat
          /\ DOMAIN frame_history = 1 .. Len(frame_history)
      BY <1>3 DEF Compared, InOrder
    <3>2. \A x : /\ Len(Append(frame_history, x)) = Len(frame_history) + 1
                 /\ \A i \in DOMAIN frame_history :
                      Append(frame_history, x)[i] = frame_history[i]
      BY LastQueued DEF InOrder
    <3>3. 1 .. 4 \subseteq DOMAIN frame_history
      BY <3>1
    <3> QED
      BY <2>1, <3>1, <3>2, <3>3
  <2>3. ExpectedOrder' = ExpectedOrder
    BY DEF ExpectedOrder
  <2> QED
    BY <1>2, <1>3, <2>2, <2>3 DEF Compared
<1>4. CASE verdict # "ok"
  <2>1. CompareOrder /\ frame_history' = frame_history
    <3>1. ScriptTurn
      BY <1>4 DEF CheckNext, CopyTask, HandlerTask, CloseTurn, CloseTask,
         CompanionTurn, CompanionStep, MuxTurn, MuxStep, MuxConnect, MuxStart,
         MuxDispatch, MuxReceive, MuxGivesUp, MuxExits, AnswerLocally,
         SendUnasked, CleanupTurn, CleanupStep, DisconnectClients, Reaped, Kill,
         CloseRelay, Ended, Goto, scriptVars, checkVars, reconnectVars
    <3>2. ASSUME NEW g, NEW x, NEW from, NEW to,
                 \/ ExpectGeneration(g, from, to) \/ ConnectPair(x, from, to)
          PROVE  FALSE
      BY <1>4, <3>2 DEF ExpectGeneration, ConnectPair, Goto
    <3>3. CASE \/ Spawn \/ AwaitReady \/ AskContacts \/ SelectScope
               \/ SendStatus \/ StatusAccepted \/ StatusRejected \/ ClockRead
               \/ ResetScope \/ ScopeRaise
      BY <1>4, <3>3 DEF Spawn, AwaitReady, AskContacts, SelectScope, SendStatus,
         StatusAccepted, StatusRejected, ClockRead, ResetScope, ScopeRaise,
         Raise, Goto
    <3> QED
      BY <3>1, <3>2, <3>3 DEF ScriptTurn, ScopeScript, ScopeSetup, scopeVars
  <2>2. Frames(frame_history) = Frames(ExpectedOrder)
    BY <2>1 DEF CompareOrder, OrderMatches
  <2>3. DOMAIN frame_history = 1 .. 4
    <3>1. DOMAIN Frames(frame_history) = DOMAIN frame_history
      BY DEF Frames
    <3>2. DOMAIN Frames(ExpectedOrder) = 1 .. 4
      BY DEF Frames, ExpectedOrder
    <3> QED
      BY <2>2, <3>1, <3>2
  <2>4. Len(frame_history) = 4
    BY <2>3 DEF InOrder
  <2>5. \A i \in 1 .. 4 : Frame(frame_history[i]) = Frame(ExpectedOrder[i])
    <3> SUFFICES ASSUME NEW i \in 1 .. 4
                 PROVE  Frame(frame_history[i]) = Frame(ExpectedOrder[i])
      OBVIOUS
    <3>1. Frames(frame_history)[i] = Frame(frame_history[i])
      BY <2>3 DEF Frames
    <3>2. i \in DOMAIN ExpectedOrder
      BY DEF ExpectedOrder
    <3>3. Frames(ExpectedOrder)[i] = Frame(ExpectedOrder[i])
      BY <3>2 DEF Frames
    <3> QED
      BY <2>2, <3>1, <3>3
  <2>6. ExpectedOrder' = ExpectedOrder
    BY DEF ExpectedOrder
  <2> QED
    BY <1>2, <2>1, <2>4, <2>5, <2>6 DEF Compared
<1> QED
  BY <1>3, <1>4

LEMMA ScopeInit ==
  ASSUME CheckInit
  PROVE  ScopeInv
<1> SUFFICES ASSUME InScope
             PROVE  /\ conduct # "any" /\ EndsInv /\ OneBusy /\ Unrecorded
                    /\ InOrder /\ Compared
  BY DEF ScopeInv
<1>1. ScriptInit(Modes, {"good", "unruly"}) /\ frame_history = <<>> /\ order = <<>>
  BY LiveReconnectAssumption
  DEF CheckInit, ReconnectInit, ScriptInit, InScope, ScenarioNames
<1>2. RelayInit
  BY <1>1 DEF ScriptInit
<1>3. /\ conduct # "any" /\ verdict = "none" /\ pc = "spawn" /\ pending = <<>>
      /\ process = "none" /\ link = 0 /\ stage = "down"
  BY <1>1 DEF ScriptInit
<1>4. EndsInv
  BY <1>2 DEF RelayInit, EndsInv
<1>5. OneBusy
  BY <1>2, <1>3 DEF RelayInit, OneBusy, Busy
<1>6. Unrecorded
  <2>1. /\ up = [c \in Conns |-> <<>>] /\ fwd = [c \in Conns |-> <<>>]
        /\ down = [c \in Conns |-> <<>>]
    BY <1>2 DEF RelayInit
  <2>2. \A cmd : Nowhere(cmd)
    BY <1>3, <2>1 DEF Nowhere, At
  <2> QED
    BY <2>2 DEF Unrecorded
<1>7. InOrder
  <2>1. <<>> \in Seq(Watched) /\ Len(<<>>) = 0 /\ DOMAIN <<>> = {}
    OBVIOUS
  <2>2. Continues(0, <<>>, <<>>)
    <3>1. 0 \in Nat /\ 0 >= Len(<<>>)
      BY <2>1
    <3>2. Continues(0, <<>>, <<>>) <=> 0 >= Len(<<>>)
      BY <2>1, <3>1, ContinuesNothing, Zenon
    <3> QED
      BY <3>1, <3>2, Zenon
  <2>3. \A c \in Conns : fwd[c] = <<>>
    BY <1>2 DEF RelayInit
  <2>4. frame_history = <<>> /\ order = <<>>
    BY <1>1
  <2>5. \A c \in Conns : Continues(Len(order), frame_history, fwd[c])
    BY <2>1, <2>2, <2>3, <2>4
  <2> QED
    BY <2>1, <2>4, <2>5 DEF InOrder
<1>8. Compared
  BY <1>3 DEF Compared
<1> QED
  BY <1>3, <1>4, <1>5, <1>6, <1>7, <1>8

LEMMA ScopeStep ==
  ASSUME FaultInv, ScopeInv, [CheckNext]_checkVars
  PROVE  ScopeInv'
<1>1. PcStep
  BY PcSteps DEF FaultInv
<1> SUFFICES ASSUME InScope
             PROVE  /\ conduct' # "any" /\ EndsInv' /\ OneBusy' /\ Unrecorded'
                    /\ InOrder' /\ Compared'
  BY <1>1 DEF ScopeInv, InScope, PcStep
<1>2. /\ conduct # "any" /\ EndsInv /\ OneBusy /\ Unrecorded /\ InOrder
      /\ Compared
  BY DEF ScopeInv
<1>3. RelayInv /\ Linkage /\ FlowInv /\ PendingType /\ VerdictInv
  BY DEF FaultInv
<1>4. conduct' # "any"
  BY <1>1, <1>2 DEF PcStep
<1>5. EndsInv'
  BY <1>2, <1>3, EndsStep DEF Unrecorded
<1> QED
  BY <1>2, <1>3, <1>4, <1>5, OneBusyStep, UnrecordedStep, InOrderStep,
     ComparedStep

\* Whatever an unruly multiplexer sends and answers, an "ok" of check_scope.py
\* means that the companion took the commands that the script watches in the
\* expected order.
THEOREM ScopeOrderIsShown == CheckSpec => []ScopeOrderShown
<1>1. CheckInit => FaultInv /\ ScopeInv
  BY FaultInit, ScopeInit
<1>2. (FaultInv /\ ScopeInv) /\ [CheckNext]_checkVars => (FaultInv /\ ScopeInv)'
  BY FaultStep, ScopeStep
<1>3. FaultInv /\ ScopeInv => ScopeOrderShown
  <2> SUFFICES ASSUME ScopeInv, verdict = "ok", InScope
               PROVE  \/ IsPrefix(Frames(order), Frames(ExpectedOrder))
                      \/ IsPrefix(Frames(ExpectedOrder), Frames(order))
    BY DEF ScopeOrderShown
  <2> DEFINE s == Frames(order)
             t == Frames(ExpectedOrder)
             n == Len(order)
  <2>1. /\ order \in Seq(Watched) /\ n \in Nat /\ n <= Len(frame_history)
        /\ DOMAIN order = 1 .. n /\ Len(frame_history) >= 4
        /\ \A k \in DOMAIN order : order[k] = frame_history[k]
        /\ \A i \in 1 .. 4 : Frame(frame_history[i]) = Frame(ExpectedOrder[i])
    BY DEF ScopeInv, InOrder, Compared
  <2>2. /\ s \in Seq({Frame(op) : op \in Watched}) /\ Len(s) = n
        /\ \A k \in 1 .. n : s[k] = Frame(order[k])
    <3>1. s = [i \in 1 .. n |-> Frame(order[i])]
      BY <2>1 DEF Frames
    <3>2. \A i \in 1 .. n : Frame(order[i]) \in {Frame(op) : op \in Watched}
      BY <2>1
    <3> QED
      BY <2>1, <3>1, <3>2
  <2>3. /\ t \in Seq({Frame(op) : op \in Watched}) /\ Len(t) = 4
        /\ \A k \in 1 .. 4 : t[k] = Frame(ExpectedOrder[k])
    <3>1. DOMAIN ExpectedOrder = 1 .. 4
          /\ \A k \in 1 .. 4 : ExpectedOrder[k] \in Watched
      BY DEF ExpectedOrder, Watched
    <3>2. t = [i \in 1 .. 4 |-> Frame(ExpectedOrder[i])]
      BY <3>1 DEF Frames
    <3> QED
      BY <3>1, <3>2
  <2>4. \A k \in 1 .. 4 : k <= n => s[k] = t[k]
    BY <2>1, <2>2, <2>3
  <2> HIDE DEF s, t, n
  <2>5. CASE n <= 4
    <3>1. SubSeq(s, 1, n) = SubSeq(t, 1, n)
      BY <2>1, <2>2, <2>3, <2>4, <2>5
    <3>2. IsPrefix(s, t)
      BY <2>2, <2>3, <2>5, <3>1 DEF IsPrefix
    <3> QED
      BY <3>2 DEF s, t
  <2>6. CASE n > 4
    <3>1. SubSeq(t, 1, 4) = SubSeq(s, 1, 4)
      BY <2>1, <2>2, <2>3, <2>4, <2>6
    <3>2. IsPrefix(t, s)
      BY <2>2, <2>3, <2>6, <3>1 DEF IsPrefix
    <3> QED
      BY <3>2 DEF s, t
  <2> QED
    BY <2>1, <2>5, <2>6
<1> QED
  BY <1>1, <1>2, <1>3, PTL DEF CheckSpec
=============================================================================
