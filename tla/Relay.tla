------------------------------- MODULE Relay -------------------------------
(***************************************************************************)
(* ExclusiveFrameRelay: the relay that the live checks put between the     *)
(* multiplexer and the physical companion.  Each connection of the         *)
(* multiplexer gets a handler task; the handlers take turns for the        *)
(* physical companion, and the one whose turn it is copies whole frames in *)
(* both directions, except for the responses a fault point withholds.      *)
(*                                                                         *)
(* Tasks are cooperative: a step lasts from one await that blocks to the   *)
(* next.  The environment (multiplexer, companion, owner of the relay) may *)
(* do anything at any time here; module LiveReconnect constrains it.       *)
(***************************************************************************)
EXTENDS Naturals, Sequences

CONSTANTS
  MaxConnections,   \* bound on the multiplexer's connections
  Commands,         \* opcodes of commands
  Responses,        \* opcodes of responses
  Queried,          \* opcodes that count_frames is asked for
  WireCapacity,     \* bound on the frames under way in one direction
  WaitsForClients   \* Server.wait_closed waits for connections (Python 3.12)

ASSUME RelayAssumption ==
  /\ Commands \cap Responses = {}
  /\ "none" \notin Commands \cup Responses
  /\ Queried \subseteq Commands \cup Responses
  /\ MaxConnections \in Nat
  /\ WireCapacity \in Nat \ {0}
  /\ WaitsForClients \in BOOLEAN

\* Connections in the order in which they are accepted; their number also
\* bounds the generations.
Conns == 1 .. MaxConnections

\* Stands for bytes that are not a frame: a wrong marker or length, or an end
\* of the stream within a frame.
Malformed == "malformed"

VARIABLES
  handler,          \* per connection: where its task is
  gen,              \* per connection: its generation, 0 before it has one
  mux_open,         \* per connection: the multiplexer has not closed it
  relay_open,       \* per connection: nor has the relay (mux_writer)
  physical_open,    \* per connection: its physical connection is open
  peer_open,        \* per connection: nor has the companion closed that
  up, fwd,          \* frames from the multiplexer, and on to the companion
  down, ret,        \* frames from the companion, and on to the multiplexer
  generation,       \* _generation
  active,           \* the connection `active` refers to, 0 for None
  connections,      \* queue: generations opened, 0 for an exception
  closed,           \* queue: generations closed
  fault_reached,    \* queue: frames at which a fault point was reached
  frame_counts,     \* number of frames read, per generation and opcode of
                    \* Queried; those of the two directions are named apart
  hold_response,    \* <<generation, opcode>> or NoFault
  pause_after,      \* <<generation, opcode>> or NoFault; occurrence 1
  responses_paused,
  closing,          \* _closing
  shutdown          \* where close() is: "no", "waiting", "joining", "done"

handlerVars == <<handler, gen, generation, active, connections, closed>>
socketVars == <<mux_open, relay_open, physical_open, peer_open>>
wireVars == <<up, fwd, down, ret>>
faultVars == <<fault_reached, frame_counts, hold_response, pause_after,
               responses_paused>>
closeVars == <<closing, shutdown>>
relayVars == <<handlerVars, socketVars, wireVars, faultVars, closeVars>>

NoFault == <<0, "none">>

HandlerStates == {"none", "lock", "connect", "pump", "closing", "done"}

RelayInit ==
  /\ handler = [c \in Conns |-> "none"]
  /\ gen = [c \in Conns |-> 0]
  /\ mux_open = [c \in Conns |-> FALSE]
  /\ relay_open = [c \in Conns |-> FALSE]
  /\ physical_open = [c \in Conns |-> FALSE]
  /\ peer_open = [c \in Conns |-> FALSE]
  /\ up = [c \in Conns |-> <<>>]
  /\ fwd = [c \in Conns |-> <<>>]
  /\ down = [c \in Conns |-> <<>>]
  /\ ret = [c \in Conns |-> <<>>]
  /\ generation = 0
  /\ active = 0
  /\ connections = <<>>
  /\ closed = <<>>
  /\ fault_reached = <<>>
  /\ frame_counts = [f \in Conns \X Queried |-> 0]
  /\ hold_response = NoFault
  /\ pause_after = NoFault
  /\ responses_paused = FALSE
  /\ closing = FALSE
  /\ shutdown = "no"

-----------------------------------------------------------------------------
(* The environment: the multiplexer's and the companion's ends.            *)

MuxConnects(c) ==
  /\ handler[c] = "none"
  /\ \A d \in Conns : d < c => handler[d] # "none"
  /\ ~ closing
  /\ handler' = [handler EXCEPT ![c] = "lock"]
  /\ mux_open' = [mux_open EXCEPT ![c] = TRUE]
  /\ relay_open' = [relay_open EXCEPT ![c] = TRUE]
  /\ UNCHANGED <<gen, generation, active, connections, closed, physical_open,
                 peer_open, wireVars, faultVars, closeVars>>

MuxSends(c, op) ==
  /\ mux_open[c]
  /\ Len(up[c]) < WireCapacity
  /\ up' = [up EXCEPT ![c] = Append(@, op)]
  /\ UNCHANGED <<handlerVars, socketVars, fwd, down, ret, faultVars, closeVars>>

MuxReads(c) ==
  /\ mux_open[c]
  /\ ret[c] # <<>>
  /\ ret' = [ret EXCEPT ![c] = Tail(@)]
  /\ UNCHANGED <<handlerVars, socketVars, up, fwd, down, faultVars, closeVars>>

MuxCloses(c) ==
  /\ mux_open[c]
  /\ mux_open' = [mux_open EXCEPT ![c] = FALSE]
  /\ UNCHANGED <<handlerVars, relay_open, physical_open, peer_open, wireVars,
                 faultVars, closeVars>>

\* It reads what was written before the relay closed its end, too, and answers
\* with any number of frames.
CompanionReads(c, answer) ==
  /\ fwd[c] # <<>>
  /\ fwd' = [fwd EXCEPT ![c] = Tail(@)]
  /\ down' = IF physical_open[c] /\ peer_open[c]
             THEN [down EXCEPT ![c] = @ \o answer] ELSE down
  /\ UNCHANGED <<handlerVars, socketVars, up, ret, faultVars, closeVars>>

CompanionSends(c, op) ==
  /\ physical_open[c] /\ peer_open[c]
  /\ Len(down[c]) < WireCapacity
  /\ down' = [down EXCEPT ![c] = Append(@, op)]
  /\ UNCHANGED <<handlerVars, socketVars, up, fwd, ret, faultVars, closeVars>>

CompanionCloses(c) ==
  /\ physical_open[c] /\ peer_open[c]
  /\ peer_open' = [peer_open EXCEPT ![c] = FALSE]
  /\ UNCHANGED <<handlerVars, mux_open, relay_open, physical_open, wireVars,
                 faultVars, closeVars>>

-----------------------------------------------------------------------------
(* _handle *)

\* asyncio.Lock serves its waiters in order.
HoldsLock(c) == handler[c] \in {"connect", "pump", "closing"}

\* Mutant of AcquireLock: no lock.
ConnectWithoutLock(c) ==
  /\ handler[c] = "lock"
  /\ IF closing
     THEN /\ handler' = [handler EXCEPT ![c] = "done"]
          /\ relay_open' = [relay_open EXCEPT ![c] = FALSE]
     ELSE /\ handler' = [handler EXCEPT ![c] = "connect"]
          /\ UNCHANGED relay_open
  /\ UNCHANGED <<gen, generation, active, connections, closed, mux_open,
                 physical_open, peer_open, wireVars, faultVars, closeVars>>

AcquireLock(c) ==
  /\ handler[c] = "lock"
  /\ \A d \in Conns : ~ HoldsLock(d)
  /\ \A d \in Conns : d < c => handler[d] # "lock"
  /\ IF closing
     THEN /\ handler' = [handler EXCEPT ![c] = "done"]
          /\ relay_open' = [relay_open EXCEPT ![c] = FALSE]
     ELSE /\ handler' = [handler EXCEPT ![c] = "connect"]
          /\ UNCHANGED relay_open
  /\ UNCHANGED <<gen, generation, active, connections, closed, mux_open,
                 physical_open, peer_open, wireVars, faultVars, closeVars>>

OpenPhysical(c) ==
  /\ handler[c] = "connect"
  /\ handler' = [handler EXCEPT ![c] = "pump"]
  /\ generation' = generation + 1
  /\ gen' = [gen EXCEPT ![c] = generation']
  /\ active' = c
  /\ connections' = Append(connections, generation')
  /\ physical_open' = [physical_open EXCEPT ![c] = TRUE]
  /\ peer_open' = [peer_open EXCEPT ![c] = TRUE]
  /\ UNCHANGED <<closed, mux_open, relay_open, wireVars, faultVars, closeVars>>

OpenFails(c) ==
  /\ handler[c] = "connect"
  /\ handler' = [handler EXCEPT ![c] = "done"]
  /\ relay_open' = [relay_open EXCEPT ![c] = FALSE]
  /\ connections' = Append(connections, 0)
  /\ UNCHANGED <<gen, generation, active, closed, mux_open, physical_open,
                 peer_open, wireVars, faultVars, closeVars>>

NextFrame(wire) == IF wire = <<>> THEN "none" ELSE Head(wire)

\* A pump that copies from `source` ends: the far end of its source has closed
\* and all it had sent is copied, or it has a frame for a far end that is gone.
PumpEnds(source, source_open, sink_open) ==
  \/ ~ source_open /\ source = <<>>
  \/ ~ sink_open /\ source # <<>>
  \/ NextFrame(source) = Malformed

\* One of the pumps ends, or both writers were closed under them.  The other
\* pump is cancelled.
PumpsEnd(c) ==
  /\ handler[c] = "pump"
  /\ \/ ~ (relay_open[c] /\ physical_open[c])
     \/ PumpEnds(up[c], mux_open[c], peer_open[c])
     \/ PumpEnds(down[c], peer_open[c], mux_open[c])
  /\ handler' = [handler EXCEPT ![c] = "closing"]
  /\ UNCHANGED <<gen, generation, active, connections, closed, socketVars,
                 wireVars, faultVars, closeVars>>

Finish(c) ==
  /\ handler[c] = "closing"
  /\ handler' = [handler EXCEPT ![c] = "done"]
  /\ relay_open' = [relay_open EXCEPT ![c] = FALSE]
  /\ physical_open' = [physical_open EXCEPT ![c] = FALSE]
  /\ active' = IF active = c THEN 0 ELSE active
  /\ closed' = Append(closed, gen[c])
  /\ UNCHANGED <<gen, generation, connections, mux_open, peer_open, wireVars,
                 faultVars, closeVars>>

-----------------------------------------------------------------------------
(* _pump and _withhold *)

Counted(c, op) ==
  [f \in DOMAIN frame_counts |->
     IF f = <<gen[c], op>> THEN frame_counts[f] + 1 ELSE frame_counts[f]]

\* What is written to a writer that was closed under the pump is lost.
Written(open, wire, op) == IF open THEN Append(wire, op) ELSE wire

PumpCommand(c) ==
  /\ handler[c] = "pump"
  /\ NextFrame(up[c]) \in Commands \ {Malformed}
  /\ up' = [up EXCEPT ![c] = Tail(@)]
  /\ frame_counts' = Counted(c, Head(up[c]))
  /\ fwd' = [fwd EXCEPT ![c] = Written(physical_open[c], @, Head(up[c]))]
  /\ UNCHANGED <<handlerVars, socketVars, down, ret, fault_reached,
                 hold_response, pause_after, responses_paused, closeVars>>

Withheld(frame) == responses_paused \/ hold_response = frame

\* The frame that triggers a pause is itself forwarded.
Withhold(frame) ==
  IF responses_paused
  THEN UNCHANGED <<hold_response, pause_after, responses_paused, fault_reached>>
  ELSE
    /\ hold_response' = IF hold_response = frame THEN NoFault ELSE hold_response
    /\ pause_after' = IF pause_after = frame THEN NoFault ELSE pause_after
    /\ responses_paused' = (pause_after = frame)
    /\ fault_reached' = IF frame \in {hold_response, pause_after}
                        THEN Append(fault_reached, frame) ELSE fault_reached

PumpResponse(c) ==
  /\ handler[c] = "pump"
  /\ NextFrame(down[c]) \in Responses \ {Malformed}
  /\ LET frame == <<gen[c], Head(down[c])>> IN
       /\ down' = [down EXCEPT ![c] = Tail(@)]
       /\ frame_counts' = Counted(c, Head(down[c]))
       /\ Withhold(frame)
       /\ ret' = IF Withheld(frame) THEN ret
                 ELSE [ret EXCEPT ![c] = Written(relay_open[c], @, Head(down[c]))]
  /\ UNCHANGED <<handlerVars, socketVars, up, fwd, closeVars>>

-----------------------------------------------------------------------------
(* The owner's controls.  A control that raises changes nothing.           *)

Armed == hold_response # NoFault \/ pause_after # NoFault

HoldNextResponse(g, op) ==
  /\ ~ Armed
  /\ hold_response' = <<g, op>>
  /\ UNCHANGED <<handlerVars, socketVars, wireVars, fault_reached,
                 frame_counts, pause_after, responses_paused, closeVars>>

PauseAfterResponse(g, op) ==
  /\ ~ Armed
  /\ pause_after' = <<g, op>>
  /\ UNCHANGED <<handlerVars, socketVars, wireVars, fault_reached,
                 frame_counts, hold_response, responses_paused, closeVars>>

\* Mutant of ResetFaults: only disarms.
DisarmFaults ==
  /\ hold_response' = NoFault
  /\ pause_after' = NoFault
  /\ UNCHANGED <<handlerVars, socketVars, wireVars, fault_reached,
                 frame_counts, responses_paused, closeVars>>

ResetFaults ==
  /\ hold_response' = NoFault
  /\ pause_after' = NoFault
  /\ responses_paused' = FALSE
  /\ UNCHANGED <<handlerVars, socketVars, wireVars, fault_reached,
                 frame_counts, closeVars>>

count_frames(g, op) == frame_counts[<<g, op>>]

\* drop up to its wait for the generation to be reported closed.
CanDrop(g) == active # 0 /\ gen[active] = g

Drop(g) ==
  /\ CanDrop(g)
  /\ relay_open' = [relay_open EXCEPT ![active] = FALSE]
  /\ physical_open' = [physical_open EXCEPT ![active] = FALSE]
  /\ UNCHANGED <<handlerVars, mux_open, peer_open, wireVars, faultVars,
                 closeVars>>

\* The owner takes the first entry of one of the relay's queues.
Take(queue) == queue # <<>> /\ queue' = Tail(queue)

TakeConnection ==
  /\ Take(connections)
  /\ UNCHANGED <<handler, gen, generation, active, closed, socketVars,
                 wireVars, faultVars, closeVars>>

TakeClosed ==
  /\ Take(closed)
  /\ UNCHANGED <<handler, gen, generation, active, connections, socketVars,
                 wireVars, faultVars, closeVars>>

TakeFault ==
  /\ Take(fault_reached)
  /\ UNCHANGED <<handlerVars, socketVars, wireVars, frame_counts,
                 hold_response, pause_after, responses_paused, closeVars>>

\* close, up to Server.wait_closed.
CloseServer ==
  /\ shutdown = "no"
  /\ closing' = TRUE
  /\ shutdown' = "waiting"
  /\ UNCHANGED <<handlerVars, socketVars, wireVars, faultVars>>

\* close, up to the join: the active connection is closed and every task is
\* cancelled.  A task that waits for its turn or for its connection just
\* ends; one that has a connection closes it.  (One cancelled while it is
\* closing reports no generation any more; nobody reads the report.)
CancelTasks ==
  /\ shutdown = "waiting"
  /\ WaitsForClients => \A c \in Conns : ~ relay_open[c]
  /\ shutdown' = "joining"
  /\ handler' = [c \in Conns |->
       CASE handler[c] \in {"lock", "connect"} -> "done"
         [] handler[c] = "pump" -> "closing"
         [] OTHER -> handler[c]]
  /\ relay_open' = [c \in Conns |-> c # active /\ relay_open[c]]
  /\ physical_open' = [c \in Conns |-> c # active /\ physical_open[c]]
  /\ UNCHANGED <<gen, generation, active, connections, closed, mux_open,
                 peer_open, wireVars, faultVars, closing>>

Joined ==
  /\ shutdown = "joining"
  /\ \A c \in Conns : handler[c] \in {"none", "done"}
  /\ shutdown' = "done"
  /\ UNCHANGED <<handlerVars, socketVars, wireVars, faultVars, closing>>

-----------------------------------------------------------------------------

HandlerStep(c) ==
  \/ AcquireLock(c)
  \/ OpenPhysical(c)
  \/ PumpsEnd(c)
  \/ Finish(c)
  \/ PumpCommand(c)
  \/ PumpResponse(c)

RelayNext ==
  \/ CancelTasks
  \/ Joined
  \/ \E c \in Conns :
       \/ HandlerStep(c)
       \/ OpenFails(c)
       \/ MuxConnects(c)
       \/ \E op \in Commands : MuxSends(c, op)
       \/ MuxReads(c)
       \/ MuxCloses(c)
       \/ \E answer \in UNION {[1 .. n -> Responses] : n \in 0 .. WireCapacity} :
            CompanionReads(c, answer)
       \/ \E op \in Responses : CompanionSends(c, op)
       \/ CompanionCloses(c)
  \/ \E g \in Conns, op \in Responses :
       HoldNextResponse(g, op) \/ PauseAfterResponse(g, op)
  \/ ResetFaults
  \/ \E g \in Conns : Drop(g)
  \/ TakeConnection
  \/ TakeClosed
  \/ TakeFault
  \/ CloseServer

RelaySpec == RelayInit /\ [][RelayNext]_relayVars
-----------------------------------------------------------------------------

\* The relay hands the companion from one connection to the next: a new
\* generation opens only when the one before it is closed at the companion,
\* and once close() has returned to the script there is none any more.
Link == INSTANCE ExclusiveLink WITH
  link <- IF \E c \in Conns : physical_open[c] THEN generation ELSE 0,
  last <- generation,
  shut <- shutdown = "done"

CompanionIsExclusive == Link!LinkSpec
=============================================================================
