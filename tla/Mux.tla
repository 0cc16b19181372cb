-------------------------------- MODULE Mux --------------------------------
(***************************************************************************)
(* The multiplexer at work: the broker, the upstream connection with its   *)
(* writer fiber and its two directions, the companion, and the runtime     *)
(* that replaces the connection and the broker after a failure.            *)
(*                                                                         *)
(* The upstream writer writes one frame at a time and then hands a Written *)
(* event to the coordinator before it takes the next; the companion's      *)
(* reply may reach the coordinator before that event does.                 *)
(***************************************************************************)
EXTENDS Broker, Companion

CONSTANTS
  MaxSessions,  \* bound on client connections
  MaxRequests,  \* bound on commands the clients send
  Faults        \* the faults of the outside world that can happen

FaultNames ==
  {"client closed", "client writer", "upstream writer", "upstream closed",
   "debt unpaid", "new identity"}

\* Every frame that this companion may send.
SentFrames ==
  LET codes == (UNION {SuccessCodes(op) : op \in Ops})
                 \cup DOMAIN RemotePushes \cup {"msg_waiting"}
      values == {0, Token} \cup {c.arg : c \in Commands}
  IN [code : codes \ {"message"}, arg : values]
       \cup [code : {"message"}, arg : 1 .. MaxArrivals]
       \cup [code : {"err"}, arg : {1, ErrBadState}]

\* The companion is one of those the broker is specified for, and does not ask
\* itself for telemetry over the radio: its own key names no peer.
ASSUME MuxAssumption ==
  /\ MaxSessions \in Nat
  /\ MaxRequests \in Nat
  /\ Faults \subseteq FaultNames
  /\ 1 .. MaxArrivals \subseteq Items
  /\ SentFrames \subseteq Frames
  /\ \A c \in Commands : c.op = "send_telemetry_req" => c.arg # SelfKey

VARIABLES
  wrote,        \* id of the write done but not yet reported, 0 for none
  usable,       \* @upstream_connection_usable
  sent          \* number of commands the clients have sent

linkVars == <<wrote, usable, sent>>
muxVars == <<vars, companionVars, linkVars>>

MuxInit ==
  /\ Init
  /\ CompanionInit
  /\ wrote = 0
  /\ usable = TRUE
  /\ sent = 0

-----------------------------------------------------------------------------
(* Steps of the clients and of the clock: the link is not involved.        *)

Clients ==
  /\ \/ \E d \in Slots \cup {0} : next_session < MaxSessions /\ Admit(d)
     \/ \E s \in DOMAIN sessions :
          \/ "client closed" \in Faults /\ ClientClosed(s)
          \/ "client writer" \in Faults /\ WriteFailed(s)
          \/ Written(s)
  /\ UNCHANGED <<companionVars, linkVars>>

ClientRequest ==
  /\ sent < MaxRequests
  /\ \E s \in DOMAIN sessions, command \in Commands : ClientFrame(s, command)
  /\ sent' = sent + 1
  /\ UNCHANGED <<companionVars, wrote, usable>>

Clock ==
  /\ \/ ResponseTimeout
     \/ UpstreamWriteTimeout
     \/ \E stuck \in SUBSET DOMAIN sessions,
          late \in SUBSET DOMAIN sessions,
          expired \in SUBSET {"remote", "signing"}, poll \in BOOLEAN :
          Tick(stuck, late, expired, poll)
     \/ \E i \in RingSlots : DmDeadline(i)
     \/ QuarantineDeadline
  /\ UNCHANGED <<companionVars, linkVars>>

Schedule == ScheduleStep /\ UNCHANGED <<companionVars, linkVars>>

-----------------------------------------------------------------------------
(* The upstream link *)

\* The writer goes on during drain_response_debt.
WriterWrites ==
  /\ phase = "idle"
  /\ usable
  /\ wrote = 0
  /\ TakeWrite
  /\ received' = Append(received, Head(outgoing))
  /\ wrote' = Head(outgoing).id
  /\ UNCHANGED <<replies, physical, arrived, flood_scope, requests, signer,
                 usable, sent>>

WriterReports ==
  /\ wrote # 0
  /\ UpstreamWritten(wrote) \/ (failed /\ UNCHANGED vars)
  /\ wrote' = 0
  /\ UNCHANGED <<companionVars, usable, sent>>

\* Runtime marks the connection unusable when a frame made the epoch fail.
FrameArrives ==
  /\ replies # <<>>
  /\ \/ UpstreamFrame(Head(replies).frame)
     \/ LateUpstreamFrame
  /\ replies' = Tail(replies)
  /\ usable' = ~ failed'
  /\ UNCHANGED <<received, physical, arrived, flood_scope, requests, signer,
                 wrote, sent>>

\* Replies on their way are gone; what was written may still be executed.
LinkFails ==
  /\ \/ "upstream closed" \in Faults /\ UpstreamClosed
     \/ "upstream writer" \in Faults /\ WriteFailed(0)
  /\ usable' = FALSE
  /\ replies' = <<>>
  /\ UNCHANGED <<received, physical, arrived, flood_scope, requests, signer,
                 wrote, sent>>

-----------------------------------------------------------------------------
(* Runtime after a failed epoch *)

\* drain_response_debt reads the still open connection for the reply that is
\* owed, however long it takes.
DrainDebt ==
  /\ usable
  /\ replies # <<>>
  /\ DrainUncertainFrame(Head(replies).frame)
  /\ replies' = Tail(replies)
  /\ UNCHANGED <<received, physical, arrived, flood_scope, requests, signer,
                 linkVars>>

\* The connection is replaced once nothing is owed, or after a quarantine
\* when the owed reply cannot come, or did not come in time ("debt unpaid").
\* Startup leaves the default scope selected.
Reconnect ==
  /\ usable /\ debt # NoTransaction => "debt unpaid" \in Faults
  /\ \E same_key \in BOOLEAN :
       /\ same_key \/ "new identity" \in Faults
       /\ Restart(same_key)
       /\ IF same_key THEN UNCHANGED <<physical, requests, signer>>
          ELSE physical' = <<>> /\ requests' = <<>> /\ signer' = 0
  /\ usable' = TRUE
  /\ wrote' = 0
  /\ received' = <<>>
  /\ replies' = <<>>
  /\ flood_scope' = DefaultScope
  /\ UNCHANGED <<arrived, sent>>

-----------------------------------------------------------------------------

\* Fibers are cooperative and the companion's steps commute with those of the
\* schedule loop, so neither is interleaved with the loop.
CompanionStep ==
  /\ phase = "idle"
  /\ ExecutePop \/ Execute \/ Refuse \/ Arrive(usable) \/ Report(usable)
  /\ UNCHANGED <<vars, linkVars>>

MuxNext ==
  \/ Clients
  \/ ClientRequest
  \/ Clock
  \/ Schedule
  \/ WriterWrites
  \/ WriterReports
  \/ FrameArrives
  \/ LinkFails
  \/ DrainDebt
  \/ Reconnect
  \/ CompanionStep

MuxSpec == MuxInit /\ [][MuxNext]_muxVars

-----------------------------------------------------------------------------
(* Properties of the broker and the companion together *)

\* What a reply, or a command on its way, was written for.
OnTheWire ==
  {outgoing[i].id : i \in DOMAIN outgoing}
    \cup {received[i].id : i \in DOMAIN received}
    \cup ({replies[i].id : i \in DOMAIN replies} \ {0})

\* Only one command at a time is between the broker and the companion: while
\* the epoch lives, everything on the wire belongs to the last write of the
\* running transaction, so every ordinary reply is attributed to the command
\* that caused it (ARCHITECTURE.md: "At most one local upstream transaction is
\* active, including internal inbox commands and hidden flood-scope setup or
\* restoration").
ReplyOwnership ==
  ~ failed =>
    /\ OnTheWire \subseteq {next_write}
    /\ OnTheWire # {} => active.step \in {"setup", "command", "restore"}

\* The response clock of a transaction does not run before its command is on
\* the wire: a completion event of an earlier write, delivered late, must not
\* start it.
ClockStartsAfterWrite == ~ failed /\ ResponseClockRuns => outgoing = <<>>

\* A command that floods is executed with the scope its own client selected,
\* and with no other client's.
ScopeIsolated ==
  ~ failed /\ received # <<>> /\ Head(received).command.op \in ScopeSend =>
    flood_scope = Head(received).scope

\* A companion that follows the protocol and a connection that stays up never
\* lose the epoch, whatever the clients do.
HealthyEpochSurvives == ~ failed

Increasing(queue) == \A i \in 1 .. Len(queue) - 1 : queue[i] < queue[i + 1]

\* Every queue holds items in the order in which they arrived, none twice, and
\* none that its client has been given before, across reconnections of the
\* client and of the companion.
InboxInOrder ==
  /\ \A s \in DOMAIN sessions :
       Increasing(<<sessions[s].last>> \o sessions[s].inbox)
  /\ \A d \in Slots : Increasing(<<slots[d].last>> \o slots[d].queue)

OnItsWay(i) ==
  \/ \E k \in DOMAIN physical : physical[k] = i
  \/ \E k \in DOMAIN replies : replies[k].frame = Frame("message", i)

\* A message taken from the companion reaches every dedicated slot, attached
\* or not, also when the epoch failed while the pop was unanswered.
SlotsMissNothing ==
  \A d \in Slots, i \in 1 .. arrived :
    \/ OnItsWay(i)
    \/ i <= slots[d].last
    \/ \E k \in DOMAIN slots[d].queue : slots[d].queue[k] = i

\* A popped message that the broker receives is kept for the clients without
\* a slot too: it enters the queue of each that stays connected, and becomes
\* the orphan if they had asked for it and have all left.
PopIsKept ==
  [][\A i \in Items :
       /\ replies # <<>>
       /\ Head(replies).frame = Frame("message", i)
       /\ replies' = Tail(replies)
       => /\ \A s \in DOMAIN sessions \cap DOMAIN sessions' :
               sessions[s].slot = 0 =>
                 \/ sessions'[s].last = i
                 \/ \E k \in DOMAIN sessions'[s].inbox :
                      sessions'[s].inbox[k] = i
          /\ /\ \A s \in DOMAIN sessions : sessions[s].slot # 0
             /\ IF failed THEN debt.had_multi_client
                ELSE active.had_multi_client
             => orphan' = i]_muxVars

\* The companion works on one remote request at a time, also when a client
\* leaves or the epoch fails between the request and its acceptance: the next
\* one is not sent before the result, or the lease's deadline.
OneRemoteOutstanding ==
  Len(requests)
    + Cardinality({i \in DOMAIN received :
                     received[i].command.op \in RemoteLease}) <= 1

\* The result of a remote request is written to the client that sent it, unless
\* that client has left or is cut off because its output is full, and it is
\* written to no other: whatever the clients and the lease go through between
\* the request and the result, while the epoch lives and the lease has not run
\* out of time.
ResultToRequester ==
  [][/\ replies # <<>>
     /\ replies' = Tail(replies)
     /\ Head(replies).frame.code \in DOMAIN RemotePushes
     => LET owner == Head(replies).owner
        IN /\ \A s \in DOMAIN sessions \cap DOMAIN sessions' :
                sessions'[s].writes # sessions[s].writes => s = owner
           /\ /\ owner \in DOMAIN sessions /\ ~ failed'
              /\ HasRoom(sessions[owner])
              => /\ owner \in DOMAIN sessions'
                 /\ sessions'[owner].writes
                      = Append(sessions[owner].writes, "frame")]_muxVars

\* Data and finish of a signature reach the companion only while the signing
\* operation it executes is their own client's, whoever leaves, is refused or
\* runs out of time in between.  What the lease has counted as accepted and as
\* pending stays within the limit announced.
SigningUninterrupted ==
  /\ ~ failed /\ received # <<>>
       /\ Head(received).command.op \in {"sign_data", "sign_finish"} =>
         signer = Head(received).owner
  /\ signing.owner # 0 => signing.accepted + signing.pending <= signing.limit

-----------------------------------------------------------------------------
(* Liveness.  The coordinator finishes each event's schedule loop and, in  *)
(* its select, takes every event that is ready in the end; the writer      *)
(* fiber keeps running, the companion answers what it receives and TCP     *)
(* delivers.  Strong fairness, since each schedule loop, after a tick say, *)
(* disables the event for a while.                                         *)

Fairness ==
  /\ WF_muxVars(Schedule)
  /\ SF_muxVars(WriterWrites)
  /\ SF_muxVars(WriterReports)
  /\ SF_muxVars(FrameArrives)
  /\ SF_muxVars(CompanionStep)

FairMuxSpec == MuxSpec /\ Fairness

\* Every command of a client that stays connected is answered in the end,
\* whatever the other clients do.
EveryCommandAnswered ==
  \A s \in 1 .. MaxSessions :
    (s \in DOMAIN sessions /\ sessions[s].owed # <<>>)
      ~> (s \notin DOMAIN sessions \/ sessions[s].owed = <<>>)
=============================================================================
