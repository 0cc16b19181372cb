--------------------------- MODULE LiveReconnect ---------------------------
(***************************************************************************)
(* check_live_reconnect.py: the script that starts a multiplexer behind    *)
(* the relay, provokes the end of its first epoch in one of three ways,    *)
(* and reports "ok" if the multiplexer recovers and a queued command did   *)
(* not enter the ambiguous epoch.                                          *)
(*                                                                         *)
(* The verdict has to be right about any multiplexer, so in the conduct    *)
(* "any" the multiplexer may dispatch, close and fail as it likes, and     *)
(* every wait of the script may time out.  In the conduct "good" it serves *)
(* its clients' commands one at a time and gives up the epoch when a reply *)
(* stays out, and nothing else fails.                                      *)
(***************************************************************************)
EXTENDS Relay

CONSTANTS
  Scenarios,    \* the scenarios that are run
  Conducts      \* the conducts of the environment

ScenarioNames == {"completed-drop", "single-timeout", "contacts-timeout"}

ASSUME LiveReconnectAssumption ==
  /\ Scenarios \subseteq ScenarioNames
  /\ Conducts \subseteq {"good", "any"}
  /\ {"start", "device", "time", "contacts", "battery"} \subseteq Commands
  /\ "battery" \in Queried
  /\ {"info", "time_reply", "contact", "end", "battery_reply"} \subseteq Responses

VARIABLES
  pc,           \* where run() is
  scenario, conduct,
  verdict,      \* "none" while it runs, "ok", "failed"
  process,      \* the multiplexer: "none", "running", "exited"
  link,         \* its upstream connection, 0 for none
  stage,        \* "down", "connected", "starting", "ready"
  epoch,        \* its last epoch
  pending,      \* commands of its clients, in order: <<client, opcode>>
  outstanding,  \* the command it waits for, or NoCommand
  ready,        \* queue: epochs announced on its standard error
  clients,      \* state of each client of the script
  executed,     \* history: <<generation, command>> of Successor received by the
                \* companion
  got           \* history: <<generation, response>> of HeldReplies received by the
                \* multiplexer

muxVars == <<process, link, stage, epoch, pending, outstanding>>
scriptVars == <<pc, scenario, conduct, verdict>>
otherVars == <<ready, clients, executed, got>>
reconnectVars == <<relayVars, muxVars, scriptVars, otherVars>>

Old == {"old-a", "old-b"}
Fresh == {"fresh-a", "fresh-b"}
NoCommand == <<"nobody", "none">>

Successor == {"battery"}             \* the command that is queued behind a fault
HeldReplies == {"time_reply", "end"} \* the replies that a fault keeps back

\* scenario and conduct are arguments of the run.
ScriptInit(scenarios, conducts) ==
  /\ RelayInit
  /\ pc = "spawn"
  /\ scenario \in scenarios
  /\ conduct \in conducts
  /\ verdict = "none"
  /\ process = "none"
  /\ link = 0
  /\ stage = "down"
  /\ epoch = 0
  /\ pending = <<>>
  /\ outstanding = NoCommand
  /\ ready = <<>>
  /\ clients = [c \in Old \cup Fresh |-> "none"]
  /\ executed = {}
  /\ got = {}

ReconnectInit == ScriptInit(Scenarios, Conducts)

-----------------------------------------------------------------------------
(* The companion: answers what it receives, in order.                      *)

Answer(op) ==
  CASE op \in {"start", "device"} -> <<"info">>
    [] op = "contacts" -> <<"contact", "end">>
    [] op = "time" -> <<"time_reply">>
    [] op = "battery" -> <<"battery_reply">>
    [] op \in {"scope", "default"} -> <<"ok">>
    [] op = "status" -> <<"sent">>
    [] OTHER -> <<>>

CompanionStep ==
  /\ \E c \in Conns :
       \/ /\ CompanionReads(c, Answer(NextFrame(fwd[c])))
          /\ executed' = executed \cup {<<gen[c], op>> : op \in {Head(fwd[c])} \cap Successor}
       \/ /\ conduct = "any"
          /\ CompanionCloses(c)
          /\ UNCHANGED executed
  /\ UNCHANGED <<muxVars, scriptVars, ready, clients, got>>

-----------------------------------------------------------------------------
(* The multiplexer, as the script sees it. *)

\* An epoch that ends takes the connections of its clients with it.
EpochEnds ==
  /\ link' = 0
  /\ stage' = "down"
  /\ pending' = <<>>
  /\ outstanding' = NoCommand
  /\ clients' = [c \in DOMAIN clients |->
                   IF clients[c] \in {"open", "waiting"} THEN "lost"
                   ELSE clients[c]]

\* The backoff of a good one (0.4 seconds or more) is longer than the script
\* takes to see the old epoch end and to lift the fault.
MuxConnect ==
  /\ process = "running"
  /\ stage = "down"
  /\ conduct = "good" =>
       pc \notin {"fault", "await_fault", "dropped", "disconnected", "closed", "reset"}
  /\ \E c \in Conns : MuxConnects(c) /\ link' = c
  /\ stage' = "connected"
  /\ epoch' = epoch + 1
  /\ UNCHANGED <<process, pending, outstanding, scriptVars, ready, clients,
                 executed, got>>

MuxStart ==
  /\ stage = "connected"
  /\ MuxSends(link, "start")
  /\ stage' = "starting"
  /\ UNCHANGED <<process, link, epoch, pending, outstanding, scriptVars,
                 otherVars>>

\* A multiplexer that does not wait for the reply is what the check is for.
MuxDispatch ==
  /\ stage = "ready"
  /\ pending # <<>>
  /\ Head(pending)[2] \in Commands
  /\ outstanding = NoCommand \/ conduct = "any"
  /\ MuxSends(link, Head(pending)[2])
  /\ outstanding' = Head(pending)
  /\ pending' = Tail(pending)
  /\ UNCHANGED <<process, link, stage, epoch, scriptVars, otherVars>>

Final(response) == response # "contact"

MuxReceive ==
  /\ link # 0
  /\ MuxReads(link)
  /\ LET response == Head(ret[link]) IN
       /\ got' = got \cup {<<gen[link], r>> : r \in {response} \cap HeldReplies}
       /\ IF stage = "starting"
          THEN /\ stage' = "ready"
               /\ ready' = Append(ready, epoch)
               /\ UNCHANGED <<outstanding, clients>>
          ELSE /\ UNCHANGED <<stage, ready>>
               /\ IF outstanding # NoCommand /\ Final(response)
                  THEN /\ outstanding' = NoCommand
                       /\ clients' = [c \in DOMAIN clients |->
                            IF c = outstanding[1] THEN "open" ELSE clients[c]]
                  ELSE UNCHANGED <<outstanding, clients>>
  /\ UNCHANGED <<process, link, epoch, pending, scriptVars, executed>>

Quiet(c) == up[c] = <<>> /\ fwd[c] = <<>> /\ down[c] = <<>> /\ ret[c] = <<>>

\* The response timeout, or the relay's end closed.
MuxGivesUp ==
  /\ process = "running"
  /\ link # 0
  /\ \/ conduct = "any"
     \/ ~ relay_open[link]
     \/ outstanding # NoCommand /\ Quiet(link)
  /\ MuxCloses(link)
  /\ EpochEnds
  /\ UNCHANGED <<process, epoch, scriptVars, ready, executed, got>>

\* On SIGTERM, or of its own accord.
MuxExits ==
  /\ process = "running"
  /\ pc = "reap" \/ conduct = "any"
  /\ process' = "exited"
  /\ IF link # 0 THEN MuxCloses(link) ELSE UNCHANGED relayVars
  /\ EpochEnds
  /\ UNCHANGED <<epoch, scriptVars, ready, executed, got>>

MuxStep ==
  \/ MuxConnect \/ MuxStart \/ MuxDispatch \/ MuxReceive
  \/ MuxGivesUp \/ MuxExits

-----------------------------------------------------------------------------
(* run() *)

Goto(from, to) ==
  /\ pc = from
  /\ pc' = to
  /\ UNCHANGED <<scenario, conduct, verdict>>

Spawn ==
  /\ Goto("spawn", "generation_1")
  /\ process' = "running"
  /\ UNCHANGED <<relayVars, link, stage, epoch, pending, outstanding, otherVars>>

\* expect_generation(relay.connections, g), then expect_generation(ready, g).
ExpectGeneration(g, from, to) ==
  /\ Goto(from, to)
  /\ connections # <<>> /\ Head(connections) = g
  /\ TakeConnection
  /\ UNCHANGED <<muxVars, otherVars>>

ExpectReady(g, from, to) ==
  /\ Goto(from, to)
  /\ Take(ready)
  /\ Head(ready) = g
  /\ UNCHANGED <<relayVars, muxVars, clients, executed, got>>

ConnectPair(pair, from, to) ==
  /\ Goto(from, to)
  /\ stage = "ready"
  /\ clients' = [c \in DOMAIN clients |-> IF c \in pair THEN "open"
                                          ELSE clients[c]]
  /\ UNCHANGED <<relayVars, muxVars, ready, executed, got>>

\* A client's command reaches the multiplexer, if it is still connected.
Request(c, op) == IF clients[c] = "open" THEN << <<c, op>> >> ELSE <<>>

Ask(requests, askers) ==
  /\ pending' = pending \o requests
  /\ clients' = [c \in DOMAIN clients |->
                   IF clients[c] = "open" /\ c \in askers THEN "waiting"
                   ELSE clients[c]]
  /\ UNCHANGED <<process, link, stage, epoch, outstanding>>

QueryPair(a, b, from, to) ==
  /\ Goto(from, to)
  /\ Ask(Request(a, "device") \o Request(b, "device"), {a, b})
  /\ UNCHANGED <<relayVars, ready, executed, got>>

PairAnswered(a, b, from, to) ==
  /\ Goto(from, to)
  /\ clients[a] = "open" /\ clients[b] = "open"
  /\ UNCHANGED <<relayVars, muxVars, otherVars>>

DropGeneration ==
  /\ scenario = "completed-drop"
  /\ Goto("fault", "dropped")
  /\ Drop(1)
  /\ UNCHANGED <<muxVars, otherVars>>

DropObserved ==
  /\ Goto("dropped", "disconnected")
  /\ TakeClosed
  /\ Head(closed) = 1
  /\ UNCHANGED <<muxVars, otherVars>>

HoldReply ==
  /\ scenario = "single-timeout"
  /\ Goto("fault", "await_fault")
  /\ HoldNextResponse(1, "time_reply")
  /\ Ask(Request("old-a", "time"), {"old-a"})
  /\ UNCHANGED <<ready, executed, got>>

PauseStream ==
  /\ scenario = "contacts-timeout"
  /\ Goto("fault", "await_fault")
  /\ PauseAfterResponse(1, "contact")
  /\ Ask(Request("old-a", "contacts"), {"old-a"})
  /\ UNCHANGED <<ready, executed, got>>

\* wait_fault, then the successor is queued.
FaultReached ==
  /\ Goto("await_fault", "disconnected")
  /\ TakeFault
  /\ Head(fault_reached) =
       <<1, IF scenario = "single-timeout" THEN "time_reply" ELSE "contact">>
  /\ Ask(Request("old-b", "battery"), {"old-b"})
  /\ UNCHANGED <<ready, executed, got>>

OldDisconnected ==
  /\ Goto("disconnected",
          IF scenario = "completed-drop" THEN "generation_2" ELSE "closed")
  /\ \A c \in Old : clients[c] = "lost"
  /\ UNCHANGED <<relayVars, muxVars, otherVars>>

\* Mutant of OldClosed: the sessions' end is taken for the connection's.
ClosedUnseen ==
  /\ Goto("closed", "reset")
  /\ UNCHANGED <<relayVars, muxVars, otherVars>>

OldClosed ==
  /\ Goto("closed", "reset")
  /\ TakeClosed
  /\ Head(closed) = 1
  /\ UNCHANGED <<muxVars, otherVars>>

ClearFaults ==
  /\ Goto("reset", "successor")
  /\ ResetFaults
  /\ UNCHANGED <<muxVars, otherVars>>

SuccessorNotSent ==
  /\ Goto("successor", "generation_2")
  /\ count_frames(1, "battery") = 0
  /\ UNCHANGED <<relayVars, muxVars, otherVars>>

Succeed ==
  /\ pc = "answered_2"
  /\ \A c \in Fresh : clients[c] = "open"
  /\ pc' = "finally"
  /\ verdict' = "ok"
  /\ UNCHANGED <<scenario, conduct, relayVars, muxVars, otherVars>>

Cleanup == {"finally", "reap", "close", "join", "end"}

\* A timeout, a refusal, an unexpected generation, fault or answer, a
\* successor that was sent.
Raise ==
  /\ pc \notin Cleanup
  /\ conduct # "good"
  /\ pc' = "finally"
  /\ verdict' = "failed"
  /\ UNCHANGED <<scenario, conduct, relayVars, muxVars, otherVars>>

ScriptStep ==
  \/ Spawn
  \/ ExpectGeneration(1, "generation_1", "ready_1")
  \/ ExpectReady(1, "ready_1", "connect_1")
  \/ ConnectPair(Old, "connect_1", "query_1")
  \/ QueryPair("old-a", "old-b", "query_1", "answered_1")
  \/ PairAnswered("old-a", "old-b", "answered_1", "fault")
  \/ DropGeneration
  \/ DropObserved
  \/ HoldReply
  \/ PauseStream
  \/ FaultReached
  \/ OldDisconnected
  \/ OldClosed
  \/ ClearFaults
  \/ SuccessorNotSent
  \/ ExpectGeneration(2, "generation_2", "ready_2")
  \/ ExpectReady(2, "ready_2", "connect_2")
  \/ ConnectPair(Fresh, "connect_2", "query_2")
  \/ QueryPair("fresh-a", "fresh-b", "query_2", "answered_2")
  \/ Succeed
  \/ Raise

-----------------------------------------------------------------------------
(* The finally clause *)

DisconnectClients ==
  /\ Goto("finally", "reap")
  /\ clients' = [c \in DOMAIN clients |->
                   IF clients[c] = "none" THEN "none" ELSE "closed"]
  /\ UNCHANGED <<relayVars, muxVars, ready, executed, got>>

\* Mutant of Reaped: SIGTERM and no wait.
NotReaped ==
  /\ Goto("reap", "close")
  /\ UNCHANGED <<relayVars, muxVars, otherVars>>

Reaped ==
  /\ Goto("reap", "close")
  /\ process \in {"none", "exited"}
  /\ UNCHANGED <<relayVars, muxVars, otherVars>>

\* The process did not end within five seconds of SIGTERM.
Kill ==
  /\ Goto("reap", "close")
  /\ process = "running"
  /\ process' = "exited"
  /\ IF link # 0 THEN MuxCloses(link) ELSE UNCHANGED relayVars
  /\ EpochEnds
  /\ UNCHANGED <<epoch, ready, executed, got>>

CloseRelay ==
  /\ Goto("close", "join")
  /\ CloseServer
  /\ UNCHANGED <<muxVars, otherVars>>

\* relay.close() has returned; the reader of standard error ends with the
\* process.
Ended ==
  /\ Goto("join", "end")
  /\ shutdown = "done"
  /\ process # "running"
  /\ UNCHANGED <<relayVars, muxVars, otherVars>>

CleanupStep == DisconnectClients \/ Reaped \/ Kill \/ CloseRelay \/ Ended

HandlerTask(c) ==
  /\ HandlerStep(c) \/ (conduct = "any" /\ OpenFails(c))
  /\ UNCHANGED <<muxVars, scriptVars, otherVars>>

CloseTask ==
  /\ CancelTasks \/ Joined
  /\ UNCHANGED <<muxVars, scriptVars, otherVars>>

ReconnectNext ==
  \/ \E c \in Conns : HandlerTask(c)
  \/ CloseTask
  \/ CompanionStep
  \/ MuxStep
  \/ ScriptStep
  \/ CleanupStep

ReconnectSpec == ReconnectInit /\ [][ReconnectNext]_reconnectVars

Good == conduct = "good"

-----------------------------------------------------------------------------
(* Properties *)

\* A run that reports "ok" really had the case it is about, whatever the
\* multiplexer did: nothing of the queued successor reached the companion over
\* the contaminated connection, not even after it was checked, and the reply
\* that the fault point withholds stayed withheld, however late the script
\* looked at the fault.
FaultShown ==
  verdict = "ok" =>
    /\ scenario # "completed-drop" => <<1, "battery">> \notin executed
    /\ scenario = "single-timeout" => <<1, "time_reply">> \notin got
    /\ scenario = "contacts-timeout" => <<1, "end">> \notin got

\* However the run ends, its cleanup ends too, with the multiplexer dead, the
\* relay closed and no connection to the companion.
CleanupCompletes ==
  pc = "finally" ~>
    pc = "end" /\ process # "running" /\ \A c \in Conns : ~ physical_open[c]

\* The check does not fail a multiplexer that recovers.
GoodMuxPasses == Good ~> verdict = "ok"
=============================================================================
