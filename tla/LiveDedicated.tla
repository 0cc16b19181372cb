--------------------------- MODULE LiveDedicated ---------------------------
(***************************************************************************)
(* check_live_dedicated.py: one client of the shared listener, one of each *)
(* dedicated port and one of a second radio (the peer) exchange marked     *)
(* messages, and the script reports "ok" if each of them got what it       *)
(* should have.                                                            *)
(*                                                                         *)
(* run() is a straight line of operations that depends on the settings     *)
(* only, so it is a sequence of steps (Program, one operator per phase)    *)
(* and one action per kind of step.  Each step may raise.  In the conduct  *)
(* "any" the radios and the multiplexer answer whatever they like; in the  *)
(* conduct "good" they behave and no deadline elapses.                     *)
(***************************************************************************)
EXTENDS Naturals, Sequences, FiniteSets, SequencesExt

CONSTANTS
  Port,       \* the endpoints of dedicated ports, in the order they are given
  Settings    \* the arguments of the runs, with the conduct

\* Endpoints are told apart by their names.
ASSUME PortAssumption ==
  /\ Port \in Seq(STRING \ {"multi", "peer"})
  /\ \A i, j \in DOMAIN Port : Port[i] = Port[j] => i = j

\* What parse_args accepts, as far as it decides the course of the run; ports
\* is the number of dedicated ports, the first ones of Port.
Arguments ==
  [ports : Nat \ {0}, channel : BOOLEAN, execute : BOOLEAN,
   max_unmatched : Nat, max_radio_sends : Nat \ {0},
   conduct : {"good", "any"}]

ASSUME SettingsAssumption ==
  Settings \subseteq {a \in Arguments : a.ports <= Len(Port)}

VARIABLES
  args,         \* the settings of this run
  at,           \* the step that is next
  pc,           \* "run", "finally", "end"
  verdict,      \* "none", "ok", "failed"
  matched,      \* within a receive_sequence: markers received so far
  unmatched,    \* and other messages
  active,       \* clients to be disconnected in the end
  used,         \* SendBudget.used
  key,          \* identity reported by the first client of each endpoint
  destination,  \* identity of the contact resolved at either radio
  secret,       \* secret of the channel resolved at either radio
  queues        \* AckCollector.queues

VARIABLES
  connected,    \* clients that are connected
  air,          \* messages that were sent and have not arrived
  receipts,     \* tokens whose acknowledgement has not arrived
  inbox,        \* per endpoint: messages that are kept for it
  transmitted,  \* history: [body, fenced], what was sent
  progress,     \* history: how much of Expected each endpoint was given
  extra,        \* history: whether it was given anything else
  late,         \* history: a reply came after its request had timed out
  acked         \* history: <<token, client>>, acknowledgements pushed

resultVars == <<args, verdict>>
receiveVars == <<matched, unmatched>>
radioVars == <<air, receipts, inbox, connected>>
historyVars == <<transmitted, progress, extra, late, acked>>
fenceVars == <<key, destination, secret>>
dedicatedVars == <<resultVars, at, pc, receiveVars, active, used, queues,
                   radioVars, historyVars, fenceVars>>

-----------------------------------------------------------------------------
(* Endpoints, clients and markers *)

Ports(a) == SubSeq(Port, 1, a.ports)
Listeners(a) == <<"multi">> \o Ports(a)
Endpoints == {"multi", "peer"} \cup Range(Port)

\* The n-th client of an endpoint.
Client(e, n) == <<e, n>>
Multi == Client("multi", 1)
Peer == Client("peer", 1)
First(e) == Client(e, 1)
Endpoint(c) == c[1]

\* The numbers that marker() gives out, in the order of its calls.
Inbound(a) == 2 + a.ports
Retained(a) == <<3 + a.ports, 4 + a.ports>>
TakeoverMarker(a) == 5 + a.ports
ChannelMarker(a) == 6 + a.ports

\* The text of a message has a marker as its "body", behind the name of a
\* sender as channel messages have it ("named"), or somewhere else ("buried").
Messages(bodies) ==
  [kind : {"contact", "channel"}, form : {"body", "named", "buried"},
   body : bodies]

Form(kind) == IF kind = "channel" THEN "named" ELSE "body"

inbox_text_matches(message, expected) ==
  /\ message.form = Form(message.kind)
  /\ message.body = expected

-----------------------------------------------------------------------------
(* The steps of run() *)

Open(c) == [do |-> "open", who |-> c]
Close(c) == [do |-> "close", who |-> c]
CompareIdentities == [do |-> "identities"]
Contacts(e) == [do |-> "contacts", who |-> First(e)]
Channel(e) == [do |-> "channel", who |-> First(e)]
CompareSecrets == [do |-> "secrets"]
Query == [do |-> "query"]
Attach(clients) == [do |-> "attach", who |-> clients]
Send(c, kind, body) == [do |-> "send", who |-> c, kind |-> kind, body |-> body]
Receive(c, kind, bodies) ==
  [do |-> "receive", who |-> c, kind |-> kind, bodies |-> bodies]
RequireAck(body, clients) == [do |-> "ack", body |-> body, who |-> clients]
Replaced(c) == [do |-> "replaced", who |-> c]

\* One step, or sequence of steps, for each of a sequence of endpoints.
Each(endpoints, Step(_)) == [i \in DOMAIN endpoints |-> Step(endpoints[i])]

Preflight(a) ==
  Each(Listeners(a), LAMBDA e : Open(First(e)))
  \o <<Open(Peer), CompareIdentities, Contacts("multi"), Contacts("peer")>>
  \o IF a.channel THEN <<Channel("multi"), Channel("peer"), CompareSecrets>>
                  ELSE <<>>

SharedQueries == <<Query>>

Shared(a) == {First(e) : e \in Range(Listeners(a))}

\* Mutant of ListenerSends: the collector is attached when it is first needed.
AttachedLate(a) ==
  FlattenSeq([i \in DOMAIN Listeners(a) |->
       <<Send(First(Listeners(a)[i]), "contact", i),
         Receive(Peer, "contact", <<i>>)>>
       \o (IF i = 1 THEN <<Attach(Shared(a) \cup {Peer})>> ELSE <<>>)
       \o <<RequireAck(i, Shared(a))>>])

\* Mutant of ListenerSends: only the sender awaits the acknowledgement.
SenderAwaits(a) ==
  <<Attach(Shared(a) \cup {Peer})>>
  \o FlattenSeq([i \in DOMAIN Listeners(a) |->
       <<Send(First(Listeners(a)[i]), "contact", i),
         Receive(Peer, "contact", <<i>>),
         RequireAck(i, {First(Listeners(a)[i])})>>])

ListenerSends(a) ==
  <<Attach(Shared(a) \cup {Peer})>>
  \o FlattenSeq([i \in DOMAIN Listeners(a) |->
       <<Send(First(Listeners(a)[i]), "contact", i),
         Receive(Peer, "contact", <<i>>),
         RequireAck(i, Shared(a))>>])

\* The peer sends a message, the client of the shared listener receives it.
FromPeer(body) ==
  <<Send(Peer, "contact", body), Receive(Multi, "contact", <<body>>),
    RequireAck(body, {Peer})>>

InboundFanout(a) ==
  FromPeer(Inbound(a))
  \o Each(Ports(a), LAMBDA e : Receive(First(e), "contact", <<Inbound(a)>>))

Backfill(a) ==
  Each(Ports(a), LAMBDA e : Close(First(e)))
  \o FromPeer(Retained(a)[1]) \o FromPeer(Retained(a)[2])
  \o FlattenSeq(Each(Ports(a), LAMBDA e :
       <<Open(Client(e, 2)), Receive(Client(e, 2), "contact", Retained(a))>>))

Takeover(a) ==
  <<Close(Client(Port[1], 2))>>
  \o FromPeer(TakeoverMarker(a))
  \o <<Open(Client(Port[1], 3)), Open(Client(Port[1], 4)),
       Replaced(Client(Port[1], 3)),
       Receive(Client(Port[1], 4), "contact", <<TakeoverMarker(a)>>)>>
  \o Each(Tail(Ports(a)), LAMBDA e :
       Receive(Client(e, 2), "contact", <<TakeoverMarker(a)>>))

\* The last client of each endpoint.
LastClient(e) ==
  Client(e, CASE e = Port[1] -> 4 [] e \in Range(Tail(Port)) -> 2 [] OTHER -> 1)

ChannelFanout(a) ==
  IF a.channel
  THEN <<Send(Peer, "channel", ChannelMarker(a))>>
       \o Each(Listeners(a), LAMBDA e :
            Receive(LastClient(e), "channel", <<ChannelMarker(a)>>))
  ELSE <<>>

MultiReconnect == <<Close(Multi), Open(Client("multi", 2)), Query>>

Program(a) ==
  Preflight(a) \o SharedQueries
  \o IF ~ a.execute THEN <<>>
     ELSE ListenerSends(a) \o InboundFanout(a) \o Backfill(a) \o Takeover(a)
          \o ChannelFanout(a) \o MultiReconnect

-----------------------------------------------------------------------------

DedicatedInit ==
  /\ args \in Settings
  /\ at = 1
  /\ pc = "run"
  /\ verdict = "none"
  /\ matched = 0
  /\ unmatched = 0
  /\ active = {}
  /\ used = 0
  /\ key = [e \in Endpoints |-> "none"]
  /\ destination = [e \in {"multi", "peer"} |-> "none"]
  /\ secret = [e \in {"multi", "peer"} |-> "none"]
  /\ queues = <<>>
  /\ connected = {}
  /\ air = <<>>
  /\ receipts = <<>>
  /\ inbox = [e \in Endpoints |-> <<>>]
  /\ transmitted = {}
  /\ progress = [e \in Endpoints |-> 0]
  /\ extra = [e \in Endpoints |-> FALSE]
  /\ late = FALSE
  /\ acked = {}

Good == args.conduct = "good"
Programs == [a \in Settings |-> Program(a)]
Step == Programs[args][at]
InProgram == pc = "run" /\ at <= Len(Programs[args])
AtStep(do) == InProgram /\ Step.do = do

Advance ==
  /\ at' = at + 1
  /\ UNCHANGED <<pc, resultVars>>

\* An assertion fails, a request is refused or a wait times out.
Raise ==
  /\ pc' = "finally"
  /\ verdict' = "failed"
  /\ UNCHANGED <<at, args>>

AdvanceIf(condition) == IF condition THEN Advance ELSE Raise

-----------------------------------------------------------------------------
(* What an endpoint should be given, and what it was. *)

Expected(a, e) ==
  IF e = "peer" THEN [i \in 1 .. 1 + a.ports |-> i]
  ELSE <<Inbound(a)>> \o Retained(a) \o <<TakeoverMarker(a)>>
       \o (IF a.channel THEN <<ChannelMarker(a)>> ELSE <<>>)

Genuine(message) ==
  /\ message.form = Form(message.kind)
  /\ message.kind = IF args.channel /\ message.body = ChannelMarker(args)
                    THEN "channel" ELSE "contact"

Give(e, message) ==
  LET next == progress[e] + 1
      fits == /\ next <= Len(Expected(args, e))
              /\ Genuine(message)
              /\ message.body = Expected(args, e)[next]
  IN /\ progress' = IF fits THEN [progress EXCEPT ![e] = next] ELSE progress
     /\ extra' = [extra EXCEPT ![e] = @ \/ ~ fits]
     /\ UNCHANGED <<transmitted, late, acked>>

-----------------------------------------------------------------------------
(* open_client and close_client.  A client that connect() refuses for its  *)
(* identity stays connected and unregistered.                              *)

Keys == {"mux", "radio", "malformed"}
TrueKey(e) == IF e = "peer" THEN "radio" ELSE "mux"

\* A new client of a port replaces the one before it.
Displaced(c) ==
  {d \in connected : Endpoint(d) = Endpoint(c) /\ Endpoint(c) \in Range(Port)}

\* Mutant of Registered: one entry per endpoint.
RegisteredByEndpoint(c, k) ==
  {d \in active : Endpoint(d) # Endpoint(c)} \cup (IF k = "malformed" THEN {} ELSE {c})

Registered(c, k) == IF k = "malformed" THEN active ELSE active \cup {c}

OpenClient ==
  /\ AtStep("open")
  /\ LET c == Step.who IN
     \E k \in IF Good THEN {TrueKey(Endpoint(c))} ELSE Keys,
        gone \in IF Good THEN {Displaced(c)} ELSE {{}, Displaced(c)} :
       /\ AdvanceIf(k # "malformed")
       /\ active' = Registered(c, k)
       /\ key' = IF c[2] = 1 THEN [key EXCEPT ![c[1]] = k] ELSE key
       /\ connected' = {c} \cup (connected \ gone)
       /\ inbox' = IF Endpoint(c) = "multi"
                   THEN [inbox EXCEPT !["multi"] = <<>>] ELSE inbox
  /\ UNCHANGED <<receiveVars, used, destination, secret, queues, air, receipts,
                 historyVars>>

CloseClient ==
  /\ AtStep("close")
  /\ Advance
  /\ active' = active \ {Step.who}
  /\ connected' = connected \ {Step.who}
  /\ UNCHANGED <<receiveVars, used, fenceVars, queues, air, receipts, inbox,
                 historyVars>>

\* The wait for the DISCONNECTED event of a client that was replaced.
AwaitReplaced ==
  /\ AtStep("replaced")
  /\ Step.who \notin connected
  /\ Advance
  /\ UNCHANGED <<receiveVars, active, used, fenceVars, queues, radioVars,
                 historyVars>>

-----------------------------------------------------------------------------
(* Preflight: identities, contacts, channel *)

Identities ==
  /\ AtStep("identities")
  /\ AdvanceIf(/\ \A e \in Range(Ports(args)) : key[e] = key["multi"]
               /\ key["peer"] # key["multi"])
  /\ UNCHANGED <<receiveVars, active, used, fenceVars, queues, radioVars,
                 historyVars>>

OtherRadio(e) == IF e = "peer" THEN "multi" ELSE "peer"

\* Two contacts are enough for a stranger of the same name, a contact that is
\* listed twice, and no contact at all.
ContactTables ==
  [1 .. 2 -> [name : {"expected", "other"}, key : {"mux", "radio"}]]

\* Mutant of resolve_contact: by name only.
resolve_by_name(contacts, name, public_key) ==
  {i \in DOMAIN contacts : contacts[i].name = name}

resolve_contact(contacts, name, public_key) ==
  {i \in DOMAIN contacts :
     contacts[i].name = name /\ contacts[i].key = public_key}

get_contacts ==
  /\ AtStep("contacts")
  /\ LET e == Endpoint(Step.who)
         tables == IF Good
                   THEN {<<[name |-> "expected", key |-> TrueKey(OtherRadio(e))],
                           [name |-> "other", key |-> TrueKey(e)]>>}
                   ELSE ContactTables
     IN \E contacts \in tables :
          LET matches == resolve_contact(contacts, "expected", key[OtherRadio(e)])
          IN /\ AdvanceIf(Cardinality(matches) = 1)
             /\ destination' =
                  IF Cardinality(matches) = 1
                  THEN [destination EXCEPT ![e] =
                          contacts[CHOOSE i \in matches : TRUE].key]
                  ELSE destination
  /\ UNCHANGED <<receiveVars, active, used, key, secret, queues, radioVars,
                 historyVars>>

resolve_channel ==
  /\ AtStep("channel")
  /\ \E channels \in IF Good THEN {<<"private">>}
                     ELSE {<<>>, <<"private">>, <<"public">>,
                           <<"private", "private">>} :
       /\ AdvanceIf(Len(channels) = 1)
       /\ secret' = IF Len(channels) = 1
                    THEN [secret EXCEPT ![Endpoint(Step.who)] = channels[1]]
                    ELSE secret
  /\ UNCHANGED <<receiveVars, active, used, key, destination, queues,
                 radioVars, historyVars>>

Secrets ==
  /\ AtStep("secrets")
  /\ AdvanceIf(secret["multi"] = secret["peer"])
  /\ UNCHANGED <<receiveVars, active, used, fenceVars, queues, radioVars,
                 historyVars>>

\* The concurrent rounds of clock queries, and the last one.
Queries ==
  /\ AtStep("query")
  /\ Advance
  /\ UNCHANGED <<receiveVars, active, used, fenceVars, queues, radioVars,
                 historyVars>>

-----------------------------------------------------------------------------
(* send_dm and send_channel *)

AttachCollector ==
  /\ AtStep("attach")
  /\ Advance
  /\ queues' = [c \in Step.who |-> <<>>]
  /\ UNCHANGED <<receiveVars, active, used, fenceVars, radioVars, historyVars>>

MayConsume == used < args.max_radio_sends

\* What is sent goes to the other radio of the run and to nobody else.
Fenced(step) ==
  LET e == IF Endpoint(step.who) = "peer" THEN "peer" ELSE "multi" IN
  IF step.kind = "contact" THEN destination[e] = key[OtherRadio(e)]
  ELSE secret["multi"] = secret["peer"]

\* The budget is used up before the command is issued, and stays so if the
\* radio refuses it.
SendMessage ==
  /\ AtStep("send")
  /\ IF ~ MayConsume
     THEN Raise /\ UNCHANGED <<used, air, transmitted>>
     ELSE /\ used' = used + 1
          /\ transmitted' = transmitted \cup
               {[body |-> Step.body, fenced |-> Fenced(Step)]}
          /\ air' = IF Good THEN Append(air, Step) ELSE air
          /\ Advance \/ (~ Good /\ Raise)
  /\ UNCHANGED <<receiveVars, active, fenceVars, queues, connected, receipts,
                 inbox, progress, extra, late, acked>>

-----------------------------------------------------------------------------
(* receive_sequence *)

VerifyEmptyAfter == args.max_unmatched = 0

\* The loop over the markers is over.
AllMatched == matched = Len(Step.bodies)

\* Mutant of TooMany: off by one.
FarTooMany(n) == n > args.max_unmatched + 1

TooMany(n) == n > args.max_unmatched

\* The outcome of one get_msg in the loop.
Handle(message) ==
  IF /\ message.kind = Step.kind
     /\ inbox_text_matches(message, Step.bodies[matched + 1])
  THEN /\ matched' = matched + 1
       /\ UNCHANGED <<at, pc, resultVars, unmatched>>
  ELSE /\ unmatched' = unmatched + 1
       /\ UNCHANGED matched
       /\ IF TooMany(unmatched') THEN Raise
          ELSE UNCHANGED <<at, pc, resultVars>>

\* What a get_msg may yield: a marked message or a foreign one.
Offered(e) ==
  IF Good THEN {inbox[e][i] : i \in {j \in DOMAIN inbox[e] : j = 1}}
  ELSE Messages({0} \cup Range(Step.bodies))

Received ==
  /\ AtStep("receive")
  /\ ~ AllMatched
  /\ LET e == Endpoint(Step.who) IN
     \E message \in Offered(e) :
       /\ Handle(message)
       /\ Give(e, message)
       /\ inbox' = IF Good THEN [inbox EXCEPT ![e] = Tail(@)] ELSE inbox
  /\ UNCHANGED <<active, used, fenceVars, queues, connected, air, receipts>>

\* A get_msg times out; the message that answers it later is lost.
ReceivedLate ==
  /\ AtStep("receive")
  /\ ~ AllMatched
  /\ ~ Good
  /\ extra' = [extra EXCEPT ![Endpoint(Step.who)] = TRUE]
  /\ late' = TRUE
  /\ UNCHANGED <<at, pc, resultVars, receiveVars, active, used, fenceVars,
                 queues, radioVars, transmitted, progress, acked>>

\* The check that nothing follows, if it is made; the end of the step.
SequenceComplete ==
  /\ AtStep("receive")
  /\ AllMatched
  /\ VerifyEmptyAfter /\ Good => inbox[Endpoint(Step.who)] = <<>>
  /\ matched' = 0
  /\ unmatched' = 0
  /\ Advance
  /\ UNCHANGED <<active, used, fenceVars, queues, radioVars, historyVars>>

\* Something does follow.
TrailingMessage ==
  /\ AtStep("receive")
  /\ AllMatched
  /\ VerifyEmptyAfter
  /\ \E message \in Offered(Endpoint(Step.who)) :
       Give(Endpoint(Step.who), message)
  /\ Raise
  /\ UNCHANGED <<receiveVars, active, used, fenceVars, queues, radioVars>>

-----------------------------------------------------------------------------
(* AckCollector *)

Satisfied(token, client) == token \in Range(queues[client])

\* Each session's queue is read up to the token.
require_token ==
  /\ AtStep("ack")
  /\ \A c \in Step.who : Satisfied(Step.body, c)
  /\ queues' = [c \in DOMAIN queues |->
       IF c \in Step.who
       THEN SubSeq(queues[c], 1 + SelectInSeq(queues[c], LAMBDA t : t = Step.body),
                   Len(queues[c]))
       ELSE queues[c]]
  /\ Advance
  /\ UNCHANGED <<receiveVars, active, used, fenceVars, radioVars, historyVars>>

\* An acknowledgement is pushed to some sessions; those that have a collector
\* keep it.
Push(token, clients) ==
  /\ queues' = [c \in DOMAIN queues |->
       IF c \in clients THEN Append(queues[c], token) ELSE queues[c]]
  /\ acked' = acked \cup ({token} \X clients)

\* In the conduct "any" the acknowledgement, or a foreign one, reaches any
\* session.  (The queues are read at no other step.)
PushAny ==
  /\ AtStep("ack")
  /\ ~ Good
  /\ \E token \in {0, Step.body}, c \in DOMAIN queues \cap connected :
       /\ Len(queues[c]) < 1
       /\ Push(token, {c})
  /\ UNCHANGED <<at, pc, resultVars, receiveVars, active, used, fenceVars,
                 radioVars, transmitted, progress, extra, late>>

-----------------------------------------------------------------------------
(* The radios and a good multiplexer: every message reaches the other      *)
(* radio, where the multiplexer keeps a copy for each of its ports and for *)
(* its connected client, and its acknowledgement reaches every client of   *)
(* the sender's radio.                                                     *)

FromListener(step) == Endpoint(step.who) # "peer"

Arrive ==
  /\ air # <<>>
  /\ LET sent == Head(air)
         message == [kind |-> sent.kind, form |-> Form(sent.kind),
                     body |-> sent.body]
         takers == IF FromListener(sent) THEN {"peer"}
                   ELSE Range(Ports(args)) \cup
                        {Endpoint(c) : c \in {d \in connected :
                                                Endpoint(d) = "multi"}}
     IN /\ inbox' = [e \in Endpoints |->
             IF e \in takers THEN Append(inbox[e], message) ELSE inbox[e]]
        /\ receipts' = IF sent.kind = "contact" THEN Append(receipts, sent)
                       ELSE receipts
  /\ air' = Tail(air)
  /\ UNCHANGED <<at, pc, resultVars, receiveVars, active, used, fenceVars,
                 queues, connected, historyVars>>

Acknowledge ==
  /\ receipts # <<>>
  /\ LET sent == Head(receipts) IN
       Push(sent.body, {c \in connected :
              (Endpoint(c) = "peer") = ~ FromListener(sent)})
  /\ receipts' = Tail(receipts)
  /\ UNCHANGED <<at, pc, resultVars, receiveVars, active, used, fenceVars,
                 air, inbox, connected, transmitted, progress, extra, late>>

-----------------------------------------------------------------------------

Return ==
  /\ pc = "run"
  /\ at > Len(Programs[args])
  /\ pc' = "finally"
  /\ verdict' = "ok"
  /\ UNCHANGED <<at, args, receiveVars, active, used, fenceVars, queues,
                 radioVars, historyVars>>

\* Any step fails, or its deadline elapses.
Fail ==
  /\ InProgram
  /\ ~ Good
  /\ Raise
  /\ UNCHANGED <<receiveVars, active, used, fenceVars, queues, radioVars,
                 historyVars>>

DisconnectAll ==
  /\ pc = "finally"
  /\ pc' = "end"
  /\ connected' = connected \ active
  /\ UNCHANGED <<at, resultVars, receiveVars, active, used, fenceVars, queues,
                 air, receipts, inbox, historyVars>>

RunStep ==
  \/ OpenClient \/ CloseClient \/ AwaitReplaced
  \/ Identities \/ get_contacts \/ resolve_channel \/ Secrets \/ Queries
  \/ AttachCollector \/ SendMessage
  \/ Received \/ SequenceComplete \/ TrailingMessage
  \/ require_token
  \/ Return

DedicatedNext ==
  \/ RunStep
  \/ ReceivedLate
  \/ PushAny
  \/ Arrive
  \/ Acknowledge
  \/ Fail
  \/ DisconnectAll

\* The script goes on, its deadlines elapse, the radio delivers.
DedicatedSpec ==
  /\ DedicatedInit /\ [][DedicatedNext]_dedicatedVars
  /\ WF_dedicatedVars(RunStep)
  /\ WF_dedicatedVars(Fail)
  /\ WF_dedicatedVars(DisconnectAll)
  /\ WF_dedicatedVars(Arrive)
  /\ WF_dedicatedVars(Acknowledge)

-----------------------------------------------------------------------------
(* Properties *)

Executed == verdict = "ok" /\ args.execute

UsedEndpoints == {"multi", "peer"} \cup Range(Ports(args))

\* "ok" is only reported when each endpoint was handed every marked message
\* that it should have, genuine and in the order they were sent, and when the
\* acknowledgement of each listener's message was pushed to every session of
\* the multiplexer and that of each direct message of the peer to the peer,
\* whatever the multiplexer and the radios did.
EvidenceInOrder ==
  Executed =>
    /\ \A e \in UsedEndpoints : progress[e] = Len(Expected(args, e))
    /\ (1 .. 1 + args.ports) \X Shared(args) \subseteq acked
    /\ ({Inbound(args), TakeoverMarker(args)} \cup Range(Retained(args)))
         \X {Peer} \subseteq acked

\* In a strict run (no unmatched message allowed) it also means that nothing
\* else was handed out, no copy and no foreign message, on any endpoint, as
\* long as no reply came later than its request waited.
NothingElse ==
  Executed /\ args.max_unmatched = 0 /\ ~ late =>
    \A e \in UsedEndpoints : ~ extra[e]

\* The transmissions of a complete run.
RadioSends(a) == 1 + a.ports + 4 + (IF a.channel THEN 1 ELSE 0)

\* However the run goes, and whatever contacts and channels the radios list, it
\* transmits no more than its budget and only to the other radio of the run; a
\* run without --execute transmits nothing; one that succeeds reports the
\* number of its transmissions: one per listener, four of the peer, one for a
\* channel.
SendsAreFenced ==
  /\ \A t \in transmitted : t.fenced
  /\ Cardinality(transmitted) <= args.max_radio_sends
  /\ ~ args.execute => transmitted = {}
  /\ Executed => /\ used = Cardinality(transmitted)
                 /\ used = RadioSends(args)

\* However the run ends, the only connection it may leave behind is the one
\* that connect() itself refused for its identity.
LeavesNothing ==
  pc = "end" =>
    connected \subseteq IF verdict = "failed" /\ Step.do = "open"
                        THEN {Step.who} ELSE {}

\* A run against a good multiplexer succeeds if the budget allows it, and
\* every run ends.
GoodRunPasses ==
  /\ <> (pc = "end")
  /\ Good /\ args.max_radio_sends >= RadioSends(args) ~> verdict = "ok"
=============================================================================
