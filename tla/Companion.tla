----------------------------- MODULE Companion -----------------------------
(***************************************************************************)
(* The MeshCore companion as its one TCP client sees it: it executes       *)
(* commands in the order received and answers each with the replies its    *)
(* grammar allows, holds the physical inbox that a pop empties for good,   *)
(* and announces arrivals and remote results with pushes.  It is not part  *)
(* of the repository; this is how the broker relies on it.                 *)
(***************************************************************************)
EXTENDS Protocol, Sequences

CONSTANTS
  MaxArrivals,  \* bound on the messages that reach the physical inbox
  Refused,      \* commands the firmware may answer with ERR
  Token         \* the token of every SENT

ASSUME CompanionAssumption == MaxArrivals \in Nat /\ Token \in Nat

VARIABLES
  received,     \* commands on the wire to it, with write id, owner and scope
  replies,      \* frames on the wire from it, with the write id they answer
                \* (0 for a push) and the owner of the command behind them
  physical,     \* its inbox; items are numbered in order of arrival
  arrived,      \* number of items that have arrived
  flood_scope,  \* the scope its next flood is sent with
  requests,     \* accepted remote requests whose result is outstanding
  signer        \* owner of the SIGN_START it executed last, 0 for none

companionVars ==
  <<received, replies, physical, arrived, flood_scope, requests, signer>>

CompanionInit ==
  /\ received = <<>>
  /\ replies = <<>>
  /\ physical = <<>>
  /\ arrived = 0
  /\ flood_scope = DefaultScope
  /\ requests = <<>>
  /\ signer = 0

Frame(code, arg) == [code |-> code, arg |-> arg]
Answer(job, frames) ==
  [i \in 1 .. Len(frames) |->
     [id |-> job.id, owner |-> job.owner, frame |-> frames[i]]]
Announce(owner, frame) == <<[id |-> 0, owner |-> owner, frame |-> frame]>>

\* The reply streams other than ERR of a command without effect on the inbox.
Answers(command) ==
  CASE command.op = "get_contacts" ->
         {<<Frame("contacts_start", 0), Frame("contact", 0),
            Frame("end_of_contacts", 0)>>}
    [] command.op = "reboot" -> {<<>>}
    [] command.op = "self_telemetry" ->
         {<<Frame("telemetry_response", SelfKey)>>}
    [] command.op \in RemoteLease \cup {"send_txt_msg"} ->
         {<<Frame("sent", Token)>>}
    [] OTHER ->
         {<<Frame(code, IF code = "ok" THEN 0 ELSE command.arg)>> :
            code \in SuccessCodes(command.op)}

ExecutePop ==
  /\ received # <<>>
  /\ Head(received).command = Sync
  /\ IF physical = <<>>
     THEN /\ replies' = replies \o Answer(Head(received),
                                          <<Frame("no_more_messages", 0)>>)
          /\ physical' = physical
     ELSE /\ replies' = replies \o Answer(Head(received),
                                          <<Frame("message", Head(physical))>>)
          /\ physical' = Tail(physical)
  /\ received' = Tail(received)
  /\ UNCHANGED <<arrived, flood_scope, requests, signer>>

Execute ==
  /\ received # <<>>
  /\ LET job == Head(received)
         command == job.command
     IN /\ command # Sync
        /\ \E answer \in Answers(command) :
             replies' = replies \o Answer(job, answer)
        /\ flood_scope' = IF command.op = "set_flood_scope_key"
                          THEN command.arg ELSE flood_scope
        /\ requests' = IF command.op \in RemoteLease
                       THEN Append(requests, [command |-> command,
                                              owner |-> job.owner])
                       ELSE requests
        /\ signer' = CASE command.op = "sign_start" -> job.owner
                       [] command.op = "sign_finish" -> 0
                       [] OTHER -> signer
  /\ received' = Tail(received)
  /\ UNCHANGED <<physical, arrived>>

\* ERR leaves the companion's state alone.
Refuse ==
  /\ received # <<>>
  /\ Head(received).command \in Refused
  /\ \E reason \in {1, ErrBadState} :
       replies' = replies \o Answer(Head(received), <<Frame("err", reason)>>)
  /\ received' = Tail(received)
  /\ UNCHANGED <<physical, arrived, flood_scope, requests, signer>>

\* A message arrives by radio; MSG_WAITING is sent if somebody is connected.
Arrive(connected) ==
  /\ arrived < MaxArrivals
  /\ arrived' = arrived + 1
  /\ physical' = Append(physical, arrived + 1)
  /\ replies' = IF connected
                THEN replies \o Announce(0, Frame("msg_waiting", 0))
                ELSE replies
  /\ UNCHANGED <<received, flood_scope, requests, signer>>

\* The result of a remote request comes back.
Report(connected) ==
  \E i \in DOMAIN requests, code \in DOMAIN RemotePushes :
    LET command == requests[i].command
        key == IF code = "binary_response" THEN Token ELSE command.arg
    IN /\ command.op \in RemotePushes[code]
       /\ requests' = SubSeq(requests, 1, i - 1)
                        \o SubSeq(requests, i + 1, Len(requests))
       /\ replies' = IF connected
            THEN replies \o Announce(requests[i].owner, Frame(code, key))
            ELSE replies
       /\ UNCHANGED <<received, physical, arrived, flood_scope, signer>>
=============================================================================
