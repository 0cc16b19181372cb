----------------------------- MODULE MuxProofs -----------------------------
(***************************************************************************)
(* The broker, its link and the companion together.                        *)
(*                                                                         *)
(* What the companion and the writer do with the link is typed (LinkType), *)
(* so every frame that arrives is one the broker is specified for and      *)
(* every step of the whole is a step of Broker's specification or leaves   *)
(* the broker alone.  Whatever is proved of Spec then holds here.          *)
(*                                                                         *)
(* WireInv is about the one command that is on the link at a time, in the  *)
(* writer's queue, at the companion or answered, and about the flood scope *)
(* of the companion meanwhile.                                             *)
(*                                                                         *)
(* RemoteInv follows the one remote request, with the lease that is held   *)
(* for it, through both directions of the link and the companion.          *)
(* ResultInv adds what its result needs: the lease is the requester's from *)
(* the dispatch on, and has the key of the result once it is on its way.   *)
(*                                                                         *)
(* SignInv follows the signing operation, which is the broker's and then   *)
(* the companion's, through the commands that make it up.                  *)
(*                                                                         *)
(* FittingInv is about the replies on their way: each is one that the      *)
(* running transaction accepts when its turn comes.                        *)
(***************************************************************************)
EXTENDS Mux, TransactionProofs

\* A frame on its way from the companion, and a request it has accepted.
Sending == [id : Nat, owner : Nat, frame : SentFrames]
Accepted == [command : Commands, owner : Nat]

\* The link and the companion, typed.
LinkType ==
  /\ wrote \in 0 .. next_write
  /\ \A i \in DOMAIN outgoing : outgoing[i].id \in 1 .. next_write
  /\ received \in Seq(Write)
  /\ replies \in Seq(Sending)
  /\ physical \in Seq(1 .. MaxArrivals)
  /\ arrived \in 0 .. MaxArrivals
  /\ requests \in Seq(Accepted)
  /\ \A i \in DOMAIN requests : requests[i].command.op \in RemoteLease

\* What is sent arrives as a frame that the broker may get.
LEMMA SentAreFrames ==
  ASSUME NEW f \in SentFrames
  PROVE  f \in Frames
BY MuxAssumption

\* The replies of the commands the model singles out.
LEMMA ReplyCodes ==
  /\ SuccessCodes("sync_next_message") = {"message", "no_more_messages"}
  /\ SuccessCodes("set_flood_scope_key") = {"ok"}
  /\ SuccessCodes("get_contacts")
       = {"contacts_start", "contact", "end_of_contacts"}
  /\ SuccessCodes("send_txt_msg") = {"sent"}
  /\ SuccessCodes("self_telemetry") = {"telemetry_response"}
  /\ \A op \in RemoteLease : SuccessCodes(op) = {"sent"}
  /\ {"sync_next_message", "set_flood_scope_key", "get_contacts",
      "send_txt_msg", "self_telemetry"} \subseteq Ops
<1>1. SuccessCodes("self_telemetry") = {"telemetry_response"}
  BY DEF SuccessCodes, RemoteLease, OkOps, ValueReply
<1>2. /\ SuccessCodes("sync_next_message") = {"message", "no_more_messages"}
      /\ SuccessCodes("set_flood_scope_key") = {"ok"}
      /\ SuccessCodes("get_contacts")
           = {"contacts_start", "contact", "end_of_contacts"}
      /\ SuccessCodes("send_txt_msg") = {"sent"}
  BY DEF SuccessCodes, RemoteLease, OkOps, ValueReply
<1>3. ASSUME NEW op \in RemoteLease
      PROVE  SuccessCodes(op) = {"sent"}
  BY DEF SuccessCodes, RemoteLease, OkOps, ValueReply
<1>4. {"sync_next_message", "set_flood_scope_key", "get_contacts",
       "send_txt_msg", "self_telemetry"} \subseteq Ops
  BY DEF Ops, OkOps, ValueReply
<1> QED
  BY <1>1, <1>2, <1>3, <1>4

\* The pushes the companion makes, none of them a message.
LEMMA PushNames ==
  /\ "message" \notin DOMAIN RemotePushes
  /\ "telemetry_response" \in DOMAIN RemotePushes
BY DEF RemotePushes

LEMMA CodesSent ==
  ASSUME NEW code, NEW arg, code # "message",
         \/ \E op \in Ops : code \in SuccessCodes(op)
         \/ code \in DOMAIN RemotePushes \cup {"msg_waiting"},
         arg \in {0, Token} \/ \E c \in Commands : arg = c.arg
  PROVE  Frame(code, arg) \in SentFrames
<1> DEFINE codes == (UNION {SuccessCodes(op) : op \in Ops})
                      \cup DOMAIN RemotePushes \cup {"msg_waiting"}
           values == {0, Token} \cup {c.arg : c \in Commands}
<1>1. code \in codes \ {"message"} /\ arg \in values
  <2>1. ASSUME NEW op \in Ops, code \in SuccessCodes(op)
        PROVE  code \in codes
    BY <2>1
  <2>2. code \in DOMAIN RemotePushes \cup {"msg_waiting"} => code \in codes
    OBVIOUS
  <2>3. arg \in values
    OBVIOUS
  <2> HIDE DEF codes, values
  <2> QED
    BY <2>1, <2>2, <2>3
<1> HIDE DEF codes, values
<1>2. Frame(code, arg) \in [code : codes \ {"message"}, arg : values]
  BY <1>1 DEF Frame
<1> QED
  BY <1>2 DEF SentFrames, codes, values

\* The frames the companion makes are among those it may send.
LEMMA FramesMade ==
  /\ Frame("no_more_messages", 0) \in SentFrames
  /\ Frame("msg_waiting", 0) \in SentFrames
  /\ \A i \in 1 .. MaxArrivals : Frame("message", i) \in SentFrames
  /\ \A reason \in {1, ErrBadState} : Frame("err", reason) \in SentFrames
  /\ \A code \in DOMAIN RemotePushes :
       /\ Frame(code, Token) \in SentFrames
       /\ \A c \in Commands : Frame(code, c.arg) \in SentFrames
<1>1. Frame("no_more_messages", 0) \in SentFrames
  BY ReplyCodes, CodesSent
<1>2. Frame("msg_waiting", 0) \in SentFrames
  BY CodesSent
<1>3. /\ \A i \in 1 .. MaxArrivals : Frame("message", i) \in SentFrames
      /\ \A reason \in {1, ErrBadState} : Frame("err", reason) \in SentFrames
  BY DEF SentFrames, Frame
<1>4. ASSUME NEW code \in DOMAIN RemotePushes
      PROVE  /\ Frame(code, Token) \in SentFrames
             /\ \A c \in Commands : Frame(code, c.arg) \in SentFrames
  <2>1. code # "message"
    BY PushNames
  <2> QED
    BY <2>1, CodesSent
<1> QED
  BY <1>1, <1>2, <1>3, <1>4

\* Only a sync is answered with a message.
LEMMA OnlySyncFetches ==
  ASSUME NEW op, op # "sync_next_message"
  PROVE  "message" \notin SuccessCodes(op)
BY DEF SuccessCodes, ValueReply

\* So are its answers to a command.
LEMMA AnswersMade ==
  ASSUME NEW command \in Command, command # Sync, command.op # "none",
         NEW answer \in Answers(command)
  PROVE  answer \in Seq(SentFrames)
<1>1. command.op \in Ops /\ command.arg \in Nat
  BY CommandTypes
<1>2. command.op # "sync_next_message"
  BY BrokerAssumption DEF Command
<1>3. ASSUME NEW code \in SuccessCodes(command.op)
      PROVE  Frame(code, IF code = "ok" THEN 0 ELSE command.arg) \in SentFrames
  <2>1. code # "message"
    BY <1>2, OnlySyncFetches
  <2>2. CASE code = "ok"
    BY <1>1, <2>1, <2>2, CodesSent
  <2>3. CASE code # "ok"
    <3>1. command.op # "set_flood_scope_key"
      BY <2>3, ReplyCodes
    <3>2. command \in Commands
      BY <1>2, <3>1 DEF Command, Sync
    <3> QED
      BY <1>1, <2>1, <2>3, <3>2, CodesSent
  <2> QED
    BY <2>2, <2>3
<1>4. /\ Frame("contacts_start", 0) \in SentFrames
      /\ Frame("contact", 0) \in SentFrames
      /\ Frame("end_of_contacts", 0) \in SentFrames
  BY ReplyCodes, CodesSent
<1>5. Frame("telemetry_response", SelfKey) \in SentFrames
  BY PushNames, CodesSent DEF SelfKey
<1>6. Frame("sent", Token) \in SentFrames
  BY ReplyCodes, CodesSent
<1>7. \/ answer = <<Frame("contacts_start", 0), Frame("contact", 0),
                    Frame("end_of_contacts", 0)>>
      \/ answer = <<>>
      \/ answer = <<Frame("telemetry_response", SelfKey)>>
      \/ answer = <<Frame("sent", Token)>>
      \/ \E code \in SuccessCodes(command.op) :
           answer = <<Frame(code, IF code = "ok" THEN 0 ELSE command.arg)>>
  BY DEF Answers
<1>8. \A a, b, c \in SentFrames :
        /\ <<>> \in Seq(SentFrames) /\ <<a>> \in Seq(SentFrames)
        /\ <<a, b, c>> \in Seq(SentFrames)
  OBVIOUS
<1> QED
  BY <1>3, <1>4, <1>5, <1>6, <1>7, <1>8

-----------------------------------------------------------------------------
(* What the broker's handlers do with the transaction and its writes       *)

\* The command that a transaction has on the wire.
WireCommand(tx) ==
  CASE tx.step = "setup" -> SetScope(tx.scope)
    [] tx.step = "restore" -> SetScope(DefaultScope)
    [] OTHER -> tx.command

Job(id, tx) ==
  [id |-> id, command |-> WireCommand(tx), owner |-> tx.owner,
   scope |-> tx.scope]

NoWrite(e, x) == x.outgoing = e.outgoing /\ x.next_write = e.next_write
SameWire(e, x) == NoWrite(e, x) /\ x.active = e.active

\* One command is handed to the writer, the transaction's.
Issues(e, x) ==
  /\ x.next_write = e.next_write + 1
  /\ x.active.write = x.next_write
  /\ x.outgoing = Append(e.outgoing, Job(x.next_write, x.active))

LEMMA SendUpstreamIssues ==
  ASSUME NEW n \in Nat, NEW e \in State(n), NEW tx \in Transaction,
         NEW command, command = WireCommand(tx)
  PROVE  LET x == SendUpstream(e, tx, command)
         IN /\ Issues(e, x)
            /\ x.active = [tx EXCEPT !.write = e.next_write + 1]
            /\ x.failing = e.failing
<1> DEFINE x == SendUpstream(e, tx, command)
           ty == [tx EXCEPT !.write = e.next_write + 1]
<1>1. /\ x.next_write = e.next_write + 1 /\ x.active = ty
      /\ x.outgoing = Append(e.outgoing,
                             [id |-> e.next_write + 1, command |-> command,
                              owner |-> tx.owner, scope |-> tx.scope])
      /\ x.failing = e.failing
  BY DEF SendUpstream, State
<1>2. /\ ty.step = tx.step /\ ty.scope = tx.scope /\ ty.owner = tx.owner
      /\ ty.command = tx.command /\ ty.write = e.next_write + 1
  BY DEF Transaction
<1> HIDE DEF x, ty
<1>3. WireCommand(ty) = command
  BY <1>2 DEF WireCommand
<1>4. Issues(e, x)
  BY <1>1, <1>2, <1>3 DEF Issues, Job
<1> QED
  BY <1>1, <1>4 DEF x, ty

LEMMA SendCommandIssues ==
  ASSUME NEW n \in Nat, NEW e \in State(n), NEW tx \in Transaction
  PROVE  LET x == SendCommand(e, tx)
         IN /\ Issues(e, x)
            /\ x.active = [tx EXCEPT !.step = "command",
                                     !.write = e.next_write + 1]
            /\ x.failing = e.failing
<1> DEFINE ty == [tx EXCEPT !.step = "command"]
<1>1. ty \in Transaction /\ ty.step = "command" /\ ty.command = tx.command
  BY DEF Transaction, Steps
<1>2. tx.command = WireCommand(ty)
  BY <1>1 DEF WireCommand
<1>3. [ty EXCEPT !.write = e.next_write + 1]
        = [tx EXCEPT !.step = "command", !.write = e.next_write + 1]
  BY DEF Transaction
<1> HIDE DEF ty
<1> QED
  BY <1>1, <1>2, <1>3, SendUpstreamIssues DEF SendCommand, ty

\* What a commit makes of the handler's record.
LEMMA CommitWire ==
  ASSUME NEW x, Commit(x)
  PROVE  /\ outgoing' = x.outgoing /\ next_write' = x.next_write
         /\ \/ failed' /\ active' = NoTransaction
            \/ failed' = failed /\ active' = x.active /\ ~ EpochEnds(x)
         /\ x.failing => failed'
BY DEF Commit, NextState, FailEpoch, Continue, EpochEnds

\* record_acceptance and the owner's copy of a reply touch no write.
LEMMA RecordsNoWrite ==
  ASSUME NEW n \in Nat, NEW e \in State(n), NEW command, NEW f
  PROVE  /\ SameWire(e, RecordAcceptance(e, command, f))
         /\ RecordAcceptance(e, command, f).failing = e.failing
         /\ SameWire(e, ReplyToOwner(e, f))
         /\ ReplyToOwner(e, f).failing = e.failing
<1>1. /\ NoWrite(e, RecordAcceptance(e, command, f))
      /\ RecordAcceptance(e, command, f).failing = e.failing
  BY DEF RecordAcceptance, NoWrite, State
<1>2. /\ NoWrite(e, ReplyToOwner(e, f))
      /\ ReplyToOwner(e, f).failing = e.failing
  BY DEF ReplyToOwner, NoWrite, State
<1> QED
  BY <1>1, <1>2, OwnerKept DEF SameWire

LEMMA PopResultNoWrite ==
  ASSUME NEW n \in Nat, NEW e \in State(n), NEW tx, NEW f \in Frames,
         f.code \in {"message", "no_more_messages"}
  PROVE  /\ SameWire(e, PopResult(e, tx, f))
         /\ PopResult(e, tx, f).failing = e.failing
<1>1. /\ NoWrite(e, PopResult(e, tx, f))
      /\ PopResult(e, tx, f).failing = e.failing
  BY DEF PopResult, NoMoreMessages, FanOut, NoWrite, State
<1> QED
  BY <1>1, PopResultGoes DEF SameWire

-----------------------------------------------------------------------------
(* transaction_response: what each reply does to the transaction           *)

Valid(tx, f) == ValidResponse(tx.command, tx.contacts_started, f)

Responds(e, x, f) ==
  LET tx == e.active
      onwards(step) == [tx EXCEPT !.step = step, !.write = e.next_write + 1]
  IN \/ /\ tx.step = "setup" /\ f.code = "ok"
        /\ Issues(e, x) /\ x.active = onwards("command")
     \/ /\ tx.step = "setup" /\ f.code = "err"
        /\ NoWrite(e, x) /\ x.active = NoTransaction
     \/ /\ tx.step = "restore" /\ f.code = "ok"
        /\ NoWrite(e, x) /\ x.active = NoTransaction
     \/ /\ tx.step = "command" /\ Valid(tx, f) /\ ~ Completes(tx.command, f)
        /\ NoWrite(e, x) /\ x.active = [tx EXCEPT !.contacts_started = TRUE]
     \/ /\ tx.step = "command" /\ Valid(tx, f) /\ Completes(tx.command, f)
        /\ tx.owner = 0 \/ ~ tx.scoped
        /\ NoWrite(e, x)
        /\ x.active \in {NoTransaction, [tx EXCEPT !.step = "result"]}
     \/ /\ tx.step = "command" /\ Valid(tx, f) /\ Completes(tx.command, f)
        /\ tx.owner # 0 /\ tx.scoped
        /\ Issues(e, x) /\ x.active = onwards("restore")

LEMMA SameWireIssues ==
  ASSUME NEW e, NEW x, NEW y, SameWire(e, x), Issues(x, y)
  PROVE  Issues(e, y)
BY DEF SameWire, NoWrite, Issues

LEMMA ScopeResponseWire ==
  ASSUME NEW n \in Nat, NEW e \in State(n), NEW f,
         e.active.step \in {"setup", "restore"}
  PROVE  LET x == ScopeResponse(e, f)
         IN \/ x.failing /\ SameWire(e, x)
            \/ Responds(e, x, f)
<1> DEFINE tx == e.active
           x == ScopeResponse(e, f)
           refused == IF tx.owner \in DOMAIN e.sessions
                      THEN [e EXCEPT !.sessions[tx.owner] =
                              Reply(e.sessions[tx.owner], "frame")]
                      ELSE e
           dropped == [refused EXCEPT
                         !.remote = IF tx.command.op \in RemoteLease
                                    THEN NoRemote ELSE e.remote]
<1>1. CASE f.code = "ok" /\ tx.step = "setup"
  <2>1. x = SendCommand(e, tx)
    BY <1>1 DEF ScopeResponse
  <2>2. tx \in Transaction
    BY DEF State, Transactions
  <2>3. /\ Issues(e, x)
        /\ x.active = [tx EXCEPT !.step = "command",
                                 !.write = e.next_write + 1]
    <3>1. LET y == SendCommand(e, tx)
          IN /\ Issues(e, y)
             /\ y.active = [tx EXCEPT !.step = "command",
                                      !.write = e.next_write + 1]
      BY <2>2, SendCommandIssues
    <3> HIDE DEF x
    <3> QED
      BY <2>1, <3>1
  <2> HIDE DEF x
  <2> QED
    BY <1>1, <2>3 DEF Responds, x
<1>2. CASE f.code = "ok" /\ tx.step = "restore"
  <2>1. x = Finish(e)
    BY <1>2 DEF ScopeResponse
  <2>2. NoWrite(e, Finish(e)) /\ Finish(e).active = NoTransaction
    BY DEF Finish, NoWrite, State
  <2> QED
    BY <1>2, <2>1, <2>2 DEF Responds
<1>3. CASE f.code = "err" /\ tx.step = "setup"
  <2>1. x = Finish(dropped)
    BY <1>3 DEF ScopeResponse
  <2>2. NoWrite(e, Finish(dropped)) /\ Finish(dropped).active = NoTransaction
    BY DEF Finish, NoWrite, State
  <2> HIDE DEF dropped, x
  <2> QED
    BY <1>3, <2>1, <2>2 DEF Responds, x
<1>4. CASE /\ ~ (f.code = "ok" /\ tx.step \in {"setup", "restore"})
           /\ ~ (f.code = "err" /\ tx.step = "setup")
  <2>1. x = Fail(e)
    BY <1>4 DEF ScopeResponse
  <2>2. Fail(e).failing /\ SameWire(e, Fail(e))
    BY DEF Fail, SameWire, NoWrite, State
  <2> QED
    BY <2>1, <2>2
<1> QED
  BY <1>1, <1>2, <1>3, <1>4

LEMMA CommandResponseWire ==
  ASSUME NEW n \in Nat, NEW e \in State(n), NEW f \in Frames,
         e.active.step = "command", e.active.owner # 0, Valid(e.active, f)
  PROVE  LET x == CommandResponse(e, f)
         IN Responds(e, x, f)
<1> DEFINE tx == e.active
           x == CommandResponse(e, f)
           told == ReplyToOwner(e, f)
           done == RecordAcceptance(told, tx.command, f)
<1>1. told \in State(n) /\ SameWire(e, told)
  BY ReplyToOwnerType, RecordsNoWrite
<1>2. CASE Completes(tx.command, f)
  <2>1. x = AfterCommand(done)
    BY <1>2 DEF CommandResponse
  <2>2. tx \in Transaction /\ tx.command \in Command
    BY DEF State, Transactions, Transaction
  <2> HIDE DEF told
  <2>3. done \in State(n) /\ SameWire(told, done)
    BY <1>1, <2>2, RecordAcceptanceType, RecordsNoWrite
  <2>4. SameWire(e, done) /\ done.active = tx
    BY <1>1, <2>3 DEF SameWire, NoWrite
  <2> HIDE DEF done, x, tx
  <2>5. CASE tx.scoped
    <3> DEFINE ty == [tx EXCEPT !.step = "restore"]
               y == SendUpstream(done, ty, SetScope(DefaultScope))
    <3>1. x = y
      BY <2>1, <2>4, <2>5 DEF AfterCommand, RestoresScope
    <3>2. ty \in Transaction /\ ty.step = "restore"
      BY <2>2 DEF Transaction, Steps
    <3>3. SetScope(DefaultScope) = WireCommand(ty)
      BY <3>2 DEF WireCommand
    <3>4. /\ Issues(done, y)
          /\ y.active = [ty EXCEPT !.write = done.next_write + 1]
      <4> HIDE DEF ty
      <4> QED
        BY <2>3, <3>2, <3>3, SendUpstreamIssues
    <3>5. [ty EXCEPT !.write = done.next_write + 1]
            = [tx EXCEPT !.step = "restore", !.write = e.next_write + 1]
      BY <2>2, <2>4 DEF Transaction, SameWire, NoWrite
    <3> HIDE DEF ty, y
    <3>6. Issues(e, x)
      BY <2>4, <3>1, <3>4, SameWireIssues
    <3> QED
      BY <1>2, <2>5, <3>1, <3>4, <3>5, <3>6 DEF Responds, tx, x
  <2>6. CASE ~ tx.scoped /\ tx.command.op \in Maintenance
    <3> DEFINE y == [done EXCEPT !.active.step = "result"]
    <3>1. x = y
      BY <2>1, <2>4, <2>6 DEF AfterCommand, RestoresScope
    <3>2. NoWrite(e, y) /\ y.active = [tx EXCEPT !.step = "result"]
      BY <2>3, <2>4 DEF SameWire, NoWrite, State
    <3> HIDE DEF y
    <3> QED
      BY <1>2, <2>6, <3>1, <3>2 DEF Responds, tx, x
  <2>7. CASE ~ tx.scoped /\ tx.command.op \notin Maintenance
    <3>1. x = Finish(done)
      BY <2>1, <2>4, <2>7 DEF AfterCommand, RestoresScope
    <3>2. NoWrite(e, Finish(done)) /\ Finish(done).active = NoTransaction
      BY <2>3, <2>4 DEF SameWire, NoWrite, Finish, State
    <3> QED
      BY <1>2, <2>7, <3>1, <3>2 DEF Responds, tx, x
  <2> QED
    BY <2>5, <2>6, <2>7 DEF x
<1>3. CASE ~ Completes(tx.command, f)
  <2> DEFINE y == [told EXCEPT !.active.contacts_started = TRUE]
  <2>1. x = y
    BY <1>3 DEF CommandResponse
  <2> HIDE DEF told
  <2>2. NoWrite(e, y) /\ y.active = [tx EXCEPT !.contacts_started = TRUE]
    BY <1>1 DEF SameWire, NoWrite, State
  <2> HIDE DEF x, y
  <2> QED
    BY <1>3, <2>1, <2>2 DEF Responds, x
<1> QED
  BY <1>2, <1>3

LEMMA ResponseWire ==
  ASSUME TypeInv, NEW f \in Frames
  PROVE  LET x == TransactionResponse(f)
         IN \/ x.failing /\ SameWire(WriteIsOver, x)
            \/ Responds(WriteIsOver, x, f)
<1> DEFINE e == WriteIsOver
           x == TransactionResponse(f)
           n == next_session
<1>1. /\ n \in Nat /\ active \in Transaction /\ PopShape(active)
      /\ active.contacts_started \in BOOLEAN
  BY DEF TypeInv, TypeOK, Transaction
<1>2. e \in State(n) /\ e.active = [active EXCEPT !.write = 0]
  BY WriteIsOverType
<1>3. /\ e.active.step = active.step /\ e.active.owner = active.owner
      /\ e.active.command = active.command
      /\ e.active.contacts_started = active.contacts_started
      /\ e.active.scoped = active.scoped
  BY <1>1, <1>2 DEF Transaction
<1> HIDE DEF e, n
<1>4. Fail(e).failing /\ SameWire(e, Fail(e))
  BY <1>2 DEF Fail, SameWire, NoWrite, State
<1>5. CASE active.step \in {"none", "result"}
  <2>1. x = Fail(e)
    BY <1>5 DEF TransactionResponse, e
  <2> QED
    BY <1>4, <2>1 DEF e
<1>6. CASE active.step \in {"setup", "restore"}
  <2>1. x = ScopeResponse(e, f)
    BY <1>6 DEF TransactionResponse, e
  <2> HIDE DEF x
  <2>2. n \in Nat /\ e \in State(n) /\ e.active.step \in {"setup", "restore"}
    BY <1>1, <1>2, <1>3, <1>6
  <2>3. LET y == ScopeResponse(e, f)
        IN (y.failing /\ SameWire(e, y)) \/ Responds(e, y, f)
    BY <2>2, ScopeResponseWire
  <2> QED
    BY <2>1, <2>3 DEF e, x
<1>7. CASE active.step = "command" /\ ~ Valid(active, f)
  <2>1. x = Fail(e)
    BY <1>7 DEF TransactionResponse, e, Valid
  <2> QED
    BY <1>4, <2>1 DEF e
<1>8. CASE active.step = "command" /\ Valid(active, f) /\ active.owner = 0
  <2>1. /\ active.command = Sync
        /\ f.code \in {"err", "message", "no_more_messages"}
    BY <1>1, <1>8, SyncReplies DEF PopShape, Valid
  <2>2. Completes(active.command, f)
    BY <2>1 DEF Completes, Sync
  <2> DEFINE y == PopResult(Finish(e), active, f)
  <2>3. \/ x = Fail(e)
        \/ f.code \in {"message", "no_more_messages"} /\ x = y
    BY <1>8, <2>1 DEF TransactionResponse, e, Valid
  <2>4. ASSUME f.code \in {"message", "no_more_messages"}
        PROVE  NoWrite(e, y) /\ y.active = NoTransaction
    <3>1. Finish(e) \in State(n)
      BY <1>1, <1>2, FinishType
    <3>2. NoWrite(e, Finish(e)) /\ Finish(e).active = NoTransaction
      BY <1>2 DEF Finish, NoWrite, State
    <3>3. SameWire(Finish(e), y)
      BY <1>1, <2>4, <3>1, PopResultNoWrite
    <3> QED
      BY <3>2, <3>3 DEF SameWire, NoWrite
  <2> HIDE DEF x, y
  <2>5. x = y /\ f.code \in {"message", "no_more_messages"}
          => Responds(e, x, f)
    BY <1>3, <1>8, <2>2, <2>4 DEF Responds, Valid
  <2> QED
    BY <1>4, <2>3, <2>5 DEF x, e
<1>9. CASE active.step = "command" /\ Valid(active, f) /\ active.owner # 0
  <2>1. x = CommandResponse(e, f)
    BY <1>9 DEF TransactionResponse, e, Valid
  <2>2. Valid(e.active, f)
    BY <1>3, <1>9 DEF Valid
  <2> QED
    BY <1>1, <1>2, <1>3, <1>9, <2>1, <2>2, CommandResponseWire DEF e
<1> QED
  BY <1>1, <1>5, <1>6, <1>7, <1>8, <1>9 DEF Transaction, Steps

-----------------------------------------------------------------------------
(* What the broker's steps do with the remote lease and the signing lease  *)

\* The lease after a step that does not free it: its owner may be gone, and a
\* key that SENT decides may be known.
Follows(r, q) ==
  /\ q.kind = r.kind
  /\ q.owner \in {0, r.owner}
  /\ r.kind = "send_telemetry_req" => q.key = r.key

\* The epoch fails before the request that holds the lease was sent.
Withdrawn(tx, q) ==
  tx.step = "setup" /\ tx.command.op \in RemoteLease /\ q = NoRemote

LeaseGoes ==
  Follows(remote, remote') \/ (failed' /\ Withdrawn(active, remote'))

\* The signing operation ends only with the epoch, or while none of its
\* commands is running.
SigningGoes ==
  \/ signing' = signing
  \/ /\ signing' = NoSigning
     /\ \/ failed'
        \/ ~ Busy
        \/ active.owner # signing.owner
        \/ active.command.op \notin Signing

LEMMA CommitLeases ==
  ASSUME NEW x, x.remote \in Remote, Commit(x)
  PROVE  /\ \/ Follows(x.remote, remote')
            \/ failed' /\ Withdrawn(x.active, remote')
         /\ \/ signing' = x.signing
            \/ /\ signing' = NoSigning
               /\ \/ failed'
                  \/ x.active.step = "none"
                  \/ x.active.owner # x.signing.owner
<1>1. CASE EpochEnds(x)
  <2>1. /\ failed' /\ remote' = UncertainRemote(x.active, x.remote)
        /\ signing' = SigningOwnerGone(x, {})
    BY <1>1 DEF Commit, NextState, FailEpoch
  <2>2. Follows(x.remote, remote') \/ Withdrawn(x.active, remote')
    BY <2>1 DEF UncertainRemote, AcceptanceUnknown, Follows, Withdrawn, Remote
  <2> QED
    BY <2>1, <2>2 DEF SigningOwnerGone
<1>2. CASE ~ EpochEnds(x)
  <2>1. /\ remote' = RemoteOwnerGone(x.remote, Survivors(x))
        /\ signing' = SigningOwnerGone(x, Survivors(x))
    BY <1>2 DEF Commit, NextState, Continue
  <2>2. Follows(x.remote, remote')
    BY <2>1 DEF RemoteOwnerGone, Follows, Remote
  <2> QED
    BY <2>1, <2>2 DEF SigningOwnerGone
<1> QED
  BY <1>1, <1>2

\* The remote lease is r as far as the clients that stay can tell: it is still
\* r if r is one of theirs, and no other lease is.
Passes(r) ==
  \A s \in DOMAIN sessions' \ {0} : s \in {remote'.owner, r.owner} => remote' = r

\* A client that was not connected before the step has a new id.
Newcomers == \A s \in DOMAIN sessions' : s \in DOMAIN sessions \/ s > next_session

LEMMA CommitPasses ==
  ASSUME NEW x, x.remote \in Remote, Commit(x)
  PROVE  Passes(x.remote) /\ DOMAIN sessions' \subseteq DOMAIN x.sessions
<1>1. CASE EpochEnds(x)
  BY <1>1 DEF Commit, NextState, FailEpoch, Passes
<1>2. CASE ~ EpochEnds(x)
  <2>1. /\ sessions' = [s \in Survivors(x) |-> x.sessions[s]]
        /\ remote' = RemoteOwnerGone(x.remote, Survivors(x))
    BY <1>2 DEF Commit, NextState, Continue
  <2>2. Survivors(x) \subseteq DOMAIN x.sessions
    BY DEF Survivors
  <2>3. Passes(x.remote)
    BY <2>1 DEF RemoteOwnerGone, Passes, Remote
  <2> QED
    BY <2>1, <2>2, <2>3
<1> QED
  BY <1>1, <1>2

SameLeases(e, x) == x.remote = e.remote /\ x.signing = e.signing

\* The clients of x are those of now, or are those and the one admitted.
SameClients(x) == DOMAIN x.sessions \subseteq DOMAIN sessions \cup {next_session + 1}

\* A handler that leaves both leases, and the transaction's job, alone.
Holds(x) ==
  /\ SameLeases(Now, x)
  /\ \/ /\ x.active.step = active.step
        /\ x.active.command = active.command
        /\ x.active.owner = active.owner
     \/ x.failing /\ x.active.step # "setup"

LEMMA HoldsGoes ==
  ASSUME TypeInv, NEW x, Commit(x), Holds(x)
  PROVE  /\ LeaseGoes /\ SigningGoes /\ Passes(remote)
         /\ SameClients(x) => Newcomers
<1>1. /\ x.remote = remote /\ x.signing = signing
      /\ x.remote \in Remote
  BY DEF Holds, SameLeases, Now, TypeInv, TypeOK
<1>2. x.failing => failed'
  BY CommitWire
<1>3. Passes(remote) /\ DOMAIN sessions' \subseteq DOMAIN x.sessions
  BY <1>1, CommitPasses
<1>4. SameClients(x) => Newcomers
  BY <1>3 DEF SameClients, Newcomers, TypeInv, TypeOK
<1> QED
  BY <1>1, <1>2, <1>3, <1>4, CommitLeases
     DEF Holds, LeaseGoes, SigningGoes, Withdrawn, Busy

-----------------------------------------------------------------------------
(* The broker's steps, as the link sees them                               *)

\* No write is added, and the transaction goes on as it was or ends with the
\* epoch.
Rests ==
  /\ outgoing' = outgoing /\ next_write' = next_write
  /\ failed' \/ (failed' = failed /\ active' = active)

\* A command is dispatched.
Starts ==
  /\ failed' = failed /\ next_write' = next_write + 1
  /\ active'.write = next_write'
  /\ outgoing' = Append(outgoing, Job(next_write', active'))
  /\ ~ active'.contacts_started
  /\ \/ /\ active'.step = "setup" /\ active'.scoped /\ active'.owner # 0
        /\ active'.command.op \in ScopeSend
     \/ /\ active'.step = "command" /\ ~ active'.scoped
        /\ active'.command.op \in ScopeSend => active'.scope = DefaultScope

LEMMA CalmCommit ==
  ASSUME NEW x, Commit(x), SameWire(Now, x) \/ (x.failing /\ NoWrite(Now, x))
  PROVE  Rests
<1>1. /\ Now.outgoing = outgoing /\ Now.next_write = next_write
      /\ Now.active = active
  BY DEF Now
<1> QED
  BY <1>1, CommitWire DEF Rests, SameWire, NoWrite

LEMMA HandlersCalm ==
  ASSUME TypeInv,
         \/ \E s : ScheduleLocal(s) \/ ScheduleAged(s)
         \/ ScheduleBusy \/ TurnNone
         \/ \E k, s : TurnReject(k, s)
         \/ ClientStep \/ ClockStep \/ LateUpstreamFrame \/ UpstreamClosed
  PROVE  /\ Rests /\ SigningGoes /\ Newcomers
         /\ "remote" \notin Deadlines => LeaseGoes /\ Passes(remote)
<1> DEFINE Quiet == \E x : /\ Commit(x) /\ Holds(x) /\ SameClients(x)
                           /\ SameWire(Now, x) \/ (x.failing /\ NoWrite(Now, x))
<1>1. Quiet => Rests /\ LeaseGoes /\ SigningGoes /\ Passes(remote) /\ Newcomers
  BY CalmCommit, HoldsGoes
<1>2. ASSUME NEW e, CommitAndSchedule(e)
      PROVE  Commit(e)
  BY <1>2 DEF CommitAndSchedule
<1>3. /\ Fail(Now).failing /\ NoWrite(Now, Fail(Now)) /\ Holds(Fail(Now))
      /\ SameClients(Fail(Now))
      /\ \A gone : LET x == [Now EXCEPT !.closed = gone]
                   IN SameWire(Now, x) /\ Holds(x) /\ SameClients(x)
  BY DEF Now, Fail, NoWrite, SameWire, Holds, SameLeases, SameClients
<1>0. ASSUME NEW x, SameWire(Now, x), SameLeases(Now, x)
      PROVE  Holds(x)
  BY <1>0 DEF SameWire, Holds, Now
<1>4. ASSUME \E s : ScheduleLocal(s)
      PROVE  Quiet
  <2>1. PICK s : ScheduleLocal(s)
    BY <1>4
  <2> DEFINE command == Head(sessions[s].commands)
             e == [Now EXCEPT !.sessions[s].commands =
                                Tail(sessions[s].commands)]
  <2>2. SameWire(Now, e) /\ SameLeases(Now, e)
    BY DEF Now, SameWire, NoWrite, SameLeases
  <2>3. e \in State(next_session)
    BY <2>1, TailTaken DEF ScheduleLocal, LocalReady, HeadReady
  <2>4. Commit(LocalEffect(e, s, command))
    BY <2>1 DEF ScheduleLocal
  <2> HIDE DEF e, command
  <2> DEFINE x == LocalEffect(e, s, command)
  <2>5. SameWire(e, LocalSync(e, s)) /\ SameLeases(e, LocalSync(e, s))
    BY <2>3 DEF LocalSync, State, SameWire, NoWrite, SameLeases
  <2>6. SameWire(e, x) /\ SameLeases(e, x)
    BY <2>3, <2>5 DEF LocalEffect, State, SameWire, NoWrite, SameLeases
  <2> HIDE DEF x
  <2>7. SameWire(Now, x) /\ SameLeases(Now, x)
    BY <2>2, <2>6 DEF SameWire, NoWrite, SameLeases
  <2>8. DOMAIN LocalSync(e, s).sessions = DOMAIN e.sessions
    BY <2>3 DEF LocalSync, State
  <2>9. DOMAIN LocalEffect(e, s, command).sessions = DOMAIN e.sessions
    BY <2>3, <2>8 DEF LocalEffect, State
  <2>10. SameClients(x)
    BY <2>9 DEF x, e, Now, SameClients
  <2> QED
    BY <1>0, <2>4, <2>7, <2>10 DEF x
<1>5. ASSUME \E s : ScheduleAged(s)
      PROVE  Quiet
  <2>1. PICK s : ScheduleAged(s)
    BY <1>5
  <2> DEFINE x == [Now EXCEPT !.sessions[s] =
                     [Reply(sessions[s], "frame") EXCEPT
                        !.commands = Tail(sessions[s].commands)]]
  <2>2. SameWire(Now, x) /\ SameLeases(Now, x) /\ SameClients(x)
    BY DEF Now, SameWire, NoWrite, SameLeases, SameClients
  <2>3. Commit(x)
    BY <2>1 DEF ScheduleAged
  <2> HIDE DEF x
  <2> QED
    BY <1>0, <2>2, <2>3
<1>6. ASSUME \E s, command : ClientFrame(s, command)
      PROVE  Quiet
  <2>1. PICK s, command : ClientFrame(s, command)
    BY <1>6
  <2> DEFINE x == [Now EXCEPT !.sessions[s] =
                     [sessions[s] EXCEPT
                        !.commands = Append(sessions[s].commands, command),
                        !.owed = Append(sessions[s].owed, command)]]
  <2>2. SameWire(Now, x) /\ SameLeases(Now, x) /\ SameClients(x)
    BY DEF Now, SameWire, NoWrite, SameLeases, SameClients
  <2>3. CommitAndSchedule(x) \/ CommitAndSchedule([Now EXCEPT !.closed = {s}])
    BY <2>1 DEF ClientFrame
  <2> HIDE DEF x
  <2> QED
    BY <1>0, <1>2, <1>3, <2>2, <2>3
<1>7. ASSUME \E s : ClientClosed(s) \/ WriteFailed(s)
      PROVE  Quiet
  BY <1>2, <1>3, <1>7 DEF ClientClosed, WriteFailed
<1>8. ASSUME \E s : Written(s)
      PROVE  Quiet
  <2>1. PICK s : Written(s)
    BY <1>8
  <2> DEFINE x == [Now EXCEPT !.sessions[s].writes = Tail(sessions[s].writes)]
             y == Fail(Finish(x))
  <2>2. /\ SameWire(Now, x) /\ SameLeases(Now, x) /\ SameClients(x)
        /\ y.failing /\ NoWrite(Now, y) /\ Holds(y) /\ SameClients(y)
    BY DEF Fail, Finish, Now, SameWire, NoWrite, Holds, SameLeases, SameClients,
       NoTransaction
  <2>3. CommitAndSchedule(x) \/ CommitAndSchedule(y)
    BY <2>1 DEF Written
  <2> HIDE DEF x, y
  <2> QED
    BY <1>0, <1>2, <2>2, <2>3
<1>9. ASSUME \/ LateUpstreamFrame \/ UpstreamClosed
             \/ ResponseTimeout \/ UpstreamWriteTimeout
      PROVE  Quiet
  BY <1>2, <1>3, <1>9 DEF LateUpstreamFrame, UpstreamClosed, ResponseTimeout,
     UpstreamWriteTimeout
<1>10. ASSUME \E stuck, late, expired, poll : Tick(stuck, late, expired, poll)
       PROVE  /\ Rests /\ SigningGoes /\ Newcomers
              /\ "remote" \notin Deadlines => LeaseGoes /\ Passes(remote)
  <2>1. PICK stuck, late, expired, poll : Tick(stuck, late, expired, poll)
    BY <1>10
  <2> DEFINE table == [s \in DOMAIN sessions |->
                         IF s \in late
                         THEN [Reply(sessions[s], "frame") EXCEPT !.sync = 0]
                         ELSE sessions[s]]
             x == [Now EXCEPT
                     !.closed = stuck,
                     !.sessions = IF poll THEN HintAll(table) ELSE table,
                     !.remote = IF "remote" \in expired THEN NoRemote
                                ELSE remote,
                     !.signing = IF "signing" \in expired THEN NoSigning
                                 ELSE signing]
  <2>2. /\ SameWire(Now, x) /\ x.active = active
        /\ x.remote = IF "remote" \in expired THEN NoRemote ELSE remote
        /\ x.signing = IF "signing" \in expired THEN NoSigning ELSE signing
        /\ DOMAIN x.sessions = DOMAIN sessions
    BY DEF Now, SameWire, NoWrite, HintAll
  <2>3. CommitAndSchedule(x)
    BY <2>1 DEF Tick
  <2>4. /\ expired \subseteq Deadlines
        /\ "signing" \in expired =>
             ~ Busy \/ active.command.op \notin Signing
    BY <2>1 DEF Tick
  <2> HIDE DEF x
  <2>5. x.remote \in Remote
    BY <2>2, LeaseTypes DEF TypeInv, TypeOK
  <2>6. /\ Follows(x.remote, remote') \/ (failed' /\ Withdrawn(active, remote'))
        /\ \/ signing' = x.signing
           \/ /\ signing' = NoSigning
              /\ failed' \/ ~ Busy \/ active.owner # x.signing.owner
    BY <1>2, <2>2, <2>3, <2>5, CommitLeases DEF Busy
  <2>7. SigningGoes
    BY <2>2, <2>4, <2>6 DEF SigningGoes, NoSigning
  <2>8. "remote" \notin Deadlines => LeaseGoes
    BY <2>2, <2>4, <2>6 DEF LeaseGoes
  <2>9. Rests
    BY <1>2, <2>2, <2>3, CalmCommit
  <2>10. Passes(x.remote) /\ Newcomers
    BY <1>2, <2>2, <2>3, <2>5, CommitPasses DEF Newcomers
  <2>11. "remote" \notin Deadlines => Passes(remote)
    BY <2>2, <2>4, <2>10
  <2> QED
    BY <2>7, <2>8, <2>9, <2>10, <2>11
<1>11. ASSUME \E k, s : TurnReject(k, s)
       PROVE  Quiet
  <2>1. PICK k, s : TurnReject(k, s)
    BY <1>11
  <2> DEFINE e == TurnTaken(k, s, Head(sessions[s].commands))
             x == [e EXCEPT !.sessions[s] = Reply(e.sessions[s], "frame")]
  <2>2. Commit(x) /\ NextTurn(k, s) /\ s # 0
    BY <2>1 DEF TurnReject
  <2>3. e \in State(next_session)
    BY <2>2, TurnTakenType
  <2>4. SameWire(Now, e) /\ SameLeases(Now, e) /\ DOMAIN e.sessions = DOMAIN sessions
    BY DEF TurnTaken, Now, SameWire, NoWrite, SameLeases
  <2> HIDE DEF e
  <2>5. SameWire(e, x) /\ SameLeases(e, x) /\ DOMAIN x.sessions = DOMAIN e.sessions
    BY <2>3 DEF State, SameWire, NoWrite, SameLeases
  <2> HIDE DEF x
  <2>6. SameWire(Now, x) /\ SameLeases(Now, x) /\ SameClients(x)
    BY <2>4, <2>5 DEF SameWire, NoWrite, SameLeases, SameClients
  <2> QED
    BY <1>0, <2>2, <2>6
<1>12. ASSUME \E d : Admit(d)
       PROVE  Quiet \/ UNCHANGED <<active, failed, next_write, outgoing,
                                    remote, signing, sessions>>
  <2>1. PICK d : Admit(d)
    BY <1>12
  <2> DEFINE id == next_session + 1
             old == IF d = 0 THEN 0 ELSE slots[d].attached
             others == DOMAIN sessions \ {old}
             new == Hint([NewSession(d) EXCEPT
                            !.inbox = IF TakesOrphan(d) THEN <<orphan>>
                                      ELSE <<>>])
             x == [Now EXCEPT
                     !.sessions = [s \in others \cup {id} |->
                                     IF s = id THEN new ELSE sessions[s]],
                     !.order = Append(order, id),
                     !.slots = [y \in Slots |->
                                  IF y = d THEN [slots[y] EXCEPT !.attached = id]
                                  ELSE slots[y]],
                     !.orphan = IF TakesOrphan(d) THEN 0 ELSE orphan,
                     !.drain = IF others = {} THEN NoDrain ELSE drain]
  <2>2. SameWire(Now, x) /\ SameLeases(Now, x) /\ SameClients(x)
    BY DEF Now, SameWire, NoWrite, SameLeases, SameClients
  <2>3. \/ UNCHANGED <<active, failed, next_write, outgoing, remote, signing,
                       sessions>>
        \/ CommitAndSchedule(x)
    BY <2>1 DEF Admit
  <2> HIDE DEF x
  <2> QED
    BY <1>0, <1>2, <2>2, <2>3
<1>13. ASSUME \/ ScheduleBusy \/ TurnNone \/ QuarantineDeadline
              \/ \E i : DmDeadline(i)
       PROVE  UNCHANGED <<active, failed, next_write, outgoing, remote, signing,
                         sessions>>
  BY <1>13 DEF ScheduleBusy, TurnNone, QuarantineDeadline, DmDeadline
<1>14. ASSUME UNCHANGED <<active, failed, next_write, outgoing, remote, signing,
                         sessions>>
       PROVE  Rests /\ LeaseGoes /\ SigningGoes /\ Passes(remote) /\ Newcomers
  BY <1>14 DEF Passes, Newcomers, Rests, LeaseGoes, SigningGoes, Follows, TypeInv, TypeOK, Remote
<1> HIDE DEF Quiet
<1> QED
  BY <1>1, <1>4, <1>5, <1>6, <1>7, <1>8, <1>9, <1>10, <1>11, <1>12, <1>13, <1>14
     DEF ClientStep, ClockStep

LEMMA TurnPopStarts ==
  ASSUME TypeInv, NEW k, TurnPop(k)
  PROVE  Starts /\ active'.owner = 0 /\ active'.command = Sync
<1> DEFINE e == [Now EXCEPT !.order = Rotated(k)]
           p == [e EXCEPT !.drain.requested = FALSE,
                          !.pop_sequence = e.pop_sequence + 1]
           tx == [NoTransaction EXCEPT
                    !.command = Sync, !.pop_sequence = e.pop_sequence + 1,
                    !.generation = e.generation,
                    !.had_multi_client =
                      \E s \in DOMAIN e.sessions : e.sessions[s].slot = 0,
                    !.covers = {s \in DOMAIN e.sessions :
                                  e.sessions[s].sync # 0}]
           ty == [tx EXCEPT !.step = "command"]
           x == DispatchPop(e)
<1>1. Commit(x) /\ NextTurn(k, 0)
  BY DEF TurnPop
<1>2. /\ x.next_write = next_write + 1
      /\ x.active = [ty EXCEPT !.write = next_write + 1]
      /\ x.outgoing = Append(outgoing, [id |-> next_write + 1, command |-> Sync,
                                        owner |-> 0, scope |-> DefaultScope])
  BY DEF DispatchPop, SendCommand, SendUpstream, Now, NoTransaction
<1>3. /\ x.active.step = "command" /\ x.active.write = next_write + 1
      /\ x.active.command = Sync /\ x.active.owner = 0
      /\ x.active.scope = DefaultScope /\ ~ x.active.scoped
      /\ ~ x.active.contacts_started
  BY <1>2 DEF NoTransaction
<1>4. x.failing = FALSE
  BY DEF DispatchPop, SendCommand, SendUpstream, Now
<1> HIDE DEF x
<1>5. ~ EpochEnds(x)
  BY <1>3, <1>4 DEF EpochEnds
<1>6. /\ failed' = failed /\ active' = x.active
      /\ outgoing' = x.outgoing /\ next_write' = x.next_write
  BY <1>1, <1>5 DEF Commit, NextState, Continue
<1>7. Job(next_write', active')
        = [id |-> next_write + 1, command |-> Sync, owner |-> 0,
           scope |-> DefaultScope]
  BY <1>2, <1>3, <1>6 DEF Job, WireCommand
<1> QED
  BY <1>2, <1>3, <1>6, <1>7 DEF Starts

LEMMA TurnDispatchStarts ==
  ASSUME TypeInv, NEW k, NEW s, TurnDispatch(k, s)
  PROVE  /\ Starts
         /\ active'.owner = s /\ s \in DOMAIN sessions
         /\ active'.command = Head(sessions[s].commands)
         /\ AdmitsCommand(s, active'.command)
<1> DEFINE command == Head(sessions[s].commands)
           e == TurnTaken(k, s, command)
           r == Reserved(e, s, command)
           scope == r.sessions[s].scope
           tx == [NoTransaction EXCEPT !.owner = s, !.command = command,
                                       !.scope = scope]
           x == Dispatch(r, s, command)
<1>1. /\ s # 0 /\ NextTurn(k, s) /\ Commit(x) /\ AdmitsCommand(s, command)
  BY DEF TurnDispatch
<1>0. next_session \in Nat /\ DOMAIN sessions \subseteq 1 .. next_session
  BY DEF TypeInv, TypeOK
<1>2. e \in State(next_session) /\ s \in DOMAIN sessions /\ command \in Command
      /\ s \in DOMAIN e.sessions /\ s \in Nat
  <2>1. e \in State(next_session) /\ s \in DOMAIN sessions /\ command \in Command
        /\ s \in DOMAIN e.sessions
    BY <1>1, TurnTakenType
  <2> QED
    BY <1>0, <2>1
<1>3. SameWire(Now, e) /\ e.failing = FALSE
  BY DEF TurnTaken, Now, SameWire, NoWrite
<1> HIDE DEF e, command
<1>4. r \in State(next_session) /\ SameWire(e, r) /\ r.failing = e.failing
      /\ r.sessions = e.sessions
  <2>1. r \in State(next_session) /\ r.sessions = e.sessions
    BY <1>2, ReservedType
  <2> QED
    BY <1>2, <2>1 DEF Reserved, State, SameWire, NoWrite
<1>5. /\ r.outgoing = outgoing /\ r.next_write = next_write
      /\ r.failing = FALSE
  BY <1>3, <1>4 DEF SameWire, NoWrite, Now
<1> HIDE DEF r
<1>6. scope \in Nat /\ next_session \in Nat
  <2>1. r.sessions \in SessionTables(next_session) /\ s \in DOMAIN r.sessions
    BY <1>2, <1>4 DEF State
  <2>2. r.sessions[s] \in Session
    BY <1>0, <2>1, TableType
  <2> QED
    BY <1>0, <2>2 DEF Session
<1> HIDE DEF scope
<1>7. /\ tx \in Transaction /\ tx.owner = s /\ tx.command = command
      /\ tx.scope = scope /\ ~ tx.scoped /\ ~ tx.contacts_started
  BY <1>2, <1>6, NoTransactionType DEF Transaction, NoTransaction
<1>8. CASE command.op \in ScopeSend /\ scope # DefaultScope
  <2> DEFINE ty == [tx EXCEPT !.step = "setup", !.scoped = TRUE]
             y == SendUpstream(r, ty, SetScope(scope))
  <2>1. x = y
    BY <1>8 DEF Dispatch, scope
  <2> HIDE DEF tx
  <2>2. /\ ty \in Transaction /\ ty.step = "setup" /\ ty.scoped
        /\ ty.owner = s /\ ty.command = command /\ ty.scope = scope
        /\ ~ ty.contacts_started
    BY <1>7 DEF Transaction, Steps
  <2>3. SetScope(scope) = WireCommand(ty)
    BY <2>2 DEF WireCommand
  <2> HIDE DEF ty
  <2>4. /\ Issues(r, y) /\ y.active = [ty EXCEPT !.write = r.next_write + 1]
        /\ y.failing = FALSE
    BY <1>4, <1>5, <1>6, <2>2, <2>3, SendUpstreamIssues
  <2>5. /\ y.active.step = "setup" /\ y.active.scoped /\ y.active.owner = s
        /\ y.active.command = command /\ ~ y.active.contacts_started
    BY <2>2, <2>4 DEF Transaction
  <2> HIDE DEF x, y
  <2>6. ~ EpochEnds(x)
    BY <2>1, <2>4, <2>5 DEF EpochEnds
  <2>7. /\ failed' = failed /\ active' = y.active
        /\ outgoing' = y.outgoing /\ next_write' = y.next_write
    BY <1>1, <2>1, <2>6 DEF Commit, NextState, Continue
  <2> QED
    BY <1>1, <1>2, <1>5, <1>8, <2>4, <2>5, <2>7 DEF Starts, Issues, command
<1>9. CASE ~ (command.op \in ScopeSend /\ scope # DefaultScope)
  <2> DEFINE y == SendCommand(r, tx)
  <2>1. x = y
    BY <1>9 DEF Dispatch, scope
  <2> HIDE DEF tx
  <2>2. /\ Issues(r, y) /\ y.active = [tx EXCEPT !.step = "command",
                                                 !.write = r.next_write + 1]
        /\ y.failing = FALSE
    BY <1>4, <1>5, <1>6, <1>7, SendCommandIssues
  <2>3. /\ y.active.step = "command" /\ ~ y.active.scoped
        /\ y.active.owner = s /\ y.active.scope = scope
        /\ y.active.command = command /\ ~ y.active.contacts_started
    BY <1>7, <2>2 DEF Transaction
  <2> HIDE DEF x, y
  <2>4. ~ EpochEnds(x)
    BY <2>1, <2>2, <2>3 DEF EpochEnds
  <2>5. /\ failed' = failed /\ active' = y.active
        /\ outgoing' = y.outgoing /\ next_write' = y.next_write
    BY <1>1, <2>1, <2>4 DEF Commit, NextState, Continue
  <2> QED
    BY <1>1, <1>2, <1>5, <1>9, <2>2, <2>3, <2>5 DEF Starts, Issues, command
<1> QED
  BY <1>8, <1>9
\* The lease is taken by the command that is dispatched, or left alone.
LEMMA TurnLeases ==
  ASSUME TypeInv, NEW k, NEW s, TurnPop(k) \/ TurnDispatch(k, s)
  PROVE  /\ IF active'.command.op \in RemoteLease
            THEN /\ remote.kind = "none" /\ remote'.kind = active'.command.op
                 /\ remote'.owner \in {0, active'.owner}
                 /\ remote'.key = active'.command.arg
                 /\ Passes(Reserve(active'.owner, active'.command))
            ELSE Follows(remote, remote') /\ Passes(remote)
         /\ Newcomers
<1>1. remote \in Remote /\ next_session \in Nat
      /\ DOMAIN sessions \subseteq 1 .. next_session
  BY DEF TypeInv, TypeOK
<1>2. ASSUME NEW x, Commit(x), active'.step # "none"
      PROVE  /\ \E left : remote' = RemoteOwnerGone(x.remote, left)
             /\ active' = x.active
             /\ x.remote \in Remote =>
                  Passes(x.remote) /\ DOMAIN sessions' \subseteq DOMAIN x.sessions
  <2>1. ~ EpochEnds(x) /\ active' = x.active
    BY <1>2, CommitWire DEF NoTransaction
  <2>2. remote' = RemoteOwnerGone(x.remote, Survivors(x))
    BY <1>2, <2>1 DEF Commit, NextState, Continue
  <2> QED
    BY <1>2, <2>1, <2>2, CommitPasses
<1>3. CASE TurnPop(k)
  <2> DEFINE x == DispatchPop([Now EXCEPT !.order = Rotated(k)])
  <2>1. Commit(x)
    BY <1>3 DEF TurnPop
  <2>2. x.remote = remote /\ x.sessions = sessions
    BY DEF DispatchPop, SendCommand, SendUpstream, Now
  <2> HIDE DEF x
  <2>3. active'.step # "none" /\ active'.command = Sync
    BY <1>3, TurnPopStarts DEF Starts
  <2>4. PICK left : remote' = RemoteOwnerGone(remote, left)
    BY <1>2, <2>1, <2>2, <2>3
  <2>6. Passes(remote) /\ Newcomers
    BY <1>1, <1>2, <2>1, <2>2, <2>3 DEF Newcomers
  <2>5. active'.command.op \notin RemoteLease
    BY <2>3 DEF Sync, RemoteLease
  <2> QED
    BY <1>1, <2>4, <2>5, <2>6 DEF RemoteOwnerGone, Follows, Remote
<1>4. CASE TurnDispatch(k, s)
  <2> DEFINE command == Head(sessions[s].commands)
             e == TurnTaken(k, s, command)
             r == Reserved(e, s, command)
             x == Dispatch(r, s, command)
  <2>1. s # 0 /\ NextTurn(k, s) /\ Commit(x)
    BY <1>4 DEF TurnDispatch
  <2>2. /\ Starts /\ active'.owner = s /\ s \in DOMAIN sessions
        /\ active'.command = command /\ AdmitsCommand(s, command)
    BY <1>4, TurnDispatchStarts
  <2>3. e \in State(next_session) /\ command \in Command
    BY <2>1, TurnTakenType
  <2>4. e.remote = remote /\ DOMAIN e.sessions = DOMAIN sessions
    BY DEF TurnTaken, Now
  <2> HIDE DEF e, command
  <2>5. r \in State(next_session)
    BY <1>1, <2>2, <2>3, ReservedType
  <2>6. r.remote = IF command.op \in RemoteLease THEN Reserve(s, command)
                   ELSE remote
    BY <2>3, <2>4 DEF Reserved, State, RemoteLease
  <2>7. x.remote = r.remote /\ x.sessions = r.sessions /\ r.sessions = e.sessions
    <3>1. r.sessions = e.sessions
      BY <2>3 DEF r, Reserved, State
    <3> QED
      BY <2>5, <3>1 DEF Dispatch, SendCommand, SendUpstream, State
  <2> HIDE DEF r, x
  <2>11. Passes(r.remote) /\ Newcomers
    <3>1. r.remote \in Remote
      BY <2>5 DEF State
    <3> QED
      BY <1>2, <2>1, <2>2, <2>4, <2>7, <3>1 DEF Newcomers, Starts
  <2>8. PICK left : remote' = RemoteOwnerGone(r.remote, left)
    BY <1>2, <2>1, <2>2, <2>7 DEF Starts
  <2>9. CASE command.op \in RemoteLease
    <3>1. remote.kind = "none"
      BY <2>2, <2>9 DEF AdmitsCommand, OffAir
    <3> QED
      BY <2>2, <2>6, <2>8, <2>9, <2>11, <3>1 DEF RemoteOwnerGone, Reserve
  <2>10. CASE command.op \notin RemoteLease
    BY <1>1, <2>2, <2>6, <2>8, <2>10, <2>11 DEF RemoteOwnerGone, Follows, Remote
  <2> QED
    BY <2>9, <2>10
<1> QED
  BY <1>3, <1>4

-----------------------------------------------------------------------------
(* What comes from upstream                                                *)

\* The queue of the writer grows by at most the write just numbered.
Grows ==
  \/ outgoing' = outgoing /\ next_write' = next_write
  \/ /\ next_write' = next_write + 1
     /\ \E w : w.id = next_write' /\ outgoing' = Append(outgoing, w)

\* The transaction goes on as the reply f lets it.
Answered(f) ==
  \E x : /\ Responds(WriteIsOver, x, f)
         /\ outgoing' = x.outgoing /\ next_write' = x.next_write
         /\ active' = x.active

LEMMA RespondsGrows ==
  ASSUME NEW x, NEW f, Responds(WriteIsOver, x, f),
         outgoing' = x.outgoing, next_write' = x.next_write
  PROVE  Grows
<1>1. WriteIsOver.outgoing = outgoing /\ WriteIsOver.next_write = next_write
  BY DEF WriteIsOver, Now
<1>2. NoWrite(WriteIsOver, x) \/ Issues(WriteIsOver, x)
  BY DEF Responds
<1>3. CASE NoWrite(WriteIsOver, x)
  BY <1>1, <1>3 DEF NoWrite, Grows
<1>4. CASE Issues(WriteIsOver, x)
  <2>1. Job(x.next_write, x.active).id = x.next_write
    BY DEF Job
  <2> QED
    BY <1>1, <1>4, <2>1 DEF Issues, Grows
<1> QED
  BY <1>2, <1>3, <1>4

\* A push leaves the transaction alone unless it is the reply to the own
\* telemetry.
LEMMA PushNoWrite ==
  ASSUME NEW f, ~ AnswersSelfTelemetry(f)
  PROVE  SameWire(Now, Push(f)) /\ Push(f).failing = FALSE
<1>1. SameWire(Now, AvailabilityHint) /\ AvailabilityHint.failing = FALSE
  BY DEF AvailabilityHint, Now, SameWire, NoWrite
<1>2. SameWire(Now, RemoteResult(f)) /\ RemoteResult(f).failing = FALSE
  BY DEF RemoteResult, Now, SameWire, NoWrite
<1>3. \A ring, table :
        LET x == [Now EXCEPT !.dm_ring = ring, !.sessions = table]
            y == [Now EXCEPT !.sessions = table]
        IN /\ SameWire(Now, x) /\ x.failing = FALSE
           /\ SameWire(Now, y) /\ y.failing = FALSE
  BY DEF Now, SameWire, NoWrite
<1> QED
  BY <1>1, <1>2, <1>3 DEF Push

LEMMA UpstreamFrameWire ==
  ASSUME TypeInv, NEW f \in Frames, UpstreamFrame(f)
  PROVE  /\ Grows
         /\ IF f.code \in PushCodes /\ ~ AnswersSelfTelemetry(f)
            THEN Rests ELSE failed' \/ Answered(f)
<1> DEFINE x == CASE Malformed(f) -> Fail(Now)
                  [] f.code \in PushCodes -> Push(f)
                  [] OTHER -> TransactionResponse(f)
<1>1. Commit(x)
  BY DEF UpstreamFrame, CommitAndSchedule
<1>2. Malformed(f) => f.code \notin PushCodes
  BY DEF Malformed, PushCodes, RemotePushes
<1>3. ASSUME NEW y, Commit(y), y = Fail(Now)
      PROVE  Grows /\ failed' /\ Rests
  <2>1. y.failing /\ NoWrite(Now, y)
    BY <1>3 DEF Fail, NoWrite, Now
  <2>2. Rests /\ failed'
    BY <1>3, <2>1, CalmCommit, CommitWire
  <2> QED
    BY <2>2 DEF Rests, Grows
<1>4. ASSUME NEW y, Commit(y), y = TransactionResponse(f)
      PROVE  Grows /\ (failed' \/ Answered(f))
  <2>1. /\ outgoing' = y.outgoing /\ next_write' = y.next_write
        /\ failed' \/ active' = y.active
        /\ y.failing => failed'
    BY <1>4, CommitWire
  <2>2. (y.failing /\ SameWire(WriteIsOver, y)) \/ Responds(WriteIsOver, y, f)
    BY <1>4, ResponseWire
  <2>3. CASE y.failing /\ SameWire(WriteIsOver, y)
    BY <2>1, <2>3 DEF SameWire, NoWrite, WriteIsOver, Now, Grows
  <2>4. CASE Responds(WriteIsOver, y, f)
    BY <2>1, <2>4, RespondsGrows DEF Answered
  <2> QED
    BY <2>2, <2>3, <2>4
<1>5. CASE Malformed(f)
  <2>1. x = Fail(Now)
    BY <1>2, <1>5
  <2> HIDE DEF x
  <2> QED
    BY <1>1, <1>2, <1>3, <1>5, <2>1
<1>6. CASE ~ Malformed(f) /\ f.code \in PushCodes /\ ~ AnswersSelfTelemetry(f)
  <2>1. x = Push(f)
    BY <1>6
  <2> HIDE DEF x
  <2>2. SameWire(Now, x)
    BY <1>6, <2>1, PushNoWrite
  <2>3. Rests
    BY <1>1, <2>2, CalmCommit
  <2> QED
    BY <1>6, <2>3 DEF Rests, Grows
<1>7. CASE ~ Malformed(f) /\ f.code \in PushCodes /\ AnswersSelfTelemetry(f)
  <2>1. x = TransactionResponse(f)
    BY <1>7 DEF Push, AnswersSelfTelemetry, RemotePushes
  <2> HIDE DEF x
  <2> QED
    BY <1>1, <1>4, <1>7, <2>1
<1>8. CASE ~ Malformed(f) /\ f.code \notin PushCodes
  <2>1. x = TransactionResponse(f)
    BY <1>8
  <2> HIDE DEF x
  <2> QED
    BY <1>1, <1>4, <1>8, <2>1
<1> QED
  BY <1>5, <1>6, <1>7, <1>8

LEMMA WrittenWire ==
  ASSUME TypeInv, NEW w, UpstreamWritten(w)
  PROVE  /\ outgoing' = outgoing /\ next_write' = next_write
         /\ \/ failed'
            \/ /\ failed' = failed
               /\ active' = [active EXCEPT !.write =
                               IF AwaitsWrite(w) THEN 0 ELSE active.write]
         /\ LeaseGoes /\ SigningGoes /\ Passes(remote) /\ Newcomers
<1> DEFINE x == [Now EXCEPT
                   !.upstream_writes = upstream_writes \ {w},
                   !.active.write = IF AwaitsWrite(w) THEN 0 ELSE active.write]
<1>1. Commit(x)
  BY DEF UpstreamWritten, CommitAndSchedule
<1>2. /\ x.outgoing = outgoing /\ x.next_write = next_write
      /\ x.active = [active EXCEPT !.write =
                       IF AwaitsWrite(w) THEN 0 ELSE active.write]
  BY DEF Now
<1>3. SameLeases(Now, x) /\ SameClients(x)
  BY DEF SameLeases, SameClients, Now
<1> HIDE DEF x
<1>4. active \in Transaction
  BY DEF TypeInv, TypeOK
<1>5. /\ x.active.step = active.step /\ x.active.command = active.command
      /\ x.active.owner = active.owner
  BY <1>2, <1>4 DEF Transaction
<1>6. Holds(x)
  BY <1>3, <1>5 DEF Holds
<1> QED
  BY <1>1, <1>2, <1>3, <1>6, CommitWire, HoldsGoes
\* The reply takes the lease from the command.
Rejected(tx, f) ==
  UnderWay(tx) /\ tx.command.op \in RemoteLease /\ f.code = "err"

\* The reply says that the companion has accepted the request.
Accepting(tx, f) ==
  tx.step = "command" /\ tx.command.op \in RemoteLease /\ f.code = "sent"

\* The signing operation after the reply f to one of its commands.
SigningAnswered(lease, tx, f) ==
  CASE tx.command.op = "sign_start" -> StartResponse(lease, f)
    [] tx.command.op = "sign_data" -> DataResponse(lease, f)
    [] tx.command.op = "sign_finish" -> FinishResponse(lease, f)

\* What transaction_response does with the leases.
LeasesAnswer(e, x, f) ==
  /\ \/ x.remote = e.remote
     \/ Accepting(e.active, f) /\ x.remote = RemoteAccepted(e.remote, f.arg)
     \/ Rejected(e.active, f) /\ x.remote = NoRemote
  /\ IF e.active.step = "command" /\ e.active.command.op \in Signing
     THEN \/ x.failing /\ x.signing = e.signing
          \/ /\ Valid(e.active, f)
             /\ x.signing = SigningAnswered(e.signing, e.active, f)
     ELSE x.signing = e.signing

LEMMA RecordsLeases ==
  ASSUME NEW n \in Nat, NEW e \in State(n), NEW f \in Frames,
         e.active.step = "command", Valid(e.active, f)
  PROVE  LeasesAnswer(e, RecordAcceptance(e, e.active.command, f), f)
<1> DEFINE command == e.active.command
           x == RecordAcceptance(e, command, f)
<1>1. CASE command.op \in RemoteLease
  <2>1. x.remote = IF f.code = "sent" THEN RemoteAccepted(e.remote, f.arg)
                   ELSE NoRemote
    BY <1>1 DEF RecordAcceptance, State, PlainDm, RemoteLease
  <2>2. f.code \in {"sent", "err"}
    BY <1>1, ReplyCodes DEF Valid, ValidResponse
  <2>3. x.signing = e.signing /\ command.op \notin Signing
    BY <1>1 DEF RecordAcceptance, State, Signing, PlainDm, RemoteLease
  <2> HIDE DEF x
  <2> QED
    BY <1>1, <2>1, <2>2, <2>3
       DEF LeasesAnswer, Accepting, Rejected, UnderWay, x
<1>2. CASE command.op \notin RemoteLease
  <2>1. x.remote = e.remote
    BY <1>2 DEF RecordAcceptance, State
  <2>2. x.signing = IF command.op \in Signing
                    THEN SigningAnswered(e.signing, e.active, f)
                    ELSE e.signing
    BY <1>2 DEF RecordAcceptance, State, Signing, SigningAnswered, PlainDm
  <2> HIDE DEF x
  <2> QED
    BY <2>1, <2>2 DEF LeasesAnswer, x
<1> QED
  BY <1>1, <1>2

LEMMA OwnerLeases ==
  ASSUME NEW n \in Nat, NEW e \in State(n), NEW tx, NEW f
  PROVE  /\ SameLeases(e, ReplyToOwner(e, f))
         /\ SameLeases(e, PopResult(e, tx, f))
BY DEF ReplyToOwner, PopResult, NoMoreMessages, FanOut, SameLeases, State

LEMMA AfterLeases ==
  ASSUME NEW n \in Nat, NEW e \in State(n)
  PROVE  SameLeases(e, AfterCommand(e))
BY DEF AfterCommand, SendUpstream, Finish, SameLeases, State

LEMMA ResponseLeases ==
  ASSUME TypeInv, NEW f \in Frames
  PROVE  LeasesAnswer(WriteIsOver, TransactionResponse(f), f)
<1> DEFINE e == WriteIsOver
           x == TransactionResponse(f)
           n == next_session
<1>1. n \in Nat /\ active \in Transaction /\ PopShape(active)
  BY DEF TypeInv, TypeOK
<1>2. e \in State(n) /\ e.active = [active EXCEPT !.write = 0]
  BY WriteIsOverType
<1>3. /\ e.active.step = active.step /\ e.active.owner = active.owner
      /\ e.active.command = active.command
      /\ e.active.contacts_started = active.contacts_started
      /\ e.remote \in Remote
  BY <1>1, <1>2 DEF Transaction, State
<1> HIDE DEF e, n
<1>4. ASSUME NEW y, SameLeases(e, y),
             \/ y.failing
             \/ e.active.step # "command" \/ e.active.command.op \notin Signing
      PROVE  LeasesAnswer(e, y, f)
  BY <1>3, <1>4 DEF LeasesAnswer, SameLeases
<1>5. Fail(e).failing /\ SameLeases(e, Fail(e))
  BY <1>2 DEF Fail, SameLeases, State
<1>6. CASE active.step \in {"none", "result"} \/ x = Fail(e)
  <2>1. x = Fail(e)
    BY <1>6 DEF TransactionResponse, e
  <2> HIDE DEF x
  <2> QED
    BY <1>4, <1>5, <2>1 DEF e, x
<1>7. CASE active.step \in {"setup", "restore"}
  <2>1. x = ScopeResponse(e, f)
    BY <1>7 DEF TransactionResponse, e
  <2> HIDE DEF x
  <2>2. CASE ~ (f.code = "err" /\ active.step = "setup")
    <3>1. SameLeases(e, x)
      BY <1>2, <1>3, <1>7, <2>1, <2>2
         DEF ScopeResponse, SendCommand, SendUpstream, Finish, Fail, SameLeases,
             State
    <3> QED
      BY <1>3, <1>4, <1>7, <3>1 DEF e, x
  <2>3. CASE f.code = "err" /\ active.step = "setup"
    <3>1. /\ x.signing = e.signing
          /\ x.remote = IF active.command.op \in RemoteLease THEN NoRemote
                        ELSE e.remote
      BY <1>2, <1>3, <2>1, <2>3 DEF ScopeResponse, Finish, State
    <3> QED
      BY <1>3, <2>3, <3>1
         DEF LeasesAnswer, Rejected, UnderWay, e, x
  <2> QED
    BY <2>2, <2>3
<1>8. CASE active.step = "command" /\ Valid(active, f) /\ active.owner = 0
  <2>1. \/ x = Fail(e)
        \/ x = PopResult(Finish(e), active, f)
    BY <1>8 DEF TransactionResponse, e, Valid
  <2>2. SameLeases(e, PopResult(Finish(e), active, f))
    <3>1. Finish(e) \in State(n)
      BY <1>1, <1>2, FinishType
    <3>2. SameLeases(e, Finish(e))
      BY <1>2 DEF Finish, SameLeases, State
    <3> QED
      BY <1>1, <3>1, <3>2, OwnerLeases DEF SameLeases
  <2>3. e.active.command.op \notin Signing
    BY <1>1, <1>3, <1>8 DEF PopShape, Sync, Signing
  <2> HIDE DEF x
  <2> QED
    BY <1>4, <1>6, <2>1, <2>2, <2>3 DEF e, x
<1>9. CASE active.step = "command" /\ Valid(active, f) /\ active.owner # 0
  <2> DEFINE told == ReplyToOwner(e, f)
             done == RecordAcceptance(told, active.command, f)
  <2>1. x = CommandResponse(e, f)
    BY <1>9 DEF TransactionResponse, e, Valid
  <2>2. /\ told \in State(n) /\ SameLeases(e, told)
        /\ told.active = e.active
    BY <1>1, <1>2, ReplyToOwnerType, OwnerLeases, OwnerKept
  <2>3. Valid(e.active, f)
    BY <1>3, <1>9 DEF Valid
  <2>4. CASE Completes(active.command, f)
    <3>1. x = AfterCommand(done)
      BY <1>3, <2>1, <2>4 DEF CommandResponse
    <3> HIDE DEF told, x
    <3>2. done \in State(n) /\ LeasesAnswer(told, done, f)
      <4>1. told.active.command = active.command /\ active.command \in Command
            /\ told.active.step = "command" /\ Valid(told.active, f)
        BY <1>1, <1>3, <1>9, <2>2, <2>3 DEF Transaction
      <4> QED
        BY <1>1, <2>2, <4>1, RecordAcceptanceType, RecordsLeases
    <3>3. done.failing = told.failing /\ told.failing = e.failing /\ e.failing = FALSE
      <4>1. done.failing = told.failing
        BY <1>1, <2>2, RecordsNoWrite
      <4>2. told.failing = e.failing
        BY <1>1, <1>2, RecordsNoWrite DEF told
      <4>3. e.failing = FALSE
        BY DEF e, WriteIsOver, Now
      <4> QED
        BY <4>1, <4>2, <4>3
    <3> HIDE DEF done
    <3>4. SameLeases(done, AfterCommand(done))
      BY <1>1, <3>2, AfterLeases
    <3> QED
      BY <2>2, <3>1, <3>2, <3>3, <3>4 DEF LeasesAnswer, SameLeases, e, x
  <2>5. CASE ~ Completes(active.command, f)
    <3>1. x = [told EXCEPT !.active.contacts_started = TRUE]
      BY <1>3, <2>1, <2>5 DEF CommandResponse
    <3> HIDE DEF told, x
    <3>2. SameLeases(e, x)
      BY <2>2, <3>1 DEF SameLeases, State
    <3>3. e.active.command.op \notin Signing
      BY <1>3, <2>5 DEF Completes, Signing
    <3> QED
      BY <1>4, <3>2, <3>3 DEF e, x
  <2> QED
    BY <2>4, <2>5
<1>10. CASE active.step = "command" /\ ~ Valid(active, f)
  <2>1. x = Fail(e)
    BY <1>10 DEF TransactionResponse, e, Valid
  <2> QED
    BY <1>6, <2>1
<1> QED
  BY <1>1, <1>6, <1>7, <1>8, <1>9, <1>10 DEF Transaction, Steps

\* The lease goes on, or it is free since the reply f, or the end of the epoch,
\* shows that the request was not sent.
LeaseLeft(f) ==
  \/ Follows(remote, remote')
  \/ /\ remote'.kind = "none"
     /\ Rejected(active, f)
          \/ (active.step = "setup" /\ active.command.op \in RemoteLease)

\* The push f is the result of the request that holds the lease.
Matched(f) ==
  /\ outgoing' = outgoing /\ (failed' \/ active' = active)
  /\ f.code \in DOMAIN RemotePushes /\ ~ AnswersSelfTelemetry(f)
  /\ RemoteMatches(remote, f) /\ remote'.kind = "none"

\* The frame f is the reply to the running transaction's write.
Reacts(f) ==
  \E x : /\ Responds(WriteIsOver, x, f)
         /\ outgoing' = x.outgoing
         /\ active' = x.active \/ (failed' /\ active' = NoTransaction)
         /\ \/ Follows(remote, remote')
            \/ Rejected(active, f) /\ remote'.kind = "none"

LEMMA PushLeases ==
  ASSUME TypeInv, NEW f, ~ AnswersSelfTelemetry(f), Commit(Push(f))
  PROVE  \/ LeaseGoes
         \/ /\ f.code \in DOMAIN RemotePushes
            /\ RemoteMatches(remote, f) /\ remote'.kind = "none"
<1> DEFINE x == Push(f)
<1>1. /\ x.active = active
      /\ \/ x.remote = remote
         \/ /\ x.remote = NoRemote
            /\ f.code \in DOMAIN RemotePushes /\ RemoteMatches(remote, f)
  <2>1. RemoteResult(f).remote = remote \/
          (RemoteResult(f).remote = NoRemote /\ RemoteMatches(remote, f))
    BY DEF RemoteResult, Now
  <2>2. x.active = active
    BY PushNoWrite DEF SameWire, Now
  <2>3. f.code \notin DOMAIN RemotePushes => x.remote = remote
    BY DEF Push, AvailabilityHint, Now
  <2>4. f.code \in DOMAIN RemotePushes => x = RemoteResult(f)
    BY DEF Push, RemotePushes
  <2> HIDE DEF x
  <2> QED
    BY <2>1, <2>2, <2>3, <2>4
<1>2. x.remote \in Remote
  BY <1>1, LeaseTypes DEF TypeInv, TypeOK
<1> HIDE DEF x
<1>3. Follows(x.remote, remote') \/ (failed' /\ Withdrawn(active, remote'))
  BY <1>1, <1>2, CommitLeases DEF x
<1> QED
  BY <1>1, <1>3 DEF LeaseGoes, Follows, Withdrawn, NoRemote

LEMMA FrameLeases ==
  ASSUME TypeInv, NEW f \in Frames, UpstreamFrame(f)
  PROVE  \/ outgoing' = outgoing /\ failed' /\ active' = NoTransaction
              /\ LeaseLeft(f)
         \/ outgoing' = outgoing /\ active' = active /\ Follows(remote, remote')
         \/ Matched(f)
         \/ Reacts(f)
<1> DEFINE x == CASE Malformed(f) -> Fail(Now)
                  [] f.code \in PushCodes -> Push(f)
                  [] OTHER -> TransactionResponse(f)
<1>1. Commit(x)
  BY DEF UpstreamFrame, CommitAndSchedule
<1>2. Malformed(f) => f.code \notin PushCodes
  BY DEF Malformed, PushCodes, RemotePushes
<1>3. ASSUME NEW y, Commit(y)
      PROVE  /\ outgoing' = y.outgoing
             /\ y.failing => failed' /\ active' = NoTransaction
             /\ active' = y.active \/ (failed' /\ active' = NoTransaction)
  BY <1>3 DEF Commit, NextState, FailEpoch, Continue, EpochEnds
<1>4. LeaseGoes => LeaseLeft(f)
  BY DEF LeaseGoes, LeaseLeft, Withdrawn, NoRemote
<1>5. CASE Malformed(f)
  <2>1. x = Fail(Now)
    BY <1>2, <1>5
  <2> HIDE DEF x
  <2>2. Fail(Now).failing /\ Fail(Now).outgoing = outgoing /\ Holds(Fail(Now))
    BY DEF Fail, Now, Holds, SameLeases
  <2> QED
    BY <1>1, <1>3, <1>4, <2>1, <2>2, HoldsGoes
<1>6. CASE ~ Malformed(f) /\ f.code \in PushCodes /\ ~ AnswersSelfTelemetry(f)
  <2>1. Commit(Push(f))
    BY <1>1, <1>6
  <2>2. Push(f).outgoing = outgoing /\ Push(f).active = active
    BY <1>6, PushNoWrite DEF SameWire, NoWrite, Now
  <2>3. /\ outgoing' = outgoing
        /\ active' = active \/ (failed' /\ active' = NoTransaction)
    BY <1>3, <2>1, <2>2
  <2>4. \/ LeaseGoes
        \/ /\ f.code \in DOMAIN RemotePushes
           /\ RemoteMatches(remote, f) /\ remote'.kind = "none"
    BY <1>6, <2>1, PushLeases
  <2>5. ASSUME LeaseGoes, ~ (failed' /\ active' = NoTransaction)
        PROVE  Follows(remote, remote')
    <3>1. failed' => active' = NoTransaction
      <4>1. Commit(Push(f)) => (failed' /\ active' = NoTransaction) \/ failed' = failed
        BY CommitWire
      <4>2. ~ failed
        BY DEF UpstreamFrame, AtRest
      <4> QED
        BY <2>1, <4>1, <4>2
    <3> QED
      BY <2>5, <3>1 DEF LeaseGoes
  <2> QED
    BY <1>4, <1>6, <2>3, <2>4, <2>5 DEF Matched
<1>7. ASSUME Commit(TransactionResponse(f))
      PROVE  \/ outgoing' = outgoing /\ failed' /\ active' = NoTransaction
                  /\ LeaseLeft(f)
             \/ Reacts(f)
  <2> DEFINE e == WriteIsOver
             y == TransactionResponse(f)
  <2>1. /\ e \in State(next_session) /\ e.active = [active EXCEPT !.write = 0]
        /\ active \in Transaction /\ e.remote = remote /\ e.outgoing = outgoing
        /\ next_session \in Nat
    BY WriteIsOverType DEF TypeInv, TypeOK, WriteIsOver, Now
  <2>2. /\ e.active.step = active.step /\ e.active.command = active.command
        /\ e.active \in Transaction
    BY <2>1 DEF Transaction
  <2>3. y \in State(next_session)
    BY TransactionResponseType
  <2>4. y.remote \in Remote
    BY <2>3 DEF State
  <2>5. (y.failing /\ SameWire(e, y)) \/ Responds(e, y, f)
    BY ResponseWire
  <2>6. LeasesAnswer(e, y, f)
    BY ResponseLeases
  <2> HIDE DEF y, e
  <2>7. /\ \/ Follows(remote, y.remote)
           \/ Rejected(active, f) /\ y.remote = NoRemote
        /\ y.active.step = "setup" =>
             active.step = "setup" /\ y.active.command = active.command
        /\ \/ y.failing /\ SameWire(e, y)
           \/ Responds(e, y, f) /\ y.active.step # "setup"
    <3>1. \/ Follows(remote, y.remote)
          \/ Rejected(active, f) /\ y.remote = NoRemote
      <4>1. Follows(remote, remote) /\ Follows(remote, RemoteAccepted(remote, f.arg))
        BY DEF Follows, RemoteAccepted, Remote, TypeInv, TypeOK
      <4> QED
        BY <2>1, <2>2, <2>6, <4>1 DEF LeasesAnswer, Rejected, UnderWay
    <3>2. (y.failing /\ SameWire(e, y))
            \/ (Responds(e, y, f) /\ y.active.step # "setup")
      <4>1. ASSUME Responds(e, y, f)
            PROVE  y.active.step # "setup"
        <5>1. ASSUME NEW step \in {"command", "restore"},
                     y.active = [e.active EXCEPT !.step = step,
                                                 !.write = e.next_write + 1]
              PROVE  y.active.step # "setup"
          BY <2>2, <5>1 DEF Transaction
        <5>2. NoTransaction.step # "setup"
          BY DEF NoTransaction
        <5>3. ASSUME y.active = [e.active EXCEPT !.step = "result"]
              PROVE  y.active.step # "setup"
          BY <2>2, <5>3 DEF Transaction
        <5>4. ASSUME e.active.step = "command",
                     y.active = [e.active EXCEPT !.contacts_started = TRUE]
              PROVE  y.active.step # "setup"
          BY <2>2, <5>4 DEF Transaction
        <5> QED
          BY <4>1, <5>1, <5>2, <5>3, <5>4 DEF Responds
      <4> QED
        BY <2>5, <4>1
    <3> QED
      BY <2>2, <3>1, <3>2 DEF SameWire
  <2>8. Follows(y.remote, remote') \/ Withdrawn(y.active, remote')
    BY <1>7, <2>4, CommitLeases DEF y
  <2>9. LeaseLeft(f)
    BY <2>7, <2>8 DEF LeaseLeft, Follows, Withdrawn, NoRemote
  <2>10. /\ outgoing' = y.outgoing
         /\ y.failing => failed' /\ active' = NoTransaction
         /\ active' = y.active \/ (failed' /\ active' = NoTransaction)
    BY <1>3, <1>7 DEF y
  <2>11. CASE y.failing /\ SameWire(e, y)
    BY <2>1, <2>9, <2>10, <2>11 DEF SameWire, NoWrite
  <2>12. CASE Responds(e, y, f) /\ y.active.step # "setup"
    <3>1. \/ Follows(remote, remote')
          \/ Rejected(active, f) /\ remote'.kind = "none"
      BY <2>7, <2>8, <2>12 DEF Follows, Withdrawn, NoRemote
    <3> QED
      BY <2>10, <2>12, <3>1 DEF Reacts, e
  <2> QED
    BY <2>7, <2>11, <2>12
<1>8. CASE ~ Malformed(f) /\ (f.code \notin PushCodes \/ AnswersSelfTelemetry(f))
  <2>1. x = TransactionResponse(f)
    BY <1>8 DEF Push, AnswersSelfTelemetry, RemotePushes
  <2> HIDE DEF x
  <2> QED
    BY <1>1, <1>7, <2>1
<1> QED
  BY <1>5, <1>6, <1>8

\* The debt is drained without writing anything, and a result that comes
\* meanwhile frees the lease.
LEMMA DrainWire ==
  ASSUME TypeInv, Ended, NEW f \in Frames, DrainUncertainFrame(f)
  PROVE  /\ outgoing' = outgoing /\ Grows /\ failed'
         /\ \/ LeaseGoes
            \/ /\ f.code \in DOMAIN RemotePushes
               /\ RemoteMatches(remote, f) /\ remote'.kind = "none"
<1>1. ASSUME NEW x, Commit(x), SameWire(Now, x)
      PROVE  /\ outgoing' = outgoing /\ Grows /\ failed'
             /\ SameLeases(Now, x) => LeaseGoes
  <2>1. outgoing' = x.outgoing /\ next_write' = x.next_write /\ failed'
    BY <1>1, CommitWire DEF DrainUncertainFrame
  <2>2. SameLeases(Now, x) => Holds(x)
    BY <1>1 DEF Holds, SameWire, Now
  <2> QED
    BY <1>1, <2>1, <2>2, HoldsGoes DEF SameWire, NoWrite, Now, Grows
<1> DEFINE paid == [Now EXCEPT !.debt = NoTransaction]
           started == [Now EXCEPT !.debt.contacts_started = TRUE]
<1>2. /\ SameWire(Now, paid) /\ SameWire(Now, started)
      /\ SameLeases(Now, paid) /\ SameLeases(Now, started)
  BY DEF Now, SameWire, NoWrite, SameLeases
<1>3. paid \in State(next_session) /\ next_session \in Nat
  <2>1. Now \in State(next_session) /\ NoTransaction \in Transactions
    BY NowType, NoTransactionType DEF TypeInv, Transactions, PopShape, NoTransaction
  <2> QED
    BY <2>1 DEF State, TypeInv, TypeOK
<1>4. CASE f.code \in PushCodes /\ Commit(Push(f))
  <2>1. ~ AnswersSelfTelemetry(f)
    BY DEF AnswersSelfTelemetry, Busy, Ended, DrainUncertainFrame, NoTransaction
  <2> QED
    BY <1>1, <1>4, <2>1, PushNoWrite, PushLeases
<1>5. CASE /\ f.code \notin PushCodes /\ DebtPaid(f)
           /\ Commit(IF KeepsItem(f) THEN PopResult(paid, debt, f) ELSE paid)
  <2> HIDE DEF paid
  <2>1. CASE KeepsItem(f)
    <3>1. /\ debt.command = Sync /\ debt.contacts_started \in BOOLEAN
          /\ ValidResponse(debt.command, debt.contacts_started, f)
      BY <1>5, <2>1
         DEF KeepsItem, DebtPaid, TypeInv, TypeOK, Transaction, PopShape
    <3>3. f.code \in {"message", "no_more_messages"}
      <4>1. f.code \in {"err", "message", "no_more_messages"}
        BY <3>1, SyncReplies
      <4> QED
        BY <2>1, <4>1 DEF KeepsItem
    <3> DEFINE x == PopResult(paid, debt, f)
    <3>2. SameWire(paid, x) /\ SameLeases(paid, x)
      BY <1>3, <3>3, PopResultNoWrite, OwnerLeases
    <3> HIDE DEF x
    <3>4. SameWire(Now, x) /\ SameLeases(Now, x)
      BY <1>2, <3>2 DEF SameWire, NoWrite, SameLeases
    <3> QED
      BY <1>1, <1>5, <2>1, <3>4 DEF x
  <2>2. CASE ~ KeepsItem(f)
    BY <1>1, <1>2, <1>5, <2>2
  <2> QED
    BY <2>1, <2>2
<1>6. CASE Commit(started)
  <2> HIDE DEF started
  <2> QED
    BY <1>1, <1>2, <1>6
<1> QED
  BY <1>4, <1>5, <1>6 DEF DrainUncertainFrame

-----------------------------------------------------------------------------
(* The link stays typed, and the broker takes steps of its specification   *)

\* The ids of the writes are those of the writes made so far.
Numbered ==
  /\ wrote \in 0 .. next_write
  /\ \A i \in DOMAIN outgoing : outgoing[i].id \in 1 .. next_write

CompanionType ==
  /\ received \in Seq(Write)
  /\ replies \in Seq(Sending)
  /\ physical \in Seq(1 .. MaxArrivals)
  /\ arrived \in 0 .. MaxArrivals
  /\ requests \in Seq(Accepted)
  /\ \A i \in DOMAIN requests : requests[i].command.op \in RemoteLease

LEMMA LinkParts == LinkType <=> Numbered /\ CompanionType
BY DEF LinkType, Numbered, CompanionType

LEMMA GrowsNumbered ==
  ASSUME TypeInv, Numbered, Grows, wrote' = wrote \/ wrote' = 0
  PROVE  Numbered'
<1>1. next_write \in Nat /\ outgoing \in Seq(Write)
  BY DEF TypeInv, TypeOK, Write
<1>2. CASE outgoing' = outgoing /\ next_write' = next_write
  BY <1>1, <1>2 DEF Numbered
<1>3. CASE /\ next_write' = next_write + 1
           /\ \E w : w.id = next_write' /\ outgoing' = Append(outgoing, w)
  <2>1. PICK w : w.id = next_write' /\ outgoing' = Append(outgoing, w)
    BY <1>3
  <2>2. ASSUME NEW i \in DOMAIN outgoing'
        PROVE  outgoing'[i].id \in 1 .. next_write'
    <3>1. \/ i \in DOMAIN outgoing /\ outgoing'[i] = outgoing[i]
          \/ outgoing'[i] = w
      BY <1>1, <2>1
    <3> QED
      BY <1>1, <1>3, <2>1, <3>1 DEF Numbered
  <2>3. wrote' \in 0 .. next_write'
    BY <1>1, <1>3 DEF Numbered
  <2> QED
    BY <2>2, <2>3 DEF Numbered
<1> QED
  BY <1>2, <1>3 DEF Grows

LEMMA CalmGrows == Rests => Grows
BY DEF Rests, Grows

LEMMA StartsGrows == Starts => Grows
<1>1. ASSUME Starts
      PROVE  Grows
  <2>1. Job(next_write', active').id = next_write'
    BY DEF Job
  <2> QED
    BY <1>1, <2>1 DEF Starts, Grows
<1> QED
  BY <1>1

LEMMA ScheduleWire ==
  ASSUME TypeInv, ScheduleStep
  PROVE  Rests \/ Starts
<1>1. CASE \E k \in 1 .. Len(order) : TurnPop(k)
  BY <1>1, TurnPopStarts
<1>2. CASE \E k, s : TurnDispatch(k, s)
  BY <1>2, TurnDispatchStarts
<1>3. CASE \/ \E s : ScheduleLocal(s) \/ ScheduleAged(s)
           \/ ScheduleBusy \/ TurnNone
           \/ \E k, s : TurnReject(k, s)
  BY <1>3, HandlersCalm
<1> QED
  BY <1>1, <1>2, <1>3 DEF ScheduleStep

\* Frames on their way.
LEMMA AnswerType ==
  ASSUME NEW job \in Write, NEW frames \in Seq(SentFrames)
  PROVE  /\ Answer(job, frames) \in Seq(Sending)
         /\ Len(Answer(job, frames)) = Len(frames)
<1>1. Len(frames) \in Nat /\ \A i \in 1 .. Len(frames) : frames[i] \in SentFrames
  OBVIOUS
<1>2. \A i \in 1 .. Len(frames) :
        [id |-> job.id, owner |-> job.owner, frame |-> frames[i]] \in Sending
  BY <1>1 DEF Write, Sending
<1> QED
  BY <1>1, <1>2 DEF Answer

LEMMA AnnounceType ==
  ASSUME NEW owner \in Nat, NEW f \in SentFrames
  PROVE  Announce(owner, f) \in Seq(Sending)
BY DEF Announce, Sending

\* "none" is no command of the protocol.
LEMMA NothingAnswersNone ==
  ASSUME NEW command, command.op = "none"
  PROVE  Answers(command) = {}
<1>1. SuccessCodes("none") = {}
  BY DEF SuccessCodes, RemoteLease, OkOps, ValueReply
<1>2. "none" \notin RemoteLease \cup {"send_txt_msg"}
  BY DEF RemoteLease
<1> QED
  BY <1>1, <1>2 DEF Answers

LEMMA FirstAndOthers ==
  ASSUME NEW S, NEW q \in Seq(S), q # <<>>
  PROVE  Head(q) \in S /\ Tail(q) \in Seq(S)
OBVIOUS

LEMMA EntryRemoved ==
  ASSUME NEW S, NEW q \in Seq(S), NEW i \in DOMAIN q
  PROVE  LET front == SubSeq(q, 1, i - 1)
             back == SubSeq(q, i + 1, Len(q))
         IN /\ front \in Seq(S) /\ back \in Seq(S)
            /\ Len(front) = i - 1 /\ Len(back) = Len(q) - i
            /\ \A j \in DOMAIN front : j \in DOMAIN q /\ front[j] = q[j]
            /\ \A j \in DOMAIN back : i + j \in DOMAIN q /\ back[j] = q[i + j]
<1> DEFINE front == SubSeq(q, 1, i - 1)
           back == SubSeq(q, i + 1, Len(q))
<1>1. i \in 1 .. Len(q) /\ Len(q) \in Nat
  OBVIOUS
<1>2. /\ front \in Seq(S) /\ Len(front) = i - 1
      /\ \A j \in 1 .. i - 1 : front[j] = q[j]
  BY <1>1
<1>3. /\ back \in Seq(S) /\ Len(back) = Len(q) - i
      /\ \A j \in 1 .. Len(q) - i : back[j] = q[i + j]
  BY <1>1
<1>4. DOMAIN front = 1 .. i - 1 /\ DOMAIN back = 1 .. Len(q) - i
      /\ DOMAIN q = 1 .. Len(q)
  BY <1>2, <1>3
<1> HIDE DEF front, back
<1>5. /\ \A j \in DOMAIN front : j \in DOMAIN q /\ front[j] = q[j]
      /\ \A j \in DOMAIN back : i + j \in DOMAIN q /\ back[j] = q[i + j]
  BY <1>1, <1>2, <1>3, <1>4
<1> QED
  BY <1>2, <1>3, <1>5 DEF front, back

LEMMA CompanionTyped ==
  ASSUME CompanionType, CompanionStep
  PROVE  CompanionType'
<1> USE DEF CompanionType
<1>1. MaxArrivals \in Nat
  BY CompanionAssumption
<1>2. received # <<>> => Head(received) \in Write /\ Tail(received) \in Seq(Write)
  OBVIOUS
<1>3. ASSUME NEW frames \in Seq(SentFrames), received # <<>>
      PROVE  replies \o Answer(Head(received), frames) \in Seq(Sending)
  BY <1>2, <1>3, AnswerType
<1>4. ASSUME NEW owner \in Nat, NEW f \in SentFrames
      PROVE  replies \o Announce(owner, f) \in Seq(Sending)
  BY AnnounceType
<1>5. CASE ExecutePop
  <2>1. /\ received # <<>> /\ received' = Tail(received)
        /\ UNCHANGED <<arrived, requests>>
    BY <1>5 DEF ExecutePop
  <2>2. CASE physical = <<>>
    <3>1. <<Frame("no_more_messages", 0)>> \in Seq(SentFrames)
      BY FramesMade
    <3>2. replies' \in Seq(Sending) /\ physical' = physical
      BY <1>3, <1>5, <2>1, <2>2, <3>1 DEF ExecutePop
    <3> QED
      BY <1>2, <2>1, <3>2
  <2>3. CASE physical # <<>>
    <3>1. /\ Head(physical) \in 1 .. MaxArrivals
          /\ Tail(physical) \in Seq(1 .. MaxArrivals)
      BY <2>3, FirstAndOthers
    <3>2. <<Frame("message", Head(physical))>> \in Seq(SentFrames)
      BY <3>1, FramesMade
    <3>3. replies' \in Seq(Sending) /\ physical' = Tail(physical)
      BY <1>3, <1>5, <2>1, <2>3, <3>2 DEF ExecutePop
    <3> QED
      BY <1>2, <2>1, <3>1, <3>3
  <2> QED
    BY <2>2, <2>3
<1>6. CASE Execute
  <2> DEFINE job == Head(received)
             command == job.command
  <2>1. /\ received # <<>> /\ received' = Tail(received)
        /\ command # Sync /\ UNCHANGED <<physical, arrived>>
    BY <1>6 DEF Execute
  <2>2. PICK answer \in Answers(command) :
          replies' = replies \o Answer(job, answer)
    BY <1>6 DEF Execute
  <2>3. command \in Command /\ job.owner \in Nat
    BY <1>2, <2>1 DEF Write
  <2>4. command.op # "none"
    BY <2>2, NothingAnswersNone
  <2> HIDE DEF command
  <2>5. answer \in Seq(SentFrames)
    BY <2>1, <2>2, <2>3, <2>4, AnswersMade
  <2>6. replies' \in Seq(Sending)
    BY <1>3, <2>1, <2>2, <2>5 DEF job
  <2>7. /\ requests' \in Seq(Accepted)
        /\ \A i \in DOMAIN requests' :
             requests'[i].command.op \in RemoteLease
    <3> DEFINE new == [command |-> command, owner |-> job.owner]
    <3>1. CASE command.op \in RemoteLease
      <4>1. command \in Commands
        BY <2>3, <3>1 DEF Command, Sync, RemoteLease
      <4>2. new \in Accepted /\ new.command.op \in RemoteLease
        BY <2>3, <3>1, <4>1 DEF Accepted
      <4>3. requests' = Append(requests, new)
        BY <1>6, <3>1 DEF Execute, command
      <4> HIDE DEF new
      <4> QED
        BY <4>2, <4>3
    <3>2. CASE command.op \notin RemoteLease
      BY <1>6, <3>2 DEF Execute, command
    <3> QED
      BY <3>1, <3>2
  <2> QED
    BY <1>2, <2>1, <2>6, <2>7
<1>7. CASE Refuse
  <2>1. PICK reason \in {1, ErrBadState} :
          replies' = replies \o Answer(Head(received), <<Frame("err", reason)>>)
    BY <1>7 DEF Refuse
  <2>2. /\ received # <<>> /\ received' = Tail(received)
        /\ UNCHANGED <<physical, arrived, requests>>
    BY <1>7 DEF Refuse
  <2>3. <<Frame("err", reason)>> \in Seq(SentFrames)
    BY FramesMade
  <2>4. replies' \in Seq(Sending)
    BY <1>3, <2>1, <2>2, <2>3
  <2> QED
    BY <1>2, <2>2, <2>4
<1>8. CASE Arrive(usable)
  <2>1. /\ arrived < MaxArrivals /\ arrived' = arrived + 1
        /\ physical' = Append(physical, arrived + 1)
        /\ UNCHANGED <<received, requests>>
    BY <1>8 DEF Arrive
  <2>2. /\ arrived' \in 0 .. MaxArrivals
        /\ physical' \in Seq(1 .. MaxArrivals)
    BY <1>1, <2>1
  <2>3. replies' \in Seq(Sending)
    BY <1>4, <1>8, FramesMade DEF Arrive
  <2> QED
    BY <2>1, <2>2, <2>3
<1>9. CASE Report(usable)
  <2>1. PICK i \in DOMAIN requests, code \in DOMAIN RemotePushes :
          LET command == requests[i].command
              key == IF code = "binary_response" THEN Token ELSE command.arg
          IN /\ command.op \in RemotePushes[code]
             /\ requests' = SubSeq(requests, 1, i - 1)
                              \o SubSeq(requests, i + 1, Len(requests))
             /\ replies' = IF usable
                  THEN replies \o Announce(requests[i].owner, Frame(code, key))
                  ELSE replies
             /\ UNCHANGED <<received, physical, arrived, flood_scope, signer>>
    BY <1>9 DEF Report
  <2>2. requests[i] \in Accepted
    OBVIOUS
  <2>3. requests[i].command \in Commands /\ requests[i].owner \in Nat
    BY <2>2 DEF Accepted
  <2> DEFINE key == IF code = "binary_response" THEN Token
                    ELSE requests[i].command.arg
  <2>4. Frame(code, key) \in SentFrames
    BY <2>3, FramesMade
  <2>5. replies' \in Seq(Sending)
    BY <1>4, <2>1, <2>3, <2>4
  <2> HIDE DEF key
  <2>6. /\ requests' \in Seq(Accepted)
        /\ \A j \in DOMAIN requests' :
             requests'[j].command.op \in RemoteLease
    <3> DEFINE front == SubSeq(requests, 1, i - 1)
               back == SubSeq(requests, i + 1, Len(requests))
    <3>1. /\ front \in Seq(Accepted) /\ back \in Seq(Accepted)
          /\ \A j \in DOMAIN front : front[j].command.op \in RemoteLease
          /\ \A j \in DOMAIN back : back[j].command.op \in RemoteLease
      <4>1. /\ front \in Seq(Accepted) /\ back \in Seq(Accepted)
            /\ \A j \in DOMAIN front :
                 j \in DOMAIN requests /\ front[j] = requests[j]
            /\ \A j \in DOMAIN back :
                 i + j \in DOMAIN requests /\ back[j] = requests[i + j]
        <5>1. /\ front = SubSeq(requests, 1, i - 1)
              /\ back = SubSeq(requests, i + 1, Len(requests))
          OBVIOUS
        <5>2. requests \in Seq(Accepted) /\ i \in DOMAIN requests
          OBVIOUS
        <5> HIDE DEF front, back, CompanionType
        <5> QED
          BY <5>1, <5>2, EntryRemoved
      <4> QED
        BY <4>1
    <3>2. requests' = front \o back
      BY <2>1
    <3> HIDE DEF front, back
    <3>3. requests' \in Seq(Accepted)
      BY <3>1, <3>2
    <3>4. ASSUME NEW j \in DOMAIN requests'
          PROVE  \/ j \in DOMAIN front /\ requests'[j] = front[j]
                 \/ /\ j - Len(front) \in DOMAIN back
                    /\ requests'[j] = back[j - Len(front)]
      BY <3>1, <3>2, <3>4
    <3> QED
      BY <3>1, <3>3, <3>4
  <2> QED
    BY <2>1, <2>5, <2>6
<1> QED
  BY <1>5, <1>6, <1>7, <1>8, <1>9 DEF CompanionStep
\* The next frame that arrives is one the broker is specified for.
LEMMA NextFrame ==
  ASSUME CompanionType, replies # <<>>
  PROVE  /\ Head(replies) \in Sending /\ Tail(replies) \in Seq(Sending)
         /\ Head(replies).frame \in Frames
<1>1. Head(replies) \in Sending /\ Tail(replies) \in Seq(Sending)
  BY FirstAndOthers DEF CompanionType
<1> QED
  BY <1>1, SentAreFrames DEF Sending

LEMMA ClientsStep ==
  ASSUME TypeInv, Clients \/ ClientRequest
  PROVE  ClientStep
<1>1. CASE Clients
  BY <1>1 DEF Clients, ClientStep
<1>2. CASE ClientRequest
  BY <1>2 DEF ClientRequest, ClientStep
<1> QED
  BY <1>1, <1>2

LEMMA ClockIsBroker ==
  ASSUME Clock
  PROVE  ClockStep
BY DEF Clock, ClockStep

LEMMA LinkStep ==
  ASSUME TypeInv, Ended, LinkType, MuxNext
  PROVE  [Next]_vars /\ LinkType'
<1> USE DEF Next
<1>1. Numbered /\ CompanionType /\ next_write \in Nat
  BY LinkParts DEF TypeInv, TypeOK
<1>2. ASSUME Numbered', CompanionType'
      PROVE  LinkType'
  BY <1>2 DEF LinkType, Numbered, CompanionType
<1>3. UNCHANGED companionVars => CompanionType'
  BY <1>1 DEF companionVars, CompanionType
<1>4. ASSUME Clients \/ ClientRequest \/ Clock
      PROVE  [Next]_vars /\ LinkType'
  <2>1. ClientStep \/ ClockStep
    BY <1>4, ClientsStep, ClockIsBroker
  <2>2. Grows
    BY <2>1, HandlersCalm, CalmGrows
  <2>3. UNCHANGED companionVars /\ wrote' = wrote
    BY <1>4 DEF Clients, ClientRequest, Clock, linkVars
  <2> QED
    BY <1>1, <1>2, <1>3, <2>1, <2>2, <2>3, GrowsNumbered
<1>5. ASSUME Schedule
      PROVE  [Next]_vars /\ LinkType'
  <2>1. ScheduleStep /\ UNCHANGED companionVars /\ wrote' = wrote
    BY <1>5 DEF Schedule, linkVars
  <2>2. Grows
    BY <2>1, ScheduleWire, CalmGrows, StartsGrows
  <2> QED
    BY <1>1, <1>2, <1>3, <2>1, <2>2, GrowsNumbered
<1>6. ASSUME WriterWrites
      PROVE  [Next]_vars /\ LinkType'
  <2>1. /\ TakeWrite /\ outgoing # <<>> /\ outgoing' = Tail(outgoing)
        /\ next_write' = next_write
        /\ received' = Append(received, Head(outgoing))
        /\ wrote' = Head(outgoing).id
        /\ UNCHANGED <<replies, physical, arrived, requests>>
    BY <1>6 DEF WriterWrites, TakeWrite
  <2>2. outgoing \in Seq(Write)
    BY DEF TypeInv, TypeOK, Write
  <2>3. Head(outgoing) \in Write /\ Head(outgoing).id \in 1 .. next_write
    BY <1>1, <2>1, <2>2 DEF Numbered
  <2>4. CompanionType'
    BY <1>1, <2>1, <2>3 DEF CompanionType
  <2>5. Numbered'
    <3>1. \A i \in DOMAIN Tail(outgoing) :
            i + 1 \in DOMAIN outgoing /\ Tail(outgoing)[i] = outgoing[i + 1]
      BY <2>1, <2>2
    <3> QED
      BY <1>1, <2>1, <2>3, <3>1 DEF Numbered
  <2> QED
    BY <1>2, <2>1, <2>4, <2>5 DEF UpstreamStep
<1>7. ASSUME WriterReports
      PROVE  [Next]_vars /\ LinkType'
  <2>1. /\ wrote # 0 /\ wrote' = 0 /\ UNCHANGED companionVars
        /\ UpstreamWritten(wrote) \/ UNCHANGED vars
    BY <1>7 DEF WriterReports
  <2>2. outgoing' = outgoing /\ next_write' = next_write
    BY <2>1, WrittenWire DEF vars
  <2>3. Grows
    BY <2>2 DEF Grows
  <2>4. wrote \in 1 .. next_write
    BY <1>1, <2>1 DEF Numbered
  <2>5. [Next]_vars
    BY <2>1, <2>4 DEF UpstreamStep
  <2> QED
    BY <1>1, <1>2, <1>3, <2>1, <2>3, <2>5, GrowsNumbered
<1>8. ASSUME FrameArrives \/ DrainDebt
      PROVE  [Next]_vars /\ LinkType'
  <2> DEFINE f == Head(replies).frame
  <2>1. /\ replies # <<>> /\ replies' = Tail(replies) /\ wrote' = wrote
        /\ UNCHANGED <<received, physical, arrived, requests>>
        /\ \/ UpstreamFrame(f) \/ LateUpstreamFrame
           \/ DrainUncertainFrame(f)
    BY <1>8 DEF FrameArrives, DrainDebt, linkVars
  <2>2. f \in Frames /\ Tail(replies) \in Seq(Sending)
    BY <1>1, <2>1, NextFrame
  <2> HIDE DEF f
  <2>3. CompanionType'
    BY <1>1, <2>1, <2>2 DEF CompanionType
  <2>4. Grows
    BY <2>1, <2>2, UpstreamFrameWire, HandlersCalm, CalmGrows, DrainWire
  <2>5. Next
    BY <2>1, <2>2 DEF UpstreamStep
  <2> QED
    BY <1>1, <1>2, <2>1, <2>3, <2>4, <2>5, GrowsNumbered
<1>9. ASSUME LinkFails
      PROVE  [Next]_vars /\ LinkType'
  <2>1. /\ UpstreamClosed \/ WriteFailed(0)
        /\ replies' = <<>> /\ wrote' = wrote
        /\ UNCHANGED <<received, physical, arrived, requests>>
    BY <1>9 DEF LinkFails
  <2>2. ClientStep \/ UpstreamClosed
    BY <2>1 DEF ClientStep
  <2>3. Grows
    BY <2>2, HandlersCalm, CalmGrows
  <2>4. CompanionType'
    BY <1>1, <2>1 DEF CompanionType
  <2> QED
    BY <1>1, <1>2, <2>1, <2>2, <2>3, <2>4, GrowsNumbered DEF UpstreamStep
<1>10. ASSUME Reconnect
       PROVE  [Next]_vars /\ LinkType'
  <2>1. PICK same_key \in BOOLEAN :
          /\ Restart(same_key)
          /\ IF same_key THEN UNCHANGED <<physical, requests, signer>>
             ELSE physical' = <<>> /\ requests' = <<>> /\ signer' = 0
    BY <1>10 DEF Reconnect
  <2>2. /\ wrote' = 0 /\ received' = <<>> /\ replies' = <<>>
        /\ arrived' = arrived
    BY <1>10 DEF Reconnect
  <2>3. next_write' = 0 /\ outgoing' = <<>>
    BY <2>1 DEF Restart
  <2>4. Numbered'
    BY <2>2, <2>3 DEF Numbered
  <2>5. CompanionType'
    <3>1. CASE same_key
      BY <1>1, <2>1, <2>2, <3>1 DEF CompanionType
    <3>2. CASE ~ same_key
      <4>1. physical' = <<>> /\ requests' = <<>>
        BY <2>1, <3>2
      <4> QED
        BY <1>1, <2>2, <4>1 DEF CompanionType
    <3> QED
      BY <3>1, <3>2
  <2> QED
    BY <1>2, <2>1, <2>4, <2>5 DEF UpstreamStep
<1>11. ASSUME CompanionStep
       PROVE  [Next]_vars /\ LinkType'
  <2>1. UNCHANGED vars /\ wrote' = wrote
    BY <1>11 DEF CompanionStep, linkVars
  <2>2. Numbered'
    BY <1>1, <2>1 DEF Numbered, vars
  <2> QED
    BY <1>1, <1>2, <1>11, <2>1, <2>2, CompanionTyped
<1> QED
  BY <1>4, <1>5, <1>6, <1>7, <1>8, <1>9, <1>10, <1>11 DEF MuxNext

LEMMA LinkInit == MuxInit => Init /\ LinkType
<1>1. MaxArrivals \in Nat
  BY CompanionAssumption
<1>2. ASSUME MuxInit
      PROVE  Numbered /\ CompanionType
  BY <1>1, <1>2
     DEF MuxInit, Init, CompanionInit, Numbered, CompanionType
<1> QED
  BY <1>2, LinkParts DEF MuxInit

\* Everything the multiplexer does with a companion, a link that fails and a
\* runtime that reconnects is a behaviour of Broker's specification: the frames
\* that arrive are ones it is specified for, and a completion event names a write
\* that was made.  What is proved of Spec is proved of the running system.
THEOREM MuxIsBroker == MuxSpec => Spec /\ []LinkType
<1>1. MuxInit => Init /\ LinkType
  BY LinkInit
<1>2. TypeInv /\ Ended /\ LinkType /\ [MuxNext]_muxVars => [Next]_vars /\ LinkType'
  <2>1. ASSUME TypeInv, Ended, LinkType, UNCHANGED muxVars
        PROVE  [Next]_vars /\ LinkType'
    <3>1. UNCHANGED vars
      BY <2>1 DEF muxVars
    <3>2. UNCHANGED <<wrote, next_write, outgoing, received, replies, physical,
                      arrived, requests>>
      BY <2>1, <3>1 DEF muxVars, linkVars, companionVars, vars
    <3> QED
      BY <2>1, <3>1, <3>2 DEF LinkType
  <2> QED
    BY <2>1, LinkStep
<1>3. Init => TypeInv /\ InboxInv /\ Ended
  BY TypeInit, InboxInit
<1>4. TypeInv /\ InboxInv /\ Ended /\ [Next]_vars
        => TypeInv' /\ InboxInv' /\ Ended'
  BY TypeStep, InboxStep
<1> QED
  BY <1>1, <1>2, <1>3, <1>4, PTL DEF MuxSpec, Spec
-----------------------------------------------------------------------------
(* What is between the broker and the companion                            *)

\* The replies to commands among the frames on their way; the others are
\* pushes.
Ordinary == {i \in DOMAIN replies : replies[i].id # 0}

\* At most one command is on the wire, the running transaction's, and the
\* writer has not reported it as long as it is in its queue.
Aligned ==
  /\ outgoing # <<>> =>
       /\ outgoing = <<Job(next_write, active)>>
       /\ received = <<>>
       /\ active.write = next_write
       /\ wrote # next_write
  /\ received # <<>> => received = <<Job(next_write, active)>>
  /\ outgoing # <<>> \/ received # <<>> => Ordinary = {}
  /\ outgoing # <<>> \/ received # <<>> \/ Ordinary # {} =>
       /\ next_write # 0
       /\ active.step \in {"setup", "command", "restore"}

\* The replies on their way answer that command, and only the last one ends it.
InPlace(i) ==
  LET f == replies[i].frame
  IN IF i \in Ordinary
     THEN /\ replies[i].id = next_write
          /\ replies[i].owner = active.owner
          /\ f.code \in PushCodes => AnswersSelfTelemetry(f)
          /\ \A j \in Ordinary :
               j > i => active.step = "command" /\ ~ Completes(active.command, f)
     ELSE f.code \in PushCodes /\ f # Frame("telemetry_response", SelfKey)

Answering == \A i \in DOMAIN replies : InPlace(i)

\* The companion has set the scope, and its OK has not reached the broker.
Confirmed == \E i \in Ordinary : replies[i].frame.code = "ok"

\* The companion's scope is the one that the transaction's step calls for.
Scoped ==
  /\ flood_scope =
       CASE active.step = "setup" ->
              IF Confirmed THEN active.scope ELSE DefaultScope
         [] active.step = "command" ->
              IF active.scoped THEN active.scope ELSE DefaultScope
         [] active.step = "restore" ->
              IF Confirmed THEN DefaultScope ELSE active.scope
         [] OTHER -> DefaultScope
  /\ active.step \in {"setup", "restore"} => active.scoped
  /\ Busy /\ active.scoped => active.owner # 0
  /\ active.step = "command" /\ ~ active.scoped
       /\ active.command.op \in ScopeSend => active.scope = DefaultScope

\* The inductive invariant of the link.
WireInv == ~ failed => Aligned /\ Answering /\ Scoped

LinkSame == UNCHANGED <<received, replies, flood_scope>>

\* A step that adds no write and leaves the transaction its job.
LEMMA WireSame ==
  ASSUME active \in Transaction, next_write \in Nat, NEW v,
         active' = [active EXCEPT !.write = v],
         outgoing # <<>> => v = active.write,
         outgoing' = outgoing, next_write' = next_write, LinkSame,
         wrote' \in {wrote, 0}, Aligned, Answering, Scoped
  PROVE  Aligned' /\ Answering' /\ Scoped'
<1>1. /\ active'.step = active.step /\ active'.owner = active.owner
      /\ active'.command = active.command /\ active'.scope = active.scope
      /\ active'.scoped = active.scoped /\ active'.write = v
  BY DEF Transaction
<1>2. Job(next_write, active') = Job(next_write, active)
  BY <1>1 DEF Job, WireCommand
<1>3. Ordinary' = Ordinary /\ Confirmed' = Confirmed
  BY DEF Ordinary, Confirmed, LinkSame
<1>4. \A f : AnswersSelfTelemetry(f) => AnswersSelfTelemetry(f)'
  BY <1>1 DEF AnswersSelfTelemetry, Busy
<1>5. Aligned'
  BY <1>1, <1>2, <1>3 DEF Aligned, LinkSame
<1>6. Answering'
  BY <1>1, <1>3, <1>4 DEF Answering, InPlace, LinkSame
<1>7. Scoped'
  BY <1>1, <1>3 DEF Scoped, LinkSame, Busy
<1> QED
  BY <1>5, <1>6, <1>7

LEMMA WireCalm ==
  ASSUME TypeInv, Rests, LinkSame, wrote' \in {wrote, 0}, WireInv
  PROVE  WireInv'
<1>1. active \in Transaction /\ next_write \in Nat
  BY DEF TypeInv, TypeOK
<1>2. ASSUME ~ failed'
      PROVE  /\ ~ failed /\ outgoing' = outgoing /\ next_write' = next_write
             /\ active' = [active EXCEPT !.write = active.write]
  BY <1>1, <1>2 DEF Rests, Transaction
<1> QED
  BY <1>1, <1>2, WireSame DEF WireInv

\* The schedule loop dispatches while nothing is on the wire.
LEMMA WireStarts ==
  ASSUME TypeInv, Numbered, Starts, ~ Busy, LinkSame, wrote' = wrote, WireInv
  PROVE  WireInv'
<1> SUFFICES ASSUME ~ failed
             PROVE  Aligned' /\ Answering' /\ Scoped'
  BY DEF WireInv, Starts
<1>1. next_write \in Nat /\ outgoing \in Seq(Write)
  BY DEF TypeInv, TypeOK, Write
<1>2. Aligned /\ Answering /\ Scoped /\ active.step = "none"
  BY DEF WireInv, Busy
<1>3. outgoing = <<>> /\ received = <<>> /\ Ordinary = {}
  BY <1>2 DEF Aligned
<1>4. flood_scope = DefaultScope
  BY <1>2 DEF Scoped
<1>5. /\ next_write' = next_write + 1
      /\ outgoing' = <<Job(next_write', active')>>
      /\ active'.write = next_write'
  BY <1>3 DEF Starts
<1>6. received' = <<>> /\ Ordinary' = {} /\ ~ Confirmed'
  BY <1>3 DEF LinkSame, Ordinary, Confirmed
<1>7. wrote' # next_write' /\ next_write' # 0
  BY <1>1, <1>5 DEF Numbered
<1>8. Aligned'
  BY <1>5, <1>6, <1>7 DEF Aligned, Starts
<1>9. Answering'
  BY <1>2, <1>3, <1>6 DEF Answering, InPlace, LinkSame
<1>10. Scoped'
  BY <1>4, <1>6 DEF Scoped, LinkSame, Starts, Busy
<1> QED
  BY <1>8, <1>9, <1>10

\* The first of the frames on their way is taken.
LEMMA TakenFrame ==
  ASSUME NEW q, q \in Seq(Sending), q # <<>>, replies = q, replies' = Tail(q)
  PROVE  /\ 1 \in DOMAIN replies /\ replies[1] = Head(replies)
         /\ \A i \in DOMAIN replies' :
              /\ i + 1 \in DOMAIN replies /\ replies'[i] = replies[i + 1]
              /\ i \in Nat /\ i >= 1
         /\ \A i \in DOMAIN replies :
              i = 1 \/ (i - 1 \in DOMAIN replies' /\ replies'[i - 1] = replies[i])
         /\ DOMAIN replies \subseteq Nat
<1>1. /\ Len(q) \in Nat /\ Len(q) >= 1 /\ DOMAIN q = 1 .. Len(q)
      /\ Len(Tail(q)) = Len(q) - 1 /\ DOMAIN Tail(q) = 1 .. Len(q) - 1
      /\ \A i \in 1 .. Len(q) - 1 : Tail(q)[i] = q[i + 1]
      /\ Head(q) = q[1]
  OBVIOUS
<1> QED
  BY <1>1

LEMMA WirePush ==
  ASSUME TypeInv, CompanionType, Rests, replies # <<>>, replies' = Tail(replies),
         UNCHANGED <<received, flood_scope, wrote>>, WireInv,
         1 \notin Ordinary \/ failed'
  PROVE  WireInv'
<1> SUFFICES ASSUME ~ failed'
             PROVE  Aligned' /\ Answering' /\ Scoped'
  BY DEF WireInv
<1>1. /\ ~ failed /\ outgoing' = outgoing /\ next_write' = next_write
      /\ active' = active
  BY DEF Rests
<1>2. Aligned /\ Answering /\ Scoped
  BY <1>1 DEF WireInv
<1>3. /\ 1 \in DOMAIN replies /\ replies[1] = Head(replies)
      /\ \A i \in DOMAIN replies' :
           /\ i + 1 \in DOMAIN replies /\ replies'[i] = replies[i + 1]
           /\ i \in Nat /\ i >= 1
      /\ \A i \in DOMAIN replies :
           i = 1 \/ (i - 1 \in DOMAIN replies' /\ replies'[i - 1] = replies[i])
      /\ DOMAIN replies \subseteq Nat
  BY TakenFrame DEF CompanionType
<1>4. /\ \A i \in DOMAIN replies' : i \in Ordinary' <=> i + 1 \in Ordinary
      /\ \A i \in Ordinary : i - 1 \in Ordinary'
      /\ Ordinary \subseteq DOMAIN replies /\ Ordinary' \subseteq DOMAIN replies'
  BY <1>3 DEF Ordinary
<1>5. Ordinary' = {} <=> Ordinary = {}
  BY <1>4
<1>6. Confirmed' <=> Confirmed
  BY <1>3, <1>4 DEF Confirmed
<1>7. \A f : AnswersSelfTelemetry(f)' <=> AnswersSelfTelemetry(f)
  BY <1>1 DEF AnswersSelfTelemetry, Busy
<1>8. Aligned'
  BY <1>1, <1>2, <1>5 DEF Aligned
<1>9. Answering'
  <2> SUFFICES ASSUME NEW i \in DOMAIN replies'
               PROVE  InPlace(i)'
    BY DEF Answering
  <2>1. /\ i + 1 \in DOMAIN replies /\ replies'[i] = replies[i + 1]
        /\ i \in Nat
        /\ i \in Ordinary' <=> i + 1 \in Ordinary
    BY <1>3, <1>4
  <2>2. \A j \in Ordinary' : j \in Nat /\ j + 1 \in Ordinary
    BY <1>3, <1>4
  <2>3. \A j \in Ordinary' : j > i => j + 1 > i + 1
    BY <2>1, <2>2
  <2>4. InPlace(i + 1)
    BY <1>2, <2>1 DEF Answering
  <2> QED
    BY <1>1, <1>7, <2>1, <2>2, <2>3, <2>4 DEF InPlace
<1>10. Scoped'
  BY <1>1, <1>2, <1>6 DEF Scoped, Busy
<1> QED
  BY <1>8, <1>9, <1>10
\* The reply to the command on the wire is taken.
LEMMA WireAnswered ==
  ASSUME TypeInv, Numbered, CompanionType, ~ failed, WireInv,
         replies # <<>>, 1 \in Ordinary, Answered(Head(replies).frame),
         replies' = Tail(replies), UNCHANGED <<received, flood_scope, wrote>>
  PROVE  Aligned' /\ Answering' /\ Scoped'
<1> DEFINE f == Head(replies).frame
           e == WriteIsOver
           tx == e.active
<1>1. PICK x : /\ Responds(e, x, f)
               /\ outgoing' = x.outgoing /\ next_write' = x.next_write
               /\ active' = x.active
  BY DEF Answered
<1>2. active \in Transaction /\ next_write \in Nat
  BY DEF TypeInv, TypeOK
<1>3. /\ tx = [active EXCEPT !.write = 0]
      /\ e.outgoing = outgoing /\ e.next_write = next_write
  BY WriteIsOverType DEF WriteIsOver, Now
<1> HIDE DEF e
<1>4. /\ tx \in Transaction
      /\ tx.step = active.step /\ tx.owner = active.owner
      /\ tx.command = active.command /\ tx.scope = active.scope
      /\ tx.scoped = active.scoped
  BY <1>2, <1>3 DEF Transaction
<1>5. Aligned /\ Answering /\ Scoped
  BY DEF WireInv
<1>6. /\ 1 \in DOMAIN replies /\ replies[1].frame = f
      /\ \A i \in DOMAIN replies' :
           /\ i + 1 \in DOMAIN replies /\ replies'[i] = replies[i + 1]
           /\ i \in Nat /\ i >= 1
      /\ \A i \in DOMAIN replies :
           i = 1 \/ (i - 1 \in DOMAIN replies' /\ replies'[i - 1] = replies[i])
      /\ DOMAIN replies \subseteq Nat
  BY TakenFrame DEF CompanionType
<1>7. /\ \A i \in DOMAIN replies' : i \in Ordinary' <=> i + 1 \in Ordinary
      /\ Ordinary \subseteq DOMAIN replies /\ Ordinary' \subseteq DOMAIN replies'
  BY <1>6 DEF Ordinary
<1>8. InPlace(1) /\ outgoing = <<>> /\ received = <<>> /\ received' = <<>>
      /\ next_write # 0
  BY <1>5, <1>6 DEF Aligned, Answering
<1> HIDE DEF f, tx
<1>9. CASE active.step = "command" /\ ~ Completes(active.command, f)
  <2>1. NoWrite(e, x) /\ x.active = [tx EXCEPT !.contacts_started = TRUE]
    BY <1>1, <1>4, <1>9 DEF Responds, tx
  <2>2. /\ active'.step = active.step /\ active'.owner = active.owner
        /\ active'.command = active.command /\ active'.scope = active.scope
        /\ active'.scoped = active.scoped
    BY <1>1, <1>4, <2>1 DEF Transaction
  <2>3. outgoing' = <<>> /\ next_write' = next_write
    BY <1>1, <1>3, <1>8, <2>1 DEF NoWrite
  <2>4. Aligned'
    BY <1>8, <1>9, <2>2, <2>3 DEF Aligned
  <2>5. Answering'
    <3> SUFFICES ASSUME NEW i \in DOMAIN replies'
                 PROVE  InPlace(i)'
      BY DEF Answering
    <3>1. /\ i + 1 \in DOMAIN replies /\ replies'[i] = replies[i + 1]
          /\ i \in Nat
          /\ i \in Ordinary' <=> i + 1 \in Ordinary
      BY <1>6, <1>7
    <3>2. \A j \in Ordinary' : j \in Nat /\ j + 1 \in Ordinary
      BY <1>6, <1>7
    <3>3. \A j \in Ordinary' : j > i => j + 1 > i + 1
      BY <3>1, <3>2
    <3>4. InPlace(i + 1)
      BY <1>5, <3>1 DEF Answering
    <3>5. \A g : AnswersSelfTelemetry(g)' <=> AnswersSelfTelemetry(g)
      BY <2>2 DEF AnswersSelfTelemetry, Busy
    <3> QED
      BY <2>2, <2>3, <3>1, <3>2, <3>3, <3>4, <3>5 DEF InPlace
  <2>6. Scoped'
    BY <1>5, <1>9, <2>2 DEF Scoped, Busy
  <2> QED
    BY <2>4, <2>5, <2>6
<1>10. CASE ~ (active.step = "command" /\ ~ Completes(active.command, f))
  <2>1. Ordinary = {1}
    <3>1. ASSUME NEW j \in Ordinary
          PROVE  ~ j > 1
      BY <1>6, <1>8, <1>10 DEF InPlace
    <3>2. \A j \in Ordinary : j = 1 \/ j > 1
      <4>1. ASSUME NEW j \in Ordinary
            PROVE  j = 1 \/ j > 1
        <5>1. j \in DOMAIN replies
          BY <1>7
        <5>2. CASE j # 1
          BY <1>6, <5>1, <5>2
        <5> QED
          BY <5>2
      <4> QED
        BY <4>1
    <3> QED
      BY <3>1, <3>2
  <2>2. Ordinary' = {}
    <3>1. ASSUME NEW i \in DOMAIN replies'
          PROVE  i + 1 # 1
      BY <1>6
    <3> QED
      BY <1>7, <2>1, <3>1
  <2>3. Answering'
    <3> SUFFICES ASSUME NEW i \in DOMAIN replies'
                 PROVE  InPlace(i)'
      BY DEF Answering
    <3>1. /\ i + 1 \in DOMAIN replies /\ replies'[i] = replies[i + 1]
          /\ i + 1 \notin Ordinary
      BY <1>6, <1>7, <2>2
    <3>2. InPlace(i + 1)
      BY <1>5, <3>1 DEF Answering
    <3> QED
      BY <2>2, <3>1, <3>2 DEF InPlace
  <2>4. ~ Confirmed' /\ (Confirmed <=> f.code = "ok")
    BY <1>6, <2>1, <2>2 DEF Confirmed
  <2>5. ASSUME NEW step \in {"command", "restore"}, Issues(e, x),
               x.active = [tx EXCEPT !.step = step, !.write = e.next_write + 1]
        PROVE  /\ Aligned' /\ active'.step = step
               /\ active'.scope = active.scope /\ active'.scoped = active.scoped
               /\ active'.owner = active.owner
    <3>1. /\ active'.step = step /\ active'.write = next_write + 1
          /\ active'.scope = active.scope /\ active'.scoped = active.scoped
          /\ active'.owner = active.owner
      BY <1>1, <1>3, <1>4, <2>5 DEF Transaction, Steps
    <3>2. /\ next_write' = next_write + 1
          /\ outgoing' = <<Job(next_write', active')>>
      BY <1>1, <1>3, <1>8, <2>5 DEF Issues
    <3>3. wrote' # next_write' /\ next_write' # 0
      BY <1>2, <3>2 DEF Numbered
    <3> QED
      BY <1>8, <2>2, <3>1, <3>2, <3>3 DEF Aligned
  <2>6. ASSUME NoWrite(e, x), Busy,
               x.active \in {NoTransaction, [tx EXCEPT !.step = "result"]}
        PROVE  /\ Aligned' /\ active'.step \in {"none", "result"}
               /\ active'.scoped => active'.owner # 0
    <3>1. outgoing' = <<>>
      BY <1>1, <1>3, <1>8, <2>6 DEF NoWrite
    <3>2. /\ active'.step \in {"none", "result"}
          /\ active'.scoped => active'.owner # 0
      BY <1>1, <1>4, <1>5, <2>6 DEF Transaction, Steps, NoTransaction, Scoped
    <3> QED
      BY <1>8, <2>2, <3>1, <3>2 DEF Aligned
  <2>7. CASE /\ active.step = "setup" /\ f.code = "ok" /\ Issues(e, x)
             /\ x.active = [tx EXCEPT !.step = "command",
                                      !.write = e.next_write + 1]
    BY <1>5, <2>3, <2>4, <2>5, <2>7 DEF Scoped, Busy
  <2>8. CASE /\ active.step = "setup" /\ f.code = "err" /\ NoWrite(e, x)
             /\ x.active = NoTransaction
    BY <1>5, <2>3, <2>4, <2>6, <2>8 DEF Scoped, Busy
  <2>9. CASE /\ active.step = "restore" /\ f.code = "ok" /\ NoWrite(e, x)
             /\ x.active = NoTransaction
    BY <1>5, <2>3, <2>4, <2>6, <2>9 DEF Scoped, Busy
  <2>10. CASE /\ active.step = "command"
              /\ active.owner = 0 \/ ~ active.scoped
              /\ NoWrite(e, x)
              /\ x.active \in {NoTransaction, [tx EXCEPT !.step = "result"]}
    BY <1>5, <2>3, <2>4, <2>6, <2>10 DEF Scoped, Busy
  <2>11. CASE /\ active.step = "command" /\ active.scoped /\ Issues(e, x)
              /\ x.active = [tx EXCEPT !.step = "restore",
                                       !.write = e.next_write + 1]
    BY <1>5, <2>3, <2>4, <2>5, <2>11 DEF Scoped, Busy
  <2> QED
    BY <1>1, <1>4, <1>10, <2>7, <2>8, <2>9, <2>10, <2>11 DEF Responds, tx
<1> QED
  BY <1>9, <1>10

\* The writer puts the command on the wire.
LEMMA WireWritten ==
  ASSUME TypeInv, WriterWrites, WireInv
  PROVE  WireInv'
<1> SUFFICES ASSUME ~ failed
             PROVE  Aligned' /\ Answering' /\ Scoped'
  BY DEF WireInv, WriterWrites, TakeWrite
<1>1. /\ outgoing # <<>> /\ outgoing' = Tail(outgoing)
      /\ received' = Append(received, Head(outgoing))
      /\ UNCHANGED <<active, next_write, replies, flood_scope>>
  BY DEF WriterWrites, TakeWrite
<1>2. Aligned /\ Answering /\ Scoped
  BY DEF WireInv
<1>3. outgoing = <<Job(next_write, active)>> /\ received = <<>>
  BY <1>1, <1>2 DEF Aligned
<1>4. outgoing' = <<>> /\ received' = <<Job(next_write, active)>>
  BY <1>1, <1>3
<1>5. Ordinary' = Ordinary /\ (Confirmed' <=> Confirmed)
      /\ \A g : AnswersSelfTelemetry(g)' <=> AnswersSelfTelemetry(g)
  BY <1>1 DEF Ordinary, Confirmed, AnswersSelfTelemetry, Busy
<1>6. Aligned'
  BY <1>1, <1>2, <1>4, <1>5 DEF Aligned
<1>7. Answering'
  BY <1>1, <1>2, <1>5 DEF Answering, InPlace
<1>8. Scoped'
  BY <1>1, <1>2, <1>5 DEF Scoped, Busy
<1> QED
  BY <1>6, <1>7, <1>8
-----------------------------------------------------------------------------
(* What the companion does to the wire                                     *)

\* A reply stream of the running command: only the last frame ends it.
Stream(frames) ==
  \A i \in DOMAIN frames :
    /\ frames[i].code \in PushCodes => AnswersSelfTelemetry(frames[i])
    /\ \A j \in DOMAIN frames :
         j > i => /\ active.step = "command"
                  /\ ~ Completes(active.command, frames[i])

LEMMA OneFrame ==
  ASSUME NEW f, f.code \notin PushCodes \/ AnswersSelfTelemetry(f)
  PROVE  Stream(<<f>>)
BY DEF Stream

LEMMA NoPushSucceeds ==
  ASSUME NEW op, op # "self_telemetry", NEW code \in SuccessCodes(op)
  PROVE  code \notin PushCodes
<1>1. PushCodes = {"login_success", "login_failure", "status_response",
                   "trace_data", "telemetry_response", "binary_response",
                   "path_discovery_response", "msg_waiting", "send_confirmed",
                   "push"}
  BY DEF PushCodes, RemotePushes
<1>2. CASE op \in DOMAIN ValueReply
  <2>1. ValueReply[op] \notin PushCodes
    BY <1>1, <1>2 DEF ValueReply
  <2>2. "disabled" \notin PushCodes /\ "private_key" \notin PushCodes
    BY <1>1
  <2>3. /\ op # "get_contacts" /\ op # "sync_next_message" /\ op # "reboot"
        /\ op # "import_private_key" /\ op \notin RemoteLease \cup {"send_txt_msg"}
        /\ op \notin OkOps
    BY <1>2 DEF ValueReply, RemoteLease, OkOps
  <2>4. code \in {"private_key", "disabled"} \/ code = ValueReply[op]
    BY <2>3 DEF SuccessCodes
  <2> QED
    BY <2>1, <2>2, <2>4
<1>3. CASE op \notin DOMAIN ValueReply
  <2>1. code \in {"contacts_start", "contact", "end_of_contacts", "message",
                  "no_more_messages", "ok", "disabled", "private_key", "sent"}
    BY <1>3 DEF SuccessCodes
  <2> QED
    BY <1>1, <2>1
<1> QED
  BY <1>2, <1>3

\* The companion's answers are such streams.
LEMMA AnswerStreams ==
  ASSUME NEW command, command = WireCommand(active),
         active.step \in {"setup", "command", "restore"},
         NEW answer \in Answers(command)
  PROVE  Stream(answer)
<1>1. command.op # "set_flood_scope_key"
        => active.step = "command" /\ command = active.command
  BY DEF WireCommand, SetScope
<1>2. CASE command.op = "get_contacts"
  <2> DEFINE a == Frame("contacts_start", 0)
             b == Frame("contact", 0)
             c == Frame("end_of_contacts", 0)
  <2>1. answer = <<a, b, c>>
    BY <1>2 DEF Answers, RemoteLease
  <2>2. /\ a.code \notin PushCodes /\ b.code \notin PushCodes
        /\ c.code \notin PushCodes
    BY DEF PushCodes, RemotePushes, Frame
  <2>3. active.step = "command" /\ active.command.op = "get_contacts"
    BY <1>1, <1>2
  <2>4. ~ Completes(active.command, a) /\ ~ Completes(active.command, b)
    BY <2>3 DEF Completes, Frame
  <2> HIDE DEF a, b, c
  <2>5. /\ DOMAIN answer = 1 .. 3
        /\ answer[1] = a /\ answer[2] = b /\ answer[3] = c
    BY <2>1
  <2> QED
    BY <2>2, <2>3, <2>4, <2>5 DEF Stream
<1>3. CASE command.op = "reboot"
  <2>1. answer = <<>>
    BY <1>3 DEF Answers, RemoteLease
  <2> QED
    BY <2>1 DEF Stream
<1>4. CASE command.op = "self_telemetry"
  <2>1. answer = <<Frame("telemetry_response", SelfKey)>>
    BY <1>4 DEF Answers, RemoteLease
  <2>2. AnswersSelfTelemetry(Frame("telemetry_response", SelfKey))
    BY <1>1, <1>4 DEF AnswersSelfTelemetry, Frame, Busy
  <2> QED
    BY <2>1, <2>2, OneFrame
<1>5. CASE command.op \in RemoteLease \cup {"send_txt_msg"}
  <2>1. answer = <<Frame("sent", Token)>>
    BY <1>5 DEF Answers, RemoteLease
  <2>2. Frame("sent", Token).code \notin PushCodes
    BY DEF PushCodes, RemotePushes, Frame
  <2> QED
    BY <2>1, <2>2, OneFrame
<1>6. CASE command.op \notin {"get_contacts", "reboot", "self_telemetry"}
                               \cup RemoteLease \cup {"send_txt_msg"}
  <2>1. PICK code \in SuccessCodes(command.op) :
          answer = <<Frame(code, IF code = "ok" THEN 0 ELSE command.arg)>>
    BY <1>6 DEF Answers
  <2>2. code \notin PushCodes
    BY <1>6, NoPushSucceeds
  <2>3. Frame(code, IF code = "ok" THEN 0 ELSE command.arg).code = code
    BY DEF Frame
  <2> QED
    BY <2>1, <2>2, <2>3, OneFrame
<1> QED
  BY <1>2, <1>3, <1>4, <1>5, <1>6

\* A change of scope has one answer.
LEMMA ScopeAnswer ==
  ASSUME NEW command, command.op = "set_flood_scope_key"
  PROVE  Answers(command) = {<<Frame("ok", 0)>>}
<1>1. /\ command.op # "get_contacts" /\ command.op # "reboot"
      /\ command.op # "self_telemetry"
      /\ command.op \notin RemoteLease \cup {"send_txt_msg"}
  BY DEF RemoteLease
<1>2. SuccessCodes(command.op) = {"ok"}
  BY ReplyCodes
<1>3. Answers(command)
        = {<<Frame(code, IF code = "ok" THEN 0 ELSE command.arg)>> :
             code \in {"ok"}}
  BY <1>1, <1>2 DEF Answers
<1> QED
  BY <1>3

\* The frames sent are behind those on their way.
LEMMA SentBehind ==
  ASSUME CompanionType, NEW more \in Seq(Sending), replies' = replies \o more
  PROVE  /\ \A i \in DOMAIN replies' :
              \/ i \in DOMAIN replies /\ replies'[i] = replies[i]
              \/ /\ i > Len(replies) /\ i - Len(replies) \in DOMAIN more
                 /\ replies'[i] = more[i - Len(replies)]
         /\ \A i \in DOMAIN replies : i \in DOMAIN replies' /\ replies'[i] = replies[i]
         /\ \A i \in DOMAIN more :
              /\ Len(replies) + i \in DOMAIN replies'
              /\ replies'[Len(replies) + i] = more[i]
         /\ DOMAIN replies' \subseteq Nat /\ DOMAIN replies = 1 .. Len(replies)
         /\ Len(replies) \in Nat
<1> DEFINE S == Sending
           n == Len(replies)
           m == Len(more)
<1>1. replies \in Seq(S) /\ more \in Seq(S)
  BY DEF CompanionType
<1> HIDE DEF S
<1>2. /\ n \in Nat /\ m \in Nat /\ DOMAIN replies = 1 .. n /\ DOMAIN more = 1 .. m
      /\ DOMAIN replies' = 1 .. n + m
      /\ \A i \in 1 .. n : replies'[i] = replies[i]
      /\ \A i \in 1 .. m : replies'[n + i] = more[i]
  BY <1>1
<1> HIDE DEF n, m
<1>3. ASSUME NEW i \in 1 .. n + m
      PROVE  i \in 1 .. n \/ (i > n /\ i - n \in 1 .. m /\ n + (i - n) = i)
  BY <1>2
<1> QED
  BY <1>2, <1>3 DEF n

LEMMA WireReplied ==
  ASSUME TypeInv, CompanionType, Aligned, Answering, received # <<>>,
         NEW frames \in Seq(SentFrames), Stream(frames),
         replies' = replies \o Answer(Head(received), frames),
         received' = Tail(received),
         UNCHANGED <<outgoing, next_write, active, wrote>>
  PROVE  /\ Aligned' /\ Answering'
         /\ Confirmed' <=> \E i \in DOMAIN frames : frames[i].code = "ok"
<1> DEFINE job == Head(received)
           more == Answer(job, frames)
           n == Len(replies)
<1>1. /\ received = <<Job(next_write, active)>> /\ Ordinary = {}
      /\ outgoing = <<>> /\ next_write # 0
      /\ active.step \in {"setup", "command", "restore"}
  BY DEF Aligned
<1>2. /\ job.id = next_write /\ job.owner = active.owner /\ received' = <<>>
      /\ job \in Write
  <2>1. job = Job(next_write, active) /\ received' = <<>>
    BY <1>1
  <2>2. job \in Write
    BY FirstAndOthers DEF CompanionType
  <2> QED
    BY <2>1, <2>2 DEF Job
<1> HIDE DEF job
<1>3. more \in Seq(Sending) /\ DOMAIN more = DOMAIN frames
      /\ \A i \in DOMAIN frames :
           /\ more[i].id = next_write /\ more[i].owner = active.owner
           /\ more[i].frame = frames[i]
  <2>1. more \in Seq(Sending) /\ Len(more) = Len(frames)
    BY <1>2, AnswerType
  <2>2. DOMAIN more = 1 .. Len(frames) /\ DOMAIN frames = 1 .. Len(frames)
    BY DEF Answer
  <2> QED
    BY <1>2, <2>1, <2>2 DEF Answer
<1>4. replies' = replies \o more
  BY DEF job
<1> HIDE DEF more
<1>5. /\ \A i \in DOMAIN replies' :
           \/ i \in DOMAIN replies /\ replies'[i] = replies[i]
           \/ i > n /\ i - n \in DOMAIN more /\ replies'[i] = more[i - n]
      /\ \A i \in DOMAIN replies : i \in DOMAIN replies' /\ replies'[i] = replies[i]
      /\ \A i \in DOMAIN more :
           n + i \in DOMAIN replies' /\ replies'[n + i] = more[i]
      /\ DOMAIN replies' \subseteq Nat /\ DOMAIN replies = 1 .. n /\ n \in Nat
  BY <1>3, <1>4, SentBehind
<1> HIDE DEF n
<1>6. \A i \in DOMAIN replies' :
        \/ i \in DOMAIN replies /\ i \notin Ordinary' /\ replies'[i] = replies[i]
        \/ /\ i \in Ordinary' /\ i > n /\ i - n \in DOMAIN frames
           /\ replies'[i].id = next_write /\ replies'[i].owner = active.owner
           /\ replies'[i].frame = frames[i - n]
  BY <1>1, <1>3, <1>5 DEF Ordinary
<1>7. Aligned'
  BY <1>1, <1>2 DEF Aligned
<1>8. \A g : AnswersSelfTelemetry(g)' <=> AnswersSelfTelemetry(g)
  BY DEF AnswersSelfTelemetry, Busy
<1>9. Ordinary' \subseteq DOMAIN replies'
  BY DEF Ordinary
<1>10. Answering'
  <2> SUFFICES ASSUME NEW i \in DOMAIN replies'
               PROVE  InPlace(i)'
    BY DEF Answering
  <2>1. CASE i \in DOMAIN replies /\ i \notin Ordinary' /\ replies'[i] = replies[i]
    <3>1. InPlace(i) /\ i \notin Ordinary
      BY <1>1, <2>1 DEF Answering
    <3> QED
      BY <2>1, <3>1 DEF InPlace
  <2>2. CASE /\ i \in Ordinary' /\ i > n /\ i - n \in DOMAIN frames
             /\ replies'[i].id = next_write /\ replies'[i].owner = active.owner
             /\ replies'[i].frame = frames[i - n]
    <3>1. i \in Nat /\ n \in Nat
      BY <1>5
    <3>2. ASSUME NEW j \in Ordinary', j > i
          PROVE  /\ active.step = "command"
                 /\ ~ Completes(active.command, frames[i - n])
      <4>1. j \in Nat /\ j - n \in DOMAIN frames
        <5>1. j \in DOMAIN replies' /\ j \in Nat
          BY <1>5, <1>9
        <5> QED
          BY <1>6, <5>1
      <4>2. j - n > i - n
        BY <3>1, <3>2, <4>1
      <4> QED
        BY <2>2, <4>1, <4>2 DEF Stream
    <3>3. frames[i - n].code \in PushCodes
            => AnswersSelfTelemetry(frames[i - n])
      BY <2>2 DEF Stream
    <3> QED
      BY <1>8, <2>2, <3>2, <3>3 DEF InPlace
  <2> QED
    BY <1>6, <2>1, <2>2
<1>11. Confirmed' <=> \E i \in DOMAIN frames : frames[i].code = "ok"
  <2>1. ASSUME Confirmed'
        PROVE  \E i \in DOMAIN frames : frames[i].code = "ok"
    BY <1>6, <1>9, <2>1 DEF Confirmed
  <2>2. ASSUME NEW i \in DOMAIN frames, frames[i].code = "ok"
        PROVE  Confirmed'
    <3>1. n + i \in DOMAIN replies' /\ replies'[n + i] = more[i]
      BY <1>3, <1>5
    <3>2. n + i \in Ordinary'
      BY <1>1, <1>3, <3>1 DEF Ordinary
    <3> QED
      BY <1>3, <2>2, <3>1, <3>2 DEF Confirmed
  <2> QED
    BY <2>1, <2>2
<1> QED
  BY <1>7, <1>10, <1>11

\* An announcement leaves the replies to commands as they are.
LEMMA WireAnnounced ==
  ASSUME CompanionType, Aligned, Answering, Scoped, NEW owner \in Nat,
         NEW f \in SentFrames, f.code \in PushCodes,
         f # Frame("telemetry_response", SelfKey),
         replies' = replies \o Announce(owner, f) \/ replies' = replies,
         UNCHANGED <<outgoing, next_write, active, wrote, received, flood_scope>>
  PROVE  Aligned' /\ Answering' /\ Scoped'
<1> DEFINE more == Announce(owner, f)
           n == Len(replies)
<1>1. more \in Seq(Sending) /\ DOMAIN more = {1}
      /\ more[1].id = 0 /\ more[1].frame = f
  BY AnnounceType DEF Announce
<1> HIDE DEF more
<1>2. /\ \A i \in DOMAIN replies' :
           \/ i \in DOMAIN replies /\ replies'[i] = replies[i]
           \/ i \notin DOMAIN replies /\ replies'[i] = more[1]
      /\ \A i \in DOMAIN replies : i \in DOMAIN replies' /\ replies'[i] = replies[i]
  <2>1. CASE replies' = replies
    BY <2>1
  <2>2. CASE replies' = replies \o more
    <3>1. /\ \A i \in DOMAIN replies' :
               \/ i \in DOMAIN replies /\ replies'[i] = replies[i]
               \/ /\ i > n /\ i - n \in DOMAIN more
                  /\ replies'[i] = more[i - n]
          /\ \A i \in DOMAIN replies :
               i \in DOMAIN replies' /\ replies'[i] = replies[i]
          /\ DOMAIN replies' \subseteq Nat /\ DOMAIN replies = 1 .. n /\ n \in Nat
      BY <1>1, <2>2, SentBehind
    <3> QED
      BY <1>1, <3>1
  <2> QED
    BY <2>1, <2>2 DEF more
<1>3. Ordinary' = Ordinary /\ \A i \in Ordinary : replies'[i] = replies[i]
  BY <1>1, <1>2 DEF Ordinary
<1>4. Confirmed' <=> Confirmed
  BY <1>3 DEF Confirmed
<1>5. \A g : AnswersSelfTelemetry(g)' <=> AnswersSelfTelemetry(g)
  BY DEF AnswersSelfTelemetry, Busy
<1>6. Aligned'
  BY <1>3 DEF Aligned
<1>7. Answering'
  <2> SUFFICES ASSUME NEW i \in DOMAIN replies'
               PROVE  InPlace(i)'
    BY DEF Answering
  <2>1. CASE i \in DOMAIN replies /\ replies'[i] = replies[i]
    <3>1. InPlace(i)
      BY <2>1 DEF Answering
    <3> QED
      BY <1>3, <1>5, <2>1, <3>1 DEF InPlace
  <2>2. CASE i \notin DOMAIN replies /\ replies'[i] = more[1]
    <3>1. i \notin Ordinary'
      BY <1>3, <2>2 DEF Ordinary
    <3> QED
      BY <1>1, <2>2, <3>1 DEF InPlace
  <2> QED
    BY <1>2, <2>1, <2>2
<1>8. Scoped'
  BY <1>4 DEF Scoped, Busy
<1> QED
  BY <1>6, <1>7, <1>8
\* The running command, once it is sent, changes no scope.
LEMMA CommandSetsNoScope ==
  ASSUME TypeInv, RoundInv, active.step = "command"
  PROVE  active.command.op # "set_flood_scope_key"
<1>1. active.owner = 0 => active.command = Sync
  BY DEF TypeInv, PopShape
<1>2. active.owner # 0 => ~ Virtual(active.command)
  BY DEF RoundInv, Forwards
<1> QED
  BY <1>1, <1>2 DEF Virtual, Sync

LEMMA WireCompanion ==
  ASSUME TypeInv, CompanionType, RoundInv, CompanionStep, WireInv
  PROVE  WireInv'
<1> SUFFICES ASSUME ~ failed
             PROVE  Aligned' /\ Answering' /\ Scoped'
  BY DEF WireInv, CompanionStep, vars
<1>1. UNCHANGED <<outgoing, next_write, active, wrote>>
  BY DEF CompanionStep, vars, linkVars
<1>2. Aligned /\ Answering /\ Scoped
  BY DEF WireInv
<1>3. received # <<>> =>
        /\ Head(received) = Job(next_write, active)
        /\ Head(received).command = WireCommand(active)
        /\ active.step \in {"setup", "command", "restore"} /\ Ordinary = {}
  BY <1>2 DEF Aligned, Job
<1>4. received # <<>> => ~ Confirmed
  BY <1>3 DEF Confirmed
<1>5. CASE ExecutePop
  <2>1. PICK f \in SentFrames :
          /\ f.code \in {"no_more_messages", "message"}
          /\ replies' = replies \o Answer(Head(received), <<f>>)
    <3>1. CASE physical = <<>>
      <4>1. Frame("no_more_messages", 0) \in SentFrames
        BY FramesMade
      <4> QED
        BY <1>5, <3>1, <4>1 DEF ExecutePop, Frame
    <3>2. CASE physical # <<>>
      <4>1. Head(physical) \in 1 .. MaxArrivals
        BY <3>2, FirstAndOthers DEF CompanionType
      <4>2. Frame("message", Head(physical)) \in SentFrames
        BY <4>1, FramesMade
      <4> QED
        BY <1>5, <3>2, <4>2 DEF ExecutePop, Frame
    <3> QED
      BY <3>1, <3>2
  <2>2. /\ received # <<>> /\ Head(received).command = Sync
        /\ received' = Tail(received) /\ flood_scope' = flood_scope
    BY <1>5 DEF ExecutePop
  <2>3. active.step = "command"
    BY <1>3, <2>2 DEF WireCommand, SetScope, Sync
  <2>4. Stream(<<f>>)
    <3>1. f.code \notin PushCodes
      BY <2>1 DEF PushCodes, RemotePushes
    <3> QED
      BY <3>1, OneFrame
  <2>5. Aligned' /\ Answering'
    <3>1. <<f>> \in Seq(SentFrames)
      OBVIOUS
    <3> QED
      BY <1>1, <1>2, <2>1, <2>2, <2>4, <3>1, WireReplied
  <2> QED
    BY <1>1, <1>2, <2>2, <2>3, <2>5 DEF Scoped, Busy
<1>6. CASE Execute
  <2> DEFINE job == Head(received)
             command == job.command
  <2>1. /\ received # <<>> /\ received' = Tail(received) /\ command # Sync
        /\ flood_scope' = IF command.op = "set_flood_scope_key"
                          THEN command.arg ELSE flood_scope
    BY <1>6 DEF Execute
  <2>2. PICK answer \in Answers(command) :
          replies' = replies \o Answer(job, answer)
    BY <1>6 DEF Execute
  <2>3. command = WireCommand(active) /\ command \in Command
    <3>1. job \in Write
      BY <2>1, FirstAndOthers DEF CompanionType
    <3> QED
      BY <1>3, <2>1, <3>1 DEF Write
  <2> HIDE DEF command
  <2>4. answer \in Seq(SentFrames)
    <3>1. command.op # "none"
      BY <2>2, NothingAnswersNone
    <3> QED
      BY <2>1, <2>2, <2>3, <3>1, AnswersMade
  <2>5. Stream(answer)
    BY <1>3, <2>1, <2>2, <2>3, AnswerStreams
  <2>6. /\ Aligned' /\ Answering'
        /\ Confirmed' <=> \E i \in DOMAIN answer : answer[i].code = "ok"
    BY <1>1, <1>2, <2>1, <2>2, <2>4, <2>5, WireReplied
  <2>7. CASE active.step = "command"
    <3>1. command.op # "set_flood_scope_key"
      BY <2>3, <2>7, CommandSetsNoScope DEF WireCommand
    <3> QED
      BY <1>1, <1>2, <2>1, <2>6, <2>7, <3>1 DEF Scoped, Busy
  <2>8. CASE active.step \in {"setup", "restore"}
    <3>1. /\ command = SetScope(IF active.step = "setup" THEN active.scope
                                ELSE DefaultScope)
      BY <2>3, <2>8 DEF WireCommand
    <3>2. command.op = "set_flood_scope_key"
          /\ command.arg = IF active.step = "setup" THEN active.scope
                           ELSE DefaultScope
      BY <3>1 DEF SetScope
    <3>3. answer = <<Frame("ok", 0)>>
      BY <2>2, <3>2, ScopeAnswer
    <3>4. Confirmed'
      BY <2>6, <3>3 DEF Frame
    <3> QED
      BY <1>1, <1>2, <2>1, <2>6, <2>8, <3>2, <3>4 DEF Scoped, Busy
  <2> QED
    BY <1>3, <2>1, <2>7, <2>8
<1>7. CASE Refuse
  <2>1. PICK reason \in {1, ErrBadState} :
          replies' = replies \o Answer(Head(received), <<Frame("err", reason)>>)
    BY <1>7 DEF Refuse
  <2>2. /\ received # <<>> /\ received' = Tail(received)
        /\ flood_scope' = flood_scope
    BY <1>7 DEF Refuse
  <2> DEFINE f == Frame("err", reason)
  <2>3. f \in SentFrames /\ f.code = "err"
    BY FramesMade DEF Frame
  <2> HIDE DEF f
  <2>4. <<f>> \in Seq(SentFrames) /\ Stream(<<f>>)
    <3>1. f.code \notin PushCodes
      BY <2>3 DEF PushCodes, RemotePushes
    <3> QED
      BY <2>3, <3>1, OneFrame
  <2>5. /\ Aligned' /\ Answering'
        /\ Confirmed' <=> \E i \in DOMAIN <<f>> : <<f>>[i].code = "ok"
    BY <1>1, <1>2, <2>1, <2>2, <2>4, WireReplied DEF f
  <2>6. ~ Confirmed'
    BY <2>3, <2>5
  <2> QED
    BY <1>1, <1>2, <1>4, <2>2, <2>5, <2>6 DEF Scoped, Busy
<1>8. CASE Arrive(usable)
  <2> DEFINE f == Frame("msg_waiting", 0)
  <2>1. f \in SentFrames /\ f.code \in PushCodes
        /\ f # Frame("telemetry_response", SelfKey)
    BY FramesMade DEF PushCodes, Frame
  <2>2. /\ replies' = replies \o Announce(0, f) \/ replies' = replies
        /\ UNCHANGED <<received, flood_scope>>
    BY <1>8 DEF Arrive
  <2> HIDE DEF f
  <2> QED
    BY <1>1, <1>2, <2>1, <2>2, WireAnnounced
<1>9. CASE Report(usable)
  <2>1. PICK i \in DOMAIN requests, code \in DOMAIN RemotePushes :
          LET command == requests[i].command
              key == IF code = "binary_response" THEN Token ELSE command.arg
          IN /\ command.op \in RemotePushes[code]
             /\ replies' = IF usable
                  THEN replies \o Announce(requests[i].owner, Frame(code, key))
                  ELSE replies
             /\ UNCHANGED <<received, flood_scope>>
    BY <1>9 DEF Report
  <2>2. requests[i].command \in Commands /\ requests[i].owner \in Nat
    <3>1. requests[i] \in Accepted
      BY DEF CompanionType
    <3> QED
      BY <3>1 DEF Accepted
  <2> DEFINE key == IF code = "binary_response" THEN Token
                    ELSE requests[i].command.arg
             f == Frame(code, key)
  <2>3. f \in SentFrames
    BY <2>2, FramesMade
  <2>4. f.code \in PushCodes
    BY DEF PushCodes, Frame
  <2>5. f # Frame("telemetry_response", SelfKey)
    <3>1. CASE code = "telemetry_response"
      <4>1. requests[i].command.op = "send_telemetry_req"
        BY <2>1, <3>1 DEF RemotePushes
      <4>2. key = requests[i].command.arg
        BY <3>1
      <4>3. key # SelfKey
        BY <2>2, <4>1, <4>2, MuxAssumption
      <4> QED
        BY <4>3 DEF Frame
    <3>2. CASE code # "telemetry_response"
      BY <3>2 DEF Frame
    <3> QED
      BY <3>1, <3>2
  <2>6. /\ replies' = replies \o Announce(requests[i].owner, f)
             \/ replies' = replies
        /\ UNCHANGED <<received, flood_scope>>
    BY <2>1
  <2> HIDE DEF f
  <2> QED
    BY <1>1, <1>2, <2>2, <2>3, <2>4, <2>5, <2>6, WireAnnounced
<1> QED
  BY <1>5, <1>6, <1>7, <1>8, <1>9 DEF CompanionStep

-----------------------------------------------------------------------------
(* The invariant, and the theorems about the wire                          *)

LEMMA WireInit == MuxInit => WireInv
<1>1. ASSUME MuxInit
      PROVE  Aligned /\ Answering /\ Scoped
  <2>1. /\ outgoing = <<>> /\ received = <<>> /\ replies = <<>>
        /\ active = NoTransaction /\ flood_scope = DefaultScope
    BY <1>1 DEF MuxInit, Init, CompanionInit
  <2>2. Ordinary = {}
    BY <2>1 DEF Ordinary
  <2> QED
    BY <2>1, <2>2 DEF Aligned, Answering, Scoped, NoTransaction, Busy
<1> QED
  BY <1>1 DEF WireInv

LEMMA WireFrame ==
  ASSUME TypeInv, LinkType, FrameArrives, WireInv
  PROVE  WireInv'
<1> DEFINE f == Head(replies).frame
<1>1. /\ replies # <<>> /\ replies' = Tail(replies)
      /\ UNCHANGED <<received, flood_scope, wrote>>
      /\ UpstreamFrame(f) \/ LateUpstreamFrame
  BY DEF FrameArrives
<1>2. Numbered /\ CompanionType
  BY LinkParts
<1>3. f \in Frames
  BY <1>1, <1>2, NextFrame
<1>4. 1 \in DOMAIN replies /\ replies[1].frame = f
  BY <1>1, <1>2, TakenFrame DEF CompanionType
<1>5. ~ failed
  BY <1>1 DEF UpstreamFrame, LateUpstreamFrame, AtRest
<1>6. InPlace(1)
  BY <1>4, <1>5 DEF WireInv, Answering
<1> HIDE DEF f
<1>7. CASE LateUpstreamFrame
  <2>1. Rests
    BY <1>7, HandlersCalm
  <2>2. failed'
    <3>1. Fail(Now).failing /\ Commit(Fail(Now))
      BY <1>7 DEF LateUpstreamFrame, CommitAndSchedule, Fail, Now
    <3> QED
      BY <3>1, CommitWire
  <2> QED
    BY <2>2 DEF WireInv
<1>8. CASE UpstreamFrame(f) /\ 1 \in Ordinary
  <2>1. f.code \notin PushCodes \/ AnswersSelfTelemetry(f)
    BY <1>4, <1>6, <1>8 DEF InPlace
  <2>2. failed' \/ Answered(f)
    BY <1>3, <1>8, <2>1, UpstreamFrameWire
  <2> QED
    BY <1>1, <1>2, <1>5, <1>8, <2>2, WireAnswered DEF WireInv, f
<1>9. CASE UpstreamFrame(f) /\ 1 \notin Ordinary
  <2>1. f.code \in PushCodes /\ f # Frame("telemetry_response", SelfKey)
    BY <1>4, <1>6, <1>9 DEF InPlace
  <2>2. ~ AnswersSelfTelemetry(f)
    BY <2>1 DEF AnswersSelfTelemetry, Frame
  <2>3. Rests
    BY <1>3, <1>9, <2>1, <2>2, UpstreamFrameWire
  <2> QED
    BY <1>1, <1>2, <1>9, <2>3, WirePush
<1> QED
  BY <1>1, <1>7, <1>8, <1>9

LEMMA WireStep ==
  ASSUME BrokerInv, RoundInv, LinkType, WireInv, MuxNext
  PROVE  WireInv'
<1>1. TypeInv /\ InboxInv /\ Ended /\ Numbered /\ CompanionType
  BY LinkParts DEF BrokerInv
<1>2. CASE Clients \/ ClientRequest \/ Clock
  <2>1. ClientStep \/ ClockStep
    BY <1>1, <1>2, ClientsStep, ClockIsBroker
  <2>2. Rests
    BY <1>1, <2>1, HandlersCalm
  <2>3. LinkSame /\ wrote' = wrote
    BY <1>2 DEF Clients, ClientRequest, Clock, linkVars, companionVars, LinkSame
  <2> QED
    BY <1>1, <2>2, <2>3, WireCalm
<1>3. CASE Schedule
  <2>1. ScheduleStep /\ LinkSame /\ wrote' = wrote
    BY <1>3 DEF Schedule, linkVars, companionVars, LinkSame
  <2>2. CASE Rests
    BY <1>1, <2>1, <2>2, WireCalm
  <2>3. CASE ~ Rests
    <3>1. Starts
      BY <1>1, <2>1, <2>3, ScheduleWire
    <3>2. ~ Busy
      <4>1. PICK k : TurnPop(k) \/ \E s : TurnDispatch(k, s)
        BY <1>1, <2>1, <2>3, HandlersCalm DEF ScheduleStep
      <4> QED
        BY <1>1, <4>1, TurnIsFree DEF TurnPop, TurnDispatch, NextTurn
    <3> QED
      BY <1>1, <2>1, <3>1, <3>2, WireStarts
  <2> QED
    BY <2>2, <2>3
<1>4. CASE WriterWrites
  BY <1>1, <1>4, WireWritten
<1>5. CASE WriterReports
  <2>1. /\ wrote # 0 /\ wrote' = 0 /\ LinkSame
        /\ UpstreamWritten(wrote) \/ (failed /\ UNCHANGED vars)
    BY <1>5 DEF WriterReports, companionVars, LinkSame
  <2>2. CASE failed /\ UNCHANGED vars
    BY <2>2 DEF WireInv, vars
  <2>3. CASE UpstreamWritten(wrote)
    <3> SUFFICES ASSUME ~ failed'
                 PROVE  Aligned' /\ Answering' /\ Scoped'
      BY DEF WireInv
    <3>1. /\ ~ failed /\ outgoing' = outgoing /\ next_write' = next_write
          /\ active' = [active EXCEPT !.write =
                          IF AwaitsWrite(wrote) THEN 0 ELSE active.write]
      BY <1>1, <2>3, WrittenWire
    <3>2. Aligned /\ Answering /\ Scoped
      BY <3>1 DEF WireInv
    <3>3. outgoing # <<>> => ~ AwaitsWrite(wrote)
      BY <3>2 DEF Aligned, AwaitsWrite
    <3>4. active \in Transaction /\ next_write \in Nat
      BY <1>1 DEF TypeInv, TypeOK
    <3> QED
      BY <2>1, <3>1, <3>2, <3>3, <3>4, WireSame
  <2> QED
    BY <2>1, <2>2, <2>3
<1>6. CASE FrameArrives
  BY <1>1, <1>6, WireFrame
<1>7. CASE LinkFails
  <2>1. Fail(Now).failing /\ Commit(Fail(Now))
    BY <1>7 DEF LinkFails, UpstreamClosed, WriteFailed, CommitAndSchedule, Fail,
       Now
  <2> QED
    BY <2>1, CommitWire DEF WireInv
<1>8. CASE DrainDebt
  <2>1. DrainUncertainFrame(Head(replies).frame) /\ replies # <<>>
    BY <1>8 DEF DrainDebt
  <2>2. failed'
    BY <1>1, <2>1, NextFrame, DrainWire
  <2> QED
    BY <2>2 DEF WireInv
<1>9. CASE Reconnect
  <2>1. /\ failed /\ outgoing' = <<>> /\ active' = active
    BY <1>9 DEF Reconnect, Restart
  <2>2. received' = <<>> /\ replies' = <<>> /\ flood_scope' = DefaultScope
    BY <1>9 DEF Reconnect
  <2>3. active.step = "none"
    BY <1>1, <2>1 DEF Ended, Busy
  <2>4. Ordinary' = {}
    BY <2>2 DEF Ordinary
  <2> QED
    BY <2>1, <2>2, <2>3, <2>4 DEF WireInv, Aligned, Answering, Scoped, Busy
<1>10. CASE CompanionStep
  BY <1>1, <1>10, WireCompanion
<1> QED
  BY <1>2, <1>3, <1>4, <1>5, <1>6, <1>7, <1>8, <1>9, <1>10 DEF MuxNext

LEMMA WireInvariant == MuxSpec => [](BrokerInv /\ RoundInv /\ LinkType /\ WireInv)
<1>1. MuxInit => WireInv
  BY WireInit
<1>2. BrokerInv /\ RoundInv /\ LinkType /\ WireInv /\ [MuxNext]_muxVars
        => WireInv'
  <2>1. ASSUME WireInv, UNCHANGED muxVars
        PROVE  WireInv'
    <3>1. UNCHANGED <<failed, active, outgoing, next_write, received, replies,
                      flood_scope, wrote>>
      BY <2>1 DEF muxVars, vars, companionVars, linkVars
    <3>2. Ordinary' = Ordinary /\ (Confirmed' <=> Confirmed)
          /\ \A g : AnswersSelfTelemetry(g)' <=> AnswersSelfTelemetry(g)
      BY <3>1 DEF Ordinary, Confirmed, AnswersSelfTelemetry, Busy
    <3> QED
      BY <2>1, <3>1, <3>2
         DEF WireInv, Aligned, Answering, InPlace, Scoped, Busy
  <2> QED
    BY <2>1, WireStep
<1>3. MuxSpec => Spec /\ []LinkType
  BY MuxIsBroker
<1>4. Spec => [](BrokerInv /\ RoundInv)
  BY RoundInvariant
<1> QED
  BY <1>1, <1>2, <1>3, <1>4, PTL DEF MuxSpec

\* While the epoch lives, what is between the broker and the companion, the
\* command in the writer's queue or on the wire and the replies to it, belongs
\* to the last write of the running transaction.  send_upstream is reached only
\* when the reply that ends the previous write has been taken, so an ordinary
\* reply is never attributed to another command than the one that caused it.
THEOREM RepliesBelong == MuxSpec => []ReplyOwnership
<1>1. LinkType /\ WireInv => ReplyOwnership
  <2> SUFFICES ASSUME LinkType, Aligned, Answering
               PROVE  /\ OnTheWire \subseteq {next_write}
                      /\ OnTheWire # {} =>
                           active.step \in {"setup", "command", "restore"}
    BY DEF WireInv, ReplyOwnership
  <2>1. /\ \A i \in DOMAIN outgoing : outgoing # <<>> /\ outgoing[i].id = next_write
        /\ \A i \in DOMAIN received : received # <<>> /\ received[i].id = next_write
    BY DEF Aligned, Job
  <2>2. \A i \in DOMAIN replies :
          replies[i].id = 0 \/ (i \in Ordinary /\ replies[i].id = next_write)
    BY DEF Ordinary, Answering, InPlace
  <2> QED
    BY <2>1, <2>2 DEF OnTheWire, Aligned
<1> QED
  BY <1>1, WireInvariant, PTL

\* The response clock of a transaction never runs while its command waits for
\* the writer: upstream_written compares the id it is given with the one the
\* transaction waits for, so the late completion of an earlier write, of a scope
\* setup whose OK overtook it say, starts no clock.
THEOREM ClockAfterWrite == MuxSpec => []ClockStartsAfterWrite
<1>1. WireInv => ClockStartsAfterWrite
  BY DEF WireInv, Aligned, ClockStartsAfterWrite, ResponseClockRuns
<1> QED
  BY <1>1, WireInvariant, PTL

\* A command that floods is executed in the scope its own client selected: the
\* hidden setup precedes it, the hidden restoration follows it before anything
\* else is dispatched, and no client's own change of scope is forwarded.
THEOREM ScopesIsolated == MuxSpec => []ScopeIsolated
<1>1. WireInv => ScopeIsolated
  <2> SUFFICES ASSUME Aligned, Scoped, received # <<>>,
                      Head(received).command.op \in ScopeSend
               PROVE  flood_scope = Head(received).scope
    BY DEF WireInv, ScopeIsolated
  <2>1. /\ Head(received).command = WireCommand(active)
        /\ Head(received).scope = active.scope
        /\ active.step \in {"setup", "command", "restore"}
    BY DEF Aligned, Job
  <2>2. "set_flood_scope_key" \notin ScopeSend
    BY DEF ScopeSend, RemoteLease
  <2>3. active.step = "command" /\ active.command.op \in ScopeSend
    BY <2>1, <2>2 DEF WireCommand, SetScope
  <2> QED
    BY <2>1, <2>3 DEF Scoped
<1> QED
  BY <1>1, WireInvariant, PTL
-----------------------------------------------------------------------------
(* The one remote request                                                  *)

\* The result of a request, as opposed to the answer to a client that asks for
\* the companion's own telemetry.
IsResult(f) ==
  f.code \in DOMAIN RemotePushes /\ f # Frame("telemetry_response", SelfKey)

\* Where a remote request is, from its command in the writer's queue to its
\* result on the way to the broker, and whose it is.
Trace(at, i, owner) == [at |-> at, index |-> i, owner |-> owner]

Asking(queue) == {i \in DOMAIN queue : queue[i].command.op \in RemoteLease}
Asked(at, queue) == {Trace(at, i, queue[i].owner) : i \in Asking(queue)}
Underway == {Trace("requests", i, requests[i].owner) : i \in DOMAIN requests}
Reported ==
  {Trace("replies", i, replies[i].owner) :
     i \in {j \in DOMAIN replies : IsResult(replies[j].frame)}}
RemoteWork ==
  Asked("outgoing", outgoing) \cup Asked("received", received)
    \cup Underway \cup Reported

OneAtMost == \A v, w \in RemoteWork : v = w

\* The lease is held for it.
Leased ==
  \A w \in RemoteWork : remote.kind # "none" /\ remote.owner \in {0, w.owner}

Refusing == \E i \in DOMAIN replies : replies[i].frame.code = "err"

\* The transaction of the request: nothing is sent during its scope setup, and
\* nothing is outstanding when it is refused.
AsksOnce ==
  active.command.op \in RemoteLease =>
    /\ active.step = "setup" => RemoteWork = {}
    /\ UnderWay(active) => remote.owner \in {0, active.owner}
    /\ active.step = "command" /\ Refusing => RemoteWork = {}

\* The lease never waits for the companion's own telemetry.
PeerNamed == remote.kind = "send_telemetry_req" => remote.key # SelfKey

\* The inductive invariant of the remote request, while it has no deadline.
RemoteInv == OneAtMost /\ Leased /\ AsksOnce /\ PeerNamed

\* A step moves what there is, if it does not end it.
Moves ==
  /\ \A w \in RemoteWork' : \E v \in RemoteWork : v.owner = w.owner
  /\ OneAtMost'

LEMMA MovedOn ==
  ASSUME OneAtMost, NEW moved,
         \A w \in RemoteWork' :
           \E v \in RemoteWork : w = moved[v] /\ v.owner = w.owner
  PROVE  Moves
BY DEF OneAtMost, Moves

\* A step that leaves the request's transaction its job, or ends it.
LEMMA RemoteQuiet ==
  ASSUME RemoteInv, Moves, LeaseGoes, failed' => ~ Busy',
         \/ ~ UnderWay(active')
         \/ /\ active'.step = active.step /\ active'.owner = active.owner
            /\ active'.command = active.command,
         Refusing' /\ active'.step = "command"
           /\ active'.command.op \in RemoteLease => Refusing \/ RemoteWork' = {}
  PROVE  RemoteInv'
<1>1. RemoteWork' # {} => RemoteWork # {}
  BY DEF Moves
<1>2. CASE Follows(remote, remote')
  <2>1. Leased'
    BY <1>2 DEF RemoteInv, Leased, Moves, Follows
  <2>2. PeerNamed'
    BY <1>2 DEF RemoteInv, PeerNamed, Follows
  <2>3. AsksOnce'
    BY <1>1, <1>2 DEF RemoteInv, AsksOnce, Follows, UnderWay
  <2> QED
    BY <2>1, <2>2, <2>3 DEF RemoteInv, Moves
<1>3. CASE failed' /\ Withdrawn(active, remote')
  <2>1. RemoteWork' = {}
    BY <1>1, <1>3 DEF RemoteInv, AsksOnce, Withdrawn
  <2>2. ~ UnderWay(active')
    BY <1>3 DEF UnderWay, Busy
  <2>3. remote'.kind = "none"
    BY <1>3 DEF Withdrawn, NoRemote
  <2> QED
    BY <2>1, <2>2, <2>3 DEF RemoteInv, OneAtMost, Leased, AsksOnce, PeerNamed, UnderWay
<1> QED
  BY <1>2, <1>3 DEF LeaseGoes

\* A step that frees the lease when nothing is outstanding.
LEMMA RemoteFreed ==
  ASSUME RemoteWork' = {}, remote'.kind = "none", ReservationInFlight'
  PROVE  RemoteInv'
<1>1. active'.command.op \in RemoteLease => ~ UnderWay(active')
  BY DEF ReservationInFlight, UnderWay, RemoteLease
<1> QED
  BY <1>1 DEF RemoteInv, OneAtMost, Leased, AsksOnce, PeerNamed, UnderWay

\* What a queue's changes do to the requests in it.
LEMMA AskedTail ==
  ASSUME NEW q \in Seq(Write), q # <<>>, NEW at, NEW w \in Asked(at, Tail(q))
  PROVE  \E v \in Asked(at, q) :
           /\ v.index # 1 /\ v.owner = w.owner
           /\ w = Trace(at, v.index - 1, v.owner)
<1>1. PICK i \in Asking(Tail(q)) : w = Trace(at, i, Tail(q)[i].owner)
  BY DEF Asked
<1>2. i \in 1 .. Len(q) - 1 /\ i + 1 \in DOMAIN q /\ Tail(q)[i] = q[i + 1]
  BY <1>1 DEF Asking
<1>3. i + 1 \in Asking(q) /\ i + 1 # 1 /\ (i + 1) - 1 = i
  BY <1>1, <1>2 DEF Asking
<1> DEFINE v == Trace(at, i + 1, q[i + 1].owner)
<1>4. v \in Asked(at, q)
  BY <1>3 DEF Asked
<1>5. /\ v.index # 1 /\ v.owner = w.owner
      /\ w = Trace(at, v.index - 1, v.owner)
  BY <1>1, <1>2, <1>3 DEF Trace
<1> QED
  BY <1>4, <1>5

LEMMA AskedAppend ==
  ASSUME NEW q \in Seq(Write), NEW job, NEW at
  PROVE  Asked(at, Append(q, job))
           = Asked(at, q)
               \cup (IF job.command.op \in RemoteLease
                     THEN {Trace(at, Len(q) + 1, job.owner)} ELSE {})
<1> DEFINE p == Append(q, job)
           n == Len(q) + 1
<1>1. /\ DOMAIN p = DOMAIN q \cup {n} /\ n \notin DOMAIN q
      /\ p[n] = job /\ \A i \in DOMAIN q : p[i] = q[i]
  OBVIOUS
<1> HIDE DEF p, n
<1>2. Asking(p) = Asking(q) \cup
        (IF job.command.op \in RemoteLease THEN {n} ELSE {})
  BY <1>1 DEF Asking
<1>3. Asking(q) \subseteq DOMAIN q
  BY DEF Asking
<1>4. Asked(at, p) = Asked(at, q)
        \cup (IF job.command.op \in RemoteLease
              THEN {Trace(at, n, job.owner)} ELSE {})
  BY <1>1, <1>2, <1>3 DEF Asked
<1> QED
  BY <1>4 DEF p, n

\* Traces in different places, and those of one place.
LEMMA Places ==
  /\ \A w \in Asked("outgoing", outgoing) : w.at = "outgoing"
  /\ \A w \in Asked("received", received) : w.at = "received"
  /\ \A w \in Underway : w.at = "requests" /\ w.index \in DOMAIN requests
  /\ \A w \in Reported : w.at = "replies" /\ w.index \in DOMAIN replies
BY DEF Asked, Underway, Reported, Trace

\* No more than the first frame is taken from those on their way.
Taken == replies' = replies \/ (replies # <<>> /\ replies' = Tail(replies))

LEMMA ReportedTaken ==
  ASSUME CompanionType, Taken
  PROVE  /\ \E k \in {0, 1} :
              \A w \in Reported' :
                \E v \in Reported :
                  /\ w = Trace("replies", v.index - k, v.owner)
                  /\ v.owner = w.owner
                  /\ replies' = replies \/ v.index # 1
         /\ Refusing' => Refusing
<1>1. CASE replies' = replies
  <2>1. Reported' = Reported /\ (Refusing' <=> Refusing)
    BY <1>1 DEF Reported, Refusing
  <2>2. \A i \in DOMAIN replies : i \in Nat /\ i - 0 = i
    BY DEF CompanionType
  <2>3. \A w \in Reported : w = Trace("replies", w.index - 0, w.owner)
    BY <2>2 DEF Reported, Trace
  <2> QED
    BY <1>1, <2>1, <2>3
<1>2. CASE replies # <<>> /\ replies' = Tail(replies)
  <2>1. \A i \in DOMAIN replies' :
          /\ i + 1 \in DOMAIN replies /\ replies'[i] = replies[i + 1]
          /\ i \in Nat /\ i >= 1
    BY <1>2, TakenFrame DEF CompanionType
  <2>2. ASSUME NEW w \in Reported'
        PROVE  \E v \in Reported :
                 /\ w = Trace("replies", v.index - 1, v.owner)
                 /\ v.owner = w.owner /\ v.index # 1
    <3>1. PICK i \in DOMAIN replies' :
            IsResult(replies'[i].frame) /\ w = Trace("replies", i, replies'[i].owner)
      BY <2>2 DEF Reported
    <3> DEFINE v == Trace("replies", i + 1, replies[i + 1].owner)
    <3>2. v \in Reported
      BY <2>1, <3>1 DEF Reported
    <3>3. i \in Nat /\ i >= 1 /\ (i + 1) - 1 = i /\ i + 1 # 1
      BY <2>1
    <3>4. /\ w = Trace("replies", v.index - 1, v.owner)
          /\ v.owner = w.owner /\ v.index # 1
      BY <2>1, <3>1, <3>3 DEF Trace
    <3> QED
      BY <3>2, <3>4
  <2>3. Refusing' => Refusing
    BY <2>1 DEF Refusing
  <2> QED
    BY <2>2, <2>3
<1> QED
  BY <1>1, <1>2 DEF Taken

\* Everything else stays where it is.
LEMMA RemoteTaken ==
  ASSUME CompanionType, OneAtMost, Taken, UNCHANGED <<received, requests>>,
         Asked("outgoing", outgoing)' = Asked("outgoing", outgoing)
  PROVE  /\ Moves /\ (Refusing' => Refusing)
         /\ replies # <<>> /\ replies' = Tail(replies)
              /\ IsResult(Head(replies).frame) =>
              /\ RemoteWork' = {}
              /\ Trace("replies", 1, Head(replies).owner) \in RemoteWork
<1>1. PICK k \in {0, 1} :
        \A w \in Reported' :
          \E v \in Reported :
            /\ w = Trace("replies", v.index - k, v.owner)
            /\ v.owner = w.owner
            /\ replies' = replies \/ v.index # 1
  BY ReportedTaken
<1>2. /\ Asked("received", received)' = Asked("received", received)
      /\ Underway' = Underway
  BY DEF Asked, Asking, Underway
<1> DEFINE moved == [v \in RemoteWork |->
                       IF v.at = "replies"
                       THEN Trace("replies", v.index - k, v.owner) ELSE v]
<1>3. ASSUME NEW w \in RemoteWork'
      PROVE  \E v \in RemoteWork :
               /\ w = moved[v] /\ v.owner = w.owner
               /\ replies' = replies \/ ~ (v.at = "replies" /\ v.index = 1)
  <2>1. CASE w \in Reported'
    <3>1. PICK v \in Reported :
            /\ w = Trace("replies", v.index - k, v.owner)
            /\ v.owner = w.owner
            /\ replies' = replies \/ v.index # 1
      BY <1>1, <2>1
    <3>2. v \in RemoteWork /\ v.at = "replies"
      BY <3>1, Places DEF RemoteWork
    <3> QED
      BY <3>1, <3>2
  <2>2. CASE w \in Asked("outgoing", outgoing) \cup Asked("received", received)
                     \cup Underway
    <3>1. w \in RemoteWork /\ w.at # "replies"
      BY <2>2, Places DEF RemoteWork
    <3> QED
      BY <3>1
  <2> QED
    BY <1>2, <2>1, <2>2 DEF RemoteWork
<1>4. Moves
  <2> HIDE DEF moved
  <2> QED
    BY <1>3, MovedOn
<1>5. ASSUME replies # <<>>, replies' = Tail(replies),
             IsResult(Head(replies).frame)
      PROVE  /\ RemoteWork' = {}
             /\ Trace("replies", 1, Head(replies).owner) \in RemoteWork
  <2> DEFINE h == Trace("replies", 1, Head(replies).owner)
  <2>1. h \in RemoteWork /\ h.at = "replies" /\ h.index = 1
    <3>1. 1 \in DOMAIN replies /\ replies[1] = Head(replies)
      BY <1>5, TakenFrame DEF CompanionType
    <3>2. h \in Reported
      BY <1>5, <3>1 DEF Reported
    <3> QED
      BY <3>2 DEF RemoteWork, Trace
  <2>2. replies' # replies
    <3>1. replies \in Seq(Sending)
      BY DEF CompanionType
    <3> QED
      BY <1>5, <3>1
  <2> HIDE DEF h
  <2>3. \A w \in RemoteWork' : FALSE
    BY <1>3, <2>1, <2>2 DEF OneAtMost
  <2> QED
    BY <2>1, <2>3 DEF h
<1>6. Refusing' => Refusing
  BY ReportedTaken
<1> QED
  BY <1>4, <1>5, <1>6

\* The request enters the writer's queue when there is no other.
LEMMA RemoteSent ==
  ASSUME TypeInv, CompanionType, Taken, UNCHANGED <<received, requests>>,
         NEW job, outgoing' = Append(outgoing, job),
         job.command.op \in RemoteLease, RemoteWork = {}
  PROVE  RemoteWork' = {Trace("outgoing", Len(outgoing) + 1, job.owner)}
<1>1. outgoing \in Seq(Write)
  BY DEF TypeInv, TypeOK, Write
<1>2. /\ Asked("received", received)' = {} /\ Underway' = {}
      /\ Asked("outgoing", outgoing) = {} /\ Reported = {}
  BY DEF RemoteWork, Asked, Asking, Underway
<1>3. Reported' = {}
  BY <1>2, ReportedTaken
<1>4. Asked("outgoing", outgoing')
        = {Trace("outgoing", Len(outgoing) + 1, job.owner)}
  BY <1>1, <1>2, AskedAppend
<1>5. Asked("outgoing", outgoing)' = Asked("outgoing", outgoing')
  BY DEF Asked, Asking
<1> QED
  BY <1>2, <1>3, <1>4, <1>5 DEF RemoteWork

\* Any other command may enter it at any time.
LEMMA OtherSent ==
  ASSUME TypeInv, NEW job, job.command.op \notin RemoteLease,
         outgoing' = Append(outgoing, job)
  PROVE  Asked("outgoing", outgoing)' = Asked("outgoing", outgoing)
<1>1. outgoing \in Seq(Write)
  BY DEF TypeInv, TypeOK, Write
<1>2. Asked("outgoing", outgoing)' = Asked("outgoing", outgoing')
  BY DEF Asked, Asking
<1>3. Asked("outgoing", Append(outgoing, job))
        = Asked("outgoing", outgoing)
            \cup (IF job.command.op \in RemoteLease
                  THEN {Trace("outgoing", Len(outgoing) + 1, job.owner)} ELSE {})
  BY <1>1, AskedAppend, Zenon
<1>4. Asked("outgoing", Append(outgoing, job)) = Asked("outgoing", outgoing)
  BY <1>3
<1> QED
  BY <1>2, <1>4

\* No refusal is on its way while a command waits for the writer.
LEMMA NotRefused ==
  ASSUME WireInv', ~ failed', outgoing' # <<>>
  PROVE  ~ Refusing'
<1>1. \A i \in DOMAIN replies' : replies'[i].frame.code \in PushCodes
  BY DEF WireInv, Aligned, Answering, InPlace
<1>2. "err" \notin PushCodes
  BY DEF PushCodes, RemotePushes
<1> QED
  BY <1>1, <1>2 DEF Refusing

\* A step that sends no request, takes no result and leaves the transaction its
\* job or ends it.
LEMMA RemoteGoesOn ==
  ASSUME CompanionType, Ended', RemoteInv, Taken, LeaseGoes,
         UNCHANGED <<received, requests>>,
         Asked("outgoing", outgoing)' = Asked("outgoing", outgoing),
         \/ ~ UnderWay(active')
         \/ /\ active'.step = active.step /\ active'.owner = active.owner
            /\ active'.command = active.command
  PROVE  RemoteInv'
<1>1. Moves /\ (Refusing' => Refusing)
  BY RemoteTaken DEF RemoteInv
<1>2. failed' => ~ Busy'
  BY DEF Ended
<1> QED
  BY <1>1, <1>2, RemoteQuiet

LEMMA RemoteRests ==
  ASSUME CompanionType, Ended', RemoteInv, Taken, LeaseGoes, Rests,
         UNCHANGED <<received, requests>>
  PROVE  RemoteInv'
<1>1. Asked("outgoing", outgoing)' = Asked("outgoing", outgoing)
  BY DEF Rests, Asked, Asking
<1>2. ~ UnderWay(active') \/ active' = active
  BY DEF Rests, Ended, UnderWay, Busy
<1> QED
  BY <1>1, <1>2, RemoteGoesOn

\* The command of a request enters the writer's queue when there is no other,
\* and the lease is its owner's.
LEMMA RemoteAsked ==
  ASSUME TypeInv, CompanionType, Taken, UNCHANGED <<received, requests>>,
         RemoteInv, RemoteWork = {}, WireInv',
         NEW job, outgoing' = Append(outgoing, job),
         job.command.op \in RemoteLease,
         remote'.kind # "none", remote'.owner \in {0, job.owner}, PeerNamed',
         \/ ~ UnderWay(active')
         \/ ~ failed' /\ active'.step = "command" /\ active'.owner = job.owner
  PROVE  RemoteInv'
<1>1. RemoteWork' = {Trace("outgoing", Len(outgoing) + 1, job.owner)}
  BY RemoteSent
<1>2. OneAtMost' /\ Leased'
  BY <1>1 DEF OneAtMost, Leased, Trace
<1>3. outgoing' # <<>>
  <2>1. outgoing \in Seq(Write)
    BY DEF TypeInv, TypeOK, Write
  <2> QED
    BY <2>1
<1>4. AsksOnce'
  BY <1>3, NotRefused DEF AsksOnce, UnderWay
<1> QED
  BY <1>2, <1>4 DEF RemoteInv

\* The schedule loop dispatches a command.
LEMMA RemoteStarts ==
  ASSUME TypeInv, TypeInv', Ended', CompanionType, RemoteInv, WireInv', Starts,
         LinkSame, UNCHANGED requests,
         IF active'.command.op \in RemoteLease
         THEN /\ remote.kind = "none" /\ remote'.kind = active'.command.op
              /\ remote'.owner \in {0, active'.owner}
              /\ remote'.key = active'.command.arg
         ELSE Follows(remote, remote')
  PROVE  RemoteInv'
<1> DEFINE job == Job(next_write', active')
<1>1. /\ Taken /\ UNCHANGED <<received, requests>>
      /\ outgoing' = Append(outgoing, job)
      /\ active'.step \in {"setup", "command"}
  BY DEF Taken, LinkSame, Starts
<1>2. ~ failed'
  BY <1>1 DEF Ended, Busy
<1>3. /\ job.command = WireCommand(active')
      /\ active'.step = "setup" => job.command.op \notin RemoteLease
      /\ active'.step = "command" => job.command = active'.command
  BY DEF Job, WireCommand, SetScope, RemoteLease
<1> HIDE DEF job
<1>4. CASE active'.command.op \notin RemoteLease
  <2>1. Asked("outgoing", outgoing)' = Asked("outgoing", outgoing)
    BY <1>1, <1>3, <1>4, OtherSent
  <2>2. Moves
    BY <1>1, <2>1, RemoteTaken DEF RemoteInv
  <2>3. Leased' /\ PeerNamed'
    BY <1>4, <2>2 DEF RemoteInv, Leased, PeerNamed, Moves, Follows
  <2> QED
    BY <1>4, <2>2, <2>3 DEF RemoteInv, AsksOnce, Moves
<1>5. CASE active'.command.op \in RemoteLease
  <2>1. RemoteWork = {}
    BY <1>5 DEF RemoteInv, Leased
  <2>2. /\ remote'.kind # "none" /\ remote'.owner \in {0, active'.owner}
        /\ remote'.kind = active'.command.op /\ remote'.key = active'.command.arg
    BY <1>5 DEF RemoteLease
  <2>3. PeerNamed'
    <3>1. active'.command \in Commands
      <4>1. active' \in Transaction
        BY DEF TypeInv, TypeOK
      <4>2. active'.command \in Command
        BY <4>1 DEF Transaction
      <4> QED
        BY <1>5, <4>2 DEF Command, Sync, RemoteLease
    <3> QED
      BY <2>2, <3>1, MuxAssumption DEF PeerNamed
  <2>4. CASE active'.step = "command"
    <3>1. job.command.op \in RemoteLease /\ job.owner = active'.owner
      BY <1>3, <1>5, <2>4 DEF job, Job
    <3>2. outgoing' = Append(outgoing, job)
      BY <1>1 DEF job
    <3> QED
      BY <1>1, <1>2, <2>1, <2>2, <2>3, <2>4, <3>1, <3>2, RemoteAsked
  <2>5. CASE active'.step = "setup"
    <3>1. Asked("outgoing", outgoing)' = Asked("outgoing", outgoing)
      BY <1>1, <1>3, <2>5, OtherSent
    <3>2. Moves
      BY <1>1, <3>1, RemoteTaken DEF RemoteInv
    <3>3. RemoteWork' = {}
      BY <2>1, <3>2 DEF Moves
    <3> QED
      BY <2>2, <2>3, <3>3
         DEF RemoteInv, OneAtMost, Leased, AsksOnce, UnderWay
  <2> QED
    BY <1>1, <2>4, <2>5
<1> QED
  BY <1>4, <1>5

\* The writer puts a command on the wire.
LEMMA RemoteWritten ==
  ASSUME TypeInv, LinkType, Ended', RemoteInv, WriterWrites
  PROVE  RemoteInv'
<1>1. /\ outgoing # <<>> /\ outgoing' = Tail(outgoing)
      /\ received' = Append(received, Head(outgoing))
      /\ UNCHANGED <<active, failed, remote, replies, requests>>
  BY DEF WriterWrites, TakeWrite
<1>2. outgoing \in Seq(Write) /\ received \in Seq(Write)
  BY DEF TypeInv, TypeOK, Write, LinkType
<1> DEFINE n == Len(received) + 1
           moved == [v \in RemoteWork |->
                       IF v.at = "outgoing"
                       THEN IF v.index = 1 THEN Trace("received", n, v.owner)
                            ELSE Trace("outgoing", v.index - 1, v.owner)
                       ELSE v]
<1>3. /\ Asked("outgoing", outgoing)' = Asked("outgoing", Tail(outgoing))
      /\ Asked("received", received)'
           = Asked("received", Append(received, Head(outgoing)))
      /\ Underway' = Underway /\ Reported' = Reported
  BY <1>1 DEF Asked, Asking, Underway, Reported
<1>4. ASSUME NEW w \in RemoteWork'
      PROVE  \E v \in RemoteWork : w = moved[v] /\ v.owner = w.owner
  <2>1. CASE w \in Asked("outgoing", Tail(outgoing))
    <3>1. PICK v \in Asked("outgoing", outgoing) :
            /\ v.index # 1 /\ v.owner = w.owner
            /\ w = Trace("outgoing", v.index - 1, v.owner)
      BY <1>1, <1>2, <2>1, AskedTail
    <3>2. v \in RemoteWork /\ v.at = "outgoing"
      BY <3>1, Places DEF RemoteWork
    <3> QED
      BY <3>1, <3>2
  <2>2. CASE w = Trace("received", n, Head(outgoing).owner)
               /\ Head(outgoing).command.op \in RemoteLease
    <3> DEFINE v == Trace("outgoing", 1, Head(outgoing).owner)
    <3>1. 1 \in DOMAIN outgoing /\ outgoing[1] = Head(outgoing)
      BY <1>1, <1>2
    <3>2. v \in Asked("outgoing", outgoing)
      BY <2>2, <3>1 DEF Asked, Asking
    <3>3. v \in RemoteWork /\ v.at = "outgoing" /\ v.index = 1
          /\ v.owner = Head(outgoing).owner /\ w.owner = v.owner
      BY <2>2, <3>2 DEF RemoteWork, Trace
    <3> HIDE DEF v
    <3> QED
      BY <2>2, <3>3
  <2>3. CASE w \in Asked("received", received) \cup Underway \cup Reported
    <3>1. w \in RemoteWork /\ w.at # "outgoing"
      BY <2>3, Places DEF RemoteWork
    <3> QED
      BY <3>1
  <2>4. \/ w \in Asked("received", received)
        \/ /\ w = Trace("received", n, Head(outgoing).owner)
           /\ Head(outgoing).command.op \in RemoteLease
        \/ w \notin Asked("received", received)'
    <3>1. Asked("received", Append(received, Head(outgoing)))
            = Asked("received", received)
                \cup (IF Head(outgoing).command.op \in RemoteLease
                      THEN {Trace("received", n, Head(outgoing).owner)} ELSE {})
      BY <1>2, AskedAppend, Zenon
    <3> QED
      BY <1>3, <3>1
  <2> HIDE DEF moved, n
  <2> QED
    BY <1>3, <2>1, <2>2, <2>3, <2>4 DEF RemoteWork
<1>5. Moves
  <2> HIDE DEF moved
  <2> QED
    BY <1>4, MovedOn DEF RemoteInv
<1>6. LeaseGoes
  BY <1>1 DEF LeaseGoes, Follows
<1>7. /\ failed' => ~ Busy'
      /\ Refusing' => Refusing
  BY <1>1 DEF Ended, Refusing
<1> QED
  BY <1>1, <1>5, <1>6, <1>7, RemoteQuiet

\* A frame that answers a command is not a result, and is no refusal if the
\* command is executed.
LEMMA AnswersNoResult ==
  ASSUME NEW command, NEW answer \in Answers(command), NEW i \in DOMAIN answer
  PROVE  ~ IsResult(answer[i]) /\ answer[i].code # "err"
<1>1. ASSUME NEW code, code \notin PushCodes, NEW arg
      PROVE  ~ IsResult(Frame(code, arg))
  BY <1>1 DEF IsResult, PushCodes, Frame
<1>2. {"contacts_start", "contact", "end_of_contacts", "sent"}
        \cap PushCodes = {}
  BY DEF PushCodes, RemotePushes
<1>3. CASE command.op = "get_contacts"
  <2> DEFINE a == Frame("contacts_start", 0)
             b == Frame("contact", 0)
             c == Frame("end_of_contacts", 0)
  <2>1. answer = <<a, b, c>>
    BY <1>3 DEF Answers, RemoteLease
  <2>2. /\ ~ IsResult(a) /\ ~ IsResult(b) /\ ~ IsResult(c)
        /\ a.code # "err" /\ b.code # "err" /\ c.code # "err"
    BY <1>1, <1>2 DEF Frame
  <2> HIDE DEF a, b, c
  <2>3. /\ DOMAIN answer = 1 .. 3
        /\ answer[1] = a /\ answer[2] = b /\ answer[3] = c
    BY <2>1
  <2> QED
    BY <2>2, <2>3
<1>4. CASE command.op = "reboot"
  BY <1>4 DEF Answers, RemoteLease
<1>5. ASSUME NEW f, answer = <<f>>, ~ IsResult(f), f.code # "err"
      PROVE  ~ IsResult(answer[i]) /\ answer[i].code # "err"
  BY <1>5
<1>6. CASE command.op = "self_telemetry"
  <2> DEFINE f == Frame("telemetry_response", SelfKey)
  <2>1. answer = <<f>>
    BY <1>6 DEF Answers, RemoteLease
  <2>2. ~ IsResult(f) /\ f.code # "err"
    BY DEF IsResult, Frame
  <2> QED
    BY <1>5, <2>1, <2>2
<1>7. CASE command.op \in RemoteLease \cup {"send_txt_msg"}
  <2> DEFINE f == Frame("sent", Token)
  <2>1. answer = <<f>>
    BY <1>7 DEF Answers, RemoteLease
  <2>2. ~ IsResult(f) /\ f.code # "err"
    BY <1>1, <1>2 DEF Frame
  <2> QED
    BY <1>5, <2>1, <2>2
<1>8. CASE command.op \notin {"get_contacts", "reboot", "self_telemetry"}
                               \cup RemoteLease \cup {"send_txt_msg"}
  <2>1. PICK code \in SuccessCodes(command.op) :
          answer = <<Frame(code, IF code = "ok" THEN 0 ELSE command.arg)>>
    BY <1>8 DEF Answers
  <2> DEFINE f == Frame(code, IF code = "ok" THEN 0 ELSE command.arg)
  <2>2. code \notin PushCodes
    BY <1>8, <2>1, NoPushSucceeds
  <2>3. code # "err"
    BY <2>1 DEF SuccessCodes, ValueReply
  <2>4. ~ IsResult(f) /\ f.code # "err"
    BY <1>1, <2>2, <2>3 DEF Frame
  <2> QED
    BY <1>5, <2>1, <2>4
<1> QED
  BY <1>3, <1>4, <1>6, <1>7, <1>8

\* Frames that carry no result are sent behind those on their way.
LEMMA RepliesAdded ==
  ASSUME CompanionType, NEW more \in Seq(Sending), replies' = replies \o more,
         \A i \in DOMAIN more : ~ IsResult(more[i].frame)
  PROVE  /\ Reported' = Reported
         /\ Refusing' => Refusing \/ \E i \in DOMAIN more : more[i].frame.code = "err"
<1>1. /\ \A i \in DOMAIN replies' :
           \/ i \in DOMAIN replies /\ replies'[i] = replies[i]
           \/ /\ i - Len(replies) \in DOMAIN more
              /\ replies'[i] = more[i - Len(replies)]
      /\ \A i \in DOMAIN replies : i \in DOMAIN replies' /\ replies'[i] = replies[i]
  BY SentBehind
<1>2. \A i \in DOMAIN replies' :
        IsResult(replies'[i].frame)
          => i \in DOMAIN replies /\ replies'[i] = replies[i]
  BY <1>1
<1>3. {i \in DOMAIN replies' : IsResult(replies'[i].frame)}
        = {i \in DOMAIN replies : IsResult(replies[i].frame)}
  BY <1>1, <1>2
<1>4. Reported' = Reported
  BY <1>2, <1>3 DEF Reported
<1>5. Refusing' => Refusing \/ \E i \in DOMAIN more : more[i].frame.code = "err"
  BY <1>1 DEF Refusing
<1> QED
  BY <1>4, <1>5

\* The companion takes a command, and a request may become one it works on.
LEMMA RemoteReceived ==
  ASSUME CompanionType, OneAtMost, received # <<>>, received' = Tail(received),
         outgoing' = outgoing, Reported' = Reported,
         \/ requests' = requests
         \/ /\ Head(received).command.op \in RemoteLease
            /\ requests' = Append(requests, [command |-> Head(received).command,
                                             owner |-> Head(received).owner])
  PROVE  /\ Moves
         /\ Head(received).command.op \in RemoteLease /\ requests' = requests =>
              RemoteWork' = {}
<1> DEFINE n == Len(requests) + 1
           owner == Head(received).owner
           asks == Head(received).command.op \in RemoteLease
           h == Trace("received", 1, owner)
           moved == [v \in RemoteWork |->
                       IF v.at = "received"
                       THEN IF v.index = 1 THEN Trace("requests", n, v.owner)
                            ELSE Trace("received", v.index - 1, v.owner)
                       ELSE v]
<1>1. received \in Seq(Write) /\ requests \in Seq(Accepted)
  BY DEF CompanionType
<1>2. asks => h \in RemoteWork
  <2>1. 1 \in DOMAIN received /\ received[1] = Head(received)
    BY <1>1
  <2> QED
    BY <2>1 DEF RemoteWork, Asked, Asking
<1>3. h.at = "received" /\ h.index = 1 /\ h.owner = owner
  BY DEF Trace
<1>4. \A w \in Underway' :
        \/ w \in Underway
        \/ /\ requests' # requests /\ asks
           /\ w = Trace("requests", n, owner)
  <2>1. CASE requests' = requests
    BY <2>1 DEF Underway
  <2>2. CASE /\ asks
             /\ requests' = Append(requests, [command |-> Head(received).command,
                                              owner |-> owner])
    <3>1. /\ DOMAIN requests' = DOMAIN requests \cup {n} /\ n \notin DOMAIN requests
          /\ requests'[n].owner = owner
          /\ \A i \in DOMAIN requests : requests'[i] = requests[i]
      BY <1>1, <2>2
    <3>2. requests' # requests
      BY <3>1
    <3> HIDE DEF n, owner, asks
    <3> QED
      BY <2>2, <3>1, <3>2 DEF Underway
  <2> QED
    BY <2>1, <2>2
<1>5. /\ Asked("outgoing", outgoing)' = Asked("outgoing", outgoing)
      /\ Asked("received", received)' = Asked("received", Tail(received))
  BY DEF Asked, Asking
<1> HIDE DEF n, owner, asks, h
<1>6. ASSUME NEW w \in RemoteWork'
      PROVE  \E v \in RemoteWork :
               /\ w = moved[v] /\ v.owner = w.owner
               /\ requests' = requests => ~ (v.at = "received" /\ v.index = 1)
  <2>1. CASE w \in Asked("received", Tail(received))
    <3>1. PICK v \in Asked("received", received) :
            /\ v.index # 1 /\ v.owner = w.owner
            /\ w = Trace("received", v.index - 1, v.owner)
      BY <1>1, <2>1, AskedTail
    <3>2. v \in RemoteWork /\ v.at = "received"
      BY <3>1, Places DEF RemoteWork
    <3> QED
      BY <3>1, <3>2
  <2>2. CASE requests' # requests /\ asks /\ w = Trace("requests", n, owner)
    <3>1. w.owner = owner
      BY <2>2 DEF Trace
    <3> QED
      BY <1>2, <1>3, <2>2, <3>1
  <2>3. CASE w \in Asked("outgoing", outgoing) \cup Underway \cup Reported
    <3>1. w \in RemoteWork /\ w.at # "received"
      BY <2>3, Places DEF RemoteWork
    <3> QED
      BY <3>1
  <2> HIDE DEF moved
  <2> QED
    BY <1>4, <1>5, <2>1, <2>2, <2>3 DEF RemoteWork
<1>7. Moves
  <2> HIDE DEF moved
  <2> QED
    BY <1>6, MovedOn
<1>8. ASSUME asks, requests' = requests
      PROVE  RemoteWork' = {}
  <2>1. \A w \in RemoteWork' : FALSE
    BY <1>2, <1>3, <1>6, <1>8 DEF OneAtMost
  <2> QED
    BY <2>1
<1> QED
  BY <1>7, <1>8 DEF asks

\* A queue without its i-th entry.
Cut(q, i) == SubSeq(q, 1, i - 1) \o SubSeq(q, i + 1, Len(q))

LEMMA Joined ==
  ASSUME NEW S, NEW p \in Seq(S), NEW q \in Seq(S), NEW j \in DOMAIN (p \o q)
  PROVE  /\ j \in Nat
         /\ \/ j \in DOMAIN p /\ j <= Len(p) /\ (p \o q)[j] = p[j]
            \/ /\ j > Len(p) /\ j - Len(p) \in DOMAIN q
               /\ (p \o q)[j] = q[j - Len(p)]
OBVIOUS

LEMMA Shifts ==
  ASSUME NEW i \in Nat, NEW j \in Nat, NEW n, n = i - 1
  PROVE  /\ j > n => i + (j - n) = j + 1 /\ j >= i
         /\ j <= n => j < i
OBVIOUS

LEMMA EntryGone ==
  ASSUME NEW S, NEW q \in Seq(S), NEW i \in DOMAIN q, NEW j \in DOMAIN Cut(q, i)
  PROVE  /\ j \in Nat /\ i \in Nat
         /\ \/ j < i /\ j \in DOMAIN q /\ Cut(q, i)[j] = q[j]
            \/ /\ j >= i /\ j + 1 \in DOMAIN q /\ Cut(q, i)[j] = q[j + 1]
<1> DEFINE front == SubSeq(q, 1, i - 1)
           back == SubSeq(q, i + 1, Len(q))
           m == Len(front)
<1>1. /\ front \in Seq(S) /\ back \in Seq(S)
      /\ m = i - 1
      /\ \A k \in DOMAIN front : k \in DOMAIN q /\ front[k] = q[k]
      /\ \A k \in DOMAIN back : i + k \in DOMAIN q /\ back[k] = q[i + k]
  BY EntryRemoved
<1>2. Cut(q, i) = front \o back
  BY DEF Cut
<1>3. i \in Nat
  OBVIOUS
<1> HIDE DEF front, back
<1>4. /\ j \in Nat
      /\ \/ j \in DOMAIN front /\ j <= m /\ (front \o back)[j] = front[j]
         \/ /\ j > m /\ j - m \in DOMAIN back
            /\ (front \o back)[j] = back[j - m]
  BY <1>1, <1>2, Joined
<1> HIDE DEF m
<1>5. /\ j > m => i + (j - m) = j + 1 /\ j >= i
      /\ j <= m => j < i
  <2>1. j \in Nat /\ m = i - 1
    BY <1>1, <1>4
  <2> QED
    BY <1>3, <2>1, Shifts
<1>6. CASE j \in DOMAIN front /\ j <= m /\ (front \o back)[j] = front[j]
  BY <1>1, <1>2, <1>3, <1>4, <1>5, <1>6
<1>7. CASE /\ j > m /\ j - m \in DOMAIN back
           /\ (front \o back)[j] = back[j - m]
  BY <1>1, <1>2, <1>3, <1>4, <1>5, <1>7
<1> QED
  BY <1>4, <1>6, <1>7

\* The companion's push f about a request of owner's, if somebody is connected.
Announces(owner, f) ==
  replies' = replies \/ replies' = replies \o Announce(owner, f)

\* The result of a request sets out.
LEMMA RemoteReported ==
  ASSUME CompanionType, OneAtMost, NEW i \in DOMAIN requests,
         requests' = Cut(requests, i), NEW f \in SentFrames,
         Announces(requests[i].owner, f), outgoing' = outgoing, received' = received
  PROVE  Moves
<1> DEFINE owner == requests[i].owner
           n == Len(replies) + 1
           moved == [v \in RemoteWork |->
                       CASE v.at = "requests" /\ v.index = i ->
                              Trace("replies", n, v.owner)
                         [] v.at = "requests" /\ v.index > i ->
                              Trace("requests", v.index - 1, v.owner)
                         [] OTHER -> v]
           h == Trace("requests", i, owner)
<1>1. /\ requests \in Seq(Accepted) /\ replies \in Seq(Sending)
      /\ i \in 1 .. Len(requests) /\ Len(requests) \in Nat /\ owner \in Nat
  <2>1. requests \in Seq(Accepted) /\ replies \in Seq(Sending)
    BY DEF CompanionType
  <2>2. requests[i] \in Accepted /\ i \in 1 .. Len(requests)
    BY <2>1
  <2> QED
    BY <2>1, <2>2 DEF Accepted
<1>2. ASSUME NEW j \in DOMAIN requests'
      PROVE  /\ j \in Nat
             /\ \/ j < i /\ j \in DOMAIN requests /\ requests'[j] = requests[j]
                \/ /\ j >= i /\ j + 1 \in DOMAIN requests
                   /\ requests'[j] = requests[j + 1]
  BY <1>1, <1>2, EntryGone
<1>3. h \in RemoteWork /\ h.at = "requests" /\ h.index = i /\ h.owner = owner
  BY DEF RemoteWork, Underway, Trace
<1>4. ASSUME NEW w \in Underway'
      PROVE  \E v \in RemoteWork : w = moved[v] /\ v.owner = w.owner
  <2>1. PICK j \in DOMAIN requests' : w = Trace("requests", j, requests'[j].owner)
    BY <1>4 DEF Underway
  <2>2. CASE j < i /\ j \in DOMAIN requests /\ requests'[j] = requests[j]
    <3>1. w \in RemoteWork /\ w.at = "requests" /\ w.index = j
      BY <2>1, <2>2 DEF RemoteWork, Underway, Trace
    <3>2. j \in Nat /\ i \in Nat /\ ~ j > i /\ j # i
      BY <1>1, <1>2, <2>2
    <3> QED
      BY <2>2, <3>1, <3>2
  <2>3. CASE /\ j >= i /\ j + 1 \in DOMAIN requests
             /\ requests'[j] = requests[j + 1]
    <3> DEFINE v == Trace("requests", j + 1, requests[j + 1].owner)
    <3>1. v \in RemoteWork
      BY <2>3 DEF RemoteWork, Underway
    <3>2. v.at = "requests" /\ v.index = j + 1 /\ v.owner = requests[j + 1].owner
          /\ w.owner = v.owner
      BY <2>1, <2>3 DEF Trace
    <3>3. j \in Nat /\ (j + 1) - 1 = j /\ j + 1 > i /\ j + 1 # i
      BY <1>1, <1>2, <2>3
    <3> HIDE DEF v
    <3>4. moved[v] = Trace("requests", j, v.owner)
      BY <3>1, <3>2, <3>3
    <3> QED
      BY <2>1, <2>3, <3>1, <3>2, <3>4
  <2> HIDE DEF moved
  <2> QED
    BY <1>2, <2>2, <2>3
<1>5. ASSUME NEW w \in Reported'
      PROVE  w \in Reported \/ w = Trace("replies", n, owner)
  <2>1. CASE replies' = replies
    BY <1>5, <2>1 DEF Reported
  <2>2. CASE replies' = replies \o Announce(owner, f)
    <3> DEFINE sending == [id |-> 0, owner |-> owner, frame |-> f]
    <3>1. /\ DOMAIN replies' = DOMAIN replies \cup {n}
          /\ \A k \in DOMAIN replies : replies'[k] = replies[k]
          /\ replies'[n] = sending
      <4>1. replies' = Append(replies, sending)
        BY <1>1, <2>2 DEF Announce
      <4> HIDE DEF sending
      <4> QED
        BY <1>1, <4>1
    <3>2. PICK k \in DOMAIN replies' :
            /\ IsResult(replies'[k].frame)
            /\ w = Trace("replies", k, replies'[k].owner)
      BY <1>5 DEF Reported
    <3> HIDE DEF n, owner
    <3> QED
      BY <3>1, <3>2 DEF Reported
  <2> QED
    BY <2>1, <2>2 DEF Announces
<1>6. Asked("outgoing", outgoing)' = Asked("outgoing", outgoing)
      /\ Asked("received", received)' = Asked("received", received)
  BY DEF Asked, Asking
<1>7. ASSUME NEW w \in RemoteWork'
      PROVE  \E v \in RemoteWork : w = moved[v] /\ v.owner = w.owner
  <2>1. CASE w = Trace("replies", n, owner)
    <3>1. w.owner = owner
      BY <2>1 DEF Trace
    <3> HIDE DEF n, owner, h
    <3>2. moved[h] = Trace("replies", n, h.owner)
      BY <1>1, <1>3
    <3> HIDE DEF moved
    <3> QED
      BY <1>3, <2>1, <3>1, <3>2
  <2>2. CASE w \in Asked("outgoing", outgoing) \cup Asked("received", received)
                     \cup Reported
    <3>1. w \in RemoteWork /\ w.at # "requests"
      BY <2>2, Places DEF RemoteWork
    <3> QED
      BY <3>1
  <2> HIDE DEF moved
  <2> QED
    BY <1>4, <1>5, <1>6, <2>1, <2>2 DEF RemoteWork
<1> QED
  <2> HIDE DEF moved
  <2> QED
    BY <1>7, MovedOn

LEMMA RemoteCompanion ==
  ASSUME CompanionType, Ended', WireInv, RemoteInv, CompanionStep
  PROVE  RemoteInv'
<1>1. UNCHANGED <<outgoing, active, failed, remote, next_write>>
  BY DEF CompanionStep, vars
<1>2. /\ LeaseGoes /\ (failed' => ~ Busy')
      /\ active'.step = active.step /\ active'.owner = active.owner
      /\ active'.command = active.command
  BY <1>1 DEF LeaseGoes, Follows, Ended
<1>3. ASSUME Moves,
             Refusing' /\ active'.step = "command"
               /\ active'.command.op \in RemoteLease => Refusing \/ RemoteWork' = {}
      PROVE  RemoteInv'
  BY <1>2, <1>3, RemoteQuiet
<1>4. ASSUME NEW f, f \in SentFrames, ~ IsResult(f), received # <<>>,
             replies' = replies \o Answer(Head(received), <<f>>)
      PROVE  /\ Reported' = Reported
             /\ f.code # "err" => (Refusing' => Refusing)
  <2> DEFINE more == Answer(Head(received), <<f>>)
  <2>1. Head(received) \in Write /\ <<f>> \in Seq(SentFrames)
    BY <1>4, FirstAndOthers DEF CompanionType
  <2>2. /\ more \in Seq(Sending)
        /\ \A i \in DOMAIN more : more[i].frame = f
    <3>1. more \in Seq(Sending) /\ Len(more) = 1
      BY <2>1, AnswerType
    <3>2. more[1].frame = f
      BY DEF Answer
    <3> QED
      BY <3>1, <3>2
  <2>3. replies' = replies \o more
    BY <1>4
  <2> HIDE DEF more
  <2> QED
    BY <1>4, <2>2, <2>3, RepliesAdded
<1>5. ASSUME received # <<>>, received' = Tail(received), Reported' = Reported,
             \/ requests' = requests
             \/ /\ Head(received).command.op \in RemoteLease
                /\ requests' = Append(requests,
                                      [command |-> Head(received).command,
                                       owner |-> Head(received).owner])
      PROVE  /\ Moves
             /\ Head(received).command.op \in RemoteLease /\ requests' = requests =>
                  RemoteWork' = {}
  BY <1>1, <1>5, RemoteReceived DEF RemoteInv
<1>6. CASE ExecutePop
  <2>1. /\ received # <<>> /\ received' = Tail(received) /\ requests' = requests
        /\ \E f \in SentFrames :
             /\ f.code \in {"no_more_messages", "message"}
             /\ replies' = replies \o Answer(Head(received), <<f>>)
    <3>1. CASE physical = <<>>
      BY <1>6, <3>1, FramesMade DEF ExecutePop, Frame
    <3>2. CASE physical # <<>>
      <4>1. Head(physical) \in 1 .. MaxArrivals
        BY <3>2, FirstAndOthers DEF CompanionType
      <4>2. Frame("message", Head(physical)) \in SentFrames
        BY <4>1, FramesMade
      <4> QED
        BY <1>6, <3>2, <4>2 DEF ExecutePop, Frame
    <3> QED
      BY <3>1, <3>2
  <2>2. {"no_more_messages", "message"} \cap DOMAIN RemotePushes = {}
    BY DEF RemotePushes
  <2>3. Reported' = Reported /\ (Refusing' => Refusing)
    BY <1>4, <2>1, <2>2 DEF IsResult
  <2> QED
    BY <1>3, <1>5, <2>1, <2>3
<1>7. CASE Execute
  <2> DEFINE job == Head(received)
             command == job.command
  <2>1. /\ received # <<>> /\ received' = Tail(received) /\ command # Sync
        /\ \/ requests' = requests
           \/ /\ command.op \in RemoteLease
              /\ requests' = Append(requests, [command |-> command,
                                               owner |-> job.owner])
    BY <1>7 DEF Execute
  <2>2. PICK answer \in Answers(command) :
          replies' = replies \o Answer(job, answer)
    BY <1>7 DEF Execute
  <2>3. job \in Write /\ command \in Command
    <3>1. job \in Write
      BY <2>1, FirstAndOthers DEF CompanionType
    <3> QED
      BY <3>1 DEF Write
  <2> DEFINE more == Answer(job, answer)
  <2>4. answer \in Seq(SentFrames)
    <3>1. command.op # "none"
      BY <2>2, NothingAnswersNone
    <3> HIDE DEF command
    <3> QED
      BY <2>1, <2>2, <2>3, <3>1, AnswersMade
  <2>5. /\ more \in Seq(Sending)
        /\ \A i \in DOMAIN more : i \in DOMAIN answer /\ more[i].frame = answer[i]
    <3> HIDE DEF job
    <3>1. more \in Seq(Sending)
      BY <2>3, <2>4, AnswerType
    <3> QED
      BY <2>4, <3>1 DEF Answer
  <2>6. \A i \in DOMAIN more :
          ~ IsResult(more[i].frame) /\ more[i].frame.code # "err"
    BY <2>2, <2>5, AnswersNoResult
  <2>7. replies' = replies \o more
    BY <2>2
  <2> HIDE DEF more
  <2>8. Reported' = Reported /\ (Refusing' => Refusing)
    BY <2>5, <2>6, <2>7, RepliesAdded
  <2> QED
    BY <1>3, <1>5, <2>1, <2>8
<1>8. CASE Refuse
  <2>1. PICK reason \in {1, ErrBadState} :
          replies' = replies \o Answer(Head(received), <<Frame("err", reason)>>)
    BY <1>8 DEF Refuse
  <2>2. received # <<>> /\ received' = Tail(received) /\ requests' = requests
    BY <1>8 DEF Refuse
  <2>3. Frame("err", reason) \in SentFrames /\ ~ IsResult(Frame("err", reason))
    BY FramesMade DEF IsResult, Frame, RemotePushes
  <2>4. Reported' = Reported
    BY <1>4, <2>1, <2>2, <2>3
  <2>5. ASSUME active.step = "command", active.command.op \in RemoteLease
        PROVE  RemoteWork' = {}
    <3>1. ~ failed
      BY <1>1, <2>5 DEF Ended, Busy
    <3>2. Head(received) = Job(next_write, active)
      BY <2>2, <3>1 DEF WireInv, Aligned
    <3>3. Head(received).command = active.command
      BY <2>5, <3>2 DEF Job, WireCommand
    <3> QED
      BY <1>5, <2>2, <2>4, <2>5, <3>3
  <2> QED
    BY <1>1, <1>3, <1>5, <2>2, <2>4, <2>5
<1>9. CASE Arrive(usable)
  <2> DEFINE f == Frame("msg_waiting", 0)
             more == Announce(0, f)
  <2>1. /\ replies' = replies \/ replies' = replies \o more
        /\ UNCHANGED <<received, requests>>
    BY <1>9 DEF Arrive
  <2>2. /\ more \in Seq(Sending)
        /\ \A i \in DOMAIN more :
             ~ IsResult(more[i].frame) /\ more[i].frame.code # "err"
    <3>1. f \in SentFrames
      BY FramesMade
    <3>2. ~ IsResult(f) /\ f.code # "err"
      BY DEF IsResult, Frame, RemotePushes
    <3> HIDE DEF f
    <3> QED
      BY <3>1, <3>2, AnnounceType DEF Announce
  <2> HIDE DEF more
  <2>3. Reported' = Reported /\ (Refusing' => Refusing)
    <3>1. CASE replies' = replies
      BY <3>1 DEF Reported, Refusing
    <3> QED
      BY <2>1, <2>2, <3>1, RepliesAdded
  <2>4. RemoteWork' = RemoteWork
    BY <1>1, <2>1, <2>3 DEF RemoteWork, Asked, Asking, Underway
  <2>5. Moves
    BY <2>4 DEF Moves, RemoteInv, OneAtMost
  <2> QED
    BY <1>3, <2>3, <2>5
<1>10. CASE Report(usable)
  <2>1. PICK i \in DOMAIN requests, code \in DOMAIN RemotePushes :
          LET command == requests[i].command
              key == IF code = "binary_response" THEN Token ELSE command.arg
          IN /\ requests' = Cut(requests, i) /\ received' = received
             /\ Announces(requests[i].owner, Frame(code, key))
    BY <1>10 DEF Report, Cut, Announces
  <2> DEFINE key == IF code = "binary_response" THEN Token
                    ELSE requests[i].command.arg
             f == Frame(code, key)
  <2>2. requests[i].command \in Commands /\ requests[i].owner \in Nat
    <3>1. requests[i] \in Accepted
      BY DEF CompanionType
    <3> QED
      BY <3>1 DEF Accepted
  <2>3. f \in SentFrames /\ f.code # "err"
    BY <2>2, FramesMade DEF Frame, RemotePushes
  <2>4. Announces(requests[i].owner, f)
    BY <2>1
  <2> HIDE DEF f
  <2>5. Moves
    BY <1>1, <2>1, <2>3, <2>4, RemoteReported DEF RemoteInv
  <2>6. Refusing' => Refusing
    <3> DEFINE more == Announce(requests[i].owner, f)
    <3>1. /\ more \in Seq(Sending)
          /\ \A j \in DOMAIN more : more[j].frame = f
      BY <2>2, <2>3, AnnounceType DEF Announce
    <3>2. replies' = replies \/ replies' = replies \o more
      BY <2>4 DEF Announces
    <3> HIDE DEF more
    <3>3. CASE replies' = replies \o more
      <4>1. \A j \in DOMAIN replies' :
              \/ j \in DOMAIN replies /\ replies'[j] = replies[j]
              \/ replies'[j] \in {more[k] : k \in DOMAIN more}
        BY <3>1, <3>3, SentBehind
      <4> QED
        BY <2>3, <3>1, <4>1 DEF Refusing
    <3> QED
      BY <3>2, <3>3 DEF Refusing
  <2> QED
    BY <1>3, <2>5, <2>6
<1> QED
  BY <1>6, <1>7, <1>8, <1>9, <1>10 DEF CompanionStep

\* The reservation of a running request, before and after a step.
LEMMA ReservationHolds == BrokerInv => ReservationInFlight
BY NowSound
   DEF BrokerInv, TransactionInv, Sound, LeaseIn, UnderWay, ReservationInFlight

LEMMA ReservationKept == BrokerInv' => ReservationInFlight'
BY ReservationHolds, PTL

\* The reply to a write that another step sends, or that sends none, keeps the
\* request where it is.
LEMMA RemoteNext ==
  ASSUME TypeInv, CompanionType, Ended', BrokerInv, RemoteInv, WireInv',
         Taken, UNCHANGED <<received, requests>>,
         NEW f, NEW x, Responds(WriteIsOver, x, f),
         outgoing' = x.outgoing,
         active' = x.active \/ (failed' /\ active' = NoTransaction),
         Follows(remote, remote')
  PROVE  RemoteInv'
<1>1. /\ WriteIsOver.active.step = active.step
      /\ WriteIsOver.active.command = active.command
      /\ WriteIsOver.active.owner = active.owner
      /\ WriteIsOver.active.scoped = active.scoped
      /\ WriteIsOver.outgoing = outgoing
      /\ WriteIsOver.active \in Transaction
  BY DEF WriteIsOver, Now, TypeInv, TypeOK, Transaction
<1> DEFINE tx == WriteIsOver.active
<1>2. \A step \in Steps : \A n :
        LET y == [tx EXCEPT !.step = step, !.write = n]
        IN /\ y.step = step /\ y.command = active.command
           /\ y.owner = active.owner
  BY <1>1 DEF Transaction
<1>3. LeaseGoes /\ "command" \in Steps /\ "restore" \in Steps
  BY DEF LeaseGoes, Steps
<1>4. \/ NoWrite(WriteIsOver, x)
      \/ /\ Issues(WriteIsOver, x) /\ tx.step = "setup" /\ f.code = "ok"
         /\ x.active = [tx EXCEPT !.step = "command",
                                  !.write = WriteIsOver.next_write + 1]
      \/ /\ Issues(WriteIsOver, x)
         /\ x.active = [tx EXCEPT !.step = "restore",
                                  !.write = WriteIsOver.next_write + 1]
  BY DEF Responds
<1>5. ASSUME ~ UnderWay(active'),
             Asked("outgoing", outgoing)' = Asked("outgoing", outgoing)
      PROVE  RemoteInv'
  BY <1>3, <1>5, RemoteGoesOn
<1>6. UnderWay(active') => active' = x.active
  BY DEF UnderWay, NoTransaction
<1>7. CASE NoWrite(WriteIsOver, x)
  <2>1. outgoing' = outgoing
    BY <1>1, <1>7 DEF NoWrite
  <2>2. Asked("outgoing", outgoing)' = Asked("outgoing", outgoing)
    BY <2>1 DEF Asked, Asking
  <2>3. \/ ~ UnderWay(x.active)
        \/ /\ x.active.step = active.step /\ x.active.owner = active.owner
           /\ x.active.command = active.command
    <3>1. \/ x.active = NoTransaction
          \/ x.active = [tx EXCEPT !.contacts_started = TRUE]
          \/ x.active = [tx EXCEPT !.step = "result"]
          \/ Issues(WriteIsOver, x)
      BY DEF Responds
    <3>2. Issues(WriteIsOver, x) => FALSE
      <4>1. outgoing \in Seq(Write)
        BY DEF TypeInv, TypeOK, Write
      <4>2. \A job : outgoing # Append(outgoing, job)
        BY <4>1
      <4> QED
        BY <1>1, <1>7, <4>2 DEF NoWrite, Issues
    <3>3. LET y == [tx EXCEPT !.contacts_started = TRUE]
          IN /\ y.step = active.step /\ y.owner = active.owner
             /\ y.command = active.command
      BY <1>1 DEF Transaction
    <3>4. [tx EXCEPT !.step = "result"].step = "result"
      BY <1>1 DEF Transaction
    <3>5. NoTransaction.step = "none"
      BY DEF NoTransaction
    <3> HIDE DEF tx
    <3> QED
      BY <3>1, <3>2, <3>3, <3>4, <3>5 DEF UnderWay
  <2> QED
    BY <1>3, <1>6, <2>2, <2>3, RemoteGoesOn
<1>8. CASE /\ Issues(WriteIsOver, x) /\ tx.step = "setup"
           /\ x.active = [tx EXCEPT !.step = "command",
                                    !.write = WriteIsOver.next_write + 1]
  <2> DEFINE job == Job(x.next_write, x.active)
  <2>1. /\ x.active.step = "command" /\ x.active.command = active.command
        /\ x.active.owner = active.owner /\ active.step = "setup"
    BY <1>1, <1>2, <1>3, <1>8
  <2>2. /\ outgoing' = Append(outgoing, job)
        /\ job.command = active.command /\ job.owner = active.owner
    BY <1>1, <1>8, <2>1 DEF Issues, Job, WireCommand
  <2> HIDE DEF job
  <2>3. CASE active.command.op \in RemoteLease
    <3>1. RemoteWork = {} /\ remote.owner \in {0, active.owner}
      BY <2>1, <2>3 DEF RemoteInv, AsksOnce, UnderWay
    <3>2. remote.kind # "none"
      <4>1. ReservationInFlight
        BY ReservationHolds
      <4> QED
        BY <2>1, <2>3, <4>1 DEF ReservationInFlight, RemoteLease
    <3>3. /\ remote'.kind # "none" /\ remote'.owner \in {0, job.owner}
          /\ PeerNamed'
      BY <2>2, <3>1, <3>2 DEF Follows, RemoteInv, PeerNamed
    <3>4. \/ ~ UnderWay(active')
          \/ ~ failed' /\ active'.step = "command" /\ active'.owner = job.owner
      <4>1. ASSUME UnderWay(active')
            PROVE  /\ ~ failed' /\ active'.step = "command"
                   /\ active'.owner = job.owner
        <5>1. ~ failed'
          BY <4>1 DEF Ended, Busy, UnderWay
        <5> QED
          BY <1>6, <2>1, <2>2, <4>1, <5>1
      <4> QED
        BY <4>1
    <3>5. job.command.op \in RemoteLease
      BY <2>2, <2>3
    <3> QED
      BY <2>2, <3>1, <3>3, <3>4, <3>5, RemoteAsked
  <2>4. CASE active.command.op \notin RemoteLease
    <3>1. Asked("outgoing", outgoing)' = Asked("outgoing", outgoing)
      BY <2>2, <2>4, OtherSent
    <3>2. CASE ~ UnderWay(active')
      BY <1>5, <3>1, <3>2
    <3>3. CASE UnderWay(active')
      <4>1. active'.command.op \notin RemoteLease
        BY <1>6, <2>1, <2>4, <3>3
      <4>2. Moves
        BY <3>1, RemoteTaken DEF RemoteInv
      <4>3. Leased' /\ PeerNamed'
        BY <4>2 DEF RemoteInv, Leased, PeerNamed, Moves, Follows
      <4> QED
        BY <4>1, <4>2, <4>3 DEF RemoteInv, AsksOnce, Moves
    <3> QED
      BY <3>2, <3>3
  <2> QED
    BY <2>3, <2>4
<1>9. CASE /\ Issues(WriteIsOver, x)
           /\ x.active = [tx EXCEPT !.step = "restore",
                                    !.write = WriteIsOver.next_write + 1]
  <2> DEFINE job == Job(x.next_write, x.active)
  <2>1. x.active.step = "restore"
    BY <1>2, <1>3, <1>9
  <2>2. /\ outgoing' = Append(outgoing, job)
        /\ job.command.op \notin RemoteLease
    BY <1>1, <1>9, <2>1 DEF Issues, Job, WireCommand, SetScope, RemoteLease
  <2> HIDE DEF job
  <2>3. Asked("outgoing", outgoing)' = Asked("outgoing", outgoing)
    BY <2>2, OtherSent
  <2>4. ~ UnderWay(active')
    BY <1>6, <2>1 DEF UnderWay
  <2> QED
    BY <1>5, <2>3, <2>4
<1> QED
  BY <1>4, <1>7, <1>8, <1>9

\* A frame reaches the coordinator.
LEMMA RemoteFrame ==
  ASSUME "remote" \notin Deadlines, BrokerInv, BrokerInv', LinkType,
         WireInv, WireInv', RemoteInv, FrameArrives
  PROVE  RemoteInv'
<1> DEFINE f == Head(replies).frame
<1>1. /\ replies # <<>> /\ replies' = Tail(replies)
      /\ UNCHANGED <<received, requests>>
      /\ UpstreamFrame(f) \/ LateUpstreamFrame
  BY DEF FrameArrives
<1>2. TypeInv /\ Ended' /\ CompanionType /\ Taken
  BY <1>1, LinkParts DEF BrokerInv, Taken
<1>3. f \in Frames
  BY <1>1, <1>2, NextFrame
<1>4. 1 \in DOMAIN replies /\ replies[1].frame = f
  BY <1>1, <1>2, TakenFrame DEF CompanionType
<1>5. InPlace(1)
  BY <1>1, <1>4
     DEF WireInv, Answering, UpstreamFrame, LateUpstreamFrame, AtRest
<1> HIDE DEF f
<1>6. CASE LateUpstreamFrame
  <2>1. Rests /\ LeaseGoes
    BY <1>2, <1>6, HandlersCalm
  <2> QED
    BY <1>1, <1>2, <2>1, RemoteRests
<1>7. ASSUME outgoing' = outgoing
      PROVE  Asked("outgoing", outgoing)' = Asked("outgoing", outgoing)
  BY <1>7 DEF Asked, Asking
<1>8. ASSUME Rejected(active, f) \/
               (active.step = "setup" /\ active.command.op \in RemoteLease)
      PROVE  RemoteWork = {}
  <2>1. f.code = "err" => Refusing
    BY <1>4 DEF Refusing
  <2> QED
    BY <1>8, <2>1 DEF RemoteInv, AsksOnce, Rejected, UnderWay
<1>9. ASSUME RemoteWork = {}, remote'.kind = "none",
             Asked("outgoing", outgoing)' = Asked("outgoing", outgoing)
      PROVE  RemoteInv'
  <2>1. Moves
    BY <1>1, <1>2, <1>9, RemoteTaken DEF RemoteInv
  <2>2. RemoteWork' = {}
    BY <1>9, <2>1 DEF Moves
  <2> QED
    BY <1>9, <2>2, ReservationKept, RemoteFreed
<1>10. CASE /\ outgoing' = outgoing /\ failed' /\ active' = NoTransaction
            /\ LeaseLeft(f)
  <2>1. CASE Follows(remote, remote')
    <3>1. LeaseGoes /\ ~ UnderWay(active')
      BY <1>10, <2>1 DEF LeaseGoes, UnderWay, NoTransaction
    <3> QED
      BY <1>1, <1>2, <1>7, <1>10, <3>1, RemoteGoesOn
  <2> QED
    BY <1>7, <1>8, <1>9, <1>10, <2>1 DEF LeaseLeft
<1>11. CASE outgoing' = outgoing /\ active' = active /\ Follows(remote, remote')
  <2>1. LeaseGoes
    BY <1>11 DEF LeaseGoes
  <2> QED
    BY <1>1, <1>2, <1>7, <1>11, <2>1, RemoteGoesOn
<1>12. CASE Matched(f)
  <2>1. f.code \in DOMAIN RemotePushes /\ f.code \in PushCodes
    BY <1>12 DEF Matched, PushCodes
  <2>2. 1 \notin Ordinary
    BY <1>4, <1>5, <1>12, <2>1 DEF InPlace, Matched
  <2>3. IsResult(f)
    BY <1>4, <1>5, <2>1, <2>2 DEF InPlace, IsResult
  <2>4. Asked("outgoing", outgoing)' = Asked("outgoing", outgoing)
    BY <1>7, <1>12 DEF Matched
  <2>5. RemoteWork' = {}
    BY <1>1, <1>2, <2>3, <2>4, RemoteTaken DEF RemoteInv, f
  <2>6. remote'.kind = "none"
    BY <1>12 DEF Matched
  <2> QED
    BY <2>5, <2>6, ReservationKept, RemoteFreed
<1>13. CASE Reacts(f)
  <2>1. PICK x : /\ Responds(WriteIsOver, x, f)
                 /\ outgoing' = x.outgoing
                 /\ active' = x.active \/ (failed' /\ active' = NoTransaction)
                 /\ \/ Follows(remote, remote')
                    \/ Rejected(active, f) /\ remote'.kind = "none"
    BY <1>13 DEF Reacts
  <2>2. CASE Follows(remote, remote')
    BY <1>1, <1>2, <2>1, <2>2, RemoteNext
  <2>3. CASE Rejected(active, f) /\ remote'.kind = "none"
    <3>1. \/ NoWrite(WriteIsOver, x)
          \/ Issues(WriteIsOver, x) /\ x.active.step = "restore"
      <4>1. f.code = "err" /\ WriteIsOver.active \in Transaction
        BY <1>2, <2>3
           DEF Rejected, WriteIsOver, Now, TypeInv, TypeOK, Transaction
      <4>2. [WriteIsOver.active EXCEPT
               !.step = "restore", !.write = WriteIsOver.next_write + 1].step
              = "restore"
        BY <4>1 DEF Transaction
      <4> QED
        BY <2>1, <4>1, <4>2 DEF Responds
    <3>2. WriteIsOver.outgoing = outgoing
      BY DEF WriteIsOver, Now
    <3>3. CASE NoWrite(WriteIsOver, x)
      BY <1>7, <1>8, <1>9, <2>1, <2>3, <3>2, <3>3 DEF NoWrite
    <3>4. CASE Issues(WriteIsOver, x) /\ x.active.step = "restore"
      <4> DEFINE job == Job(x.next_write, x.active)
      <4>1. /\ outgoing' = Append(outgoing, job)
            /\ job.command.op \notin RemoteLease
        BY <2>1, <3>2, <3>4 DEF Issues, Job, WireCommand, SetScope, RemoteLease
      <4> HIDE DEF job
      <4>2. Asked("outgoing", outgoing)' = Asked("outgoing", outgoing)
        BY <1>2, <4>1, OtherSent
      <4> QED
        BY <1>8, <1>9, <2>3, <4>2
    <3> QED
      BY <3>1, <3>3, <3>4
  <2> QED
    BY <2>1, <2>2, <2>3
<1> QED
  BY <1>1, <1>2, <1>3, <1>6, <1>10, <1>11, <1>12, <1>13, FrameLeases

LEMMA RemoteLess ==
  ASSUME OneAtMost, RemoteWork' \subseteq RemoteWork
  PROVE  Moves
BY DEF OneAtMost, Moves

\* The debt is drained, and a result that comes meanwhile frees the lease.
LEMMA RemoteDrained ==
  ASSUME BrokerInv, BrokerInv', LinkType, RemoteInv, DrainDebt
  PROVE  RemoteInv'
<1> DEFINE f == Head(replies).frame
<1>1. /\ replies # <<>> /\ replies' = Tail(replies)
      /\ UNCHANGED <<received, requests>>
      /\ DrainUncertainFrame(f)
  BY DEF DrainDebt
<1>2. TypeInv /\ Ended /\ Ended' /\ CompanionType /\ Taken
  BY <1>1, LinkParts DEF BrokerInv, Taken
<1>3. f \in Frames
  BY <1>1, <1>2, NextFrame
<1> HIDE DEF f
<1>4. /\ outgoing' = outgoing /\ failed'
      /\ \/ LeaseGoes
         \/ /\ f.code \in DOMAIN RemotePushes
            /\ RemoteMatches(remote, f) /\ remote'.kind = "none"
  BY <1>1, <1>2, <1>3, DrainWire
<1>5. Asked("outgoing", outgoing)' = Asked("outgoing", outgoing)
  BY <1>4 DEF Asked, Asking
<1>6. CASE LeaseGoes
  <2>1. ~ UnderWay(active')
    BY <1>2, <1>4 DEF Ended, Busy, UnderWay
  <2> QED
    BY <1>1, <1>2, <1>5, <1>6, <2>1, RemoteGoesOn
<1>7. CASE /\ f.code \in DOMAIN RemotePushes
           /\ RemoteMatches(remote, f) /\ remote'.kind = "none"
  <2>1. ASSUME f = Frame("telemetry_response", SelfKey)
        PROVE  FALSE
    <3>1. remote.kind = "send_telemetry_req" /\ remote.key = SelfKey
      BY <1>7, <2>1 DEF RemoteMatches, RemotePushes, Frame
    <3> QED
      BY <3>1 DEF RemoteInv, PeerNamed
  <2>2. IsResult(f)
    BY <1>7, <2>1 DEF IsResult
  <2>3. RemoteWork' = {}
    BY <1>1, <1>2, <1>5, <2>2, RemoteTaken DEF RemoteInv, f
  <2> QED
    BY <1>7, <2>3, ReservationKept, RemoteFreed
<1> QED
  BY <1>4, <1>6, <1>7

\* The connection fails, and later a new one takes its place.
LEMMA RemoteCut ==
  ASSUME "remote" \notin Deadlines, BrokerInv, BrokerInv', RemoteInv,
         LinkFails \/ Reconnect
  PROVE  RemoteInv'
<1>1. TypeInv /\ Ended /\ Ended'
  BY DEF BrokerInv
<1>2. ASSUME replies' = <<>>
      PROVE  Reported' = {} /\ ~ Refusing'
  BY <1>2 DEF Reported, Refusing
<1>3. CASE LinkFails
  <2>1. /\ UpstreamClosed \/ WriteFailed(0)
        /\ replies' = <<>> /\ UNCHANGED <<received, requests>>
    BY <1>3 DEF LinkFails
  <2>2. Rests /\ LeaseGoes
    BY <1>1, <2>1, HandlersCalm DEF ClientStep
  <2>3. RemoteWork' \subseteq RemoteWork
    BY <1>2, <2>1, <2>2 DEF RemoteWork, Rests, Asked, Asking, Underway
  <2>4. Moves
    BY <2>3, RemoteLess DEF RemoteInv
  <2>5. ~ UnderWay(active') \/ active' = active
    BY <1>1, <2>2 DEF Rests, Ended, UnderWay, Busy
  <2>6. failed' => ~ Busy'
    BY <1>1 DEF Ended
  <2> QED
    BY <1>2, <2>1, <2>2, <2>4, <2>5, <2>6, RemoteQuiet
<1>4. CASE Reconnect
  <2>1. PICK same_key \in BOOLEAN :
          /\ Restart(same_key)
          /\ IF same_key THEN UNCHANGED <<physical, requests, signer>>
             ELSE physical' = <<>> /\ requests' = <<>> /\ signer' = 0
    BY <1>4 DEF Reconnect
  <2>2. outgoing' = <<>> /\ received' = <<>> /\ replies' = <<>>
    BY <1>4, <2>1 DEF Reconnect, Restart
  <2>3. /\ Asked("outgoing", outgoing)' = {} /\ Asked("received", received)' = {}
        /\ Reported' = {} /\ ~ Refusing'
    BY <1>2, <2>2 DEF Asked, Asking
  <2>4. ~ UnderWay(active')
    BY <1>1, <2>1 DEF Restart, Ended, Busy, UnderWay
  <2>5. CASE requests' = requests /\ remote' = remote
    <3>1. RemoteWork' \subseteq RemoteWork
      BY <2>3, <2>5 DEF RemoteWork, Underway
    <3>2. Moves
      BY <3>1, RemoteLess DEF RemoteInv
    <3>3. LeaseGoes
      BY <2>5 DEF LeaseGoes, Follows
    <3>4. failed' => ~ Busy'
      BY <1>1 DEF Ended
    <3> QED
      BY <2>3, <2>4, <3>2, <3>3, <3>4, RemoteQuiet
  <2>6. CASE requests' = <<>> /\ remote' = NoRemote
    <3>1. RemoteWork' = {}
      BY <2>3, <2>6 DEF RemoteWork, Underway
    <3> QED
      BY <2>6, <3>1, ReservationKept, RemoteFreed DEF NoRemote
  <2> QED
    BY <2>1, <2>5, <2>6 DEF Restart
<1> QED
  BY <1>3, <1>4

LEMMA RemoteStep ==
  ASSUME "remote" \notin Deadlines, BrokerInv, BrokerInv', LinkType,
         WireInv, WireInv', RemoteInv, MuxNext
  PROVE  RemoteInv'
<1>1. TypeInv /\ InboxInv /\ Ended /\ CompanionType /\ TypeInv' /\ Ended'
  BY LinkParts DEF BrokerInv
<1>2. CASE Clients \/ ClientRequest \/ Clock
  <2>1. ClientStep \/ ClockStep
    BY <1>1, <1>2, ClientsStep, ClockIsBroker
  <2>2. Rests /\ LeaseGoes
    BY <1>1, <2>1, HandlersCalm
  <2>3. Taken /\ UNCHANGED <<received, requests>>
    BY <1>2 DEF Clients, ClientRequest, Clock, companionVars, Taken
  <2> QED
    BY <1>1, <2>2, <2>3, RemoteRests
<1>3. CASE Schedule
  <2>1. ScheduleStep /\ LinkSame /\ UNCHANGED requests
    BY <1>3 DEF Schedule, companionVars, LinkSame
  <2>2. Taken /\ UNCHANGED <<received, requests>>
    BY <2>1 DEF LinkSame, Taken
  <2>3. CASE Rests /\ LeaseGoes
    BY <1>1, <2>2, <2>3, RemoteRests
  <2>4. ASSUME NEW k, NEW s, TurnPop(k) \/ TurnDispatch(k, s)
        PROVE  RemoteInv'
    <3>1. Starts
      BY <1>1, <2>4, TurnPopStarts, TurnDispatchStarts
    <3> QED
      BY <1>1, <2>1, <2>4, <3>1, TurnLeases, RemoteStarts
  <2>5. \/ Rests /\ LeaseGoes
        \/ \E k, s : TurnPop(k) \/ TurnDispatch(k, s)
    BY <1>1, <2>1, HandlersCalm DEF ScheduleStep
  <2> QED
    BY <2>3, <2>4, <2>5
<1>4. CASE WriterWrites
  BY <1>1, <1>4, RemoteWritten
<1>5. CASE WriterReports
  <2>1. /\ Taken /\ UNCHANGED <<received, requests>>
        /\ UpstreamWritten(wrote) \/ UNCHANGED vars
    BY <1>5 DEF WriterReports, companionVars, Taken
  <2>2. /\ LeaseGoes /\ outgoing' = outgoing
        /\ \/ failed'
           \/ \E v : active' = [active EXCEPT !.write = v]
           \/ active' = active
    <3>1. CASE UNCHANGED vars
      BY <3>1 DEF vars, LeaseGoes, Follows
    <3> QED
      BY <1>1, <2>1, <3>1, WrittenWire
  <2>3. Asked("outgoing", outgoing)' = Asked("outgoing", outgoing)
    BY <2>2 DEF Asked, Asking
  <2>4. \/ ~ UnderWay(active')
        \/ /\ active'.step = active.step /\ active'.owner = active.owner
           /\ active'.command = active.command
    <3>1. active \in Transaction
      BY <1>1 DEF TypeInv, TypeOK
    <3> QED
      BY <1>1, <2>2, <3>1 DEF Transaction, Ended, Busy, UnderWay
  <2> QED
    BY <1>1, <2>1, <2>2, <2>3, <2>4, RemoteGoesOn
<1>6. CASE FrameArrives
  BY <1>6, RemoteFrame
<1>7. CASE LinkFails \/ Reconnect
  BY <1>7, RemoteCut
<1>8. CASE DrainDebt
  BY <1>8, RemoteDrained
<1>9. CASE CompanionStep
  BY <1>1, <1>9, RemoteCompanion
<1> QED
  BY <1>2, <1>3, <1>4, <1>5, <1>6, <1>7, <1>8, <1>9 DEF MuxNext

LEMMA RemoteInit == MuxInit => RemoteInv
<1>1. ASSUME MuxInit
      PROVE  RemoteInv
  <2>1. /\ outgoing = <<>> /\ received = <<>> /\ replies = <<>>
        /\ requests = <<>> /\ remote = NoRemote /\ active = NoTransaction
    BY <1>1 DEF MuxInit, Init, CompanionInit
  <2>2. RemoteWork = {}
    BY <2>1 DEF RemoteWork, Asked, Asking, Underway, Reported
  <2>3. ~ UnderWay(active) /\ remote.kind = "none"
    BY <2>1 DEF UnderWay, NoTransaction, NoRemote
  <2> QED
    BY <2>2, <2>3
       DEF RemoteInv, OneAtMost, Leased, AsksOnce, PeerNamed, UnderWay
<1> QED
  BY <1>1

LEMMA RemoteInvariant ==
  ASSUME "remote" \notin Deadlines
  PROVE  MuxSpec => [](BrokerInv /\ LinkType /\ WireInv /\ RemoteInv)
<1>1. MuxInit => RemoteInv
  BY RemoteInit
<1>2. BrokerInv /\ BrokerInv' /\ LinkType /\ WireInv /\ WireInv' /\ RemoteInv
        /\ [MuxNext]_muxVars => RemoteInv'
  <2>1. ASSUME RemoteInv, UNCHANGED muxVars
        PROVE  RemoteInv'
    <3>1. UNCHANGED <<active, outgoing, remote, received, replies, requests>>
      BY <2>1 DEF muxVars, vars, companionVars, linkVars
    <3>2. RemoteWork' = RemoteWork /\ (Refusing' <=> Refusing)
      BY <3>1 DEF RemoteWork, Asked, Asking, Underway, Reported, Refusing
    <3> QED
      BY <2>1, <3>1, <3>2
         DEF RemoteInv, OneAtMost, Leased, AsksOnce, PeerNamed, UnderWay
  <2> QED
    BY <2>1, RemoteStep
<1>3. MuxSpec => [](BrokerInv /\ RoundInv /\ LinkType /\ WireInv)
  BY WireInvariant
<1> QED
  BY <1>1, <1>2, <1>3, PTL DEF MuxSpec

\* Until the deadline of the lease may end the wait for a result, the companion
\* has at most one remote request, on the wire or accepted: admit_command?
\* refuses the next one while the lease is held, and the lease is held from the
\* dispatch of a request to its refusal or its result, whether its client
\* leaves, the epoch fails before the acceptance, or the connection is replaced
\* meanwhile.
THEOREM OneRemoteRequest ==
  ASSUME "remote" \notin Deadlines
  PROVE  MuxSpec => []OneRemoteOutstanding
<1>1. LinkType /\ RemoteInv => OneRemoteOutstanding
  <2> SUFFICES ASSUME LinkType, OneAtMost
               PROVE  OneRemoteOutstanding
    BY DEF RemoteInv
  <2>1. requests \in Seq(Accepted) /\ received \in Seq(Write)
    BY DEF LinkType
  <2>2. /\ Len(requests) \in Nat /\ DOMAIN requests = 1 .. Len(requests)
    BY <2>1
  <2>3. \A i \in DOMAIN requests :
          Trace("requests", i, requests[i].owner) \in RemoteWork
    BY DEF RemoteWork, Underway
  <2>4. \A i \in Asking(received) :
          Trace("received", i, received[i].owner) \in RemoteWork
    BY DEF RemoteWork, Asked
  <2>5. \A i, j \in DOMAIN requests : i = j
    BY <2>3 DEF OneAtMost, Trace
  <2>6. \A i, j \in Asking(received) : i = j
    BY <2>4 DEF OneAtMost, Trace
  <2>7. requests # <<>> => Asking(received) = {}
    <3>1. requests # <<>> => 1 \in DOMAIN requests
      BY <2>1
    <3> QED
      BY <2>3, <2>4, <3>1 DEF OneAtMost, Trace
  <2>8. Len(requests) <= 1
    <3>1. Len(requests) >= 2 => 1 \in DOMAIN requests /\ 2 \in DOMAIN requests
      BY <2>2
    <3> QED
      BY <2>2, <2>5, <3>1
  <2>9. Cardinality(Asking(received)) \in {0, 1}
    <3>1. CASE Asking(received) = {}
      BY <3>1, FS_EmptySet
    <3>2. ASSUME NEW i \in Asking(received)
          PROVE  Cardinality(Asking(received)) = 1
      <4>1. Asking(received) = {i}
        BY <2>6, <3>2
      <4> QED
        BY <4>1, FS_Singleton
    <3> QED
      BY <3>1, <3>2
  <2>10. Cardinality(Asking(received)) = 0 \/ Len(requests) = 0
    <3>1. requests = <<>> => Len(requests) = 0
      OBVIOUS
    <3> QED
      BY <2>7, <3>1, FS_EmptySet
  <2>11. Len(requests) + Cardinality(Asking(received)) <= 1
    BY <2>2, <2>8, <2>9, <2>10
  <2> QED
    BY <2>11 DEF OneRemoteOutstanding, Asking
<1> QED
  BY <1>1, RemoteInvariant, PTL
-----------------------------------------------------------------------------
(* What a frame does with the lease and the clients                        *)

LEMMA CommandResponseTells ==
  ASSUME NEW n \in Nat, NEW e \in State(n), NEW f \in Frames
  PROVE  /\ CommandResponse(e, f).sessions = ReplyToOwner(e, f).sessions
         /\ CommandResponse(e, f).closed = e.closed
<1> DEFINE x == ReplyToOwner(e, f)
           y == RecordAcceptance(x, e.active.command, f)
<1>1. x \in State(n) /\ x.active = e.active /\ x.closed = e.closed
  <2>1. x.closed = e.closed
    BY DEF ReplyToOwner, State
  <2> QED
    BY <2>1, ReplyToOwnerType, OwnerKept
<1>2. e.active.command \in Command
  BY DEF State, Transactions, Transaction
<1> HIDE DEF x
<1>3. y \in State(n) /\ y.sessions = x.sessions /\ y.closed = x.closed
  BY <1>1, <1>2, RecordAcceptanceType DEF RecordAcceptance, State
<1> HIDE DEF y
<1>4. AfterCommand(y).sessions = y.sessions /\ AfterCommand(y).closed = y.closed
  BY <1>3 DEF AfterCommand, SendUpstream, Finish, State
<1>5. LET z == [x EXCEPT !.active.contacts_started = TRUE]
      IN z.sessions = x.sessions /\ z.closed = x.closed
  BY <1>1 DEF State
<1> QED
  BY <1>1, <1>3, <1>4, <1>5 DEF CommandResponse, x, y

\* A reply is written to clients that are there.
LEMMA ResponseClients ==
  ASSUME TypeInv, NEW f \in Frames
  PROVE  DOMAIN TransactionResponse(f).sessions = DOMAIN sessions
<1> DEFINE e == WriteIsOver
           n == next_session
           x == TransactionResponse(f)
<1>1. /\ n \in Nat /\ e \in State(n) /\ e.sessions = sessions
      /\ active \in Transaction
  BY WriteIsOverType DEF TypeInv, TypeOK, WriteIsOver, Now
<1>2. /\ x \in {Fail(e), ScopeResponse(e, f), PopResult(Finish(e), active, f)}
         \/ x = CommandResponse(e, f)
  BY DEF TransactionResponse
<1> HIDE DEF e, n, x
<1>3. DOMAIN Fail(e).sessions = DOMAIN e.sessions
  BY <1>1 DEF Fail, State
<1>4. DOMAIN ScopeResponse(e, f).sessions = DOMAIN e.sessions
  BY <1>1 DEF ScopeResponse, SendCommand, SendUpstream, Finish, Fail, State
<1>5. DOMAIN PopResult(Finish(e), active, f).sessions = DOMAIN e.sessions
  <2>1. Finish(e) \in State(n) /\ Finish(e).sessions = e.sessions
    BY <1>1, FinishType DEF Finish, State
  <2> QED
    BY <1>1, <2>1, PopResultIsAside
<1>6. DOMAIN CommandResponse(e, f).sessions = DOMAIN e.sessions
  BY <1>1, CommandResponseTells, ReplyToOwnerTells
<1> QED
  BY <1>1, <1>2, <1>3, <1>4, <1>5, <1>6 DEF x

\* The lease passes to whoever stays as it was, or accepted, or it is free.
LEMMA FramePasses ==
  ASSUME TypeInv, NEW f \in Frames, UpstreamFrame(f)
  PROVE  /\ Newcomers
         /\ \/ remote'.kind = "none"
            \/ Passes(remote)
            \/ Accepting(active, f) /\ Passes(RemoteAccepted(remote, f.arg))
<1> DEFINE x == CASE Malformed(f) -> Fail(Now)
                  [] f.code \in PushCodes -> Push(f)
                  [] OTHER -> TransactionResponse(f)
           Left(y) ==
             /\ DOMAIN y.sessions = DOMAIN sessions
             /\ y.remote \in Remote
             /\ \/ y.remote \in {remote, NoRemote}
                \/ /\ Accepting(active, f)
                   /\ y.remote = RemoteAccepted(remote, f.arg)
<1>1. Commit(x)
  BY DEF UpstreamFrame, CommitAndSchedule
<1>2. remote \in Remote /\ NoRemote \in Remote /\ active \in Transaction
  BY LeaseTypes DEF TypeInv, TypeOK
<1>3. Left(Fail(Now))
  BY <1>2 DEF Fail, Now
<1>4. ASSUME f.code \in PushCodes, ~ AnswersSelfTelemetry(f)
      PROVE  Left(Push(f))
  <2>1. Left(AvailabilityHint)
    BY <1>2 DEF AvailabilityHint, HintAll, Now
  <2>2. Left(RemoteResult(f))
    BY <1>2 DEF RemoteResult, Now
  <2>3. \A ring :
          /\ Left([Now EXCEPT !.dm_ring = ring,
                              !.sessions = EmitAll(sessions, "frame")])
          /\ Left([Now EXCEPT !.sessions = EmitAll(sessions, "frame")])
    BY <1>2 DEF EmitAll, Now
  <2> HIDE DEF Left
  <2> QED
    BY <1>4, <2>1, <2>2, <2>3 DEF Push
<1>5. Left(TransactionResponse(f))
  <2> DEFINE e == WriteIsOver
             y == TransactionResponse(f)
  <2>1. y \in State(next_session) /\ DOMAIN y.sessions = DOMAIN sessions
        /\ LeasesAnswer(e, y, f)
    BY TransactionResponseType, ResponseClients, ResponseLeases
  <2>2. /\ e.remote = remote /\ e.active.step = active.step
        /\ e.active.command = active.command
    BY <1>2, WriteIsOverType DEF WriteIsOver, Now, Transaction
  <2> HIDE DEF e, y
  <2>3. y.remote \in Remote
    BY <2>1 DEF State
  <2>4. \/ y.remote \in {remote, NoRemote}
        \/ Accepting(active, f) /\ y.remote = RemoteAccepted(remote, f.arg)
    BY <2>1, <2>2 DEF LeasesAnswer, Accepting
  <2> QED
    BY <2>1, <2>3, <2>4 DEF y
<1>6. Left(x)
  <2>1. f.code \in PushCodes /\ AnswersSelfTelemetry(f) =>
          Push(f) = TransactionResponse(f)
    BY DEF Push, AnswersSelfTelemetry, RemotePushes
  <2> HIDE DEF Left
  <2> QED
    BY <1>3, <1>4, <1>5, <2>1
<1> HIDE DEF x
<1>7. Passes(x.remote) /\ DOMAIN sessions' \subseteq DOMAIN x.sessions
  BY <1>1, <1>6, CommitPasses
<1>8. Newcomers
  BY <1>6, <1>7 DEF Newcomers
<1>9. x.remote = NoRemote => remote'.kind = "none"
  BY <1>1, <1>6, CommitLeases DEF Follows, Withdrawn, NoRemote
<1> QED
  BY <1>6, <1>7, <1>8, <1>9

-----------------------------------------------------------------------------
(* Who the entries on the wire are for                                     *)

OwnersIn(queue) == {queue[i].owner : i \in DOMAIN queue}

Named ==
  (IF Busy THEN {active.owner} ELSE {})
    \cup OwnersIn(outgoing) \cup OwnersIn(received) \cup OwnersIn(requests)
    \cup OwnersIn(replies)

\* Whoever is named, here or not, has been connected: no client to come is.
Known == \A s \in Named : s <= next_session

LEMMA NamedIds ==
  ASSUME TypeInv, CompanionType
  PROVE  Named \subseteq Nat
<1>1. active.owner \in Nat /\ outgoing \in Seq(Write)
  BY DEF TypeInv, TypeOK, Transaction, Write
<1>2. \A S : \A q \in Seq(S) : (\A x \in S : x.owner \in Nat) => OwnersIn(q) \subseteq Nat
  BY DEF OwnersIn
<1>3. /\ \A x \in Write : x.owner \in Nat
      /\ \A x \in Sending : x.owner \in Nat
      /\ \A x \in Accepted : x.owner \in Nat
  BY DEF Write, Sending, Accepted
<1> QED
  BY <1>1, <1>2, <1>3 DEF Named, CompanionType

LEMMA OwnersOf ==
  ASSUME NEW S, NEW q \in Seq(S)
  PROVE  /\ OwnersIn(<<>>) = {}
         /\ q # <<>> => /\ OwnersIn(Tail(q)) \subseteq OwnersIn(q)
                        /\ Head(q).owner \in OwnersIn(q)
         /\ \A x : OwnersIn(Append(q, x)) \subseteq OwnersIn(q) \cup {x.owner}
         /\ \A p \in Seq(S) :
              OwnersIn(q \o p) \subseteq OwnersIn(q) \cup OwnersIn(p)
         /\ \A i \in DOMAIN q : OwnersIn(Cut(q, i)) \subseteq OwnersIn(q)
<1>1. OwnersIn(<<>>) = {}
  BY DEF OwnersIn
<1>2. ASSUME q # <<>>
      PROVE  /\ OwnersIn(Tail(q)) \subseteq OwnersIn(q)
             /\ Head(q).owner \in OwnersIn(q)
  <2>1. /\ \A i \in DOMAIN Tail(q) : i + 1 \in DOMAIN q /\ Tail(q)[i] = q[i + 1]
        /\ 1 \in DOMAIN q /\ Head(q) = q[1]
    BY <1>2
  <2> QED
    BY <2>1 DEF OwnersIn
<1>3. ASSUME NEW x
      PROVE  OwnersIn(Append(q, x)) \subseteq OwnersIn(q) \cup {x.owner}
  <2>1. \A i \in DOMAIN Append(q, x) :
          \/ i \in DOMAIN q /\ Append(q, x)[i] = q[i]
          \/ Append(q, x)[i] = x
    OBVIOUS
  <2> QED
    BY <2>1 DEF OwnersIn
<1>4. ASSUME NEW p \in Seq(S)
      PROVE  OwnersIn(q \o p) \subseteq OwnersIn(q) \cup OwnersIn(p)
  <2>1. \A i \in DOMAIN (q \o p) :
          \/ i \in DOMAIN q /\ (q \o p)[i] = q[i]
          \/ i - Len(q) \in DOMAIN p /\ (q \o p)[i] = p[i - Len(q)]
    BY Joined
  <2> QED
    BY <2>1 DEF OwnersIn
<1>5. ASSUME NEW i \in DOMAIN q
      PROVE  OwnersIn(Cut(q, i)) \subseteq OwnersIn(q)
  BY EntryGone DEF OwnersIn
<1> QED
  BY <1>1, <1>2, <1>3, <1>4, <1>5

\* Clients are numbered in the order in which they connect.
LEMMA ClientsCounted ==
  ASSUME TypeInv, [Next]_vars
  PROVE  next_session' \in {next_session, next_session + 1}
<1>1. CASE ScheduleStep
  BY <1>1
     DEF ScheduleStep, ScheduleLocal, ScheduleAged, ScheduleBusy, TurnPop,
         TurnDispatch, TurnReject, TurnNone
<1>2. CASE ClientStep
  BY <1>2 DEF ClientStep, Admit, ClientFrame, ClientClosed, Written, WriteFailed
<1>3. CASE UpstreamStep
  BY <1>3
     DEF UpstreamStep, UpstreamWritten, UpstreamFrame, DrainUncertainFrame,
         LateUpstreamFrame, UpstreamClosed, TakeWrite, Restart
<1>4. CASE ClockStep
  BY <1>4
     DEF ClockStep, ResponseTimeout, UpstreamWriteTimeout, Tick, DmDeadline,
         QuarantineDeadline
<1>5. CASE UNCHANGED vars
  BY <1>5 DEF vars
<1> QED
  BY <1>1, <1>2, <1>3, <1>4, <1>5 DEF Next

\* Every SENT of the companion has its one token.
LEMMA TokensSent ==
  ASSUME NEW command, NEW answer \in Answers(command), NEW i \in DOMAIN answer,
         answer[i].code = "sent"
  PROVE  answer[i].arg = Token
<1>1. ASSUME NEW f, answer = <<f>>, f.code = "sent" => f.arg = Token
      PROVE  answer[i].arg = Token
  BY <1>1
<1>2. CASE command.op = "get_contacts"
  <2>1. answer = <<Frame("contacts_start", 0), Frame("contact", 0),
                   Frame("end_of_contacts", 0)>>
    BY <1>2 DEF Answers, RemoteLease
  <2> QED
    BY <2>1 DEF Frame
<1>3. CASE command.op = "reboot"
  BY <1>3 DEF Answers, RemoteLease
<1>4. CASE command.op = "self_telemetry"
  BY <1>1, <1>4 DEF Answers, RemoteLease, Frame
<1>5. CASE command.op \in RemoteLease \cup {"send_txt_msg"}
  BY <1>1, <1>5 DEF Answers, RemoteLease, Frame
<1>6. CASE command.op \notin {"get_contacts", "reboot", "self_telemetry"}
                               \cup RemoteLease \cup {"send_txt_msg"}
  <2>1. PICK code \in SuccessCodes(command.op) :
          answer = <<Frame(code, IF code = "ok" THEN 0 ELSE command.arg)>>
    BY <1>6 DEF Answers
  <2>2. code # "sent"
    BY <1>6, <2>1 DEF SuccessCodes, ValueReply
  <2> QED
    BY <1>1, <2>1, <2>2 DEF Frame
<1> QED
  BY <1>2, <1>3, <1>4, <1>5, <1>6

\* What the companion puts on the wire: the answer to the first command it has
\* received, after which it may work on a remote request, or a push, which may
\* be the result of one.
LEMMA CompanionSends ==
  ASSUME CompanionType, CompanionStep
  PROVE  /\ UNCHANGED vars
         /\ \/ /\ received # <<>> /\ received' = Tail(received)
               /\ \E frames \in Seq(SentFrames) :
                    /\ replies' = replies \o Answer(Head(received), frames)
                    /\ \A i \in DOMAIN frames :
                         /\ ~ IsResult(frames[i])
                         /\ frames[i].code = "sent" => frames[i].arg = Token
                    /\ \/ requests' = requests
                       \/ /\ Head(received).command.op \in RemoteLease
                          /\ requests' =
                               Append(requests,
                                      [command |-> Head(received).command,
                                       owner |-> Head(received).owner])
                          /\ frames = <<Frame("sent", Token)>>
            \/ /\ received' = received
               /\ \E owner \in Nat, f \in SentFrames :
                    /\ f.code # "sent" /\ Announces(owner, f)
                    /\ \/ ~ IsResult(f) /\ owner = 0 /\ requests' = requests
                       \/ \E i \in DOMAIN requests :
                            /\ owner = requests[i].owner
                            /\ requests' = Cut(requests, i)
                            /\ requests[i].command.op \in RemotePushes[f.code]
                            /\ f.arg = IF f.code = "binary_response" THEN Token
                                       ELSE requests[i].command.arg
<1>1. UNCHANGED vars
  BY DEF CompanionStep
<1>2. CASE ExecutePop \/ Refuse
  <2>1. received # <<>> /\ received' = Tail(received) /\ requests' = requests
    BY <1>2 DEF ExecutePop, Refuse
  <2>2. \E f \in SentFrames :
          /\ f.code \in {"no_more_messages", "message", "err"}
          /\ replies' = replies \o Answer(Head(received), <<f>>)
    <3>1. CASE Refuse
      BY <3>1, FramesMade DEF Refuse, Frame
    <3>2. CASE ExecutePop /\ physical = <<>>
      BY <3>2, FramesMade DEF ExecutePop, Frame
    <3>3. CASE ExecutePop /\ physical # <<>>
      <4>1. Head(physical) \in 1 .. MaxArrivals
        BY <3>3, FirstAndOthers DEF CompanionType
      <4>2. Frame("message", Head(physical)) \in SentFrames
        BY <4>1, FramesMade
      <4> QED
        BY <3>3, <4>2 DEF ExecutePop, Frame
    <3> QED
      BY <1>2, <3>1, <3>2, <3>3
  <2>3. PICK f \in SentFrames :
          /\ f.code \in {"no_more_messages", "message", "err"}
          /\ replies' = replies \o Answer(Head(received), <<f>>)
    BY <2>2
  <2> DEFINE frames == <<f>>
  <2>4. frames \in Seq(SentFrames) /\ \A i \in DOMAIN frames : frames[i] = f
    OBVIOUS
  <2>5. ~ IsResult(f) /\ f.code # "sent"
    BY <2>3 DEF IsResult, RemotePushes
  <2>6. replies' = replies \o Answer(Head(received), frames)
    BY <2>3
  <2> HIDE DEF frames
  <2> QED
    BY <1>1, <2>1, <2>4, <2>5, <2>6
<1>3. CASE Execute
  <2> DEFINE job == Head(received)
             command == job.command
  <2>1. /\ received # <<>> /\ received' = Tail(received) /\ command # Sync
        /\ requests' = IF command.op \in RemoteLease
                       THEN Append(requests, [command |-> command,
                                              owner |-> job.owner])
                       ELSE requests
    BY <1>3 DEF Execute
  <2>2. PICK answer \in Answers(command) :
          replies' = replies \o Answer(job, answer)
    BY <1>3 DEF Execute
  <2>3. answer \in Seq(SentFrames)
    <3>1. job \in Write
      BY <2>1, FirstAndOthers DEF CompanionType
    <3>2. command \in Command
      BY <3>1 DEF Write
    <3>3. command.op # "none"
      BY <2>2, NothingAnswersNone
    <3> HIDE DEF command
    <3> QED
      BY <2>1, <2>2, <3>2, <3>3, AnswersMade
  <2>4. \A i \in DOMAIN answer : ~ IsResult(answer[i])
    BY <2>2, AnswersNoResult
  <2>5. command.op \in RemoteLease => answer = <<Frame("sent", Token)>>
    BY <2>2 DEF Answers, RemoteLease
  <2>6. \A i \in DOMAIN answer : answer[i].code = "sent" => answer[i].arg = Token
    BY <2>2, TokensSent
  <2> HIDE DEF command, job
  <2> QED
    BY <1>1, <2>1, <2>2, <2>3, <2>4, <2>5, <2>6 DEF command, job
<1>4. CASE Arrive(usable)
  <2> DEFINE f == Frame("msg_waiting", 0)
  <2>1. received' = received /\ requests' = requests /\ Announces(0, f)
    BY <1>4 DEF Arrive, Announces
  <2>2. f \in SentFrames /\ ~ IsResult(f) /\ f.code # "sent"
    BY FramesMade DEF IsResult, Frame, RemotePushes
  <2> HIDE DEF f
  <2> QED
    BY <1>1, <2>1, <2>2
<1>5. CASE Report(usable)
  <2>1. PICK i \in DOMAIN requests, code \in DOMAIN RemotePushes :
          LET command == requests[i].command
              key == IF code = "binary_response" THEN Token ELSE command.arg
          IN /\ requests' = Cut(requests, i) /\ received' = received
             /\ Announces(requests[i].owner, Frame(code, key))
             /\ command.op \in RemotePushes[code]
    BY <1>5 DEF Report, Cut, Announces
  <2> DEFINE key == IF code = "binary_response" THEN Token
                    ELSE requests[i].command.arg
             f == Frame(code, key)
  <2>2. requests[i].command \in Commands /\ requests[i].owner \in Nat
    <3>1. requests[i] \in Accepted
      BY DEF CompanionType
    <3> QED
      BY <3>1 DEF Accepted
  <2>3. f \in SentFrames /\ f.code # "sent" /\ f.code = code /\ f.arg = key
    BY <2>2, FramesMade DEF Frame, RemotePushes
  <2>4. Announces(requests[i].owner, f)
    BY <2>1
  <2> HIDE DEF f
  <2> QED
    BY <1>1, <2>1, <2>2, <2>3, <2>4
<1> QED
  BY <1>2, <1>3, <1>4, <1>5 DEF CompanionStep

\* The writes that a reply leads to are for the client of the transaction.
LEMMA RespondsOwner ==
  ASSUME TypeInv, NEW x, NEW f, Responds(WriteIsOver, x, f)
  PROVE  /\ active.step # "none"
         /\ x.active.step = "none" \/ x.active.owner = active.owner
         /\ \/ x.outgoing = outgoing
            \/ \E w : x.outgoing = Append(outgoing, w) /\ w.owner = active.owner
<1> DEFINE tx == WriteIsOver.active
<1>1. /\ tx \in Transaction /\ tx.step = active.step /\ tx.owner = active.owner
      /\ WriteIsOver.outgoing = outgoing
  BY DEF WriteIsOver, Now, TypeInv, TypeOK, Transaction
<1>2. /\ active.step # "none"
      /\ \/ x.active = NoTransaction
         \/ x.active = [tx EXCEPT !.contacts_started = TRUE]
         \/ x.active = [tx EXCEPT !.step = "result"]
         \/ \E step, n : x.active = [tx EXCEPT !.step = step, !.write = n]
      /\ \/ NoWrite(WriteIsOver, x)
         \/ /\ Issues(WriteIsOver, x)
            /\ \E step, n : x.active = [tx EXCEPT !.step = step, !.write = n]
  BY <1>1 DEF Responds
<1>3. ASSUME NEW step, NEW n,
             x.active = [tx EXCEPT !.step = step, !.write = n]
      PROVE  x.active.owner = active.owner
  BY <1>1, <1>3 DEF Transaction
<1>4. \/ x.active = [tx EXCEPT !.contacts_started = TRUE]
      \/ x.active = [tx EXCEPT !.step = "result"]
      => x.active.owner = active.owner
  BY <1>1 DEF Transaction
<1> HIDE DEF tx
<1>5. x.active.step = "none" \/ x.active.owner = active.owner
  <2>1. NoTransaction.step = "none"
    BY DEF NoTransaction
  <2> QED
    BY <1>2, <1>3, <1>4, <2>1
<1>6. ASSUME Issues(WriteIsOver, x), ~ NoWrite(WriteIsOver, x)
      PROVE  \E w : x.outgoing = Append(outgoing, w) /\ w.owner = active.owner
  <2>1. x.active.owner = active.owner
    BY <1>2, <1>3, <1>6
  <2>2. Job(x.next_write, x.active).owner = x.active.owner
    BY DEF Job
  <2> QED
    BY <1>1, <1>6, <2>1, <2>2 DEF Issues
<1> QED
  BY <1>1, <1>2, <1>5, <1>6 DEF NoWrite

\* The transaction and the writer's queue after a frame.
LEMMA FrameNames ==
  ASSUME TypeInv, Ended', NEW f \in Frames, UpstreamFrame(f)
  PROVE  /\ Busy' => Busy /\ active'.owner = active.owner
         /\ \/ outgoing' = outgoing
            \/ /\ Busy
               /\ \E w : /\ outgoing' = Append(outgoing, w)
                         /\ w.owner = active.owner
<1>1. CASE outgoing' = outgoing /\ active' \in {active, NoTransaction}
  BY <1>1 DEF Busy, NoTransaction
<1>2. CASE Matched(f) /\ failed'
  BY <1>2 DEF Matched, Ended
<1>3. CASE Reacts(f)
  <2>1. PICK x : /\ Responds(WriteIsOver, x, f)
                 /\ outgoing' = x.outgoing
                 /\ active' = x.active \/ active' = NoTransaction
    BY <1>3 DEF Reacts
  <2> QED
    BY <2>1, RespondsOwner DEF Busy, NoTransaction
<1> QED
  BY <1>1, <1>2, <1>3, FrameLeases DEF Matched

\* The companion names whom it has heard of, or nobody.
LEMMA NamedSent ==
  ASSUME CompanionType, CompanionStep
  PROVE  OwnersIn(received') \cup OwnersIn(requests') \cup OwnersIn(replies')
           \subseteq Named \cup {0}
<1>1. /\ received \in Seq(Write) /\ requests \in Seq(Accepted)
      /\ replies \in Seq(Sending)
  BY DEF CompanionType
<1>2. CASE /\ received # <<>> /\ received' = Tail(received)
           /\ \E frames \in Seq(SentFrames) :
                /\ replies' = replies \o Answer(Head(received), frames)
                /\ \/ requests' = requests
                   \/ requests' = Append(requests,
                                         [command |-> Head(received).command,
                                          owner |-> Head(received).owner])
  <2> DEFINE job == Head(received)
  <2>1. PICK frames \in Seq(SentFrames) :
          replies' = replies \o Answer(job, frames)
    BY <1>2
  <2>2. job \in Write /\ job.owner \in OwnersIn(received)
        /\ OwnersIn(received') \subseteq OwnersIn(received)
    BY <1>1, <1>2, FirstAndOthers, OwnersOf
  <2>3. OwnersIn(Answer(job, frames)) \subseteq {job.owner}
        /\ Answer(job, frames) \in Seq(Sending)
    <3>1. Answer(job, frames) \in Seq(Sending)
      BY <2>2, AnswerType
    <3>2. \A i \in DOMAIN Answer(job, frames) :
            Answer(job, frames)[i].owner = job.owner
      BY DEF Answer
    <3> QED
      BY <3>1, <3>2 DEF OwnersIn
  <2> HIDE DEF job
  <2>4. OwnersIn(replies') \subseteq OwnersIn(replies) \cup {job.owner}
    BY <1>1, <2>1, <2>3, OwnersOf
  <2>5. OwnersIn(requests') \subseteq OwnersIn(requests) \cup {job.owner}
    <3>1. \A x : OwnersIn(Append(requests, x))
                   \subseteq OwnersIn(requests) \cup {x.owner}
      BY <1>1, OwnersOf
    <3>2. [command |-> job.command, owner |-> job.owner].owner = job.owner
      OBVIOUS
    <3> QED
      BY <1>2, <3>1, <3>2 DEF job
  <2> QED
    BY <2>2, <2>4, <2>5 DEF Named
<1>3. CASE /\ received' = received
           /\ \E owner \in OwnersIn(requests) \cup {0}, f \in SentFrames :
                /\ Announces(owner, f)
                /\ \/ requests' = requests
                   \/ \E i \in DOMAIN requests : requests' = Cut(requests, i)
  <2>1. PICK owner \in OwnersIn(requests) \cup {0}, f \in SentFrames :
          Announces(owner, f)
    BY <1>3
  <2>2. owner \in Nat
    <3>1. \A i \in DOMAIN requests : requests[i] \in Accepted
      BY <1>1
    <3>2. \A i \in DOMAIN requests : requests[i].owner \in Nat
      BY <3>1 DEF Accepted
    <3> QED
      BY <3>2 DEF OwnersIn
  <2>3. Announce(owner, f) \in Seq(Sending)
        /\ OwnersIn(Announce(owner, f)) \subseteq {owner}
    <3>1. Announce(owner, f) \in Seq(Sending)
      BY <2>2, AnnounceType
    <3>2. \A i \in DOMAIN Announce(owner, f) : Announce(owner, f)[i].owner = owner
      BY DEF Announce
    <3> QED
      BY <3>1, <3>2 DEF OwnersIn
  <2>4. OwnersIn(replies') \subseteq OwnersIn(replies) \cup {owner}
    BY <1>1, <2>1, <2>3, OwnersOf DEF Announces
  <2>5. OwnersIn(requests') \subseteq OwnersIn(requests)
    BY <1>1, <1>3, OwnersOf
  <2> QED
    BY <1>3, <2>4, <2>5 DEF Named
<1>4. \A i \in DOMAIN requests : requests[i].owner \in OwnersIn(requests)
  BY DEF OwnersIn
<1> QED
  BY <1>2, <1>3, <1>4, CompanionSends

\* A step names nobody new but a connected client.
LEMMA NamedStep ==
  ASSUME TypeInv, Ended, Ended', CompanionType, MuxNext
  PROVE  Named' \subseteq Named \cup DOMAIN sessions \cup {0}
<1> DEFINE Here == DOMAIN sessions \cup {0}
           Mine == IF Busy THEN {active.owner} ELSE {}
           Owners(queue, new) ==
             OwnersIn(new) \subseteq OwnersIn(queue) \cup Mine \cup Here
<1>1. /\ outgoing \in Seq(Write) /\ received \in Seq(Write)
      /\ replies \in Seq(Sending) /\ requests \in Seq(Accepted)
  BY DEF CompanionType, TypeInv, TypeOK, Write
<1>2. ASSUME Busy' => active'.owner \in Mine \cup Here,
             Owners(outgoing, outgoing')
      PROVE  \A s \in Named' :
               \/ s \in Named \cup Here
               \/ s \in OwnersIn(received') \cup OwnersIn(requests')
                          \cup OwnersIn(replies')
  BY <1>2 DEF Named
<1>3. ASSUME Busy' => active'.owner \in Mine \cup Here,
             Owners(outgoing, outgoing'), Owners(received, received'),
             Owners(requests, requests'), Owners(replies, replies')
      PROVE  Named' \subseteq Named \cup Here
  BY <1>3 DEF Named
<1>4. ASSUME Rests
      PROVE  (Busy' => active'.owner \in Mine) /\ Owners(outgoing, outgoing')
  BY <1>4 DEF Rests, Busy, Ended
<1>5. UNCHANGED companionVars =>
        /\ Owners(received, received') /\ Owners(requests, requests')
        /\ Owners(replies, replies')
  BY DEF companionVars
<1>6. CASE Clients \/ ClientRequest \/ Clock
  <2>1. ClientStep \/ ClockStep
    BY <1>6, ClientsStep, ClockIsBroker
  <2>2. Rests /\ UNCHANGED companionVars
    BY <1>6, <2>1, HandlersCalm DEF Clients, ClientRequest, Clock
  <2> QED
    BY <1>3, <1>4, <1>5, <2>2
<1>7. CASE Schedule
  <2>1. ScheduleStep /\ UNCHANGED companionVars
    BY <1>7 DEF Schedule
  <2>2. Rests \/ \E k, s : TurnPop(k) \/ TurnDispatch(k, s)
    BY <2>1, HandlersCalm DEF ScheduleStep
  <2>3. ASSUME NEW k, NEW s, TurnPop(k) \/ TurnDispatch(k, s)
        PROVE  active'.owner \in Here /\ Owners(outgoing, outgoing')
    <3>1. Starts /\ active'.owner \in Here
      BY <2>3, TurnPopStarts, TurnDispatchStarts
    <3>2. /\ outgoing' = Append(outgoing, Job(next_write', active'))
          /\ Job(next_write', active').owner = active'.owner
      BY <3>1 DEF Starts, Job
    <3> QED
      BY <1>1, <3>1, <3>2, OwnersOf
  <2> QED
    BY <1>3, <1>4, <1>5, <2>1, <2>2, <2>3
<1>8. CASE WriterWrites
  <2>1. /\ outgoing # <<>> /\ outgoing' = Tail(outgoing) /\ active' = active
        /\ received' = Append(received, Head(outgoing))
        /\ UNCHANGED <<replies, requests>>
    BY <1>8 DEF WriterWrites, TakeWrite
  <2>2. /\ OwnersIn(outgoing') \subseteq OwnersIn(outgoing)
        /\ OwnersIn(received') \subseteq OwnersIn(received) \cup OwnersIn(outgoing)
    BY <1>1, <2>1, OwnersOf
  <2> QED
    BY <2>1, <2>2 DEF Named, Busy
<1>9. CASE WriterReports
  <2>1. UNCHANGED companionVars /\ (UpstreamWritten(wrote) \/ UNCHANGED vars)
    BY <1>9 DEF WriterReports
  <2>2. outgoing' = outgoing /\ (Busy' => active'.owner \in Mine)
    <3>1. active \in Transaction
      BY DEF TypeInv, TypeOK
    <3>2. CASE UNCHANGED vars
      BY <3>2 DEF vars, Busy
    <3>3. CASE UpstreamWritten(wrote)
      <4>1. /\ outgoing' = outgoing
            /\ failed' \/ \E v : active' = [active EXCEPT !.write = v]
        BY <3>3, WrittenWire
      <4>2. \A v : active' = [active EXCEPT !.write = v] =>
              active'.owner = active.owner /\ active'.step = active.step
        BY <3>1 DEF Transaction
      <4> QED
        BY <4>1, <4>2 DEF Ended, Busy
    <3> QED
      BY <2>1, <3>2, <3>3
  <2> QED
    BY <1>3, <1>5, <2>1, <2>2
<1>10. CASE FrameArrives \/ DrainDebt
  <2> DEFINE f == Head(replies).frame
  <2>1. /\ replies # <<>> /\ replies' = Tail(replies)
        /\ UNCHANGED <<received, requests>>
        /\ \/ UpstreamFrame(f) \/ LateUpstreamFrame
           \/ DrainUncertainFrame(f)
    BY <1>10 DEF FrameArrives, DrainDebt
  <2>2. f \in Frames
    BY <2>1, NextFrame
  <2> HIDE DEF f
  <2>3. Owners(replies, replies')
    BY <1>1, <2>1, OwnersOf
  <2>4. (Busy' => active'.owner \in Mine) /\ Owners(outgoing, outgoing')
    <3>1. CASE UpstreamFrame(f)
      <4>1. \A w : w.owner = active.owner /\ Busy /\ outgoing' = Append(outgoing, w)
              => Owners(outgoing, outgoing')
        BY <1>1, OwnersOf
      <4> QED
        BY <2>2, <3>1, <4>1, FrameNames
    <3>2. CASE LateUpstreamFrame
      BY <1>4, <3>2, HandlersCalm
    <3>3. CASE DrainUncertainFrame(f)
      BY <2>2, <3>3, DrainWire DEF Ended
    <3> QED
      BY <2>1, <3>1, <3>2, <3>3
  <2> QED
    BY <1>3, <2>1, <2>3, <2>4
<1>11. CASE LinkFails
  <2>1. /\ UpstreamClosed \/ WriteFailed(0)
        /\ replies' = <<>> /\ UNCHANGED <<received, requests>>
    BY <1>11 DEF LinkFails
  <2>2. Rests
    BY <2>1, HandlersCalm DEF ClientStep
  <2> QED
    BY <1>3, <1>4, <2>1, <2>2 DEF OwnersIn
<1>12. CASE Reconnect
  <2>1. /\ outgoing' = <<>> /\ received' = <<>> /\ replies' = <<>>
        /\ requests' \in {requests, <<>>} /\ active' = active
    BY <1>12 DEF Reconnect, Restart
  <2> QED
    BY <1>3, <2>1 DEF OwnersIn, Busy
<1>13. CASE CompanionStep
  <2>1. UNCHANGED vars
    BY <1>13, CompanionSends
  <2>2. Owners(outgoing, outgoing') /\ (Busy' => active'.owner \in Mine)
    BY <2>1 DEF vars, Busy
  <2>3. \A s \in OwnersIn(received') \cup OwnersIn(requests')
                   \cup OwnersIn(replies') : s \in Named \cup Here
    BY <1>1, <1>13, NamedSent
  <2> QED
    BY <1>2, <2>2, <2>3
<1> QED
  BY <1>6, <1>7, <1>8, <1>9, <1>10, <1>11, <1>12, <1>13 DEF MuxNext

-----------------------------------------------------------------------------
(* Whose the lease is, and what it waits for                               *)

SentTokens ==
  \A i \in DOMAIN replies :
    replies[i].frame.code = "sent" => replies[i].frame.arg = Token

\* The key that the lease has once its SENT is recorded.
ResultKey(lease) ==
  IF lease.tentative THEN RemoteAccepted(lease, Token).key ELSE lease.key

KeyOf(command) ==
  IF command.op \in {"send_binary_req", "send_anon_req"} THEN Token
  ELSE command.arg

Suited(lease, f) ==
  lease.kind \in RemotePushes[f.code] /\ f.arg = ResultKey(lease)

\* As long as its client is here, the lease is that client's: from the dispatch
\* of the request, tx being the running transaction,
Reserves(lease, tx, here) ==
  UnderWay(tx) /\ tx.command.op \in RemoteLease /\ tx.owner \in here =>
    lease.owner = tx.owner /\ lease.key = tx.command.arg

\* while the companion works on one that it was given, the SENT of which is on
\* its way in coming until the lease has recorded it,
Awaits(lease, given, coming, here) ==
  \A i \in DOMAIN given : given[i].owner \in here =>
    /\ lease.owner = given[i].owner
    /\ lease.kind = given[i].command.op
    /\ ResultKey(lease) = KeyOf(given[i].command)
    /\ lease.tentative => \E k \in DOMAIN coming : coming[k].id # 0

\* and until the result that is coming, which has the lease's key, is there.
Gets(lease, coming, here) ==
  \A j \in DOMAIN coming : IsResult(coming[j].frame) /\ coming[j].owner \in here =>
    /\ lease.owner = coming[j].owner
    /\ Suited(lease, coming[j].frame)
    /\ lease.tentative => \E k \in DOMAIN coming : coming[k].id # 0 /\ k < j

Serves(lease, tx, given, coming, here) ==
  /\ Reserves(lease, tx, here)
  /\ Awaits(lease, given, coming, here)
  /\ Gets(lease, coming, here)

Served == Serves(remote, active, requests, replies, DOMAIN sessions)

\* The inductive invariant of the results, while the lease has no deadline.
ResultInv == Known /\ SentTokens /\ Served

\* A lease that passes to the clients that stay serves those it served.
LEMMA ServesOn ==
  ASSUME TypeInv, TypeInv', Newcomers, \A s \in Named' : s <= next_session,
         NEW r, Passes(r),
         Serves(r, active', requests', replies',
                DOMAIN sessions \cap DOMAIN sessions')
  PROVE  Served'
<1> DEFINE here == DOMAIN sessions \cap DOMAIN sessions'
<1>1. ASSUME NEW s \in Named', s \in DOMAIN sessions'
      PROVE  s \in here /\ (r.owner = s => remote' = r)
  <2>1. s \in Nat \ {0} /\ next_session \in Nat
    BY <1>1 DEF TypeInv, TypeOK
  <2>2. s \in DOMAIN sessions
    BY <1>1, <2>1 DEF Newcomers
  <2> QED
    BY <1>1, <2>1, <2>2 DEF Passes
<1> HIDE DEF here
<1>2. Reserves(remote', active', DOMAIN sessions')
  <2>1. UnderWay(active') => active'.owner \in Named'
    BY DEF Named, Busy, UnderWay
  <2> QED
    BY <1>1, <2>1 DEF Serves, Reserves, here
<1>3. Awaits(remote', requests', replies', DOMAIN sessions')
  <2>1. \A i \in DOMAIN requests' : requests'[i].owner \in Named'
    BY DEF Named, OwnersIn
  <2> QED
    BY <1>1, <2>1 DEF Serves, Awaits, here
<1>4. Gets(remote', replies', DOMAIN sessions')
  <2>1. \A j \in DOMAIN replies' : replies'[j].owner \in Named'
    BY DEF Named, OwnersIn
  <2> QED
    BY <1>1, <2>1 DEF Serves, Gets, here
<1> QED
  BY <1>2, <1>3, <1>4 DEF Served, Serves

\* Without a client there is nobody to serve, and without a lease nothing is
\* asked for.
LEMMA ServesNobody ==
  ASSUME DOMAIN sessions' = {}
  PROVE  Served'
BY DEF Served, Serves, Reserves, Awaits, Gets

Unleased == remote.kind = "none"

LEMMA ServesFree == BrokerInv /\ RemoteInv /\ Unleased => Served
<1> SUFFICES ASSUME BrokerInv, Leased, Unleased
             PROVE  Served
  BY DEF RemoteInv
<1>1. ReservationInFlight
  BY ReservationHolds
<1>2. RemoteWork = {}
  BY DEF Leased, Unleased
<1>3. DOMAIN requests = {} /\ \A j \in DOMAIN replies : ~ IsResult(replies[j].frame)
  BY <1>2 DEF RemoteWork, Underway, Reported
<1>4. UnderWay(active) => active.command.op \notin RemoteLease
  BY <1>1 DEF ReservationInFlight, Unleased, UnderWay, RemoteLease
<1> QED
  BY <1>3, <1>4 DEF Served, Serves, Reserves, Awaits, Gets

LEMMA ServesFreed == BrokerInv' /\ RemoteInv' /\ Unleased' => Served'
BY ServesFree, PTL

LEMMA TokensKept ==
  ASSUME TypeInv, CompanionType, SentTokens, MuxNext
  PROVE  SentTokens'
<1>1. replies \in Seq(Sending)
  BY DEF CompanionType
<1>2. CASE replies' = replies
  BY <1>2 DEF SentTokens
<1>3. CASE replies # <<>> /\ replies' = Tail(replies)
  BY <1>1, <1>3, TakenFrame DEF SentTokens
<1>4. CASE replies' = <<>>
  BY <1>4 DEF SentTokens
<1>5. ASSUME NEW more \in Seq(Sending), replies' = replies \o more,
             \A i \in DOMAIN more :
               more[i].frame.code = "sent" => more[i].frame.arg = Token
      PROVE  SentTokens'
  BY <1>5, SentBehind DEF SentTokens
<1>6. CASE CompanionStep
  <2>1. CASE /\ received # <<>>
             /\ \E frames \in Seq(SentFrames) :
                  /\ replies' = replies \o Answer(Head(received), frames)
                  /\ \A i \in DOMAIN frames :
                       frames[i].code = "sent" => frames[i].arg = Token
    <3>1. PICK frames \in Seq(SentFrames) :
            /\ replies' = replies \o Answer(Head(received), frames)
            /\ \A i \in DOMAIN frames :
                 frames[i].code = "sent" => frames[i].arg = Token
      BY <2>1
    <3> DEFINE more == Answer(Head(received), frames)
    <3>2. Head(received) \in Write
      BY <2>1, FirstAndOthers DEF CompanionType
    <3>3. /\ more \in Seq(Sending)
          /\ \A i \in DOMAIN more : i \in DOMAIN frames /\ more[i].frame = frames[i]
      <4>1. more \in Seq(Sending)
        BY <3>2, AnswerType
      <4> QED
        BY <4>1 DEF Answer
    <3>4. replies' = replies \o more
      BY <3>1
    <3> HIDE DEF more
    <3> QED
      BY <1>5, <3>1, <3>3, <3>4
  <2>2. CASE \E owner \in Nat, f \in SentFrames :
               f.code # "sent" /\ Announces(owner, f)
    <3>1. PICK owner \in Nat, f \in SentFrames :
            f.code # "sent" /\ Announces(owner, f)
      BY <2>2
    <3> DEFINE more == Announce(owner, f)
    <3>2. more \in Seq(Sending) /\ \A i \in DOMAIN more : more[i].frame = f
      <4>1. more \in Seq(Sending)
        BY AnnounceType
      <4> QED
        BY <4>1 DEF Announce
    <3>3. replies' = replies \/ replies' = replies \o more
      BY <3>1 DEF Announces
    <3> HIDE DEF more
    <3> QED
      BY <1>2, <1>5, <3>1, <3>2, <3>3
  <2> QED
    BY <1>6, <2>1, <2>2, CompanionSends
<1>7. ASSUME ~ CompanionStep
      PROVE  \/ replies' = replies \/ replies' = <<>>
             \/ replies # <<>> /\ replies' = Tail(replies)
  BY <1>7
     DEF MuxNext, Clients, ClientRequest, Clock, Schedule, WriterWrites,
         WriterReports, FrameArrives, LinkFails, DrainDebt, Reconnect,
         companionVars
<1> QED
  BY <1>2, <1>3, <1>4, <1>6, <1>7

\* A reply leaves the command that is under way its job, and the one to a remote
\* request ends it.
LEMMA RespondsUnderWay ==
  ASSUME TypeInv, NEW x, NEW f, Responds(WriteIsOver, x, f), UnderWay(x.active)
  PROVE  /\ UnderWay(active) /\ x.active.owner = active.owner
         /\ x.active.command = active.command
         /\ active.step = "command" => active.command.op \notin RemoteLease
<1> DEFINE tx == WriteIsOver.active
           onwards(step) ==
             [tx EXCEPT !.step = step, !.write = WriteIsOver.next_write + 1]
           started == [tx EXCEPT !.contacts_started = TRUE]
           over == [tx EXCEPT !.step = "result"]
<1>1. /\ tx \in Transaction /\ tx.step = active.step /\ tx.owner = active.owner
      /\ tx.command = active.command
  BY DEF WriteIsOver, Now, TypeInv, TypeOK, Transaction
<1>2. /\ ~ UnderWay(NoTransaction) /\ ~ UnderWay(over)
      /\ ~ UnderWay(onwards("restore"))
  BY <1>1 DEF UnderWay, NoTransaction, Transaction
<1>3. /\ onwards("command").owner = active.owner
      /\ onwards("command").command = active.command
      /\ started.owner = active.owner /\ started.command = active.command
  BY <1>1 DEF Transaction
<1>4. \/ active.step = "setup" /\ x.active = onwards("command")
      \/ /\ active.step = "command" /\ ~ Completes(active.command, f)
         /\ x.active = started
      \/ x.active \in {NoTransaction, over, onwards("restore")}
  BY <1>1 DEF Responds
<1>5. ~ Completes(active.command, f) => active.command.op \notin RemoteLease
  BY DEF Completes, RemoteLease
<1> HIDE DEF tx, onwards, started, over
<1> QED
  BY <1>2, <1>3, <1>4, <1>5 DEF UnderWay

LEMMA FrameUnderWay ==
  ASSUME TypeInv, Ended', NEW f \in Frames, UpstreamFrame(f), UnderWay(active')
  PROVE  /\ UnderWay(active) /\ active'.owner = active.owner
         /\ active'.command = active.command
         /\ active.step = "command" /\ active.command.op \in RemoteLease =>
              f.code \in PushCodes
<1>1. ~ failed'
  BY DEF Ended, Busy, UnderWay
<1>2. CASE f.code \in PushCodes /\ ~ AnswersSelfTelemetry(f)
  <2>1. active' = active
    BY <1>1, <1>2, UpstreamFrameWire DEF Rests
  <2> QED
    BY <1>2, <2>1
<1>3. CASE Answered(f)
  <2>1. PICK x : Responds(WriteIsOver, x, f) /\ active' = x.active
    BY <1>3 DEF Answered
  <2> QED
    BY <2>1, RespondsUnderWay
<1> QED
  BY <1>1, <1>2, <1>3, UpstreamFrameWire

LEMMA TentativeKind == BrokerInv /\ remote.tentative => remote.kind \in RemoteLease
BY NowSound DEF BrokerInv, TransactionInv, Sound, LeaseIn, Now

\* A frame reaches the coordinator.
LEMMA ServesFrame ==
  ASSUME BrokerInv, BrokerInv', LinkType, WireInv, RemoteInv, RemoteInv',
         ResultInv, FrameArrives, \A s \in Named' : s <= next_session
  PROVE  Served'
<1> DEFINE f == Head(replies).frame
           here == DOMAIN sessions \cap DOMAIN sessions'
<1>1. /\ replies # <<>> /\ replies' = Tail(replies) /\ requests' = requests
      /\ UpstreamFrame(f) \/ LateUpstreamFrame
  BY DEF FrameArrives
<1>2. /\ TypeInv /\ TypeInv' /\ Ended' /\ CompanionType /\ Served /\ SentTokens
      /\ ReservationInFlight
  BY LinkParts, ReservationHolds DEF BrokerInv, ResultInv
<1>3. /\ f \in Frames /\ 1 \in DOMAIN replies /\ replies[1].frame = f
      /\ \A i \in DOMAIN replies' :
           i + 1 \in DOMAIN replies /\ replies'[i] = replies[i + 1] /\ i \in Nat
      /\ \A i \in DOMAIN replies :
           i = 1 \/ (i - 1 \in DOMAIN replies' /\ replies'[i - 1] = replies[i])
      /\ DOMAIN replies \subseteq Nat
  BY <1>1, <1>2, NextFrame, TakenFrame DEF CompanionType
<1> HIDE DEF f
<1>4. CASE failed' \/ LateUpstreamFrame
  <2>1. failed'
    <3>1. LateUpstreamFrame => Fail(Now).failing /\ Commit(Fail(Now))
      BY DEF LateUpstreamFrame, CommitAndSchedule, Fail, Now
    <3> QED
      BY <1>4, <3>1, CommitWire
  <2> QED
    BY <1>2, <2>1, ServesNobody DEF Ended
<1>5. CASE UpstreamFrame(f) /\ ~ failed'
  <2>1. /\ Newcomers
        /\ \/ remote'.kind = "none"
           \/ Passes(remote)
           \/ Accepting(active, f) /\ Passes(RemoteAccepted(remote, f.arg))
    BY <1>2, <1>3, <1>5, FramePasses
  <2>2. UnderWay(active') =>
          /\ UnderWay(active) /\ active'.owner = active.owner
          /\ active'.command = active.command
          /\ active.step = "command" /\ active.command.op \in RemoteLease =>
               f.code \in PushCodes
    BY <1>2, <1>3, <1>5, FrameUnderWay
  <2>3. CASE remote'.kind = "none"
    BY <2>3, ServesFreed DEF Unleased
  <2>4. ASSUME Accepting(active, f), Passes(RemoteAccepted(remote, f.arg))
        PROVE  Served'
    <3> DEFINE r == RemoteAccepted(remote, Token)
    <3>1. /\ f.code = "sent" /\ f.arg = Token /\ f.code \notin PushCodes
          /\ active.step = "command" /\ active.command.op \in RemoteLease
      BY <1>2, <1>3, <2>4 DEF Accepting, SentTokens, PushCodes, RemotePushes
    <3>2. remote.tentative /\ remote \in Remote
      BY <1>2, <3>1 DEF ReservationInFlight, TypeInv, TypeOK
    <3>3. /\ ~ r.tentative /\ r.owner = remote.owner /\ r.kind = remote.kind
          /\ ResultKey(r) = ResultKey(remote)
      BY <3>2 DEF RemoteAccepted, ResultKey, Remote
    <3>4. Passes(r)
      BY <2>4, <3>1
    <3> HIDE DEF r
    <3>5. ~ UnderWay(active')
      BY <2>2, <3>1
    <3>6. Reserves(r, active', here)
      BY <3>5 DEF Reserves
    <3>7. Awaits(r, requests', replies', here)
      BY <1>1, <1>2, <3>3 DEF Awaits, Served, Serves
    <3>8. Gets(r, replies', here)
      BY <1>2, <1>3, <3>3 DEF Gets, Suited, Served, Serves
    <3> QED
      BY <1>2, <2>1, <3>4, <3>6, <3>7, <3>8, ServesOn DEF Serves
  <2>5. CASE Passes(remote)
    <3>1. Reserves(remote, active', here)
      BY <1>2, <2>2 DEF Reserves, Served, Serves
    <3>2. ASSUME remote.tentative, 1 \in Ordinary, NEW s \in DOMAIN sessions',
                 remote.owner = s, RemoteWork # {}
          PROVE  FALSE
      <4>1. s # 0
        BY <1>2 DEF TypeInv, TypeOK
      <4>2. remote' = remote
        BY <2>5, <3>2, <4>1 DEF Passes
      <4>3. ReservationInFlight'
        BY ReservationKept
      <4>4. UnderWay(active') /\ active'.command.op \in RemoteLease
        BY <3>2, <4>2, <4>3, TentativeKind DEF ReservationInFlight, UnderWay
      <4>5. active.step = "command" /\ active.command.op \in RemoteLease
        BY <2>2, <3>2, <4>4 DEF RemoteInv, AsksOnce, UnderWay
      <4>6. f.code \in PushCodes
        BY <2>2, <4>4, <4>5
      <4>7. InPlace(1)
        BY <1>3, <1>5 DEF WireInv, Answering, UpstreamFrame, AtRest
      <4>8. active.command.op = "self_telemetry"
        BY <1>3, <3>2, <4>6, <4>7 DEF InPlace, AnswersSelfTelemetry
      <4> QED
        BY <4>5, <4>8 DEF RemoteLease
    <3>3. ASSUME remote.tentative, NEW s \in here, remote.owner = s,
                 RemoteWork # {}, NEW k \in DOMAIN replies, replies[k].id # 0
          PROVE  k - 1 \in DOMAIN replies' /\ replies'[k - 1].id # 0
      <4>1. k = 1 => 1 \in Ordinary
        BY <1>3, <3>3 DEF Ordinary
      <4> QED
        BY <1>3, <3>2, <3>3, <4>1
    <3>4. Awaits(remote, requests', replies', here)
      <4> SUFFICES ASSUME NEW i \in DOMAIN requests, requests[i].owner \in here,
                          remote.tentative, remote.owner = requests[i].owner,
                          NEW k \in DOMAIN replies, replies[k].id # 0
                   PROVE  \E l \in DOMAIN replies' : replies'[l].id # 0
        BY <1>1, <1>2 DEF Awaits, Served, Serves
      <4>1. RemoteWork # {}
        BY DEF RemoteWork, Underway
      <4> QED
        BY <3>3, <4>1
    <3>5. Gets(remote, replies', here)
      <4> SUFFICES ASSUME NEW j \in DOMAIN replies', IsResult(replies'[j].frame),
                          replies'[j].owner \in here
                   PROVE  /\ remote.owner = replies'[j].owner
                          /\ Suited(remote, replies'[j].frame)
                          /\ remote.tentative =>
                               \E k \in DOMAIN replies' : replies'[k].id # 0 /\ k < j
        BY DEF Gets
      <4>1. /\ j + 1 \in DOMAIN replies /\ replies'[j] = replies[j + 1] /\ j \in Nat
        BY <1>3
      <4>2. /\ remote.owner = replies'[j].owner
            /\ Suited(remote, replies'[j].frame)
            /\ remote.tentative =>
                 \E k \in DOMAIN replies : replies[k].id # 0 /\ k < j + 1
        BY <1>2, <4>1 DEF Gets, Served, Serves
      <4>3. RemoteWork # {}
        BY <4>1 DEF RemoteWork, Reported
      <4>4. ASSUME remote.tentative
            PROVE  \E k \in DOMAIN replies' : replies'[k].id # 0 /\ k < j
        <5>1. PICK k \in DOMAIN replies : replies[k].id # 0 /\ k < j + 1
          BY <4>2, <4>4
        <5>2. k - 1 \in DOMAIN replies' /\ replies'[k - 1].id # 0
          BY <3>3, <4>2, <4>3, <4>4, <5>1
        <5>3. k - 1 < j
          BY <1>3, <4>1, <5>1
        <5> QED
          BY <5>2, <5>3
      <4> QED
        BY <4>2, <4>4
    <3> QED
      BY <1>2, <2>1, <2>5, <3>1, <3>4, <3>5, ServesOn DEF Serves
  <2> QED
    BY <2>1, <2>3, <2>4, <2>5
<1> QED
  BY <1>1, <1>4, <1>5

\* Frames without a result are added behind those on their way.
LEMMA ServesBehind ==
  ASSUME CompanionType, NEW more \in Seq(Sending), replies' = replies \o more,
         NEW here, Gets(remote, replies, here),
         \A i \in DOMAIN more : IsResult(more[i].frame) /\ more[i].owner \in here =>
           /\ remote.owner = more[i].owner /\ Suited(remote, more[i].frame)
           /\ remote.tentative => \E k \in DOMAIN replies : replies[k].id # 0
  PROVE  Gets(remote, replies', here)
<1>1. /\ \A i \in DOMAIN replies' :
           \/ i \in DOMAIN replies /\ replies'[i] = replies[i]
           \/ /\ i > Len(replies) /\ i - Len(replies) \in DOMAIN more
              /\ replies'[i] = more[i - Len(replies)]
      /\ \A i \in DOMAIN replies : i \in DOMAIN replies' /\ replies'[i] = replies[i]
      /\ DOMAIN replies' \subseteq Nat /\ DOMAIN replies = 1 .. Len(replies)
      /\ Len(replies) \in Nat
  BY SentBehind
<1> SUFFICES ASSUME NEW j \in DOMAIN replies', IsResult(replies'[j].frame),
                    replies'[j].owner \in here
             PROVE  /\ remote.owner = replies'[j].owner
                    /\ Suited(remote, replies'[j].frame)
                    /\ remote.tentative =>
                         \E k \in DOMAIN replies' : replies'[k].id # 0 /\ k < j
  BY DEF Gets
<1>2. CASE j \in DOMAIN replies /\ replies'[j] = replies[j]
  BY <1>1, <1>2 DEF Gets
<1>3. CASE /\ j > Len(replies) /\ j - Len(replies) \in DOMAIN more
           /\ replies'[j] = more[j - Len(replies)]
  <2>1. /\ remote.owner = replies'[j].owner /\ Suited(remote, replies'[j].frame)
        /\ remote.tentative => \E k \in DOMAIN replies : replies[k].id # 0
    BY <1>3
  <2>2. \A k \in DOMAIN replies :
          k < j /\ k \in DOMAIN replies' /\ replies'[k] = replies[k]
    BY <1>1, <1>3
  <2> QED
    BY <2>1, <2>2
<1> QED
  BY <1>1, <1>2, <1>3

\* The companion answers, and may have taken on a request.
LEMMA ServesAnswered ==
  ASSUME BrokerInv, LinkType, WireInv, ResultInv, ~ failed,
         received # <<>>, NEW frames \in Seq(SentFrames),
         replies' = replies \o Answer(Head(received), frames),
         \A i \in DOMAIN frames : ~ IsResult(frames[i]),
         \/ requests' = requests
         \/ /\ Head(received).command.op \in RemoteLease
            /\ requests' = Append(requests,
                                  [command |-> Head(received).command,
                                   owner |-> Head(received).owner])
            /\ frames = <<Frame("sent", Token)>>
  PROVE  Serves(remote, active, requests', replies', DOMAIN sessions)
<1> DEFINE job == Head(received)
           more == Answer(job, frames)
           here == DOMAIN sessions
<1>1. /\ CompanionType /\ TypeInv /\ Aligned /\ Served /\ ReservationInFlight
      /\ requests \in Seq(Accepted)
  BY LinkParts, ReservationHolds DEF BrokerInv, WireInv, ResultInv, CompanionType
<1>2. /\ job = Job(next_write, active) /\ next_write # 0
      /\ active.step \in {"setup", "command", "restore"}
  BY <1>1 DEF Aligned
<1>3. /\ more \in Seq(Sending) /\ Len(more) = Len(frames)
      /\ \A i \in DOMAIN more :
           /\ i \in DOMAIN frames /\ more[i].frame = frames[i]
           /\ more[i].id = next_write
  <2>1. job \in Write
    BY <1>1, FirstAndOthers DEF CompanionType
  <2>2. more \in Seq(Sending) /\ Len(more) = Len(frames)
    BY <2>1, AnswerType
  <2> QED
    BY <1>2, <2>2 DEF Answer, Job
<1>4. replies' = replies \o more
  OBVIOUS
<1> HIDE DEF job, more, here
<1>5. Gets(remote, replies', here)
  <2>1. Gets(remote, replies, here)
    BY <1>1 DEF Served, Serves, here
  <2> QED
    BY <1>1, <1>3, <1>4, <2>1, ServesBehind
<1>6. Reserves(remote, active, here)
  BY <1>1 DEF Served, Serves, here
<1>7. ASSUME NEW i \in DOMAIN requests, requests[i].owner \in here
      PROVE  /\ remote.owner = requests[i].owner
             /\ remote.kind = requests[i].command.op
             /\ ResultKey(remote) = KeyOf(requests[i].command)
             /\ remote.tentative => \E k \in DOMAIN replies' : replies'[k].id # 0
  <2>1. /\ remote.owner = requests[i].owner
        /\ remote.kind = requests[i].command.op
        /\ ResultKey(remote) = KeyOf(requests[i].command)
        /\ remote.tentative => \E k \in DOMAIN replies : replies[k].id # 0
    BY <1>1, <1>7 DEF Awaits, Served, Serves, here
  <2>2. \A k \in DOMAIN replies : k \in DOMAIN replies' /\ replies'[k] = replies[k]
    BY <1>1, <1>3, <1>4, SentBehind
  <2> QED
    BY <2>1, <2>2
<1>8. ASSUME job.command.op \in RemoteLease, job.owner \in here,
             frames = <<Frame("sent", Token)>>
      PROVE  /\ remote.owner = job.owner
             /\ remote.kind = job.command.op
             /\ ResultKey(remote) = KeyOf(job.command)
             /\ remote.tentative => \E k \in DOMAIN replies' : replies'[k].id # 0
  <2>1. /\ active.step = "command" /\ job.command = active.command
        /\ job.owner = active.owner
    BY <1>2, <1>8 DEF Job, WireCommand, SetScope, RemoteLease
  <2>2. UnderWay(active)
    BY <2>1 DEF UnderWay
  <2>3. remote.owner = job.owner /\ remote.key = job.command.arg
    BY <1>6, <1>8, <2>1, <2>2 DEF Reserves
  <2>4. remote.tentative /\ remote.kind = job.command.op
    BY <1>1, <1>8, <2>1 DEF ReservationInFlight
  <2>5. ResultKey(remote) = KeyOf(job.command)
    <3>1. remote \in Remote
      BY <1>1 DEF TypeInv, TypeOK
    <3> QED
      BY <2>3, <2>4, <3>1 DEF ResultKey, RemoteAccepted, KeyOf, Remote
  <2>6. \E k \in DOMAIN replies' : replies'[k].id # 0
    <3>1. 1 \in DOMAIN more
      BY <1>3, <1>8
    <3>2. Len(replies) + 1 \in DOMAIN replies' /\ replies'[Len(replies) + 1] = more[1]
      BY <1>1, <1>3, <1>4, <3>1, SentBehind
    <3> QED
      BY <1>2, <1>3, <3>1, <3>2
  <2> QED
    BY <2>3, <2>4, <2>5, <2>6
<1>9. Awaits(remote, requests', replies', here)
  <2>1. CASE requests' = requests
    BY <1>7, <2>1 DEF Awaits
  <2>2. CASE /\ job.command.op \in RemoteLease
             /\ requests' = Append(requests, [command |-> job.command,
                                              owner |-> job.owner])
             /\ frames = <<Frame("sent", Token)>>
    <3> DEFINE new == [command |-> job.command, owner |-> job.owner]
    <3>1. new.command = job.command /\ new.owner = job.owner
      OBVIOUS
    <3> HIDE DEF new
    <3>2. \A i \in DOMAIN requests' :
            \/ i \in DOMAIN requests /\ requests'[i] = requests[i]
            \/ requests'[i] = new
      BY <1>1, <2>2 DEF new
    <3> QED
      BY <1>7, <1>8, <2>2, <3>1, <3>2 DEF Awaits
  <2> QED
    BY <2>1, <2>2 DEF job
<1> QED
  BY <1>5, <1>6, <1>9 DEF Serves, here

\* The companion announces something, which may be the result of a request.
LEMMA ServesAnnounced ==
  ASSUME CompanionType, Served, NEW owner \in Nat, NEW f \in SentFrames,
         Announces(owner, f),
         \/ ~ IsResult(f) /\ requests' = requests
         \/ \E i \in DOMAIN requests :
              /\ owner = requests[i].owner
              /\ requests' = Cut(requests, i)
              /\ requests[i].command.op \in RemotePushes[f.code]
              /\ f.arg = IF f.code = "binary_response" THEN Token
                         ELSE requests[i].command.arg
  PROVE  Serves(remote, active, requests', replies', DOMAIN sessions)
<1> DEFINE more == Announce(owner, f)
           here == DOMAIN sessions
<1>1. requests \in Seq(Accepted)
  BY DEF CompanionType
<1>2. /\ more \in Seq(Sending)
      /\ \A i \in DOMAIN more : more[i].frame = f /\ more[i].owner = owner
  <2>1. more \in Seq(Sending)
    BY AnnounceType
  <2> QED
    BY <2>1 DEF Announce
<1>3. replies' = replies \/ replies' = replies \o more
  BY DEF Announces
<1> HIDE DEF more
<1>4. ASSUME NEW i \in DOMAIN requests, requests[i].owner \in here,
             owner = requests[i].owner, f.code \in DOMAIN RemotePushes,
             requests[i].command.op \in RemotePushes[f.code],
             f.arg = IF f.code = "binary_response" THEN Token
                     ELSE requests[i].command.arg
      PROVE  /\ remote.owner = owner /\ Suited(remote, f)
             /\ remote.tentative => \E k \in DOMAIN replies : replies[k].id # 0
  <2>1. /\ remote.owner = owner
        /\ remote.kind = requests[i].command.op
        /\ ResultKey(remote) = KeyOf(requests[i].command)
        /\ remote.tentative => \E k \in DOMAIN replies : replies[k].id # 0
    BY <1>4 DEF Awaits, Served, Serves
  <2>2. f.code = "binary_response" <=>
          requests[i].command.op \in {"send_binary_req", "send_anon_req"}
    BY <1>4 DEF RemotePushes
  <2> QED
    BY <1>4, <2>1, <2>2 DEF Suited, KeyOf
<1>5. Gets(remote, replies', here)
  <2>1. Gets(remote, replies, here)
    BY DEF Served, Serves
  <2>2. ASSUME IsResult(f), owner \in here
        PROVE  /\ remote.owner = owner /\ Suited(remote, f)
               /\ remote.tentative => \E k \in DOMAIN replies : replies[k].id # 0
    BY <1>4, <2>2 DEF IsResult
  <2> QED
    BY <1>2, <1>3, <2>1, <2>2, ServesBehind
<1>6. ASSUME NEW i \in DOMAIN requests, requests[i].owner \in here
      PROVE  /\ remote.owner = requests[i].owner
             /\ remote.kind = requests[i].command.op
             /\ ResultKey(remote) = KeyOf(requests[i].command)
             /\ remote.tentative => \E k \in DOMAIN replies' : replies'[k].id # 0
  <2>1. /\ remote.owner = requests[i].owner
        /\ remote.kind = requests[i].command.op
        /\ ResultKey(remote) = KeyOf(requests[i].command)
        /\ remote.tentative => \E k \in DOMAIN replies : replies[k].id # 0
    BY <1>6 DEF Awaits, Served, Serves
  <2>2. \A k \in DOMAIN replies : k \in DOMAIN replies' /\ replies'[k] = replies[k]
    BY <1>2, <1>3, SentBehind
  <2> QED
    BY <2>1, <2>2
<1>7. Awaits(remote, requests', replies', here)
  <2>1. \A i \in DOMAIN requests' :
          \E j \in DOMAIN requests : requests'[i] = requests[j]
    BY <1>1, EntryGone
  <2> QED
    BY <1>6, <2>1 DEF Awaits
<1> QED
  BY <1>5, <1>7 DEF Served, Serves

LEMMA ServesStep ==
  ASSUME "remote" \notin Deadlines, BrokerInv, BrokerInv', LinkType, LinkType',
         WireInv, RemoteInv, RemoteInv', ResultInv, MuxNext,
         \A s \in Named' : s <= next_session
  PROVE  Served'
<1> DEFINE here == DOMAIN sessions \cap DOMAIN sessions'
<1>1. /\ TypeInv /\ TypeInv' /\ Ended /\ Ended' /\ CompanionType /\ Served
      /\ active \in Transaction
  BY LinkParts DEF BrokerInv, ResultInv, TypeInv, TypeOK
<1>2. failed' => Served'
  BY <1>1, ServesNobody DEF Ended
<1>3. ASSUME Newcomers, Passes(remote), requests' = requests, replies' = replies,
             UnderWay(active') => /\ UnderWay(active)
                                  /\ active'.owner = active.owner
                                  /\ active'.command = active.command
      PROVE  Served'
  <2>1. Serves(remote, active', requests', replies', here)
    BY <1>1, <1>3 DEF Served, Serves, Reserves, Awaits, Gets
  <2> QED
    BY <1>1, <1>3, <2>1, ServesOn
<1>4. CASE Clients \/ ClientRequest \/ Clock
  <2>1. ClientStep \/ ClockStep
    BY <1>1, <1>4, ClientsStep, ClockIsBroker
  <2>2. Rests /\ Newcomers /\ Passes(remote) /\ UNCHANGED companionVars
    BY <1>1, <1>4, <2>1, HandlersCalm DEF Clients, ClientRequest, Clock
  <2> QED
    BY <1>2, <1>3, <2>2 DEF Rests, companionVars
<1>5. CASE Schedule
  <2>1. ScheduleStep /\ requests' = requests /\ replies' = replies
    BY <1>5 DEF Schedule, companionVars
  <2>2. CASE Rests /\ Newcomers /\ Passes(remote)
    BY <1>2, <1>3, <2>1, <2>2 DEF Rests
  <2>3. ASSUME NEW k, NEW s, TurnPop(k) \/ TurnDispatch(k, s)
        PROVE  Served'
    <3>1. /\ IF active'.command.op \in RemoteLease
             THEN /\ remote.kind = "none"
                  /\ Passes(Reserve(active'.owner, active'.command))
             ELSE Passes(remote)
          /\ Newcomers
      BY <1>1, <2>3, TurnLeases
    <3>2. CASE active'.command.op \in RemoteLease
      <4> DEFINE r == Reserve(active'.owner, active'.command)
      <4>1. r.owner = active'.owner /\ r.key = active'.command.arg
        BY DEF Reserve
      <4>2. Passes(r)
        BY <3>1, <3>2
      <4> HIDE DEF r
      <4>3. RemoteWork = {}
        BY <3>1, <3>2 DEF RemoteInv, Leased
      <4>4. /\ DOMAIN requests = {}
            /\ \A j \in DOMAIN replies : ~ IsResult(replies[j].frame)
        BY <4>3 DEF RemoteWork, Underway, Reported
      <4>5. Serves(r, active', requests', replies', here)
        BY <2>1, <4>1, <4>4 DEF Serves, Reserves, Awaits, Gets
      <4> QED
        BY <1>1, <3>1, <4>2, <4>5, ServesOn
    <3>3. CASE active'.command.op \notin RemoteLease
      <4>1. Serves(remote, active', requests', replies', here)
        BY <1>1, <2>1, <3>3 DEF Served, Serves, Reserves, Awaits, Gets
      <4> QED
        BY <1>1, <3>1, <3>3, <4>1, ServesOn
    <3> QED
      BY <3>2, <3>3
  <2>4. \/ Rests /\ Newcomers /\ Passes(remote)
        \/ \E k, s : TurnPop(k) \/ TurnDispatch(k, s)
    BY <1>1, <2>1, HandlersCalm DEF ScheduleStep
  <2> QED
    BY <2>2, <2>3, <2>4
<1>6. CASE UNCHANGED <<sessions, remote, active, requests, replies>>
  BY <1>1, <1>6 DEF Served, Serves, Reserves, Awaits, Gets
<1>7. CASE WriterWrites
  BY <1>6, <1>7 DEF WriterWrites, TakeWrite
<1>8. CASE WriterReports
  <2>1. /\ requests' = requests /\ replies' = replies
        /\ UpstreamWritten(wrote) \/ UNCHANGED vars
    BY <1>8 DEF WriterReports, companionVars
  <2>2. CASE UNCHANGED vars
    BY <1>6, <2>1, <2>2 DEF vars
  <2>3. CASE UpstreamWritten(wrote)
    <3>1. /\ Passes(remote) /\ Newcomers
          /\ failed' \/ \E v : active' = [active EXCEPT !.write = v]
      BY <1>1, <2>3, WrittenWire
    <3>2. ASSUME NEW v, active' = [active EXCEPT !.write = v]
          PROVE  /\ active'.step = active.step /\ active'.owner = active.owner
                 /\ active'.command = active.command
      BY <1>1, <3>2 DEF Transaction
    <3> QED
      BY <1>2, <1>3, <2>1, <3>1, <3>2 DEF UnderWay
  <2> QED
    BY <2>1, <2>2, <2>3
<1>9. CASE FrameArrives
  BY <1>9, ServesFrame
<1>10. CASE LinkFails
  <2>1. Fail(Now).failing /\ Commit(Fail(Now))
    BY <1>10 DEF LinkFails, UpstreamClosed, WriteFailed, CommitAndSchedule,
       Fail, Now
  <2> QED
    BY <1>2, <2>1, CommitWire
<1>11. CASE DrainDebt
  <2>1. Head(replies).frame \in Frames
    BY <1>1, <1>11, NextFrame DEF DrainDebt
  <2> QED
    BY <1>1, <1>2, <1>11, <2>1, DrainWire DEF DrainDebt
<1>12. CASE Reconnect
  <2>1. failed /\ sessions' = sessions
    BY <1>12 DEF Reconnect, Restart
  <2> QED
    BY <1>1, <2>1, ServesNobody DEF Ended
<1>13. CASE CompanionStep
  <2>1. UNCHANGED vars
    BY <1>1, <1>13, CompanionSends
  <2>2. CASE ~ failed
    <3>1. Serves(remote, active, requests', replies', DOMAIN sessions)
      BY <1>1, <1>13, <2>2, CompanionSends, ServesAnswered, ServesAnnounced
    <3> QED
      BY <2>1, <3>1 DEF vars, Served, Serves, Reserves, Awaits, Gets
  <2>3. CASE failed
    BY <1>2, <2>1, <2>3 DEF vars
  <2> QED
    BY <2>2, <2>3
<1> QED
  BY <1>4, <1>5, <1>7, <1>8, <1>9, <1>10, <1>11, <1>12, <1>13 DEF MuxNext

LEMMA ResultInvInit == MuxInit => ResultInv
<1>1. ASSUME MuxInit
      PROVE  ResultInv
  <2>1. /\ outgoing = <<>> /\ received = <<>> /\ replies = <<>>
        /\ requests = <<>> /\ active = NoTransaction /\ DOMAIN sessions = {}
    BY <1>1 DEF MuxInit, Init, CompanionInit
  <2>2. Named = {}
    BY <2>1 DEF Named, OwnersIn, Busy, NoTransaction
  <2> QED
    BY <2>1, <2>2
       DEF ResultInv, Known, SentTokens, Served, Serves, Reserves, Awaits, Gets
<1> QED
  BY <1>1

LEMMA ResultInvStep ==
  ASSUME "remote" \notin Deadlines, BrokerInv, BrokerInv', LinkType, LinkType',
         WireInv, RemoteInv, RemoteInv', ResultInv, MuxNext
  PROVE  ResultInv'
<1>1. /\ TypeInv /\ Ended /\ Ended' /\ CompanionType /\ Known /\ SentTokens
      /\ next_session \in Nat /\ DOMAIN sessions \subseteq 1 .. next_session
  BY LinkParts DEF BrokerInv, ResultInv, TypeInv, TypeOK
<1>2. \A s \in Named' : s \in Nat /\ s <= next_session
  <2>1. Named' \subseteq Named \cup DOMAIN sessions \cup {0}
    BY <1>1, NamedStep
  <2>2. Named \subseteq Nat
    BY <1>1, NamedIds
  <2> QED
    BY <1>1, <2>1, <2>2 DEF Known
<1>3. Known'
  <2>1. next_session' \in {next_session, next_session + 1}
    BY <1>1, LinkStep, ClientsCounted
  <2> QED
    BY <1>1, <1>2, <2>1 DEF Known
<1>4. SentTokens'
  BY <1>1, TokensKept
<1> QED
  BY <1>2, <1>3, <1>4, ServesStep DEF ResultInv

LEMMA ResultInvariant ==
  ASSUME "remote" \notin Deadlines
  PROVE  MuxSpec =>
           [](BrokerInv /\ LinkType /\ WireInv /\ RemoteInv /\ ResultInv)
<1>1. MuxInit => ResultInv
  BY ResultInvInit
<1>2. BrokerInv /\ BrokerInv' /\ LinkType /\ LinkType' /\ WireInv /\ RemoteInv
        /\ RemoteInv' /\ ResultInv /\ [MuxNext]_muxVars => ResultInv'
  <2>1. ASSUME ResultInv, UNCHANGED muxVars
        PROVE  ResultInv'
    <3>1. UNCHANGED <<sessions, next_session, active, outgoing, remote, received,
                      replies, requests>>
      BY <2>1 DEF muxVars, vars, companionVars, linkVars
    <3> QED
      BY <2>1, <3>1
         DEF ResultInv, Known, Named, Busy, OwnersIn, SentTokens, Served, Serves,
             Reserves, Awaits, Gets
  <2> QED
    BY <2>1, ResultInvStep
<1>3. MuxSpec => [](BrokerInv /\ LinkType /\ WireInv /\ RemoteInv)
  BY RemoteInvariant
<1> QED
  BY <1>1, <1>2, <1>3, PTL DEF MuxSpec

-----------------------------------------------------------------------------
(* Who gets the result                                                     *)

\* No session but s is given anything.
OnlyTo(s, e, x) ==
  \A t \in DOMAIN e.sessions : t # s => x.sessions[t] = e.sessions[t]

\* The session s has one more frame to write.
Gains(s, e, x) ==
  x.sessions[s].writes = Append(e.sessions[s].writes, "frame")

\* The sessions that are left are those of the handler's record.  One that it
\* does not close stays, unless it has more to write than its output takes.
LEMMA CommitTable ==
  ASSUME NEW x, Commit(x)
  PROVE  /\ \A s \in DOMAIN sessions' : sessions'[s] = x.sessions[s]
         /\ \A s \in Survivors(x) : failed' \/ s \in DOMAIN sessions'
BY DEF Commit, NextState, FailEpoch, Continue

LEMMA GainsStays ==
  ASSUME TypeInv, ~ failed', NEW x, Commit(x), x.closed = {},
         NEW s \in DOMAIN sessions, HasRoom(sessions[s]), s \in DOMAIN x.sessions,
         Gains(s, Now, x)
  PROVE  /\ s \in DOMAIN sessions'
         /\ sessions'[s].writes = Append(sessions[s].writes, "frame")
<1>1. sessions[s].writes \in Seq(WriteKinds)
  BY DEF TypeInv, TypeOK, Session
<1>2. x.sessions[s].writes = Append(sessions[s].writes, "frame")
  BY DEF Gains, Now
<1>3. /\ Len(x.sessions[s].writes) = Len(sessions[s].writes) + 1
      /\ Len(sessions[s].writes) \in Nat
  BY <1>1, <1>2
<1>4. Len(x.sessions[s].writes) <= OutputFrames
  BY <1>3, BrokerAssumption DEF HasRoom
<1>5. s \in Survivors(x)
  BY <1>4 DEF Survivors
<1> QED
  BY <1>2, <1>5, CommitTable

\* The companion's own telemetry answers the client that asked for it.
LEMMA TelemetryAnswer ==
  ASSUME TypeInv, NEW f \in Frames, AnswersSelfTelemetry(f), UpstreamFrame(f),
         ~ failed'
  PROVE  \E x : /\ Commit(x) /\ DOMAIN x.sessions = DOMAIN sessions
                /\ OnlyTo(active.owner, Now, x) /\ x.closed = {}
                /\ active.owner \in DOMAIN sessions => Gains(active.owner, Now, x)
<1> DEFINE e == WriteIsOver
           x == TransactionResponse(f)
           told == ReplyToOwner(e, f)
           owner == active.owner
<1>1. Commit(x)
  <2>1. f.code = "telemetry_response" /\ f.code \in DOMAIN RemotePushes
    BY DEF AnswersSelfTelemetry, RemotePushes
  <2>2. f.code \in PushCodes /\ ~ Malformed(f)
    BY <2>1 DEF PushCodes, Malformed
  <2>3. Push(f) = x
    BY <2>1 DEF Push
  <2> QED
    BY <2>2, <2>3 DEF UpstreamFrame, CommitAndSchedule
<1>2. /\ next_session \in Nat /\ e \in State(next_session)
      /\ e.active = [active EXCEPT !.write = 0] /\ active \in Transaction
      /\ PopShape(active) /\ e.sessions = sessions /\ e.closed = {}
      /\ sessions \in [DOMAIN sessions -> Session]
  BY WriteIsOverType DEF TypeInv, TypeOK, WriteIsOver, Now
<1>3. /\ owner = e.active.owner /\ active.step = e.active.step
      /\ active.command.op = "self_telemetry" /\ active.step # "none"
      /\ active.command = e.active.command
  BY <1>2 DEF Transaction, AnswersSelfTelemetry, Busy
<1>4. owner # 0
  BY <1>3, <1>2 DEF PopShape, Sync
<1>5. f.code = "telemetry_response"
  BY DEF AnswersSelfTelemetry
<1>6. Fail(e).failing
  BY <1>2 DEF Fail, State
<1>7. x = Fail(e) \/ x = CommandResponse(e, f)
  BY <1>2, <1>3, <1>4, <1>5 DEF TransactionResponse, ScopeResponse, Transaction, Steps
<1> HIDE DEF x, e
<1>8. x = CommandResponse(e, f)
  BY <1>1, <1>6, <1>7, CommitWire
<1>9. x.sessions = told.sessions /\ x.closed = {}
  BY <1>2, <1>8, CommandResponseTells
<1>10. Now.sessions = sessions
  BY DEF Now
<1>11. DOMAIN told.sessions = DOMAIN sessions /\ OnlyTo(owner, Now, told)
  BY <1>2, <1>3, <1>10 DEF ReplyToOwner, State, OnlyTo
<1>12. ASSUME owner \in DOMAIN sessions
       PROVE  Gains(owner, Now, told)
  <2>1. sessions[owner] \in Session
    BY <1>2, <1>12
  <2>2. Completes(e.active.command, f) /\ e.active.command.op \notin Maintenance
        /\ e.active.command.op # "device_query"
    BY <1>3 DEF Completes, Maintenance
  <2> DEFINE seen_by == [sessions[owner] EXCEPT !.version = sessions[owner].version]
  <2>3. told = [e EXCEPT !.sessions[owner] = Reply(seen_by, "frame")]
    BY <1>2, <1>3, <1>12, <2>2 DEF ReplyToOwner
  <2>4. told.sessions[owner] = Reply(seen_by, "frame")
    BY <1>2, <1>12, <2>3 DEF State
  <2>5. seen_by = sessions[owner]
    BY <2>1 DEF Session
  <2>6. Reply(sessions[owner], "frame").writes
          = Append(sessions[owner].writes, "frame")
    BY <2>1 DEF Reply, Emit, Session
  <2> QED
    BY <1>10, <2>4, <2>5, <2>6 DEF Gains
<1> HIDE DEF told, owner
<1>13. /\ DOMAIN x.sessions = DOMAIN sessions /\ OnlyTo(owner, Now, x)
       /\ owner \in DOMAIN sessions => Gains(owner, Now, x)
  BY <1>9, <1>11, <1>12 DEF OnlyTo, Gains
<1> QED
  BY <1>1, <1>9, <1>13 DEF owner

\* Another result goes to the client that has the lease.
LEMMA ResultAnswer ==
  ASSUME TypeInv, NEW f, f.code \in DOMAIN RemotePushes,
         ~ AnswersSelfTelemetry(f), UpstreamFrame(f)
  PROVE  \E x : /\ Commit(x) /\ DOMAIN x.sessions = DOMAIN sessions
                /\ OnlyTo(remote.owner, Now, x) /\ x.closed = {}
                /\ RemoteMatches(remote, f) /\ remote.owner \in DOMAIN sessions =>
                     Gains(remote.owner, Now, x)
<1> DEFINE x == RemoteResult(f)
<1>1. f.code \in PushCodes /\ ~ Malformed(f)
  BY DEF PushCodes, Malformed, RemotePushes
<1>2. Push(f) = x
  BY DEF Push, RemotePushes
<1>3. Commit(x)
  BY <1>1, <1>2 DEF UpstreamFrame, CommitAndSchedule
<1>4. /\ DOMAIN x.sessions = DOMAIN sessions /\ x.closed = {}
      /\ OnlyTo(remote.owner, Now, x)
  BY DEF RemoteResult, Now, OnlyTo
<1>5. ASSUME RemoteMatches(remote, f), remote.owner \in DOMAIN sessions
      PROVE  Gains(remote.owner, Now, x)
  <2> DEFINE owner == remote.owner
  <2>1. sessions[owner] \in Session
    BY <1>5 DEF TypeInv, TypeOK
  <2>2. x.sessions[owner] = Emit(sessions[owner], "frame")
    BY <1>5 DEF RemoteResult, Now
  <2>3. Emit(sessions[owner], "frame").writes
          = Append(sessions[owner].writes, "frame")
    BY <2>1 DEF Emit, Session
  <2> QED
    BY <2>2, <2>3 DEF Gains, Now
<1> HIDE DEF x
<1> QED
  BY <1>3, <1>4, <1>5

\* While the epoch lives, a frame taken off the link is given to the broker.
LEMMA FrameTaken ==
  ASSUME BrokerInv, LinkType, MuxNext, replies # <<>>, replies' = Tail(replies),
         DOMAIN sessions # {}, ~ failed'
  PROVE  UpstreamFrame(Head(replies).frame)
<1> DEFINE f == Head(replies).frame
<1>1. TypeInv /\ Ended /\ CompanionType /\ replies \in Seq(Sending)
  BY LinkParts DEF BrokerInv, CompanionType
<1>2. f \in Frames
  BY <1>1, NextFrame
<1>3. /\ replies' # replies
      /\ \A more \in Seq(Sending) : replies' # replies \o more
  <2> DEFINE n == Len(replies)
             m == Len(replies')
  <2>1. n \in Nat /\ m = n - 1
    BY <1>1
  <2>2. n \in Nat /\ m = n - 1 => m # n
    <3> HIDE DEF n, m
    <3> QED
      OBVIOUS
  <2>3. \A more \in Seq(Sending) : Len(replies \o more) = n + Len(more)
                                  /\ Len(more) \in Nat
    BY <1>1
  <2>4. ASSUME replies' = replies
        PROVE  FALSE
    BY <2>1, <2>2, <2>4
  <2>5. ASSUME NEW more \in Seq(Sending), replies' = replies \o more
        PROVE  FALSE
    <3>1. m = n + Len(more) /\ Len(more) \in Nat
      BY <2>3, <2>5
    <3> HIDE DEF n, m
    <3> QED
      BY <2>1, <3>1
  <2> QED
    BY <2>4, <2>5
<1>4. ~ CompanionStep
  <2> SUFFICES ASSUME CompanionStep
               PROVE  FALSE
    OBVIOUS
  <2>1. ASSUME received # <<>>, NEW frames \in Seq(SentFrames),
               replies' = replies \o Answer(Head(received), frames)
        PROVE  FALSE
    <3>1. Head(received) \in Write
      BY <1>1, <2>1, FirstAndOthers DEF CompanionType
    <3>2. Answer(Head(received), frames) \in Seq(Sending)
      BY <2>1, <3>1, AnswerType
    <3> QED
      BY <1>3, <2>1, <3>2
  <2>2. ASSUME NEW owner \in Nat, NEW g \in SentFrames, Announces(owner, g)
        PROVE  FALSE
    BY <1>3, <2>2, AnnounceType DEF Announces
  <2> QED
    BY <1>1, <2>1, <2>2, CompanionSends
<1>5. ASSUME Clients \/ ClientRequest \/ Clock \/ Schedule \/ WriterWrites
             \/ WriterReports
      PROVE  FALSE
  BY <1>3, <1>5
     DEF Clients, ClientRequest, Clock, Schedule, WriterWrites, WriterReports,
         companionVars
<1>6. ASSUME LinkFails \/ LateUpstreamFrame
      PROVE  FALSE
  <2>1. Fail(Now).failing /\ Commit(Fail(Now))
    BY <1>6
       DEF LinkFails, UpstreamClosed, WriteFailed, LateUpstreamFrame,
           CommitAndSchedule, Fail, Now
  <2> QED
    BY <2>1, CommitWire
<1>7. ASSUME DrainDebt
      PROVE  FALSE
  BY <1>1, <1>2, <1>7, DrainWire DEF DrainDebt
<1>8. ~ Reconnect
  BY <1>1 DEF Reconnect, Restart, Ended
<1>9. FrameArrives
  BY <1>4, <1>5, <1>6, <1>7, <1>8 DEF MuxNext
<1> QED
  BY <1>6, <1>9 DEF FrameArrives

\* The owner of a result on its way is the one that the broker has in mind.
LEMMA ResultStep ==
  ASSUME BrokerInv, BrokerInv', LinkType, WireInv, RemoteInv, ResultInv, MuxNext,
         replies # <<>>, replies' = Tail(replies),
         Head(replies).frame.code \in DOMAIN RemotePushes
  PROVE  LET owner == Head(replies).owner
         IN /\ \A s \in DOMAIN sessions \cap DOMAIN sessions' :
                 sessions'[s].writes # sessions[s].writes => s = owner
            /\ /\ owner \in DOMAIN sessions /\ ~ failed'
               /\ HasRoom(sessions[owner])
               => /\ owner \in DOMAIN sessions'
                  /\ sessions'[owner].writes
                       = Append(sessions[owner].writes, "frame")
<1> DEFINE f == Head(replies).frame
           owner == Head(replies).owner
           Given ==
             /\ owner \in DOMAIN sessions'
             /\ sessions'[owner].writes = Append(sessions[owner].writes, "frame")
<1>1. /\ TypeInv /\ Ended /\ Ended' /\ CompanionType /\ Served
      /\ Now.sessions = sessions
  BY LinkParts DEF BrokerInv, ResultInv, Now
<1>2. CASE DOMAIN sessions = {} \/ failed'
  BY <1>1, <1>2 DEF Ended
<1>3. CASE DOMAIN sessions # {} /\ ~ failed'
  <2>1. UpstreamFrame(f)
    BY <1>3, FrameTaken
  <2>2. /\ f \in Frames /\ 1 \in DOMAIN replies /\ replies[1] = Head(replies)
        /\ DOMAIN replies \subseteq Nat
    BY <1>1, NextFrame, TakenFrame DEF CompanionType
  <2>3. InPlace(1)
    BY <2>1, <2>2 DEF WireInv, Answering, UpstreamFrame, AtRest
  <2>4. f = replies[1].frame /\ owner = replies[1].owner /\ f.code \in PushCodes
    BY <2>2 DEF PushCodes
  <2> HIDE DEF f, owner
  <2>5. CASE AnswersSelfTelemetry(f)
    <3>1. owner = active.owner
      <4>1. 1 \in Ordinary
        BY <2>3, <2>4, <2>5 DEF InPlace, AnswersSelfTelemetry, Frame
      <4> QED
        BY <2>3, <2>4, <4>1 DEF InPlace
    <3>2. PICK x : /\ Commit(x) /\ DOMAIN x.sessions = DOMAIN sessions
                   /\ OnlyTo(owner, Now, x) /\ x.closed = {}
                   /\ owner \in DOMAIN sessions => Gains(owner, Now, x)
      BY <1>1, <1>3, <2>1, <2>2, <2>5, <3>1, TelemetryAnswer
    <3>3. owner \in DOMAIN sessions /\ HasRoom(sessions[owner]) => Given
      BY <1>1, <1>3, <3>2, GainsStays
    <3>4. \A s \in DOMAIN sessions \cap DOMAIN sessions' :
            sessions'[s] # sessions[s] => s = owner
      BY <1>1, <3>2, CommitTable DEF OnlyTo
    <3> QED
      BY <3>3, <3>4 DEF owner
  <2>6. CASE ~ AnswersSelfTelemetry(f)
    <3>1. 1 \notin Ordinary /\ IsResult(f)
      BY <2>3, <2>4, <2>6 DEF InPlace, IsResult, f
    <3>2. remote.owner \in {0, owner}
      <4>1. Trace("replies", 1, owner) \in RemoteWork
        BY <2>2, <2>4, <3>1 DEF RemoteWork, Reported
      <4> QED
        BY <4>1 DEF RemoteInv, Leased, Trace
    <3>3. owner \in DOMAIN sessions => remote.owner = owner /\ RemoteMatches(remote, f)
      <4> SUFFICES ASSUME owner \in DOMAIN sessions
                   PROVE  remote.owner = owner /\ RemoteMatches(remote, f)
        OBVIOUS
      <4>1. /\ remote.owner = owner /\ Suited(remote, f)
            /\ remote.tentative => \E k \in DOMAIN replies : k < 1
        BY <1>1, <2>2, <2>4, <3>1 DEF Served, Serves, Gets
      <4>2. ~ remote.tentative
        <5>1. \A k \in DOMAIN replies : ~ (k < 1)
          BY <1>1 DEF CompanionType
        <5> QED
          BY <4>1, <5>1
      <4>3. remote.kind # "none"
        BY <3>1, <4>1 DEF Suited, IsResult, RemotePushes
      <4> QED
        BY <4>1, <4>2, <4>3 DEF RemoteMatches, Suited, ResultKey
    <3>4. PICK x : /\ Commit(x) /\ DOMAIN x.sessions = DOMAIN sessions
                   /\ OnlyTo(remote.owner, Now, x) /\ x.closed = {}
                   /\ RemoteMatches(remote, f) /\ remote.owner \in DOMAIN sessions =>
                        Gains(remote.owner, Now, x)
      BY <1>1, <2>1, <2>6, ResultAnswer DEF f
    <3>5. owner \in DOMAIN sessions /\ HasRoom(sessions[owner]) => Given
      BY <1>1, <1>3, <3>3, <3>4, GainsStays
    <3>6. \A s \in DOMAIN sessions \cap DOMAIN sessions' :
            sessions'[s] # sessions[s] => s = owner
      <4>1. 0 \notin DOMAIN sessions
        BY <1>1 DEF TypeInv, TypeOK
      <4> QED
        BY <1>1, <3>2, <3>4, <4>1, CommitTable DEF OnlyTo
    <3> QED
      BY <3>5, <3>6 DEF owner
  <2> QED
    BY <2>5, <2>6
<1> QED
  BY <1>2, <1>3

\* Until the deadline of the lease may end the wait for it, a result is written
\* to the client whose request caused it, if that client is still there, has
\* room for it and the epoch lives, and to no other: push matches it with the
\* lease, which is that client's until it leaves and nobody's afterwards and has
\* learnt the token of SENT by then; and the companion's own telemetry answers
\* the client that runs.
THEOREM ResultsReachRequester ==
  ASSUME "remote" \notin Deadlines
  PROVE  MuxSpec => ResultToRequester
<1>1. BrokerInv /\ BrokerInv' /\ LinkType /\ WireInv /\ RemoteInv
      /\ ResultInv /\ [MuxNext]_muxVars =>
        [/\ replies # <<>>
         /\ replies' = Tail(replies)
         /\ Head(replies).frame.code \in DOMAIN RemotePushes
         => LET owner == Head(replies).owner
            IN /\ \A s \in DOMAIN sessions \cap DOMAIN sessions' :
                    sessions'[s].writes # sessions[s].writes => s = owner
               /\ /\ owner \in DOMAIN sessions /\ ~ failed'
                  /\ HasRoom(sessions[owner])
                  => /\ owner \in DOMAIN sessions'
                     /\ sessions'[owner].writes
                          = Append(sessions[owner].writes, "frame")]_muxVars
  BY ResultStep
<1> QED
  BY <1>1, ResultInvariant, PTL DEF MuxSpec, ResultToRequester
-----------------------------------------------------------------------------
(* The signing operation                                                   *)

\* A frame with this code is among the replies on their way.
Shown(code) == \E i \in Ordinary : replies[i].frame.code = code

\* A command of the signing operation is running.
Signs == active.step = "command" /\ active.command.op \in Signing

\* What has been accepted and what is on its way fit the announced limit.
SignBound ==
  /\ signing.accepted + signing.pending <= signing.limit
  /\ signing.tentative => signing.accepted = 0 /\ signing.pending = 0

\* The operation is that of the running command, and is the companion's own
\* once SIGN_START has been answered.
SignTurn ==
  /\ active.step = "setup" => active.command.op \notin Signing
  /\ Signs =>
       /\ signing.owner = active.owner
       /\ signing.tentative <=> active.command.op = "sign_start"
       /\ active.command.op = "sign_start" /\ Shown("sign_start") =>
            signer = active.owner

\* The companion executes the operation until it has made the signature.
SignHeld ==
  signing.owner # 0 /\ ~ signing.tentative =>
    \/ signer = signing.owner
    \/ Signs /\ active.command.op = "sign_finish" /\ Shown("signature")

\* The inductive invariant of the signing operation.
SignInv == SignBound /\ (~ failed => SignTurn /\ SignHeld)

\* A step that gives the signing operation up at most bounds it still.
LEMMA BoundKept ==
  ASSUME SignBound, signing' \in {signing, NoSigning}
  PROVE  SignBound'
BY DEF SignBound, NoSigning

LEMMA SigningLess == SigningGoes => signing' \in {signing, NoSigning}
BY DEF SigningGoes

\* A step that leaves the transaction its job and the companion its operation.
LEMMA SignQuiet ==
  ASSUME SignInv, SigningGoes,
         \/ failed'
         \/ /\ failed' = failed /\ signer' = signer
            /\ active'.step = active.step /\ active'.owner = active.owner
            /\ active'.command = active.command
            /\ Shown("sign_start")' => Shown("sign_start")
            /\ Shown("signature") => Shown("signature")'
  PROVE  SignInv'
<1>1. SignBound'
  BY SigningLess, BoundKept DEF SignInv
<1>2. ASSUME ~ failed'
      PROVE  SignTurn' /\ SignHeld'
  <2>1. SignTurn /\ SignHeld /\ signer' = signer /\ (Signs' <=> Signs)
    BY <1>2 DEF SignInv, Signs
  <2>2. Signs => signing' = signing
    BY <1>2, <2>1 DEF SignTurn, SigningGoes, Signs, Busy
  <2>3. SignTurn'
    BY <1>2, <2>1, <2>2 DEF SignTurn, Signs
  <2>4. CASE signing' = signing
    BY <1>2, <2>1, <2>3, <2>4 DEF SignHeld
  <2>5. CASE signing' = NoSigning
    BY <2>3, <2>5 DEF SignHeld, NoSigning
  <2> QED
    BY <2>3, <2>4, <2>5, SigningLess
<1> QED
  BY <1>1, <1>2 DEF SignInv

\* The handlers that leave the link alone.
LEMMA SignCalm ==
  ASSUME SignInv, Rests, SigningGoes, LinkSame, signer' = signer
  PROVE  SignInv'
<1>1. \A code : Shown(code)' <=> Shown(code)
  BY DEF Shown, Ordinary, LinkSame
<1>2. \/ failed'
      \/ /\ failed' = failed
         /\ active'.step = active.step /\ active'.owner = active.owner
         /\ active'.command = active.command
  BY DEF Rests
<1> QED
  BY <1>1, <1>2, SignQuiet

\* A signing command takes the operation, or finds it to be its client's.
LEMMA TurnSigns ==
  ASSUME TypeInv, NEW k, NEW s, TurnPop(k) \/ TurnDispatch(k, s)
  PROVE  LET command == active'.command
         IN /\ command.op = "sign_start" =>
                 signing' = StartSigning(active'.owner)
            /\ command.op = "sign_data" =>
                 /\ UsableBy(signing, active'.owner)
                 /\ RoomFor(signing, command.arg)
                 /\ signing' = BeginData(signing, command.arg)
            /\ command.op = "sign_finish" =>
                 /\ UsableBy(signing, active'.owner)
                 /\ signing' = BeginFinish(signing)
            /\ command.op \notin Signing => signing' \in {signing, NoSigning}
<1>1. signing \in SigningState /\ next_session \in Nat
      /\ DOMAIN sessions \subseteq 1 .. next_session
  BY DEF TypeInv, TypeOK
<1>2. ASSUME NEW x, Commit(x), active'.step # "none"
      PROVE  /\ signing' \in {x.signing, NoSigning}
             /\ active'.owner = x.signing.owner => signing' = x.signing
  <2>1. ~ EpochEnds(x) /\ active' = x.active
    BY <1>2, CommitWire DEF NoTransaction
  <2>2. signing' = SigningOwnerGone(x, Survivors(x))
    BY <1>2, <2>1 DEF Commit, NextState, Continue
  <2> QED
    BY <1>2, <2>1, <2>2 DEF SigningOwnerGone
<1>3. CASE TurnPop(k)
  <2> DEFINE x == DispatchPop([Now EXCEPT !.order = Rotated(k)])
  <2>1. Commit(x)
    BY <1>3 DEF TurnPop
  <2>2. x.signing = signing
    BY DEF DispatchPop, SendCommand, SendUpstream, Now
  <2> HIDE DEF x
  <2>3. active'.step # "none" /\ active'.command = Sync
    BY <1>3, TurnPopStarts DEF Starts
  <2>4. signing' \in {signing, NoSigning}
    BY <1>2, <2>1, <2>2, <2>3
  <2>5. active'.command.op \notin Signing
    BY <2>3 DEF Sync, Signing
  <2> QED
    BY <2>4, <2>5 DEF Signing
<1>4. CASE TurnDispatch(k, s)
  <2> DEFINE command == Head(sessions[s].commands)
             e == TurnTaken(k, s, command)
             r == Reserved(e, s, command)
             x == Dispatch(r, s, command)
  <2>1. s # 0 /\ NextTurn(k, s) /\ Commit(x)
    BY <1>4 DEF TurnDispatch
  <2>2. /\ Starts /\ active'.owner = s /\ s \in DOMAIN sessions
        /\ active'.command = command /\ AdmitsCommand(s, command)
    BY <1>4, TurnDispatchStarts
  <2>3. e \in State(next_session) /\ command \in Command
    BY <2>1, TurnTakenType
  <2>4. e.signing = signing
    BY DEF TurnTaken, Now
  <2> HIDE DEF e, command
  <2>5. r \in State(next_session)
    BY <1>1, <2>2, <2>3, ReservedType
  <2>6. r.signing = CASE command.op = "sign_start" -> StartSigning(s)
                      [] command.op = "sign_data" ->
                           BeginData(signing, command.arg)
                      [] command.op = "sign_finish" -> BeginFinish(signing)
                      [] OTHER -> signing
    BY <2>3, <2>4 DEF Reserved, State, RemoteLease
  <2> HIDE DEF r
  <2>7. x.signing = r.signing
    BY <2>5 DEF Dispatch, SendCommand, SendUpstream, State
  <2> HIDE DEF x
  <2>8. /\ signing' \in {r.signing, NoSigning}
        /\ s = r.signing.owner => signing' = r.signing
    BY <1>2, <2>1, <2>2, <2>7 DEF Starts
  <2>9. CASE command.op = "sign_start"
    <3>1. r.signing = StartSigning(s) /\ StartSigning(s).owner = s
      BY <2>6, <2>9 DEF StartSigning, NoSigning
    <3> QED
      BY <2>2, <2>8, <2>9, <3>1 DEF Signing
  <2>10. CASE command.op = "sign_data"
    <3>1. UsableBy(signing, s) /\ RoomFor(signing, command.arg)
      BY <2>2, <2>10 DEF AdmitsCommand
    <3>2. r.signing = BeginData(signing, command.arg) /\ r.signing.owner = s
      BY <1>1, <2>6, <2>10, <3>1 DEF BeginData, UsableBy, SigningState
    <3> QED
      BY <2>2, <2>8, <2>10, <3>1, <3>2 DEF Signing
  <2>11. CASE command.op = "sign_finish"
    <3>1. UsableBy(signing, s)
      BY <2>2, <2>11 DEF AdmitsCommand
    <3>2. r.signing = BeginFinish(signing) /\ r.signing.owner = s
      BY <1>1, <2>6, <2>11, <3>1 DEF BeginFinish, UsableBy, SigningState
    <3> QED
      BY <2>2, <2>8, <2>11, <3>1, <3>2 DEF Signing
  <2>12. CASE command.op \notin Signing
    BY <2>2, <2>6, <2>8, <2>12 DEF Signing
  <2> QED
    BY <2>2, <2>9, <2>10, <2>11, <2>12 DEF Signing
<1> QED
  BY <1>3, <1>4

\* The schedule loop dispatches a command.
LEMMA SignStarts ==
  ASSUME TypeInv, TypeInv', WireInv, ~ Busy, SignInv, LinkSame,
         signer' = signer, NEW k, NEW s, TurnPop(k) \/ TurnDispatch(k, s)
  PROVE  SignInv'
<1>1. Starts
  BY TurnPopStarts, TurnDispatchStarts
<1> DEFINE command == active'.command
<1>2. /\ command.op = "sign_start" => signing' = StartSigning(active'.owner)
      /\ command.op = "sign_data" =>
           /\ UsableBy(signing, active'.owner)
           /\ RoomFor(signing, command.arg)
           /\ signing' = BeginData(signing, command.arg)
      /\ command.op = "sign_finish" =>
           /\ UsableBy(signing, active'.owner)
           /\ signing' = BeginFinish(signing)
      /\ command.op \notin Signing => signing' \in {signing, NoSigning}
  BY TurnSigns
<1>3. signing \in SigningState /\ command.arg \in Nat
  <2>1. active' \in Transaction
    BY DEF TypeInv, TypeOK
  <2>2. command \in Command
    BY <2>1 DEF Transaction
  <2> QED
    BY <2>2, CommandTypes DEF TypeInv, TypeOK
<1>4. ASSUME ~ failed'
      PROVE  /\ \A code : ~ Shown(code)'
             /\ signing.owner # 0 /\ ~ signing.tentative => signer = signing.owner
             /\ active'.step \in {"setup", "command"}
             /\ active'.step = "setup" => command.op \notin Signing
  <2>1. Ordinary = {} /\ SignHeld /\ ~ Signs
    BY <1>1, <1>4 DEF WireInv, Aligned, Busy, SignInv, Signs, Starts
  <2>2. \A code : ~ Shown(code)'
    BY <2>1 DEF Shown, Ordinary, LinkSame
  <2>3. active'.step = "setup" => command.op \notin Signing
    BY <1>1 DEF Starts, ScopeSend, Signing, RemoteLease
  <2> QED
    BY <1>1, <2>1, <2>2, <2>3 DEF SignHeld, Starts
<1> HIDE DEF command
<1>5. CASE command.op = "sign_start"
  <2>1. /\ signing'.owner = active'.owner /\ signing'.tentative
        /\ signing'.accepted = 0 /\ signing'.pending = 0 /\ signing'.limit = 0
    BY <1>2, <1>5 DEF StartSigning, NoSigning
  <2>2. SignBound'
    BY <2>1 DEF SignBound
  <2> QED
    BY <1>4, <1>5, <2>1, <2>2 DEF SignInv, SignTurn, SignHeld, Signs, command
<1>6. CASE command.op = "sign_data"
  <2>1. /\ signing'.owner = signing.owner /\ signing.owner = active'.owner
        /\ ~ signing.tentative /\ ~ signing'.tentative
        /\ signing'.limit = signing.limit
        /\ signing'.accepted = signing.accepted
        /\ signing'.pending = command.arg
        /\ command.arg <= signing.limit - signing.accepted
    BY <1>2, <1>3, <1>6 DEF BeginData, UsableBy, RoomFor, SigningState
  <2>2. SignBound'
    BY <1>3, <2>1 DEF SignBound, SigningState
  <2> QED
    BY <1>4, <1>6, <2>1, <2>2 DEF SignInv, SignTurn, SignHeld, Signs, command
<1>7. CASE command.op = "sign_finish"
  <2>1. /\ signing'.owner = signing.owner /\ signing.owner = active'.owner
        /\ ~ signing.tentative /\ ~ signing'.tentative
        /\ signing'.limit = signing.limit
        /\ signing'.accepted = signing.accepted
        /\ signing'.pending = signing.pending
    BY <1>2, <1>3, <1>7 DEF BeginFinish, UsableBy, SigningState
  <2>2. SignBound'
    BY <2>1 DEF SignBound, SignInv
  <2> QED
    BY <1>4, <1>7, <2>1, <2>2 DEF SignInv, SignTurn, SignHeld, Signs, command
<1>8. CASE command.op \notin Signing
  <2>1. signing' \in {signing, NoSigning}
    BY <1>2, <1>8 DEF Signing
  <2>2. SignBound'
    BY <2>1, BoundKept DEF SignInv
  <2>3. ~ failed' => SignTurn' /\ SignHeld'
    BY <1>4, <1>8, <2>1 DEF SignTurn, SignHeld, Signs, NoSigning, command
  <2> QED
    BY <2>2, <2>3 DEF SignInv
<1> QED
  BY <1>5, <1>6, <1>7, <1>8 DEF Signing

\* What a frame makes of the operation.
LEMMA FrameSigns ==
  ASSUME TypeInv, NEW f \in Frames, UpstreamFrame(f),
         f.code \notin PushCodes \/ AnswersSelfTelemetry(f)
  PROVE  \E x : /\ LeasesAnswer(WriteIsOver, x, f)
                /\ signing' \in {x.signing, NoSigning}
                /\ \/ failed'
                   \/ /\ Responds(WriteIsOver, x, f) /\ ~ x.failing
                      /\ active' = x.active
<1> DEFINE x == TransactionResponse(f)
<1>1. Commit(x) \/ Commit(Fail(Now))
  <2>1. f.code = "telemetry_response" =>
          f.code \in DOMAIN RemotePushes /\ f.code \in PushCodes /\ ~ Malformed(f)
    BY DEF RemotePushes, PushCodes, Malformed
  <2>2. AnswersSelfTelemetry(f) => f.code = "telemetry_response"
    BY DEF AnswersSelfTelemetry
  <2>3. AnswersSelfTelemetry(f) => Push(f) = x
    BY <2>1, <2>2 DEF Push
  <2> QED
    BY <2>1, <2>2, <2>3 DEF UpstreamFrame, CommitAndSchedule
<1>2. ASSUME NEW y, Commit(y), y.remote \in Remote
      PROVE  signing' \in {y.signing, NoSigning}
  BY <1>2, CommitLeases
<1>3. CASE Commit(x)
  <2>1. x.remote \in Remote
    BY TransactionResponseType DEF State
  <2>2. LeasesAnswer(WriteIsOver, x, f)
    BY ResponseLeases
  <2>3. x.failing \/ Responds(WriteIsOver, x, f)
    BY ResponseWire
  <2> HIDE DEF x
  <2> QED
    BY <1>2, <1>3, <2>1, <2>2, <2>3, CommitWire
<1>4. CASE Commit(Fail(Now))
  <2> DEFINE y == [Fail(WriteIsOver) EXCEPT !.signing = signing]
  <2>1. /\ Fail(Now).failing /\ Fail(Now).remote = remote
        /\ Fail(Now).signing = signing
    BY DEF Fail, Now
  <2>2. /\ y.failing /\ y.signing = signing /\ y.remote = remote
        /\ WriteIsOver.signing = signing /\ WriteIsOver.remote = remote
    BY DEF Fail, WriteIsOver, Now
  <2> HIDE DEF y
  <2>3. remote \in Remote
    BY DEF TypeInv, TypeOK
  <2>4. LeasesAnswer(WriteIsOver, y, f)
    BY <2>2 DEF LeasesAnswer
  <2>5. failed'
    BY <1>4, <2>1, CommitWire
  <2> QED
    BY <1>2, <1>4, <2>1, <2>2, <2>3, <2>4, <2>5
<1> QED
  BY <1>1, <1>3, <1>4

\* Neither a push nor a reply to the debt touches it.
LEMMA PushSigns ==
  ASSUME TypeInv, NEW f, ~ AnswersSelfTelemetry(f), Commit(Push(f))
  PROVE  SigningGoes
<1> DEFINE x == Push(f)
<1>1. x.signing = signing
  <2>1. /\ AvailabilityHint.signing = signing
        /\ RemoteResult(f).signing = signing
    BY DEF AvailabilityHint, RemoteResult, Now
  <2> QED
    BY <2>1 DEF Push, Now
<1>2. x.active = active
  BY PushNoWrite DEF SameWire, Now
<1>3. x.remote \in Remote
  <2>1. x.remote \in {remote, NoRemote}
    BY DEF Push, AvailabilityHint, RemoteResult, Now
  <2> QED
    BY <2>1, LeaseTypes DEF TypeInv, TypeOK
<1> HIDE DEF x
<1> QED
  BY <1>1, <1>2, <1>3, CommitLeases DEF SigningGoes, Busy, x

LEMMA DrainSigns ==
  ASSUME TypeInv, Ended, NEW f \in Frames, DrainUncertainFrame(f)
  PROVE  SigningGoes
<1>1. ~ Busy
  BY DEF DrainUncertainFrame, Ended
<1>2. ASSUME NEW x, Commit(x), x.remote = remote, x.signing = signing
      PROVE  SigningGoes
  <2>1. x.remote \in Remote
    BY <1>2 DEF TypeInv, TypeOK
  <2> QED
    BY <1>1, <1>2, <2>1, CommitLeases DEF SigningGoes
<1> DEFINE paid == [Now EXCEPT !.debt = NoTransaction]
           started == [Now EXCEPT !.debt.contacts_started = TRUE]
<1>3. /\ paid.remote = remote /\ paid.signing = signing
      /\ started.remote = remote /\ started.signing = signing
  BY DEF Now
<1>4. paid \in State(next_session) /\ next_session \in Nat
  <2>1. Now \in State(next_session) /\ NoTransaction \in Transactions
    BY NowType, NoTransactionType DEF TypeInv, Transactions, PopShape, NoTransaction
  <2> QED
    BY <2>1 DEF State, TypeInv, TypeOK
<1>5. CASE Commit(Push(f))
  <2>1. ~ AnswersSelfTelemetry(f)
    BY <1>1 DEF AnswersSelfTelemetry
  <2> QED
    BY <1>5, <2>1, PushSigns
<1>6. CASE Commit(PopResult(paid, debt, f))
  <2> HIDE DEF paid
  <2>1. SameLeases(paid, PopResult(paid, debt, f))
    BY <1>4, OwnerLeases
  <2> QED
    BY <1>2, <1>3, <1>6, <2>1 DEF SameLeases
<1>7. CASE Commit(paid) \/ Commit(started)
  <2> HIDE DEF paid, started
  <2> QED
    BY <1>2, <1>3, <1>7
<1>8. \/ Commit(Push(f)) \/ Commit(started)
      \/ Commit(IF KeepsItem(f) THEN PopResult(paid, debt, f) ELSE paid)
  BY DEF DrainUncertainFrame
<1> QED
  BY <1>5, <1>6, <1>7, <1>8

\* The reply to a signing command keeps the operation within its limit.
LEMMA AnswerBound ==
  ASSUME signing \in SigningState, NEW f \in Frames, SignBound, SignTurn, Signs,
         Valid(WriteIsOver.active, f), active \in Transaction
  PROVE  LET lease == SigningAnswered(signing, WriteIsOver.active, f)
         IN /\ lease = NoSigning \/ lease.owner = signing.owner
            /\ lease.accepted + lease.pending <= lease.limit
            /\ lease.tentative =>
                 lease.accepted = 0 /\ lease.pending = 0
            /\ CASE active.command.op = "sign_start" ->
                      lease = NoSigning \/ f.code = "sign_start"
                 [] active.command.op = "sign_finish" ->
                      lease = NoSigning \/ f.code = "err"
                 [] OTHER -> TRUE
            /\ lease = NoSigning \/ ~ lease.tentative
<1>1. WriteIsOver.active.command = active.command
  BY DEF WriteIsOver, Now, Transaction
<1> DEFINE lease == SigningAnswered(signing, WriteIsOver.active, f)
<1>2. f.arg \in Nat /\ NoSigning.accepted + NoSigning.pending <= NoSigning.limit
      /\ ~ NoSigning.tentative
  BY BrokerAssumption DEF NoSigning
<1>3. CASE active.command.op = "sign_start"
  <2>1. lease = StartResponse(signing, f)
    BY <1>1, <1>3 DEF SigningAnswered
  <2>2. signing.accepted = 0 /\ signing.pending = 0
    BY <1>3 DEF SignBound, SignTurn
  <2>3. CASE f.code = "sign_start"
    <3>1. /\ lease.owner = signing.owner /\ lease.accepted = 0
          /\ lease.pending = 0 /\ lease.limit = f.arg /\ ~ lease.tentative
      BY <2>1, <2>2, <2>3 DEF StartResponse, SigningState
    <3> HIDE DEF lease
    <3> QED
      BY <1>2, <1>3, <2>3, <3>1 DEF lease
  <2>4. CASE f.code # "sign_start"
    <3>1. lease = NoSigning
      BY <2>1, <2>4 DEF StartResponse
    <3> HIDE DEF lease
    <3> QED
      BY <1>2, <1>3, <3>1 DEF lease
  <2> QED
    BY <2>3, <2>4
<1>4. CASE active.command.op = "sign_data"
  <2>1. lease = DataResponse(signing, f) /\ ~ signing.tentative
    BY <1>1, <1>4 DEF SigningAnswered, SignTurn
  <2>2. \/ lease = NoSigning
        \/ /\ lease.owner = signing.owner /\ lease.pending = 0
           /\ lease.limit = signing.limit /\ ~ lease.tentative
           /\ lease.accepted \in {signing.accepted,
                                  signing.accepted + signing.pending}
    BY <2>1 DEF DataResponse, SigningState
  <2>3. signing.accepted \in Nat /\ signing.pending \in Nat /\ signing.limit \in Nat
    BY DEF SigningState
  <2> HIDE DEF lease
  <2> QED
    BY <1>2, <1>4, <2>2, <2>3 DEF SignBound, lease
<1>5. CASE active.command.op = "sign_finish"
  <2>1. lease = FinishResponse(signing, f) /\ ~ signing.tentative
    BY <1>1, <1>5 DEF SigningAnswered, SignTurn
  <2>2. f.code \in {"err", "signature"}
    BY <1>1, <1>5 DEF Valid, ValidResponse, SuccessCodes, OkOps, ValueReply,
       RemoteLease
  <2>3. \/ lease = NoSigning
        \/ /\ lease.owner = signing.owner /\ ~ lease.tentative
           /\ lease.pending = signing.pending /\ lease.limit = signing.limit
           /\ lease.accepted = signing.accepted /\ f.code = "err"
    BY <2>1, <2>2 DEF FinishResponse, SigningState
  <2> HIDE DEF lease
  <2> QED
    BY <1>2, <1>5, <2>3 DEF SignBound, lease
<1> QED
  BY <1>3, <1>4, <1>5 DEF Signs, Signing

\* A push is taken from those on their way, or sent behind them.
LEMMA ShownTaken ==
  ASSUME CompanionType, replies # <<>>, replies' = Tail(replies),
         1 \notin Ordinary, NEW code
  PROVE  Shown(code)' <=> Shown(code)
<1>1. /\ \A i \in DOMAIN replies' :
           /\ i + 1 \in DOMAIN replies /\ replies'[i] = replies[i + 1]
           /\ i \in Nat /\ i >= 1
      /\ \A i \in DOMAIN replies :
           i = 1 \/ (i - 1 \in DOMAIN replies' /\ replies'[i - 1] = replies[i])
  BY TakenFrame DEF CompanionType
<1>2. ASSUME Shown(code)
      PROVE  Shown(code)'
  <2>1. PICK i \in Ordinary : replies[i].frame.code = code
    BY <1>2 DEF Shown
  <2>2. /\ i \in DOMAIN replies /\ i # 1 /\ replies[i].id # 0
    BY DEF Ordinary
  <2>3. i - 1 \in DOMAIN replies' /\ replies'[i - 1] = replies[i]
    BY <1>1, <2>2
  <2>4. i - 1 \in Ordinary'
    BY <2>2, <2>3 DEF Ordinary
  <2> QED
    BY <2>1, <2>3, <2>4 DEF Shown
<1>3. ASSUME Shown(code)'
      PROVE  Shown(code)
  <2>1. PICK i \in Ordinary' : replies'[i].frame.code = code
    BY <1>3 DEF Shown
  <2>2. i \in DOMAIN replies' /\ replies'[i].id # 0
    BY DEF Ordinary
  <2>3. i + 1 \in DOMAIN replies /\ replies'[i] = replies[i + 1]
    BY <1>1, <2>2
  <2>4. i + 1 \in Ordinary
    BY <2>2, <2>3 DEF Ordinary
  <2> QED
    BY <2>1, <2>3, <2>4 DEF Shown
<1> QED
  BY <1>2, <1>3

LEMMA ShownAnnounced ==
  ASSUME CompanionType, NEW owner \in Nat, NEW f \in SentFrames,
         replies' \in {replies, replies \o Announce(owner, f)}, NEW code
  PROVE  Shown(code)' <=> Shown(code)
<1> DEFINE more == Announce(owner, f)
<1>1. /\ more \in Seq(Sending)
      /\ \A i \in DOMAIN more : more[i].id = 0
  BY AnnounceType DEF Announce
<1>2. CASE replies' = replies
  BY <1>2 DEF Shown, Ordinary
<1>3. CASE replies' = replies \o more
  <2> HIDE DEF more
  <2>1. /\ \A i \in DOMAIN replies' :
             \/ i \in DOMAIN replies /\ replies'[i] = replies[i]
             \/ i - Len(replies) \in DOMAIN more
                  /\ replies'[i] = more[i - Len(replies)]
        /\ \A i \in DOMAIN replies :
             i \in DOMAIN replies' /\ replies'[i] = replies[i]
    BY <1>1, <1>3, SentBehind
  <2> QED
    BY <1>1, <2>1 DEF Shown, Ordinary
<1> QED
  BY <1>2, <1>3

\* The companion answers a command.
LEMMA ShownReplied ==
  ASSUME CompanionType, received # <<>>, Head(received).id # 0,
         NEW frames \in Seq(SentFrames),
         replies' = replies \o Answer(Head(received), frames), NEW code
  PROVE  Shown(code)' <=>
           Shown(code) \/ \E i \in DOMAIN frames : frames[i].code = code
<1> DEFINE job == Head(received)
           more == Answer(job, frames)
<1>1. job \in Write
  BY FirstAndOthers DEF CompanionType
<1> HIDE DEF job
<1>2. more \in Seq(Sending) /\ DOMAIN more = DOMAIN frames
      /\ \A i \in DOMAIN frames :
           more[i].id = job.id /\ more[i].frame = frames[i]
  <2>1. more \in Seq(Sending)
    BY <1>1, AnswerType
  <2>2. DOMAIN more = 1 .. Len(frames) /\ DOMAIN frames = 1 .. Len(frames)
    BY DEF Answer
  <2> QED
    BY <2>1, <2>2 DEF Answer
<1>3. replies' = replies \o more /\ job.id # 0
  BY DEF job
<1> HIDE DEF more
<1>4. /\ \A i \in DOMAIN replies' :
           \/ i \in DOMAIN replies /\ replies'[i] = replies[i]
           \/ i - Len(replies) \in DOMAIN more
                /\ replies'[i] = more[i - Len(replies)]
      /\ \A i \in DOMAIN replies : i \in DOMAIN replies' /\ replies'[i] = replies[i]
      /\ \A i \in DOMAIN more :
           /\ Len(replies) + i \in DOMAIN replies'
           /\ replies'[Len(replies) + i] = more[i]
  BY <1>2, <1>3, SentBehind
<1>5. Shown(code) => Shown(code)'
  BY <1>4 DEF Shown, Ordinary
<1>6. ASSUME NEW i \in DOMAIN frames, frames[i].code = code
      PROVE  Shown(code)'
  <2> DEFINE k == Len(replies) + i
  <2>1. k \in DOMAIN replies' /\ replies'[k] = more[i]
    BY <1>2, <1>4
  <2> HIDE DEF k
  <2>2. k \in Ordinary' /\ replies'[k].frame.code = code
    BY <1>2, <1>3, <1>6, <2>1 DEF Ordinary
  <2> QED
    BY <2>2 DEF Shown
<1>7. ASSUME Shown(code)'
      PROVE  Shown(code) \/ \E i \in DOMAIN frames : frames[i].code = code
  BY <1>2, <1>4, <1>7 DEF Shown, Ordinary
<1> QED
  BY <1>5, <1>6, <1>7

LEMMA SignAnswers ==
  ASSUME NEW command, NEW answer \in Answers(command)
  PROVE  command.op = "sign_finish" =>
           answer = <<Frame("signature", command.arg)>>
<1> SUFFICES ASSUME command.op = "sign_finish"
             PROVE  answer = <<Frame("signature", command.arg)>>
  OBVIOUS
<1>1. SuccessCodes("sign_finish") = {"signature"}
  BY DEF SuccessCodes, RemoteLease, OkOps, ValueReply
<1>2. \E code \in SuccessCodes("sign_finish") :
        answer = <<Frame(code, IF code = "ok" THEN 0 ELSE command.arg)>>
  BY DEF Answers, RemoteLease
<1> QED
  BY <1>1, <1>2

\* The companion takes over the operation, ends it with the signature, or
\* leaves it as it is.
LEMMA SignCompanion ==
  ASSUME TypeInv, CompanionType, CompanionStep, WireInv, SignInv
  PROVE  SignInv'
<1>1. UNCHANGED <<failed, active, signing, next_write>>
  BY DEF CompanionStep, vars
<1>2. SigningGoes /\ SignBound'
  BY <1>1 DEF SigningGoes, SignInv, SignBound
<1>3. ASSUME signer' = signer,
             \A code \in {"sign_start", "signature"} :
               Shown(code)' <=> Shown(code)
      PROVE  SignInv'
  BY <1>1, <1>2, <1>3, SignQuiet
<1>4. CASE failed
  BY <1>1, <1>2, <1>4 DEF SignInv
<1>5. ASSUME ~ failed, received # <<>>
      PROVE  /\ Head(received).id # 0 /\ Head(received).owner = active.owner
             /\ Head(received).command = WireCommand(active)
             /\ WireCommand(active).op \in Signing =>
                  /\ active.step = "command"
                  /\ WireCommand(active) = active.command
             /\ active.step = "command" => WireCommand(active) = active.command
             /\ SignTurn /\ SignHeld
  <2>1. received = <<Job(next_write, active)>> /\ next_write # 0
        /\ active.step \in {"setup", "command", "restore"}
    BY <1>5 DEF WireInv, Aligned
  <2>2. Head(received) = Job(next_write, active)
    BY <2>1
  <2>3. /\ active.step # "command" =>
             WireCommand(active).op = "set_flood_scope_key"
        /\ active.step = "command" => WireCommand(active) = active.command
    BY <2>1 DEF WireCommand, SetScope
  <2>4. "set_flood_scope_key" \notin Signing
    BY DEF Signing
  <2>5. SignTurn /\ SignHeld
    BY <1>5 DEF SignInv
  <2> QED
    BY <2>1, <2>2, <2>3, <2>4, <2>5 DEF Job
<1>6. CASE ~ failed /\ ExecutePop
  <2>1. PICK f \in SentFrames :
          /\ f.code \in {"no_more_messages", "message"}
          /\ replies' = replies \o Answer(Head(received), <<f>>)
    <3>1. CASE physical = <<>>
      <4>1. Frame("no_more_messages", 0) \in SentFrames
        BY FramesMade
      <4> QED
        BY <1>6, <3>1, <4>1 DEF ExecutePop, Frame
    <3>2. CASE physical # <<>>
      <4>1. Head(physical) \in 1 .. MaxArrivals
        BY <3>2, FirstAndOthers DEF CompanionType
      <4>2. Frame("message", Head(physical)) \in SentFrames
        BY <4>1, FramesMade
      <4> QED
        BY <1>6, <3>2, <4>2 DEF ExecutePop, Frame
    <3> QED
      BY <3>1, <3>2
  <2>2. received # <<>> /\ signer' = signer /\ <<f>> \in Seq(SentFrames)
    BY <1>6 DEF ExecutePop
  <2>3. \A i \in DOMAIN <<f>> : <<f>>[i].code \notin {"sign_start", "signature"}
    BY <2>1
  <2> QED
    BY <1>3, <1>5, <1>6, <2>1, <2>2, <2>3, ShownReplied
<1>7. CASE ~ failed /\ Refuse
  <2>1. PICK reason \in {1, ErrBadState} :
          replies' = replies \o Answer(Head(received), <<Frame("err", reason)>>)
    BY <1>7 DEF Refuse
  <2> DEFINE f == Frame("err", reason)
  <2>2. f \in SentFrames /\ f.code = "err"
    BY FramesMade DEF Frame
  <2>3. replies' = replies \o Answer(Head(received), <<f>>)
    BY <2>1
  <2> HIDE DEF f
  <2>4. received # <<>> /\ signer' = signer /\ <<f>> \in Seq(SentFrames)
    BY <1>7, <2>2 DEF Refuse
  <2>5. \A i \in DOMAIN <<f>> : <<f>>[i].code \notin {"sign_start", "signature"}
    BY <2>2
  <2> QED
    BY <1>3, <1>5, <1>7, <2>3, <2>4, <2>5, ShownReplied
<1>8. CASE ~ failed /\ Execute
  <2> DEFINE command == Head(received).command
  <2>1. /\ received # <<>> /\ command # Sync
        /\ signer' = CASE command.op = "sign_start" -> Head(received).owner
                       [] command.op = "sign_finish" -> 0
                       [] OTHER -> signer
    BY <1>8 DEF Execute
  <2>2. PICK answer \in Answers(command) :
          replies' = replies \o Answer(Head(received), answer)
    BY <1>8 DEF Execute
  <2>3. command = WireCommand(active) /\ command \in Command
    <3>1. Head(received) \in Write
      BY <2>1, FirstAndOthers DEF CompanionType
    <3> QED
      BY <1>5, <1>8, <2>1, <3>1 DEF Write
  <2>4. answer \in Seq(SentFrames)
    <3>1. command.op # "none"
      BY <2>2, NothingAnswersNone
    <3> HIDE DEF command
    <3> QED
      BY <2>1, <2>2, <2>3, <3>1, AnswersMade
  <2>5. \A code : Shown(code)' <=>
          Shown(code) \/ \E i \in DOMAIN answer : answer[i].code = code
    BY <1>5, <1>8, <2>1, <2>2, <2>4, ShownReplied
  <2>6. command.op = "sign_finish" => Shown("signature")'
    <3>1. ASSUME command.op = "sign_finish"
          PROVE  \E i \in DOMAIN answer : answer[i].code = "signature"
      <4>1. answer = <<Frame("signature", command.arg)>>
        BY <2>2, <3>1, SignAnswers
      <4>2. 1 \in DOMAIN answer /\ answer[1].code = "signature"
        BY <4>1 DEF Frame
      <4> QED
        BY <4>2
    <3> QED
      BY <2>5, <3>1
  <2>7. /\ command.op \in Signing =>
             active.step = "command" /\ command = active.command
        /\ active.step = "command" => command = active.command
        /\ Head(received).owner = active.owner
        /\ SignTurn /\ SignHeld
    BY <1>5, <1>8, <2>1, <2>3
  <2> HIDE DEF command
  <2>8. CASE command.op = "sign_start"
    <3>1. Signs /\ active.command.op = "sign_start" /\ signer' = active.owner
      BY <2>1, <2>7, <2>8 DEF Signs, Signing
    <3> QED
      BY <1>1, <1>2, <2>7, <3>1 DEF SignInv, SignTurn, SignHeld, Signs
  <2>9. CASE command.op = "sign_finish"
    <3>1. Signs /\ active.command.op = "sign_finish"
      BY <2>7, <2>9 DEF Signs, Signing
    <3> QED
      BY <1>1, <1>2, <2>6, <2>7, <2>9, <3>1 DEF SignInv, SignTurn, SignHeld, Signs
  <2>10. CASE command.op \notin {"sign_start", "sign_finish"}
    <3>1. /\ signer' = signer
          /\ Signs => active.command.op # "sign_start"
          /\ Shown("signature") => Shown("signature")'
      BY <2>1, <2>5, <2>7, <2>10 DEF Signs
    <3> QED
      BY <1>1, <1>2, <2>7, <3>1 DEF SignInv, SignTurn, SignHeld, Signs
  <2> QED
    BY <2>8, <2>9, <2>10
<1>9. CASE Arrive(usable)
  <2> DEFINE f == Frame("msg_waiting", 0)
  <2>1. f \in SentFrames
    BY FramesMade
  <2>2. /\ replies' \in {replies, replies \o Announce(0, f)}
        /\ signer' = signer
    BY <1>9 DEF Arrive
  <2> HIDE DEF f
  <2> QED
    BY <1>3, <2>1, <2>2, ShownAnnounced
<1>10. CASE Report(usable)
  <2>1. PICK i \in DOMAIN requests, code \in DOMAIN RemotePushes :
          LET command == requests[i].command
              key == IF code = "binary_response" THEN Token ELSE command.arg
          IN /\ replies' = IF usable
                  THEN replies \o Announce(requests[i].owner, Frame(code, key))
                  ELSE replies
             /\ signer' = signer
    BY <1>10 DEF Report
  <2>2. requests[i].command \in Commands /\ requests[i].owner \in Nat
    <3>1. requests[i] \in Accepted
      BY DEF CompanionType
    <3> QED
      BY <3>1 DEF Accepted
  <2> DEFINE key == IF code = "binary_response" THEN Token
                    ELSE requests[i].command.arg
             f == Frame(code, key)
  <2>3. f \in SentFrames
    BY <2>2, FramesMade
  <2>4. replies' \in {replies, replies \o Announce(requests[i].owner, f)}
        /\ signer' = signer
    BY <2>1
  <2> HIDE DEF f
  <2> QED
    BY <1>3, <2>2, <2>3, <2>4, ShownAnnounced
<1> QED
  BY <1>4, <1>6, <1>7, <1>8, <1>9, <1>10 DEF CompanionStep

\* The reply to a write ends a signing command, and starts none.
LEMMA ReplyEndsSigning ==
  ASSUME TypeInv, SignTurn, NEW f, NEW x, Responds(WriteIsOver, x, f),
         active' = x.active
  PROVE  ~ Signs' /\ active'.step # "setup"
<1> DEFINE tx == WriteIsOver.active
<1>1. /\ tx.step = active.step /\ tx.command = active.command
      /\ tx \in Transaction
  BY DEF WriteIsOver, Now, TypeInv, TypeOK, Transaction
<1> HIDE DEF tx
<1> DEFINE onwards(step) == [tx EXCEPT !.step = step,
                                    !.write = WriteIsOver.next_write + 1]
<1>2. /\ onwards("command").step = "command"
      /\ onwards("command").command = active.command
  BY <1>1 DEF Transaction
<1>3. onwards("restore").step = "restore"
  BY <1>1 DEF Transaction
<1>4. /\ [tx EXCEPT !.step = "result"].step = "result"
      /\ NoTransaction.step = "none"
  BY <1>1 DEF Transaction, NoTransaction
<1>5. LET y == [tx EXCEPT !.contacts_started = TRUE]
      IN y.step = active.step /\ y.command = active.command
  BY <1>1 DEF Transaction
<1>6. ~ Completes(active.command, f) => active.command.op \notin Signing
  BY DEF Completes, Signing
<1>7. \/ /\ active.step = "setup"
         /\ active'.step = "command" /\ active'.command = active.command
      \/ /\ active.step = "command" /\ ~ Completes(active.command, f)
         /\ active'.step = "command" /\ active'.command = active.command
      \/ active'.step \in {"none", "result", "restore"}
  <2>1. \/ /\ tx.step = "setup"
           /\ x.active = onwards("command")
        \/ x.active = NoTransaction
        \/ /\ tx.step = "command" /\ ~ Completes(tx.command, f)
           /\ x.active = [tx EXCEPT !.contacts_started = TRUE]
        \/ x.active = [tx EXCEPT !.step = "result"]
        \/ x.active = onwards("restore")
    BY DEF Responds, tx
  <2> HIDE DEF onwards
  <2> QED
    BY <1>1, <1>2, <1>3, <1>4, <1>5, <2>1
<1> QED
  BY <1>6, <1>7 DEF Signs, SignTurn

\* A reply to the running command.
LEMMA SignReply ==
  ASSUME TypeInv, CompanionType, WireInv, ~ failed, SignInv, signer' = signer,
         1 \in Ordinary, NEW f \in Frames, replies[1].frame = f,
         UpstreamFrame(f)
  PROVE  SignInv'
<1>1. Answering /\ SignTurn /\ SignHeld /\ SignBound
  BY DEF WireInv, SignInv
<1>2. InPlace(1)
  BY <1>1 DEF Answering, Ordinary
<1>3. PICK x : /\ LeasesAnswer(WriteIsOver, x, f)
               /\ signing' \in {x.signing, NoSigning}
               /\ \/ failed'
                  \/ /\ Responds(WriteIsOver, x, f) /\ ~ x.failing
                     /\ active' = x.active
  <2>1. f.code \notin PushCodes \/ AnswersSelfTelemetry(f)
    BY <1>2 DEF InPlace
  <2> QED
    BY <2>1, FrameSigns
<1>4. /\ WriteIsOver.active.step = active.step
      /\ WriteIsOver.active.command = active.command
      /\ WriteIsOver.signing = signing
      /\ active \in Transaction /\ signing \in SigningState
  BY DEF WriteIsOver, Now, TypeInv, TypeOK, Transaction
<1>5. ~ failed' => ~ Signs' /\ active'.step # "setup"
  BY <1>1, <1>3, ReplyEndsSigning
<1>6. CASE x.signing = signing /\ (Signs => x.failing)
  <2>1. signing' \in {signing, NoSigning}
    BY <1>3, <1>6
  <2>2. SignBound'
    BY <1>1, <2>1, BoundKept
  <2>3. ~ failed' => ~ Signs
    BY <1>3, <1>6
  <2> QED
    BY <1>1, <1>5, <2>1, <2>2, <2>3 DEF SignInv, SignTurn, SignHeld, NoSigning
<1>7. CASE /\ Signs /\ Valid(WriteIsOver.active, f)
           /\ x.signing = SigningAnswered(signing, WriteIsOver.active, f)
  <2> DEFINE lease == x.signing
             op == active.command.op
  <2>1. /\ lease = NoSigning \/ lease.owner = signing.owner
        /\ lease.accepted + lease.pending <= lease.limit
        /\ lease.tentative => lease.accepted = 0 /\ lease.pending = 0
        /\ op = "sign_start" => lease = NoSigning \/ f.code = "sign_start"
        /\ op = "sign_finish" => lease = NoSigning \/ f.code = "err"
    BY <1>1, <1>4, <1>7, AnswerBound
  <2> HIDE DEF lease
  <2>2. signing' \in {lease, NoSigning}
    BY <1>3 DEF lease
  <2>3. SignBound'
    BY <2>1, <2>2 DEF SignBound, NoSigning
  <2>4. f.code = "sign_start" => Shown("sign_start")
    BY DEF Shown
  <2>5. op = "sign_finish" /\ f.code = "err" => ~ Shown("signature")
    <3> SUFFICES ASSUME op = "sign_finish", f.code = "err",
                        NEW i \in Ordinary, replies[i].frame.code = "signature"
                 PROVE  FALSE
      BY DEF Shown
    <3>1. i > 1
      <4>1. i # 1 /\ i \in DOMAIN replies /\ replies \in Seq(Sending)
        BY DEF Ordinary, CompanionType
      <4> QED
        BY <4>1
    <3>2. ~ Completes(active.command, f)
      BY <1>2, <3>1 DEF InPlace
    <3> QED
      BY <3>2 DEF Completes
  <2>6. lease # NoSigning /\ lease.owner # 0 => signer = lease.owner
    BY <1>1, <1>7, <2>1, <2>4, <2>5 DEF SignTurn, SignHeld, Signs, Signing
  <2>7. ~ failed' => SignHeld'
    BY <2>2, <2>6 DEF SignHeld, NoSigning
  <2> QED
    BY <1>5, <2>3, <2>7 DEF SignInv, SignTurn
<1>8. \/ x.signing = signing /\ (Signs => x.failing)
      \/ /\ Signs /\ Valid(WriteIsOver.active, f)
         /\ x.signing = SigningAnswered(signing, WriteIsOver.active, f)
  BY <1>3, <1>4 DEF LeasesAnswer, Signs
<1> QED
  BY <1>6, <1>7, <1>8

\* A frame reaches the coordinator.
LEMMA SignFrame ==
  ASSUME TypeInv, LinkType, FrameArrives, WireInv, SignInv
  PROVE  SignInv'
<1> DEFINE f == Head(replies).frame
<1>1. /\ replies # <<>> /\ replies' = Tail(replies) /\ signer' = signer
      /\ UpstreamFrame(f) \/ LateUpstreamFrame
  BY DEF FrameArrives
<1>2. CompanionType
  BY LinkParts
<1>3. f \in Frames
  BY <1>1, <1>2, NextFrame
<1>4. 1 \in DOMAIN replies /\ replies[1].frame = f
  BY <1>1, <1>2, TakenFrame DEF CompanionType
<1>5. ~ failed
  BY <1>1 DEF UpstreamFrame, LateUpstreamFrame, AtRest
<1>6. InPlace(1)
  BY <1>4, <1>5 DEF WireInv, Answering
<1> HIDE DEF f
<1>7. CASE LateUpstreamFrame
  <2>1. SigningGoes
    BY <1>7, HandlersCalm
  <2>2. failed'
    <3>1. Fail(Now).failing /\ Commit(Fail(Now))
      BY <1>7 DEF LateUpstreamFrame, CommitAndSchedule, Fail, Now
    <3> QED
      BY <3>1, CommitWire
  <2> QED
    BY <2>1, <2>2, SignQuiet
<1>8. CASE UpstreamFrame(f) /\ 1 \in Ordinary
  BY <1>1, <1>2, <1>3, <1>4, <1>5, <1>8, SignReply
<1>9. CASE UpstreamFrame(f) /\ 1 \notin Ordinary
  <2>1. f.code \in PushCodes /\ f # Frame("telemetry_response", SelfKey)
    BY <1>4, <1>6, <1>9 DEF InPlace
  <2>2. ~ AnswersSelfTelemetry(f)
    BY <2>1 DEF AnswersSelfTelemetry, Frame
  <2>3. Rests
    BY <1>3, <1>9, <2>1, <2>2, UpstreamFrameWire
  <2>4. Commit(Push(f))
    <3>1. ~ Malformed(f)
      BY <2>1 DEF Malformed, PushCodes, RemotePushes
    <3> QED
      BY <1>9, <2>1, <3>1 DEF UpstreamFrame, CommitAndSchedule
  <2>5. SigningGoes
    BY <2>2, <2>4, PushSigns
  <2>6. \A code : Shown(code)' <=> Shown(code)
    BY <1>1, <1>2, <1>9, ShownTaken
  <2>7. \/ failed'
        \/ /\ failed' = failed
           /\ active'.step = active.step /\ active'.owner = active.owner
           /\ active'.command = active.command
    BY <2>3 DEF Rests
  <2> QED
    BY <1>1, <2>5, <2>6, <2>7, SignQuiet
<1> QED
  BY <1>1, <1>7, <1>8, <1>9

LEMMA SignStep ==
  ASSUME BrokerInv, BrokerInv', LinkType, WireInv, SignInv, MuxNext
  PROVE  SignInv'
<1>1. TypeInv /\ InboxInv /\ Ended /\ CompanionType /\ TypeInv' /\ Ended'
  BY LinkParts DEF BrokerInv
<1>2. CASE Clients \/ ClientRequest \/ Clock
  <2>1. ClientStep \/ ClockStep
    BY <1>1, <1>2, ClientsStep, ClockIsBroker
  <2>2. Rests /\ SigningGoes
    BY <1>1, <2>1, HandlersCalm
  <2>3. LinkSame /\ signer' = signer
    BY <1>2 DEF Clients, ClientRequest, Clock, companionVars, LinkSame
  <2> QED
    BY <2>2, <2>3, SignCalm
<1>3. CASE Schedule
  <2>1. ScheduleStep /\ LinkSame /\ signer' = signer
    BY <1>3 DEF Schedule, companionVars, LinkSame
  <2>2. CASE Rests /\ SigningGoes
    BY <2>1, <2>2, SignCalm
  <2>3. ASSUME NEW k, NEW s, TurnPop(k) \/ TurnDispatch(k, s)
        PROVE  SignInv'
    <3>1. ~ Busy
      BY <1>1, <2>3, TurnIsFree DEF TurnPop, TurnDispatch, NextTurn
    <3> QED
      BY <1>1, <2>1, <2>3, <3>1, SignStarts
  <2>4. \/ Rests /\ SigningGoes
        \/ \E k, s : TurnPop(k) \/ TurnDispatch(k, s)
    BY <1>1, <2>1, HandlersCalm DEF ScheduleStep
  <2> QED
    BY <2>2, <2>3, <2>4
<1>4. CASE WriterWrites
  <2>1. UNCHANGED <<failed, active, signing, replies, signer>>
    BY <1>4 DEF WriterWrites, TakeWrite
  <2>2. \A code : Shown(code)' <=> Shown(code)
    BY <2>1 DEF Shown, Ordinary
  <2> QED
    BY <2>1, <2>2, SignQuiet DEF SigningGoes
<1>5. CASE WriterReports
  <2>1. /\ UNCHANGED <<replies, signer>>
        /\ UpstreamWritten(wrote) \/ UNCHANGED vars
    BY <1>5 DEF WriterReports, companionVars
  <2>2. /\ SigningGoes
        /\ \/ failed'
           \/ failed' = failed /\ \E v : active' = [active EXCEPT !.write = v]
           \/ failed' = failed /\ active' = active
    <3>1. CASE UNCHANGED vars
      BY <3>1 DEF vars, SigningGoes
    <3> QED
      BY <1>1, <2>1, <3>1, WrittenWire
  <2>3. \A code : Shown(code)' <=> Shown(code)
    BY <2>1 DEF Shown, Ordinary
  <2>4. \/ failed'
        \/ /\ failed' = failed
           /\ active'.step = active.step /\ active'.owner = active.owner
           /\ active'.command = active.command
    <3>1. active \in Transaction
      BY <1>1 DEF TypeInv, TypeOK
    <3> QED
      BY <2>2, <3>1 DEF Transaction
  <2> QED
    BY <2>1, <2>2, <2>3, <2>4, SignQuiet
<1>6. CASE FrameArrives
  BY <1>1, <1>6, SignFrame
<1>7. CASE LinkFails
  <2>1. (UpstreamClosed \/ WriteFailed(0)) /\ Commit(Fail(Now))
    BY <1>7 DEF LinkFails, UpstreamClosed, WriteFailed, CommitAndSchedule
  <2>2. SigningGoes
    BY <1>1, <2>1, HandlersCalm DEF ClientStep
  <2>3. failed'
    BY <2>1, CommitWire DEF Fail, Now
  <2> QED
    BY <2>2, <2>3, SignQuiet
<1>8. CASE DrainDebt
  <2>1. DrainUncertainFrame(Head(replies).frame) /\ replies # <<>>
    BY <1>8 DEF DrainDebt
  <2>2. Head(replies).frame \in Frames
    BY <1>1, <2>1, NextFrame
  <2>3. SigningGoes /\ failed'
    BY <1>1, <2>1, <2>2, DrainSigns, DrainWire
  <2> QED
    BY <2>3, SignQuiet
<1>9. CASE Reconnect
  <2>1. failed /\ signing' = NoSigning /\ active' = active
    BY <1>9 DEF Reconnect, Restart
  <2>2. active.step = "none"
    BY <1>1, <2>1 DEF Ended, Busy
  <2> QED
    BY <2>1, <2>2
       DEF SignInv, SignBound, SignTurn, SignHeld, Signs, NoSigning
<1>10. CASE CompanionStep
  BY <1>1, <1>10, SignCompanion
<1> QED
  BY <1>2, <1>3, <1>4, <1>5, <1>6, <1>7, <1>8, <1>9, <1>10 DEF MuxNext

LEMMA SignInit == MuxInit => SignInv
BY DEF MuxInit, Init, SignInv, SignBound, SignTurn, SignHeld, Signs, NoSigning,
   NoTransaction

LEMMA SignInvariant == MuxSpec => [](BrokerInv /\ LinkType /\ WireInv /\ SignInv)
<1>1. MuxInit => SignInv
  BY SignInit
<1>2. BrokerInv /\ BrokerInv' /\ LinkType /\ WireInv /\ SignInv
        /\ [MuxNext]_muxVars => SignInv'
  <2>1. ASSUME SignInv, UNCHANGED muxVars
        PROVE  SignInv'
    <3>1. UNCHANGED <<failed, active, signing, replies, signer>>
      BY <2>1 DEF muxVars, vars, companionVars
    <3>2. \A code : Shown(code)' <=> Shown(code)
      BY <3>1 DEF Shown, Ordinary
    <3> QED
      BY <2>1, <3>1, <3>2, SignQuiet DEF SigningGoes
  <2> QED
    BY <2>1, SignStep
<1>3. MuxSpec => [](BrokerInv /\ RoundInv /\ LinkType /\ WireInv)
  BY WireInvariant
<1> QED
  BY <1>1, <1>2, <1>3, PTL DEF MuxSpec

\* Data and finish of a signature reach the companion only while the operation
\* it executes is their own client's, and the lease never counts more bytes than
\* it announced room for: admit_command? forwards them to nobody but the holder of the lease,
\* which is lost to its owner's departure, to the clock or to the end of the
\* epoch while none of its commands is running, or with it.
THEOREM SigningAlone == MuxSpec => []SigningUninterrupted
<1>1. BrokerInv /\ LinkType /\ WireInv /\ SignInv => SigningUninterrupted
  <2> SUFFICES ASSUME BrokerInv, LinkType, WireInv, SignInv
               PROVE  SigningUninterrupted
    OBVIOUS
  <2>1. TypeInv
    BY DEF BrokerInv
  <2>2. ASSUME ~ failed, received # <<>>,
               Head(received).command.op \in {"sign_data", "sign_finish"}
        PROVE  signer = Head(received).owner
    <3>1. /\ received = <<Job(next_write, active)>> /\ Ordinary = {}
          /\ active.step \in {"setup", "command", "restore"}
      BY <2>2 DEF WireInv, Aligned
    <3>2. Head(received) = Job(next_write, active)
      BY <3>1
    <3>3. /\ Head(received).command = WireCommand(active)
          /\ Head(received).owner = active.owner
      BY <3>2 DEF Job
    <3>4. /\ active.step = "command"
          /\ active.command.op \in {"sign_data", "sign_finish"}
      BY <2>2, <3>1, <3>3 DEF WireCommand, SetScope
    <3>5. /\ Signs /\ signing.owner = active.owner /\ ~ signing.tentative
      BY <2>2, <3>4 DEF SignInv, SignTurn, Signs, Signing
    <3>6. active.owner # 0
      BY <2>1, <3>4 DEF TypeInv, PopShape, Sync
    <3>7. ~ Shown("signature")
      BY <3>1 DEF Shown
    <3> QED
      BY <2>2, <3>3, <3>5, <3>6, <3>7 DEF SignInv, SignHeld
  <2> QED
    BY <2>2 DEF SigningUninterrupted, SignInv, SignBound
<1> QED
  BY <1>1, SignInvariant, PTL
-----------------------------------------------------------------------------
(* The epoch of a companion that follows the protocol                      *)

\* No deadline of the link elapses, nobody closes it, no client asks for a
\* maintenance command, which ends the epoch by design, and the companion
\* refuses none of the broker's own commands.
Undisturbed ==
  /\ Deadlines \cap {"response", "late frame", "upstream write"} = {}
  /\ Faults \cap {"upstream closed", "upstream writer"} = {}
  /\ \A c \in Commands : c.op \notin Maintenance
  /\ Refused \cap {Sync, SetScope(DefaultScope)} = {}

\* A reply that the command may have.
Suits(command, f) ==
  IF f.code = "err" THEN command \in Refused
  ELSE /\ f.code \in SuccessCodes(command.op)
       /\ f.code \in {"channel_info", "stats"} => f.arg = command.arg

\* A reply's place in the stream of contacts: it begins with the one reply
\* that the broker may still be without.
Opens(i) == replies[i].frame.code = "contacts_start"
InStream(i) ==
  /\ Opens(i) => ~ active.contacts_started /\ \A j \in Ordinary : i <= j
  /\ replies[i].frame.code \in {"contact", "end_of_contacts"} =>
       active.contacts_started \/ \E j \in Ordinary : j < i /\ Opens(j)

Streaming == active.step = "command" /\ active.command.op = "get_contacts"

\* Every reply on its way is one that the running transaction accepts when its
\* turn comes.
Fitting ==
  /\ \A i \in Ordinary : Suits(WireCommand(active), replies[i].frame)
  /\ active.step = "setup" => active.command.op \in ScopeSend
  /\ Streaming =>
       /\ outgoing # <<>> \/ received # <<>> => ~ active.contacts_started
       /\ \A i \in Ordinary : InStream(i)

FittingInv == ~ failed => Fitting

HealthInv == ~ failed /\ active.step # "result"

LEMMA CommitSurvives ==
  ASSUME NEW x, Commit(x), x.failing = FALSE, x.active.step # "result"
  PROVE  failed' = failed /\ active' = x.active
BY DEF Commit, NextState, Continue, EpochEnds

\* No handler fails but those that are told that the link has failed, that a
\* deadline of the link has passed or that a frame has arrived.
LEMMA HandlersSurvive ==
  ASSUME TypeInv, Undisturbed, active.step # "result",
         \/ \E s : ScheduleLocal(s) \/ ScheduleAged(s)
         \/ ScheduleBusy \/ TurnNone
         \/ \E k, s : TurnReject(k, s)
         \/ Clients \/ ClientRequest \/ Clock
  PROVE  failed' = failed
<1> DEFINE Unfailing(x) == x.failing = FALSE /\ x.active = active
           Quiet == \E x : Commit(x) /\ Unfailing(x)
<1>1. Quiet => failed' = failed
  BY CommitSurvives
<1>2. ASSUME NEW e, CommitAndSchedule(e)
      PROVE  Commit(e)
  BY <1>2 DEF CommitAndSchedule
<1>3. \A gone : Unfailing([Now EXCEPT !.closed = gone])
  BY DEF Now
<1>4. ASSUME \E s : ScheduleLocal(s)
      PROVE  Quiet
  <2>1. PICK s : ScheduleLocal(s)
    BY <1>4
  <2> DEFINE command == Head(sessions[s].commands)
             e == [Now EXCEPT !.sessions[s].commands =
                                Tail(sessions[s].commands)]
  <2>2. Unfailing(e)
    BY DEF Now
  <2>3. e \in State(next_session)
    BY <2>1, TailTaken DEF ScheduleLocal, LocalReady, HeadReady
  <2>4. Commit(LocalEffect(e, s, command))
    BY <2>1 DEF ScheduleLocal
  <2> HIDE DEF e, command
  <2> DEFINE x == LocalEffect(e, s, command)
  <2>5. LocalSync(e, s).failing = e.failing /\ LocalSync(e, s).active = e.active
    BY <2>3 DEF LocalSync, State
  <2>6. x.failing = e.failing /\ x.active = e.active
    BY <2>3, <2>5 DEF LocalEffect, State
  <2> HIDE DEF x
  <2>7. Unfailing(x)
    BY <2>2, <2>6
  <2> QED
    BY <2>4, <2>7 DEF x
<1>5. ASSUME \E s : ScheduleAged(s)
      PROVE  Quiet
  <2>1. PICK s : ScheduleAged(s)
    BY <1>5
  <2> DEFINE x == [Now EXCEPT !.sessions[s] =
                     [Reply(sessions[s], "frame") EXCEPT
                        !.commands = Tail(sessions[s].commands)]]
  <2>2. Unfailing(x)
    BY DEF Now
  <2>3. Commit(x)
    BY <2>1 DEF ScheduleAged
  <2> HIDE DEF x, Unfailing
  <2> QED
    BY <2>2, <2>3
<1>6. ASSUME \E s, command : ClientFrame(s, command)
      PROVE  Quiet
  <2>1. PICK s, command : ClientFrame(s, command)
    BY <1>6
  <2> DEFINE x == [Now EXCEPT !.sessions[s] =
                     [sessions[s] EXCEPT
                        !.commands = Append(sessions[s].commands, command),
                        !.owed = Append(sessions[s].owed, command)]]
  <2>2. Unfailing(x)
    BY DEF Now
  <2>3. CommitAndSchedule(x) \/ CommitAndSchedule([Now EXCEPT !.closed = {s}])
    BY <2>1 DEF ClientFrame
  <2> HIDE DEF x, Unfailing
  <2> QED
    BY <1>2, <1>3, <2>2, <2>3
<1>7. ASSUME \E s : ClientClosed(s) \/ (s # 0 /\ WriteFailed(s))
      PROVE  Quiet
  <2>1. PICK s : CommitAndSchedule([Now EXCEPT !.closed = {s}])
    BY <1>7 DEF ClientClosed, WriteFailed
  <2> HIDE DEF Unfailing
  <2> QED
    BY <1>2, <1>3, <2>1
<1>8. ASSUME \E s : Written(s)
      PROVE  Quiet
  <2>1. PICK s : Written(s)
    BY <1>8
  <2> DEFINE x == [Now EXCEPT !.sessions[s].writes = Tail(sessions[s].writes)]
  <2>2. Unfailing(x)
    BY DEF Now
  <2>3. CommitAndSchedule(x)
    BY <2>1 DEF Written
  <2> HIDE DEF x, Unfailing
  <2> QED
    BY <1>2, <2>2, <2>3
<1>9. ASSUME \E stuck, late, expired, poll : Tick(stuck, late, expired, poll)
      PROVE  Quiet
  <2>1. PICK stuck, late, expired, poll : Tick(stuck, late, expired, poll)
    BY <1>9
  <2> DEFINE table == [s \in DOMAIN sessions |->
                         IF s \in late
                         THEN [Reply(sessions[s], "frame") EXCEPT !.sync = 0]
                         ELSE sessions[s]]
             x == [Now EXCEPT
                     !.closed = stuck,
                     !.sessions = IF poll THEN HintAll(table) ELSE table,
                     !.remote = IF "remote" \in expired THEN NoRemote
                                ELSE remote,
                     !.signing = IF "signing" \in expired THEN NoSigning
                                 ELSE signing]
  <2>2. Unfailing(x)
    BY DEF Now
  <2>3. CommitAndSchedule(x)
    BY <2>1 DEF Tick
  <2> HIDE DEF x, Unfailing
  <2> QED
    BY <1>2, <2>2, <2>3
<1>10. ASSUME \E k, s : TurnReject(k, s)
       PROVE  Quiet
  <2>1. PICK k, s : TurnReject(k, s)
    BY <1>10
  <2> DEFINE e == TurnTaken(k, s, Head(sessions[s].commands))
             x == [e EXCEPT !.sessions[s] = Reply(e.sessions[s], "frame")]
  <2>2. Commit(x) /\ NextTurn(k, s) /\ s # 0
    BY <2>1 DEF TurnReject
  <2>3. e \in State(next_session)
    BY <2>2, TurnTakenType
  <2>4. Unfailing(e)
    BY DEF TurnTaken, Now
  <2> HIDE DEF e
  <2>5. x.failing = e.failing /\ x.active = e.active
    BY <2>3 DEF State
  <2> HIDE DEF x
  <2> QED
    BY <2>2, <2>4, <2>5
<1>11. ASSUME \E d : Admit(d)
       PROVE  Quiet \/ failed' = failed
  <2>1. PICK d : Admit(d)
    BY <1>11
  <2> DEFINE id == next_session + 1
             old == IF d = 0 THEN 0 ELSE slots[d].attached
             others == DOMAIN sessions \ {old}
             new == Hint([NewSession(d) EXCEPT
                            !.inbox = IF TakesOrphan(d) THEN <<orphan>>
                                      ELSE <<>>])
             x == [Now EXCEPT
                     !.sessions = [s \in others \cup {id} |->
                                     IF s = id THEN new ELSE sessions[s]],
                     !.order = Append(order, id),
                     !.slots = [y \in Slots |->
                                  IF y = d THEN [slots[y] EXCEPT !.attached = id]
                                  ELSE slots[y]],
                     !.orphan = IF TakesOrphan(d) THEN 0 ELSE orphan,
                     !.drain = IF others = {} THEN NoDrain ELSE drain]
  <2>2. Unfailing(x)
    BY DEF Now
  <2>3. failed' = failed \/ CommitAndSchedule(x)
    BY <2>1 DEF Admit
  <2> HIDE DEF x, Unfailing
  <2> QED
    BY <1>2, <2>2, <2>3
<1>12. ASSUME \/ ScheduleBusy \/ TurnNone \/ QuarantineDeadline
              \/ \E i : DmDeadline(i)
       PROVE  failed' = failed
  BY <1>12 DEF ScheduleBusy, TurnNone, QuarantineDeadline, DmDeadline
<1>13. ~ ResponseTimeout /\ ~ UpstreamWriteTimeout
  BY DEF Undisturbed, ResponseTimeout, UpstreamWriteTimeout
<1>14. 0 \notin DOMAIN sessions
  BY DEF TypeInv, TypeOK
<1> HIDE DEF Quiet
<1>15. CASE Clients
  <2>1. \/ \E d : Admit(d)
        \/ \E s : ClientClosed(s) \/ (s # 0 /\ WriteFailed(s)) \/ Written(s)
    BY <1>14, <1>15 DEF Clients
  <2> QED
    BY <1>1, <1>7, <1>8, <1>11, <2>1
<1>16. CASE ClientRequest
  <2>1. \E s, command : ClientFrame(s, command)
    BY <1>16 DEF ClientRequest
  <2> QED
    BY <1>1, <1>6, <2>1
<1>17. CASE Clock
  <2>1. \/ \E stuck, late, expired, poll : Tick(stuck, late, expired, poll)
        \/ QuarantineDeadline \/ \E i : DmDeadline(i)
    BY <1>13, <1>17 DEF Clock
  <2> QED
    BY <1>1, <1>9, <1>12, <2>1
<1> QED
  BY <1>1, <1>4, <1>5, <1>10, <1>12, <1>15, <1>16, <1>17

-----------------------------------------------------------------------------
(* transaction_response: a fitting reply is accepted                       *)

Accepts(x) == x.failing = FALSE /\ x.active.step # "result"

LEMMA ScopeResponseSurvives ==
  ASSUME NEW n \in Nat, NEW e \in State(n), NEW f, e.failing = FALSE,
         \/ e.active.step = "setup" /\ f.code \in {"ok", "err"}
         \/ e.active.step = "restore" /\ f.code = "ok"
  PROVE  Accepts(ScopeResponse(e, f))
<1> DEFINE tx == e.active
           refused == IF tx.owner \in DOMAIN e.sessions
                      THEN [e EXCEPT !.sessions[tx.owner] =
                              Reply(e.sessions[tx.owner], "frame")]
                      ELSE e
           dropped == [refused EXCEPT
                         !.remote = IF tx.command.op \in RemoteLease
                                    THEN NoRemote ELSE e.remote]
<1>1. tx \in Transaction
  BY DEF State, Transactions
<1>2. CASE tx.step = "setup" /\ f.code = "ok"
  <2>1. ScopeResponse(e, f) = SendCommand(e, tx)
    BY <1>2 DEF ScopeResponse
  <2> DEFINE ty == [tx EXCEPT !.step = "command", !.write = e.next_write + 1]
  <2>2. /\ SendCommand(e, tx).failing = e.failing
        /\ SendCommand(e, tx).active = ty
    <3> HIDE DEF tx
    <3> QED
      BY <1>1, SendCommandIssues
  <2>3. ty.step = "command"
    BY <1>1 DEF Transaction
  <2> HIDE DEF ty
  <2> QED
    BY <2>1, <2>2, <2>3 DEF Accepts
<1>3. CASE tx.step = "restore" /\ f.code = "ok"
  <2>1. ScopeResponse(e, f) = Finish(e)
    BY <1>3 DEF ScopeResponse
  <2> QED
    BY <2>1 DEF Accepts, Finish, NoTransaction, State
<1>4. CASE tx.step = "setup" /\ f.code = "err"
  <2>1. ScopeResponse(e, f) = Finish(dropped)
    BY <1>4 DEF ScopeResponse
  <2>2. dropped.failing = e.failing
    BY DEF State
  <2>3. DOMAIN dropped = DOMAIN e
    OBVIOUS
  <2> HIDE DEF dropped
  <2>4. DOMAIN e = DOMAIN Now
    BY DEF State, Now
  <2>5. /\ Finish(dropped).failing = dropped.failing
        /\ Finish(dropped).active = NoTransaction
    BY <2>3, <2>4 DEF Finish, Now
  <2> QED
    BY <2>1, <2>2, <2>5 DEF Accepts, NoTransaction
<1> QED
  BY <1>2, <1>3, <1>4

LEMMA CommandResponseSurvives ==
  ASSUME NEW n \in Nat, NEW e \in State(n), NEW f \in Frames, e.failing = FALSE,
         e.active.step = "command", e.active.command.op \notin Maintenance
  PROVE  Accepts(CommandResponse(e, f))
<1> DEFINE tx == e.active
           x == CommandResponse(e, f)
           told == ReplyToOwner(e, f)
           done == RecordAcceptance(told, tx.command, f)
<1>1. told \in State(n) /\ SameWire(e, told) /\ told.failing = FALSE
  BY ReplyToOwnerType, RecordsNoWrite
<1>2. tx \in Transaction /\ tx.command \in Command
  BY DEF State, Transactions, Transaction
<1>3. CASE Completes(tx.command, f)
  <2>1. x = AfterCommand(done)
    BY <1>3 DEF CommandResponse
  <2> HIDE DEF told
  <2>2. done \in State(n) /\ SameWire(told, done) /\ done.failing = FALSE
    BY <1>1, <1>2, RecordAcceptanceType, RecordsNoWrite
  <2>3. done.active = tx
    BY <1>1, <2>2 DEF SameWire, NoWrite
  <2> HIDE DEF done, x, tx
  <2>4. CASE tx.scoped
    <3> DEFINE ty == [tx EXCEPT !.step = "restore"]
               y == SendUpstream(done, ty, SetScope(DefaultScope))
    <3>1. x = y
      BY <2>1, <2>3, <2>4 DEF AfterCommand, RestoresScope
    <3>2. ty \in Transaction /\ ty.step = "restore"
      BY <1>2 DEF Transaction, Steps
    <3>3. SetScope(DefaultScope) = WireCommand(ty)
      BY <3>2 DEF WireCommand
    <3>4. /\ y.failing = FALSE
          /\ y.active = [ty EXCEPT !.write = done.next_write + 1]
      <4> HIDE DEF ty
      <4> QED
        BY <2>2, <3>2, <3>3, SendUpstreamIssues
    <3>5. [ty EXCEPT !.write = done.next_write + 1].step = "restore"
      BY <3>2 DEF Transaction
    <3> HIDE DEF ty, y
    <3> QED
      BY <3>1, <3>4, <3>5 DEF Accepts, x
  <2>5. CASE ~ tx.scoped
    <3>1. x = Finish(done)
      BY <2>1, <2>3, <2>5 DEF AfterCommand, RestoresScope, tx
    <3>2. Finish(done).failing = FALSE /\ Finish(done).active = NoTransaction
      BY <2>2 DEF Finish, State
    <3> QED
      BY <3>1, <3>2 DEF Accepts, NoTransaction, x
  <2> QED
    BY <2>4, <2>5
<1>4. CASE ~ Completes(tx.command, f)
  <2> DEFINE y == [told EXCEPT !.active.contacts_started = TRUE]
  <2>1. x = y
    BY <1>4 DEF CommandResponse
  <2> HIDE DEF told
  <2>2. y.failing = FALSE /\ y.active = [tx EXCEPT !.contacts_started = TRUE]
    BY <1>1 DEF SameWire, State
  <2>3. [tx EXCEPT !.contacts_started = TRUE].step = "command"
    BY <1>2 DEF Transaction
  <2> HIDE DEF x, y
  <2> QED
    BY <2>1, <2>2, <2>3 DEF Accepts, x
<1> QED
  BY <1>3, <1>4

\* Of a fitting reply that comes first, the epoch thinks nothing ill.
LEMMA FittingAccepted ==
  ASSUME TypeInv, CompanionType, Undisturbed, WireInv, FittingInv, HealthInv,
         replies # <<>>, 1 \in Ordinary
  PROVE  Accepts(TransactionResponse(Head(replies).frame))
<1> DEFINE f == Head(replies).frame
           x == TransactionResponse(f)
           e == WriteIsOver
           n == next_session
<1> SUFFICES Accepts(x)
  OBVIOUS
<1>1. f \in Frames /\ replies[1].frame = f /\ Ordinary \subseteq Nat
  <2>1. replies[1] = Head(replies) /\ DOMAIN replies \subseteq Nat
    BY TakenFrame DEF CompanionType
  <2> QED
    BY <2>1, NextFrame DEF Ordinary
<1>2. /\ n \in Nat /\ active \in Transaction /\ PopShape(active)
      /\ active.command \in Command /\ active.contacts_started \in BOOLEAN
  BY DEF TypeInv, TypeOK, Transaction
<1>3. e \in State(n) /\ e.active = [active EXCEPT !.write = 0]
  BY WriteIsOverType
<1>4. /\ e.active.step = active.step /\ e.active.owner = active.owner
      /\ e.active.command = active.command
  BY <1>2, <1>3 DEF Transaction
<1>5. e.failing = FALSE
  BY DEF WriteIsOver, Now
<1>6. /\ Suits(WireCommand(active), f)
      /\ active.step \in {"setup", "command", "restore"}
      /\ Streaming => InStream(1)
  <2>1. Aligned /\ Fitting
    BY DEF HealthInv, FittingInv, WireInv
  <2>2. active.step \in {"setup", "command", "restore"}
    BY <2>1 DEF Aligned
  <2>3. Suits(WireCommand(active), f) /\ (Streaming => InStream(1))
    BY <1>1, <2>1 DEF Fitting
  <2> QED
    BY <2>2, <2>3
<1>7. active.command.op \notin Maintenance
  <2>1. /\ \A c \in Commands : c.op \notin Maintenance
        /\ Sync.op \notin Maintenance /\ "none" \notin Maintenance
        /\ "set_flood_scope_key" \notin Maintenance
    BY DEF Undisturbed, Sync, Maintenance
  <2> QED
    BY <1>2, <2>1 DEF Command
<1> HIDE DEF f, e, n
<1>8. CASE active.step \in {"setup", "restore"}
  <2>1. x = ScopeResponse(e, f)
    BY <1>8 DEF TransactionResponse, e
  <2>2. \E scope : WireCommand(active) = SetScope(scope)
                     /\ (active.step = "restore" => scope = DefaultScope)
    BY <1>8 DEF WireCommand
  <2>3. f.code \in {"ok", "err"} /\ (active.step = "restore" => f.code = "ok")
    <3>1. PICK scope : /\ WireCommand(active) = SetScope(scope)
                       /\ active.step = "restore" => scope = DefaultScope
      BY <2>2
    <3>2. SuccessCodes(SetScope(scope).op) = {"ok"}
      BY ReplyCodes DEF SetScope
    <3>3. SetScope(DefaultScope) \notin Refused
      BY DEF Undisturbed
    <3> QED
      BY <1>6, <3>1, <3>2, <3>3 DEF Suits
  <2> QED
    <3>1. Accepts(ScopeResponse(e, f))
      BY <1>2, <1>3, <1>4, <1>5, <1>8, <2>3, ScopeResponseSurvives
    <3> QED
      BY <2>1, <3>1
<1>9. CASE active.step = "command"
  <2>1. Suits(active.command, f)
    BY <1>6, <1>9 DEF WireCommand
  <2>2. Valid(active, f)
    <3>1. CASE f.code = "err"
      BY <3>1 DEF Valid, ValidResponse
    <3>2. CASE f.code # "err" /\ active.command.op # "get_contacts"
      BY <2>1, <3>2 DEF Suits, Valid, ValidResponse
    <3>3. CASE f.code # "err" /\ active.command.op = "get_contacts"
      <4>1. f.code \in {"contacts_start", "contact", "end_of_contacts"}
        BY <2>1, <3>3, ReplyCodes DEF Suits
      <4>2. InStream(1)
        BY <1>6, <1>9, <3>3 DEF Streaming
      <4>3. f.code = "contacts_start" => ~ active.contacts_started
        BY <1>1, <4>2 DEF InStream, Opens
      <4>4. \A j \in Ordinary : ~ j < 1
        BY <1>1, TakenFrame DEF CompanionType, Ordinary
      <4>5. f.code # "contacts_start" => active.contacts_started
        BY <1>1, <4>1, <4>2, <4>4 DEF InStream
      <4> QED
        BY <2>1, <3>3, <4>3, <4>5 DEF Suits, Valid, ValidResponse
    <3> QED
      BY <3>1, <3>2, <3>3
  <2>3. CASE active.owner = 0
    <3>1. active.command = Sync
      BY <1>2, <1>9, <2>3 DEF PopShape
    <3>2. f.code \in {"message", "no_more_messages"}
      <4>1. Sync \notin Refused
        BY DEF Undisturbed
      <4>2. SuccessCodes(Sync.op) = {"message", "no_more_messages"}
        BY ReplyCodes DEF Sync
      <4> QED
        BY <2>1, <3>1, <4>1, <4>2 DEF Suits
    <3>3. x = PopResult(Finish(e), active, f)
      BY <1>9, <2>2, <2>3, <3>2 DEF TransactionResponse, e, Valid
    <3>4. /\ Finish(e) \in State(n) /\ Finish(e).failing = FALSE
          /\ Finish(e).active = NoTransaction
      BY <1>2, <1>3, <1>5, FinishType DEF Finish, State
    <3>5. /\ SameWire(Finish(e), PopResult(Finish(e), active, f))
          /\ PopResult(Finish(e), active, f).failing = Finish(e).failing
      BY <1>1, <1>2, <3>2, <3>4, PopResultNoWrite
    <3> HIDE DEF x
    <3> QED
      BY <3>3, <3>4, <3>5 DEF Accepts, SameWire, NoTransaction
  <2>4. CASE active.owner # 0
    <3>1. x = CommandResponse(e, f)
      BY <1>9, <2>2, <2>4 DEF TransactionResponse, e, Valid
    <3> QED
      <4>1. Accepts(CommandResponse(e, f))
        BY <1>1, <1>2, <1>3, <1>4, <1>5, <1>7, <1>9, CommandResponseSurvives
      <4> QED
        BY <3>1, <4>1
  <2> QED
    BY <2>3, <2>4
<1> QED
  BY <1>6, <1>8, <1>9

-----------------------------------------------------------------------------
(* What is on its way goes on fitting                                      *)

LEMMA FittingSame ==
  ASSUME active \in Transaction, Fitting, NEW v,
         active' = [active EXCEPT !.write = v], replies' = replies,
         outgoing' # <<>> \/ received' # <<>> =>
           outgoing # <<>> \/ received # <<>>
  PROVE  Fitting'
<1>1. /\ active'.step = active.step /\ active'.command = active.command
      /\ active'.scope = active.scope
      /\ active'.contacts_started = active.contacts_started
  BY DEF Transaction
<1>2. WireCommand(active') = WireCommand(active)
  BY <1>1 DEF WireCommand
<1>3. Ordinary' = Ordinary /\ (Streaming' <=> Streaming)
  BY <1>1 DEF Ordinary, Streaming
<1>4. \A i : InStream(i) => InStream(i)'
  BY <1>1, <1>3 DEF InStream, Opens
<1> QED
  BY <1>1, <1>2, <1>3, <1>4 DEF Fitting

\* A command is dispatched with nothing on its way to answer it.
LEMMA FittingStarts ==
  ASSUME Starts, Ordinary' = {}
  PROVE  Fitting'
BY DEF Starts, Fitting

\* A push leaves, and the replies behind it move up.
LEMMA FittingPush ==
  ASSUME CompanionType, Fitting, replies # <<>>, replies' = Tail(replies),
         1 \notin Ordinary, UNCHANGED <<active, outgoing, received>>
  PROVE  Fitting'
<1>1. /\ \A i \in DOMAIN replies' :
           /\ i + 1 \in DOMAIN replies /\ replies'[i] = replies[i + 1]
           /\ i \in Nat /\ i >= 1
      /\ \A i \in DOMAIN replies :
           i = 1 \/ (i - 1 \in DOMAIN replies' /\ replies'[i - 1] = replies[i])
      /\ DOMAIN replies \subseteq Nat
  BY TakenFrame DEF CompanionType
<1>2. /\ \A i \in Ordinary' : i \in Nat /\ i + 1 \in Ordinary
                                /\ replies'[i] = replies[i + 1]
      /\ \A i \in Ordinary : i \in Nat /\ i - 1 \in Ordinary'
                                /\ replies'[i - 1] = replies[i]
  BY <1>1 DEF Ordinary
<1>3. ASSUME NEW i \in Ordinary', InStream(i + 1)
      PROVE  InStream(i)'
  <2>1. i \in Nat /\ replies'[i] = replies[i + 1]
    BY <1>2
  <2>2. ASSUME \A j \in Ordinary : i + 1 <= j
        PROVE  \A j \in Ordinary' : i <= j
    BY <1>2, <2>1, <2>2
  <2>3. ASSUME NEW j \in Ordinary, j < i + 1, Opens(j)
        PROVE  \E k \in Ordinary' : k < i /\ Opens(k)'
    <3>1. j \in Nat /\ j - 1 \in Ordinary' /\ replies'[j - 1] = replies[j]
      BY <1>2
    <3>2. j - 1 < i
      BY <2>1, <2>3, <3>1
    <3> DEFINE k == j - 1
    <3> HIDE DEF k
    <3>3. k \in Ordinary' /\ k < i /\ replies'[k] = replies[j]
      BY <3>1, <3>2 DEF k
    <3> QED
      BY <2>3, <3>3 DEF Opens
  <2> QED
    BY <1>3, <2>1, <2>2, <2>3 DEF InStream, Opens
<1>4. Streaming' <=> Streaming
  BY DEF Streaming
<1> QED
  BY <1>2, <1>3, <1>4 DEF Fitting

\* A reply leaves.  Either the stream of contacts goes on, now begun, or
\* nothing else is on its way.
LEMMA FittingAnswered ==
  ASSUME TypeInv, CompanionType, ~ failed, ~ failed', WireInv, WireInv', Fitting,
         replies # <<>>, 1 \in Ordinary, Answered(Head(replies).frame),
         replies' = Tail(replies), received' = received
  PROVE  Fitting'
<1> DEFINE f == Head(replies).frame
           e == WriteIsOver
           tx == e.active
<1>1. PICK x : /\ Responds(e, x, f)
               /\ outgoing' = x.outgoing /\ next_write' = x.next_write
               /\ active' = x.active
  BY DEF Answered
<1>2. active \in Transaction
  BY DEF TypeInv, TypeOK
<1>3. tx = [active EXCEPT !.write = 0]
  BY WriteIsOverType
<1> HIDE DEF e
<1>4. /\ tx \in Transaction
      /\ tx.step = active.step /\ tx.owner = active.owner
      /\ tx.command = active.command /\ tx.scope = active.scope
      /\ tx.contacts_started = active.contacts_started
  BY <1>2, <1>3 DEF Transaction
<1>5. /\ replies[1].frame = f
      /\ \A i \in DOMAIN replies' :
           /\ i + 1 \in DOMAIN replies /\ replies'[i] = replies[i + 1]
           /\ i \in Nat /\ i >= 1
      /\ DOMAIN replies \subseteq Nat
  BY TakenFrame DEF CompanionType
<1>6. \A i \in Ordinary' : /\ i \in Nat /\ i >= 1 /\ i + 1 \in Ordinary
                           /\ replies'[i] = replies[i + 1]
  BY <1>5 DEF Ordinary
<1>7. Aligned' /\ Aligned
  BY DEF WireInv
<1> HIDE DEF f, tx
<1>8. CASE active.step = "command" /\ ~ Completes(active.command, f)
  <2>1. NoWrite(e, x) /\ x.active = [tx EXCEPT !.contacts_started = TRUE]
    BY <1>1, <1>4, <1>8 DEF Responds, tx
  <2>2. /\ active'.step = "command" /\ active'.command = active.command
        /\ active'.contacts_started
    BY <1>1, <1>4, <1>8, <2>1 DEF Transaction
  <2>3. WireCommand(active') = WireCommand(active)
    BY <1>8, <2>2 DEF WireCommand
  <2>4. active.command.op = "get_contacts"
    BY <1>8 DEF Completes
  <2>5. \A i \in Ordinary : InStream(i)
    BY <1>8, <2>4 DEF Fitting, Streaming
  <2>6. ASSUME NEW i \in Ordinary'
        PROVE  Suits(WireCommand(active'), replies'[i].frame) /\ InStream(i)'
    <3>1. /\ i \in Nat /\ i >= 1 /\ i + 1 \in Ordinary
          /\ replies'[i] = replies[i + 1]
      BY <1>6
    <3>2. Suits(WireCommand(active), replies[i + 1].frame)
      BY <3>1 DEF Fitting
    <3>3. ~ Opens(i)'
      <4>1. ~ i + 1 <= 1
        BY <3>1
      <4>2. ~ Opens(i + 1)
        BY <2>5, <3>1, <4>1 DEF InStream
      <4> QED
        BY <3>1, <4>2 DEF Opens
    <3> QED
      BY <2>2, <2>3, <3>1, <3>2, <3>3 DEF InStream
  <2>7. Ordinary' # {} => outgoing' = <<>> /\ received' = <<>>
    BY <1>7 DEF Aligned
  <2>8. outgoing' = <<>> /\ received' = <<>>
    <3>1. outgoing = <<>> /\ received = <<>>
      BY <1>7 DEF Aligned
    <3> QED
      BY <1>1, <2>1, <3>1 DEF NoWrite, e, WriteIsOver, Now
  <2> QED
    BY <2>2, <2>6, <2>8 DEF Fitting
<1>9. CASE ~ (active.step = "command" /\ ~ Completes(active.command, f))
  <2>1. Ordinary' = {}
    <3>1. InPlace(1)
      BY DEF WireInv, Answering, Ordinary
    <3>2. \A j \in Ordinary : ~ j > 1
      BY <1>5, <1>9, <3>1 DEF InPlace
    <3> QED
      BY <1>6, <3>2
  <2>2. \/ /\ active.step = "setup" /\ active'.step = "command"
           /\ active'.command = active.command
        \/ active'.step \in {"none", "result", "restore"}
    <3>1. \A step \in Steps : LET ty == [tx EXCEPT !.step = step,
                                           !.write = e.next_write + 1]
                              IN ty.step = step /\ ty.command = active.command
      BY <1>4 DEF Transaction
    <3>2. [tx EXCEPT !.step = "result"].step = "result"
      BY <1>4 DEF Transaction
    <3>3. {"command", "restore"} \subseteq Steps
      BY DEF Steps
    <3>4. \/ /\ tx.step = "setup"
             /\ x.active = [tx EXCEPT !.step = "command",
                                      !.write = e.next_write + 1]
          \/ x.active \in {NoTransaction, [tx EXCEPT !.step = "result"]}
          \/ x.active = [tx EXCEPT !.step = "restore",
                                   !.write = e.next_write + 1]
      BY <1>1, <1>4, <1>9 DEF Responds, tx
    <3>5. NoTransaction.step = "none"
      BY DEF NoTransaction
    <3> QED
      BY <1>1, <1>4, <3>1, <3>2, <3>3, <3>4, <3>5
  <2>3. ~ Streaming'
    <3>1. active.step = "setup" => active.command.op \in ScopeSend
      BY DEF Fitting
    <3>2. "get_contacts" \notin ScopeSend
      BY DEF ScopeSend, RemoteLease
    <3> QED
      BY <2>2, <3>1, <3>2 DEF Streaming
  <2> QED
    BY <2>1, <2>2, <2>3 DEF Fitting
<1> QED
  BY <1>8, <1>9

\* The companion's answers to a command suit it, and a stream of contacts
\* begins with its start.
InTurn(frames) ==
  \A i \in DOMAIN frames :
    /\ frames[i].code = "contacts_start" => i = 1
    /\ frames[i].code \in {"contact", "end_of_contacts"} =>
         i > 1 /\ 1 \in DOMAIN frames /\ frames[1].code = "contacts_start"

LEMMA NoErrorSucceeds ==
  ASSUME NEW op
  PROVE  "err" \notin SuccessCodes(op)
BY DEF SuccessCodes, ValueReply

LEMMA AnswersSuit ==
  ASSUME NEW command, NEW answer \in Answers(command)
  PROVE  /\ \A i \in DOMAIN answer : Suits(command, answer[i])
         /\ command.op = "get_contacts" => InTurn(answer)
<1>1. CASE command.op = "get_contacts"
  <2> DEFINE a == Frame("contacts_start", 0)
             b == Frame("contact", 0)
             c == Frame("end_of_contacts", 0)
  <2>1. answer = <<a, b, c>>
    BY <1>1 DEF Answers, RemoteLease
  <2>2. a.code = "contacts_start" /\ b.code = "contact"
        /\ c.code = "end_of_contacts"
    BY DEF Frame
  <2> HIDE DEF a, b, c
  <2>3. /\ DOMAIN answer = 1 .. 3
        /\ answer[1] = a /\ answer[2] = b /\ answer[3] = c
    BY <2>1
  <2>4. Suits(command, a) /\ Suits(command, b) /\ Suits(command, c)
    BY <1>1, <2>2, ReplyCodes DEF Suits
  <2>5. \A i \in DOMAIN answer : Suits(command, answer[i])
    BY <2>3, <2>4
  <2>6. InTurn(answer)
    BY <2>2, <2>3 DEF InTurn
  <2> QED
    BY <2>5, <2>6
<1>2. CASE command.op = "reboot"
  <2>1. answer = <<>>
    BY <1>2 DEF Answers, RemoteLease
  <2> QED
    BY <1>2, <2>1
<1>3. ASSUME NEW f, answer = <<f>>, f.code \in SuccessCodes(command.op),
             f.code \in {"channel_info", "stats"} => f.arg = command.arg
      PROVE  \A i \in DOMAIN answer : Suits(command, answer[i])
  <2>1. Suits(command, f)
    BY <1>3, NoErrorSucceeds DEF Suits
  <2> QED
    BY <1>3, <2>1
<1>4. CASE command.op = "self_telemetry"
  <2> DEFINE f == Frame("telemetry_response", SelfKey)
  <2>1. answer = <<f>>
    BY <1>4 DEF Answers, RemoteLease
  <2>2. f.code = "telemetry_response"
    BY DEF Frame
  <2> HIDE DEF f
  <2>3. f.code \in SuccessCodes(command.op)
    BY <1>4, <2>2, ReplyCodes
  <2> QED
    BY <1>3, <1>4, <2>1, <2>2, <2>3
<1>5. CASE command.op \in RemoteLease \cup {"send_txt_msg"}
  <2> DEFINE f == Frame("sent", Token)
  <2>1. answer = <<f>>
    BY <1>5 DEF Answers, RemoteLease
  <2>2. f.code = "sent"
    BY DEF Frame
  <2> HIDE DEF f
  <2>3. f.code \in SuccessCodes(command.op)
    BY <1>5, <2>2, ReplyCodes
  <2>4. command.op # "get_contacts"
    BY <1>5 DEF RemoteLease
  <2> QED
    BY <1>3, <2>1, <2>2, <2>3, <2>4
<1>6. CASE command.op \notin {"get_contacts", "reboot", "self_telemetry"}
                               \cup RemoteLease \cup {"send_txt_msg"}
  <2>1. PICK code \in SuccessCodes(command.op) :
          answer = <<Frame(code, IF code = "ok" THEN 0 ELSE command.arg)>>
    BY <1>6 DEF Answers
  <2> DEFINE f == Frame(code, IF code = "ok" THEN 0 ELSE command.arg)
  <2>2. f.code = code /\ (code # "ok" => f.arg = command.arg)
    BY DEF Frame
  <2> HIDE DEF f
  <2> QED
    BY <1>3, <1>6, <2>1, <2>2 DEF f
<1> QED
  BY <1>1, <1>2, <1>4, <1>5, <1>6

LEMMA FittingReplied ==
  ASSUME CompanionType, Fitting, Ordinary = {}, received # <<>>,
         Head(received).id # 0, NEW frames \in Seq(SentFrames),
         replies' = replies \o Answer(Head(received), frames),
         UNCHANGED <<active, outgoing>>,
         \A i \in DOMAIN frames : Suits(WireCommand(active), frames[i]),
         Streaming => InTurn(frames)
  PROVE  Fitting'
<1> DEFINE job == Head(received)
           more == Answer(job, frames)
           n == Len(replies)
<1>1. job \in Write
  BY FirstAndOthers DEF CompanionType
<1> HIDE DEF job
<1>2. more \in Seq(Sending) /\ DOMAIN more = DOMAIN frames
      /\ \A i \in DOMAIN frames :
           more[i].id = job.id /\ more[i].frame = frames[i]
  <2>1. more \in Seq(Sending)
    BY <1>1, AnswerType
  <2>2. DOMAIN more = 1 .. Len(frames) /\ DOMAIN frames = 1 .. Len(frames)
    BY DEF Answer
  <2> QED
    BY <1>1, <2>1, <2>2 DEF Answer
<1>3. replies' = replies \o more /\ job.id # 0
  BY DEF job
<1> HIDE DEF more
<1>4. /\ \A i \in DOMAIN replies' :
           \/ i \in DOMAIN replies /\ replies'[i] = replies[i]
           \/ i > n /\ i - n \in DOMAIN more /\ replies'[i] = more[i - n]
      /\ \A i \in DOMAIN more :
           n + i \in DOMAIN replies' /\ replies'[n + i] = more[i]
      /\ DOMAIN replies' \subseteq Nat /\ n \in Nat
  BY <1>2, <1>3, SentBehind
<1> HIDE DEF n
<1>5. \A i \in Ordinary' : /\ i \in Nat /\ i > n /\ i - n \in DOMAIN frames
                           /\ replies'[i].frame = frames[i - n]
  <2> SUFFICES ASSUME NEW i \in Ordinary'
               PROVE  /\ i \in Nat /\ i > n /\ i - n \in DOMAIN frames
                      /\ replies'[i].frame = frames[i - n]
    OBVIOUS
  <2>1. i \in DOMAIN replies' /\ replies'[i].id # 0 /\ i \in Nat
    BY <1>4 DEF Ordinary
  <2>2. ~ (i \in DOMAIN replies /\ replies'[i] = replies[i])
    BY <2>1 DEF Ordinary
  <2> QED
    BY <1>2, <1>4, <2>1, <2>2
<1>6. ASSUME 1 \in DOMAIN frames
      PROVE  n + 1 \in Ordinary' /\ replies'[n + 1].frame = frames[1]
  <2> DEFINE k == n + 1
  <2>1. k \in DOMAIN replies' /\ replies'[k] = more[1]
    BY <1>2, <1>4, <1>6
  <2> HIDE DEF k
  <2>2. k \in Ordinary' /\ replies'[k].frame = frames[1]
    BY <1>2, <1>3, <1>6, <2>1 DEF Ordinary
  <2> QED
    BY <2>2 DEF k
<1>7. ASSUME NEW i \in Ordinary', Streaming
      PROVE  InStream(i)'
  <2>1. ~ active.contacts_started
    BY <1>7 DEF Fitting
  <2>2. /\ i \in Nat /\ i > n /\ i - n \in DOMAIN frames
        /\ replies'[i].frame = frames[i - n]
    BY <1>5
  <2>3. ASSUME Opens(i)'
        PROVE  \A j \in Ordinary' : i <= j
    <3>1. i - n = 1
      BY <1>7, <2>2, <2>3 DEF InTurn, Opens
    <3> QED
      BY <1>4, <1>5, <2>2, <3>1
  <2>4. ASSUME replies'[i].frame.code \in {"contact", "end_of_contacts"}
        PROVE  \E j \in Ordinary' : j < i /\ Opens(j)'
    <3>1. /\ i - n > 1 /\ 1 \in DOMAIN frames
          /\ frames[1].code = "contacts_start"
      BY <1>7, <2>2, <2>4 DEF InTurn
    <3>2. n + 1 < i
      BY <1>4, <2>2, <3>1
    <3> DEFINE k == n + 1
    <3>3. k \in Ordinary' /\ k < i /\ replies'[k].frame = frames[1]
      BY <1>6, <3>1, <3>2
    <3> HIDE DEF k
    <3> QED
      BY <3>1, <3>3 DEF Opens
  <2> QED
    BY <2>1, <2>3, <2>4 DEF InStream
<1>8. \A i \in Ordinary' : Suits(WireCommand(active'), replies'[i].frame)
  BY <1>5
<1>9. Streaming' <=> Streaming
  BY DEF Streaming
<1> QED
  BY <1>7, <1>8, <1>9 DEF Fitting

LEMMA FittingAnnounced ==
  ASSUME CompanionType, Fitting, NEW owner \in Nat, NEW f \in SentFrames,
         replies' \in {replies, replies \o Announce(owner, f)},
         UNCHANGED <<active, outgoing, received>>
  PROVE  Fitting'
<1> DEFINE more == Announce(owner, f)
<1>1. /\ more \in Seq(Sending)
      /\ \A i \in DOMAIN more : more[i].id = 0
  BY AnnounceType DEF Announce
<1>2. Ordinary' = Ordinary /\ \A i \in Ordinary : replies'[i] = replies[i]
  <2>1. CASE replies' = replies
    BY <2>1 DEF Ordinary
  <2>2. CASE replies' = replies \o more
    <3> HIDE DEF more
    <3>1. /\ \A i \in DOMAIN replies' :
               \/ i \in DOMAIN replies /\ replies'[i] = replies[i]
               \/ i - Len(replies) \in DOMAIN more
                    /\ replies'[i] = more[i - Len(replies)]
          /\ \A i \in DOMAIN replies :
               i \in DOMAIN replies' /\ replies'[i] = replies[i]
      BY <1>1, <2>2, SentBehind
    <3> QED
      BY <1>1, <3>1 DEF Ordinary
  <2> QED
    BY <2>1, <2>2
<1>3. \A i \in Ordinary : InStream(i) => InStream(i)'
  BY <1>2 DEF InStream, Opens
<1>4. Streaming' <=> Streaming
  BY DEF Streaming
<1> QED
  BY <1>2, <1>3, <1>4 DEF Fitting

LEMMA FittingCompanion ==
  ASSUME CompanionType, CompanionStep, ~ failed, WireInv, Fitting
  PROVE  Fitting'
<1>1. UNCHANGED <<outgoing, next_write, active, failed>>
  BY DEF CompanionStep, vars
<1>2. Aligned /\ Fitting
  BY DEF WireInv
<1>3. received # <<>> =>
        /\ Head(received).command = WireCommand(active)
        /\ Head(received).id # 0 /\ Ordinary = {}
  BY <1>2 DEF Aligned, Job
<1>4. CASE ExecutePop
  <2>1. PICK f \in SentFrames :
          /\ f.code \in {"no_more_messages", "message"}
          /\ replies' = replies \o Answer(Head(received), <<f>>)
    <3>1. CASE physical = <<>>
      <4>1. Frame("no_more_messages", 0) \in SentFrames
        BY FramesMade
      <4> QED
        BY <1>4, <3>1, <4>1 DEF ExecutePop, Frame
    <3>2. CASE physical # <<>>
      <4>1. Head(physical) \in 1 .. MaxArrivals
        BY <3>2, FirstAndOthers DEF CompanionType
      <4>2. Frame("message", Head(physical)) \in SentFrames
        BY <4>1, FramesMade
      <4> QED
        BY <1>4, <3>2, <4>2 DEF ExecutePop, Frame
    <3> QED
      BY <3>1, <3>2
  <2>2. received # <<>> /\ Head(received).command = Sync
    BY <1>4 DEF ExecutePop
  <2>3. Suits(Sync, f)
    <3>1. SuccessCodes(Sync.op) = {"message", "no_more_messages"}
      BY ReplyCodes DEF Sync
    <3> QED
      BY <2>1, <3>1 DEF Suits
  <2>4. ~ Streaming
    BY <1>3, <2>2 DEF Streaming, WireCommand, Sync
  <2> DEFINE frames == <<f>>
  <2>5. frames \in Seq(SentFrames) /\ DOMAIN frames = {1} /\ frames[1] = f
    OBVIOUS
  <2> HIDE DEF frames
  <2>6. \A i \in DOMAIN frames : Suits(WireCommand(active), frames[i])
    BY <1>3, <2>2, <2>3, <2>5
  <2> QED
    BY <1>1, <1>2, <1>3, <2>1, <2>2, <2>4, <2>5, <2>6, FittingReplied DEF frames
<1>5. CASE Execute
  <2> DEFINE job == Head(received)
             command == job.command
  <2>1. received # <<>> /\ command # Sync
    BY <1>5 DEF Execute
  <2>2. PICK answer \in Answers(command) :
          replies' = replies \o Answer(job, answer)
    BY <1>5 DEF Execute
  <2>3. command = WireCommand(active) /\ command \in Command
    <3>1. job \in Write
      BY <2>1, FirstAndOthers DEF CompanionType
    <3> QED
      BY <1>3, <2>1, <3>1 DEF Write
  <2> HIDE DEF command
  <2>4. answer \in Seq(SentFrames)
    <3>1. command.op # "none"
      BY <2>2, NothingAnswersNone
    <3> QED
      BY <2>1, <2>2, <2>3, <3>1, AnswersMade
  <2>5. /\ \A i \in DOMAIN answer : Suits(command, answer[i])
        /\ command.op = "get_contacts" => InTurn(answer)
    BY <2>2, AnswersSuit
  <2>6. Streaming => command.op = "get_contacts"
    BY <2>3 DEF Streaming, WireCommand
  <2> QED
    BY <1>1, <1>2, <1>3, <2>1, <2>2, <2>3, <2>4, <2>5, <2>6, FittingReplied
<1>6. CASE Refuse
  <2>1. PICK reason \in {1, ErrBadState} :
          replies' = replies \o Answer(Head(received), <<Frame("err", reason)>>)
    BY <1>6 DEF Refuse
  <2>2. received # <<>> /\ Head(received).command \in Refused
    BY <1>6 DEF Refuse
  <2> DEFINE f == Frame("err", reason)
             frames == <<f>>
  <2>3. f \in SentFrames /\ f.code = "err"
    BY FramesMade DEF Frame
  <2> HIDE DEF f
  <2>4. frames \in Seq(SentFrames) /\ DOMAIN frames = {1} /\ frames[1] = f
    BY <2>3
  <2>5. replies' = replies \o Answer(Head(received), frames)
    BY <2>1 DEF f
  <2> HIDE DEF frames
  <2>6. \A i \in DOMAIN frames : Suits(WireCommand(active), frames[i])
    BY <1>3, <2>2, <2>3, <2>4 DEF Suits
  <2>7. InTurn(frames)
    BY <2>3, <2>4 DEF InTurn
  <2> QED
    BY <1>1, <1>2, <1>3, <2>2, <2>4, <2>5, <2>6, <2>7, FittingReplied
<1>7. CASE Arrive(usable)
  <2>1. Frame("msg_waiting", 0) \in SentFrames
    BY FramesMade
  <2>2. /\ replies' \in {replies, replies \o Announce(0, Frame("msg_waiting", 0))}
        /\ received' = received
    BY <1>7 DEF Arrive
  <2> QED
    BY <1>1, <1>2, <2>1, <2>2, FittingAnnounced
<1>8. CASE Report(usable)
  <2>1. PICK i \in DOMAIN requests, code \in DOMAIN RemotePushes :
          LET command == requests[i].command
              key == IF code = "binary_response" THEN Token ELSE command.arg
          IN /\ replies' = IF usable
                  THEN replies \o Announce(requests[i].owner, Frame(code, key))
                  ELSE replies
             /\ received' = received
    BY <1>8 DEF Report
  <2>2. requests[i].command \in Commands /\ requests[i].owner \in Nat
    <3>1. requests[i] \in Accepted
      BY DEF CompanionType
    <3> QED
      BY <3>1 DEF Accepted
  <2> DEFINE key == IF code = "binary_response" THEN Token
                    ELSE requests[i].command.arg
             f == Frame(code, key)
  <2>3. f \in SentFrames
    BY <2>2, FramesMade
  <2>4. replies' \in {replies, replies \o Announce(requests[i].owner, f)}
    BY <2>1
  <2> HIDE DEF f
  <2> QED
    BY <1>1, <1>2, <2>1, <2>2, <2>3, <2>4, FittingAnnounced
<1> QED
  BY <1>4, <1>5, <1>6, <1>7, <1>8 DEF CompanionStep

LEMMA FittingFrame ==
  ASSUME TypeInv, LinkType, FrameArrives, ~ failed, ~ failed',
         WireInv, WireInv', Fitting
  PROVE  Fitting'
<1> DEFINE f == Head(replies).frame
<1>1. /\ replies # <<>> /\ replies' = Tail(replies) /\ received' = received
      /\ UpstreamFrame(f) \/ LateUpstreamFrame
  BY DEF FrameArrives
<1>2. CompanionType
  BY LinkParts
<1>3. f \in Frames
  BY <1>1, <1>2, NextFrame
<1>4. 1 \in DOMAIN replies /\ replies[1].frame = f
  BY <1>1, <1>2, TakenFrame DEF CompanionType
<1>5. InPlace(1)
  BY <1>4 DEF WireInv, Answering
<1>6. UpstreamFrame(f)
  <2>1. LateUpstreamFrame => Commit(Fail(Now)) /\ Fail(Now).failing
    BY DEF LateUpstreamFrame, CommitAndSchedule, Fail, Now
  <2> QED
    BY <1>1, <2>1, CommitWire
<1> HIDE DEF f
<1>7. CASE 1 \in Ordinary
  <2>1. f.code \notin PushCodes \/ AnswersSelfTelemetry(f)
    BY <1>4, <1>5, <1>7 DEF InPlace
  <2>2. Answered(f)
    BY <1>3, <1>6, <2>1, UpstreamFrameWire
  <2> QED
    BY <1>1, <1>2, <1>7, <2>2, FittingAnswered DEF f
<1>8. CASE 1 \notin Ordinary
  <2>1. f.code \in PushCodes /\ f # Frame("telemetry_response", SelfKey)
    BY <1>4, <1>5, <1>8 DEF InPlace
  <2>2. ~ AnswersSelfTelemetry(f)
    BY <2>1 DEF AnswersSelfTelemetry, Frame
  <2>3. Rests
    BY <1>3, <1>6, <2>1, <2>2, UpstreamFrameWire
  <2>4. active' = active /\ outgoing' = outgoing
    BY <2>3 DEF Rests
  <2> QED
    BY <1>1, <1>2, <1>8, <2>4, FittingPush
<1> QED
  BY <1>7, <1>8

LEMMA FittingStep ==
  ASSUME BrokerInv, LinkType, WireInv, WireInv', FittingInv, MuxNext
  PROVE  FittingInv'
<1> SUFFICES ASSUME ~ failed'
             PROVE  Fitting'
  BY DEF FittingInv
<1>1. /\ TypeInv /\ InboxInv /\ Ended /\ Numbered /\ CompanionType
      /\ active \in Transaction /\ next_write \in Nat
  BY LinkParts DEF BrokerInv, TypeInv, TypeOK
<1>2. ASSUME Rests, UNCHANGED <<received, replies>>
      PROVE  Fitting'
  <2>1. /\ ~ failed /\ outgoing' = outgoing
        /\ active' = [active EXCEPT !.write = active.write]
    BY <1>1, <1>2 DEF Rests, Transaction
  <2> QED
    BY <1>1, <1>2, <2>1, FittingSame DEF FittingInv
<1>3. CASE Clients \/ ClientRequest \/ Clock
  <2>1. ClientStep \/ ClockStep
    BY <1>1, <1>3, ClientsStep, ClockIsBroker
  <2>2. Rests
    BY <1>1, <2>1, HandlersCalm
  <2>3. UNCHANGED <<received, replies>>
    BY <1>3 DEF Clients, ClientRequest, Clock, linkVars, companionVars
  <2> QED
    BY <1>2, <2>2, <2>3
<1>4. CASE Schedule
  <2>1. ScheduleStep /\ UNCHANGED <<received, replies>>
    BY <1>4 DEF Schedule, companionVars
  <2>2. CASE \E k : TurnPop(k) \/ \E s : TurnDispatch(k, s)
    <3>1. PICK k : TurnPop(k) \/ \E s : TurnDispatch(k, s)
      BY <2>2
    <3>2. Starts
      BY <1>1, <3>1, TurnPopStarts, TurnDispatchStarts
    <3>3. ~ Busy /\ ~ failed
      BY <1>1, <3>1, <3>2, TurnIsFree DEF TurnPop, TurnDispatch, NextTurn, Starts
    <3>4. Ordinary = {}
      BY <3>3 DEF WireInv, Aligned, Busy
    <3>5. Ordinary' = {}
      BY <2>1, <3>4 DEF Ordinary
    <3> QED
      BY <3>2, <3>5, FittingStarts
  <2>3. CASE ~ \E k : TurnPop(k) \/ \E s : TurnDispatch(k, s)
    <3>1. Rests
      BY <1>1, <2>1, <2>3, HandlersCalm DEF ScheduleStep
    <3> QED
      BY <1>2, <2>1, <3>1
  <2> QED
    BY <2>2, <2>3
<1>5. CASE WriterWrites
  <2>1. /\ outgoing # <<>> /\ replies' = replies
        /\ active' = active /\ failed' = failed
    BY <1>5 DEF WriterWrites, TakeWrite
  <2>2. active' = [active EXCEPT !.write = active.write]
    BY <1>1, <2>1 DEF Transaction
  <2> QED
    BY <1>1, <2>1, <2>2, FittingSame DEF FittingInv
<1>6. CASE WriterReports
  <2>1. /\ UpstreamWritten(wrote) \/ UNCHANGED vars
        /\ UNCHANGED <<received, replies>>
    BY <1>6 DEF WriterReports, companionVars
  <2>2. CASE UpstreamWritten(wrote)
    <3> DEFINE v == IF AwaitsWrite(wrote) THEN 0 ELSE active.write
    <3>1. /\ ~ failed /\ outgoing' = outgoing
          /\ active' = [active EXCEPT !.write = v]
      BY <1>1, <2>2, WrittenWire
    <3> HIDE DEF v
    <3> QED
      BY <1>1, <2>1, <3>1, FittingSame DEF FittingInv
  <2>3. CASE UNCHANGED vars
    <3>1. Rests
      BY <2>3 DEF vars, Rests
    <3> QED
      BY <1>2, <2>1, <3>1
  <2> QED
    BY <2>1, <2>2, <2>3
<1>7. CASE FrameArrives
  <2>1. ~ failed
    BY <1>7 DEF FrameArrives, UpstreamFrame, LateUpstreamFrame, AtRest
  <2> QED
    BY <1>1, <1>7, <2>1, FittingFrame DEF FittingInv
<1>8. CASE LinkFails
  <2>1. Fail(Now).failing /\ Commit(Fail(Now))
    BY <1>8 DEF LinkFails, UpstreamClosed, WriteFailed, CommitAndSchedule, Fail,
       Now
  <2> QED
    BY <2>1, CommitWire
<1>9. CASE DrainDebt
  <2>1. DrainUncertainFrame(Head(replies).frame) /\ replies # <<>>
    BY <1>9 DEF DrainDebt
  <2> QED
    BY <1>1, <2>1, NextFrame, DrainWire
<1>10. CASE Reconnect
  <2>1. /\ failed /\ outgoing' = <<>> /\ active' = active
        /\ received' = <<>> /\ replies' = <<>>
    BY <1>10 DEF Reconnect, Restart
  <2>2. active.step = "none"
    BY <1>1, <2>1 DEF Ended, Busy
  <2> QED
    BY <2>1, <2>2 DEF Fitting, Ordinary, Streaming
<1>11. CASE CompanionStep
  <2>1. ~ failed
    BY <1>11 DEF CompanionStep, vars
  <2> QED
    BY <1>1, <1>11, <2>1, FittingCompanion DEF FittingInv
<1> QED
  BY <1>3, <1>4, <1>5, <1>6, <1>7, <1>8, <1>9, <1>10, <1>11 DEF MuxNext

LEMMA FittingInvariant ==
  MuxSpec => [](BrokerInv /\ RoundInv /\ LinkType /\ WireInv /\ FittingInv)
<1>1. MuxInit => FittingInv
  <2>1. ASSUME MuxInit
        PROVE  Fitting
    <3>1. replies = <<>> /\ active.step = "none"
      BY <2>1 DEF MuxInit, Init, CompanionInit, NoTransaction
    <3> QED
      BY <3>1 DEF Fitting, Ordinary, Streaming
  <2> QED
    BY <2>1 DEF FittingInv
<1>2. BrokerInv /\ RoundInv /\ LinkType /\ WireInv /\ WireInv' /\ FittingInv
        /\ [MuxNext]_muxVars => FittingInv'
  <2>1. ASSUME FittingInv, BrokerInv, UNCHANGED muxVars
        PROVE  FittingInv'
    <3>1. UNCHANGED <<failed, active, outgoing, received, replies>>
      BY <2>1 DEF muxVars, vars, companionVars, linkVars
    <3>2. active \in Transaction
      BY <2>1 DEF BrokerInv, TypeInv, TypeOK
    <3>3. active' = [active EXCEPT !.write = active.write]
      BY <3>1, <3>2 DEF Transaction
    <3> QED
      BY <2>1, <3>1, <3>2, <3>3, FittingSame DEF FittingInv
  <2> QED
    BY <2>1, FittingStep
<1> QED
  BY <1>1, <1>2, WireInvariant, PTL DEF MuxSpec

-----------------------------------------------------------------------------
(* HealthyEpochSurvives                                                    *)

LEMMA HealthFrame ==
  ASSUME TypeInv, LinkType, FrameArrives, Undisturbed, WireInv, FittingInv,
         HealthInv
  PROVE  HealthInv'
<1> DEFINE f == Head(replies).frame
<1>1. replies # <<>> /\ UpstreamFrame(f)
  BY DEF FrameArrives, LateUpstreamFrame, Undisturbed
<1>2. CompanionType
  BY LinkParts
<1>3. 1 \in DOMAIN replies /\ replies[1].frame = f
  BY <1>1, <1>2, TakenFrame DEF CompanionType
<1>4. InPlace(1) /\ Fitting
  BY <1>3 DEF WireInv, HealthInv, FittingInv, Answering
<1> DEFINE x == CASE Malformed(f) -> Fail(Now)
                  [] f.code \in PushCodes -> Push(f)
                  [] OTHER -> TransactionResponse(f)
<1>5. Commit(x)
  BY <1>1 DEF UpstreamFrame, CommitAndSchedule
<1> HIDE DEF f
<1>6. CASE 1 \in Ordinary
  <2>1. f.code \notin PushCodes \/ AnswersSelfTelemetry(f)
    BY <1>3, <1>4, <1>6 DEF InPlace
  <2>2. ~ Malformed(f)
    <3>1. Suits(WireCommand(active), f)
      BY <1>3, <1>4, <1>6 DEF Fitting
    <3>2. "malformed" \notin SuccessCodes(WireCommand(active).op)
      BY DEF SuccessCodes, ValueReply
    <3> QED
      BY <3>1, <3>2 DEF Suits, Malformed
  <2>3. x = TransactionResponse(f)
    <3>1. AnswersSelfTelemetry(f) => Push(f) = TransactionResponse(f)
      <4>1. AnswersSelfTelemetry(f) => f.code = "telemetry_response"
        BY DEF AnswersSelfTelemetry
      <4> QED
        BY <4>1, PushNames DEF Push
    <3> QED
      BY <2>1, <2>2, <3>1
  <2>4. Accepts(x)
    BY <1>1, <1>2, <1>6, <2>3, FittingAccepted DEF f
  <2> HIDE DEF x
  <2> QED
    BY <1>5, <2>4, CommitSurvives DEF Accepts, HealthInv
<1>7. CASE 1 \notin Ordinary
  <2>1. f.code \in PushCodes /\ f # Frame("telemetry_response", SelfKey)
    BY <1>3, <1>4, <1>7 DEF InPlace
  <2>2. ~ AnswersSelfTelemetry(f) /\ ~ Malformed(f)
    BY <2>1 DEF AnswersSelfTelemetry, Frame, Malformed, PushCodes, RemotePushes
  <2>3. x = Push(f)
    BY <2>1, <2>2
  <2>4. x.failing = FALSE /\ x.active = active
    BY <2>2, <2>3, PushNoWrite DEF SameWire, Now
  <2> HIDE DEF x
  <2> QED
    BY <1>5, <2>4, CommitSurvives DEF HealthInv
<1> QED
  BY <1>6, <1>7

LEMMA HealthStep ==
  ASSUME BrokerInv, LinkType, Undisturbed, WireInv, FittingInv, HealthInv, MuxNext
  PROVE  HealthInv'
<1>1. /\ TypeInv /\ InboxInv /\ Ended /\ active \in Transaction
      /\ ~ failed /\ active.step # "result"
  BY DEF BrokerInv, TypeInv, TypeOK, HealthInv
<1>2. ASSUME failed' = failed, Rests
      PROVE  HealthInv'
  BY <1>1, <1>2 DEF Rests, HealthInv
<1>3. CASE Clients \/ ClientRequest \/ Clock
  <2>1. ClientStep \/ ClockStep
    BY <1>1, <1>3, ClientsStep, ClockIsBroker
  <2>2. Rests
    BY <1>1, <2>1, HandlersCalm
  <2>3. failed' = failed
    BY <1>1, <1>3, HandlersSurvive
  <2> QED
    BY <1>2, <2>2, <2>3
<1>4. CASE Schedule
  <2>1. ScheduleStep
    BY <1>4 DEF Schedule
  <2>2. CASE \E k : TurnPop(k) \/ \E s : TurnDispatch(k, s)
    <3>1. PICK k : TurnPop(k) \/ \E s : TurnDispatch(k, s)
      BY <2>2
    <3>2. Starts
      BY <1>1, <3>1, TurnPopStarts, TurnDispatchStarts
    <3> QED
      BY <1>1, <3>2 DEF HealthInv, Starts
  <2>3. CASE ~ \E k : TurnPop(k) \/ \E s : TurnDispatch(k, s)
    <3>1. \/ \E s : ScheduleLocal(s) \/ ScheduleAged(s)
          \/ ScheduleBusy \/ TurnNone
          \/ \E k, s : TurnReject(k, s)
      BY <2>1, <2>3 DEF ScheduleStep
    <3>2. Rests
      BY <1>1, <3>1, HandlersCalm
    <3>3. failed' = failed
      BY <1>1, <3>1, HandlersSurvive
    <3> QED
      BY <1>2, <3>2, <3>3
  <2> QED
    BY <2>2, <2>3
<1>5. CASE WriterWrites \/ CompanionStep
  BY <1>5 DEF WriterWrites, TakeWrite, CompanionStep, vars, HealthInv
<1>6. CASE WriterReports
  <2>1. UpstreamWritten(wrote)
    BY <1>1, <1>6 DEF WriterReports
  <2> DEFINE v == IF AwaitsWrite(wrote) THEN 0 ELSE active.write
             x == [Now EXCEPT
                     !.upstream_writes = upstream_writes \ {wrote},
                     !.active.write = v]
  <2>2. Commit(x)
    BY <2>1 DEF UpstreamWritten, CommitAndSchedule
  <2>3. x.failing = FALSE /\ x.active = [active EXCEPT !.write = v]
    BY DEF Now
  <2> HIDE DEF x, v
  <2>4. [active EXCEPT !.write = v].step = active.step
    BY <1>1 DEF Transaction
  <2> QED
    BY <1>1, <2>2, <2>3, <2>4, CommitSurvives DEF HealthInv
<1>7. CASE FrameArrives
  BY <1>1, <1>7, HealthFrame
<1>8. CASE LinkFails
  BY <1>8 DEF LinkFails, Undisturbed
<1>9. CASE DrainDebt \/ Reconnect
  BY <1>1, <1>9 DEF DrainDebt, DrainUncertainFrame, Reconnect, Restart
<1> QED
  BY <1>3, <1>4, <1>5, <1>6, <1>7, <1>8, <1>9 DEF MuxNext

\* While the link is undisturbed, the epoch of a companion that answers each
\* command within its grammar never ends, whatever the clients send, in which
\* order they come and go, and however the replies, the pushes and the reports
\* of the writer interleave: no handler takes a reply for one that does not
\* belong to the running transaction (transaction_response, scope_response),
\* and none misses the beginning of a stream of contacts.
THEOREM EpochSurvives ==
  ASSUME Undisturbed
  PROVE  MuxSpec => []HealthyEpochSurvives
<1>1. MuxInit => HealthInv
  BY DEF MuxInit, Init, NoTransaction, HealthInv
<1>2. BrokerInv /\ LinkType /\ WireInv /\ FittingInv /\ HealthInv
        /\ [MuxNext]_muxVars => HealthInv'
  <2>1. HealthInv /\ UNCHANGED muxVars => HealthInv'
    BY DEF muxVars, vars, HealthInv
  <2> QED
    BY <2>1, HealthStep
<1>3. HealthInv => HealthyEpochSurvives
  BY DEF HealthInv, HealthyEpochSurvives
<1> QED
  BY <1>1, <1>2, <1>3, FittingInvariant, PTL DEF MuxSpec
=============================================================================
