------------------------------- MODULE Broker -------------------------------
(***************************************************************************)
(* The broker: the single owner of all protocol state of the multiplexer.  *)
(* Clients queue commands; one command at a time is forwarded to the       *)
(* companion; its inbox is popped on behalf of the clients that wait for a *)
(* message and every popped item is copied to all of them.                 *)
(*                                                                         *)
(* Only the coordinator fiber calls the broker, so a handler is atomic.    *)
(* Every handler ends by calling `schedule`, a loop over the sessions and  *)
(* then over the round-robin order.  Its iterations are steps of their own *)
(* here, and `phase` keeps every other step out until the loop has ended:  *)
(* "local" is the first loop, "turn" the second one.                       *)
(*                                                                         *)
(* Time is not a number.  Each deadline of the code that is running may be *)
(* found elapsed by the handler that looks at it; Deadlines says which of  *)
(* them can be in the instance at hand.                                    *)
(*                                                                         *)
(* An operator that nothing uses, defined just before the one it distorts, *)
(* is a plausible bug: put in its place it breaks a property (README.md).  *)
(***************************************************************************)
EXTENDS Leases, DedicatedClientSlot, ReceivedMessageDeduplicator, Integers

CONSTANTS
  Slots,         \* ids of the dedicated client slots (their ports), never 0
  Items,         \* inbox items; 0 stands for no item
  Commands,      \* the commands clients send
  Frames,        \* the frames that can come from upstream
  Disabled,      \* sensitive operations the configuration refuses
  CommandLimit,  \* config.command_limit
  InboxEntries,  \* config.inbox_entries
  OutputFrames,  \* config.output_frames
  Deadlines      \* the deadlines that can elapse

DeadlineNames ==
  {"response", "late frame", "upstream write", "output", "sync", "age", "remote",
   "signing", "poll", "dm", "quarantine"}

ASSUME BrokerAssumption ==
  /\ Slots \subseteq Nat \ {0}
  /\ Items \subseteq Nat \ {0}
  /\ Text \in [Items -> Nat]
  /\ Commands \subseteq [op : Ops \ {"none"}, arg : Nat]
  /\ \A c \in Commands : c.op = "sync_next_message" => c = Sync
  /\ Frames \subseteq [code : STRING, arg : Nat]
  /\ \A f \in Frames : f.code = "message" => f.arg \in Items
  /\ Disabled \subseteq {"export_private_key", "import_private_key",
                         "factory_reset"}
  /\ CommandLimit \in Nat \ {0}
  /\ InboxEntries \in Nat \ {0}
  /\ OutputFrames \in Nat \ {0}
  /\ Deadlines \subseteq DeadlineNames

VARIABLES
  sessions,      \* @sessions: the connected clients, by id
  order,         \* @order: the round robin of session ids and 0
  active,        \* @active: the transaction that owns the companion
  debt,          \* @response_debt: a failed epoch's unanswered transaction
  failed,        \* @failed
  drain,         \* @drain_requested and @drain_authorized
  pop_sequence,  \* @pop_sequence
  generation,    \* @notification_generation
  orphan,        \* @orphan: an item popped for clients that have all left
  slots,         \* @dedicated_slots: offline queue and attached session
  seen,          \* the deduplicator's history
  remote,        \* @remote
  dm_ring,       \* @dm_ring
  uncertain,     \* the radio state's quarantine
  signing,       \* @signing
  next_write,    \* @next_write, counting upstream writes only
  upstream_writes, \* @upstream_writes: ids of unconfirmed upstream writes
  outgoing,      \* SendFrame actions in the upstream writer's queue
  next_session,  \* Runtime's @next_session
  phase,         \* where the coordinator is: "idle", "local" or "turn"
  turns          \* iterations left of the round robin while in "turn"

vars == <<sessions, order, active, debt, failed, drain, pop_sequence,
          generation, orphan, slots, seen, remote, dm_ring, uncertain,
          signing, next_write, upstream_writes, outgoing, next_session,
          phase, turns>>

-----------------------------------------------------------------------------
(* Types and null values *)

Ids == Nat \ {0}

\* A client's command, or one of the broker's own: a pop, a change of scope.
Command ==
  Commands \cup {Sync, [op |-> "none", arg |-> 0]}
    \cup [op : {"set_flood_scope_key"}, arg : Nat]

\* Frames waiting in a client's writer: "msg_waiting" is the availability
\* hint, "result" a maintenance operation's reply, "item" and "legacy_item"
\* an inbox item in the layout of protocol version 3 or before.
WriteKinds == {"msg_waiting", "frame", "result", "item", "legacy_item"}

\* sync is PendingSync.minimum_pop, 0 for none.  availability_hint_write_id
\* is set exactly while "msg_waiting" is among the writes.  owed and last
\* are history: the commands not yet answered, in the order received, and
\* the last item delivered to a client without a slot.
Session ==
  [slot : Slots \cup {0}, commands : Seq(Command), inbox : Seq(Items),
   writes : Seq(WriteKinds), version : Nat, scope : Nat, sync : Nat,
   owed : Seq(Command), last : Nat]

NewSession(slot) ==
  [slot |-> slot, commands |-> <<>>, inbox |-> <<>>, writes |-> <<>>,
   version |-> 0, scope |-> DefaultScope, sync |-> 0, owed |-> <<>>,
   last |-> 0]

\* attached is attached_session_id, 0 for none; last is history.
Slot == [queue : Seq(Items), attached : Nat, last : Nat]
EmptySlot == [queue |-> <<>>, attached |-> 0, last |-> 0]

Steps == {"none", "command", "setup", "restore", "result"}

\* write is upstream_write_id, 0 once the write is known to have completed.
\* scope is the owner's flood scope at dispatch; covers is history: the
\* sessions whose sync was pending when an inbox pop was dispatched.
Transaction ==
  [owner : Nat, command : Command, step : Steps, scope : Nat,
   scoped : BOOLEAN, write : Nat, contacts_started : BOOLEAN,
   pop_sequence : Nat, generation : Nat, had_multi_client : BOOLEAN,
   covers : SUBSET Ids]

NoTransaction ==
  [owner |-> 0, command |-> [op |-> "none", arg |-> 0], step |-> "none",
   scope |-> DefaultScope, scoped |-> FALSE, write |-> 0,
   contacts_started |-> FALSE, pop_sequence |-> 0, generation |-> 0,
   had_multi_client |-> FALSE, covers |-> {}]

Busy == active.step # "none"
Owns(s) == Busy /\ active.owner = s
InMaintenance(tx) == tx.step # "none" /\ tx.command.op \in Maintenance

NoDrain == [requested |-> FALSE, authorized |-> FALSE]

InboxFor(s) ==
  IF sessions[s].slot = 0 THEN sessions[s].inbox
  ELSE slots[sessions[s].slot].queue

-----------------------------------------------------------------------------
(* How a handler ends                                                      *)
(*                                                                         *)
(* A handler is written as the state its body computes, a change of Now,   *)
(* and Commit turns that into the next state.  emit only appends to a      *)
(* client's writes; a session whose writes exceed the budget, or that the  *)
(* handler closes, is removed here with everything `remove` clears.  The   *)
(* epoch fails if the handler says so or if the client that a maintenance  *)
(* result is being written to is among the removed ones.                   *)

Now ==
  [sessions |-> sessions, order |-> order, active |-> active, debt |-> debt,
   drain |-> drain, pop_sequence |-> pop_sequence, generation |-> generation,
   orphan |-> orphan, slots |-> slots, seen |-> seen, remote |-> remote,
   dm_ring |-> dm_ring, uncertain |-> uncertain, signing |-> signing,
   next_write |-> next_write, upstream_writes |-> upstream_writes,
   outgoing |-> outgoing, closed |-> {}, failing |-> FALSE]

Survivors(e) ==
  {s \in DOMAIN e.sessions :
     s \notin e.closed /\ Len(e.sessions[s].writes) <= OutputFrames}

EpochEnds(e) ==
  \/ e.failing
  \/ e.active.step = "result" /\ e.active.owner \notin Survivors(e)

\* The ids of 0 and of those in left, in their order: the k-th one kept is the
\* one with k - 1 kept before it.
Without(queue, left) ==
  LET kept == {i \in DOMAIN queue : queue[i] \in left \cup {0}}
      Position(k) ==
        CHOOSE i \in kept : Cardinality({j \in kept : j < i}) = k - 1
  IN [k \in 1 .. Cardinality(kept) |-> queue[Position(k)]]

StaysAttached(table, left) == table
Detach(table, left) ==
  [d \in Slots |-> IF table[d].attached \in left THEN table[d]
                   ELSE [table[d] EXCEPT !.attached = 0]]

\* owner_gone, for the remote lease and for signing: the lease outlives its
\* owner, the signing operation does unless its reply is still to come.
LeaseDropped(lease, left) == IF lease.owner \in left THEN lease ELSE NoRemote
RemoteOwnerGone(lease, left) ==
  IF lease.owner \in left THEN lease ELSE [lease EXCEPT !.owner = 0]

SigningOwnerGone(e, left) ==
  IF \/ e.signing.owner \in left
     \/ e.active.step # "none" /\ e.active.owner = e.signing.owner
  THEN e.signing ELSE NoSigning

Continue(e, left) ==
  /\ sessions' = [s \in left |-> e.sessions[s]]
  /\ order' = Without(e.order, left)
  /\ slots' = Detach(e.slots, left)
  /\ active' = e.active
  /\ drain' = IF left = {} THEN NoDrain ELSE e.drain
  /\ remote' = RemoteOwnerGone(e.remote, left)
  /\ signing' = SigningOwnerGone(e, left)
  /\ uncertain' = e.uncertain
  /\ upstream_writes' = e.upstream_writes
  /\ debt' = e.debt
  /\ failed' = failed

\* preserve_radio_uncertainty: before the command was sent nothing is
\* reserved upstream; once it was, acceptance is unknown until its reply.
Unclassified(tx) ==
  tx.step = "command" /\ (tx.command.op \in RemoteLease \/ PlainDm(tx.command))

UncertainRemote(tx, lease) ==
  CASE tx.step = "setup" /\ tx.command.op \in RemoteLease -> NoRemote
    [] tx.step = "command" /\ tx.command.op \in RemoteLease /\ lease.tentative ->
         AcceptanceUnknown(lease)
    [] OTHER -> [lease EXCEPT !.owner = 0]

FailEpoch(e) ==
  /\ failed' = TRUE
  /\ debt' = IF e.active.step \in {"none", "result"} THEN e.debt ELSE e.active
  /\ remote' = UncertainRemote(e.active, e.remote)
  /\ uncertain' = IF Unclassified(e.active)
                  THEN Quarantine(e.uncertain, PlainDm(e.active.command))
                  ELSE e.uncertain
  /\ sessions' = [s \in {} |-> NewSession(0)]
  /\ order' = <<0>>
  /\ slots' = Detach(e.slots, {})
  /\ drain' = NoDrain
  /\ signing' = SigningOwnerGone(e, {})
  /\ active' = NoTransaction
  /\ upstream_writes' = {}

NextState(e) ==
  /\ IF EpochEnds(e) THEN FailEpoch(e) ELSE Continue(e, Survivors(e))
  /\ pop_sequence' = e.pop_sequence
  /\ generation' = e.generation
  /\ orphan' = e.orphan
  /\ seen' = e.seen
  /\ dm_ring' = e.dm_ring
  /\ next_write' = e.next_write
  /\ outgoing' = e.outgoing

\* Naming the value makes TLC compute it once.
Commit(result) == \E e \in {result} : NextState(e)

\* A handler's last call is `schedule`, which does nothing once the epoch
\* has failed or while a maintenance command owns the companion.
CommitAndSchedule(e) ==
  /\ Commit(e)
  /\ phase' = IF failed' \/ InMaintenance(active') THEN "idle" ELSE "local"
  /\ UNCHANGED turns

-----------------------------------------------------------------------------
(* Writing to a client: emit, emit_availability_hint, reject, deliver_item *)

Emit(session, kind) == [session EXCEPT !.writes = Append(session.writes, kind)]

Hinted(session) ==
  \E i \in DOMAIN session.writes : session.writes[i] = "msg_waiting"

Hint(session) ==
  IF Hinted(session) THEN session ELSE Emit(session, "msg_waiting")

\* A frame that answers the client's oldest unanswered command.
Reply(session, kind) ==
  [Emit(session, kind) EXCEPT
     !.owed = SubSeq(session.owed, 2, Len(session.owed))]

HasRoom(session) == Len(session.writes) < OutputFrames

\* downgrade_inbox: before version 3 the SNR prefix is removed.
Layout(version) == IF version >= 3 THEN "item" ELSE "legacy_item"

\* deliver_item on a session without a slot.  The item leaves the queue only
\* if emit accepted the frame.
DeliverCopy(session) ==
  [Reply(session, Layout(session.version)) EXCEPT !.last = Head(session.inbox)]
DeliverInbox(session) ==
  IF HasRoom(session)
  THEN [Reply(session, Layout(session.version)) EXCEPT
          !.inbox = Tail(session.inbox), !.last = Head(session.inbox)]
  ELSE Reply(session, Layout(session.version))

\* The same for a slot's queue: the session's part and the queue's part.
DeliverSlot(session) == Reply(session, Layout(session.version))

Shifted(slot, session) ==
  IF HasRoom(session)
  THEN [slot EXCEPT !.queue = Tail(slot.queue), !.last = Head(slot.queue)]
  ELSE slot

\* emit to every session
EmitAll(table, kind) == [s \in DOMAIN table |-> Emit(table[s], kind)]
HintAll(table) == [s \in DOMAIN table |-> Hint(table[s])]

-----------------------------------------------------------------------------
(* Sending upstream: send_upstream, send_command, dispatch                 *)

SendUpstream(e, tx, command) ==
  [e EXCEPT
     !.next_write = e.next_write + 1,
     !.upstream_writes = e.upstream_writes \cup {e.next_write + 1},
     !.outgoing = Append(e.outgoing, [id |-> e.next_write + 1,
                                      command |-> command,
                                      owner |-> tx.owner, scope |-> tx.scope]),
     !.active = [tx EXCEPT !.write = e.next_write + 1]]

SendCommand(e, tx) ==
  SendUpstream(e, [tx EXCEPT !.step = "command"], tx.command)

\* A client's command, wrapped in hidden scope setup if its scope needs it.
Dispatch(e, s, command) ==
  LET scope == e.sessions[s].scope
      tx == [NoTransaction EXCEPT !.owner = s, !.command = command,
                                  !.scope = scope]
  IN IF command.op \in ScopeSend /\ scope # DefaultScope
     THEN SendUpstream(e, [tx EXCEPT !.step = "setup", !.scoped = TRUE],
                       SetScope(scope))
     ELSE SendCommand(e, tx)

\* The internal inbox consumer's pop.
DispatchPop(e) ==
  SendCommand(
    [e EXCEPT !.drain.requested = FALSE, !.pop_sequence = e.pop_sequence + 1],
    [NoTransaction EXCEPT
       !.command = Sync, !.pop_sequence = e.pop_sequence + 1,
       !.generation = e.generation,
       !.had_multi_client = \E s \in DOMAIN e.sessions : e.sessions[s].slot = 0,
       !.covers = {s \in DOMAIN e.sessions : e.sessions[s].sync # 0}])

-----------------------------------------------------------------------------
(* pop_result: one physical inbox result for all clients                   *)

\* The waits that began before the pop was dispatched: NO_MORE_MESSAGES ends
\* these and no others.
EveryWait(e, tx) == {s \in DOMAIN e.sessions : e.sessions[s].sync # 0}
CoveredWaits(e, tx) ==
  {s \in DOMAIN e.sessions :
     e.sessions[s].sync # 0 /\ e.sessions[s].sync <= tx.pop_sequence}

\* newer_work, once those waits are over
NoNewerWork(e, tx) == FALSE
NewerWork(e, tx) ==
  \/ e.generation > tx.generation
  \/ \E s \in DOMAIN e.sessions \ CoveredWaits(e, tx) : e.sessions[s].sync # 0

NoMoreMessages(e, tx) ==
  [e EXCEPT
     !.sessions = [s \in DOMAIN e.sessions |->
        IF s \in CoveredWaits(e, tx)
        THEN [Reply(e.sessions[s], "frame") EXCEPT !.sync = 0]
        ELSE e.sessions[s]],
     !.drain = [requested |-> NewerWork(e, tx),
                authorized |-> NewerWork(e, tx)]]

\* fan_out_dedicated for one slot: its queue, then the session attached to it.
FanOutSlot(e, d, item) ==
  LET slot == e.slots[d]
      queued == [slot EXCEPT !.queue = EnqueueOffline(slot.queue, item)]
      s == slot.attached
  IN IF /\ ~ Discards(slot.queue)
        /\ s \in DOMAIN e.sessions
        /\ e.sessions[s].sync # 0
     THEN Shifted(queued, e.sessions[s])
     ELSE queued

FanOutAttached(e, s) ==
  LET session == e.sessions[s]
      slot == e.slots[session.slot]
  IN CASE slot.attached # s \/ Discards(slot.queue) -> session
       [] slot.attached = s /\ ~ Discards(slot.queue) /\ session.sync # 0 ->
            [DeliverSlot(session) EXCEPT !.sync = 0]
       [] slot.attached = s /\ session.sync = 0 /\ slot.queue = <<>> ->
            Hint(session)
       [] OTHER -> session

EnqueueWithHint(session, item) ==
  Hint([session EXCEPT !.inbox = Append(session.inbox, item)])
EnqueueMultiClient(session, item) ==
  LET filled == [session EXCEPT !.inbox = Append(session.inbox, item)]
  IN CASE session.sync # 0 -> DeliverInbox([filled EXCEPT !.sync = 0])
       [] session.sync = 0 /\ session.inbox = <<>> -> Hint(filled)
       [] OTHER -> filled

InboxFull(session) == session.slot = 0 /\ Len(session.inbox) >= InboxEntries

\* An item popped for clients without a slot, none of which is left.
OrphanedByAll(e, tx) == DOMAIN e.sessions = {} /\ tx.had_multi_client
Orphaned(e, tx) ==
  (\A s \in DOMAIN e.sessions : e.sessions[s].slot # 0) /\ tx.had_multi_client

FanOut(e, tx, item) ==
  LET live == DOMAIN e.sessions
  IN [e EXCEPT
        !.seen = Remember(e.seen, item),
        !.slots = [d \in Slots |-> FanOutSlot(e, d, item)],
        !.sessions = [s \in live |->
           CASE e.sessions[s].slot # 0 -> FanOutAttached(e, s)
             [] e.sessions[s].slot = 0 /\ ~ InboxFull(e.sessions[s]) ->
                  EnqueueMultiClient(e.sessions[s], item)
             [] OTHER -> e.sessions[s]],
        !.closed = {s \in live : InboxFull(e.sessions[s])},
        !.orphan = IF Orphaned(e, tx) THEN item ELSE e.orphan,
        !.drain.requested = e.drain.authorized]

PopResult(e, tx, f) ==
  CASE f.code = "no_more_messages" -> NoMoreMessages(e, tx)
    [] f.code # "no_more_messages" /\ Duplicate(e.seen, f.arg) ->
         [e EXCEPT !.drain.requested = e.drain.authorized]
    [] OTHER -> FanOut(e, tx, f.arg)

-----------------------------------------------------------------------------
(* transaction_response: an ordinary reply from the companion              *)

Fail(e) == [e EXCEPT !.failing = TRUE]
Finish(e) == [e EXCEPT !.active = NoTransaction]

\* record_acceptance
RecordAcceptance(e, command, f) ==
  CASE PlainDm(command) /\ f.code = "sent" ->
         [e EXCEPT !.dm_ring = DmAccepted(e.dm_ring, f.arg)]
    [] command.op \in RemoteLease ->
         [e EXCEPT !.remote = IF f.code = "sent"
                              THEN RemoteAccepted(e.remote, f.arg)
                              ELSE NoRemote]
    [] command.op = "sign_start" ->
         [e EXCEPT !.signing = StartResponse(e.signing, f)]
    [] command.op = "sign_data" ->
         [e EXCEPT !.signing = DataResponse(e.signing, f)]
    [] command.op = "sign_finish" ->
         [e EXCEPT !.signing = FinishResponse(e.signing, f)]
    [] OTHER -> e

\* The owner's copy of the reply, if the owner is still connected.
ReplyToOwner(e, f) ==
  LET tx == e.active
      owner == e.sessions[tx.owner]
      seen_by == [owner EXCEPT !.version =
                    IF tx.command.op = "device_query" /\ f.code = "device_info"
                    THEN tx.command.arg ELSE owner.version]
      kind == IF tx.command.op \in Maintenance THEN "result" ELSE "frame"
  IN CASE tx.owner \notin DOMAIN e.sessions -> e
       [] tx.owner \in DOMAIN e.sessions /\ Completes(tx.command, f) ->
            [e EXCEPT !.sessions[tx.owner] = Reply(seen_by, kind)]
       [] OTHER -> [e EXCEPT !.sessions[tx.owner] = Emit(seen_by, "frame")]

NeverRestores(tx) == FALSE
RestoresScope(tx) == tx.scoped

\* What the terminating reply leads to: hidden scope restoration, waiting
\* for the client to get its maintenance result, or release.  A result with
\* nobody to write it to ends the epoch at once (EpochEnds).
AfterCommand(e) ==
  LET tx == e.active
  IN CASE RestoresScope(tx) ->
            SendUpstream(e, [tx EXCEPT !.step = "restore"],
                         SetScope(DefaultScope))
       [] ~ RestoresScope(tx) /\ tx.command.op \in Maintenance ->
            [e EXCEPT !.active.step = "result"]
       [] OTHER -> Finish(e)

CommandResponse(e, f) ==
  LET tx == e.active
  IN IF Completes(tx.command, f)
     THEN AfterCommand(RecordAcceptance(ReplyToOwner(e, f), tx.command, f))
     ELSE [ReplyToOwner(e, f) EXCEPT !.active.contacts_started = TRUE]

\* scope_response: the hidden setup and restoration around a scoped command.
ScopeResponse(e, f) ==
  LET tx == e.active
      refused == IF tx.owner \in DOMAIN e.sessions
                 THEN [e EXCEPT !.sessions[tx.owner] =
                         Reply(e.sessions[tx.owner], "frame")]
                 ELSE e
  IN CASE f.code = "ok" /\ tx.step = "setup" -> SendCommand(e, tx)
       [] f.code = "ok" /\ tx.step = "restore" -> Finish(e)
       [] f.code = "err" /\ tx.step = "setup" ->
            Finish([refused EXCEPT
                      !.remote = IF tx.command.op \in RemoteLease
                                 THEN NoRemote ELSE e.remote])
       [] OTHER -> Fail(e)

\* A reply shows that the command was written, whether or not the writer has
\* said so.
WriteIsOver ==
  [Now EXCEPT !.active.write = 0,
              !.upstream_writes = upstream_writes \ {active.write}]

TransactionResponse(f) ==
  LET e == WriteIsOver
      tx == active
  IN CASE tx.step \in {"none", "result"} -> Fail(e)
       [] tx.step \in {"setup", "restore"} -> ScopeResponse(e, f)
       [] /\ tx.step = "command"
          /\ ~ ValidResponse(tx.command, tx.contacts_started, f) -> Fail(e)
       [] /\ tx.step = "command"
          /\ ValidResponse(tx.command, tx.contacts_started, f)
          /\ tx.owner = 0 ->
            IF f.code = "err" THEN Fail(e) ELSE PopResult(Finish(e), tx, f)
       [] OTHER -> CommandResponse(e, f)

-----------------------------------------------------------------------------
(* push: asynchronous frames                                               *)

\* record_availability_hint: evidence of new messages, never a reason to pop
\* unless a client's sync has already authorized a drain.
AvailabilityHint ==
  [Now EXCEPT !.generation = generation + 1,
              !.drain.requested = drain.requested \/ drain.authorized,
              !.sessions = HintAll(sessions)]

RemoteResult(f) ==
  LET owner == remote.owner
  IN CASE ~ RemoteMatches(remote, f) -> Now
       [] RemoteMatches(remote, f) /\ owner \in DOMAIN sessions ->
            [Now EXCEPT !.remote = NoRemote,
                        !.sessions[owner] = Emit(sessions[owner], "frame")]
       [] OTHER -> [Now EXCEPT !.remote = NoRemote]

\* The push that completes the four-byte SEND_TELEMETRY_REQ.
AnswersSelfTelemetry(f) ==
  /\ f = [code |-> "telemetry_response", arg |-> SelfKey]
  /\ Busy
  /\ active.command.op = "self_telemetry"

Push(f) ==
  CASE f.code = "msg_waiting" -> AvailabilityHint
    [] f.code = "send_confirmed" ->
         [Now EXCEPT !.dm_ring = DmConfirm(dm_ring, f.arg),
                     !.sessions = EmitAll(sessions, "frame")]
    [] f.code \in DOMAIN RemotePushes ->
         IF AnswersSelfTelemetry(f) THEN TransactionResponse(f)
         ELSE RemoteResult(f)
    [] OTHER -> [Now EXCEPT !.sessions = EmitAll(sessions, "frame")]

-----------------------------------------------------------------------------
(* Handlers: clients                                                       *)

AtRest == phase = "idle" /\ ~ failed

\* A session without a slot takes the orphan.
TakesNothing(d) == d = 0
TakesForSlot(d) == d # 0 /\ orphan # 0
TakesOrphan(d) == d = 0 /\ orphan # 0

\* Runtime numbers the connection; a session in the same slot is replaced.
\* While a maintenance command owns the companion the connection is closed at
\* once.
Admit(d) ==
  LET id == next_session + 1
      old == IF d = 0 THEN 0 ELSE slots[d].attached
      others == DOMAIN sessions \ {old}
      new == Hint([NewSession(d) EXCEPT
                     !.inbox = IF TakesOrphan(d) THEN <<orphan>> ELSE <<>>])
  IN /\ AtRest
     /\ next_session' = id
     /\ IF InMaintenance(active)
        THEN UNCHANGED <<sessions, order, active, debt, failed, drain,
                         pop_sequence, generation, orphan, slots, seen, remote,
                         dm_ring, uncertain, signing, next_write,
                         upstream_writes, outgoing, phase, turns>>
        ELSE CommitAndSchedule(
               [Now EXCEPT
                  !.sessions = [s \in others \cup {id} |->
                                  IF s = id THEN new ELSE sessions[s]],
                  !.order = Append(order, id),
                  !.slots = [x \in Slots |->
                               IF x = d THEN [slots[x] EXCEPT !.attached = id]
                               ELSE slots[x]],
                  !.orphan = IF TakesOrphan(d) THEN 0 ELSE orphan,
                  !.drain = IF others = {} THEN NoDrain ELSE drain])

ClientFrame(s, command) ==
  LET session == sessions[s]
      outstanding == Len(session.commands)
                       + (IF session.sync # 0 THEN 1 ELSE 0)
                       + (IF Owns(s) THEN 1 ELSE 0)
  IN /\ AtRest
     /\ s \in DOMAIN sessions
     /\ CommitAndSchedule(
          IF outstanding >= CommandLimit
          THEN [Now EXCEPT !.closed = {s}]
          ELSE [Now EXCEPT !.sessions[s] =
                  [session EXCEPT
                     !.commands = Append(session.commands, command),
                     !.owed = Append(session.owed, command)]])
     /\ UNCHANGED next_session

\* The client disconnected, or its reader rejected what it sent.
ClientClosed(s) ==
  /\ AtRest
  /\ s \in DOMAIN sessions
  /\ CommitAndSchedule([Now EXCEPT !.closed = {s}])
  /\ UNCHANGED next_session

\* The client's writer finished its oldest frame.  When that is the result
\* of a maintenance command the epoch is over.
Written(s) ==
  /\ AtRest
  /\ s \in DOMAIN sessions
  /\ sessions[s].writes # <<>>
  /\ LET e == [Now EXCEPT !.sessions[s].writes = Tail(sessions[s].writes)]
     IN CommitAndSchedule(
          IF /\ active.step = "result"
             /\ active.owner = s
             /\ Head(sessions[s].writes) = "result"
          THEN Fail(Finish(e)) ELSE e)
  /\ UNCHANGED next_session

\* A writer failed: the upstream's ends the epoch, a client's its session.
WriteFailed(id) ==
  /\ AtRest
  /\ id \in DOMAIN sessions \cup {0}
  /\ CommitAndSchedule(IF id = 0 THEN Fail(Now)
                       ELSE [Now EXCEPT !.closed = {id}])
  /\ UNCHANGED next_session

-----------------------------------------------------------------------------
(* Handlers: upstream                                                      *)

AnyWrite(w) == TRUE
AwaitsWrite(w) == active.write = w

\* The upstream writer finished write w.  Only the write the transaction is
\* waiting for starts its response clock; a later completion is stale.
UpstreamWritten(w) ==
  /\ AtRest
  /\ CommitAndSchedule(
       [Now EXCEPT
          !.upstream_writes = upstream_writes \ {w},
          !.active.write = IF AwaitsWrite(w) THEN 0 ELSE active.write])
  /\ UNCHANGED next_session

\* check_active_deadline: the response clock runs once the write completed.
ResponseClockRuns == Busy /\ active.step # "result" /\ active.write = 0

\* A frame of the wrong shape ends the epoch before it is attributed.
UpstreamFrame(f) ==
  /\ AtRest
  /\ CommitAndSchedule(CASE Malformed(f) -> Fail(Now)
                         [] f.code \in PushCodes -> Push(f)
                         [] OTHER -> TransactionResponse(f))
  /\ UNCHANGED next_session

\* A frame that arrives after the deadline, before the tick that would have
\* noticed: upstream_frame ends the epoch without looking at the frame.
LateUpstreamFrame ==
  /\ AtRest
  /\ "late frame" \in Deadlines
  /\ ResponseClockRuns
  /\ CommitAndSchedule(Fail(Now))
  /\ UNCHANGED next_session

\* The upstream socket closed, or the process is asked to stop.
UpstreamClosed ==
  /\ AtRest
  /\ CommitAndSchedule(Fail(Now))
  /\ UNCHANGED next_session

-----------------------------------------------------------------------------
(* Handlers: tick                                                          *)

ResponseTimeout ==
  /\ AtRest
  /\ "response" \in Deadlines
  /\ ResponseClockRuns
  /\ CommitAndSchedule(Fail(Now))
  /\ UNCHANGED next_session

UpstreamWriteTimeout ==
  /\ AtRest
  /\ "upstream write" \in Deadlines
  /\ upstream_writes # {}
  /\ CommitAndSchedule(Fail(Now))
  /\ UNCHANGED next_session

\* The rest of tick.  stuck: sessions with a frame in their writer for too
\* long; late: sessions whose sync has waited for too long; expired: the
\* leases past their deadline; poll: the reminder interval is over.  Looking
\* at a lease elsewhere (occupied?, match) expires it in the same way.
Tick(stuck, late, expired, poll) ==
  LET table == [s \in DOMAIN sessions |->
                  IF s \in late THEN [Reply(sessions[s], "frame") EXCEPT !.sync = 0]
                  ELSE sessions[s]]
  IN /\ AtRest
     /\ stuck \subseteq {s \in DOMAIN sessions : sessions[s].writes # <<>>}
     /\ stuck # {} => "output" \in Deadlines
     /\ late \subseteq {s \in DOMAIN sessions \ stuck : sessions[s].sync # 0}
     /\ late # {} => "sync" \in Deadlines
     /\ expired \subseteq {"remote", "signing"} \cap Deadlines
     /\ "remote" \in expired => CanExpire(remote)
     /\ "signing" \in expired =>
          signing.owner # 0 /\ ~ (Busy /\ active.command.op \in Signing)
     /\ poll => "poll" \in Deadlines
     /\ CommitAndSchedule(
          [Now EXCEPT
             !.closed = stuck,
             !.sessions = IF poll THEN HintAll(table) ELSE table,
             !.remote = IF "remote" \in expired THEN NoRemote ELSE remote,
             !.signing = IF "signing" \in expired THEN NoSigning ELSE signing])
     /\ UNCHANGED next_session

\* The companion's radio finishes what it was doing: a reserved ring entry
\* passes its deadline, or the quarantine window does.
DmDeadline(i) ==
  /\ phase = "idle"
  /\ "dm" \in Deadlines
  /\ dm_ring.slots[i].state = "live"
  /\ dm_ring' = [dm_ring EXCEPT !.slots[i].state = "elapsed"]
  /\ UNCHANGED <<sessions, order, active, debt, failed, drain, pop_sequence,
                 generation, orphan, slots, seen, remote, uncertain, signing,
                 next_write, upstream_writes, outgoing, next_session, phase,
                 turns>>

QuarantineDeadline ==
  /\ phase = "idle"
  /\ "quarantine" \in Deadlines
  /\ uncertain.until = "live"
  /\ uncertain' = [uncertain EXCEPT !.until = "elapsed"]
  /\ UNCHANGED <<sessions, order, active, debt, failed, drain, pop_sequence,
                 generation, orphan, slots, seen, remote, dm_ring, signing,
                 next_write, upstream_writes, outgoing, next_session, phase,
                 turns>>

-----------------------------------------------------------------------------
(* schedule, first loop: commands the broker answers itself.  A session's  *)
(* queue is looked at unless its sync is pending or its own transaction is *)
(* running.                                                                *)

HeadReadyWhileOwner(s) ==
  sessions[s].sync = 0 /\ sessions[s].commands # <<>>
HeadReady(s) ==
  /\ sessions[s].sync = 0
  /\ ~ Owns(s)
  /\ sessions[s].commands # <<>>

Virtual(command) ==
  \/ command.op \in InvalidOps
  \/ command.op \in {"sync_next_message", "set_flood_scope_key"}
  \/ command.op \in Disabled

LocalReady(s) ==
  /\ s \in DOMAIN sessions
  /\ HeadReady(s)
  /\ Virtual(Head(sessions[s].commands))

AllLocalDone == \A s \in DOMAIN sessions : ~ LocalReady(s)

\* An empty queue makes the sync wait for a pop that starts from now on, and
\* authorizes draining the physical inbox; otherwise the oldest item answers.
LocalSync(e, s) ==
  LET session == e.sessions[s]
      slot == e.slots[session.slot]
  IN CASE InboxFor(s) = <<>> ->
            [e EXCEPT !.sessions[s].sync = pop_sequence + 1,
                      !.drain = [requested |-> TRUE, authorized |-> TRUE],
                      !.generation = generation + 1]
       [] InboxFor(s) # <<>> /\ session.slot = 0 ->
            [e EXCEPT !.sessions[s] = DeliverInbox(session)]
       [] OTHER ->
            [e EXCEPT !.sessions[s] = DeliverSlot(session),
                      !.slots[session.slot] = Shifted(slot, session)]

LocalEffect(e, s, command) ==
  LET session == e.sessions[s]
  IN CASE command.op = "sync_next_message" -> LocalSync(e, s)
       [] command.op = "set_flood_scope_key" ->
            [e EXCEPT !.sessions[s] =
               [Reply(session, "frame") EXCEPT !.scope = command.arg]]
       [] OTHER -> [e EXCEPT !.sessions[s] = Reply(session, "frame")]

\* Sessions are visited in the order of their ids.
ScheduleLocal(s) ==
  /\ phase = "local"
  /\ LocalReady(s)
  /\ \A t \in DOMAIN sessions : LocalReady(t) => s <= t
  /\ LET command == Head(sessions[s].commands)
         e == [Now EXCEPT !.sessions[s].commands = Tail(sessions[s].commands)]
     IN Commit(LocalEffect(e, s, command))
  /\ UNCHANGED <<next_session, phase, turns>>

\* A command that has waited too long is refused whatever it is.
ScheduleAged(s) ==
  /\ phase = "local"
  /\ "age" \in Deadlines
  /\ s \in DOMAIN sessions
  /\ HeadReady(s)
  /\ Head(sessions[s].commands).op \notin InvalidOps
  /\ Commit([Now EXCEPT !.sessions[s] =
               [Reply(sessions[s], "frame") EXCEPT
                  !.commands = Tail(sessions[s].commands)]])
  /\ UNCHANGED <<next_session, phase, turns>>

\* The loop is over and a transaction is running: nothing to dispatch.
ScheduleBusy ==
  /\ phase = "local"
  /\ AllLocalDone
  /\ Busy
  /\ phase' = "idle"
  /\ UNCHANGED <<sessions, order, active, debt, failed, drain, pop_sequence,
                 generation, orphan, slots, seen, remote, dm_ring, uncertain,
                 signing, next_write, upstream_writes, outgoing, next_session,
                 turns>>

-----------------------------------------------------------------------------
(* schedule, second loop: at most Len(order) turns of the round robin.  A  *)
(* turn that finds nothing to do is part of the step that ends the loop or *)
(* finds work.                                                             *)

AtTurn == phase = "turn" \/ (phase = "local" /\ AllLocalDone /\ ~ Busy)
TurnsLeft == IF phase = "turn" THEN turns ELSE Len(order)

HasWork(id) ==
  IF id = 0 THEN drain.requested /\ DOMAIN sessions # {}
  ELSE /\ id \in DOMAIN sessions
       /\ sessions[id].sync = 0
       /\ sessions[id].commands # <<>>

Rotated(k) == SubSeq(order, k + 1, Len(order)) \o SubSeq(order, 1, k)

\* The k-th turn is the first with work, and it is id's.
NextTurn(k, id) ==
  /\ AtTurn
  /\ k \in 1 .. TurnsLeft
  /\ k <= Len(order)
  /\ order[k] = id
  /\ HasWork(id)
  /\ \A j \in 1 .. k - 1 : ~ HasWork(order[j])

\* admit_command?
Exclusive(command) == command.op \in Maintenance \ {"reboot"}
AnyNumber == TRUE
Alone == \A s, t \in DOMAIN sessions : s = t
OffAirIgnoringLease == ~ Quarantined(uncertain, dm_ring)
OffAir == ~ Quarantined(uncertain, dm_ring) /\ remote.kind = "none"

AdmitsCommand(s, command) ==
  /\ Exclusive(command) =>
       Alone /\ OffAir /\ PendingCount(dm_ring) = 0 /\ signing.owner = 0
  /\ PlainDm(command) =>
       ~ Quarantined(uncertain, dm_ring) /\ Available(dm_ring)
  /\ command.op \in RemoteLease => OffAir
  /\ command.op = "sign_start" => CanStart(signing, s)
  /\ command.op = "sign_data" =>
       UsableBy(signing, s) /\ RoomFor(signing, command.arg)
  /\ command.op = "sign_finish" => UsableBy(signing, s)

\* Asking quarantined? may end the quarantine, whatever is decided after.
AsksQuarantine(command) ==
  \/ Exclusive(command) /\ Alone
  \/ PlainDm(command)
  \/ command.op \in RemoteLease

\* The state after the k-th turn took the session's command from its queue.
TurnTaken(k, s, command) ==
  [Now EXCEPT
     !.sessions[s].commands = Tail(sessions[s].commands),
     !.order = Rotated(k),
     !.uncertain = IF AsksQuarantine(command) THEN AfterQuery(uncertain, dm_ring)
                   ELSE uncertain]

Reserved(e, s, command) ==
  CASE command.op \in RemoteLease ->
         [e EXCEPT !.remote = Reserve(s, command)]
    [] command.op = "sign_start" -> [e EXCEPT !.signing = StartSigning(s)]
    [] command.op = "sign_data" ->
         [e EXCEPT !.signing = BeginData(signing, command.arg)]
    [] command.op = "sign_finish" ->
         [e EXCEPT !.signing = BeginFinish(signing)]
    [] OTHER -> e

TurnPop(k) ==
  /\ NextTurn(k, 0)
  /\ Commit(DispatchPop([Now EXCEPT !.order = Rotated(k)]))
  /\ phase' = "idle"
  /\ turns' = 0
  /\ UNCHANGED next_session

TurnDispatch(k, s) ==
  LET command == Head(sessions[s].commands)
  IN /\ s # 0
     /\ NextTurn(k, s)
     /\ AdmitsCommand(s, command)
     /\ Commit(Dispatch(Reserved(TurnTaken(k, s, command), s, command),
                        s, command))
     /\ phase' = "idle"
     /\ turns' = 0
     /\ UNCHANGED next_session

AllTurnsAgain(k) == Len(order)
TurnsAfter(k) == TurnsLeft - k

TurnReject(k, s) ==
  LET command == Head(sessions[s].commands)
      e == TurnTaken(k, s, command)
  IN /\ s # 0
     /\ NextTurn(k, s)
     /\ ~ AdmitsCommand(s, command)
     /\ Commit([e EXCEPT !.sessions[s] = Reply(e.sessions[s], "frame")])
     /\ phase' = "turn"
     /\ turns' = TurnsAfter(k)
     /\ UNCHANGED next_session

TurnNone ==
  LET n == IF TurnsLeft < Len(order) THEN TurnsLeft ELSE Len(order)
  IN /\ AtTurn
     /\ \A j \in 1 .. n : ~ HasWork(order[j])
     /\ order' = Rotated(n)
     /\ phase' = "idle"
     /\ turns' = 0
     /\ UNCHANGED <<sessions, active, debt, failed, drain, pop_sequence,
                    generation, orphan, slots, seen, remote, dm_ring,
                    uncertain, signing, next_write, upstream_writes, outgoing,
                    next_session>>

-----------------------------------------------------------------------------
(* After the epoch failed                                                  *)

\* drain_uncertain_frame: the old connection is still open and the frame
\* belongs to the transaction that was never answered.  Runtime gives up on
\* the first frame that does not fit, which leaves the broker as it is.
DebtPaid(f) ==
  IF debt.step \in {"setup", "restore"} THEN f.code \in {"ok", "err"}
  ELSE /\ ValidResponse(debt.command, debt.contacts_started, f)
       /\ Completes(debt.command, f)

DebtProgress(f) ==
  /\ debt.step = "command"
  /\ ValidResponse(debt.command, debt.contacts_started, f)
  /\ ~ Completes(debt.command, f)

ForgetsItem(f) == FALSE
KeepsItem(f) == debt.step = "command" /\ debt.owner = 0 /\ f.code # "err"

DrainUncertainFrame(f) ==
  LET paid == [Now EXCEPT !.debt = NoTransaction]
  IN /\ failed
     /\ debt # NoTransaction
     /\ \/ /\ f.code \in PushCodes
           /\ Commit(Push(f))
        \/ /\ f.code \notin PushCodes
           /\ DebtPaid(f)
           /\ Commit(IF KeepsItem(f) THEN PopResult(paid, debt, f) ELSE paid)
        \/ /\ f.code \notin PushCodes
           /\ DebtProgress(f)
           /\ Commit([Now EXCEPT !.debt.contacts_started = TRUE])
     /\ UNCHANGED <<next_session, phase, turns>>

\* Runtime connects again and makes a new broker.  Slots, radio state and
\* orphan carry over only to a companion with the same public key.
Restart(same_key) ==
  /\ failed
  /\ failed' = FALSE
  /\ debt' = NoTransaction
  /\ pop_sequence' = 0
  /\ generation' = 0
  /\ next_write' = 0
  /\ outgoing' = <<>>
  /\ signing' = NoSigning
  /\ IF same_key
     THEN UNCHANGED <<orphan, slots, remote, dm_ring, uncertain, seen>>
     ELSE /\ orphan' = 0
          /\ slots' = [d \in Slots |-> EmptySlot]
          /\ remote' = NoRemote
          /\ dm_ring' = EmptyRing
          /\ uncertain' = Certain
          /\ seen' = <<>>
  /\ UNCHANGED <<sessions, order, active, drain, upstream_writes,
                 next_session, phase, turns>>

-----------------------------------------------------------------------------
(* The specification: clients, companion and clock are unconstrained.      *)

Init ==
  /\ sessions = [s \in {} |-> NewSession(0)]
  /\ order = <<0>>
  /\ active = NoTransaction
  /\ debt = NoTransaction
  /\ failed = FALSE
  /\ drain = NoDrain
  /\ pop_sequence = 0
  /\ generation = 0
  /\ orphan = 0
  /\ slots = [d \in Slots |-> EmptySlot]
  /\ seen = <<>>
  /\ remote = NoRemote
  /\ dm_ring = EmptyRing
  /\ uncertain = Certain
  /\ signing = NoSigning
  /\ next_write = 0
  /\ upstream_writes = {}
  /\ outgoing = <<>>
  /\ next_session = 0
  /\ phase = "idle"
  /\ turns = 0

\* The upstream writer takes a frame from its queue.
TakeWrite ==
  /\ outgoing # <<>>
  /\ outgoing' = Tail(outgoing)
  /\ UNCHANGED <<sessions, order, active, debt, failed, drain, pop_sequence,
                 generation, orphan, slots, seen, remote, dm_ring, uncertain,
                 signing, next_write, upstream_writes, next_session, phase,
                 turns>>

ScheduleStep ==
  \/ \E s \in DOMAIN sessions : ScheduleLocal(s) \/ ScheduleAged(s)
  \/ ScheduleBusy
  \/ \E k \in 1 .. Len(order) : TurnPop(k)
  \/ \E k \in 1 .. Len(order), s \in DOMAIN sessions :
       TurnDispatch(k, s) \/ TurnReject(k, s)
  \/ TurnNone

ClientStep ==
  \/ \E d \in Slots \cup {0} : Admit(d)
  \/ \E s \in DOMAIN sessions :
       \/ \E command \in Commands : ClientFrame(s, command)
       \/ ClientClosed(s)
       \/ Written(s)
  \/ \E id \in DOMAIN sessions \cup {0} : WriteFailed(id)

UpstreamStep ==
  \/ \E w \in 1 .. next_write : UpstreamWritten(w)
  \/ \E f \in Frames : UpstreamFrame(f) \/ DrainUncertainFrame(f)
  \/ LateUpstreamFrame
  \/ UpstreamClosed
  \/ TakeWrite
  \/ \E same_key \in BOOLEAN : Restart(same_key)

ClockStep ==
  \/ ResponseTimeout
  \/ UpstreamWriteTimeout
  \/ \E stuck \in SUBSET DOMAIN sessions,
       late \in SUBSET DOMAIN sessions,
       expired \in SUBSET {"remote", "signing"}, poll \in BOOLEAN :
       Tick(stuck, late, expired, poll)
  \/ \E i \in RingSlots : DmDeadline(i)
  \/ QuarantineDeadline

Next == ScheduleStep \/ ClientStep \/ UpstreamStep \/ ClockStep

Spec == Init /\ [][Next]_vars

-----------------------------------------------------------------------------
(* Properties *)

\* Every variable of the broker has its type.
TypeOK ==
  /\ DOMAIN sessions \subseteq 1 .. next_session
  /\ sessions \in [DOMAIN sessions -> Session]
  /\ order \in Seq(Nat)
  /\ active \in Transaction
  /\ debt \in Transaction
  /\ failed \in BOOLEAN
  /\ drain \in [requested : BOOLEAN, authorized : BOOLEAN]
  /\ pop_sequence \in Nat
  /\ generation \in Nat
  /\ orphan \in Items \cup {0}
  /\ slots \in [Slots -> Slot]
  /\ seen \in Seq(Nat)
  /\ remote \in Remote
  /\ dm_ring \in DmRing
  /\ uncertain \in Uncertain
  /\ signing \in SigningState
  /\ next_write \in Nat
  /\ upstream_writes \subseteq Nat
  /\ outgoing \in Seq([id : Nat, command : Command, owner : Nat, scope : Nat])
  /\ next_session \in Nat
  /\ phase \in {"idle", "local", "turn"}
  /\ turns \in Nat

Waiting == {s \in DOMAIN sessions : sessions[s].sync # 0}

Popping == Busy /\ active.owner = 0

\* A client waits for a message only while its own queue has none: an item
\* enqueued for it ends the wait in the same handler, and replacing the
\* session of a slot never leaves a wait behind a queue with items.
SyncWaitsOnEmptyInbox == \A s \in Waiting : InboxFor(s) = <<>>

\* No wakeup is lost: while a client waits, a drain of the physical inbox is
\* authorized, and a pop is either requested or in flight.  If it were not,
\* the client would wait for its deadline with messages in the companion.
NoLostWakeup ==
  Waiting # {} => drain.authorized /\ (drain.requested \/ Popping)

\* A slot's attached session is the one live session with that slot.
SlotAttachment ==
  /\ \A d \in Slots : slots[d].attached # 0 =>
       /\ slots[d].attached \in DOMAIN sessions
       /\ sessions[slots[d].attached].slot = d
  /\ \A s \in DOMAIN sessions : sessions[s].slot # 0 =>
       slots[sessions[s].slot].attached = s

\* The single orphan entry is never overwritten: while a client without a
\* slot is connected, or a pop dispatched for such a client is in flight,
\* there is no orphan that the pop's item could replace.
OrphanIsFree ==
  /\ (\E s \in DOMAIN sessions : sessions[s].slot = 0) => orphan = 0
  /\ Popping /\ active.had_multi_client => orphan = 0
  /\ debt.step = "command" /\ debt.owner = 0 /\ debt.had_multi_client =>
       orphan = 0

\* "No more messages" is only said to a client that was already waiting when
\* the pop that found the inbox empty was dispatched.
EmptyIsHonest ==
  [][\A s \in Waiting :
       /\ Popping
       /\ ~ Busy'
       /\ s \in DOMAIN sessions'
       /\ sessions'[s].sync = 0
       /\ sessions'[s].writes = Append(sessions[s].writes, "frame")
       => s \in active.covers]_vars

\* A direct message in a slot's queue leaves it by being delivered to the slot's
\* client, or with the identity it was sent to.  No arrival makes room for
\* itself at its expense, however full the queue is and whatever it holds.
DirectsSurvive ==
  [][\A d \in Slots : \A i \in DOMAIN slots[d].queue :
       LET item == slots[d].queue[i]
       IN item \notin ChannelItems =>
            \/ \E j \in DOMAIN slots'[d].queue : slots'[d].queue[j] = item
            \/ i = 1 /\ slots[d].attached # 0 /\ slots'[d].last = item
            \/ failed /\ ~ failed']_vars

\* The command of s whose answer is still to come although it has left the
\* queue: the running transaction's before its reply, or the pending sync.
InFlight(s) ==
  CASE Owns(s) /\ active.step \in {"setup", "command"} -> <<active.command>>
    [] ~ Owns(s) /\ sessions[s].sync # 0 -> <<Sync>>
    [] OTHER -> <<>>

\* Every command of a connected client is answered exactly once and in the
\* order received: the unanswered ones are the one in flight, then the queue.
RepliesInOrder ==
  \A s \in DOMAIN sessions :
    sessions[s].owed = InFlight(s) \o sessions[s].commands

\* What the broker answers itself is never forwarded: no client's sync takes
\* an item from the companion past the other clients, and the round robin never
\* meets a command without a descriptor, also after it has refused a command
\* whose successor is such a one.
VirtualNeverForwarded ==
  Busy /\ active.owner # 0 => ~ Virtual(active.command)

\* A remote reservation without a deadline belongs to a command that is being
\* set up or awaits its reply, or nothing would ever release it; and such a
\* command has the reservation its reply is going to be recorded in.
ReservationInFlight ==
  /\ remote.tentative =>
       /\ active.step \in {"setup", "command"}
       /\ active.command.op = remote.kind
  /\ active.step \in {"setup", "command"} =>
       /\ active.command.op \in RemoteLease => remote.tentative
       /\ PlainDm(active.command) => Available(dm_ring)

\* A command that replaces or erases the companion's identity runs with its
\* own client as the only one and with nothing outstanding on the radio, from
\* its dispatch until its result is with the client: nobody is admitted
\* meanwhile.
MaintenanceExclusive ==
  Busy /\ Exclusive(active.command) =>
    /\ DOMAIN sessions \subseteq {active.owner}
    /\ OffAir
    /\ PendingCount(dm_ring) = 0
    /\ signing.owner = 0
=============================================================================
