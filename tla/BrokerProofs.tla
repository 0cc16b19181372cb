---------------------------- MODULE BrokerProofs ----------------------------
(***************************************************************************)
(* Type correctness of the broker, for every value of its constants.       *)
(*                                                                         *)
(* State(n) is the type of the record a handler computes when n sessions   *)
(* have been numbered.  There is one lemma per operator the handlers are   *)
(* built from, one per handler, and Commit carries the record's type over  *)
(* to the next state.  TypeOK alone is not inductive: pop_result is typed  *)
(* only because a transaction of the inbox consumer is a pop (PopShape),   *)
(* so that the frame that answers it holds an item.                        *)
(*                                                                         *)
(* The virtual inbox never loses a wakeup: a client that waits for a       *)
(* message has an empty queue, and the pop that ends its wait is requested *)
(* or in flight.                                                           *)
(*                                                                         *)
(* Neither is inductive alone.  Whose queue a session reads depends on     *)
(* SlotAttachment (an item for a slot must reach the session that waits on *)
(* its queue, and no other), and that a dispatched command never displaces *)
(* a pop depends on TurnFree.  A new broker takes over the old one's slots *)
(* with nobody attached, because a failed epoch has no sessions (Ended).   *)
(*                                                                         *)
(* Good(e) is the invariant said of the record e that a handler computes;  *)
(* Eases(e, x) says that the change from e to x keeps it.                  *)
(***************************************************************************)
EXTENDS Broker, SequenceTheorems, FiniteSetTheorems, WellFoundedInduction, TLAPS

\* The session tables with ids up to n.
SessionTables(n) == UNION {[ids -> Session] : ids \in SUBSET (1 .. n)}

\* A SendFrame action for the upstream writer.
Write == [id : Nat, command : Command, owner : Nat, scope : Nat]

\* A transaction of the inbox consumer is a pop.
PopShape(tx) ==
  tx.owner = 0 /\ tx.step # "none" => tx.step = "command" /\ tx.command = Sync

Transactions == {tx \in Transaction : PopShape(tx)}

\* What a handler computes.
State(n) ==
  [sessions : SessionTables(n), order : Seq(Nat), active : Transactions,
   debt : Transactions, drain : [requested : BOOLEAN, authorized : BOOLEAN],
   pop_sequence : Nat, generation : Nat, orphan : Items \cup {0},
   slots : [Slots -> Slot], seen : Seq(Nat), remote : Remote,
   dm_ring : DmRing, uncertain : Uncertain, signing : SigningState,
   next_write : Nat, upstream_writes : SUBSET Nat, outgoing : Seq(Write),
   closed : SUBSET Nat, failing : BOOLEAN]

\* 0 stands for no item, so it is none.
LEMMA ItemsAreNumbers == Items \subseteq Nat \ {0}
BY BrokerAssumption

\* A table of sessions, said in the two ways the proofs need.
LEMMA TableType ==
  ASSUME NEW n \in Nat, NEW t
  PROVE  t \in SessionTables(n) <=>
           DOMAIN t \subseteq 1 .. n /\ t \in [DOMAIN t -> Session]
BY DEF SessionTables

\* The inductive invariant.
TypeInv == TypeOK /\ PopShape(active) /\ PopShape(debt)

\* The state a handler starts from.
LEMMA NowType ==
  ASSUME TypeInv
  PROVE  Now \in State(next_session)
<1> USE DEF TypeInv
<1>1. sessions \in SessionTables(next_session)
  BY TableType DEF TypeOK
<1> QED
  BY <1>1 DEF TypeOK, Now, State, Write, Transactions

\* emit keeps a session a session.
LEMMA EmitType ==
  ASSUME NEW session \in Session, NEW kind \in WriteKinds
  PROVE  Emit(session, kind) \in Session
<1>1. session.writes \in Seq(WriteKinds)
  BY DEF Session
<1>2. Append(session.writes, kind) \in Seq(WriteKinds)
  BY <1>1
<1> QED
  BY <1>2 DEF Emit, Session

\* emit_availability_hint keeps a session a session.
LEMMA HintType ==
  ASSUME NEW session \in Session
  PROVE  Hint(session) \in Session
BY EmitType DEF Hint, WriteKinds

\* So does the answer to a command.
LEMMA ReplyType ==
  ASSUME NEW session \in Session, NEW kind \in WriteKinds
  PROVE  Reply(session, kind) \in Session
<1>1. Emit(session, kind) \in Session
  BY EmitType
<1>2. SubSeq(session.owed, 2, Len(session.owed)) \in Seq(Command)
  <2>1. session.owed \in Seq(Command)
    BY DEF Session
  <2> QED
    BY <2>1
<1> QED
  BY <1>1, <1>2 DEF Reply, Session

\* The cursor of the acknowledgement ring stays within the ring.
LEMMA RingNext ==
  ASSUME NEW i \in RingSlots
  PROVE  (i + 1) % DmCapacity \in RingSlots
BY DmCapacityAssumption DEF RingSlots

\* Replacing one session of a well-typed state.
LEMMA UpdateSession ==
  ASSUME NEW n \in Nat, NEW e \in State(n), NEW s \in DOMAIN e.sessions,
         NEW session \in Session
  PROVE  [e EXCEPT !.sessions[s] = session] \in State(n)
<1>1. [e.sessions EXCEPT ![s] = session] \in SessionTables(n)
  BY TableType DEF State
<1> QED
  BY <1>1 DEF State

\* The head and the tail of a queue that is not empty.
LEMMA CommandOf ==
  ASSUME NEW s \in DOMAIN sessions, TypeOK, sessions[s].commands # <<>>
  PROVE  /\ Head(sessions[s].commands) \in Command
         /\ Tail(sessions[s].commands) \in Seq(Command)
<1>1. sessions[s].commands \in Seq(Command)
  BY DEF TypeOK, Session
<1> QED
  BY <1>1

\* deliver_item on a session without a slot.
LEMMA DeliverInboxType ==
  ASSUME NEW session \in Session, session.inbox # <<>>
  PROVE  DeliverInbox(session) \in Session
<1>1. Layout(session.version) \in WriteKinds
  BY DEF Layout, WriteKinds
<1>2. Reply(session, Layout(session.version)) \in Session
  BY <1>1, ReplyType
<1>3. session.inbox \in Seq(Items)
  BY DEF Session
<1>4. Tail(session.inbox) \in Seq(Items) /\ Head(session.inbox) \in Items
  BY <1>3
<1>5. Head(session.inbox) \in Nat
  BY <1>4, ItemsAreNumbers
<1> QED
  BY <1>2, <1>4, <1>5 DEF DeliverInbox, Session

\* send_upstream keeps the state well-typed.
LEMMA SendUpstreamType ==
  ASSUME NEW n \in Nat, NEW e \in State(n), NEW tx \in Transactions,
         NEW command \in Command
  PROVE  SendUpstream(e, tx, command) \in State(n)
<1> DEFINE w == [id |-> e.next_write + 1, command |-> command,
                 owner |-> tx.owner, scope |-> tx.scope]
<1>1. e.next_write + 1 \in Nat
  BY DEF State
<1>2. e.upstream_writes \cup {e.next_write + 1} \in SUBSET Nat
  BY <1>1 DEF State
<1>3. w \in Write
  BY <1>1 DEF Write, Transactions, Transaction
<1>4. e.outgoing \in Seq(Write)
  BY DEF State
<1>5. Append(e.outgoing, w) \in Seq(Write)
  BY <1>3, <1>4
<1>6. [tx EXCEPT !.write = e.next_write + 1] \in Transactions
  BY <1>1 DEF Transactions, Transaction, PopShape
<1> QED
  BY <1>1, <1>2, <1>5, <1>6 DEF SendUpstream, State

\* The commands the broker itself sends are commands, and every command has
\* the fields of one.
LEMMA CommandTypes ==
  /\ [op |-> "none", arg |-> 0] \in Command
  /\ Sync \in Command
  /\ \A scope \in Nat : SetScope(scope) \in Command
  /\ Command \subseteq [op : Ops, arg : Nat]
<1>1. {"none", "sync_next_message", "set_flood_scope_key"} \subseteq Ops
  BY DEF Ops, OkOps
<1>2. Commands \subseteq [op : Ops, arg : Nat]
  BY BrokerAssumption
<1> QED
  BY <1>1, <1>2 DEF Command, Sync, SetScope

\* No transaction is a transaction, and not a pop.
LEMMA NoTransactionType ==
  NoTransaction \in Transaction /\ NoTransaction \in Transactions
BY CommandTypes
   DEF NoTransaction, Transactions, Transaction, Steps, DefaultScope, PopShape

\* send_command, for a client or for the inbox consumer.
LEMMA SendCommandType ==
  ASSUME NEW n \in Nat, NEW e \in State(n), NEW tx \in Transaction,
         tx.owner = 0 => tx.command = Sync
  PROVE  SendCommand(e, tx) \in State(n)
<1>1. [tx EXCEPT !.step = "command"] \in Transactions
  BY DEF Transactions, Transaction, Steps, PopShape
<1>2. tx.command \in Command
  BY DEF Transaction
<1> QED
  BY <1>1, <1>2, SendUpstreamType DEF SendCommand

\* dispatch of a client's command, scoped or not.
LEMMA DispatchType ==
  ASSUME NEW n \in Nat, NEW e \in State(n), NEW s \in DOMAIN e.sessions,
         NEW command \in Command
  PROVE  Dispatch(e, s, command) \in State(n)
<1> DEFINE scope == e.sessions[s].scope
           tx == [NoTransaction EXCEPT !.owner = s, !.command = command,
                                       !.scope = scope]
<1>1. s \in Nat /\ s # 0 /\ scope \in Nat
  BY TableType DEF State, Session
<1>2. tx \in Transaction /\ tx.owner # 0
  BY <1>1, NoTransactionType DEF Transaction
<1>3. [tx EXCEPT !.step = "setup", !.scoped = TRUE] \in Transactions
  BY <1>2 DEF Transactions, Transaction, Steps, PopShape
<1>4. SetScope(scope) \in Command
  BY <1>1, CommandTypes
<1> QED
  BY <1>2, <1>3, <1>4, SendUpstreamType, SendCommandType DEF Dispatch

\* Dispatching a pop makes a transaction of the shape of a pop.
LEMMA DispatchPopType ==
  ASSUME NEW n \in Nat, NEW e \in State(n)
  PROVE  DispatchPop(e) \in State(n)
<1> DEFINE x == [e EXCEPT !.drain.requested = FALSE,
                          !.pop_sequence = e.pop_sequence + 1]
           tx == [NoTransaction EXCEPT
                    !.command = Sync, !.pop_sequence = e.pop_sequence + 1,
                    !.generation = e.generation,
                    !.had_multi_client =
                      \E s \in DOMAIN e.sessions : e.sessions[s].slot = 0,
                    !.covers =
                      {s \in DOMAIN e.sessions : e.sessions[s].sync # 0}]
<1>1. [e.drain EXCEPT !.requested = FALSE]
        \in [requested : BOOLEAN, authorized : BOOLEAN]
  BY DEF State
<1>2. e.pop_sequence + 1 \in Nat /\ e.generation \in Nat
  BY DEF State
<1>3. x \in State(n)
  BY <1>1, <1>2 DEF State
<1>4. {s \in DOMAIN e.sessions : e.sessions[s].sync # 0} \in SUBSET Ids
  BY TableType DEF State, Ids
<1>5. tx \in Transaction /\ tx.command = Sync
  BY <1>2, <1>4, NoTransactionType, CommandTypes DEF Transaction
<1> QED
  BY <1>3, <1>5, SendCommandType DEF DispatchPop

\* A handler that rewrites the table of sessions entry by entry.
LEMMA NewTable ==
  ASSUME NEW n \in Nat, NEW t \in SessionTables(n), NEW u,
         DOMAIN u = DOMAIN t, u = [s \in DOMAIN t |-> u[s]],
         \A s \in DOMAIN t : u[s] \in Session
  PROVE  u \in SessionTables(n)
BY TableType

\* A wait that ends with a frame.
LEMMA AnsweredType ==
  ASSUME NEW session \in Session
  PROVE  [Reply(session, "frame") EXCEPT !.sync = 0] \in Session
<1>1. Reply(session, "frame") \in Session
  BY ReplyType DEF WriteKinds
<1> QED
  BY <1>1 DEF Session

\* pop_result on NO_MORE_MESSAGES.
LEMMA NoMoreMessagesType ==
  ASSUME NEW n \in Nat, NEW e \in State(n), NEW tx \in Transaction
  PROVE  NoMoreMessages(e, tx) \in State(n)
<1> DEFINE u == [s \in DOMAIN e.sessions |->
                   IF s \in CoveredWaits(e, tx)
                   THEN [Reply(e.sessions[s], "frame") EXCEPT !.sync = 0]
                   ELSE e.sessions[s]]
<1>1. e.sessions \in SessionTables(n)
  BY DEF State
<1>2. \A s \in DOMAIN e.sessions : u[s] \in Session
  BY <1>1, TableType, AnsweredType
<1>3. u \in SessionTables(n)
  BY <1>1, <1>2, NewTable
<1>4. NewerWork(e, tx) \in BOOLEAN
  BY DEF NewerWork
<1> QED
  BY <1>3, <1>4 DEF NoMoreMessages, State

\* Removing one item of a queue.
LEMMA DeleteAtType ==
  ASSUME NEW S, NEW queue \in Seq(S), queue # <<>>, NEW i
  PROVE  DeleteAt(queue, i) \in Seq(S)
<1>1. Len(queue) - 1 \in Nat
  OBVIOUS
<1>2. \A j \in 1 .. Len(queue) - 1 :
        (IF j < i THEN queue[j] ELSE queue[j + 1]) \in S
  BY ElementOfSeq
<1> QED
  BY <1>1, <1>2, IsASeq DEF DeleteAt

\* An item that is not discarded is last in the queue.
LEMMA EnqueueOfflineType ==
  ASSUME NEW queue \in Seq(Items), NEW item \in Items
  PROVE  /\ EnqueueOffline(queue, item) \in Seq(Items)
         /\ ~ Discards(queue) => EnqueueOffline(queue, item) # <<>>
<1>1. CASE Discards(queue)
  BY <1>1 DEF EnqueueOffline
<1>2. CASE Full(queue) /\ ~ Discards(queue)
  <2>1. queue # <<>>
    BY <1>2, OfflineQueueAssumption DEF Full
  <2>2. DeleteAt(queue, OldestChannel(queue)) \in Seq(Items)
    BY <2>1, DeleteAtType
  <2> QED
    BY <1>2, <2>2 DEF EnqueueOffline
<1>3. CASE ~ Full(queue)
  <2>1. ~ Discards(queue)
    BY <1>3 DEF Discards
  <2>2. EnqueueOffline(queue, item) = Append(queue, item)
    BY <1>3, <2>1 DEF EnqueueOffline
  <2> QED
    BY <2>2
<1> QED
  BY <1>1, <1>2, <1>3

\* deliver_item on a slot's queue.
LEMMA ShiftedType ==
  ASSUME NEW slot \in Slot, NEW session \in Session, slot.queue # <<>>
  PROVE  Shifted(slot, session) \in Slot
<1>1. slot.queue \in Seq(Items)
  BY DEF Slot
<1>2. Tail(slot.queue) \in Seq(Items) /\ Head(slot.queue) \in Items
  BY <1>1
<1>3. Head(slot.queue) \in Nat
  BY <1>2, ItemsAreNumbers
<1> QED
  BY <1>2, <1>3 DEF Shifted, Slot

\* fan_out_dedicated, the slot.
LEMMA FanOutSlotType ==
  ASSUME NEW n \in Nat, NEW e \in State(n), NEW d \in Slots,
         NEW item \in Items
  PROVE  FanOutSlot(e, d, item) \in Slot
<1> DEFINE slot == e.slots[d]
           queued == [slot EXCEPT !.queue = EnqueueOffline(slot.queue, item)]
<1>1. slot \in Slot /\ slot.queue \in Seq(Items)
  BY DEF State, Slot
<1>2. /\ queued \in Slot
      /\ ~ Discards(slot.queue) => queued.queue # <<>>
  BY <1>1, EnqueueOfflineType DEF Slot
<1>3. \A s \in DOMAIN e.sessions : e.sessions[s] \in Session
  BY TableType DEF State
<1> QED
  BY <1>2, <1>3, ShiftedType DEF FanOutSlot

\* deliver_item on a session with a slot.
LEMMA DeliverSlotType ==
  ASSUME NEW session \in Session
  PROVE  DeliverSlot(session) \in Session
BY ReplyType DEF DeliverSlot, Layout, WriteKinds

\* fan_out_dedicated, the session attached to the slot.
LEMMA FanOutAttachedType ==
  ASSUME NEW n \in Nat, NEW e \in State(n), NEW s \in DOMAIN e.sessions
  PROVE  FanOutAttached(e, s) \in Session
<1>1. e.sessions[s] \in Session
  BY TableType DEF State
<1>2. DeliverSlot(e.sessions[s]) \in Session
  BY <1>1, DeliverSlotType
<1>3. [DeliverSlot(e.sessions[s]) EXCEPT !.sync = 0] \in Session
  BY <1>2 DEF Session
<1>4. Hint(e.sessions[s]) \in Session
  BY <1>1, HintType
<1> QED
  BY <1>1, <1>3, <1>4 DEF FanOutAttached

\* enqueue_multi_client.
LEMMA EnqueueMultiClientType ==
  ASSUME NEW session \in Session, NEW item \in Items
  PROVE  EnqueueMultiClient(session, item) \in Session
<1> DEFINE filled == [session EXCEPT !.inbox = Append(session.inbox, item)]
           answered == [filled EXCEPT !.sync = 0]
<1>1. session.inbox \in Seq(Items)
  BY DEF Session
<1>2. Append(session.inbox, item) \in Seq(Items)
      /\ Append(session.inbox, item) # <<>>
  BY <1>1
<1>3. filled \in Session
  BY <1>2 DEF Session
<1>4. answered \in Session /\ answered.inbox # <<>>
  BY <1>2, <1>3 DEF Session
<1>5. DeliverInbox(answered) \in Session
  BY <1>4, DeliverInboxType
<1>6. Hint(filled) \in Session
  BY <1>3, HintType
<1> QED
  BY <1>3, <1>5, <1>6 DEF EnqueueMultiClient

\* The deduplicator's history is a sequence of texts.
LEMMA RememberType ==
  ASSUME NEW history \in Seq(Nat), NEW item \in Items
  PROVE  Remember(history, item) \in Seq(Nat)
<1>1. Text[item] \in Nat
  BY BrokerAssumption
<1>2. Len(history) >= HistoryCapacity => Tail(history) \in Seq(Nat)
  BY DeduplicatorAssumption
<1> QED
  BY <1>1, <1>2 DEF Remember

\* pop_result on an item that is new.
LEMMA FanOutType ==
  ASSUME NEW n \in Nat, NEW e \in State(n), NEW tx \in Transaction,
         NEW item \in Items
  PROVE  FanOut(e, tx, item) \in State(n)
<1> DEFINE live == DOMAIN e.sessions
           u == [s \in live |->
                   CASE e.sessions[s].slot # 0 -> FanOutAttached(e, s)
                     [] e.sessions[s].slot = 0 /\ ~ InboxFull(e.sessions[s]) ->
                          EnqueueMultiClient(e.sessions[s], item)
                     [] OTHER -> e.sessions[s]]
           v == [d \in Slots |-> FanOutSlot(e, d, item)]
<1>1. e.sessions \in SessionTables(n)
  BY DEF State
<1>2. \A s \in live : e.sessions[s] \in Session /\ s \in Nat
  BY <1>1, TableType
<1>3. ASSUME NEW s \in live PROVE u[s] \in Session
  BY <1>2, FanOutAttachedType, EnqueueMultiClientType
<1>4. u \in SessionTables(n)
  BY <1>1, <1>3, NewTable
<1>5. v \in [Slots -> Slot]
  BY FanOutSlotType
<1>6. Remember(e.seen, item) \in Seq(Nat)
  BY RememberType DEF State
<1>7. {s \in live : InboxFull(e.sessions[s])} \in SUBSET Nat
  BY <1>2
<1>8. [e.drain EXCEPT !.requested = e.drain.authorized]
        \in [requested : BOOLEAN, authorized : BOOLEAN]
  BY DEF State
<1>9. (IF Orphaned(e, tx) THEN item ELSE e.orphan) \in Items \cup {0}
  BY DEF State
<1> QED
  BY <1>4, <1>5, <1>6, <1>7, <1>8, <1>9 DEF FanOut, State

\* What the companion can send.
LEMMA FrameType ==
  ASSUME NEW f \in Frames
  PROVE  f.arg \in Nat /\ (f.code = "message" => f.arg \in Items)
<1>1. Frames \subseteq [code : STRING, arg : Nat]
  BY BrokerAssumption
<1>2. f.code = "message" => f.arg \in Items
  BY BrokerAssumption
<1> QED
  BY <1>1, <1>2

\* The replies a pop can end with.
LEMMA SyncReplies ==
  ASSUME NEW started \in BOOLEAN, NEW f, ValidResponse(Sync, started, f)
  PROVE  f.code \in {"err", "message", "no_more_messages"}
<1>1. Sync.op = "sync_next_message"
  BY DEF Sync
<1>2. SuccessCodes("sync_next_message") = {"message", "no_more_messages"}
  BY DEF SuccessCodes, RemoteLease, OkOps, ValueReply
<1>3. f.code = "err" \/ f.code \in SuccessCodes(Sync.op)
  BY DEF ValidResponse
<1> QED
  BY <1>1, <1>2, <1>3

\* pop_result on a duplicate.
LEMMA DrainAgainType ==
  ASSUME NEW n \in Nat, NEW e \in State(n)
  PROVE  [e EXCEPT !.drain.requested = e.drain.authorized] \in State(n)
<1>1. [e.drain EXCEPT !.requested = e.drain.authorized]
        \in [requested : BOOLEAN, authorized : BOOLEAN]
  BY DEF State
<1> QED
  BY <1>1 DEF State

\* pop_result, all cases.
LEMMA PopResultType ==
  ASSUME NEW n \in Nat, NEW e \in State(n), NEW tx \in Transaction,
         NEW f \in Frames, f.code \in {"message", "no_more_messages"}
  PROVE  PopResult(e, tx, f) \in State(n)
BY FrameType, NoMoreMessagesType, DrainAgainType, FanOutType DEF PopResult

\* What the operations on the ring and on the remote lease return.
LEMMA LeaseTypes ==
  ASSUME NEW token \in Nat
  PROVE  /\ \A ring \in DmRing : DmAccepted(ring, token) \in DmRing
         /\ \A ring \in DmRing : DmConfirm(ring, token) \in DmRing
         /\ \A lease \in Remote : RemoteAccepted(lease, token) \in Remote
         /\ NoRemote \in Remote
<1>1. \A ring \in DmRing : DmAccepted(ring, token) \in DmRing
  BY RingNext DEF DmAccepted, DmRing, Entry, EntryStates
<1>2. \A ring \in DmRing : DmConfirm(ring, token) \in DmRing
  BY DEF DmConfirm, DmRing, Entry, EntryStates
<1>3. \A lease \in Remote : RemoteAccepted(lease, token) \in Remote
  BY DEF RemoteAccepted, Remote
<1>4. NoRemote \in Remote
  BY DEF NoRemote, Remote
<1> QED
  BY <1>1, <1>2, <1>3, <1>4

\* What the operations on the signing lease return.
LEMMA SigningTypes ==
  ASSUME NEW lease \in SigningState, NEW f, f.arg \in Nat
  PROVE  /\ NoSigning \in SigningState
         /\ StartResponse(lease, f) \in SigningState
         /\ DataResponse(lease, f) \in SigningState
         /\ FinishResponse(lease, f) \in SigningState
<1>1. NoSigning \in SigningState
  BY DEF NoSigning, SigningState
<1>2. StartResponse(lease, f) \in SigningState
  BY <1>1 DEF StartResponse, SigningState
<1>3. DataResponse(lease, f) \in SigningState
  <2>1. lease.accepted + lease.pending \in Nat
    BY DEF SigningState
  <2>2. [lease EXCEPT !.accepted = lease.accepted + lease.pending,
                      !.pending = 0] \in SigningState
    BY <2>1 DEF SigningState
  <2>3. [lease EXCEPT !.pending = 0] \in SigningState
    BY DEF SigningState
  <2> QED
    BY <1>1, <2>2, <2>3 DEF DataResponse
<1>4. FinishResponse(lease, f) \in SigningState
  BY <1>1 DEF FinishResponse, SigningState
<1> QED
  BY <1>1, <1>2, <1>3, <1>4

\* record_acceptance.
LEMMA RecordAcceptanceType ==
  ASSUME NEW n \in Nat, NEW e \in State(n), NEW command \in Command,
         NEW f \in Frames
  PROVE  RecordAcceptance(e, command, f) \in State(n)
<1>1. f.arg \in Nat
  BY FrameType
<1>2. e.dm_ring \in DmRing /\ e.remote \in Remote /\ e.signing \in SigningState
  BY DEF State
<1>3. /\ DmAccepted(e.dm_ring, f.arg) \in DmRing
      /\ RemoteAccepted(e.remote, f.arg) \in Remote
      /\ NoRemote \in Remote
  BY <1>1, <1>2, LeaseTypes
<1>4. /\ StartResponse(e.signing, f) \in SigningState
      /\ DataResponse(e.signing, f) \in SigningState
      /\ FinishResponse(e.signing, f) \in SigningState
  BY <1>1, <1>2, SigningTypes
<1> QED
  BY <1>3, <1>4 DEF RecordAcceptance, State

\* Writing the reply to the client that sent the command.
LEMMA ReplyToOwnerType ==
  ASSUME NEW n \in Nat, NEW e \in State(n), NEW f
  PROVE  ReplyToOwner(e, f) \in State(n)
<1> DEFINE tx == e.active
           owner == e.sessions[tx.owner]
           seen_by == [owner EXCEPT !.version =
             IF tx.command.op = "device_query" /\ f.code = "device_info"
             THEN tx.command.arg ELSE owner.version]
           kind == IF tx.command.op \in Maintenance THEN "result" ELSE "frame"
<1>1. CASE tx.owner \notin DOMAIN e.sessions
  BY <1>1 DEF ReplyToOwner
<1>2. CASE tx.owner \in DOMAIN e.sessions
  <2>1. owner \in Session
    BY <1>2, TableType DEF State
  <2>2. tx.command.arg \in Nat
    BY CommandTypes DEF State, Transactions, Transaction
  <2>3. seen_by \in Session
    BY <2>1, <2>2 DEF Session
  <2>4. Reply(seen_by, kind) \in Session /\ Emit(seen_by, "frame") \in Session
    BY <2>3, ReplyType, EmitType DEF WriteKinds
  <2> QED
    BY <1>2, <2>4, UpdateSession DEF ReplyToOwner
<1> QED
  BY <1>1, <1>2

\* finish_transaction and fail_epoch only set what they set.
LEMMA FinishType ==
  ASSUME NEW n \in Nat, NEW e \in State(n)
  PROVE  Finish(e) \in State(n) /\ Fail(e) \in State(n)
BY NoTransactionType DEF Finish, Fail, State

\* What follows the terminating reply.
LEMMA AfterCommandType ==
  ASSUME NEW n \in Nat, NEW e \in State(n), e.active.owner # 0
  PROVE  AfterCommand(e) \in State(n)
<1>1. e.active \in Transaction
  BY DEF State, Transactions
<1>2. [e.active EXCEPT !.step = "restore"] \in Transactions
  BY <1>1 DEF Transactions, Transaction, Steps, PopShape
<1>3. [e.active EXCEPT !.step = "result"] \in Transactions
  BY <1>1 DEF Transactions, Transaction, Steps, PopShape
<1>4. [e EXCEPT !.active.step = "result"] \in State(n)
  BY <1>3 DEF State
<1>5. SetScope(DefaultScope) \in Command
  BY CommandTypes DEF DefaultScope
<1> QED
  BY <1>2, <1>4, <1>5, SendUpstreamType, FinishType DEF AfterCommand

\* Neither of the two touches the transaction.
LEMMA OwnerKept ==
  ASSUME NEW n \in Nat, NEW e \in State(n), NEW command, NEW f
  PROVE  /\ RecordAcceptance(e, command, f).active = e.active
         /\ ReplyToOwner(e, f).active = e.active
BY DEF RecordAcceptance, ReplyToOwner, State

\* transaction_response for a client's command.
LEMMA CommandResponseType ==
  ASSUME NEW n \in Nat, NEW e \in State(n), NEW f \in Frames,
         e.active.owner # 0
  PROVE  CommandResponse(e, f) \in State(n)
<1> DEFINE x == ReplyToOwner(e, f)
           y == RecordAcceptance(x, e.active.command, f)
<1>1. x \in State(n) /\ x.active = e.active
  BY ReplyToOwnerType, OwnerKept
<1>2. e.active.command \in Command
  BY DEF State, Transactions, Transaction
<1>3. y \in State(n) /\ y.active = e.active
  BY <1>1, <1>2, RecordAcceptanceType, OwnerKept
<1>4. AfterCommand(y) \in State(n)
  BY <1>3, AfterCommandType
<1>5. [x.active EXCEPT !.contacts_started = TRUE] \in Transactions
  BY <1>1 DEF State, Transactions, Transaction, PopShape
<1>6. [x EXCEPT !.active.contacts_started = TRUE] \in State(n)
  BY <1>1, <1>5 DEF State
<1> QED
  BY <1>4, <1>6 DEF CommandResponse

\* scope_response.
LEMMA ScopeResponseType ==
  ASSUME NEW n \in Nat, NEW e \in State(n), NEW f,
         e.active.step \in {"setup", "restore"}
  PROVE  ScopeResponse(e, f) \in State(n)
<1> DEFINE tx == e.active
           refused == IF tx.owner \in DOMAIN e.sessions
                      THEN [e EXCEPT !.sessions[tx.owner] =
                              Reply(e.sessions[tx.owner], "frame")]
                      ELSE e
           dropped == [refused EXCEPT
                         !.remote = IF tx.command.op \in RemoteLease
                                    THEN NoRemote ELSE e.remote]
<1>1. tx \in Transaction /\ tx.owner # 0
  BY DEF State, Transactions, PopShape
<1>2. SendCommand(e, tx) \in State(n)
  BY <1>1, SendCommandType
<1>3. refused \in State(n)
  <2>1. \A s \in DOMAIN e.sessions : e.sessions[s] \in Session
    BY TableType DEF State
  <2>2. \A s \in DOMAIN e.sessions :
          Reply(e.sessions[s], "frame") \in Session
    BY <2>1, ReplyType DEF WriteKinds
  <2> QED
    BY <2>2, UpdateSession
<1>4. NoRemote \in Remote /\ e.remote \in Remote
  BY LeaseTypes DEF State
<1>5. dropped \in State(n)
  BY <1>3, <1>4 DEF State
<1> QED
  BY <1>2, <1>5, FinishType DEF ScopeResponse

\* What the reply shows of its write.
LEMMA WriteIsOverType ==
  ASSUME TypeInv
  PROVE  /\ WriteIsOver \in State(next_session)
         /\ WriteIsOver.active = [active EXCEPT !.write = 0]
<1>1. Now \in State(next_session)
  BY NowType DEF TypeInv, TypeOK
<1>2. [active EXCEPT !.write = 0] \in Transactions
  BY DEF TypeInv, TypeOK, Transactions, Transaction, PopShape
<1>3. upstream_writes \ {active.write} \in SUBSET Nat
  BY DEF TypeInv, TypeOK
<1> QED
  BY <1>1, <1>2, <1>3 DEF State, Now, WriteIsOver

\* transaction_response, all cases.
LEMMA TransactionResponseType ==
  ASSUME TypeInv, NEW f \in Frames
  PROVE  TransactionResponse(f) \in State(next_session)
<1> DEFINE n == next_session
           e == WriteIsOver
<1>1. n \in Nat
  BY DEF TypeInv, TypeOK
<1>4. e \in State(n) /\ e.active = [active EXCEPT !.write = 0]
  BY WriteIsOverType
<1>5. active \in Transaction /\ PopShape(active)
  BY DEF TypeInv, TypeOK
<1>6. e.active.step = active.step /\ e.active.owner = active.owner
  BY <1>4, <1>5 DEF Transaction
<1>7. CASE active.step \in {"setup", "restore"}
  <2>1. e \in State(n) /\ e.active.step \in {"setup", "restore"}
    BY <1>4, <1>6, <1>7
  <2> HIDE DEF e, n
  <2>2. ScopeResponse(e, f) \in State(n)
    BY <1>1, <2>1, ScopeResponseType
  <2> QED
    BY <1>7, <2>2 DEF TransactionResponse, e, n
<1>8. CASE active.step = "command" /\ active.owner = 0
  <2>1. active.command = Sync /\ active.contacts_started \in BOOLEAN
    BY <1>5, <1>8 DEF PopShape, Transaction
  <2>2. ValidResponse(active.command, active.contacts_started, f)
          => f.code \in {"err", "message", "no_more_messages"}
    BY <2>1, SyncReplies
  <2>3. Finish(e) \in State(n) /\ Fail(e) \in State(n)
    BY <1>1, <1>4, FinishType
  <2>4. f.code \in {"message", "no_more_messages"} =>
          PopResult(Finish(e), active, f) \in State(n)
    BY <1>1, <1>5, <2>3, PopResultType
  <2> QED
    BY <1>8, <2>2, <2>3, <2>4 DEF TransactionResponse
<1>9. CASE active.step = "command" /\ active.owner # 0
  <2>1. CommandResponse(e, f) \in State(n) /\ Fail(e) \in State(n)
    BY <1>1, <1>4, <1>6, <1>9, CommandResponseType, FinishType
  <2> QED
    BY <1>9, <2>1 DEF TransactionResponse
<1>10. CASE active.step \in {"none", "result"}
  BY <1>1, <1>4, <1>10, FinishType DEF TransactionResponse
<1> QED
  BY <1>5, <1>7, <1>8, <1>9, <1>10 DEF Transaction, Steps

\* A set of numbers with an element has a least one.
LEMMA Least ==
  ASSUME NEW T \in SUBSET Nat, T # {}
  PROVE  \E x \in T : \A y \in T : x <= y
<1> DEFINE R == {p \in Nat \X Nat : p[1] < p[2]}
<1>1. OpToRel(<, Nat) = R
  BY DEF OpToRel
<1>2. IsWellFoundedOn(R, Nat)
  BY <1>1, NatLessThanWellFounded
<1>3. PICK x \in T : \A y \in T : <<y, x>> \notin R
  BY <1>2, WFMin
<1>4. ASSUME NEW y \in T PROVE x <= y
  <2>1. x \in Nat /\ y \in Nat
    OBVIOUS
  <2>2. ~ (y < x)
    BY <1>3, <2>1
  <2> QED
    BY <2>1, <2>2
<1> QED
  BY <1>4

\* The k-th member of a finite set of numbers.
LEMMA Ranked ==
  ASSUME NEW m \in Nat, NEW kept \in SUBSET (1 .. m),
         NEW k \in 1 .. Cardinality(kept)
  PROVE  \E i \in kept : Cardinality({j \in kept : j < i}) = k - 1
<1> DEFINE Below(i) == {j \in kept : j < i}
           T == {i \in Nat : Cardinality(Below(i)) >= k}
<1>0. \A j \in kept : j \in Nat /\ 1 <= j /\ j <= m
  OBVIOUS
<1>1. IsFiniteSet(kept) /\ Cardinality(kept) \in Nat
  <2>1. IsFiniteSet(1 .. m)
    BY FS_Interval
  <2> QED
    BY <2>1, FS_Subset, FS_CardinalityType
<1>2. \A i : IsFiniteSet(Below(i)) /\ Cardinality(Below(i)) \in Nat
  BY <1>1, FS_Subset, FS_CardinalityType
<1>3. m + 1 \in T
  <2>0. \A j \in kept : j < m + 1
    BY <1>0
  <2>1. Below(m + 1) = kept
    BY <2>0
  <2> QED
    BY <1>1, <2>1
<1>4. PICK i \in T : \A y \in T : i <= y
  BY <1>3, Least
<1>5. Below(0) = {}
  <2>1. \A j \in kept : ~ (j < 0)
    BY <1>0
  <2> QED
    BY <2>1
<1>6. Cardinality(Below(0)) = 0
  BY <1>5, FS_EmptySet
<1>7. i # 0
  BY <1>6
<1>8. i \in Nat /\ i - 1 \in Nat /\ i - 1 \notin T
  BY <1>4, <1>7
<1>9. Cardinality(Below(i)) >= k /\ Cardinality(Below(i - 1)) < k
  <2>1. Cardinality(Below(i)) >= k
    OBVIOUS
  <2>2. ~ (Cardinality(Below(i - 1)) >= k)
    BY <1>8
  <2>3. Cardinality(Below(i - 1)) \in Nat
    BY <1>2
  <2> HIDE DEF Below
  <2> QED
    BY <2>1, <2>2, <2>3
<1>10. \A j \in kept : j < i <=> (j < i - 1 \/ j = i - 1)
  BY <1>0, <1>8
<1>11. i - 1 \in kept
  <2>1. i - 1 \notin kept => Below(i) = Below(i - 1)
    BY <1>10
  <2> HIDE DEF Below
  <2> QED
    BY <1>2, <1>9, <2>1
<1>12. Below(i) = Below(i - 1) \cup {i - 1} /\ i - 1 \notin Below(i - 1)
  BY <1>8, <1>10, <1>11
<1>13. Cardinality(Below(i)) = Cardinality(Below(i - 1)) + 1
  <2> HIDE DEF Below
  <2> QED
    BY <1>2, <1>12, FS_AddElement
<1>14. Cardinality(Below(i - 1)) = k - 1
  <2> HIDE DEF Below
  <2> QED
    BY <1>2, <1>9, <1>13
<1> QED
  BY <1>11, <1>14
\* Removing sessions from the round robin leaves a sequence of ids.
LEMMA WithoutType ==
  ASSUME NEW queue \in Seq(Nat), NEW left
  PROVE  Without(queue, left) \in Seq(Nat)
<1> DEFINE kept == {i \in DOMAIN queue : queue[i] \in left \cup {0}}
           Position(k) ==
             CHOOSE i \in kept : Cardinality({j \in kept : j < i}) = k - 1
<1>1. Len(queue) \in Nat /\ kept \in SUBSET (1 .. Len(queue))
  OBVIOUS
<1>2. Cardinality(kept) \in Nat
  <2>1. IsFiniteSet(1 .. Len(queue))
    BY <1>1, FS_Interval
  <2> QED
    BY <1>1, <2>1, FS_Subset, FS_CardinalityType
<1>3. ASSUME NEW k \in 1 .. Cardinality(kept)
      PROVE  queue[Position(k)] \in Nat
  <2>1. Position(k) \in kept
    BY <1>1, Ranked
  <2> QED
    BY <2>1
<1> HIDE DEF Position
<1>4. [k \in 1 .. Cardinality(kept) |-> queue[Position(k)]] \in Seq(Nat)
  BY <1>2, <1>3, IsASeq
<1> QED
  BY <1>4 DEF Without, Position

\* Writing to every session.
LEMMA EmitAllType ==
  ASSUME NEW n \in Nat, NEW table \in SessionTables(n)
  PROVE  /\ EmitAll(table, "frame") \in SessionTables(n)
         /\ HintAll(table) \in SessionTables(n)
<1>1. \A s \in DOMAIN table : table[s] \in Session
  BY TableType
<1>2. \A s \in DOMAIN table :
        Emit(table[s], "frame") \in Session /\ Hint(table[s]) \in Session
  BY <1>1, EmitType, HintType DEF WriteKinds
<1>3. EmitAll(table, "frame") \in SessionTables(n)
  BY <1>2, NewTable DEF EmitAll
<1>4. HintAll(table) \in SessionTables(n)
  BY <1>2, NewTable DEF HintAll
<1> QED
  BY <1>3, <1>4

\* push, all cases.
LEMMA PushType ==
  ASSUME TypeInv, NEW f \in Frames
  PROVE  Push(f) \in State(next_session)
<1> DEFINE n == next_session
<1>1. n \in Nat /\ Now \in State(n) /\ sessions \in SessionTables(n)
  BY NowType, TableType DEF TypeInv, TypeOK
<1>2. /\ EmitAll(sessions, "frame") \in SessionTables(n)
      /\ HintAll(sessions) \in SessionTables(n)
  BY <1>1, EmitAllType
<1>3. f.arg \in Nat
  BY FrameType
<1>4. AvailabilityHint \in State(n)
  <2>1. generation + 1 \in Nat
    BY DEF TypeInv, TypeOK
  <2>2. [drain EXCEPT !.requested = drain.requested \/ drain.authorized]
          \in [requested : BOOLEAN, authorized : BOOLEAN]
    BY DEF TypeInv, TypeOK
  <2>3. Now.drain = drain
    BY DEF Now
  <2> QED
    BY <1>1, <1>2, <2>1, <2>2, <2>3 DEF AvailabilityHint, State
<1>5. [Now EXCEPT !.sessions = EmitAll(sessions, "frame")] \in State(n)
  BY <1>1, <1>2 DEF State
<1>6. [Now EXCEPT !.dm_ring = DmConfirm(dm_ring, f.arg),
                  !.sessions = EmitAll(sessions, "frame")] \in State(n)
  <2>1. DmConfirm(dm_ring, f.arg) \in DmRing
    BY <1>3, LeaseTypes DEF TypeInv, TypeOK
  <2> QED
    BY <1>1, <1>2, <2>1 DEF State
<1>7. RemoteResult(f) \in State(n)
  <2> DEFINE x == [Now EXCEPT !.remote = NoRemote]
  <2>1. x \in State(n) /\ x.sessions = sessions
    BY <1>1, LeaseTypes DEF State, Now
  <2>2. \A s \in DOMAIN sessions : Emit(sessions[s], "frame") \in Session
    BY <1>1, TableType, EmitType DEF WriteKinds
  <2>3. \A s \in DOMAIN sessions :
          [x EXCEPT !.sessions[s] = Emit(sessions[s], "frame")] \in State(n)
    BY <1>1, <2>1, <2>2, UpdateSession
  <2>4. \A s : [x EXCEPT !.sessions[s] = Emit(sessions[s], "frame")]
              = [Now EXCEPT !.remote = NoRemote,
                            !.sessions[s] = Emit(sessions[s], "frame")]
    OBVIOUS
  <2> QED
    BY <1>1, <2>1, <2>3, <2>4 DEF RemoteResult
<1> QED
  BY <1>4, <1>5, <1>6, <1>7, TransactionResponseType DEF Push

\* Detaching sessions from slots.
LEMMA DetachType ==
  ASSUME NEW table \in [Slots -> Slot], NEW left
  PROVE  Detach(table, left) \in [Slots -> Slot]
BY DEF Detach, Slot

\* However a handler ends, what it leaves behind is well typed.
LEMMA CommitType ==
  ASSUME NEW n \in Nat, NEW e, e \in State(n), Commit(e), failed \in BOOLEAN,
         next_session' = n, phase' \in {"idle", "local", "turn"},
         turns' \in Nat
  PROVE  TypeInv'
<1> DEFINE left == Survivors(e)
<1>0. NextState(e)
  BY DEF Commit
<1>1. \A s \in left : s \in 1 .. n /\ e.sessions[s] \in Session
  BY TableType DEF Survivors, State
<1>2. /\ pop_sequence' \in Nat
      /\ generation' \in Nat
      /\ orphan' \in Items \cup {0}
      /\ seen' \in Seq(Nat)
      /\ dm_ring' \in DmRing
      /\ next_write' \in Nat
      /\ outgoing' \in Seq(Write)
  BY <1>0 DEF NextState, State
<1>3. e.remote \in Remote /\ e.signing \in SigningState
      /\ e.slots \in [Slots -> Slot] /\ e.order \in Seq(Nat)
      /\ e.active \in Transactions /\ e.debt \in Transactions
      /\ e.uncertain \in Uncertain /\ e.upstream_writes \subseteq Nat
      /\ e.drain \in [requested : BOOLEAN, authorized : BOOLEAN]
  BY DEF State
<1>4. NoDrain \in [requested : BOOLEAN, authorized : BOOLEAN]
  BY DEF NoDrain
<1>5. \A x : SigningOwnerGone(e, x) \in SigningState
  BY <1>3 DEF SigningOwnerGone, NoSigning, SigningState
<1>6. CASE EpochEnds(e)
  <2>1. FailEpoch(e)
    BY <1>0, <1>6 DEF NextState
  <2>2. /\ sessions' \in [DOMAIN sessions' -> Session]
        /\ DOMAIN sessions' \subseteq 1 .. n
    BY <2>1 DEF FailEpoch
  <2>3. order' \in Seq(Nat) /\ upstream_writes' \subseteq Nat /\ failed' = TRUE
    BY <2>1 DEF FailEpoch
  <2>4. slots' \in [Slots -> Slot]
    BY <2>1, <1>3, DetachType DEF FailEpoch
  <2>5. /\ active' \in Transaction /\ PopShape(active')
        /\ debt' \in Transaction /\ PopShape(debt')
    BY <2>1, <1>3, NoTransactionType DEF FailEpoch, Transactions
  <2>6. remote' \in Remote
    <3>1. UncertainRemote(e.active, e.remote) \in Remote
      BY <1>3 DEF UncertainRemote, AcceptanceUnknown, NoRemote, Remote
    <3> QED
      BY <2>1, <3>1 DEF FailEpoch
  <2>7. uncertain' \in Uncertain
    <3>1. Quarantine(e.uncertain, PlainDm(e.active.command)) \in Uncertain
      BY <1>3 DEF Quarantine, Uncertain, PlainDm
    <3> QED
      BY <2>1, <1>3, <3>1 DEF FailEpoch
  <2>8. signing' \in SigningState
        /\ drain' \in [requested : BOOLEAN, authorized : BOOLEAN]
    BY <2>1, <1>4, <1>5 DEF FailEpoch
  <2> QED
    BY <1>2, <2>2, <2>3, <2>4, <2>5, <2>6, <2>7, <2>8 DEF TypeInv, TypeOK, Write
<1>7. CASE ~ EpochEnds(e)
  <2>1. Continue(e, left)
    BY <1>0, <1>7 DEF NextState
  <2>2. /\ sessions' \in [DOMAIN sessions' -> Session]
        /\ DOMAIN sessions' \subseteq 1 .. n
    BY <2>1, <1>1 DEF Continue
  <2>3. order' \in Seq(Nat) /\ slots' \in [Slots -> Slot]
    BY <2>1, <1>3, WithoutType, DetachType DEF Continue
  <2>4. /\ active' \in Transaction /\ PopShape(active')
        /\ debt' \in Transaction /\ PopShape(debt')
    BY <2>1, <1>3 DEF Continue, Transactions
  <2>5. remote' \in Remote
    BY <2>1, <1>3 DEF Continue, RemoteOwnerGone, Remote
  <2>6. /\ signing' \in SigningState
        /\ drain' \in [requested : BOOLEAN, authorized : BOOLEAN]
        /\ uncertain' \in Uncertain
        /\ upstream_writes' \subseteq Nat
        /\ failed' \in BOOLEAN
    BY <2>1, <1>3, <1>4, <1>5 DEF Continue
  <2> QED
    BY <1>2, <2>2, <2>3, <2>4, <2>5, <2>6 DEF TypeInv, TypeOK, Write
<1> QED
  BY <1>6, <1>7

-----------------------------------------------------------------------------
(* One lemma per handler *)

\* A handler whose result is well-typed leaves a well-typed state.
LEMMA HandlerType ==
  ASSUME TypeInv, NEW n \in Nat, NEW e, e \in State(n), CommitAndSchedule(e),
         next_session' = n
  PROVE  TypeInv'
<1>1. Commit(e) /\ phase' \in {"idle", "local", "turn"} /\ turns' \in Nat
  BY DEF CommitAndSchedule, TypeInv, TypeOK
<1>2. failed \in BOOLEAN
  BY DEF TypeInv, TypeOK
<1> QED
  BY <1>1, <1>2, CommitType

\* What a handler may do to the state without a lemma of its own.
LEMMA SmallChanges ==
  ASSUME NEW n \in Nat, NEW e \in State(n)
  PROVE  /\ \A gone \in SUBSET Nat : [e EXCEPT !.closed = gone] \in State(n)
         /\ \A queue \in Seq(Nat) : [e EXCEPT !.order = queue] \in State(n)
         /\ [e EXCEPT !.debt = NoTransaction] \in State(n)
BY NoTransactionType DEF State

\* The session that admit makes.
LEMMA NewSessionType ==
  ASSUME NEW d \in Slots \cup {0}
  PROVE  NewSession(d) \in Session
BY DEF NewSession, Session, DefaultScope

\* admit.
LEMMA AdmitType ==
  ASSUME TypeInv, NEW d \in Slots \cup {0}, Admit(d)
  PROVE  TypeInv'
<1> DEFINE id == next_session + 1
           old == IF d = 0 THEN 0 ELSE slots[d].attached
           others == DOMAIN sessions \ {old}
           given == IF TakesOrphan(d) THEN <<orphan>> ELSE <<>>
           new == Hint([NewSession(d) EXCEPT !.inbox = given])
           table == [s \in others \cup {id} |->
                       IF s = id THEN new ELSE sessions[s]]
           attached == [x \in Slots |->
                          IF x = d THEN [slots[x] EXCEPT !.attached = id]
                          ELSE slots[x]]
           e == [Now EXCEPT
                   !.sessions = table,
                   !.order = Append(order, id),
                   !.slots = attached,
                   !.orphan = IF TakesOrphan(d) THEN 0 ELSE orphan,
                   !.drain = IF others = {} THEN NoDrain ELSE drain]
<1> USE DEF TypeInv
<1>1. id \in Nat /\ 1 .. next_session \subseteq 1 .. id /\ id \in 1 .. id
      /\ next_session' = id
  BY DEF TypeOK, Admit
<1>2. CASE InMaintenance(active)
  <2>1. UNCHANGED <<sessions, order, active, debt, failed, drain, pop_sequence,
                    generation, orphan, slots, seen, remote, dm_ring,
                    uncertain, signing, next_write, upstream_writes, outgoing,
                    phase, turns>>
    BY <1>2 DEF Admit
  <2> QED
    BY <1>1, <2>1 DEF TypeOK, PopShape
<1>3. CASE ~ InMaintenance(active)
  <2>1. given \in Seq(Items)
    BY DEF TakesOrphan, TypeOK
  <2>2. new \in Session
    <3> HIDE DEF given
    <3>1. NewSession(d) \in Session
      BY NewSessionType
    <3>2. \A session \in Session :
            [session EXCEPT !.inbox = given] \in Session
      BY <2>1 DEF Session
    <3> QED
      BY <3>1, <3>2, HintType
  <2>3. table \in SessionTables(id)
    <3>1. DOMAIN table \subseteq 1 .. id
      BY <1>1 DEF TypeOK
    <3>2. \A s \in DOMAIN table : table[s] \in Session
      BY <2>2 DEF TypeOK
    <3> QED
      BY <1>1, <3>1, <3>2, TableType
  <2>4. attached \in [Slots -> Slot]
    BY <1>1 DEF TypeOK, Slot
  <2>5. Append(order, id) \in Seq(Nat)
    BY <1>1 DEF TypeOK
  <2>6. NoDrain \in [requested : BOOLEAN, authorized : BOOLEAN]
    BY DEF NoDrain
  <2>7. e \in State(id)
    <3>1. Now \in State(next_session)
      BY NowType
    <3> HIDE DEF table, attached, id
    <3> QED
      BY <2>3, <2>4, <2>5, <2>6, <3>1 DEF State, TypeOK
  <2>8. CommitAndSchedule(e)
    BY <1>3 DEF Admit
  <2> QED
    BY <1>1, <2>7, <2>8, HandlerType
<1> QED
  BY <1>2, <1>3

\* client_frame.
LEMMA ClientFrameType ==
  ASSUME TypeInv, NEW s, NEW command \in Commands, ClientFrame(s, command)
  PROVE  TypeInv'
<1> DEFINE session == sessions[s]
           queued == [session EXCEPT
                        !.commands = Append(session.commands, command),
                        !.owed = Append(session.owed, command)]
<1>1. command \in Command
  BY BrokerAssumption DEF Command
<1>2. s \in DOMAIN sessions /\ s \in Nat /\ session \in Session
  BY DEF ClientFrame, TypeInv, TypeOK
<1>3. /\ Append(session.commands, command) \in Seq(Command)
      /\ Append(session.owed, command) \in Seq(Command)
  BY <1>1, <1>2 DEF Session
<1>4. queued \in Session
  BY <1>2, <1>3 DEF Session
<1>5. next_session \in Nat /\ Now \in State(next_session)
      /\ Now.sessions = sessions
  BY NowType DEF TypeInv, TypeOK, Now
<1>6. /\ [Now EXCEPT !.closed = {s}] \in State(next_session)
      /\ [Now EXCEPT !.sessions[s] = queued] \in State(next_session)
  BY <1>2, <1>4, <1>5, UpdateSession, SmallChanges
<1>7. next_session' = next_session
  BY DEF ClientFrame
<1>8. \/ CommitAndSchedule([Now EXCEPT !.closed = {s}])
      \/ CommitAndSchedule([Now EXCEPT !.sessions[s] = queued])
  BY DEF ClientFrame
<1> QED
  BY <1>5, <1>6, <1>7, <1>8, HandlerType

\* client_closed.
LEMMA ClientClosedType ==
  ASSUME TypeInv, NEW s, ClientClosed(s)
  PROVE  TypeInv'
<1>1. next_session \in Nat /\ Now \in State(next_session)
      /\ next_session' = next_session /\ s \in Nat
  BY NowType DEF TypeInv, TypeOK, ClientClosed
<1>2. [Now EXCEPT !.closed = {s}] \in State(next_session)
  BY <1>1, SmallChanges
<1> QED
  BY <1>1, <1>2, HandlerType DEF ClientClosed

\* written, for a client's frame.
LEMMA WrittenType ==
  ASSUME TypeInv, NEW s, Written(s)
  PROVE  TypeInv'
<1> DEFINE e == [Now EXCEPT !.sessions[s].writes = Tail(sessions[s].writes)]
<1>1. next_session \in Nat /\ Now \in State(next_session)
      /\ Now.sessions = sessions /\ next_session' = next_session
  BY NowType DEF TypeInv, TypeOK, Written, Now
<1>2. s \in DOMAIN sessions /\ sessions[s] \in Session
      /\ sessions[s].writes # <<>>
  BY DEF TypeInv, TypeOK, Written
<1>3. Tail(sessions[s].writes) \in Seq(WriteKinds)
  BY <1>2 DEF Session
<1>4. [sessions[s] EXCEPT !.writes = Tail(sessions[s].writes)] \in Session
  BY <1>2, <1>3 DEF Session
<1>5. e \in State(next_session)
  BY <1>1, <1>2, <1>4, UpdateSession
<1>6. Fail(Finish(e)) \in State(next_session)
  BY <1>1, <1>5, FinishType
<1>7. CommitAndSchedule(e) \/ CommitAndSchedule(Fail(Finish(e)))
  BY DEF Written
<1> QED
  BY <1>1, <1>5, <1>6, <1>7, HandlerType

\* Every handler that only ends the epoch.
LEMMA EpochEndType ==
  ASSUME TypeInv, CommitAndSchedule(Fail(Now)), UNCHANGED next_session
  PROVE  TypeInv'
<1>1. next_session \in Nat /\ Now \in State(next_session)
  BY NowType DEF TypeInv, TypeOK
<1>2. Fail(Now) \in State(next_session)
  BY <1>1, FinishType
<1> QED
  BY <1>1, <1>2, HandlerType

\* write_failed.
LEMMA WriteFailedType ==
  ASSUME TypeInv, NEW id, WriteFailed(id)
  PROVE  TypeInv'
<1>1. next_session \in Nat /\ Now \in State(next_session)
      /\ next_session' = next_session
  BY NowType DEF TypeInv, TypeOK, WriteFailed
<1>2. id \in Nat
  BY DEF TypeInv, TypeOK, WriteFailed
<1>3. [Now EXCEPT !.closed = {id}] \in State(next_session)
  BY <1>1, <1>2, SmallChanges
<1>4. \/ CommitAndSchedule(Fail(Now))
      \/ CommitAndSchedule([Now EXCEPT !.closed = {id}])
  BY DEF WriteFailed
<1> QED
  BY <1>1, <1>3, <1>4, EpochEndType, HandlerType

\* written, for an upstream frame.
LEMMA UpstreamWrittenType ==
  ASSUME TypeInv, NEW w, UpstreamWritten(w)
  PROVE  TypeInv'
<1> DEFINE write == IF AwaitsWrite(w) THEN 0 ELSE active.write
           e == [Now EXCEPT !.upstream_writes = upstream_writes \ {w},
                            !.active.write = write]
<1>1. next_session \in Nat /\ Now \in State(next_session)
      /\ Now.active = active /\ next_session' = next_session
  BY NowType DEF TypeInv, TypeOK, UpstreamWritten, Now
<1>2. active \in Transaction /\ PopShape(active)
  BY DEF TypeInv, TypeOK
<1>3. write \in Nat
  BY <1>2 DEF Transaction
<1> HIDE DEF write
<1>4. [active EXCEPT !.write = write] \in Transactions
  BY <1>2, <1>3 DEF Transactions, Transaction, PopShape
<1>5. upstream_writes \ {w} \in SUBSET Nat
  BY DEF TypeInv, TypeOK
<1>6. e \in State(next_session)
  BY <1>1, <1>4, <1>5 DEF State
<1>7. CommitAndSchedule(e)
  BY DEF UpstreamWritten, write
<1> QED
  BY <1>1, <1>6, <1>7, HandlerType

\* upstream_frame.
LEMMA UpstreamFrameType ==
  ASSUME TypeInv, NEW f \in Frames, UpstreamFrame(f)
  PROVE  TypeInv'
<1>1. next_session \in Nat /\ next_session' = next_session
  BY DEF TypeInv, TypeOK, UpstreamFrame
<1>2. \/ CommitAndSchedule(Fail(Now))
      \/ CommitAndSchedule(Push(f))
      \/ CommitAndSchedule(TransactionResponse(f))
  BY DEF UpstreamFrame
<1>3. /\ Push(f) \in State(next_session)
      /\ TransactionResponse(f) \in State(next_session)
  BY PushType, TransactionResponseType
<1> QED
  BY <1>1, <1>2, <1>3, EpochEndType, HandlerType

\* tick.
LEMMA TickType ==
  ASSUME TypeInv, NEW stuck, NEW late, NEW expired, NEW poll,
         Tick(stuck, late, expired, poll)
  PROVE  TypeInv'
<1> DEFINE table == [s \in DOMAIN sessions |->
                       IF s \in late
                       THEN [Reply(sessions[s], "frame") EXCEPT !.sync = 0]
                       ELSE sessions[s]]
           shown == IF poll THEN HintAll(table) ELSE table
           lease == IF "remote" \in expired THEN NoRemote ELSE remote
           signed == IF "signing" \in expired THEN NoSigning ELSE signing
           e == [Now EXCEPT !.closed = stuck, !.sessions = shown,
                            !.remote = lease, !.signing = signed]
<1>1. next_session \in Nat /\ Now \in State(next_session)
      /\ next_session' = next_session
  BY NowType DEF TypeInv, TypeOK, Tick
<1>2. sessions \in SessionTables(next_session)
  BY <1>1, TableType DEF TypeInv, TypeOK
<1>3. \A s \in DOMAIN sessions : table[s] \in Session
  BY <1>1, <1>2, TableType, AnsweredType
<1>4. table \in SessionTables(next_session)
  BY <1>1, <1>2, <1>3, NewTable
<1>5. shown \in SessionTables(next_session)
  BY <1>1, <1>4, EmitAllType
<1>6. lease \in Remote
  BY DEF TypeInv, TypeOK, NoRemote, Remote
<1>7. signed \in SigningState
  BY DEF TypeInv, TypeOK, NoSigning, SigningState
<1>8. stuck \in SUBSET Nat
  BY DEF Tick, TypeInv, TypeOK
<1> HIDE DEF shown, lease, signed
<1>9. e \in State(next_session)
  BY <1>1, <1>5, <1>6, <1>7, <1>8 DEF State
<1>10. CommitAndSchedule(e)
  BY DEF Tick, shown, lease, signed
<1> QED
  BY <1>1, <1>9, <1>10, HandlerType

\* The deadlines of the radio state.
LEMMA DeadlineType ==
  ASSUME TypeInv,
         (\E i \in RingSlots : DmDeadline(i)) \/ QuarantineDeadline
  PROVE  TypeInv'
<1> USE DEF TypeInv, PopShape
<1>1. ASSUME NEW i \in RingSlots, DmDeadline(i)
      PROVE  TypeInv'
  <2>1. dm_ring' \in DmRing
    <3>1. [dm_ring.slots[i] EXCEPT !.state = "elapsed"] \in Entry
      BY DEF TypeOK, DmRing, Entry, EntryStates
    <3>2. [dm_ring.slots EXCEPT ![i] = [dm_ring.slots[i] EXCEPT
                                          !.state = "elapsed"]]
            \in [RingSlots -> Entry]
      BY <3>1 DEF TypeOK, DmRing
    <3> QED
      BY <1>1, <3>2 DEF DmDeadline, TypeOK, DmRing
  <2> QED
    BY <1>1, <2>1 DEF DmDeadline, TypeOK
<1>2. CASE QuarantineDeadline
  <2>1. uncertain' \in Uncertain
    BY <1>2 DEF QuarantineDeadline, TypeOK, Uncertain
  <2> QED
    BY <1>2, <2>1 DEF QuarantineDeadline, TypeOK
<1> QED
  BY <1>1, <1>2

\* The loops of schedule.
LEMMA LoopType ==
  ASSUME TypeInv, NEW e, e \in State(next_session), Commit(e),
         next_session' = next_session,
         phase' \in {"idle", "local", "turn"}, turns' \in Nat
  PROVE  TypeInv'
<1>1. next_session \in Nat /\ failed \in BOOLEAN
  BY DEF TypeInv, TypeOK
<1> QED
  BY <1>1, CommitType

\* Taking the oldest command from a queue.
LEMMA TailTaken ==
  ASSUME TypeInv, NEW s \in DOMAIN sessions, sessions[s].commands # <<>>
  PROVE  /\ [sessions[s] EXCEPT !.commands = Tail(sessions[s].commands)]
               \in Session
         /\ [Now EXCEPT !.sessions[s].commands = Tail(sessions[s].commands)]
               \in State(next_session)
<1>1. next_session \in Nat /\ Now \in State(next_session)
      /\ Now.sessions = sessions /\ sessions[s] \in Session
  BY NowType DEF TypeInv, TypeOK, Now
<1>2. Tail(sessions[s].commands) \in Seq(Command)
  BY CommandOf DEF TypeInv
<1>3. [sessions[s] EXCEPT !.commands = Tail(sessions[s].commands)] \in Session
  BY <1>1, <1>2 DEF Session
<1> QED
  BY <1>1, <1>3, UpdateSession

\* schedule on a sync.
LEMMA LocalSyncType ==
  ASSUME TypeInv, NEW s \in DOMAIN sessions, NEW e \in State(next_session),
         DOMAIN e.sessions = DOMAIN sessions, e.slots = slots,
         e.sessions[s].slot = sessions[s].slot,
         e.sessions[s].inbox = sessions[s].inbox
  PROVE  LocalSync(e, s) \in State(next_session)
<1> DEFINE n == next_session
           session == e.sessions[s]
           d == session.slot
<1>1. n \in Nat /\ pop_sequence + 1 \in Nat /\ generation + 1 \in Nat
  BY DEF TypeInv, TypeOK
<1>2. session \in Session /\ s \in DOMAIN e.sessions
  BY <1>1, TableType DEF State
<1>3. CASE InboxFor(s) = <<>>
  <2> DEFINE x == [e EXCEPT !.sessions[s].sync = pop_sequence + 1]
             both == [requested |-> TRUE, authorized |-> TRUE]
  <2>1. [session EXCEPT !.sync = pop_sequence + 1] \in Session
    BY <1>1, <1>2 DEF Session
  <2>2. x \in State(n)
    BY <1>1, <1>2, <2>1, UpdateSession
  <2>3. both \in [requested : BOOLEAN, authorized : BOOLEAN]
    OBVIOUS
  <2>4. [x EXCEPT !.drain = both, !.generation = generation + 1] \in State(n)
    <3> HIDE DEF x, both
    <3> QED
      BY <1>1, <2>2, <2>3 DEF State
  <2> QED
    BY <1>3, <2>4 DEF LocalSync
<1>4. CASE InboxFor(s) # <<>> /\ d = 0
  <2>1. session.inbox # <<>>
    BY <1>4 DEF InboxFor
  <2>2. DeliverInbox(session) \in Session
    BY <1>2, <2>1, DeliverInboxType
  <2>3. [e EXCEPT !.sessions[s] = DeliverInbox(session)] \in State(n)
    BY <1>1, <1>2, <2>2, UpdateSession
  <2> QED
    BY <1>4, <2>3 DEF LocalSync
<1>5. CASE InboxFor(s) # <<>> /\ d # 0
  <2> DEFINE x == [e EXCEPT !.sessions[s] = DeliverSlot(session)]
             slot == e.slots[d]
  <2>1. d \in Slots /\ slot \in Slot /\ slot.queue # <<>>
    BY <1>2, <1>5 DEF Session, State, InboxFor
  <2>2. Shifted(slot, session) \in Slot /\ DeliverSlot(session) \in Session
    BY <1>2, <2>1, ShiftedType, DeliverSlotType
  <2>3. x \in State(n) /\ x.slots = e.slots
    BY <1>1, <1>2, <2>2, UpdateSession DEF State
  <2>4. [e.slots EXCEPT ![d] = Shifted(slot, session)] \in [Slots -> Slot]
    BY <2>2 DEF State
  <2>5. [x EXCEPT !.slots[d] = Shifted(slot, session)] \in State(n)
    <3> HIDE DEF x
    <3> QED
      BY <2>3, <2>4 DEF State
  <2> QED
    BY <1>5, <2>5 DEF LocalSync
<1> QED
  BY <1>3, <1>4, <1>5

\* schedule, first loop, a command answered by the broker.
LEMMA ScheduleLocalType ==
  ASSUME TypeInv, NEW s, ScheduleLocal(s)
  PROVE  TypeInv'
<1> DEFINE n == next_session
           command == Head(sessions[s].commands)
           taken == [sessions[s] EXCEPT !.commands = Tail(sessions[s].commands)]
           e == [Now EXCEPT !.sessions[s].commands = Tail(sessions[s].commands)]
<1>1. s \in DOMAIN sessions /\ sessions[s].commands # <<>>
  BY DEF ScheduleLocal, LocalReady, HeadReady
<1>2. n \in Nat /\ e \in State(n) /\ taken \in Session
  BY <1>1, TailTaken DEF TypeInv, TypeOK
<1>3. /\ e.sessions[s] = taken
      /\ DOMAIN e.sessions = DOMAIN sessions
      /\ e.slots = slots
  BY <1>1 DEF Now
<1>4. sessions[s] \in Session
  BY <1>1 DEF TypeInv, TypeOK
<1>5. taken.slot = sessions[s].slot /\ taken.inbox = sessions[s].inbox
  BY <1>4 DEF Session
<1>6. command \in Command
  BY <1>1, CommandOf DEF TypeInv
<1>7. Reply(taken, "frame") \in Session
  BY <1>2, ReplyType DEF WriteKinds
<1>8. [Reply(taken, "frame") EXCEPT !.scope = command.arg] \in Session
  BY <1>6, <1>7, CommandTypes DEF Session
<1> HIDE DEF e, taken, command, n
<1>9. LocalSync(e, s) \in State(n)
  BY <1>1, <1>2, <1>3, <1>5, LocalSyncType DEF n
<1>10. LocalEffect(e, s, command) \in State(n)
  BY <1>1, <1>2, <1>3, <1>7, <1>8, <1>9, UpdateSession DEF LocalEffect
<1>11. Commit(LocalEffect(e, s, command))
  BY DEF ScheduleLocal, e, command
<1>12. /\ next_session' = next_session
       /\ phase' \in {"idle", "local", "turn"}
       /\ turns' \in Nat
  BY DEF ScheduleLocal, TypeInv, TypeOK
<1> QED
  BY <1>10, <1>11, <1>12, LoopType DEF n

\* schedule, first loop, a command that is too old.
LEMMA ScheduleAgedType ==
  ASSUME TypeInv, NEW s, ScheduleAged(s)
  PROVE  TypeInv'
<1> DEFINE refused == [Reply(sessions[s], "frame") EXCEPT
                         !.commands = Tail(sessions[s].commands)]
<1>1. s \in DOMAIN sessions /\ sessions[s].commands # <<>>
      /\ sessions[s] \in Session
  BY DEF ScheduleAged, HeadReady, TypeInv, TypeOK
<1>2. Tail(sessions[s].commands) \in Seq(Command)
  BY <1>1, CommandOf DEF TypeInv
<1>3. Reply(sessions[s], "frame") \in Session
  BY <1>1, ReplyType DEF WriteKinds
<1>4. refused \in Session
  BY <1>2, <1>3 DEF Session
<1>5. next_session \in Nat /\ Now \in State(next_session)
      /\ Now.sessions = sessions
  BY NowType DEF TypeInv, TypeOK, Now
<1>6. [Now EXCEPT !.sessions[s] = refused] \in State(next_session)
  BY <1>1, <1>4, <1>5, UpdateSession
<1>7. Commit([Now EXCEPT !.sessions[s] = refused])
  BY DEF ScheduleAged
<1>8. /\ next_session' = next_session
      /\ phase' \in {"idle", "local", "turn"}
      /\ turns' \in Nat
  BY DEF ScheduleAged, TypeInv, TypeOK
<1> QED
  BY <1>6, <1>7, <1>8, LoopType

\* Turning the round robin keeps it a sequence of ids.
LEMMA RotatedType ==
  ASSUME order \in Seq(Nat), NEW k \in Nat, k <= Len(order)
  PROVE  Rotated(k) \in Seq(Nat)
<1>1. /\ SubSeq(order, k + 1, Len(order)) \in Seq(Nat)
      /\ SubSeq(order, 1, k) \in Seq(Nat)
  OBVIOUS
<1> QED
  BY <1>1 DEF Rotated

\* schedule, second loop, the inbox consumer's turn.
LEMMA TurnPopType ==
  ASSUME TypeInv, NEW k, TurnPop(k)
  PROVE  TypeInv'
<1> DEFINE n == next_session
           e == [Now EXCEPT !.order = Rotated(k)]
<1>1. n \in Nat /\ Now \in State(n) /\ order \in Seq(Nat)
  BY NowType DEF TypeInv, TypeOK
<1>2. k \in Nat /\ k <= Len(order)
  BY DEF TurnPop, NextTurn, TurnsLeft, TypeInv, TypeOK
<1>3. Rotated(k) \in Seq(Nat)
  BY <1>1, <1>2, RotatedType
<1>4. e \in State(n)
  BY <1>1, <1>3, SmallChanges
<1>5. DispatchPop(e) \in State(n)
  BY <1>1, <1>4, DispatchPopType
<1>6. Commit(DispatchPop(e)) /\ next_session' = n /\ phase' = "idle"
      /\ turns' = 0
  BY DEF TurnPop
<1> QED
  BY <1>5, <1>6, LoopType

\* A turn that takes a command from the queue of s.
LEMMA TurnTakenType ==
  ASSUME TypeInv, NEW k, NEW s, s # 0, NextTurn(k, s)
  PROVE  /\ s \in DOMAIN sessions
         /\ Head(sessions[s].commands) \in Command
         /\ LET e == TurnTaken(k, s, Head(sessions[s].commands))
            IN  /\ e \in State(next_session)
                /\ DOMAIN e.sessions = DOMAIN sessions
                /\ e.sessions[s] \in Session
<1> DEFINE n == next_session
           command == Head(sessions[s].commands)
           x == [Now EXCEPT !.sessions[s].commands = Tail(sessions[s].commands)]
           query == IF AsksQuarantine(command)
                    THEN AfterQuery(uncertain, dm_ring) ELSE uncertain
<1>1. s \in DOMAIN sessions /\ sessions[s].commands # <<>>
  BY DEF NextTurn, HasWork
<1>2. n \in Nat /\ order \in Seq(Nat)
  BY DEF TypeInv, TypeOK
<1>3. x \in State(n) /\ DOMAIN x.sessions = DOMAIN sessions
  BY <1>1, TailTaken DEF Now
<1>4. k \in Nat /\ k <= Len(order)
  BY DEF NextTurn, TurnsLeft, TypeInv, TypeOK
<1>5. Rotated(k) \in Seq(Nat)
  BY <1>2, <1>4, RotatedType
<1>6. query \in Uncertain
  BY DEF AfterQuery, Certain, Uncertain, TypeInv, TypeOK
<1>7. [x EXCEPT !.order = Rotated(k), !.uncertain = query] \in State(n)
  <2> HIDE DEF x, query
  <2> QED
    BY <1>3, <1>5, <1>6 DEF State
<1>8. TurnTaken(k, s, command)
        = [x EXCEPT !.order = Rotated(k), !.uncertain = query]
  BY DEF TurnTaken
<1>9. TurnTaken(k, s, command).sessions = x.sessions
  <2> HIDE DEF x, query
  <2> QED
    BY <1>3, <1>8 DEF State
<1>10. x.sessions[s] \in Session
  <2> HIDE DEF x
  <2> QED
    BY <1>1, <1>2, <1>3, TableType DEF State
<1>11. command \in Command
  BY <1>1, CommandOf DEF TypeInv
<1> QED
  BY <1>1, <1>3, <1>7, <1>8, <1>9, <1>10, <1>11

\* admit_command? reserves the leases and nothing else.
LEMMA ReservedType ==
  ASSUME TypeInv, NEW e \in State(next_session), NEW s \in Nat,
         NEW command \in Command
  PROVE  /\ Reserved(e, s, command) \in State(next_session)
         /\ Reserved(e, s, command).sessions = e.sessions
<1>1. command.op \in RemoteLease => Reserve(s, command) \in Remote
  BY CommandTypes DEF Reserve, Remote
<1>2. StartSigning(s) \in SigningState
  BY DEF StartSigning, NoSigning, SigningState
<1>3. BeginData(signing, command.arg) \in SigningState
  BY CommandTypes DEF BeginData, SigningState, TypeInv, TypeOK
<1>4. BeginFinish(signing) \in SigningState
  BY DEF BeginFinish, SigningState, TypeInv, TypeOK
<1> QED
  BY <1>1, <1>2, <1>3, <1>4 DEF Reserved, State

\* schedule, second loop, a client's command that is admitted.
LEMMA TurnDispatchType ==
  ASSUME TypeInv, NEW k, NEW s, TurnDispatch(k, s)
  PROVE  TypeInv'
<1> DEFINE n == next_session
           command == Head(sessions[s].commands)
           x == Reserved(TurnTaken(k, s, command), s, command)
<1>1. s # 0 /\ NextTurn(k, s)
  BY DEF TurnDispatch
<1>2. /\ s \in DOMAIN sessions
      /\ command \in Command
      /\ TurnTaken(k, s, command) \in State(n)
      /\ DOMAIN TurnTaken(k, s, command).sessions = DOMAIN sessions
  BY <1>1, TurnTakenType
<1>3. n \in Nat /\ s \in Nat
  BY <1>2 DEF TypeInv, TypeOK
<1> HIDE DEF command
<1>4. x \in State(n) /\ DOMAIN x.sessions = DOMAIN sessions
  BY <1>2, <1>3, ReservedType
<1>5. Dispatch(x, s, command) \in State(n)
  <2> HIDE DEF x
  <2> QED
    BY <1>2, <1>3, <1>4, DispatchType
<1>6. Commit(Dispatch(x, s, command)) /\ next_session' = n
      /\ phase' = "idle" /\ turns' = 0
  BY DEF TurnDispatch, command
<1> QED
  BY <1>5, <1>6, LoopType

\* schedule, second loop, a client's command that is refused.
LEMMA TurnRejectType ==
  ASSUME TypeInv, NEW k, NEW s, TurnReject(k, s)
  PROVE  TypeInv'
<1> DEFINE n == next_session
           e == TurnTaken(k, s, Head(sessions[s].commands))
<1>1. s # 0 /\ NextTurn(k, s)
  BY DEF TurnReject
<1>2. n \in Nat /\ e \in State(n) /\ s \in DOMAIN e.sessions
      /\ e.sessions[s] \in Session
  BY <1>1, TurnTakenType DEF TypeInv, TypeOK
<1>3. Reply(e.sessions[s], "frame") \in Session
  BY <1>2, ReplyType DEF WriteKinds
<1>4. [e EXCEPT !.sessions[s] = Reply(e.sessions[s], "frame")] \in State(n)
  <2> HIDE DEF e, n
  <2> QED
    BY <1>2, <1>3, UpdateSession
<1>5. TurnsLeft \in Nat
  BY DEF TurnsLeft, TypeInv, TypeOK
<1>6. turns' \in Nat
  BY <1>1, <1>5 DEF TurnReject, TurnsAfter, NextTurn
<1>7. Commit([e EXCEPT !.sessions[s] = Reply(e.sessions[s], "frame")])
      /\ next_session' = n /\ phase' = "turn"
  BY DEF TurnReject
<1> QED
  BY <1>4, <1>6, <1>7, LoopType

\* Steps that only move the coordinator or the writer on.
LEMMA QuietType ==
  ASSUME TypeInv, ScheduleBusy \/ TurnNone \/ TakeWrite
  PROVE  TypeInv'
<1> USE DEF TypeInv, PopShape
<1>1. CASE ScheduleBusy
  BY <1>1 DEF ScheduleBusy, TypeOK
<1>2. CASE TurnNone
  <2> DEFINE m == IF TurnsLeft < Len(order) THEN TurnsLeft ELSE Len(order)
  <2>1. order \in Seq(Nat) /\ TurnsLeft \in Nat
    BY DEF TypeOK, TurnsLeft
  <2>2. m \in Nat /\ m <= Len(order)
    BY <2>1
  <2>3. Rotated(m) \in Seq(Nat)
    BY <2>1, <2>2, RotatedType
  <2>4. order' \in Seq(Nat)
    BY <1>2, <2>3 DEF TurnNone
  <2> QED
    BY <1>2, <2>4 DEF TurnNone, TypeOK
<1>3. CASE TakeWrite
  <2>1. outgoing' \in Seq(Write)
    BY <1>3 DEF TakeWrite, TypeOK, Write
  <2> QED
    BY <1>3, <2>1 DEF TakeWrite, TypeOK, Write
<1> QED
  BY <1>1, <1>2, <1>3

\* drain_uncertain_frame.
LEMMA DrainUncertainFrameType ==
  ASSUME TypeInv, NEW f \in Frames, DrainUncertainFrame(f)
  PROVE  TypeInv'
<1> DEFINE n == next_session
           paid == [Now EXCEPT !.debt = NoTransaction]
           started == [Now EXCEPT !.debt.contacts_started = TRUE]
<1>1. n \in Nat /\ Now \in State(n) /\ Now.debt = debt
  BY NowType DEF TypeInv, TypeOK, Now
<1>2. debt \in Transaction /\ PopShape(debt)
  BY DEF TypeInv, TypeOK
<1>3. paid \in State(n)
  BY <1>1, SmallChanges
<1>4. started \in State(n)
  <2>1. [debt EXCEPT !.contacts_started = TRUE] \in Transactions
    BY <1>2 DEF Transactions, Transaction, PopShape
  <2> QED
    BY <1>1, <2>1 DEF State
<1>5. ASSUME DebtPaid(f), KeepsItem(f)
      PROVE  PopResult(paid, debt, f) \in State(n)
  <2>1. /\ debt.command = Sync
        /\ debt.contacts_started \in BOOLEAN
        /\ ValidResponse(debt.command, debt.contacts_started, f)
    BY <1>2, <1>5 DEF KeepsItem, DebtPaid, PopShape, Transaction
  <2>2. f.code \in {"err", "message", "no_more_messages"}
    BY <2>1, SyncReplies
  <2>3. f.code \in {"message", "no_more_messages"}
    BY <1>5, <2>2 DEF KeepsItem
  <2> HIDE DEF paid
  <2> QED
    BY <1>1, <1>2, <1>3, <2>3, PopResultType
<1>6. \/ Commit(Push(f))
      \/ Commit(paid)
      \/ DebtPaid(f) /\ KeepsItem(f) /\ Commit(PopResult(paid, debt, f))
      \/ Commit(started)
  BY DEF DrainUncertainFrame
<1>7. /\ next_session' = next_session
      /\ phase' \in {"idle", "local", "turn"}
      /\ turns' \in Nat
  BY DEF DrainUncertainFrame, TypeInv, TypeOK
<1> HIDE DEF paid, started
<1> QED
  BY <1>3, <1>4, <1>5, <1>6, <1>7, PushType, LoopType

\* The initial radio state is well-typed.
LEMMA EmptyLeases ==
  /\ NoRemote \in Remote
  /\ EmptyRing \in DmRing
  /\ Certain \in Uncertain
  /\ NoSigning \in SigningState
<1>1. 0 \in RingSlots
  BY DmCapacityAssumption DEF RingSlots
<1>2. EmptyRing \in DmRing
  BY <1>1 DEF EmptyRing, DmRing, Entry, EntryStates
<1> QED
  BY <1>2 DEF NoRemote, Remote, Certain, Uncertain, NoSigning, SigningState

\* So are the initial slots.
LEMMA EmptySlots == [d \in Slots |-> EmptySlot] \in [Slots -> Slot]
BY DEF EmptySlot, Slot

\* A new broker after a failed epoch.
LEMMA RestartType ==
  ASSUME TypeInv, NEW same_key, Restart(same_key)
  PROVE  TypeInv'
<1>1. /\ orphan' \in Items \cup {0}
      /\ slots' \in [Slots -> Slot]
      /\ remote' \in Remote
      /\ dm_ring' \in DmRing
      /\ uncertain' \in Uncertain
      /\ seen' \in Seq(Nat)
      /\ signing' \in SigningState
  <2>1. signing' \in SigningState
    BY EmptyLeases DEF Restart
  <2>2. CASE same_key
    BY <2>1, <2>2 DEF Restart, TypeInv, TypeOK
  <2>3. CASE ~ same_key
    BY <2>1, <2>3, EmptyLeases, EmptySlots DEF Restart
  <2> QED
    BY <2>2, <2>3
<1>2. debt' \in Transaction /\ PopShape(debt')
  BY NoTransactionType DEF Restart, Transactions
<1>3. /\ failed' \in BOOLEAN
      /\ pop_sequence' \in Nat
      /\ generation' \in Nat
      /\ next_write' \in Nat
      /\ outgoing' \in Seq(Write)
  <2>1. /\ failed' = FALSE
        /\ pop_sequence' = 0
        /\ generation' = 0
        /\ next_write' = 0
        /\ outgoing' = <<>>
    BY DEF Restart
  <2>2. <<>> \in Seq(Write)
    OBVIOUS
  <2> QED
    BY <2>1, <2>2
<1>4. UNCHANGED <<sessions, order, active, drain, upstream_writes,
                  next_session, phase, turns>>
  BY DEF Restart
<1> QED
  BY <1>1, <1>2, <1>3, <1>4 DEF TypeInv, TypeOK, PopShape, Write

\* The invariant holds at the start.
LEMMA TypeInit == Init => TypeInv
<1> SUFFICES ASSUME Init PROVE TypeInv
  OBVIOUS
<1>1. NoTransaction \in Transaction /\ PopShape(NoTransaction)
  BY NoTransactionType DEF Transactions
<1>2. /\ sessions \in [DOMAIN sessions -> Session]
      /\ DOMAIN sessions \subseteq 1 .. next_session
  BY DEF Init
<1>3. NoDrain \in [requested : BOOLEAN, authorized : BOOLEAN]
  BY DEF NoDrain
<1>4. order \in Seq(Nat) /\ outgoing \in Seq(Write) /\ seen \in Seq(Nat)
  BY DEF Init
<1>5. /\ slots \in [Slots -> Slot]
      /\ remote \in Remote
      /\ dm_ring \in DmRing
      /\ uncertain \in Uncertain
      /\ signing \in SigningState
  BY EmptyLeases, EmptySlots DEF Init
<1>6. /\ active = NoTransaction
      /\ debt = NoTransaction
      /\ drain = NoDrain
      /\ failed \in BOOLEAN
      /\ pop_sequence \in Nat
      /\ generation \in Nat
      /\ orphan \in Items \cup {0}
      /\ next_write \in Nat
      /\ upstream_writes \subseteq Nat
      /\ next_session \in Nat
      /\ phase \in {"idle", "local", "turn"}
      /\ turns \in Nat
  BY DEF Init
<1> QED
  BY <1>1, <1>2, <1>3, <1>4, <1>5, <1>6 DEF TypeInv, TypeOK, Write

\* Every step keeps the invariant.
LEMMA TypeStep == TypeInv /\ [Next]_vars => TypeInv'
<1> SUFFICES ASSUME TypeInv, [Next]_vars PROVE TypeInv'
  OBVIOUS
<1>1. CASE ScheduleStep
  BY <1>1, ScheduleLocalType, ScheduleAgedType, TurnPopType, TurnDispatchType,
     TurnRejectType, QuietType DEF ScheduleStep
<1>2. CASE ClientStep
  BY <1>2, AdmitType, ClientFrameType, ClientClosedType, WrittenType,
     WriteFailedType DEF ClientStep
<1>3. CASE UpstreamStep
  <2>1. CASE LateUpstreamFrame \/ UpstreamClosed
    BY <2>1, EpochEndType DEF LateUpstreamFrame, UpstreamClosed
  <2>2. CASE ~ (LateUpstreamFrame \/ UpstreamClosed)
    BY <1>3, <2>2, UpstreamWrittenType, UpstreamFrameType,
       DrainUncertainFrameType, QuietType, RestartType DEF UpstreamStep
  <2> QED
    BY <2>1, <2>2
<1>4. CASE ClockStep
  <2>1. CASE ResponseTimeout \/ UpstreamWriteTimeout
    BY <2>1, EpochEndType DEF ResponseTimeout, UpstreamWriteTimeout
  <2>2. CASE ~ (ResponseTimeout \/ UpstreamWriteTimeout)
    BY <1>4, <2>2, TickType, DeadlineType DEF ClockStep
  <2> QED
    BY <2>1, <2>2
<1>5. CASE UNCHANGED vars
  BY <1>5 DEF vars, TypeInv, TypeOK, PopShape
<1> QED
  BY <1>1, <1>2, <1>3, <1>4, <1>5 DEF Next

\* Every variable of the broker keeps its type, for any number of clients,
\* slots, commands and frames, through every handler of broker.cr, every
\* iteration of schedule, every failed epoch and every restart.
THEOREM TypeCorrect == Spec => []TypeOK
<1>1. TypeInv => TypeOK
  BY DEF TypeInv
<1> QED
  BY <1>1, TypeInit, TypeStep, PTL DEF Spec

-----------------------------------------------------------------------------
(* The virtual inbox *)

QueueOf(e, s) ==
  IF e.sessions[s].slot = 0 THEN e.sessions[s].inbox
  ELSE e.slots[e.sessions[s].slot].queue

PopIn(e) == e.active.step # "none" /\ e.active.owner = 0

AttachedIn(e) ==
  /\ \A d \in Slots : e.slots[d].attached # 0 =>
       /\ e.slots[d].attached \in DOMAIN e.sessions
       /\ e.sessions[e.slots[d].attached].slot = d
  /\ \A s \in DOMAIN e.sessions : e.sessions[s].slot # 0 =>
       e.slots[e.sessions[s].slot].attached = s

WaitsIn(e) ==
  \A s \in DOMAIN e.sessions : e.sessions[s].sync # 0 =>
    QueueOf(e, s) = <<>> /\ e.drain.authorized

AwakeIn(e) ==
  \A s \in DOMAIN e.sessions : e.sessions[s].sync # 0 =>
    e.drain.requested \/ PopIn(e)

Good(e) == AttachedIn(e) /\ WaitsIn(e) /\ AwakeIn(e)

\* The second loop of schedule runs only while nothing is in flight.
TurnFree == phase = "turn" => ~ Busy

InboxInv ==
  /\ SlotAttachment
  /\ SyncWaitsOnEmptyInbox
  /\ NoLostWakeup
  /\ TurnFree

\* The invariant is what Good says of the handler's first state.
LEMMA NowGood ==
  ASSUME TypeInv, InboxInv
  PROVE  Good(Now)
<1>1. AttachedIn(Now)
  BY DEF AttachedIn, Now, InboxInv, SlotAttachment
<1>2. WaitsIn(Now)
  BY DEF WaitsIn, QueueOf, Now, InboxInv, SyncWaitsOnEmptyInbox, NoLostWakeup,
     Waiting, InboxFor
<1>3. AwakeIn(Now)
  BY DEF AwakeIn, PopIn, Now, InboxInv, NoLostWakeup, Waiting, Popping, Busy
<1> QED
  BY <1>1, <1>2, <1>3 DEF Good

\* If what a handler computed is good, so is the state after the sessions it
\* closed were removed, or after the epoch failed.
LEMMA CommitGood ==
  ASSUME NEW n \in Nat, NEW e, e \in State(n), Commit(e), Good(e) \/ e.failing
  PROVE  SlotAttachment' /\ SyncWaitsOnEmptyInbox' /\ NoLostWakeup'
<1> DEFINE left == Survivors(e)
<1>0. NextState(e)
  BY DEF Commit
<1>1. CASE EpochEnds(e)
  <2>1. FailEpoch(e)
    BY <1>0, <1>1 DEF NextState
  <2>2. DOMAIN sessions' = {}
    BY <2>1 DEF FailEpoch
  <2>3. \A d \in Slots : slots'[d].attached = 0
    <3>1. \A d \in Slots : e.slots[d] \in Slot
      BY DEF State
    <3> QED
      BY <2>1, <3>1 DEF FailEpoch, Detach, Slot
  <2> QED
    BY <2>2, <2>3 DEF SlotAttachment, SyncWaitsOnEmptyInbox, NoLostWakeup,
       Waiting
<1>2. CASE ~ EpochEnds(e)
  <2>1. Continue(e, left) /\ Good(e)
    BY <1>0, <1>2 DEF NextState, EpochEnds
  <2>2. /\ left \subseteq DOMAIN e.sessions
        /\ DOMAIN sessions' = left
        /\ \A s \in left : sessions'[s] = e.sessions[s]
    BY <2>1 DEF Continue, Survivors
  <2>3. \A d \in Slots :
          /\ slots'[d].queue = e.slots[d].queue
          /\ slots'[d].attached =
               IF e.slots[d].attached \in left THEN e.slots[d].attached ELSE 0
    <3>1. \A d \in Slots : e.slots[d] \in Slot
      BY DEF State
    <3> QED
      BY <2>1, <3>1 DEF Continue, Detach, Slot
  <2>4. \A s \in left : e.sessions[s].slot \in Slots \cup {0}
    BY <2>2, TableType DEF State, Session
  <2>5. SlotAttachment'
    <3>1. ASSUME NEW d \in Slots, slots'[d].attached # 0
          PROVE  /\ slots'[d].attached \in DOMAIN sessions'
                 /\ sessions'[slots'[d].attached].slot = d
      <4>1. /\ e.slots[d].attached \in left
            /\ slots'[d].attached = e.slots[d].attached
            /\ e.slots[d].attached # 0
        BY <2>3, <3>1
      <4>2. e.sessions[e.slots[d].attached].slot = d
        BY <2>1, <4>1 DEF Good, AttachedIn
      <4> QED
        BY <2>2, <4>1, <4>2
    <3>2. ASSUME NEW s \in DOMAIN sessions', sessions'[s].slot # 0
          PROVE  slots'[sessions'[s].slot].attached = s
      <4>1. s \in left /\ sessions'[s] = e.sessions[s]
        BY <2>2
      <4>2. s \in DOMAIN e.sessions /\ e.sessions[s].slot # 0
        BY <2>2, <3>2, <4>1
      <4>3. e.slots[e.sessions[s].slot].attached = s
        BY <2>1, <4>2 DEF Good, AttachedIn
      <4>4. e.sessions[s].slot \in Slots
        BY <2>4, <4>1, <4>2
      <4> QED
        BY <2>3, <4>1, <4>3, <4>4
    <3> QED
      BY <3>1, <3>2 DEF SlotAttachment
  <2>6. SyncWaitsOnEmptyInbox'
    BY <2>1, <2>2, <2>3, <2>4
       DEF SyncWaitsOnEmptyInbox, Waiting, InboxFor, Good, WaitsIn, QueueOf
  <2>7. NoLostWakeup'
    <3> SUFFICES ASSUME NEW s \in left, sessions'[s].sync # 0
                 PROVE  drain'.authorized /\ (drain'.requested \/ Popping')
      BY <2>2 DEF NoLostWakeup, Waiting
    <3>1. drain' = e.drain /\ active' = e.active
      BY <2>1 DEF Continue
    <3>2. e.drain.authorized /\ (e.drain.requested \/ PopIn(e))
      BY <2>1, <2>2 DEF Good, WaitsIn, AwakeIn
    <3> QED
      BY <3>1, <3>2 DEF PopIn, Popping, Busy
  <2> QED
    BY <2>5, <2>6, <2>7
<1> QED
  BY <1>1, <1>2

\* A handler that starts no wait, keeps the queues of those who wait, and
\* takes away neither the authorization nor the request for a pop.
Eases(e, x) ==
  /\ DOMAIN x.sessions = DOMAIN e.sessions
  /\ \A d \in Slots : x.slots[d].attached = e.slots[d].attached
  /\ \A s \in DOMAIN e.sessions :
       /\ x.sessions[s].slot = e.sessions[s].slot
       /\ x.sessions[s].sync # 0 =>
            e.sessions[s].sync # 0 /\ QueueOf(x, s) = QueueOf(e, s)
  /\ e.drain.authorized => x.drain.authorized
  /\ e.drain.requested \/ PopIn(e) => x.drain.requested \/ PopIn(x)

\* Such a change keeps a state good.
LEMMA EasedGood ==
  ASSUME NEW n \in Nat, NEW e \in State(n), NEW x, Good(e), Eases(e, x)
  PROVE  Good(x)
<1>1. \A s \in DOMAIN e.sessions : e.sessions[s].slot \in Slots \cup {0}
  BY TableType DEF State, Session
<1>2. AttachedIn(x)
  BY <1>1 DEF Good, AttachedIn, Eases
<1>3. WaitsIn(x)
  BY DEF Good, WaitsIn, Eases
<1>4. AwakeIn(x)
  BY DEF Good, AwakeIn, Eases
<1> QED
  BY <1>2, <1>3, <1>4 DEF Good

\* Writing to a client does not touch its wait.
LEMMA WriteKeeps ==
  ASSUME NEW session \in Session, NEW kind
  PROVE  /\ Emit(session, kind).slot = session.slot
         /\ Emit(session, kind).sync = session.sync
         /\ Emit(session, kind).inbox = session.inbox
         /\ Hint(session).slot = session.slot
         /\ Hint(session).sync = session.sync
         /\ Hint(session).inbox = session.inbox
         /\ Reply(session, kind).slot = session.slot
         /\ Reply(session, kind).sync = session.sync
         /\ Reply(session, kind).inbox = session.inbox
<1>1. /\ Emit(session, kind).slot = session.slot
      /\ Emit(session, kind).sync = session.sync
      /\ Emit(session, kind).inbox = session.inbox
  BY DEF Emit, Session
<1>2. /\ Hint(session).slot = session.slot
      /\ Hint(session).sync = session.sync
      /\ Hint(session).inbox = session.inbox
  BY DEF Hint, Emit, Session
<1>3. /\ Reply(session, kind).slot = session.slot
      /\ Reply(session, kind).sync = session.sync
      /\ Reply(session, kind).inbox = session.inbox
  BY <1>1 DEF Reply, Emit, Session
<1> QED
  BY <1>1, <1>2, <1>3

-----------------------------------------------------------------------------
(* pop_result *)

\* Ending a wait leaves the session's slot.
LEMMA AnsweredKeeps ==
  ASSUME NEW session \in Session
  PROVE  LET x == [Reply(session, "frame") EXCEPT !.sync = 0]
         IN x.slot = session.slot /\ x.sync = 0
<1>1. Reply(session, "frame") \in Session
  BY ReplyType DEF WriteKinds
<1> QED
  BY <1>1, WriteKeeps DEF Session

\* NO_MORE_MESSAGES: a wait that does not end is newer work, for which the
\* next pop is requested.
LEMMA NoMoreMessagesGood ==
  ASSUME NEW n \in Nat, NEW e \in State(n), NEW tx, AttachedIn(e), WaitsIn(e)
  PROVE  Good(NoMoreMessages(e, tx))
<1> DEFINE x == NoMoreMessages(e, tx)
<1>1. \A s \in DOMAIN e.sessions : e.sessions[s] \in Session
  BY TableType DEF State
<1>2. /\ DOMAIN x.sessions = DOMAIN e.sessions
      /\ x.slots = e.slots
      /\ x.drain.requested = NewerWork(e, tx)
      /\ x.drain.authorized = NewerWork(e, tx)
      /\ \A s \in DOMAIN e.sessions : x.sessions[s] =
           IF s \in CoveredWaits(e, tx)
           THEN [Reply(e.sessions[s], "frame") EXCEPT !.sync = 0]
           ELSE e.sessions[s]
  BY DEF NoMoreMessages, State
<1> HIDE DEF x
<1>3. ASSUME NEW s \in DOMAIN e.sessions
      PROVE  /\ x.sessions[s].slot = e.sessions[s].slot
             /\ x.sessions[s].sync # 0 =>
                  /\ s \notin CoveredWaits(e, tx)
                  /\ x.sessions[s] = e.sessions[s]
  BY <1>1, <1>2, AnsweredKeeps
<1>4. ASSUME NEW s \in DOMAIN e.sessions, x.sessions[s].sync # 0
      PROVE  NewerWork(e, tx)
  BY <1>3, <1>4 DEF NewerWork
<1>5. AttachedIn(x)
  BY <1>2, <1>3 DEF AttachedIn
<1>6. WaitsIn(x)
  BY <1>2, <1>3, <1>4 DEF WaitsIn, QueueOf
<1>7. AwakeIn(x)
  BY <1>2, <1>4 DEF AwakeIn
<1> QED
  BY <1>5, <1>6, <1>7 DEF Good, x

\* An item for a session without a slot ends its wait.
LEMMA EnqueueMultiClientKeeps ==
  ASSUME NEW session \in Session, NEW item \in Items
  PROVE  LET x == EnqueueMultiClient(session, item)
         IN x.slot = session.slot /\ x.sync = 0
<1> DEFINE filled == [session EXCEPT !.inbox = Append(session.inbox, item)]
           answered == [filled EXCEPT !.sync = 0]
<1>1. session.inbox \in Seq(Items)
  BY DEF Session
<1>2. Append(session.inbox, item) \in Seq(Items)
  BY <1>1
<1>3. filled \in Session /\ filled.slot = session.slot
      /\ filled.sync = session.sync
  BY <1>2 DEF Session
<1>4. answered \in Session /\ answered.slot = session.slot /\ answered.sync = 0
  BY <1>3 DEF Session
<1>5. Reply(answered, Layout(answered.version)) \in Session
  BY <1>4, ReplyType DEF Layout, WriteKinds
<1> HIDE DEF answered, filled
<1>6. /\ DeliverInbox(answered).slot = session.slot
      /\ DeliverInbox(answered).sync = 0
  BY <1>4, <1>5, WriteKeeps DEF DeliverInbox, Session
<1>7. Hint(filled).slot = session.slot /\ Hint(filled).sync = session.sync
  BY <1>3, WriteKeeps
<1> QED
  BY <1>3, <1>6, <1>7 DEF EnqueueMultiClient, filled, answered

\* An item for a slot ends the attached session's wait, unless the slot is
\* full of items with priority and discards it.
LEMMA FanOutAttachedKeeps ==
  ASSUME NEW n \in Nat, NEW e \in State(n), NEW s \in DOMAIN e.sessions,
         e.sessions[s].slot # 0, AttachedIn(e)
  PROVE  LET x == FanOutAttached(e, s)
         IN /\ x.slot = e.sessions[s].slot
            /\ x.sync # 0 =>
                 /\ e.sessions[s].sync # 0
                 /\ Discards(e.slots[e.sessions[s].slot].queue)
<1> DEFINE session == e.sessions[s]
<1>1. session \in Session
  BY TableType DEF State
<1>2. e.slots[session.slot].attached = s
  BY DEF AttachedIn
<1>3. DeliverSlot(session) \in Session
      /\ DeliverSlot(session).slot = session.slot
  BY <1>1, DeliverSlotType, WriteKeeps DEF DeliverSlot
<1>4. [DeliverSlot(session) EXCEPT !.sync = 0].slot = session.slot
      /\ [DeliverSlot(session) EXCEPT !.sync = 0].sync = 0
  BY <1>3 DEF Session
<1>5. Hint(session).slot = session.slot /\ Hint(session).sync = session.sync
  BY <1>1, WriteKeeps
<1> QED
  BY <1>2, <1>4, <1>5 DEF FanOutAttached

\* A slot that discards the item keeps its queue, and all keep their session.
LEMMA FanOutSlotKeeps ==
  ASSUME NEW n \in Nat, NEW e \in State(n), NEW d \in Slots,
         NEW item \in Items
  PROVE  /\ FanOutSlot(e, d, item).attached = e.slots[d].attached
         /\ Discards(e.slots[d].queue) =>
              FanOutSlot(e, d, item).queue = e.slots[d].queue
<1> DEFINE slot == e.slots[d]
           queued == [slot EXCEPT !.queue = EnqueueOffline(slot.queue, item)]
<1>1. slot \in Slot
  BY DEF State
<1>2. queued \in Slot /\ queued.attached = slot.attached
      /\ queued.queue = EnqueueOffline(slot.queue, item)
  BY <1>1, EnqueueOfflineType DEF Slot
<1>3. \A session : Shifted(queued, session).attached = slot.attached
  BY <1>2 DEF Shifted, Slot
<1>4. Discards(slot.queue) => EnqueueOffline(slot.queue, item) = slot.queue
  BY DEF EnqueueOffline
<1> QED
  BY <1>2, <1>3, <1>4 DEF FanOutSlot

\* A new item: whoever still waits has an empty queue and the next pop.
LEMMA FanOutGood ==
  ASSUME NEW n \in Nat, NEW e \in State(n), NEW tx, NEW item \in Items,
         AttachedIn(e), WaitsIn(e)
  PROVE  Good(FanOut(e, tx, item))
<1> DEFINE x == FanOut(e, tx, item)
<1>1. \A s \in DOMAIN e.sessions :
        e.sessions[s] \in Session /\ e.sessions[s].slot \in Slots \cup {0}
  BY TableType DEF State, Session
<1>2. /\ DOMAIN x.sessions = DOMAIN e.sessions
      /\ x.drain.requested = e.drain.authorized
      /\ x.drain.authorized = e.drain.authorized
      /\ \A d \in Slots : x.slots[d] = FanOutSlot(e, d, item)
      /\ \A s \in DOMAIN e.sessions : x.sessions[s] =
           CASE e.sessions[s].slot # 0 -> FanOutAttached(e, s)
             [] e.sessions[s].slot = 0 /\ ~ InboxFull(e.sessions[s]) ->
                  EnqueueMultiClient(e.sessions[s], item)
             [] OTHER -> e.sessions[s]
  BY DEF FanOut, State
<1> HIDE DEF x
<1>3. \A d \in Slots : x.slots[d].attached = e.slots[d].attached
  BY <1>2, FanOutSlotKeeps
<1>4. ASSUME NEW s \in DOMAIN e.sessions
      PROVE  /\ x.sessions[s].slot = e.sessions[s].slot
             /\ x.sessions[s].sync # 0 =>
                  /\ e.sessions[s].sync # 0
                  /\ QueueOf(x, s) = QueueOf(e, s)
  <2>1. CASE e.sessions[s].slot # 0
    <3>1. /\ x.sessions[s].slot = e.sessions[s].slot
          /\ x.sessions[s].sync # 0 =>
               /\ e.sessions[s].sync # 0
               /\ Discards(e.slots[e.sessions[s].slot].queue)
      BY <1>2, <2>1, FanOutAttachedKeeps
    <3>2. e.sessions[s].slot \in Slots
      BY <1>1, <2>1
    <3> QED
      BY <1>2, <2>1, <3>1, <3>2, FanOutSlotKeeps DEF QueueOf
  <2>2. CASE e.sessions[s].slot = 0 /\ ~ InboxFull(e.sessions[s])
    BY <1>1, <1>2, <2>2, EnqueueMultiClientKeeps
  <2>3. CASE e.sessions[s].slot = 0 /\ InboxFull(e.sessions[s])
    BY <1>2, <2>3 DEF QueueOf
  <2> QED
    BY <2>1, <2>2, <2>3
<1>5. AttachedIn(x)
  BY <1>1, <1>2, <1>3, <1>4 DEF AttachedIn
<1>6. WaitsIn(x)
  BY <1>2, <1>4 DEF WaitsIn
<1>7. AwakeIn(x)
  BY <1>2, <1>4 DEF AwakeIn, WaitsIn
<1> QED
  BY <1>5, <1>6, <1>7 DEF Good, x

\* pop_result leaves no wait behind an item or without a pop.
LEMMA PopResultGood ==
  ASSUME NEW n \in Nat, NEW e \in State(n), NEW tx, NEW f \in Frames,
         f.code \in {"message", "no_more_messages"},
         AttachedIn(e), WaitsIn(e)
  PROVE  Good(PopResult(e, tx, f))
<1> DEFINE again == [e EXCEPT !.drain.requested = e.drain.authorized]
<1>1. Good(again)
  <2>1. /\ again.sessions = e.sessions
        /\ again.slots = e.slots
        /\ again.drain.requested = e.drain.authorized
        /\ again.drain.authorized = e.drain.authorized
    BY DEF State
  <2> HIDE DEF again
  <2> QED
    BY <2>1 DEF Good, AttachedIn, WaitsIn, AwakeIn, QueueOf
<1>2. f.code # "no_more_messages" => f.arg \in Items
  BY FrameType
<1> HIDE DEF again
<1> QED
  BY <1>1, <1>2, NoMoreMessagesGood, FanOutGood DEF PopResult, again

-----------------------------------------------------------------------------
(* Replies and pushes *)

\* While the running transaction is a client's, what follows a reply changes
\* neither waits nor queues, and it starts no pop.
LEMMA ReplyToOwnerEases ==
  ASSUME NEW n \in Nat, NEW e \in State(n), NEW f
  PROVE  Eases(e, ReplyToOwner(e, f))
<1> DEFINE tx == e.active
           owner == e.sessions[tx.owner]
           seen_by == [owner EXCEPT !.version =
             IF tx.command.op = "device_query" /\ f.code = "device_info"
             THEN tx.command.arg ELSE owner.version]
           kind == IF tx.command.op \in Maintenance THEN "result" ELSE "frame"
           x == ReplyToOwner(e, f)
<1>1. CASE tx.owner \notin DOMAIN e.sessions
  BY <1>1 DEF ReplyToOwner, Eases
<1>2. CASE tx.owner \in DOMAIN e.sessions
  <2>1. owner \in Session
    BY <1>2, TableType DEF State
  <2>2. tx.command.arg \in Nat
    BY CommandTypes DEF State, Transactions, Transaction
  <2>3. /\ seen_by \in Session
        /\ seen_by.slot = owner.slot
        /\ seen_by.sync = owner.sync
        /\ seen_by.inbox = owner.inbox
    BY <2>1, <2>2 DEF Session
  <2>4. PICK session :
          /\ session \in {Reply(seen_by, kind), Emit(seen_by, "frame")}
          /\ x = [e EXCEPT !.sessions[tx.owner] = session]
    BY <1>2 DEF ReplyToOwner
  <2>5. /\ session.slot = owner.slot
        /\ session.sync = owner.sync
        /\ session.inbox = owner.inbox
    <3> HIDE DEF seen_by, kind, owner
    <3> QED
      BY <2>3, <2>4, WriteKeeps
  <2>6. /\ x.slots = e.slots /\ x.drain = e.drain /\ x.active = e.active
        /\ x.sessions = [e.sessions EXCEPT ![tx.owner] = session]
    BY <2>4 DEF State
  <2> HIDE DEF x
  <2>7. Eases(e, x)
    BY <1>2, <2>5, <2>6 DEF Eases, QueueOf, PopIn
  <2> QED
    BY <2>7 DEF x
<1> QED
  BY <1>1, <1>2

\* Changes of anything but sessions, slots, drain and transaction.
LEMMA UnrelatedEases ==
  ASSUME NEW e, NEW x, x.sessions = e.sessions, x.slots = e.slots,
         x.drain = e.drain, x.active = e.active
  PROVE  Eases(e, x)
BY DEF Eases, QueueOf, PopIn

\* The same, when the transaction changes but was not a pop.
LEMMA TransactionEases ==
  ASSUME NEW e, NEW x, x.sessions = e.sessions, x.slots = e.slots,
         x.drain = e.drain, ~ PopIn(e)
  PROVE  Eases(e, x)
BY DEF Eases, QueueOf

\* Changes of this kind can be done one after the other.
LEMMA EasesTransitive ==
  ASSUME NEW e, NEW x, NEW y, Eases(e, x), Eases(x, y)
  PROVE  Eases(e, y)
BY DEF Eases

\* Sending upstream touches neither sessions nor slots nor drain.
LEMMA SendUpstreamKeeps ==
  ASSUME NEW n \in Nat, NEW e \in State(n), NEW tx, NEW command
  PROVE  LET x == SendUpstream(e, tx, command)
         IN x.sessions = e.sessions /\ x.slots = e.slots /\ x.drain = e.drain
BY DEF SendUpstream, State

\* Neither does the end of a transaction or of the epoch.
LEMMA FinishKeeps ==
  ASSUME NEW n \in Nat, NEW e \in State(n)
  PROVE  /\ Finish(e).sessions = e.sessions
         /\ Finish(e).slots = e.slots
         /\ Finish(e).drain = e.drain
         /\ Fail(e).sessions = e.sessions
         /\ Fail(e).slots = e.slots
         /\ Fail(e).drain = e.drain
         /\ Fail(e).active = e.active
         /\ Fail(e).failing
BY DEF Finish, Fail, State

\* What follows the reply to a client's command.
LEMMA AfterCommandEases ==
  ASSUME NEW n \in Nat, NEW e \in State(n), ~ PopIn(e)
  PROVE  Eases(e, AfterCommand(e))
<1>1. LET x == [e EXCEPT !.active.step = "result"]
      IN x.sessions = e.sessions /\ x.slots = e.slots /\ x.drain = e.drain
  BY DEF State
<1>2. LET x == AfterCommand(e)
      IN x.sessions = e.sessions /\ x.slots = e.slots /\ x.drain = e.drain
  BY <1>1, SendUpstreamKeeps, FinishKeeps DEF AfterCommand
<1> QED
  BY <1>2, TransactionEases

\* transaction_response for a client's command.
LEMMA CommandResponseEases ==
  ASSUME NEW n \in Nat, NEW e \in State(n), NEW f \in Frames, ~ PopIn(e)
  PROVE  Eases(e, CommandResponse(e, f))
<1> DEFINE x == ReplyToOwner(e, f)
           y == RecordAcceptance(x, e.active.command, f)
<1>1. x \in State(n) /\ x.active = e.active /\ Eases(e, x)
  BY ReplyToOwnerType, OwnerKept, ReplyToOwnerEases
<1>2. e.active.command \in Command
  BY DEF State, Transactions, Transaction
<1> HIDE DEF x
<1>3. y \in State(n) /\ y.active = e.active
  BY <1>1, <1>2, RecordAcceptanceType, OwnerKept
<1>4. y.sessions = x.sessions /\ y.slots = x.slots /\ y.drain = x.drain
  BY <1>1 DEF RecordAcceptance, State
<1>5. Eases(x, y)
  BY <1>1, <1>3, <1>4, UnrelatedEases
<1> HIDE DEF y
<1>6. Eases(y, AfterCommand(y))
  BY <1>3, AfterCommandEases DEF PopIn
<1>7. Eases(e, AfterCommand(y))
  BY <1>1, <1>5, <1>6, EasesTransitive
<1>8. Eases(x, [x EXCEPT !.active.contacts_started = TRUE])
  <2> DEFINE z == [x EXCEPT !.active.contacts_started = TRUE]
  <2>1. z.sessions = x.sessions /\ z.slots = x.slots /\ z.drain = x.drain
    BY <1>1 DEF State
  <2> QED
    BY <1>1, <2>1, TransactionEases DEF PopIn
<1>9. Eases(e, [x EXCEPT !.active.contacts_started = TRUE])
  BY <1>1, <1>8, EasesTransitive
<1> QED
  BY <1>7, <1>9 DEF CommandResponse, x, y

\* Replacing a session by one with the same inbox that does not newly wait.
LEMMA RefusalEases ==
  ASSUME NEW n \in Nat, NEW e \in State(n), NEW s \in DOMAIN e.sessions,
         NEW session, session.slot = e.sessions[s].slot,
         session.sync = 0 \/ session.sync = e.sessions[s].sync,
         session.inbox = e.sessions[s].inbox
  PROVE  Eases(e, [e EXCEPT !.sessions[s] = session])
<1> DEFINE x == [e EXCEPT !.sessions[s] = session]
<1>1. /\ x.sessions = [e.sessions EXCEPT ![s] = session]
      /\ x.slots = e.slots /\ x.drain = e.drain /\ x.active = e.active
  BY DEF State
<1> HIDE DEF x
<1>2. Eases(e, x)
  BY <1>1 DEF Eases, QueueOf, PopIn
<1> QED
  BY <1>2 DEF x

\* scope_response.
LEMMA ScopeResponseEases ==
  ASSUME NEW n \in Nat, NEW e \in State(n), NEW f, ~ PopIn(e),
         e.active.step \in {"setup", "restore"}
  PROVE  Eases(e, ScopeResponse(e, f))
<1> DEFINE tx == e.active
           refused == IF tx.owner \in DOMAIN e.sessions
                      THEN [e EXCEPT !.sessions[tx.owner] =
                              Reply(e.sessions[tx.owner], "frame")]
                      ELSE e
           dropped == [refused EXCEPT
                         !.remote = IF tx.command.op \in RemoteLease
                                    THEN NoRemote ELSE e.remote]
<1>1. Eases(e, SendCommand(e, tx))
  BY SendUpstreamKeeps, TransactionEases DEF SendCommand
<1>2. Eases(e, Finish(e)) /\ Eases(e, Fail(e))
  BY FinishKeeps, TransactionEases
<1>3. refused \in State(n) /\ Eases(e, refused) /\ refused.active = e.active
  <2>1. CASE tx.owner \in DOMAIN e.sessions
    <3>1. e.sessions[tx.owner] \in Session
      BY <2>1, TableType DEF State
    <3>2. Reply(e.sessions[tx.owner], "frame") \in Session
      BY <3>1, ReplyType DEF WriteKinds
    <3>3. refused \in State(n)
      BY <2>1, <3>2, UpdateSession
    <3>4. Eases(e, refused)
      BY <2>1, <3>1, RefusalEases, WriteKeeps
    <3>5. refused.active = e.active
      BY <2>1 DEF State
    <3> QED
      BY <3>3, <3>4, <3>5
  <2>2. CASE tx.owner \notin DOMAIN e.sessions
    BY <2>2, UnrelatedEases
  <2> QED
    BY <2>1, <2>2
<1> HIDE DEF refused
<1>4. Eases(refused, Finish(dropped))
  <2>1. LET x == Finish(dropped)
        IN /\ x.sessions = refused.sessions
           /\ x.slots = refused.slots
           /\ x.drain = refused.drain
    BY <1>3 DEF Finish, State
  <2>2. ~ PopIn(refused)
    BY <1>3 DEF PopIn
  <2> QED
    BY <2>1, <2>2, TransactionEases
<1>5. Eases(e, Finish(dropped))
  BY <1>3, <1>4, EasesTransitive
<1> HIDE DEF dropped
<1> QED
  BY <1>1, <1>2, <1>5 DEF ScopeResponse, refused, dropped

\* A reply leaves the waits as they should be, or ends the epoch.
LEMMA TransactionResponseGood ==
  ASSUME TypeInv, InboxInv, NEW f \in Frames
  PROVE  LET x == TransactionResponse(f) IN Good(x) \/ x.failing
<1> DEFINE n == next_session
           e == WriteIsOver
<1>1. n \in Nat /\ Now \in State(n) /\ Good(Now)
  BY NowType, NowGood DEF TypeInv, TypeOK
<1>2. [active EXCEPT !.write = 0] \in Transactions
  BY DEF TypeInv, TypeOK, Transactions, Transaction, PopShape
<1>3. upstream_writes \ {active.write} \in SUBSET Nat
  BY DEF TypeInv, TypeOK
<1>4. e \in State(n) /\ e.active = [active EXCEPT !.write = 0]
      /\ e.sessions = sessions /\ e.slots = slots /\ e.drain = drain
  BY <1>1, <1>2, <1>3 DEF State, Now, WriteIsOver
<1>5. active \in Transaction /\ PopShape(active)
  BY DEF TypeInv, TypeOK
<1>6. e.active.step = active.step /\ e.active.owner = active.owner
  BY <1>4, <1>5 DEF Transaction
<1>7. Good(e)
  <2>1. Now.sessions = sessions /\ Now.slots = slots /\ Now.drain = drain
        /\ Now.active = active
    BY DEF Now
  <2>2. Eases(Now, e)
    BY <1>4, <1>6, <2>1 DEF Eases, QueueOf, PopIn
  <2> QED
    BY <1>1, <2>2, EasedGood
<1>8. Fail(e).failing
  BY <1>1, <1>4, FinishKeeps
<1> HIDE DEF e, n
<1>9. CASE active.step \in {"setup", "restore"}
  <2>1. active.owner # 0
    BY <1>5, <1>9 DEF PopShape
  <2>2. Eases(e, ScopeResponse(e, f))
    BY <1>1, <1>4, <1>6, <1>9, <2>1, ScopeResponseEases DEF PopIn
  <2>3. Good(ScopeResponse(e, f))
    BY <1>1, <1>4, <1>7, <2>2, EasedGood
  <2> QED
    BY <1>9, <2>3 DEF TransactionResponse, e
<1>10. CASE active.step = "command" /\ active.owner = 0
  <2>1. active.command = Sync /\ active.contacts_started \in BOOLEAN
    BY <1>5, <1>10 DEF PopShape, Transaction
  <2>2. ValidResponse(active.command, active.contacts_started, f)
          => f.code \in {"err", "message", "no_more_messages"}
    BY <2>1, SyncReplies
  <2>3. Finish(e) \in State(n)
    BY <1>1, <1>4, FinishType
  <2>4. AttachedIn(Finish(e)) /\ WaitsIn(Finish(e))
    <3>1. Finish(e).sessions = e.sessions /\ Finish(e).slots = e.slots
          /\ Finish(e).drain = e.drain
      BY <1>1, <1>4, FinishKeeps
    <3> QED
      BY <1>7, <3>1 DEF Good, AttachedIn, WaitsIn, QueueOf
  <2>5. f.code \in {"message", "no_more_messages"} =>
          Good(PopResult(Finish(e), active, f))
    BY <1>1, <2>3, <2>4, PopResultGood
  <2> QED
    BY <1>8, <1>10, <2>2, <2>5 DEF TransactionResponse, e
<1>11. CASE active.step = "command" /\ active.owner # 0
  <2>1. Eases(e, CommandResponse(e, f))
    BY <1>1, <1>4, <1>6, <1>11, CommandResponseEases DEF PopIn
  <2>2. Good(CommandResponse(e, f))
    BY <1>1, <1>4, <1>7, <2>1, EasedGood
  <2> QED
    BY <1>8, <1>11, <2>2 DEF TransactionResponse, e
<1>12. CASE active.step \in {"none", "result"}
  BY <1>8, <1>12 DEF TransactionResponse, e
<1> QED
  BY <1>5, <1>9, <1>10, <1>11, <1>12 DEF Transaction, Steps

\* Frames written to every session, and more evidence of messages.
LEMMA TableEases ==
  ASSUME NEW e, NEW x,
         DOMAIN x.sessions = DOMAIN e.sessions,
         \A s \in DOMAIN e.sessions :
           /\ x.sessions[s].slot = e.sessions[s].slot
           /\ x.sessions[s].inbox = e.sessions[s].inbox
           /\ x.sessions[s].sync # 0 => e.sessions[s].sync # 0,
         x.slots = e.slots, x.active = e.active,
         e.drain.authorized => x.drain.authorized,
         e.drain.requested => x.drain.requested
  PROVE  Eases(e, x)
BY DEF Eases, QueueOf, PopIn

\* push, all cases.
LEMMA PushGood ==
  ASSUME TypeInv, InboxInv, NEW f \in Frames
  PROVE  LET x == Push(f) IN Good(x) \/ x.failing
<1> DEFINE n == next_session
<1>1. n \in Nat /\ Now \in State(n) /\ Good(Now)
  BY NowType, NowGood DEF TypeInv, TypeOK
<1>2. /\ Now.sessions = sessions /\ Now.slots = slots
      /\ Now.drain = drain /\ Now.active = active
  BY DEF Now
<1>3. \A s \in DOMAIN sessions : sessions[s] \in Session
  BY DEF TypeInv, TypeOK
<1>4. /\ DOMAIN EmitAll(sessions, "frame") = DOMAIN sessions
      /\ DOMAIN HintAll(sessions) = DOMAIN sessions
      /\ \A s \in DOMAIN sessions :
           /\ EmitAll(sessions, "frame")[s] = Emit(sessions[s], "frame")
           /\ HintAll(sessions)[s] = Hint(sessions[s])
  BY DEF EmitAll, HintAll
<1>5. ASSUME NEW x, x.slots = slots, x.active = active, x.drain = drain,
             x.sessions = EmitAll(sessions, "frame")
      PROVE  Good(x)
  <2>1. Eases(Now, x)
    BY <1>2, <1>3, <1>4, <1>5, WriteKeeps, TableEases
  <2> QED
    BY <1>1, <2>1, EasedGood
<1>6. Good(AvailabilityHint)
  <2> DEFINE x == AvailabilityHint
  <2>1. /\ x.slots = slots /\ x.active = active
        /\ x.sessions = HintAll(sessions)
        /\ x.drain.authorized = drain.authorized
        /\ drain.requested => x.drain.requested
    BY DEF AvailabilityHint, Now, TypeInv, TypeOK
  <2> HIDE DEF x
  <2>2. Eases(Now, x)
    BY <1>2, <1>3, <1>4, <2>1, WriteKeeps, TableEases
  <2>3. Good(x)
    BY <1>1, <2>2, EasedGood
  <2> QED
    BY <2>3 DEF x
<1>7. Good([Now EXCEPT !.sessions = EmitAll(sessions, "frame")])
  BY <1>5 DEF Now
<1>8. Good([Now EXCEPT !.dm_ring = DmConfirm(dm_ring, f.arg),
                       !.sessions = EmitAll(sessions, "frame")])
  BY <1>5 DEF Now
<1>9. Good(RemoteResult(f))
  <2> DEFINE x == [Now EXCEPT !.remote = NoRemote]
  <2>1. x \in State(n) /\ x.sessions = sessions /\ x.slots = slots
        /\ x.drain = drain /\ x.active = active
    BY <1>1, LeaseTypes DEF State, Now
  <2>2. Good(x)
    BY <1>1, <1>2, <2>1, UnrelatedEases, EasedGood
  <2> HIDE DEF x
  <2>3. ASSUME NEW s \in DOMAIN sessions
        PROVE  Good([x EXCEPT !.sessions[s] = Emit(sessions[s], "frame")])
    BY <1>1, <1>3, <2>1, <2>2, WriteKeeps, RefusalEases, EasedGood
  <2>4. \A s : [x EXCEPT !.sessions[s] = Emit(sessions[s], "frame")]
              = [Now EXCEPT !.remote = NoRemote,
                            !.sessions[s] = Emit(sessions[s], "frame")]
    BY DEF x
  <2> QED
    BY <1>1, <2>2, <2>3, <2>4 DEF RemoteResult, x
<1> QED
  BY <1>6, <1>7, <1>8, <1>9, TransactionResponseGood DEF Push

-----------------------------------------------------------------------------
(* One lemma per handler *)

\* A handler whose result is good, or ends the epoch, keeps the invariant.
LEMMA HandlerGood ==
  ASSUME NEW n \in Nat, NEW e, e \in State(n), CommitAndSchedule(e),
         Good(e) \/ e.failing, phase # "turn"
  PROVE  InboxInv'
<1>1. Commit(e) /\ phase' # "turn"
  BY DEF CommitAndSchedule
<1>2. SlotAttachment' /\ SyncWaitsOnEmptyInbox' /\ NoLostWakeup'
  BY <1>1, CommitGood
<1> QED
  BY <1>1, <1>2 DEF InboxInv, TurnFree

\* What every handler starts from.
LEMMA NowFacts ==
  ASSUME TypeInv, InboxInv
  PROVE  /\ next_session \in Nat
         /\ Now \in State(next_session)
         /\ Good(Now)
         /\ Now.sessions = sessions
         /\ Now.slots = slots
         /\ Now.drain = drain
         /\ Now.active = active
  BY NowType, NowGood DEF TypeInv, TypeOK, Now

\* Closing sessions takes effect in Commit only.
LEMMA ClosingGood ==
  ASSUME TypeInv, InboxInv, NEW gone \in SUBSET Nat
  PROVE  /\ [Now EXCEPT !.closed = gone] \in State(next_session)
         /\ Good([Now EXCEPT !.closed = gone])
<1> DEFINE x == [Now EXCEPT !.closed = gone]
<1>1. x \in State(next_session)
  BY NowFacts, SmallChanges
<1>2. x.sessions = sessions /\ x.slots = slots /\ x.drain = drain
      /\ x.active = active
  BY DEF Now
<1> HIDE DEF x
<1>3. Eases(Now, x)
  BY <1>2, NowFacts, UnrelatedEases
<1>4. Good(x)
  BY <1>3, NowFacts, EasedGood
<1> QED
  BY <1>1, <1>4 DEF x

\* admit: the new session does not wait, and the session it replaces is gone
\* with its wait before its slot has another one attached.
LEMMA AdmitGood ==
  ASSUME TypeInv, InboxInv, NEW d \in Slots \cup {0}, Admit(d)
  PROVE  InboxInv'
<1> DEFINE id == next_session + 1
           old == IF d = 0 THEN 0 ELSE slots[d].attached
           others == DOMAIN sessions \ {old}
           given == IF TakesOrphan(d) THEN <<orphan>> ELSE <<>>
           new == Hint([NewSession(d) EXCEPT !.inbox = given])
           table == [s \in others \cup {id} |->
                       IF s = id THEN new ELSE sessions[s]]
           attached == [x \in Slots |->
                          IF x = d THEN [slots[x] EXCEPT !.attached = id]
                          ELSE slots[x]]
           e == [Now EXCEPT
                   !.sessions = table,
                   !.order = Append(order, id),
                   !.slots = attached,
                   !.orphan = IF TakesOrphan(d) THEN 0 ELSE orphan,
                   !.drain = IF others = {} THEN NoDrain ELSE drain]
<1>1. CASE InMaintenance(active)
  <2>1. UNCHANGED <<sessions, active, drain, slots, phase>>
    BY <1>1 DEF Admit
  <2> QED
    BY <2>1 DEF InboxInv, SlotAttachment, SyncWaitsOnEmptyInbox, NoLostWakeup,
       TurnFree, Waiting, InboxFor, Popping, Busy
<1>2. CASE ~ InMaintenance(active)
  <2>1. id \in Nat /\ id # 0 /\ id \notin DOMAIN sessions
        /\ 1 .. next_session \subseteq 1 .. id /\ id \in 1 .. id
    BY DEF TypeInv, TypeOK
  <2>2. given \in Seq(Items)
    BY DEF TakesOrphan, TypeInv, TypeOK
  <2>3. new \in Session /\ new.slot = d /\ new.sync = 0
    <3> HIDE DEF given
    <3>1. NewSession(d) \in Session /\ NewSession(d).slot = d
          /\ NewSession(d).sync = 0
      BY NewSessionType DEF NewSession
    <3>2. \A session \in Session :
            LET x == [session EXCEPT !.inbox = given]
            IN /\ x \in Session /\ x.slot = session.slot
               /\ x.sync = session.sync
      BY <2>2 DEF Session
    <3> QED
      BY <3>1, <3>2, HintType, WriteKeeps
  <2>4. e.active = active /\ e.sessions = table /\ e.slots = attached
        /\ e.drain = IF others = {} THEN NoDrain ELSE drain
    BY DEF Now
  <2>5. \A x \in Slots : slots[x] \in Slot
    BY DEF TypeInv, TypeOK
  <2>6. /\ \A x \in Slots :
             /\ attached[x].queue = slots[x].queue
             /\ attached[x].attached =
                  IF x = d THEN id ELSE slots[x].attached
    BY <2>5 DEF Slot
  <2>7. /\ DOMAIN table = others \cup {id}
        /\ table[id] = new
        /\ \A s \in others : s # id /\ table[s] = sessions[s]
    BY <2>1
  <2>8. \A s \in DOMAIN sessions : sessions[s].slot \in Slots \cup {0}
    BY DEF TypeInv, TypeOK, Session
  <2>9. SlotAttachment /\ SyncWaitsOnEmptyInbox /\ NoLostWakeup
    BY DEF InboxInv
  <2> HIDE DEF table, attached, new, id
  <2>10. AttachedIn(e)
    <3>1. ASSUME NEW x \in Slots, attached[x].attached # 0
          PROVE  /\ attached[x].attached \in DOMAIN table
                 /\ table[attached[x].attached].slot = x
      <4>1. CASE x = d
        BY <2>3, <2>6, <2>7, <4>1
      <4>2. CASE x # d
        <5>1. attached[x].attached = slots[x].attached
          BY <2>6, <4>2
        <5>2. slots[x].attached \in DOMAIN sessions
              /\ sessions[slots[x].attached].slot = x
          BY <2>9, <3>1, <5>1 DEF SlotAttachment
        <5>3. slots[x].attached # old
          BY <2>9, <3>1, <4>2, <5>1, <5>2 DEF SlotAttachment
        <5> QED
          BY <2>7, <5>1, <5>2, <5>3
      <4> QED
        BY <4>1, <4>2
    <3>2. ASSUME NEW s \in DOMAIN table, table[s].slot # 0
          PROVE  attached[table[s].slot].attached = s
      <4>1. CASE s = id
        BY <2>3, <2>6, <2>7, <3>2, <4>1
      <4>2. CASE s \in others
        <5>1. table[s] = sessions[s] /\ s \in DOMAIN sessions /\ s # old
          BY <2>7, <4>2
        <5>2. slots[sessions[s].slot].attached = s
              /\ sessions[s].slot \in Slots
          BY <2>8, <2>9, <3>2, <5>1 DEF SlotAttachment
        <5>3. sessions[s].slot # d
          BY <3>2, <5>1, <5>2
        <5> QED
          BY <2>6, <5>1, <5>2, <5>3
      <4> QED
        BY <2>7, <4>1, <4>2
    <3> QED
      BY <2>4, <3>1, <3>2 DEF AttachedIn
  <2>11. ASSUME NEW s \in DOMAIN table, table[s].sync # 0
         PROVE  /\ s \in others
                /\ QueueOf(e, s) = <<>>
                /\ e.drain.authorized
                /\ e.drain.requested \/ PopIn(e)
    <3>1. s \in others /\ table[s] = sessions[s] /\ s \in DOMAIN sessions
      BY <2>3, <2>7, <2>11
    <3>2. s \in Waiting
      BY <2>11, <3>1 DEF Waiting
    <3>3. e.drain = drain
      BY <2>4, <3>1
    <3>4. InboxFor(s) = <<>> /\ drain.authorized
          /\ (drain.requested \/ Popping)
      BY <2>9, <3>2 DEF SyncWaitsOnEmptyInbox, NoLostWakeup
    <3>5. QueueOf(e, s) = InboxFor(s)
      BY <2>4, <2>6, <2>8, <3>1 DEF QueueOf, InboxFor
    <3> QED
      BY <2>4, <3>1, <3>3, <3>4, <3>5 DEF PopIn, Popping, Busy
  <2>12. Good(e)
    <3>1. WaitsIn(e)
      BY <2>4, <2>11 DEF WaitsIn
    <3>2. AwakeIn(e)
      BY <2>4, <2>11 DEF AwakeIn, PopIn
    <3> QED
      BY <2>10, <3>1, <3>2 DEF Good
  <2>13. e \in State(id)
    <3>1. table \in SessionTables(id)
      <4>1. DOMAIN table \subseteq 1 .. id
        BY <2>1, <2>7 DEF TypeInv, TypeOK
      <4>2. \A s \in DOMAIN table : table[s] \in Session
        BY <2>3, <2>7 DEF TypeInv, TypeOK
      <4>3. table = [s \in DOMAIN table |-> table[s]]
        BY DEF table
      <4> QED
        BY <2>1, <4>1, <4>2, <4>3, TableType
    <3>2. attached \in [Slots -> Slot]
      BY <2>1, <2>5 DEF attached, Slot
    <3>3. Append(order, id) \in Seq(Nat)
      BY <2>1 DEF TypeInv, TypeOK
    <3>4. NoDrain \in [requested : BOOLEAN, authorized : BOOLEAN]
      BY DEF NoDrain
    <3>5. Now \in State(next_session)
      BY NowType
    <3> QED
      BY <3>1, <3>2, <3>3, <3>4, <3>5 DEF State, TypeInv, TypeOK
  <2>14. CommitAndSchedule(e) /\ phase # "turn"
    BY <1>2 DEF Admit, AtRest, table, attached, new, id
  <2> QED
    BY <2>1, <2>12, <2>13, <2>14, HandlerGood
<1> QED
  BY <1>1, <1>2

\* client_frame.
LEMMA ClientFrameGood ==
  ASSUME TypeInv, InboxInv, NEW s, NEW command \in Commands,
         ClientFrame(s, command)
  PROVE  InboxInv'
<1> DEFINE session == sessions[s]
           queued == [session EXCEPT
                        !.commands = Append(session.commands, command),
                        !.owed = Append(session.owed, command)]
           x == [Now EXCEPT !.sessions[s] = queued]
<1>1. command \in Command
  BY BrokerAssumption DEF Command
<1>2. s \in DOMAIN sessions /\ s \in Nat /\ session \in Session
      /\ phase # "turn"
  BY DEF ClientFrame, AtRest, TypeInv, TypeOK
<1>3. /\ Append(session.commands, command) \in Seq(Command)
      /\ Append(session.owed, command) \in Seq(Command)
  BY <1>1, <1>2 DEF Session
<1>4. queued \in Session /\ queued.slot = session.slot
      /\ queued.sync = session.sync /\ queued.inbox = session.inbox
  BY <1>2, <1>3 DEF Session
<1> HIDE DEF queued
<1>5. x \in State(next_session)
  BY <1>2, <1>4, NowFacts, UpdateSession
<1>6. Good(x)
  BY <1>2, <1>4, NowFacts, RefusalEases, EasedGood
<1>7. \/ CommitAndSchedule([Now EXCEPT !.closed = {s}])
      \/ CommitAndSchedule(x)
  BY DEF ClientFrame, queued
<1>8. {s} \in SUBSET Nat
  BY <1>2
<1> HIDE DEF x
<1> QED
  BY <1>2, <1>5, <1>6, <1>7, <1>8, NowFacts, ClosingGood, HandlerGood

\* client_closed.
LEMMA ClientClosedGood ==
  ASSUME TypeInv, InboxInv, NEW s, ClientClosed(s)
  PROVE  InboxInv'
<1>1. {s} \in SUBSET Nat /\ phase # "turn" /\ next_session \in Nat
      /\ CommitAndSchedule([Now EXCEPT !.closed = {s}])
  BY DEF ClientClosed, AtRest, TypeInv, TypeOK
<1> QED
  BY <1>1, ClosingGood, HandlerGood

\* written, for a client's frame.
LEMMA WrittenGood ==
  ASSUME TypeInv, InboxInv, NEW s, Written(s)
  PROVE  InboxInv'
<1> DEFINE session == [sessions[s] EXCEPT !.writes = Tail(sessions[s].writes)]
           e == [Now EXCEPT !.sessions[s].writes = Tail(sessions[s].writes)]
<1>1. s \in DOMAIN sessions /\ sessions[s] \in Session
      /\ sessions[s].writes # <<>> /\ phase # "turn"
  BY DEF TypeInv, TypeOK, Written, AtRest
<1>2. Tail(sessions[s].writes) \in Seq(WriteKinds)
  BY <1>1 DEF Session
<1>3. session \in Session /\ session.slot = sessions[s].slot
      /\ session.sync = sessions[s].sync /\ session.inbox = sessions[s].inbox
  BY <1>1, <1>2 DEF Session
<1>4. e = [Now EXCEPT !.sessions[s] = session]
  BY NowFacts
<1> HIDE DEF session
<1>5. e \in State(next_session) /\ Good(e)
  BY <1>1, <1>3, <1>4, NowFacts, UpdateSession, RefusalEases, EasedGood
<1>6. CommitAndSchedule(e) \/ CommitAndSchedule(Fail(Finish(e)))
  BY DEF Written
<1> HIDE DEF e
<1>7. Fail(Finish(e)) \in State(next_session) /\ Fail(Finish(e)).failing
  BY <1>5, NowFacts, FinishType, FinishKeeps
<1> QED
  BY <1>1, <1>5, <1>6, <1>7, NowFacts, HandlerGood

\* Every handler that only ends the epoch.
LEMMA EpochEndGood ==
  ASSUME TypeInv, InboxInv, AtRest, CommitAndSchedule(Fail(Now))
  PROVE  InboxInv'
<1>1. Fail(Now) \in State(next_session) /\ Fail(Now).failing
  BY NowFacts, FinishType, FinishKeeps
<1> QED
  BY <1>1, NowFacts, HandlerGood DEF AtRest

\* write_failed.
LEMMA WriteFailedGood ==
  ASSUME TypeInv, InboxInv, NEW id, WriteFailed(id)
  PROVE  InboxInv'
<1>1. AtRest /\ phase # "turn" /\ {id} \in SUBSET Nat
  BY DEF WriteFailed, AtRest, TypeInv, TypeOK
<1>2. \/ CommitAndSchedule(Fail(Now))
      \/ CommitAndSchedule([Now EXCEPT !.closed = {id}])
  BY DEF WriteFailed
<1> QED
  BY <1>1, <1>2, NowFacts, EpochEndGood, ClosingGood, HandlerGood

\* written, for an upstream frame.
LEMMA UpstreamWrittenGood ==
  ASSUME TypeInv, InboxInv, NEW w, UpstreamWritten(w)
  PROVE  InboxInv'
<1> DEFINE write == IF AwaitsWrite(w) THEN 0 ELSE active.write
           e == [Now EXCEPT !.upstream_writes = upstream_writes \ {w},
                            !.active.write = write]
<1>1. active \in Transaction /\ PopShape(active) /\ phase # "turn"
  BY DEF TypeInv, TypeOK, UpstreamWritten, AtRest
<1>2. write \in Nat
  BY <1>1 DEF Transaction
<1> HIDE DEF write
<1>3. [active EXCEPT !.write = write] \in Transactions
  BY <1>1, <1>2 DEF Transactions, Transaction, PopShape
<1>4. upstream_writes \ {w} \in SUBSET Nat
  BY DEF TypeInv, TypeOK
<1>5. e \in State(next_session)
  BY <1>3, <1>4, NowFacts DEF State
<1>6. e.sessions = sessions /\ e.slots = slots /\ e.drain = drain
      /\ e.active = [active EXCEPT !.write = write]
  BY DEF Now
<1>7. e.active.step = active.step /\ e.active.owner = active.owner
  BY <1>1, <1>6 DEF Transaction
<1>8. CommitAndSchedule(e)
  BY DEF UpstreamWritten, write
<1> HIDE DEF e
<1>9. Eases(Now, e)
  BY <1>6, <1>7, NowFacts DEF Eases, QueueOf, PopIn
<1>10. Good(e)
  BY <1>9, NowFacts, EasedGood
<1> QED
  BY <1>1, <1>5, <1>8, <1>10, NowFacts, HandlerGood

\* upstream_frame.
LEMMA UpstreamFrameGood ==
  ASSUME TypeInv, InboxInv, NEW f \in Frames, UpstreamFrame(f)
  PROVE  InboxInv'
<1>1. AtRest /\ phase # "turn"
  BY DEF UpstreamFrame, AtRest
<1>2. \/ CommitAndSchedule(Fail(Now))
      \/ CommitAndSchedule(Push(f))
      \/ CommitAndSchedule(TransactionResponse(f))
  BY DEF UpstreamFrame
<1>3. /\ Push(f) \in State(next_session)
      /\ Good(Push(f)) \/ Push(f).failing
  BY PushType, PushGood
<1>4. /\ TransactionResponse(f) \in State(next_session)
      /\ Good(TransactionResponse(f)) \/ TransactionResponse(f).failing
  BY TransactionResponseType, TransactionResponseGood
<1> QED
  BY <1>1, <1>2, <1>3, <1>4, NowFacts, EpochEndGood, HandlerGood

\* tick: the waits past their deadline end, nothing else about them changes.
LEMMA TickGood ==
  ASSUME TypeInv, InboxInv, NEW stuck, NEW late, NEW expired, NEW poll,
         Tick(stuck, late, expired, poll)
  PROVE  InboxInv'
<1> DEFINE table == [s \in DOMAIN sessions |->
                       IF s \in late
                       THEN [Reply(sessions[s], "frame") EXCEPT !.sync = 0]
                       ELSE sessions[s]]
           shown == IF poll THEN HintAll(table) ELSE table
           lease == IF "remote" \in expired THEN NoRemote ELSE remote
           signed == IF "signing" \in expired THEN NoSigning ELSE signing
           e == [Now EXCEPT !.closed = stuck, !.sessions = shown,
                            !.remote = lease, !.signing = signed]
<1>1. sessions \in SessionTables(next_session) /\ phase # "turn"
  BY NowFacts, TableType DEF TypeInv, TypeOK, Tick, AtRest
<1>2. \A s \in DOMAIN sessions : sessions[s] \in Session
  BY DEF TypeInv, TypeOK
<1>3. ASSUME NEW s \in DOMAIN sessions
      PROVE  /\ table[s] \in Session
             /\ table[s].slot = sessions[s].slot
             /\ table[s].inbox = sessions[s].inbox
             /\ table[s].sync # 0 => sessions[s].sync # 0
  <2>1. Reply(sessions[s], "frame") \in Session
        /\ Reply(sessions[s], "frame").inbox = sessions[s].inbox
        /\ Reply(sessions[s], "frame").slot = sessions[s].slot
    BY <1>2, ReplyType, WriteKeeps DEF WriteKinds
  <2> QED
    BY <1>2, <2>1 DEF Session
<1>4. DOMAIN table = DOMAIN sessions /\ table \in SessionTables(next_session)
  BY <1>1, <1>3, NowFacts, NewTable
<1> HIDE DEF table
<1>5. /\ shown \in SessionTables(next_session)
      /\ DOMAIN shown = DOMAIN sessions
      /\ \A s \in DOMAIN sessions :
           /\ shown[s].slot = sessions[s].slot
           /\ shown[s].inbox = sessions[s].inbox
           /\ shown[s].sync # 0 => sessions[s].sync # 0
  BY <1>3, <1>4, NowFacts, EmitAllType, WriteKeeps DEF HintAll
<1>6. lease \in Remote
  BY DEF TypeInv, TypeOK, NoRemote, Remote
<1>7. signed \in SigningState
  BY DEF TypeInv, TypeOK, NoSigning, SigningState
<1>8. stuck \in SUBSET Nat
  BY DEF Tick, TypeInv, TypeOK
<1> HIDE DEF shown, lease, signed
<1>9. e \in State(next_session)
  BY <1>5, <1>6, <1>7, <1>8, NowFacts DEF State
<1>10. e.sessions = shown /\ e.slots = slots /\ e.drain = drain
       /\ e.active = active
  BY DEF Now
<1>11. CommitAndSchedule(e)
  BY DEF Tick, shown, lease, signed, table
<1> HIDE DEF e
<1>12. Eases(Now, e)
  BY <1>5, <1>10, NowFacts, TableEases
<1>13. Good(e)
  BY <1>12, NowFacts, EasedGood
<1> QED
  BY <1>1, <1>9, <1>11, <1>13, NowFacts, HandlerGood

\* An iteration of schedule whose result is good keeps the invariant.
LEMMA LoopGood ==
  ASSUME NEW n \in Nat, NEW e, e \in State(n), Commit(e),
         Good(e) \/ e.failing, phase' = "turn" => e.active.step = "none"
  PROVE  InboxInv'
<1>1. SlotAttachment' /\ SyncWaitsOnEmptyInbox' /\ NoLostWakeup'
  BY CommitGood
<1>2. NextState(e)
  BY DEF Commit
<1>3. active' = e.active \/ active' = NoTransaction
  BY <1>2 DEF NextState, FailEpoch, Continue
<1>4. TurnFree'
  BY <1>3 DEF TurnFree, Busy, NoTransaction
<1> QED
  BY <1>1, <1>4 DEF InboxInv

\* The sync of a client whose queue is empty starts a wait, and the drain
\* with it; the oldest item of a queue that is not empty ends it at once.
LEMMA LocalSyncGood ==
  ASSUME NEW n \in Nat, NEW e \in State(n), NEW s \in DOMAIN e.sessions,
         Good(e), e.sessions[s].sync = 0, QueueOf(e, s) = InboxFor(s),
         pop_sequence + 1 \in Nat
  PROVE  Good(LocalSync(e, s))
<1> DEFINE session == e.sessions[s]
           d == session.slot
           x == LocalSync(e, s)
<1>1. session \in Session /\ d \in Slots \cup {0}
  BY TableType DEF State, Session
<1>2. CASE InboxFor(s) = <<>>
  <2>1. /\ x.slots = e.slots
        /\ x.drain.requested /\ x.drain.authorized
        /\ x.sessions = [e.sessions EXCEPT ![s].sync = pop_sequence + 1]
    BY <1>2 DEF LocalSync, State
  <2> HIDE DEF x
  <2>2. /\ DOMAIN x.sessions = DOMAIN e.sessions
        /\ \A t \in DOMAIN e.sessions :
             /\ x.sessions[t].slot = e.sessions[t].slot
             /\ x.sessions[t].inbox = e.sessions[t].inbox
             /\ t # s => x.sessions[t].sync = e.sessions[t].sync
    <3>1. DOMAIN x.sessions = DOMAIN e.sessions
      BY <2>1
    <3>2. \A t \in DOMAIN e.sessions : t # s => x.sessions[t] = e.sessions[t]
      BY <2>1
    <3>3. x.sessions[s] = [session EXCEPT !.sync = pop_sequence + 1]
      BY <2>1
    <3>4. x.sessions[s].slot = session.slot /\ x.sessions[s].inbox = session.inbox
      BY <1>1, <3>3 DEF Session
    <3> QED
      BY <3>1, <3>2, <3>4
  <2>3. \A t \in DOMAIN e.sessions : QueueOf(x, t) = QueueOf(e, t)
    BY <2>1, <2>2 DEF QueueOf
  <2>4. AttachedIn(x)
    BY <2>1, <2>2 DEF Good, AttachedIn
  <2>5. WaitsIn(x)
    BY <1>2, <2>1, <2>2, <2>3 DEF Good, WaitsIn
  <2>6. AwakeIn(x)
    BY <2>1 DEF AwakeIn
  <2>7. Good(x)
    BY <2>4, <2>5, <2>6 DEF Good
  <2> QED
    BY <2>7 DEF x
<1>3. CASE InboxFor(s) # <<>> /\ d = 0
  <2> DEFINE given == DeliverInbox(session)
  <2>1. given.slot = d /\ given.sync = 0
    <3>1. Reply(session, Layout(session.version)) \in Session
          /\ Reply(session, Layout(session.version)).slot = d
          /\ Reply(session, Layout(session.version)).sync = 0
      BY <1>1, ReplyType, WriteKeeps DEF Layout, WriteKinds
    <3> QED
      BY <3>1 DEF DeliverInbox, Session
  <2> HIDE DEF given
  <2>2. x = [e EXCEPT !.sessions[s] = given]
    BY <1>3 DEF LocalSync, given
  <2>3. /\ x.slots = e.slots /\ x.drain = e.drain /\ x.active = e.active
        /\ x.sessions = [e.sessions EXCEPT ![s] = given]
    BY <2>2 DEF State
  <2> HIDE DEF x
  <2>4. Eases(e, x)
    BY <2>1, <2>3 DEF Eases, QueueOf, PopIn
  <2>5. Good(x)
    BY <2>4, EasedGood
  <2> QED
    BY <2>5 DEF x
<1>4. CASE InboxFor(s) # <<>> /\ d # 0
  <2> DEFINE given == DeliverSlot(session)
             rest == Shifted(e.slots[d], session)
  <2>1. given.slot = d /\ given.sync = 0
    BY <1>1, WriteKeeps DEF DeliverSlot
  <2>2. rest.attached = e.slots[d].attached
    <3>1. e.slots[d] \in Slot
      BY <1>1, <1>4 DEF State
    <3> QED
      BY <3>1 DEF Shifted, Slot
  <2> HIDE DEF given, rest
  <2>3. x = [e EXCEPT !.sessions[s] = given, !.slots[d] = rest]
    BY <1>4 DEF LocalSync, given, rest
  <2>4. /\ x.slots = [e.slots EXCEPT ![d] = rest]
        /\ x.drain = e.drain /\ x.active = e.active
        /\ x.sessions = [e.sessions EXCEPT ![s] = given]
    BY <2>3 DEF State
  <2>5. DOMAIN e.slots = Slots
    BY DEF State
  <2> HIDE DEF x
  <2>6. ASSUME NEW t \in DOMAIN e.sessions, x.sessions[t].sync # 0
        PROVE  /\ x.sessions[t] = e.sessions[t]
               /\ QueueOf(x, t) = QueueOf(e, t)
    <3>1. t # s /\ x.sessions[t] = e.sessions[t]
      BY <2>1, <2>4, <2>6
    <3>2. e.sessions[t].slot # d
      BY <1>4, <3>1 DEF Good, AttachedIn
    <3>3. e.sessions[t].slot \in Slots \cup {0}
      BY TableType DEF State, Session
    <3> QED
      BY <2>4, <2>5, <3>1, <3>2, <3>3 DEF QueueOf
  <2>7. \A y \in Slots : x.slots[y].attached = e.slots[y].attached
    BY <2>2, <2>4, <2>5
  <2>8. Eases(e, x)
    BY <2>1, <2>4, <2>6, <2>7 DEF Eases, PopIn
  <2>9. Good(x)
    BY <2>8, EasedGood
  <2> QED
    BY <2>9 DEF x
<1> QED
  BY <1>2, <1>3, <1>4

\* schedule, first loop, a command answered by the broker.
LEMMA ScheduleLocalGood ==
  ASSUME TypeInv, InboxInv, NEW s, ScheduleLocal(s)
  PROVE  InboxInv'
<1> DEFINE n == next_session
           command == Head(sessions[s].commands)
           taken == [sessions[s] EXCEPT !.commands = Tail(sessions[s].commands)]
           e == [Now EXCEPT !.sessions[s].commands = Tail(sessions[s].commands)]
<1>1. s \in DOMAIN sessions /\ sessions[s].commands # <<>>
      /\ sessions[s].sync = 0 /\ phase = "local" /\ phase' = phase
  BY DEF ScheduleLocal, LocalReady, HeadReady
<1>2. n \in Nat /\ e \in State(n) /\ taken \in Session
  BY <1>1, TailTaken DEF TypeInv, TypeOK
<1>3. /\ e.sessions[s] = taken
      /\ DOMAIN e.sessions = DOMAIN sessions
      /\ e.slots = slots
  BY <1>1 DEF Now
<1>4. sessions[s] \in Session
  BY <1>1 DEF TypeInv, TypeOK
<1>5. taken.slot = sessions[s].slot /\ taken.inbox = sessions[s].inbox
      /\ taken.sync = sessions[s].sync
  BY <1>4 DEF Session
<1>6. command \in Command
  BY <1>1, CommandOf DEF TypeInv
<1>7. e = [Now EXCEPT !.sessions[s] = taken]
  BY NowFacts
<1> HIDE DEF taken
<1>8. Good(e)
  BY <1>1, <1>5, <1>7, NowFacts, RefusalEases, EasedGood
<1> HIDE DEF e
<1>9. QueueOf(e, s) = InboxFor(s)
  BY <1>3, <1>5 DEF QueueOf, InboxFor
<1>10. Reply(taken, "frame") \in Session
       /\ Reply(taken, "frame").slot = taken.slot
       /\ Reply(taken, "frame").sync = taken.sync
       /\ Reply(taken, "frame").inbox = taken.inbox
  BY <1>2, ReplyType, WriteKeeps DEF WriteKinds
<1> DEFINE scoped == [Reply(taken, "frame") EXCEPT !.scope = command.arg]
<1>11. scoped \in Session /\ scoped.slot = taken.slot
       /\ scoped.sync = taken.sync /\ scoped.inbox = taken.inbox
  BY <1>6, <1>10, CommandTypes DEF Session
<1> HIDE DEF scoped, command, n
<1>12. LocalSync(e, s) \in State(n) /\ Good(LocalSync(e, s))
  <2>1. LocalSync(e, s) \in State(n)
    BY <1>1, <1>2, <1>3, <1>5, LocalSyncType DEF n
  <2>2. pop_sequence + 1 \in Nat
    BY DEF TypeInv, TypeOK
  <2>3. Good(LocalSync(e, s))
    BY <1>1, <1>2, <1>3, <1>5, <1>8, <1>9, <2>2, LocalSyncGood
  <2> QED
    BY <2>1, <2>3
<1>13. ASSUME NEW session \in {Reply(taken, "frame"), scoped}
       PROVE  /\ [e EXCEPT !.sessions[s] = session] \in State(n)
              /\ Good([e EXCEPT !.sessions[s] = session])
  <2>1. session \in Session /\ session.slot = taken.slot
        /\ session.sync = taken.sync /\ session.inbox = taken.inbox
    BY <1>10, <1>11
  <2> QED
    BY <1>1, <1>2, <1>3, <1>8, <2>1, UpdateSession, RefusalEases, EasedGood
<1>14. /\ LocalEffect(e, s, command) \in State(n)
       /\ Good(LocalEffect(e, s, command))
  BY <1>3, <1>12, <1>13 DEF LocalEffect, scoped
<1>15. Commit(LocalEffect(e, s, command))
  BY DEF ScheduleLocal, e, command
<1> QED
  BY <1>1, <1>2, <1>14, <1>15, LoopGood

\* schedule, first loop, a command that is too old.
LEMMA ScheduleAgedGood ==
  ASSUME TypeInv, InboxInv, NEW s, ScheduleAged(s)
  PROVE  InboxInv'
<1> DEFINE refused == [Reply(sessions[s], "frame") EXCEPT
                         !.commands = Tail(sessions[s].commands)]
           x == [Now EXCEPT !.sessions[s] = refused]
<1>1. s \in DOMAIN sessions /\ sessions[s].commands # <<>>
      /\ sessions[s] \in Session /\ phase = "local" /\ phase' = phase
  BY DEF ScheduleAged, HeadReady, TypeInv, TypeOK
<1>2. Tail(sessions[s].commands) \in Seq(Command)
  BY <1>1, CommandOf DEF TypeInv
<1>3. Reply(sessions[s], "frame") \in Session
      /\ Reply(sessions[s], "frame").slot = sessions[s].slot
      /\ Reply(sessions[s], "frame").sync = sessions[s].sync
      /\ Reply(sessions[s], "frame").inbox = sessions[s].inbox
  BY <1>1, ReplyType, WriteKeeps DEF WriteKinds
<1>4. refused \in Session /\ refused.slot = sessions[s].slot
      /\ refused.sync = sessions[s].sync /\ refused.inbox = sessions[s].inbox
  BY <1>2, <1>3 DEF Session
<1>5. Commit(x)
  BY DEF ScheduleAged
<1> HIDE DEF refused
<1>6. x \in State(next_session)
  BY <1>1, <1>4, NowFacts, UpdateSession
<1>7. Good(x)
  BY <1>1, <1>4, NowFacts, RefusalEases, EasedGood
<1> HIDE DEF x
<1> QED
  BY <1>1, <1>5, <1>6, <1>7, NowFacts, LoopGood

\* A turn of the round robin is taken only while nothing is in flight.
LEMMA TurnIsFree ==
  ASSUME InboxInv, AtTurn
  PROVE  ~ Busy /\ ~ PopIn(Now)
BY DEF InboxInv, TurnFree, AtTurn, PopIn, Busy, Now

\* The pop that was requested is in flight from now on.
LEMMA TurnPopGood ==
  ASSUME TypeInv, InboxInv, NEW k, TurnPop(k)
  PROVE  InboxInv'
<1> DEFINE n == next_session
           e == [Now EXCEPT !.order = Rotated(k)]
           x == DispatchPop(e)
<1>1. n \in Nat /\ order \in Seq(Nat)
  BY DEF TypeInv, TypeOK
<1>2. k \in Nat /\ k <= Len(order)
  BY DEF TurnPop, NextTurn, TurnsLeft, TypeInv, TypeOK
<1>3. Rotated(k) \in Seq(Nat)
  BY <1>1, <1>2, RotatedType
<1>4. e \in State(n)
  BY <1>1, <1>3, NowFacts, SmallChanges
<1>5. e.sessions = sessions /\ e.slots = slots /\ e.drain = drain
  BY DEF Now
<1>6. Commit(x) /\ phase' = "idle"
  BY DEF TurnPop
<1> HIDE DEF e
<1>7. x \in State(n)
  BY <1>1, <1>4, DispatchPopType
<1>8. /\ x.sessions = sessions /\ x.slots = slots
      /\ x.drain.authorized = drain.authorized
      /\ PopIn(x)
  BY <1>4, <1>5 DEF DispatchPop, SendCommand, SendUpstream, State, PopIn,
     NoTransaction
<1> HIDE DEF x
<1>9. Good(x)
  BY <1>8, NowFacts DEF Good, AttachedIn, WaitsIn, AwakeIn, QueueOf
<1> QED
  BY <1>1, <1>6, <1>7, <1>9, LoopGood

\* Taking a command from a queue changes neither the wait nor the inbox.
LEMMA TurnTakenEases ==
  ASSUME TypeInv, InboxInv, NEW k, NEW s, s # 0, NextTurn(k, s)
  PROVE  LET e == TurnTaken(k, s, Head(sessions[s].commands))
         IN Good(e) /\ ~ PopIn(e) /\ e.active = active
<1> DEFINE command == Head(sessions[s].commands)
           taken == [sessions[s] EXCEPT !.commands = Tail(sessions[s].commands)]
           x == [Now EXCEPT !.sessions[s] = taken]
           e == TurnTaken(k, s, command)
<1>1. s \in DOMAIN sessions /\ sessions[s] \in Session /\ AtTurn
  BY DEF NextTurn, HasWork, TypeInv, TypeOK
<1>2. taken.slot = sessions[s].slot /\ taken.inbox = sessions[s].inbox
      /\ taken.sync = sessions[s].sync
  BY <1>1 DEF Session
<1>3. e.sessions = [sessions EXCEPT ![s] = taken] /\ e.slots = slots
      /\ e.drain = drain /\ e.active = active
  BY <1>1 DEF TurnTaken, Now
<1>4. x.sessions = [sessions EXCEPT ![s] = taken] /\ x.slots = slots
      /\ x.drain = drain /\ x.active = active
  BY DEF Now
<1> HIDE DEF taken
<1>5. Eases(Now, x)
  BY <1>1, <1>2, NowFacts, RefusalEases
<1> HIDE DEF x, e
<1>6. Eases(x, e)
  BY <1>3, <1>4, UnrelatedEases
<1>7. Good(e)
  BY <1>5, <1>6, NowFacts, EasesTransitive, EasedGood
<1>8. ~ PopIn(e)
  BY <1>1, <1>3, TurnIsFree DEF PopIn, Now
<1> QED
  BY <1>3, <1>7, <1>8 DEF e

\* schedule, second loop, a client's command that is admitted.
LEMMA TurnDispatchGood ==
  ASSUME TypeInv, InboxInv, NEW k, NEW s, TurnDispatch(k, s)
  PROVE  InboxInv'
<1> DEFINE n == next_session
           command == Head(sessions[s].commands)
           e == TurnTaken(k, s, command)
           x == Reserved(e, s, command)
           y == Dispatch(x, s, command)
<1>1. s # 0 /\ NextTurn(k, s)
  BY DEF TurnDispatch
<1>2. /\ s \in DOMAIN sessions
      /\ command \in Command
      /\ e \in State(n)
      /\ DOMAIN e.sessions = DOMAIN sessions
  BY <1>1, TurnTakenType
<1>3. n \in Nat /\ s \in Nat
  BY <1>2 DEF TypeInv, TypeOK
<1>4. Good(e) /\ ~ PopIn(e)
  BY <1>1, TurnTakenEases
<1>5. Commit(y) /\ phase' = "idle"
  BY DEF TurnDispatch
<1> HIDE DEF command, e
<1>6. x \in State(n) /\ x.sessions = e.sessions
  BY <1>2, <1>3, ReservedType
<1>7. x.slots = e.slots /\ x.drain = e.drain /\ x.active = e.active
  BY <1>2 DEF Reserved, State
<1> HIDE DEF x
<1>8. y \in State(n)
  BY <1>2, <1>3, <1>6, DispatchType
<1>9. y.sessions = x.sessions /\ y.slots = x.slots /\ y.drain = x.drain
  BY <1>3, <1>6, SendUpstreamKeeps DEF Dispatch, SendCommand
<1> HIDE DEF y
<1>10. Eases(e, y)
  BY <1>4, <1>6, <1>7, <1>9, TransactionEases
<1>11. Good(y)
  BY <1>2, <1>3, <1>4, <1>10, EasedGood
<1> QED
  BY <1>3, <1>5, <1>8, <1>11, LoopGood

\* schedule, second loop, a client's command that is refused.
LEMMA TurnRejectGood ==
  ASSUME TypeInv, InboxInv, NEW k, NEW s, TurnReject(k, s)
  PROVE  InboxInv'
<1> DEFINE n == next_session
           e == TurnTaken(k, s, Head(sessions[s].commands))
           x == [e EXCEPT !.sessions[s] = Reply(e.sessions[s], "frame")]
<1>1. s # 0 /\ NextTurn(k, s) /\ AtTurn
  BY DEF TurnReject, NextTurn
<1>2. n \in Nat /\ e \in State(n) /\ s \in DOMAIN e.sessions
      /\ e.sessions[s] \in Session
  BY <1>1, TurnTakenType DEF TypeInv, TypeOK
<1>3. Good(e) /\ e.active = active
  BY <1>1, TurnTakenEases
<1>4. Commit(x)
  BY DEF TurnReject
<1> HIDE DEF e, n
<1>5. Reply(e.sessions[s], "frame") \in Session
  BY <1>2, ReplyType DEF WriteKinds
<1>6. x \in State(n)
  BY <1>2, <1>5, UpdateSession
<1>7. Good(x)
  BY <1>2, <1>3, WriteKeeps, RefusalEases, EasedGood
<1>8. x.active = active
  BY <1>2, <1>3 DEF State
<1>9. x.active.step = "none"
  BY <1>1, <1>8, TurnIsFree DEF Busy
<1> HIDE DEF x
<1> QED
  BY <1>2, <1>4, <1>6, <1>7, <1>9, LoopGood

\* Steps that touch neither sessions, slots, drain nor transaction.
LEMMA QuietGood ==
  ASSUME InboxInv,
         \/ ScheduleBusy \/ TurnNone \/ TakeWrite \/ QuarantineDeadline
         \/ \E i \in RingSlots : DmDeadline(i)
         \/ UNCHANGED vars
  PROVE  InboxInv'
<1>1. UNCHANGED <<sessions, slots, drain, active>>
      /\ (phase' = phase \/ phase' = "idle")
  BY DEF ScheduleBusy, TurnNone, TakeWrite, QuarantineDeadline, DmDeadline, vars
<1> QED
  BY <1>1 DEF InboxInv, SlotAttachment, SyncWaitsOnEmptyInbox, NoLostWakeup,
     TurnFree, Waiting, InboxFor, Popping, Busy

-----------------------------------------------------------------------------
(* After the epoch has failed *)

\* A failed epoch has neither sessions nor a transaction.
Ended == failed => DOMAIN sessions = {} /\ ~ Busy

\* A handler that fails the epoch leaves neither sessions nor a transaction.
LEMMA CommitEnded ==
  ASSUME NEW e, Commit(e), ~ failed
  PROVE  Ended'
<1>1. NextState(e)
  BY DEF Commit
<1>2. CASE EpochEnds(e)
  <2>1. DOMAIN sessions' = {} /\ active'.step = "none"
    BY <1>1, <1>2 DEF NextState, FailEpoch, NoTransaction
  <2> QED
    BY <2>1 DEF Ended, Busy
<1>3. CASE ~ EpochEnds(e)
  <2>1. ~ failed'
    BY <1>1, <1>3 DEF NextState, Continue
  <2> QED
    BY <2>1 DEF Ended
<1> QED
  BY <1>2, <1>3

\* And a handler that finds neither keeps it so.
LEMMA CommitStaysEnded ==
  ASSUME NEW e, Commit(e), DOMAIN e.sessions = {}, e.active.step = "none"
  PROVE  Ended'
<1>1. NextState(e)
  BY DEF Commit
<1>2. Survivors(e) = {}
  BY DEF Survivors
<1>3. DOMAIN sessions' = {} /\ active'.step = "none"
  <2>1. CASE EpochEnds(e)
    BY <1>1, <2>1 DEF NextState, FailEpoch, NoTransaction
  <2>2. CASE ~ EpochEnds(e)
    BY <1>1, <1>2, <2>2 DEF NextState, Continue
  <2> QED
    BY <2>1, <2>2
<1> QED
  BY <1>3 DEF Ended, Busy

\* A push that answers no transaction changes neither the set of sessions nor
\* the transaction.
LEMMA PushIsAside ==
  ASSUME TypeInv, ~ Busy, NEW f
  PROVE  DOMAIN Push(f).sessions = DOMAIN sessions /\ Push(f).active = active
<1>1. LET x == AvailabilityHint
      IN DOMAIN x.sessions = DOMAIN sessions /\ x.active = active
  BY DEF AvailabilityHint, HintAll, Now
<1>2. LET x == RemoteResult(f)
      IN DOMAIN x.sessions = DOMAIN sessions /\ x.active = active
  BY DEF RemoteResult, Now
<1>3. LET x == [Now EXCEPT !.sessions = EmitAll(sessions, "frame")]
      IN DOMAIN x.sessions = DOMAIN sessions /\ x.active = active
  BY DEF EmitAll, Now
<1>4. LET x == [Now EXCEPT !.dm_ring = DmConfirm(dm_ring, f.arg),
                           !.sessions = EmitAll(sessions, "frame")]
      IN DOMAIN x.sessions = DOMAIN sessions /\ x.active = active
  BY DEF EmitAll, Now
<1>5. ~ AnswersSelfTelemetry(f)
  BY DEF AnswersSelfTelemetry
<1> QED
  BY <1>1, <1>2, <1>3, <1>4, <1>5 DEF Push

\* Nor does the result of a pop read after the epoch failed.
LEMMA PopResultIsAside ==
  ASSUME NEW n \in Nat, NEW e \in State(n), NEW tx, NEW f
  PROVE  LET x == PopResult(e, tx, f)
         IN DOMAIN x.sessions = DOMAIN e.sessions /\ x.active = e.active
<1>1. LET x == NoMoreMessages(e, tx)
      IN DOMAIN x.sessions = DOMAIN e.sessions /\ x.active = e.active
  BY DEF NoMoreMessages, State
<1>2. LET x == FanOut(e, tx, f.arg)
      IN DOMAIN x.sessions = DOMAIN e.sessions /\ x.active = e.active
  BY DEF FanOut, State
<1>3. LET x == [e EXCEPT !.drain.requested = e.drain.authorized]
      IN DOMAIN x.sessions = DOMAIN e.sessions /\ x.active = e.active
  BY DEF State
<1> QED
  BY <1>1, <1>2, <1>3 DEF PopResult

\* The rest of an old connection's reply, read for the items it may hold.
LEMMA DrainUncertainFrameGood ==
  ASSUME TypeInv, InboxInv, Ended, NEW f \in Frames, DrainUncertainFrame(f)
  PROVE  InboxInv' /\ Ended'
<1> DEFINE n == next_session
           paid == [Now EXCEPT !.debt = NoTransaction]
           started == [Now EXCEPT !.debt.contacts_started = TRUE]
<1>1. n \in Nat /\ Now \in State(n) /\ Now.debt = debt
  BY NowType DEF TypeInv, TypeOK, Now
<1>2. debt \in Transaction /\ PopShape(debt)
  BY DEF TypeInv, TypeOK
<1>3. paid \in State(n)
  BY <1>1, SmallChanges
<1>4. started \in State(n)
  <2>1. [debt EXCEPT !.contacts_started = TRUE] \in Transactions
    BY <1>2 DEF Transactions, Transaction, PopShape
  <2> QED
    BY <1>1, <2>1 DEF State
<1>5. /\ paid.sessions = sessions /\ paid.slots = slots
      /\ paid.drain = drain /\ paid.active = active
      /\ started.sessions = sessions /\ started.slots = slots
      /\ started.drain = drain /\ started.active = active
  BY DEF Now
<1>6. DOMAIN sessions = {} /\ ~ Busy
  BY DEF DrainUncertainFrame, Ended
<1>7. \/ Commit(Push(f))
      \/ Commit(paid)
      \/ DebtPaid(f) /\ KeepsItem(f) /\ Commit(PopResult(paid, debt, f))
      \/ Commit(started)
  BY DEF DrainUncertainFrame
<1> HIDE DEF paid, started
<1>8. Good(paid) /\ Good(started)
  BY <1>5, NowFacts, UnrelatedEases, EasedGood
<1>9. ASSUME NEW x, x \in State(n), Commit(x), Good(x) \/ x.failing,
             DOMAIN x.sessions = {}, x.active = active
      PROVE  InboxInv' /\ Ended'
  <2>1. x.active.step = "none"
    BY <1>6, <1>9 DEF Busy
  <2> QED
    BY <1>1, <1>9, <2>1, LoopGood, CommitStaysEnded
<1>10. CASE Commit(Push(f))
  BY <1>6, <1>9, <1>10, PushType, PushGood, PushIsAside
<1>11. CASE Commit(paid) \/ Commit(started)
  BY <1>3, <1>4, <1>5, <1>6, <1>8, <1>9, <1>11
<1>12. CASE DebtPaid(f) /\ KeepsItem(f) /\ Commit(PopResult(paid, debt, f))
  <2>1. /\ debt.command = Sync
        /\ debt.contacts_started \in BOOLEAN
        /\ ValidResponse(debt.command, debt.contacts_started, f)
    BY <1>2, <1>12 DEF KeepsItem, DebtPaid, PopShape, Transaction
  <2>2. f.code \in {"err", "message", "no_more_messages"}
    BY <2>1, SyncReplies
  <2>3. f.code \in {"message", "no_more_messages"}
    BY <1>12, <2>2 DEF KeepsItem
  <2>4. PopResult(paid, debt, f) \in State(n)
    BY <1>1, <1>2, <1>3, <2>3, PopResultType
  <2>5. Good(PopResult(paid, debt, f))
    BY <1>1, <1>3, <1>8, <2>3, PopResultGood DEF Good
  <2>6. DOMAIN PopResult(paid, debt, f).sessions = {}
        /\ PopResult(paid, debt, f).active = active
    BY <1>1, <1>3, <1>5, <1>6, PopResultIsAside
  <2> QED
    BY <1>9, <1>12, <2>4, <2>5, <2>6
<1> QED
  BY <1>7, <1>10, <1>11, <1>12

\* A new broker starts without sessions; its slots have nobody attached.
LEMMA RestartGood ==
  ASSUME InboxInv, Ended, NEW same_key, Restart(same_key)
  PROVE  InboxInv' /\ Ended'
<1>1. DOMAIN sessions = {} /\ ~ Busy
  BY DEF Restart, Ended
<1>2. \A d \in Slots : slots'[d].attached = 0
  BY <1>1 DEF Restart, InboxInv, SlotAttachment, EmptySlot
<1>3. UNCHANGED <<sessions, active, phase>> /\ ~ failed'
  BY DEF Restart
<1> QED
  BY <1>1, <1>2, <1>3 DEF InboxInv, SlotAttachment, SyncWaitsOnEmptyInbox,
     NoLostWakeup, TurnFree, Waiting, Busy, Ended

\* Every other step keeps Ended: handlers run only while the epoch has not
\* failed, and the loops of schedule only find work with a session.
LEMMA EndedKept ==
  ASSUME Ended, Next, \A f \in Frames : ~ DrainUncertainFrame(f),
         \A same_key \in BOOLEAN : ~ Restart(same_key)
  PROVE  Ended'
<1>1. CASE ScheduleStep
  <2>1. ASSUME NEW s \in DOMAIN sessions, ScheduleLocal(s)
        PROVE  Ended'
    BY <2>1, CommitEnded DEF ScheduleLocal, Ended
  <2>2. ASSUME NEW s \in DOMAIN sessions, ScheduleAged(s)
        PROVE  Ended'
    BY <2>2, CommitEnded DEF ScheduleAged, Ended
  <2>3. ASSUME NEW k, TurnPop(k)
        PROVE  Ended'
    BY <2>3, CommitEnded DEF TurnPop, NextTurn, HasWork, Ended
  <2>4. ASSUME NEW k, NEW s \in DOMAIN sessions, TurnDispatch(k, s)
        PROVE  Ended'
    BY <2>4, CommitEnded DEF TurnDispatch, Ended
  <2>5. ASSUME NEW k, NEW s \in DOMAIN sessions, TurnReject(k, s)
        PROVE  Ended'
    BY <2>5, CommitEnded DEF TurnReject, Ended
  <2>6. CASE ScheduleBusy \/ TurnNone
    BY <2>6 DEF ScheduleBusy, TurnNone, Ended, Busy
  <2> QED
    BY <1>1, <2>1, <2>2, <2>3, <2>4, <2>5, <2>6 DEF ScheduleStep
<1>2. CASE ClientStep
  <2>1. ASSUME NEW d, Admit(d)
        PROVE  Ended'
    <3>1. ~ failed
      BY <2>1 DEF Admit, AtRest
    <3>2. failed' = failed \/ \E e : Commit(e)
      BY <2>1 DEF Admit, CommitAndSchedule
    <3> QED
      BY <3>1, <3>2, CommitEnded DEF Ended
  <2>2. ASSUME NEW s, NEW command, ClientFrame(s, command)
        PROVE  Ended'
    BY <2>2, CommitEnded DEF ClientFrame, AtRest, CommitAndSchedule
  <2>3. ASSUME NEW s, ClientClosed(s)
        PROVE  Ended'
    BY <2>3, CommitEnded DEF ClientClosed, AtRest, CommitAndSchedule
  <2>4. ASSUME NEW s, Written(s)
        PROVE  Ended'
    BY <2>4, CommitEnded DEF Written, AtRest, CommitAndSchedule
  <2>5. ASSUME NEW id, WriteFailed(id)
        PROVE  Ended'
    BY <2>5, CommitEnded DEF WriteFailed, AtRest, CommitAndSchedule
  <2> QED
    BY <1>2, <2>1, <2>2, <2>3, <2>4, <2>5 DEF ClientStep
<1>3. CASE UpstreamStep
  <2>1. ASSUME NEW w, UpstreamWritten(w)
        PROVE  Ended'
    BY <2>1, CommitEnded DEF UpstreamWritten, AtRest, CommitAndSchedule
  <2>2. ASSUME NEW f, UpstreamFrame(f)
        PROVE  Ended'
    BY <2>2, CommitEnded DEF UpstreamFrame, AtRest, CommitAndSchedule
  <2>3. CASE LateUpstreamFrame \/ UpstreamClosed
    BY <2>3, CommitEnded DEF LateUpstreamFrame, UpstreamClosed, AtRest,
       CommitAndSchedule
  <2>4. CASE TakeWrite
    BY <2>4 DEF TakeWrite, Ended, Busy
  <2> QED
    BY <1>3, <2>1, <2>2, <2>3, <2>4 DEF UpstreamStep
<1>4. CASE ClockStep
  <2>1. CASE ResponseTimeout \/ UpstreamWriteTimeout
    BY <2>1, CommitEnded DEF ResponseTimeout, UpstreamWriteTimeout, AtRest,
       CommitAndSchedule
  <2>2. ASSUME NEW stuck, NEW late, NEW expired, NEW poll,
               Tick(stuck, late, expired, poll)
        PROVE  Ended'
    BY <2>2, CommitEnded DEF Tick, AtRest, CommitAndSchedule
  <2>3. CASE QuarantineDeadline \/ \E i \in RingSlots : DmDeadline(i)
    BY <2>3 DEF QuarantineDeadline, DmDeadline, Ended, Busy
  <2> QED
    BY <1>4, <2>1, <2>2, <2>3 DEF ClockStep
<1> QED
  BY <1>1, <1>2, <1>3, <1>4 DEF Next

-----------------------------------------------------------------------------
(* The invariant and the theorems *)

\* The invariant holds at the start.
LEMMA InboxInit == Init => InboxInv /\ Ended
<1> SUFFICES ASSUME Init PROVE InboxInv /\ Ended
  OBVIOUS
<1>1. DOMAIN sessions = {} /\ failed = FALSE /\ phase = "idle"
      /\ \A d \in Slots : slots[d].attached = 0
  BY DEF Init, EmptySlot
<1> QED
  BY <1>1 DEF InboxInv, SlotAttachment, SyncWaitsOnEmptyInbox, NoLostWakeup,
     TurnFree, Waiting, Ended

\* Every step keeps the invariant.
LEMMA InboxStep ==
  TypeInv /\ InboxInv /\ Ended /\ [Next]_vars => InboxInv' /\ Ended'
<1> SUFFICES ASSUME TypeInv, InboxInv, Ended, [Next]_vars
             PROVE  InboxInv' /\ Ended'
  OBVIOUS
<1>1. CASE \E f \in Frames : DrainUncertainFrame(f)
  BY <1>1, DrainUncertainFrameGood
<1>2. CASE \E same_key \in BOOLEAN : Restart(same_key)
  BY <1>2, RestartGood
<1>3. CASE UNCHANGED vars
  <2>1. Ended'
    BY <1>3 DEF Ended, Busy, vars
  <2> QED
    BY <1>3, <2>1, QuietGood
<1>4. CASE /\ Next
           /\ \A f \in Frames : ~ DrainUncertainFrame(f)
           /\ \A same_key \in BOOLEAN : ~ Restart(same_key)
  <2>1. Ended'
    BY <1>4, EndedKept
  <2> SUFFICES InboxInv'
    BY <2>1
  <2>2. CASE ScheduleStep
    BY <2>2, ScheduleLocalGood, ScheduleAgedGood, TurnPopGood,
       TurnDispatchGood, TurnRejectGood, QuietGood DEF ScheduleStep
  <2>3. CASE ClientStep
    BY <2>3, AdmitGood, ClientFrameGood, ClientClosedGood, WrittenGood,
       WriteFailedGood DEF ClientStep
  <2>4. CASE UpstreamStep
    <3>1. CASE LateUpstreamFrame \/ UpstreamClosed
      BY <3>1, EpochEndGood DEF LateUpstreamFrame, UpstreamClosed
    <3>2. CASE ~ (LateUpstreamFrame \/ UpstreamClosed)
      BY <1>4, <2>4, <3>2, UpstreamWrittenGood, UpstreamFrameGood, QuietGood
         DEF UpstreamStep
    <3> QED
      BY <3>1, <3>2
  <2>5. CASE ClockStep
    <3>1. CASE ResponseTimeout \/ UpstreamWriteTimeout
      BY <3>1, EpochEndGood DEF ResponseTimeout, UpstreamWriteTimeout
    <3>2. CASE ~ (ResponseTimeout \/ UpstreamWriteTimeout)
      BY <2>5, <3>2, TickGood, QuietGood DEF ClockStep
    <3> QED
      BY <3>1, <3>2
  <2> QED
    BY <1>4, <2>1, <2>2, <2>3, <2>4, <2>5 DEF Next
<1> QED
  BY <1>1, <1>2, <1>3, <1>4

\* The inductive invariant, of which the theorems are parts.
LEMMA InboxInvariant == Spec => [](TypeInv /\ InboxInv /\ Ended)
<1>1. Init => TypeInv /\ InboxInv /\ Ended
  BY TypeInit, InboxInit
<1>2. TypeInv /\ InboxInv /\ Ended /\ [Next]_vars
        => (TypeInv /\ InboxInv /\ Ended)'
  BY TypeStep, InboxStep
<1> QED
  BY <1>1, <1>2, PTL DEF Spec

\* A slot's attached session is the one live session with that slot, whatever
\* the order of connections, replacements, disconnections and failed epochs:
\* admit, remove and fail_epoch always change both sides together.
THEOREM AttachmentAlways == Spec => []SlotAttachment
<1>1. InboxInv => SlotAttachment
  BY DEF InboxInv
<1> QED
  BY <1>1, InboxInvariant, PTL

\* A client only waits for a message while its own queue is empty: schedule
\* starts the wait on an empty queue, and whatever pop_result adds to the
\* queue ends it.
THEOREM WaitsOnEmptyInbox == Spec => []SyncWaitsOnEmptyInbox
<1>1. InboxInv => SyncWaitsOnEmptyInbox
  BY DEF InboxInv
<1> QED
  BY <1>1, InboxInvariant, PTL

\* While a client waits, draining is authorized and a pop is requested or in
\* flight: neither pop_result's newer_work, nor the removal of other sessions,
\* nor an error reply ever leaves a wait without the pop that ends it.
THEOREM WakeupNeverLost == Spec => []NoLostWakeup
<1>1. InboxInv => NoLostWakeup
  BY DEF InboxInv
<1> QED
  BY <1>1, InboxInvariant, PTL

=============================================================================
