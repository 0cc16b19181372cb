--------------------------- MODULE MessageProofs ---------------------------
(***************************************************************************)
(* The messages: each client is given them in order, and none is lost.     *)
(*                                                                         *)
(* QueueInv is about the age of the items: given out, on the link, still   *)
(* in the companion's inbox.                                               *)
(*                                                                         *)
(* OweInv is about the pop that an epoch leaves unanswered: while it is    *)
(* owed, no other message can take its place on the link.                  *)
(*                                                                         *)
(* SlotsMissNothing is inductive beside them: a step either slides along   *)
(* a slot's queue or appends to it the message taken from the companion.   *)
(***************************************************************************)
EXTENDS MuxProofs

-----------------------------------------------------------------------------
(* InboxInOrder: the ages of the items                                     *)
(*                                                                         *)
(* Items are numbered in the order in which they arrive.  Whatever a       *)
(* client or a slot has been given or has queued is older than every item  *)
(* on the link, and those are older than what the companion still holds.   *)

\* A queue in order, behind the last item taken from it, with none after m.
Lined(last, queue, m) ==
  /\ last <= m
  /\ \A i \in DOMAIN queue : last < queue[i] /\ queue[i] <= m
  /\ \A i, j \in DOMAIN queue : i < j => queue[i] < queue[j]

LEMMA LinedTail ==
  ASSUME NEW queue \in Seq(Items), queue # <<>>, NEW last \in Nat,
         NEW m \in Nat, Lined(last, queue, m)
  PROVE  Lined(Head(queue), Tail(queue), m)
<1>1. 1 \in DOMAIN queue /\ Head(queue) = queue[1]
  OBVIOUS
<1>2. \A i \in DOMAIN Tail(queue) :
        i \in Nat \ {0} /\ i + 1 \in DOMAIN queue /\ Tail(queue)[i] = queue[i + 1]
  OBVIOUS
<1> DEFINE rest == Tail(queue)
<1>3. \A i \in DOMAIN rest :
        i \in Nat \ {0} /\ i + 1 \in DOMAIN queue /\ rest[i] = queue[i + 1]
  BY <1>2
<1> HIDE DEF rest
<1>4. ASSUME NEW i \in DOMAIN rest
      PROVE  queue[1] < rest[i] /\ rest[i] <= m
  <2>1. 1 < i + 1
    BY <1>3
  <2> QED
    BY <1>1, <1>3, <2>1 DEF Lined
<1>5. ASSUME NEW i \in DOMAIN rest, NEW j \in DOMAIN rest, i < j
      PROVE  rest[i] < rest[j]
  <2>1. i + 1 < j + 1
    BY <1>3, <1>5
  <2> QED
    BY <1>3, <2>1 DEF Lined
<1>6. queue[1] <= m
  BY <1>1 DEF Lined
<1> QED
  BY <1>1, <1>4, <1>5, <1>6 DEF Lined, rest

\* The new item is the newest.
LEMMA LinedAppend ==
  ASSUME NEW queue \in Seq(Items), NEW item \in Items, NEW last \in Nat,
         NEW m \in Nat, m < item, Lined(last, queue, m)
  PROVE  Lined(last, Append(queue, item), item)
<1> DEFINE more == Append(queue, item)
<1>0. \A i \in DOMAIN queue : queue[i] \in Items
  OBVIOUS
<1>1. item \in Nat /\ \A i \in DOMAIN queue : queue[i] \in Nat
  BY <1>0, ItemsAreNumbers
<1>2. \A i \in DOMAIN more :
        \/ i \in DOMAIN queue /\ more[i] = queue[i]
        \/ more[i] = item /\ \A j \in DOMAIN queue : j < i
  OBVIOUS
<1>3. \A i, j \in DOMAIN more : i < j => i \in DOMAIN queue
  OBVIOUS
<1> HIDE DEF more
<1>4. \A i \in DOMAIN more : last < more[i] /\ more[i] <= item
  BY <1>1, <1>2 DEF Lined
<1>5. ASSUME NEW i \in DOMAIN more, NEW j \in DOMAIN more, i < j
      PROVE  more[i] < more[j]
  <2>1. i \in DOMAIN queue
    BY <1>3, <1>5
  <2>2. more[i] = queue[i]
    BY <1>2, <2>1
  <2>3. CASE j \in DOMAIN queue /\ more[j] = queue[j]
    BY <1>5, <2>1, <2>2, <2>3 DEF Lined
  <2>4. CASE more[j] = item
    BY <1>1, <2>1, <2>2, <2>4 DEF Lined
  <2> QED
    BY <1>2, <2>3, <2>4
<1> QED
  BY <1>1, <1>4, <1>5 DEF Lined, more

LEMMA LinedMore ==
  ASSUME NEW queue \in Seq(Items), NEW last \in Nat, NEW m \in Nat,
         NEW k \in Nat, m <= k, Lined(last, queue, m)
  PROVE  Lined(last, queue, k)
<1>1. \A i \in DOMAIN queue : queue[i] \in Items
  OBVIOUS
<1>2. \A i \in DOMAIN queue : queue[i] \in Nat
  BY <1>1, ItemsAreNumbers
<1> QED
  BY <1>2 DEF Lined

\* Making room leaves the others in order.
LEMMA LinedDelete ==
  ASSUME NEW queue \in Seq(Items), queue # <<>>, NEW c \in DOMAIN queue,
         NEW last \in Nat, NEW m \in Nat, Lined(last, queue, m)
  PROVE  Lined(last, DeleteAt(queue, c), m)
<1> DEFINE rest == DeleteAt(queue, c)
           from(i) == IF i < c THEN i ELSE i + 1
<1>1. rest \in Seq(Items) /\ DOMAIN rest = 1 .. Len(queue) - 1
      /\ c \in Nat /\ Len(queue) \in Nat /\ DOMAIN queue = 1 .. Len(queue)
  BY DeleteAtType DEF DeleteAt
<1>2. \A i \in DOMAIN rest :
        i \in Nat /\ from(i) \in DOMAIN queue /\ rest[i] = queue[from(i)]
  BY <1>1 DEF DeleteAt
<1>3. \A i, j \in DOMAIN rest : i < j => from(i) < from(j)
  BY <1>1, <1>2
<1> HIDE DEF rest, from
<1>4. \A i, j \in DOMAIN rest : i < j => rest[i] < rest[j]
  BY <1>2, <1>3 DEF Lined
<1>5. \A i \in DOMAIN rest : last < rest[i] /\ rest[i] <= m
  BY <1>2 DEF Lined
<1> QED
  BY <1>4, <1>5 DEF Lined, rest

\* enqueue, with the oldest channel item making room or the arriving one
\* discarded.
LEMMA LinedEnqueue ==
  ASSUME NEW queue \in Seq(Items), NEW item \in Items, NEW last \in Nat,
         NEW m \in Nat, m < item, Lined(last, queue, m)
  PROVE  Lined(last, EnqueueOffline(queue, item), item)
<1>1. item \in Nat
  BY ItemsAreNumbers
<1>2. CASE Discards(queue)
  BY <1>1, <1>2, LinedMore DEF EnqueueOffline
<1>3. CASE Full(queue) /\ ~ Discards(queue)
  <2> DEFINE c == OldestChannel(queue)
             rest == DeleteAt(queue, c)
  <2>1. c \in DOMAIN queue
    BY <1>3, OldestIsChannel DEF ChannelIndexes
  <2>2. queue # <<>>
    BY <2>1
  <2>3. EnqueueOffline(queue, item) = Append(rest, item)
    BY <1>3 DEF EnqueueOffline
  <2> HIDE DEF c
  <2>4. rest \in Seq(Items) /\ Lined(last, rest, m)
    BY <2>1, <2>2, DeleteAtType, LinedDelete
  <2> HIDE DEF rest
  <2> QED
    BY <2>3, <2>4, LinedAppend
<1>4. CASE ~ Full(queue)
  <2>1. EnqueueOffline(queue, item) = Append(queue, item)
    BY <1>4 DEF EnqueueOffline, Discards
  <2> QED
    BY <2>1, LinedAppend
<1> QED
  BY <1>2, <1>3, <1>4

\* What a handler's state e holds for the clients is in order, none after m.
OldIn(e, m) ==
  /\ e.orphan <= m
  /\ \A s \in DOMAIN e.sessions : Lined(e.sessions[s].last, e.sessions[s].inbox, m)
  /\ \A d \in Slots : Lined(e.slots[d].last, e.slots[d].queue, m)

SameLine(a, b) == b.inbox = a.inbox /\ b.last = a.last

\* Handlers that give nothing to clients and take nothing.
SameInboxes(e, x) ==
  /\ x.orphan = e.orphan
  /\ \A s \in DOMAIN x.sessions :
       s \in DOMAIN e.sessions /\ SameLine(e.sessions[s], x.sessions[s])
  /\ \A d \in Slots : x.slots[d].queue = e.slots[d].queue
                      /\ x.slots[d].last = e.slots[d].last

LEMMA SameOld ==
  ASSUME NEW e, NEW x, NEW m, OldIn(e, m), SameInboxes(e, x)
  PROVE  OldIn(x, m)
BY DEF OldIn, SameInboxes, SameLine

LEMMA SameInboxesTransitive ==
  ASSUME NEW e, NEW x, NEW y, SameInboxes(e, x), SameInboxes(x, y)
  PROVE  SameInboxes(e, y)
BY DEF SameInboxes, SameLine

LEMMA NothingMoved ==
  ASSUME NEW e, NEW x, x.sessions = e.sessions, x.slots = e.slots,
         x.orphan = e.orphan
  PROVE  SameInboxes(e, x)
BY DEF SameInboxes, SameLine

\* Writing to a client, the end of its wait, a command taken from its queue.
LEMMA LineKept ==
  ASSUME NEW session \in Session, NEW kind
  PROVE  /\ SameLine(session, session)
         /\ SameLine(session, Emit(session, kind))
         /\ SameLine(session, Hint(session))
         /\ SameLine(session, Reply(session, kind))
         /\ SameLine(session, [Reply(session, kind) EXCEPT !.sync = 0])
         /\ \A v : /\ SameLine(session, [Reply(session, kind) EXCEPT !.scope = v])
                   /\ SameLine(session, [Reply(session, kind) EXCEPT !.commands = v])
                   /\ SameLine(session, [session EXCEPT !.commands = v])
                   /\ SameLine(session, [session EXCEPT !.writes = v])
                   /\ SameLine(session, [session EXCEPT !.version = v])
         /\ \A v, w : SameLine(session, [session EXCEPT !.commands = v, !.owed = w])
<1>1. /\ DOMAIN session = DOMAIN NewSession(0)
      /\ {"inbox", "last", "sync", "scope", "commands", "writes", "owed",
          "version"} \subseteq DOMAIN session
  BY DEF Session, NewSession
<1>2. \A k : /\ SameLine(session, Emit(session, k))
             /\ DOMAIN Emit(session, k) = DOMAIN session
  BY <1>1 DEF SameLine, Emit
<1>3. \A k : /\ SameLine(session, Reply(session, k))
             /\ DOMAIN Reply(session, k) = DOMAIN session
  <2> TAKE k
  <2> DEFINE x == Emit(session, k)
  <2>1. SameLine(session, x) /\ DOMAIN x = DOMAIN session
    BY <1>2
  <2> HIDE DEF x
  <2>2. \A v : SameLine(x, [x EXCEPT !.owed = v])
               /\ DOMAIN [x EXCEPT !.owed = v] = DOMAIN x
    BY <1>1, <2>1 DEF SameLine
  <2> QED
    BY <2>1, <2>2 DEF Reply, SameLine, x
<1>4. SameLine(session, Hint(session))
  BY <1>2 DEF Hint, SameLine
<1> DEFINE r == Reply(session, kind)
<1>5. SameLine(session, r) /\ DOMAIN r = DOMAIN session
  BY <1>3
<1> HIDE DEF r
<1>6. /\ SameLine(r, [r EXCEPT !.sync = 0])
      /\ \A v : /\ SameLine(r, [r EXCEPT !.scope = v])
                /\ SameLine(r, [r EXCEPT !.commands = v])
  BY <1>1, <1>5 DEF SameLine
<1>7. /\ SameLine(session, [r EXCEPT !.sync = 0])
      /\ \A v : /\ SameLine(session, [r EXCEPT !.scope = v])
                /\ SameLine(session, [r EXCEPT !.commands = v])
  BY <1>5, <1>6 DEF SameLine
<1>8. /\ \A v : /\ SameLine(session, [session EXCEPT !.commands = v])
                /\ SameLine(session, [session EXCEPT !.writes = v])
                /\ SameLine(session, [session EXCEPT !.version = v])
      /\ \A v, w : SameLine(session, [session EXCEPT !.commands = v, !.owed = w])
      /\ SameLine(session, session)
  BY <1>1 DEF SameLine
<1> QED
  BY <1>2, <1>4, <1>5, <1>7, <1>8 DEF r

LEMMA OneLineKept ==
  ASSUME NEW n \in Nat, NEW e \in State(n), NEW s \in DOMAIN e.sessions,
         NEW session, SameLine(e.sessions[s], session)
  PROVE  SameInboxes(e, [e EXCEPT !.sessions[s] = session])
<1> DEFINE x == [e EXCEPT !.sessions[s] = session]
<1>1. /\ x.sessions = [e.sessions EXCEPT ![s] = session]
      /\ x.slots = e.slots /\ x.orphan = e.orphan
  BY DEF State
<1> HIDE DEF x
<1>2. SameInboxes(e, x)
  BY <1>1 DEF SameInboxes, SameLine
<1> QED
  BY <1>2 DEF x

\* An item for a session without a slot.
LEMMA EnqueueMultiClientOld ==
  ASSUME NEW session \in Session, NEW item \in Items, NEW m \in Nat, m < item,
         Lined(session.last, session.inbox, m)
  PROVE  LET x == EnqueueMultiClient(session, item)
         IN Lined(x.last, x.inbox, item)
<1> DEFINE inbox == Append(session.inbox, item)
           filled == [session EXCEPT !.inbox = inbox]
           answered == [filled EXCEPT !.sync = 0]
           x == EnqueueMultiClient(session, item)
<1>1. session.inbox \in Seq(Items) /\ session.last \in Nat /\ item \in Nat
  BY ItemsAreNumbers DEF Session
<1>2. inbox \in Seq(Items) /\ inbox # <<>> /\ Lined(session.last, inbox, item)
  BY <1>1, LinedAppend
<1> HIDE DEF inbox
<1>3. /\ filled \in Session
      /\ filled.last = session.last /\ filled.inbox = inbox
  BY <1>2 DEF Session
<1>4. /\ answered \in Session
      /\ answered.last = session.last /\ answered.inbox = inbox
  BY <1>2 DEF Session
<1>5. /\ session.sync # 0 => x = DeliverInbox(answered)
      /\ session.sync = 0 => x \in {filled, Hint(filled)}
  BY DEF EnqueueMultiClient, inbox
<1> HIDE DEF filled, answered, x
<1>6. ASSUME session.sync = 0
      PROVE  x.last = session.last /\ x.inbox = inbox
  BY <1>3, <1>5, <1>6, LineKept DEF SameLine
<1>7. ASSUME session.sync # 0
      PROVE  \/ x.last = session.last /\ x.inbox = inbox
             \/ x.last = Head(inbox) /\ x.inbox = Tail(inbox)
  <2> DEFINE given == Reply(answered, Layout(answered.version))
  <2>1. given \in Session
    BY <1>4, ReplyType DEF Layout, WriteKinds
  <2>2. given.last = session.last /\ given.inbox = inbox
    BY <1>4, LineKept DEF SameLine
  <2>3. x \in {given, [given EXCEPT !.inbox = Tail(answered.inbox),
                                    !.last = Head(answered.inbox)]}
    BY <1>5, <1>7 DEF DeliverInbox
  <2> HIDE DEF given
  <2>4. LET b == [given EXCEPT !.inbox = Tail(inbox), !.last = Head(inbox)]
        IN b.last = Head(inbox) /\ b.inbox = Tail(inbox)
    BY <2>1 DEF Session
  <2> QED
    BY <1>4, <2>2, <2>3, <2>4
<1>8. Lined(Head(inbox), Tail(inbox), item)
  BY <1>1, <1>2, LinedTail
<1>9. Lined(x.last, x.inbox, item)
  BY <1>2, <1>6, <1>7, <1>8
<1> QED
  BY <1>9 DEF x

\* An item for a slot's queue is not the attached session's own.
LEMMA FanOutAttachedOld ==
  ASSUME NEW n \in Nat, NEW e \in State(n), NEW s \in DOMAIN e.sessions
  PROVE  SameLine(e.sessions[s], FanOutAttached(e, s))
<1> DEFINE session == e.sessions[s]
<1>1. session \in Session
  BY TableType DEF State
<1>2. SameLine(session, [DeliverSlot(session) EXCEPT !.sync = 0])
  BY <1>1, LineKept DEF DeliverSlot
<1>3. SameLine(session, session) /\ SameLine(session, Hint(session))
  BY <1>1, LineKept
<1>4. FanOutAttached(e, s) \in {session, Hint(session),
                                [DeliverSlot(session) EXCEPT !.sync = 0]}
  BY DEF FanOutAttached
<1> QED
  BY <1>2, <1>3, <1>4

\* A slot's queue after one item is taken from it, or none.
LEMMA ShiftedOld ==
  ASSUME NEW slot \in Slot, NEW session, NEW m \in Nat, slot.queue # <<>>,
         Lined(slot.last, slot.queue, m)
  PROVE  LET x == Shifted(slot, session) IN Lined(x.last, x.queue, m)
<1>1. slot.queue \in Seq(Items) /\ slot.last \in Nat
  BY DEF Slot
<1>2. Lined(Head(slot.queue), Tail(slot.queue), m)
  BY <1>1, LinedTail
<1>3. LET x == [slot EXCEPT !.queue = Tail(slot.queue), !.last = Head(slot.queue)]
      IN x.last = Head(slot.queue) /\ x.queue = Tail(slot.queue)
  BY DEF Slot
<1> QED
  BY <1>2, <1>3 DEF Shifted

LEMMA FanOutSlotOld ==
  ASSUME NEW n \in Nat, NEW e \in State(n), NEW d \in Slots,
         NEW item \in Items, NEW m \in Nat, m < item,
         Lined(e.slots[d].last, e.slots[d].queue, m)
  PROVE  LET x == FanOutSlot(e, d, item) IN Lined(x.last, x.queue, item)
<1> DEFINE slot == e.slots[d]
           more == EnqueueOffline(slot.queue, item)
           queued == [slot EXCEPT !.queue = more]
<1>1. slot \in Slot /\ slot.queue \in Seq(Items) /\ slot.last \in Nat
  BY DEF State, Slot
<1>2. more \in Seq(Items) /\ Lined(slot.last, more, item)
  BY <1>1, EnqueueOfflineType, LinedEnqueue
<1>3. ~ Discards(slot.queue) => more # <<>>
  BY <1>1 DEF EnqueueOffline
<1> HIDE DEF more
<1>4. queued \in Slot /\ queued.queue = more /\ queued.last = slot.last
  BY <1>1, <1>2 DEF Slot
<1>5. item \in Nat
  BY ItemsAreNumbers
<1>6. \/ FanOutSlot(e, d, item) = queued
      \/ /\ ~ Discards(slot.queue)
         /\ \E session : FanOutSlot(e, d, item) = Shifted(queued, session)
  BY DEF FanOutSlot, more
<1> HIDE DEF queued, slot
<1> QED
  BY <1>2, <1>3, <1>4, <1>5, <1>6, ShiftedOld

LEMMA FanOutOld ==
  ASSUME NEW n \in Nat, NEW e \in State(n), NEW tx, NEW item \in Items,
         NEW m \in Nat, m < item, OldIn(e, m)
  PROVE  OldIn(FanOut(e, tx, item), item)
<1> DEFINE x == FanOut(e, tx, item)
<1>1. /\ DOMAIN x.sessions = DOMAIN e.sessions
      /\ \A d \in Slots : x.slots[d] = FanOutSlot(e, d, item)
      /\ x.orphan \in {item, e.orphan}
      /\ \A s \in DOMAIN e.sessions : x.sessions[s] =
           CASE e.sessions[s].slot # 0 -> FanOutAttached(e, s)
             [] e.sessions[s].slot = 0 /\ ~ InboxFull(e.sessions[s]) ->
                  EnqueueMultiClient(e.sessions[s], item)
             [] OTHER -> e.sessions[s]
  BY DEF FanOut, State
<1> HIDE DEF x
<1>2. item \in Nat /\ e.orphan \in Nat
  <2>1. e.orphan \in Items \cup {0}
    BY DEF State
  <2>2. Items \cup {0} \subseteq Nat
    BY ItemsAreNumbers
  <2> QED
    BY <2>1, <2>2
<1>3. x.orphan <= item
  BY <1>1, <1>2 DEF OldIn
<1>4. ASSUME NEW s \in DOMAIN x.sessions
      PROVE  Lined(x.sessions[s].last, x.sessions[s].inbox, item)
  <2> DEFINE session == e.sessions[s]
  <2>1. /\ session \in Session /\ Lined(session.last, session.inbox, m)
        /\ session.last \in Nat /\ session.inbox \in Seq(Items)
    BY <1>1, TableType DEF State, OldIn, Session
  <2>2. Lined(session.last, session.inbox, item)
    BY <1>2, <2>1, LinedMore
  <2>3. CASE session.slot # 0
    BY <1>1, <2>2, <2>3, FanOutAttachedOld DEF SameLine
  <2>4. CASE session.slot = 0 /\ ~ InboxFull(session)
    BY <1>1, <2>1, <2>4, EnqueueMultiClientOld
  <2>5. CASE session.slot = 0 /\ InboxFull(session)
    BY <1>1, <2>2, <2>5
  <2> QED
    BY <2>3, <2>4, <2>5
<1>5. \A d \in Slots : Lined(x.slots[d].last, x.slots[d].queue, item)
  BY <1>1, FanOutSlotOld DEF OldIn
<1>6. OldIn(x, item)
  BY <1>3, <1>4, <1>5 DEF OldIn
<1> QED
  BY <1>6 DEF x

LEMMA OldMore ==
  ASSUME NEW n \in Nat, NEW e \in State(n), NEW m \in Nat, NEW k \in Nat,
         m <= k, OldIn(e, m)
  PROVE  OldIn(e, k)
<1>1. e.orphan \in Nat
  <2>1. e.orphan \in Items \cup {0}
    BY DEF State
  <2>2. Items \cup {0} \subseteq Nat
    BY ItemsAreNumbers
  <2> QED
    BY <2>1, <2>2
<1>2. \A s \in DOMAIN e.sessions :
        e.sessions[s].last \in Nat /\ e.sessions[s].inbox \in Seq(Items)
  BY TableType DEF State, Session
<1>3. \A d \in Slots : e.slots[d].last \in Nat /\ e.slots[d].queue \in Seq(Items)
  BY DEF State, Slot
<1>4. \A s \in DOMAIN e.sessions :
        Lined(e.sessions[s].last, e.sessions[s].inbox, k)
  BY <1>2, LinedMore DEF OldIn
<1>5. \A d \in Slots : Lined(e.slots[d].last, e.slots[d].queue, k)
  BY <1>3, LinedMore DEF OldIn
<1> QED
  BY <1>1, <1>4, <1>5 DEF OldIn

\* pop_result: what it gives out is the item that arrived.
LEMMA PopResultOld ==
  ASSUME NEW n \in Nat, NEW e \in State(n), NEW tx, NEW f \in Frames,
         f.code \in {"message", "no_more_messages"}, NEW m \in Nat,
         OldIn(e, m), f.code = "message" => m < f.arg
  PROVE  LET x == PopResult(e, tx, f)
         IN OldIn(x, m) \/ (f.code = "message" /\ OldIn(x, f.arg))
<1>1. CASE f.code = "no_more_messages"
  <2> DEFINE x == NoMoreMessages(e, tx)
  <2>1. /\ DOMAIN x.sessions = DOMAIN e.sessions
        /\ x.slots = e.slots /\ x.orphan = e.orphan
        /\ \A s \in DOMAIN e.sessions : x.sessions[s] \in
             {e.sessions[s], [Reply(e.sessions[s], "frame") EXCEPT !.sync = 0]}
    BY DEF NoMoreMessages, State
  <2> HIDE DEF x
  <2>2. \A s \in DOMAIN e.sessions : SameLine(e.sessions[s], x.sessions[s])
    <3>1. \A s \in DOMAIN e.sessions :
            /\ e.sessions[s] \in Session
            /\ SameLine(e.sessions[s], e.sessions[s])
            /\ SameLine(e.sessions[s],
                        [Reply(e.sessions[s], "frame") EXCEPT !.sync = 0])
      BY TableType, LineKept DEF State
    <3> QED
      BY <2>1, <3>1
  <2>3. OldIn(x, m)
    BY <2>1, <2>2, SameOld DEF SameInboxes
  <2> QED
    BY <1>1, <2>3 DEF PopResult, x
<1>2. CASE f.code = "message" /\ Duplicate(e.seen, f.arg)
  <2> DEFINE x == [e EXCEPT !.drain.requested = e.drain.authorized]
  <2>1. x.sessions = e.sessions /\ x.slots = e.slots /\ x.orphan = e.orphan
    BY DEF State
  <2> HIDE DEF x
  <2>2. OldIn(x, m)
    BY <2>1, NothingMoved, SameOld
  <2> QED
    BY <1>2, <2>2 DEF PopResult, x
<1>3. CASE f.code = "message" /\ ~ Duplicate(e.seen, f.arg)
  <2>1. f.arg \in Items
    BY <1>3, BrokerAssumption
  <2>2. OldIn(FanOut(e, tx, f.arg), f.arg)
    BY <1>3, <2>1, FanOutOld
  <2> QED
    BY <1>3, <2>2 DEF PopResult
<1> QED
  BY <1>1, <1>2, <1>3

-----------------------------------------------------------------------------
(* The handlers, which keep what is held for the clients in order          *)

LEMMA OwnerLineKept ==
  ASSUME NEW n \in Nat, NEW e \in State(n), NEW f
  PROVE  SameInboxes(e, ReplyToOwner(e, f))
<1> DEFINE tx == e.active
           owner == e.sessions[tx.owner]
           seen_by == [owner EXCEPT !.version =
             IF tx.command.op = "device_query" /\ f.code = "device_info"
             THEN tx.command.arg ELSE owner.version]
           kind == IF tx.command.op \in Maintenance THEN "result" ELSE "frame"
           x == ReplyToOwner(e, f)
<1>1. CASE tx.owner \notin DOMAIN e.sessions
  BY <1>1, NothingMoved DEF ReplyToOwner
<1>2. CASE tx.owner \in DOMAIN e.sessions
  <2>1. owner \in Session /\ tx.command.arg \in Nat
    <3>1. owner \in Session
      BY <1>2, TableType DEF State
    <3>2. tx.command.arg \in Nat
      BY CommandTypes DEF State, Transactions, Transaction
    <3> QED
      BY <3>1, <3>2
  <2>2. seen_by \in Session /\ SameLine(owner, seen_by)
    BY <2>1 DEF Session, SameLine
  <2>3. PICK session :
          /\ session \in {Reply(seen_by, kind), Emit(seen_by, "frame")}
          /\ x = [e EXCEPT !.sessions[tx.owner] = session]
    BY <1>2 DEF ReplyToOwner
  <2> HIDE DEF seen_by, kind, x
  <2>4. SameLine(owner, session)
    BY <2>2, <2>3, LineKept DEF SameLine
  <2>5. SameInboxes(e, x)
    BY <1>2, <2>3, <2>4, OneLineKept
  <2> QED
    BY <2>5 DEF x
<1> QED
  BY <1>1, <1>2

\* A reply to a client's command gives nobody an item.
LEMMA RepliesMoveNothing ==
  ASSUME NEW n \in Nat, NEW e \in State(n), NEW f \in Frames
  PROVE  /\ SameInboxes(e, CommandResponse(e, f))
         /\ e.active.step \in {"setup", "restore"} =>
              SameInboxes(e, ScopeResponse(e, f))
<1>1. SameInboxes(e, CommandResponse(e, f))
  <2> DEFINE x == ReplyToOwner(e, f)
             y == RecordAcceptance(x, e.active.command, f)
             started == [x EXCEPT !.active.contacts_started = TRUE]
  <2>1. x \in State(n) /\ x.active = e.active /\ SameInboxes(e, x)
    BY ReplyToOwnerType, OwnerKept, OwnerLineKept
  <2>2. e.active.command \in Command
    BY DEF State, Transactions, Transaction
  <2> HIDE DEF x
  <2>3. y \in State(n)
    BY <2>1, <2>2, RecordAcceptanceType
  <2>4. y.sessions = x.sessions /\ y.slots = x.slots /\ y.orphan = x.orphan
    BY <2>1 DEF RecordAcceptance, State
  <2>5. SameInboxes(x, y)
    BY <2>4, NothingMoved
  <2> HIDE DEF y
  <2>6. LET z == AfterCommand(y)
        IN z.sessions = y.sessions /\ z.slots = y.slots /\ z.orphan = y.orphan
    BY <2>3 DEF AfterCommand, SendUpstream, Finish, State
  <2>7. SameInboxes(y, AfterCommand(y))
    BY <2>6, NothingMoved
  <2>8. /\ started.sessions = x.sessions /\ started.slots = x.slots
        /\ started.orphan = x.orphan
    BY <2>1 DEF State
  <2>9. SameInboxes(x, started)
    BY <2>8, NothingMoved
  <2>10. SameInboxes(e, AfterCommand(y)) /\ SameInboxes(e, started)
    BY <2>1, <2>5, <2>7, <2>9, SameInboxesTransitive
  <2>11. CommandResponse(e, f) \in {AfterCommand(y), started}
    BY DEF CommandResponse, x, y
  <2> HIDE DEF started
  <2> QED
    BY <2>10, <2>11
<1>2. ASSUME e.active.step \in {"setup", "restore"}
      PROVE  SameInboxes(e, ScopeResponse(e, f))
  <2> DEFINE tx == e.active
             session == Reply(e.sessions[tx.owner], "frame")
             refused == IF tx.owner \in DOMAIN e.sessions
                        THEN [e EXCEPT !.sessions[tx.owner] = session]
                        ELSE e
             lease == IF tx.command.op \in RemoteLease THEN NoRemote ELSE e.remote
             dropped == Finish([refused EXCEPT !.remote = lease])
  <2>1. SameInboxes(e, refused)
    <3>1. CASE tx.owner \in DOMAIN e.sessions
      <4>1. SameLine(e.sessions[tx.owner], session)
        BY <3>1, TableType, LineKept DEF State
      <4> HIDE DEF session
      <4> QED
        BY <3>1, <4>1, OneLineKept
    <3>2. CASE tx.owner \notin DOMAIN e.sessions
      BY <3>2, NothingMoved
    <3> QED
      BY <3>1, <3>2
  <2>2. /\ dropped.sessions = refused.sessions
        /\ dropped.slots = refused.slots /\ dropped.orphan = refused.orphan
    BY DEF Finish, State
  <2>3. \A z \in {SendCommand(e, tx), Finish(e), Fail(e)} :
          z.sessions = e.sessions /\ z.slots = e.slots /\ z.orphan = e.orphan
    BY DEF SendCommand, SendUpstream, Finish, Fail, State
  <2>4. ScopeResponse(e, f) \in {SendCommand(e, tx), Finish(e), dropped, Fail(e)}
    BY <1>2 DEF ScopeResponse
  <2> HIDE DEF dropped, refused
  <2>5. SameInboxes(e, dropped)
    BY <2>1, <2>2, NothingMoved, SameInboxesTransitive
  <2>6. \A z \in {SendCommand(e, tx), Finish(e), Fail(e)} : SameInboxes(e, z)
    BY <2>3, NothingMoved
  <2> QED
    BY <2>4, <2>5, <2>6
<1> QED
  BY <1>1, <1>2

\* What the clients and the slots hold.
Held(m) ==
  /\ orphan <= m
  /\ \A s \in DOMAIN sessions : Lined(sessions[s].last, sessions[s].inbox, m)
  /\ \A d \in Slots : Lined(slots[d].last, slots[d].queue, m)

LEMMA NowHeld ==
  ASSUME NEW m, Held(m)
  PROVE  OldIn(Now, m)
BY DEF Held, OldIn, Now

\* However a handler ends.
LEMMA CommitHeld ==
  ASSUME NEW x, Commit(x), x.slots \in [Slots -> Slot], NEW m, OldIn(x, m)
  PROVE  Held(m)'
<1>1. NextState(x)
  BY DEF Commit
<1>2. \E left : slots' = Detach(x.slots, left)
  BY <1>1 DEF NextState, FailEpoch, Continue
<1>3. ASSUME NEW d \in Slots
      PROVE  slots'[d].queue = x.slots[d].queue /\ slots'[d].last = x.slots[d].last
  <2>1. x.slots[d] \in Slot
    OBVIOUS
  <2> QED
    BY <1>2, <2>1 DEF Detach, Slot
<1>4. \A s \in DOMAIN sessions' :
        s \in DOMAIN x.sessions /\ sessions'[s] = x.sessions[s]
  BY <1>1 DEF NextState, FailEpoch, Continue, Survivors
<1>5. orphan' = x.orphan
  BY <1>1 DEF NextState
<1> QED
  BY <1>3, <1>4, <1>5 DEF OldIn, Held

LEMMA QuietHeld ==
  ASSUME TypeInv, NEW x, Commit(x), SameInboxes(Now, x), x.slots = slots,
         NEW m, Held(m)
  PROVE  Held(m)'
<1>1. x.slots \in [Slots -> Slot]
  BY DEF TypeInv, TypeOK
<1> QED
  BY <1>1, NowHeld, SameOld, CommitHeld

LEMMA TransactionResponseHeld ==
  ASSUME TypeInv, TransactionInv, NEW f \in Frames, NEW m \in Nat, Held(m),
         f.code = "message" => m < f.arg, Commit(TransactionResponse(f))
  PROVE  Held(m)' \/ (f.code = "message" /\ Held(f.arg)')
<1> DEFINE n == next_session
           e == WriteIsOver
           x == TransactionResponse(f)
<1>1. n \in Nat /\ e \in State(n) /\ x \in State(n)
  BY NowSound, WriteIsOverKeeps, TransactionResponseType DEF TypeInv
<1>2. active \in Transaction /\ PopShape(active)
  BY DEF TypeInv, TypeOK
<1>3. e.active.step = active.step /\ e.active.owner = active.owner
  BY <1>2, WriteIsOverKeeps DEF Transaction
<1>4. e.sessions = sessions /\ e.slots = slots /\ e.orphan = orphan
  BY DEF WriteIsOver, Now
<1>5. OldIn(e, m)
  BY <1>4 DEF Held, OldIn
<1> HIDE DEF e, n, x
<1>6. SameInboxes(e, Fail(e)) /\ SameInboxes(e, Finish(e)) /\ Finish(e) \in State(n)
  <2>1. \A z \in {Fail(e), Finish(e)} :
          z.sessions = e.sessions /\ z.slots = e.slots /\ z.orphan = e.orphan
    BY <1>1 DEF Fail, Finish, State
  <2> QED
    BY <1>1, <2>1, NothingMoved, FinishType
<1>7. CASE SameInboxes(e, x)
  BY <1>1, <1>5, <1>7, SameOld, CommitHeld DEF x, State
<1>8. CASE active.step \in {"none", "result"}
  BY <1>6, <1>7, <1>8 DEF TransactionResponse, x, e
<1>9. CASE active.step \in {"setup", "restore"}
  <2>1. x = ScopeResponse(e, f)
    BY <1>9 DEF TransactionResponse, x, e
  <2> QED
    BY <1>1, <1>3, <1>7, <1>9, <2>1, RepliesMoveNothing
<1>10. CASE active.step = "command" /\ active.owner # 0
  <2>1. x \in {Fail(e), CommandResponse(e, f)}
    BY <1>10 DEF TransactionResponse, x, e
  <2> QED
    BY <1>1, <1>6, <1>7, <2>1, RepliesMoveNothing
<1>11. CASE active.step = "command" /\ active.owner = 0
  <2>1. active.command = Sync /\ active.contacts_started \in BOOLEAN
    BY <1>2, <1>11 DEF PopShape, Transaction
  <2>2. ValidResponse(active.command, active.contacts_started, f)
          => f.code \in {"err", "message", "no_more_messages"}
    BY <2>1, SyncReplies
  <2>3. \/ x = Fail(e)
        \/ /\ f.code \in {"message", "no_more_messages"}
           /\ x = PopResult(Finish(e), active, f)
    BY <1>11, <2>2 DEF TransactionResponse, x, e
  <2>4. OldIn(Finish(e), m)
    BY <1>5, <1>6, SameOld
  <2>5. CASE x = PopResult(Finish(e), active, f)
             /\ f.code \in {"message", "no_more_messages"}
    <3>1. OldIn(x, m) \/ (f.code = "message" /\ OldIn(x, f.arg))
      BY <1>1, <1>6, <2>4, <2>5, PopResultOld
    <3> QED
      BY <1>1, <3>1, CommitHeld DEF x, State
  <2> QED
    BY <1>6, <1>7, <2>3, <2>5
<1> QED
  BY <1>2, <1>8, <1>9, <1>10, <1>11 DEF Transaction, Steps

\* A push is written to clients as a hint or a frame.
LEMMA PushMovesNothing ==
  ASSUME TypeInv, NEW f \in Frames, ~ AnswersSelfTelemetry(f)
  PROVE  SameInboxes(Now, Push(f)) /\ Push(f).slots = slots
<1>1. Push(f).slots = slots
  BY PushLeavesSlots
<1>2. ASSUME NEW x, x.slots = slots, x.orphan = orphan,
             \A s \in DOMAIN x.sessions :
               s \in DOMAIN sessions /\ SameLine(sessions[s], x.sessions[s])
      PROVE  SameInboxes(Now, x)
  BY <1>2 DEF SameInboxes, Now
<1>3. \A s \in DOMAIN sessions :
        /\ SameLine(sessions[s], sessions[s])
        /\ SameLine(sessions[s], Emit(sessions[s], "frame"))
        /\ SameLine(sessions[s], Hint(sessions[s]))
  BY LineKept DEF TypeInv, TypeOK
<1>4. \A s \in DOMAIN EmitAll(sessions, "frame") :
        /\ s \in DOMAIN sessions
        /\ SameLine(sessions[s], EmitAll(sessions, "frame")[s])
  BY <1>3 DEF EmitAll
<1>5. \A s \in DOMAIN HintAll(sessions) :
        s \in DOMAIN sessions /\ SameLine(sessions[s], HintAll(sessions)[s])
  BY <1>3 DEF HintAll
<1>6. CASE f.code = "msg_waiting"
  <2>1. /\ AvailabilityHint.slots = slots /\ AvailabilityHint.orphan = orphan
        /\ AvailabilityHint.sessions = HintAll(sessions)
    BY DEF AvailabilityHint, Now
  <2>2. Push(f) = AvailabilityHint
    BY <1>6 DEF Push, RemotePushes
  <2> QED
    BY <1>1, <1>2, <1>5, <2>1, <2>2
<1>7. CASE f.code \in DOMAIN RemotePushes
  <2>1. Push(f) = RemoteResult(f)
    BY <1>7 DEF Push, RemotePushes
  <2>2. RemoteResult(f).slots = slots /\ RemoteResult(f).orphan = orphan
    BY DEF RemoteResult, Now
  <2>3. \/ RemoteResult(f).sessions = sessions
        \/ /\ remote.owner \in DOMAIN sessions
           /\ RemoteResult(f).sessions =
                [sessions EXCEPT ![remote.owner] =
                   Emit(sessions[remote.owner], "frame")]
    BY DEF RemoteResult, Now
  <2> DEFINE x == RemoteResult(f)
  <2> HIDE DEF x
  <2>4. \A s \in DOMAIN x.sessions :
          s \in DOMAIN sessions /\ SameLine(sessions[s], x.sessions[s])
    BY <1>3, <2>3 DEF x
  <2> QED
    BY <1>1, <1>2, <2>1, <2>2, <2>4 DEF x
<1>8. CASE f.code \notin DOMAIN RemotePushes \cup {"msg_waiting"}
  <2>1. /\ Push(f).sessions = EmitAll(sessions, "frame")
        /\ Push(f).orphan = orphan
    BY <1>8 DEF Push, Now
  <2> QED
    BY <1>1, <1>2, <1>4, <2>1
<1> QED
  BY <1>6, <1>7, <1>8

LEMMA PushHeld ==
  ASSUME TypeInv, TransactionInv, NEW f \in Frames, NEW m \in Nat, Held(m),
         f.code \in PushCodes, Commit(Push(f))
  PROVE  Held(m)'
<1>1. f.code # "message"
  BY DEF PushCodes, RemotePushes
<1>2. CASE AnswersSelfTelemetry(f)
  <2>1. Push(f) = TransactionResponse(f)
    BY <1>2 DEF Push, AnswersSelfTelemetry, RemotePushes
  <2> QED
    BY <1>1, <2>1, TransactionResponseHeld
<1>3. CASE ~ AnswersSelfTelemetry(f)
  BY <1>3, PushMovesNothing, QuietHeld
<1> QED
  BY <1>2, <1>3

\* A frame from the companion: what is held is as old as it was, or the item
\* in the frame is the newest of it.
LEMMA FrameHeld ==
  ASSUME TypeInv, TransactionInv, NEW f \in Frames, NEW m \in Nat, Held(m),
         f.code = "message" => m < f.arg,
         UpstreamFrame(f) \/ DrainUncertainFrame(f)
  PROVE  Held(m)' \/ (f.code = "message" /\ Held(f.arg)')
<1> DEFINE n == next_session
<1>1. n \in Nat /\ Now \in State(n)
  BY NowSound
<1>2. CASE UpstreamFrame(f)
  <2>1. \/ Commit(Fail(Now)) \/ (f.code \in PushCodes /\ Commit(Push(f)))
        \/ Commit(TransactionResponse(f))
    BY <1>2 DEF UpstreamFrame, CommitAndSchedule
  <2>2. Commit(Fail(Now)) => Held(m)'
    <3> DEFINE x == Fail(Now)
    <3>1. x.sessions = Now.sessions /\ x.slots = slots /\ x.orphan = Now.orphan
          /\ Now.slots = slots
      BY DEF Fail, Now
    <3> HIDE DEF x
    <3>2. Commit(x) => Held(m)'
      BY <3>1, NothingMoved, QuietHeld
    <3> QED
      BY <3>2 DEF x
  <2> QED
    BY <2>1, <2>2, PushHeld, TransactionResponseHeld
<1>3. CASE DrainUncertainFrame(f)
  <2> DEFINE paid == [Now EXCEPT !.debt = NoTransaction]
             started == [Now EXCEPT !.debt.contacts_started = TRUE]
             x == PopResult(paid, debt, f)
  <2>1. \/ f.code \in PushCodes /\ Commit(Push(f))
        \/ Commit(paid)
        \/ DebtPaid(f) /\ KeepsItem(f) /\ Commit(x)
        \/ Commit(started)
    BY <1>3 DEF DrainUncertainFrame
  <2>2. debt \in Transaction /\ PopShape(debt)
    BY DEF TypeInv, TypeOK
  <2>3. /\ paid.sessions = sessions /\ paid.slots = slots
        /\ paid.orphan = orphan
        /\ started.sessions = sessions /\ started.slots = slots
        /\ started.orphan = orphan
        /\ Now.sessions = sessions /\ Now.slots = slots /\ Now.orphan = orphan
    BY DEF Now
  <2>4. paid \in State(n)
    BY <1>1, SmallChanges
  <2> HIDE DEF paid, started, n
  <2>5. SameInboxes(Now, paid) /\ SameInboxes(Now, started)
    BY <2>3, NothingMoved
  <2>6. ASSUME DebtPaid(f), KeepsItem(f), Commit(x)
        PROVE  Held(m)' \/ (f.code = "message" /\ Held(f.arg)')
    <3>1. /\ debt.command = Sync
          /\ debt.contacts_started \in BOOLEAN
          /\ ValidResponse(debt.command, debt.contacts_started, f)
      BY <2>2, <2>6 DEF KeepsItem, DebtPaid, PopShape, Transaction
    <3>2. f.code \in {"err", "message", "no_more_messages"}
      BY <3>1, SyncReplies
    <3>3. f.code \in {"message", "no_more_messages"}
      BY <2>6, <3>2 DEF KeepsItem
    <3>4. OldIn(paid, m)
      BY <2>5, NowHeld, SameOld
    <3>5. OldIn(x, m) \/ (f.code = "message" /\ OldIn(x, f.arg))
      BY <1>1, <2>4, <3>3, <3>4, PopResultOld DEF n
    <3>6. x \in State(n)
      BY <1>1, <2>2, <2>4, <3>3, PopResultType
    <3> HIDE DEF x
    <3> QED
      BY <2>6, <3>5, <3>6, CommitHeld DEF State
  <2> QED
    BY <2>1, <2>3, <2>5, <2>6, PushHeld, QuietHeld
<1> QED
  BY <1>2, <1>3

\* admit: the new client of no slot is given the orphan.
LEMMA AdmitHeld ==
  ASSUME TypeInv, NEW d, Admit(d), NEW m \in Nat, Held(m)
  PROVE  Held(m)'
<1> DEFINE id == next_session + 1
           old == IF d = 0 THEN 0 ELSE slots[d].attached
           others == DOMAIN sessions \ {old}
           given == IF TakesOrphan(d) THEN <<orphan>> ELSE <<>>
           blank == [NewSession(d) EXCEPT !.inbox = given]
           new == Hint(blank)
           table == [x \in Slots |->
                       IF x = d THEN [slots[x] EXCEPT !.attached = id]
                       ELSE slots[x]]
           e == [Now EXCEPT
                   !.sessions = [s \in others \cup {id} |->
                                   IF s = id THEN new ELSE sessions[s]],
                   !.order = Append(order, id),
                   !.slots = table,
                   !.orphan = IF TakesOrphan(d) THEN 0 ELSE orphan,
                   !.drain = IF others = {} THEN NoDrain ELSE drain]
<1>1. CASE UNCHANGED <<sessions, slots, orphan>>
  BY <1>1 DEF Held
<1>2. CASE Commit(e)
  <2>1. /\ e.slots = table
        /\ e.orphan = IF TakesOrphan(d) THEN 0 ELSE orphan
        /\ e.sessions = [s \in others \cup {id} |->
                           IF s = id THEN new ELSE sessions[s]]
    BY DEF Now
  <2>2. id \in Nat /\ \A x \in Slots : slots[x] \in Slot
    BY DEF TypeInv, TypeOK
  <2>3. table \in [Slots -> Slot]
    BY <2>2 DEF Slot
  <2>4. \A x \in Slots : table[x].queue = slots[x].queue
                         /\ table[x].last = slots[x].last
    BY <2>2 DEF Slot
  <2>5. orphan \in Nat
    <3>1. orphan \in Items \cup {0}
      BY DEF TypeInv, TypeOK
    <3>2. Items \cup {0} \subseteq Nat
      BY ItemsAreNumbers
    <3> QED
      BY <3>1, <3>2
  <2>6. new.last = 0 /\ new.inbox = given
    <3>1. blank.last = 0 /\ blank.inbox = given /\ blank.writes = <<>>
      BY DEF NewSession
    <3>2. DOMAIN blank = DOMAIN NewSession(d)
      OBVIOUS
    <3>3. {"last", "inbox", "writes"} \subseteq DOMAIN NewSession(d)
      BY DEF NewSession
    <3> HIDE DEF blank
    <3>4. Emit(blank, "msg_waiting").last = blank.last
          /\ Emit(blank, "msg_waiting").inbox = blank.inbox
      BY <3>2, <3>3 DEF Emit
    <3> QED
      BY <3>1, <3>4 DEF Hint
  <2>7. Lined(0, given, m)
    <3>1. CASE TakesOrphan(d)
      <4>1. orphan # 0 /\ orphan <= m
        BY <3>1 DEF TakesOrphan, Held
      <4>2. given = <<orphan>>
        BY <3>1
      <4>3. DOMAIN given = {1} /\ given[1] = orphan
        BY <4>2
      <4> HIDE DEF given
      <4> QED
        BY <2>5, <4>1, <4>3 DEF Lined
    <3>2. CASE ~ TakesOrphan(d)
      BY <3>2 DEF Lined
    <3> QED
      BY <3>1, <3>2
  <2> HIDE DEF e, table, new, given, id, others
  <2>8. \A s \in DOMAIN e.sessions :
          Lined(e.sessions[s].last, e.sessions[s].inbox, m)
    <3> TAKE s \in DOMAIN e.sessions
    <3>1. CASE s = id
      BY <2>1, <2>6, <2>7, <3>1
    <3>2. CASE s # id
      BY <2>1, <3>2 DEF others, Held
    <3> QED
      BY <3>1, <3>2
  <2>9. OldIn(e, m)
    <3>1. e.orphan <= m
      <4>1. 0 <= m
        OBVIOUS
      <4> QED
        BY <2>1, <4>1 DEF Held
    <3>2. \A x \in Slots : Lined(e.slots[x].last, e.slots[x].queue, m)
      BY <2>1, <2>4 DEF Held
    <3> QED
      BY <2>8, <3>1, <3>2 DEF OldIn
  <2> QED
    BY <1>2, <2>1, <2>3, <2>9, CommitHeld
<1>3. UNCHANGED <<sessions, slots, orphan>> \/ Commit(e)
  BY DEF Admit, CommitAndSchedule
<1> QED
  BY <1>1, <1>2, <1>3

\* A sync answered with the oldest item.
LEMMA LocalSyncHeld ==
  ASSUME TypeInv, NEW s \in DOMAIN sessions, NEW e \in State(next_session),
         e.sessions[s] \in Session,
         DOMAIN e.sessions = DOMAIN sessions, e.slots = slots,
         e.sessions[s].slot = sessions[s].slot,
         e.sessions[s].inbox = sessions[s].inbox,
         NEW m \in Nat, OldIn(e, m)
  PROVE  OldIn(LocalSync(e, s), m) /\ LocalSync(e, s).slots \in [Slots -> Slot]
<1> DEFINE session == e.sessions[s]
           d == session.slot
           slot == e.slots[d]
           x == LocalSync(e, s)
<1>1. /\ next_session \in Nat /\ session.inbox \in Seq(Items)
      /\ session.last \in Nat /\ slots \in [Slots -> Slot]
      /\ d \in Slots \cup {0}
  BY DEF TypeInv, TypeOK, Session
<1>2. CASE InboxFor(s) = <<>>
  <2> DEFINE waiting == [session EXCEPT !.sync = pop_sequence + 1]
  <2>1. /\ x.sessions = [e.sessions EXCEPT ![s] = waiting]
        /\ x.slots = slots /\ x.orphan = e.orphan
    BY <1>2 DEF LocalSync, State
  <2>2. SameLine(session, waiting)
    BY DEF SameLine, Session
  <2> HIDE DEF x, waiting
  <2>3. SameInboxes(e, x)
    BY <2>1, <2>2 DEF SameInboxes, SameLine
  <2> QED
    BY <1>1, <2>1, <2>3, SameOld DEF x
<1>3. CASE InboxFor(s) # <<>> /\ d = 0
  <2>1. x = [e EXCEPT !.sessions[s] = DeliverInbox(session)]
    BY <1>3 DEF LocalSync
  <2>2. session.inbox # <<>>
    BY <1>3 DEF InboxFor
  <2> DEFINE given == Reply(session, Layout(session.version))
             after == DeliverInbox(session)
  <2>3. given \in Session /\ SameLine(session, given)
    BY ReplyType, LineKept DEF Layout, WriteKinds
  <2>4. after \in {given, [given EXCEPT !.inbox = Tail(session.inbox),
                                        !.last = Head(session.inbox)]}
    BY DEF DeliverInbox
  <2> HIDE DEF given
  <2>5. LET b == [given EXCEPT !.inbox = Tail(session.inbox),
                               !.last = Head(session.inbox)]
        IN b.last = Head(session.inbox) /\ b.inbox = Tail(session.inbox)
    BY <2>3 DEF Session
  <2>6. Lined(session.last, session.inbox, m)
    BY DEF OldIn
  <2>7. Lined(after.last, after.inbox, m)
    <3>1. Lined(Head(session.inbox), Tail(session.inbox), m)
      BY <1>1, <2>2, <2>6, LinedTail
    <3>2. \/ after.last = session.last /\ after.inbox = session.inbox
          \/ /\ after.last = Head(session.inbox)
             /\ after.inbox = Tail(session.inbox)
      BY <2>3, <2>4, <2>5 DEF SameLine
    <3> HIDE DEF after, session
    <3> QED
      BY <2>6, <3>1, <3>2
  <2> HIDE DEF after
  <2>8. /\ x.sessions = [e.sessions EXCEPT ![s] = after]
        /\ x.slots = e.slots /\ x.orphan = e.orphan
    BY <2>1 DEF State, after
  <2> HIDE DEF x
  <2>9. OldIn(x, m)
    BY <2>7, <2>8 DEF OldIn
  <2> QED
    BY <1>1, <2>8, <2>9 DEF x
<1>4. CASE InboxFor(s) # <<>> /\ d # 0
  <2> DEFINE after == DeliverSlot(session)
             rest == Shifted(slot, session)
  <2>1. /\ x.sessions = [e.sessions EXCEPT ![s] = after]
        /\ x.slots = [slots EXCEPT ![d] = rest] /\ x.orphan = e.orphan
    BY <1>4 DEF LocalSync, State
  <2>2. SameLine(session, after)
    BY LineKept DEF DeliverSlot
  <2>3. d \in Slots /\ slot \in Slot /\ slot.queue # <<>>
    BY <1>1, <1>4 DEF InboxFor
  <2>4. Lined(slot.last, slot.queue, m)
    BY <2>3 DEF OldIn
  <2>5. Lined(rest.last, rest.queue, m)
    BY <2>3, <2>4, ShiftedOld
  <2>6. rest \in Slot
    <3>1. slot.queue \in Seq(Items)
      BY <2>3 DEF Slot
    <3>2. Tail(slot.queue) \in Seq(Items) /\ Head(slot.queue) \in Items
      BY <2>3, <3>1
    <3>3. Head(slot.queue) \in Nat
      BY <3>2, ItemsAreNumbers
    <3> HIDE DEF slot
    <3> QED
      BY <2>3, <3>2, <3>3 DEF Shifted, Slot
  <2> HIDE DEF x, after, rest
  <2>7. x.slots \in [Slots -> Slot]
    BY <1>1, <2>1, <2>6
  <2>8. \A y \in DOMAIN x.sessions :
          Lined(x.sessions[y].last, x.sessions[y].inbox, m)
    BY <2>1, <2>2 DEF OldIn, SameLine
  <2>9. \A y \in Slots : Lined(x.slots[y].last, x.slots[y].queue, m)
    BY <1>1, <2>1, <2>5 DEF OldIn
  <2>10. OldIn(x, m)
    BY <2>1, <2>8, <2>9 DEF OldIn
  <2> QED
    BY <2>7, <2>10 DEF x
<1> QED
  BY <1>2, <1>3, <1>4

LEMMA ScheduleLocalHeld ==
  ASSUME TypeInv, NEW s, ScheduleLocal(s), NEW m \in Nat, Held(m)
  PROVE  Held(m)'
<1> DEFINE n == next_session
           command == Head(sessions[s].commands)
           taken == [sessions[s] EXCEPT !.commands = Tail(sessions[s].commands)]
           e == [Now EXCEPT !.sessions[s].commands = Tail(sessions[s].commands)]
<1>1. s \in DOMAIN sessions /\ sessions[s] \in Session
      /\ sessions[s].commands # <<>>
  BY DEF ScheduleLocal, LocalReady, HeadReady, TypeInv, TypeOK
<1>2. taken \in Session /\ e \in State(n) /\ n \in Nat
  BY <1>1, TailTaken DEF TypeInv, TypeOK
<1>3. /\ e.slots = slots /\ e.orphan = orphan
      /\ e.sessions = [sessions EXCEPT ![s] = taken]
  BY DEF Now
<1>4. SameLine(sessions[s], taken) /\ taken.slot = sessions[s].slot
  BY <1>1 DEF SameLine, Session
<1>5. Commit(LocalEffect(e, s, command))
  BY DEF ScheduleLocal
<1> HIDE DEF e, taken, n
<1>6. SameInboxes(Now, e)
  BY <1>1, <1>3, <1>4 DEF SameInboxes, SameLine, Now
<1>7. OldIn(e, m)
  BY <1>6, NowHeld, SameOld
<1>8. /\ e.sessions[s] = taken /\ DOMAIN e.sessions = DOMAIN sessions
      /\ e.sessions[s].inbox = sessions[s].inbox
      /\ e.sessions[s].slot = sessions[s].slot
  BY <1>1, <1>3, <1>4 DEF SameLine
<1>9. CASE command.op = "sync_next_message"
  <2>1. LocalEffect(e, s, command) = LocalSync(e, s)
    BY <1>9 DEF LocalEffect
  <2>2. /\ OldIn(LocalSync(e, s), m)
        /\ LocalSync(e, s).slots \in [Slots -> Slot]
    BY <1>1, <1>2, <1>3, <1>7, <1>8, LocalSyncHeld DEF n
  <2> QED
    BY <1>5, <2>1, <2>2, CommitHeld
<1>10. CASE command.op # "sync_next_message"
  <2>1. PICK session :
          /\ session \in {Reply(taken, "frame"),
                          [Reply(taken, "frame") EXCEPT !.scope = command.arg]}
          /\ LocalEffect(e, s, command) = [e EXCEPT !.sessions[s] = session]
    BY <1>8, <1>10 DEF LocalEffect
  <2> DEFINE x == [e EXCEPT !.sessions[s] = session]
  <2>2. SameLine(taken, session)
    <3>1. /\ SameLine(taken, Reply(taken, "frame"))
          /\ \A v : SameLine(taken, [Reply(taken, "frame") EXCEPT !.scope = v])
      BY <1>2, LineKept
    <3> QED
      BY <2>1, <3>1
  <2>3. SameInboxes(e, x) /\ x.slots = slots
    BY <1>1, <1>2, <1>3, <1>8, <2>2, OneLineKept DEF State
  <2> HIDE DEF x
  <2>4. SameInboxes(Now, x)
    BY <1>6, <2>3, SameInboxesTransitive
  <2> QED
    BY <1>5, <2>1, <2>3, <2>4, QuietHeld DEF x
<1> QED
  BY <1>9, <1>10

\* A step that neither gives out nor stores an item.
MovesNothing ==
  \/ \E x : Commit(x) /\ SameInboxes(Now, x) /\ x.slots = slots
  \/ UNCHANGED <<sessions, slots, orphan>>

\* Every other handler and every turn of the round robin.
LEMMA HandlersMoveNothing ==
  ASSUME TypeInv, ScheduleStep \/ ClientStep \/ ClockStep
  PROVE  MovesNothing \/ (\E d : Admit(d)) \/ \E s : ScheduleLocal(s)
<1> DEFINE Quiet == \E x : /\ Commit(x)
                           /\ SameInboxes(Now, x)
                           /\ x.slots = slots
<1>1. /\ Now.sessions = sessions /\ Now.slots = slots /\ Now.orphan = orphan
      /\ \A s \in DOMAIN sessions : sessions[s] \in Session
  BY DEF Now, TypeInv, TypeOK
<1>2. ASSUME NEW x, x.sessions = sessions, x.slots = slots, x.orphan = orphan
      PROVE  SameInboxes(Now, x) /\ x.slots = slots
  BY <1>1, <1>2, NothingMoved
<1>3. ASSUME NEW s \in DOMAIN sessions, NEW session,
             SameLine(sessions[s], session), NEW x,
             x.sessions = [sessions EXCEPT ![s] = session],
             x.slots = slots, x.orphan = orphan
      PROVE  SameInboxes(Now, x) /\ x.slots = slots
  BY <1>1, <1>3 DEF SameInboxes, SameLine
<1>4. /\ \A gone : SameInboxes(Now, [Now EXCEPT !.closed = gone])
                   /\ [Now EXCEPT !.closed = gone].slots = slots
      /\ SameInboxes(Now, Fail(Now)) /\ Fail(Now).slots = slots
  BY NothingMoved DEF Fail, Now
<1>5. ASSUME NEW s, ScheduleAged(s)
      PROVE  Quiet
  <2> DEFINE session == [Reply(sessions[s], "frame") EXCEPT
                           !.commands = Tail(sessions[s].commands)]
             x == [Now EXCEPT !.sessions[s] = session]
  <2>1. s \in DOMAIN sessions /\ Commit(x)
    BY <1>5 DEF ScheduleAged
  <2>2. SameLine(sessions[s], session)
    BY <1>1, <2>1, LineKept
  <2>3. /\ x.sessions = [sessions EXCEPT ![s] = session]
        /\ x.slots = slots /\ x.orphan = orphan
    BY DEF Now
  <2> HIDE DEF x, session
  <2>4. SameInboxes(Now, x) /\ x.slots = slots
    BY <1>3, <2>1, <2>2, <2>3
  <2> QED
    BY <2>1, <2>4
<1>6. ASSUME NEW k, TurnPop(k)
      PROVE  Quiet
  <2> DEFINE x == DispatchPop([Now EXCEPT !.order = Rotated(k)])
  <2>1. x.sessions = sessions /\ x.slots = slots /\ x.orphan = orphan
    BY DEF DispatchPop, SendCommand, SendUpstream, Now
  <2>2. Commit(x)
    BY <1>6 DEF TurnPop
  <2> HIDE DEF x
  <2>3. SameInboxes(Now, x) /\ x.slots = slots
    BY <1>2, <2>1
  <2> QED
    BY <2>2, <2>3
<1>7. ASSUME NEW k, NEW s, s # 0, NextTurn(k, s)
      PROVE  LET e == TurnTaken(k, s, Head(sessions[s].commands))
             IN /\ s \in DOMAIN sessions /\ e \in State(next_session)
                /\ e.slots = slots /\ e.orphan = orphan
                /\ \E session : /\ session \in Session
                                /\ SameLine(sessions[s], session)
                                /\ e.sessions = [sessions EXCEPT ![s] = session]
  <2> DEFINE e == TurnTaken(k, s, Head(sessions[s].commands))
             taken == [sessions[s] EXCEPT !.commands = Tail(sessions[s].commands)]
  <2>1. s \in DOMAIN sessions /\ e \in State(next_session)
    BY <1>7, TurnTakenType
  <2>2. sessions[s].commands # <<>>
    BY <1>7 DEF NextTurn, HasWork
  <2>3. taken \in Session /\ SameLine(sessions[s], taken)
    BY <1>1, <2>1, <2>2, TailTaken, LineKept
  <2>4. /\ e.sessions = [sessions EXCEPT ![s] = taken]
        /\ e.slots = slots /\ e.orphan = orphan
    BY DEF TurnTaken, Now
  <2> HIDE DEF e, taken
  <2>5. \E session : /\ session \in Session
                     /\ SameLine(sessions[s], session)
                     /\ e.sessions = [sessions EXCEPT ![s] = session]
    BY <2>3, <2>4
  <2> QED
    BY <2>1, <2>4, <2>5 DEF e
<1>8. ASSUME NEW k, NEW s, TurnDispatch(k, s)
      PROVE  Quiet
  <2> DEFINE command == Head(sessions[s].commands)
             e == TurnTaken(k, s, command)
             x == Reserved(e, s, command)
             y == Dispatch(x, s, command)
  <2>1. s # 0 /\ NextTurn(k, s) /\ Commit(y)
    BY <1>8 DEF TurnDispatch
  <2>2. /\ s \in DOMAIN sessions /\ e \in State(next_session)
        /\ e.slots = slots /\ e.orphan = orphan
    BY <1>7, <2>1
  <2>3. PICK session : /\ SameLine(sessions[s], session)
                       /\ e.sessions = [sessions EXCEPT ![s] = session]
    BY <1>7, <2>1
  <2> HIDE DEF e
  <2>4. x.sessions = e.sessions /\ x.slots = e.slots /\ x.orphan = e.orphan
    BY <2>2 DEF Reserved, State
  <2>5. x \in State(next_session)
    <3>1. command \in Command /\ s \in Nat
      BY <2>1, <2>2, TurnTakenType DEF TypeInv, TypeOK
    <3> QED
      BY <2>2, <3>1, ReservedType
  <2> HIDE DEF x
  <2>6. y.sessions = x.sessions /\ y.slots = x.slots /\ y.orphan = x.orphan
    BY <2>5 DEF Dispatch, SendCommand, SendUpstream, State
  <2> HIDE DEF y
  <2>7. SameInboxes(Now, y) /\ y.slots = slots
    BY <1>3, <2>2, <2>3, <2>4, <2>6
  <2> QED
    BY <2>1, <2>7
<1>9. ASSUME NEW k, NEW s, TurnReject(k, s)
       PROVE  Quiet
  <2> DEFINE e == TurnTaken(k, s, Head(sessions[s].commands))
             given == Reply(e.sessions[s], "frame")
             x == [e EXCEPT !.sessions[s] = given]
  <2>1. s # 0 /\ NextTurn(k, s) /\ Commit(x)
    BY <1>9 DEF TurnReject
  <2>2. /\ s \in DOMAIN sessions /\ e \in State(next_session)
        /\ e.slots = slots /\ e.orphan = orphan
    BY <1>7, <2>1
  <2>3. PICK session : /\ session \in Session
                       /\ SameLine(sessions[s], session)
                       /\ e.sessions = [sessions EXCEPT ![s] = session]
    BY <1>7, <2>1
  <2> HIDE DEF e
  <2>4. e.sessions[s] = session
    BY <2>2, <2>3
  <2>5. SameLine(sessions[s], given)
    BY <2>3, <2>4, LineKept DEF SameLine
  <2> HIDE DEF given
  <2>6. /\ x.sessions = [sessions EXCEPT ![s] = given]
        /\ x.slots = slots /\ x.orphan = orphan
    BY <2>2, <2>3 DEF State
  <2> HIDE DEF x
  <2>7. SameInboxes(Now, x) /\ x.slots = slots
    BY <1>3, <2>2, <2>5, <2>6
  <2> QED
    BY <2>1, <2>7
<1>10. ASSUME NEW s, NEW command, ClientFrame(s, command)
       PROVE  Quiet
  <2> DEFINE session == [sessions[s] EXCEPT
                           !.commands = Append(sessions[s].commands, command),
                           !.owed = Append(sessions[s].owed, command)]
             x == [Now EXCEPT !.sessions[s] = session]
  <2>1. /\ s \in DOMAIN sessions
        /\ Commit(x) \/ Commit([Now EXCEPT !.closed = {s}])
    BY <1>10 DEF ClientFrame, CommitAndSchedule
  <2>2. SameLine(sessions[s], session)
    BY <1>1, <2>1, LineKept
  <2>3. /\ x.sessions = [sessions EXCEPT ![s] = session]
        /\ x.slots = slots /\ x.orphan = orphan
    BY DEF Now
  <2> HIDE DEF x, session
  <2>4. SameInboxes(Now, x) /\ x.slots = slots
    BY <1>3, <2>1, <2>2, <2>3
  <2> QED
    BY <1>4, <2>1, <2>4
<1>11. ASSUME NEW s, ClientClosed(s) \/ WriteFailed(s)
       PROVE  Quiet
  BY <1>4, <1>11 DEF ClientClosed, WriteFailed, CommitAndSchedule
<1>12. ASSUME NEW s, Written(s)
       PROVE  Quiet
  <2> DEFINE session == [sessions[s] EXCEPT !.writes = Tail(sessions[s].writes)]
             x == [Now EXCEPT !.sessions[s].writes = Tail(sessions[s].writes)]
             y == Fail(Finish(x))
  <2>1. s \in DOMAIN sessions /\ (Commit(x) \/ Commit(y))
    BY <1>12 DEF Written, CommitAndSchedule
  <2>2. SameLine(sessions[s], session)
    BY <1>1, <2>1, LineKept
  <2>3. /\ x.sessions = [sessions EXCEPT ![s] = session]
        /\ x.slots = slots /\ x.orphan = orphan
        /\ y.sessions = x.sessions /\ y.slots = slots /\ y.orphan = orphan
    BY DEF Now, Fail, Finish
  <2> HIDE DEF x, y, session
  <2>4. /\ SameInboxes(Now, x) /\ x.slots = slots
        /\ SameInboxes(Now, y) /\ y.slots = slots
    BY <1>3, <2>1, <2>2, <2>3
  <2> QED
    BY <2>1, <2>4
<1>13. ASSUME \/ ResponseTimeout \/ UpstreamWriteTimeout
       PROVE  Quiet
  BY <1>4, <1>13 DEF ResponseTimeout, UpstreamWriteTimeout, CommitAndSchedule
<1>14. ASSUME NEW stuck, NEW late, NEW expired, NEW poll,
              Tick(stuck, late, expired, poll)
       PROVE  Quiet
  <2> DEFINE answered(s) == [Reply(sessions[s], "frame") EXCEPT !.sync = 0]
             table == [s \in DOMAIN sessions |->
                         IF s \in late
                         THEN [Reply(sessions[s], "frame") EXCEPT !.sync = 0]
                         ELSE sessions[s]]
             shown == IF poll THEN HintAll(table) ELSE table
             x == [Now EXCEPT
                     !.closed = stuck,
                     !.sessions = IF poll THEN HintAll(table) ELSE table,
                     !.remote = IF "remote" \in expired THEN NoRemote
                                ELSE remote,
                     !.signing = IF "signing" \in expired THEN NoSigning
                                 ELSE signing]
  <2>1. x.sessions = shown /\ x.slots = slots /\ x.orphan = orphan
    BY DEF Now
  <2>2. Commit(x)
    BY <1>14 DEF Tick, CommitAndSchedule
  <2> HIDE DEF x
  <2>3. ASSUME NEW s \in DOMAIN sessions
        PROVE  /\ table[s] \in Session
               /\ SameLine(sessions[s], table[s])
               /\ SameLine(sessions[s], Hint(table[s]))
    <3>1. sessions[s] \in Session
      BY <1>1
    <3>2. /\ answered(s) \in Session
          /\ SameLine(sessions[s], answered(s))
          /\ SameLine(sessions[s], sessions[s])
      BY <3>1, AnsweredType, LineKept
    <3>3. table[s] \in {answered(s), sessions[s]}
      OBVIOUS
    <3> HIDE DEF table, answered
    <3>4. table[s] \in Session /\ SameLine(sessions[s], table[s])
      BY <3>1, <3>2, <3>3
    <3>5. SameLine(table[s], Hint(table[s]))
      BY <3>4, LineKept
    <3> QED
      BY <3>4, <3>5 DEF SameLine
  <2>4. \A s \in DOMAIN shown : s \in DOMAIN sessions
                                /\ SameLine(sessions[s], shown[s])
    <3>1. DOMAIN table = DOMAIN sessions
      OBVIOUS
    <3> HIDE DEF table
    <3> QED
      BY <2>3, <3>1 DEF HintAll
  <2> HIDE DEF shown
  <2>5. SameInboxes(Now, x)
    BY <1>1, <2>1, <2>4 DEF SameInboxes
  <2> QED
    BY <2>1, <2>2, <2>5
<1>15. ASSUME \/ ScheduleBusy \/ TurnNone \/ QuarantineDeadline
              \/ \E i : DmDeadline(i)
       PROVE  UNCHANGED <<sessions, slots, orphan>>
  BY <1>15 DEF ScheduleBusy, TurnNone, QuarantineDeadline, DmDeadline
<1>16. Quiet => MovesNothing
  BY DEF MovesNothing
<1>17. UNCHANGED <<sessions, slots, orphan>> => MovesNothing
  BY DEF MovesNothing
<1> HIDE DEF Quiet
<1> QED
  BY <1>5, <1>6, <1>8, <1>9, <1>10, <1>11, <1>12, <1>13, <1>14, <1>15, <1>16,
     <1>17 DEF ScheduleStep, ClientStep, ClockStep

LEMMA NothingHeld ==
  ASSUME TypeInv, NEW m \in Nat, Held(m), MovesNothing
  PROVE  Held(m)'
BY QuietHeld DEF MovesNothing, Held

LEMMA HandlersHeld ==
  ASSUME TypeInv, NEW m \in Nat, Held(m), ScheduleStep \/ ClientStep \/ ClockStep
  PROVE  Held(m)'
BY HandlersMoveNothing, NothingHeld, AdmitHeld, ScheduleLocalHeld

\* The end of an epoch and the writer's events.
LEMMA LinkMovesNothing ==
  ASSUME \/ LateUpstreamFrame \/ UpstreamClosed \/ TakeWrite
         \/ \E w : UpstreamWritten(w)
  PROVE  MovesNothing
<1> DEFINE x == Fail(Now)
<1>1. x.sessions = Now.sessions /\ x.slots = slots /\ x.orphan = Now.orphan
      /\ Now.slots = slots
  BY DEF Fail, Now
<1>2. CASE LateUpstreamFrame \/ UpstreamClosed
  <2>1. Commit(x)
    BY <1>2 DEF LateUpstreamFrame, UpstreamClosed, CommitAndSchedule
  <2> HIDE DEF x
  <2> QED
    BY <1>1, <2>1, NothingMoved DEF MovesNothing
<1>3. CASE TakeWrite
  BY <1>3 DEF TakeWrite, MovesNothing
<1>4. ASSUME NEW w, UpstreamWritten(w)
      PROVE  MovesNothing
  <2> DEFINE y == [Now EXCEPT
                     !.upstream_writes = upstream_writes \ {w},
                     !.active.write = IF AwaitsWrite(w) THEN 0 ELSE active.write]
  <2>1. Commit(y)
    BY <1>4 DEF UpstreamWritten, CommitAndSchedule
  <2>2. y.sessions = Now.sessions /\ y.slots = slots /\ y.orphan = Now.orphan
    BY DEF Now
  <2> HIDE DEF y
  <2> QED
    BY <1>1, <2>1, <2>2, NothingMoved DEF MovesNothing
<1> QED
  BY <1>2, <1>3, <1>4

LEMMA LinkHeld ==
  ASSUME TypeInv, NEW m \in Nat, Held(m),
         \/ LateUpstreamFrame \/ UpstreamClosed \/ TakeWrite
         \/ \E w : UpstreamWritten(w)
  PROVE  Held(m)'
BY LinkMovesNothing, NothingHeld

\* A new broker is given the slots and the orphan, or none.
LEMMA RestartHeld ==
  ASSUME NEW m \in Nat, Held(m), NEW same_key, Restart(same_key)
  PROVE  Held(m)'
<1>1. sessions' = sessions
  BY DEF Restart
<1>2. CASE UNCHANGED <<orphan, slots>>
  BY <1>1, <1>2 DEF Held
<1>3. CASE orphan' = 0 /\ slots' = [d \in Slots |-> EmptySlot]
  <2>1. Lined(EmptySlot.last, EmptySlot.queue, m)
    BY DEF EmptySlot, Lined
  <2>2. \A d \in Slots : slots'[d] = EmptySlot
    BY <1>3
  <2>3. orphan' <= m
    BY <1>3
  <2> QED
    BY <1>1, <2>1, <2>2, <2>3 DEF Held
<1> QED
  BY <1>2, <1>3 DEF Restart

-----------------------------------------------------------------------------
(* What is on the link is younger, and younger still what has not been     *)
(* asked for                                                               *)

Message(i) == replies[i].frame.code = "message"
Carried(i) == replies[i].frame.arg

Coming(m) ==
  /\ \A i \in DOMAIN replies :
       Message(i) => m < Carried(i) /\ Carried(i) <= arrived
  /\ \A i, j \in DOMAIN replies :
       Message(i) /\ Message(j) /\ i < j => Carried(i) < Carried(j)
  /\ \A i \in DOMAIN replies, k \in DOMAIN physical :
       Message(i) => Carried(i) < physical[k]
  /\ \A k \in DOMAIN physical : m < physical[k] /\ physical[k] <= arrived
  /\ \A j, k \in DOMAIN physical : j < k => physical[j] < physical[k]

\* The inductive invariant: m is the youngest item that has been given out.
QueueInv == \E m \in Nat : m <= arrived /\ Held(m) /\ Coming(m)

LEMMA ComingTypes ==
  ASSUME CompanionType
  PROVE  /\ \A i \in DOMAIN replies : Carried(i) \in Nat
         /\ \A k \in DOMAIN physical : physical[k] \in Nat
         /\ arrived \in Nat
<1>1. \A i \in DOMAIN replies : replies[i] \in Sending
  BY DEF CompanionType
<1>2. \A f \in Frames : f.arg \in Nat
  BY BrokerAssumption
<1>3. \A i \in DOMAIN replies : Carried(i) \in Nat
  BY <1>1, <1>2, SentAreFrames DEF Sending, Carried
<1>4. \A k \in DOMAIN physical : physical[k] \in 1 .. MaxArrivals
  <2> DEFINE S == 1 .. MaxArrivals
  <2>1. physical \in Seq(S)
    BY DEF CompanionType
  <2> HIDE DEF S
  <2>2. \A k \in DOMAIN physical : physical[k] \in S
    BY <2>1
  <2> QED
    BY <2>2 DEF S
<1>5. MaxArrivals \in Nat /\ arrived \in 0 .. MaxArrivals
  BY CompanionAssumption DEF CompanionType
<1> QED
  BY <1>3, <1>4, <1>5

\* Nothing new on the link.
LEMMA ComingLess ==
  ASSUME NEW m, Coming(m), replies' \in {replies, <<>>},
         physical' \in {physical, <<>>}, arrived' = arrived
  PROVE  Coming(m)'
<1>1. \A i \in DOMAIN replies' : i \in DOMAIN replies /\ replies'[i] = replies[i]
  OBVIOUS
<1>2. \A k \in DOMAIN physical' :
        k \in DOMAIN physical /\ physical'[k] = physical[k]
  OBVIOUS
<1> QED
  BY <1>1, <1>2 DEF Coming, Message, Carried

\* The first frame arrives: it may be the item given out.
LEMMA ComingTaken ==
  ASSUME CompanionType, NEW m, Coming(m), replies # <<>>,
         replies' = Tail(replies), UNCHANGED <<physical, arrived>>
  PROVE  /\ Coming(m)'
         /\ Head(replies) = replies[1] /\ 1 \in DOMAIN replies
         /\ \A v : Message(1) /\ v = Carried(1) => Coming(v)'
<1>1. /\ 1 \in DOMAIN replies /\ Head(replies) = replies[1]
      /\ \A i \in DOMAIN replies' :
           i \in Nat \ {0} /\ i + 1 \in DOMAIN replies
           /\ replies'[i] = replies[i + 1]
  <2> DEFINE S == Sending
  <2>1. replies \in Seq(S)
    BY DEF CompanionType
  <2> HIDE DEF S
  <2> QED
    BY <2>1
<1>2. \A i, j \in DOMAIN replies' : i < j => i + 1 < j + 1
  BY <1>1
<1>3. \A i \in DOMAIN replies' : 1 < i + 1
  BY <1>1
<1>4. Coming(m)'
  BY <1>1, <1>2 DEF Coming, Message, Carried
<1>5. ASSUME NEW v, v = Carried(1), Message(1)
      PROVE  Coming(v)'
  <2>1. \A i \in DOMAIN replies' :
          Message(i)' => v < Carried(i)' /\ Carried(i)' <= arrived'
    BY <1>1, <1>3, <1>4, <1>5 DEF Coming, Message, Carried
  <2>2. \A k \in DOMAIN physical' : v < physical'[k] /\ physical'[k] <= arrived'
    BY <1>1, <1>5 DEF Coming
  <2> QED
    BY <1>4, <2>1, <2>2 DEF Coming
<1> QED
  BY <1>1, <1>4, <1>5

\* Frames that carry no message are sent behind those on their way.
LEMMA ComingAdded ==
  ASSUME CompanionType, NEW m, Coming(m), NEW more \in Seq(Sending),
         replies' = replies \o more,
         \A i \in DOMAIN more : more[i].frame.code # "message",
         UNCHANGED <<physical, arrived>>
  PROVE  Coming(m)'
<1>1. \A i \in DOMAIN replies' :
        \/ i \in DOMAIN replies /\ replies'[i] = replies[i]
        \/ i - Len(replies) \in DOMAIN more
           /\ replies'[i] = more[i - Len(replies)]
  BY SentBehind
<1>2. \A i \in DOMAIN replies' :
        Message(i)' => i \in DOMAIN replies /\ replies'[i] = replies[i]
  BY <1>1 DEF Message
<1> QED
  BY <1>2 DEF Coming, Message, Carried

\* The companion's oldest item is sent behind those on their way.
LEMMA ComingPopped ==
  ASSUME CompanionType, NEW m, Coming(m), physical # <<>>,
         NEW more \in Seq(Sending), replies' = replies \o more,
         more # <<>>,
         \A i \in DOMAIN more : i = 1 /\ more[i].frame.arg = Head(physical),
         physical' = Tail(physical), arrived' = arrived
  PROVE  Coming(m)'
<1>1. /\ 1 \in DOMAIN physical /\ Head(physical) = physical[1]
      /\ \A k \in DOMAIN physical' :
           k \in Nat \ {0} /\ k + 1 \in DOMAIN physical
           /\ physical'[k] = physical[k + 1]
  <2> DEFINE S == 1 .. MaxArrivals
  <2>1. physical \in Seq(S)
    BY DEF CompanionType
  <2> HIDE DEF S
  <2> QED
    BY <2>1
<1>2. /\ DOMAIN replies' \subseteq Nat /\ Len(replies) \in Nat
      /\ DOMAIN replies = 1 .. Len(replies)
      /\ \A i \in DOMAIN replies' :
           \/ i \in DOMAIN replies /\ replies'[i] = replies[i]
           \/ /\ i > Len(replies) /\ i - Len(replies) \in DOMAIN more
              /\ replies'[i] = more[i - Len(replies)]
  BY SentBehind
<1>3. \A i \in DOMAIN replies' :
        \/ /\ i \in DOMAIN replies /\ replies'[i] = replies[i]
           /\ i <= Len(replies)
        \/ i = Len(replies) + 1 /\ replies'[i].frame.arg = physical[1]
  <2> TAKE i \in DOMAIN replies'
  <2>1. CASE i \in DOMAIN replies /\ replies'[i] = replies[i]
    BY <1>2, <2>1
  <2>2. CASE /\ i > Len(replies) /\ i - Len(replies) \in DOMAIN more
             /\ replies'[i] = more[i - Len(replies)]
    <3>1. i - Len(replies) = 1 /\ replies'[i].frame.arg = physical[1]
      BY <1>1, <2>2
    <3> QED
      BY <1>2, <3>1
  <2> QED
    BY <1>2, <2>1, <2>2
<1>4. ASSUME NEW i \in DOMAIN replies', NEW j \in DOMAIN replies',
             Message(i)', Message(j)', i < j
      PROVE  Carried(i)' < Carried(j)'
  <2>1. i \in DOMAIN replies /\ replies'[i] = replies[i]
    BY <1>2, <1>3, <1>4
  <2>2. CASE j \in DOMAIN replies /\ replies'[j] = replies[j]
    BY <1>4, <2>1, <2>2 DEF Coming, Message, Carried
  <2>3. CASE replies'[j].frame.arg = physical[1]
    BY <1>1, <1>4, <2>1, <2>3 DEF Coming, Message, Carried
  <2> QED
    BY <1>3, <2>2, <2>3
<1>5. \A k \in DOMAIN physical' : 1 < k + 1 /\ physical[1] < physical'[k]
  <2>1. \A k \in DOMAIN physical' : 1 < k + 1
    BY <1>1
  <2> QED
    BY <1>1, <2>1 DEF Coming
<1>6. \A i \in DOMAIN replies' :
        Message(i)' => m < Carried(i)' /\ Carried(i)' <= arrived'
  BY <1>1, <1>3 DEF Coming, Message, Carried
<1>7. \A i \in DOMAIN replies', k \in DOMAIN physical' :
        Message(i)' => Carried(i)' < physical'[k]
  BY <1>1, <1>3, <1>5 DEF Coming, Message, Carried
<1>8. \A k \in DOMAIN physical' : m < physical'[k] /\ physical'[k] <= arrived'
  BY <1>1 DEF Coming
<1>9. \A j, k \in DOMAIN physical' : j < k => physical'[j] < physical'[k]
  <2>1. \A j, k \in DOMAIN physical' : j < k => j + 1 < k + 1
    BY <1>1
  <2> QED
    BY <1>1, <2>1 DEF Coming
<1> QED
  BY <1>4, <1>6, <1>7, <1>8, <1>9 DEF Coming

\* An item arrives by radio, the youngest.
LEMMA ComingArrived ==
  ASSUME CompanionType, NEW m \in Nat, m <= arrived, Coming(m),
         NEW more \in Seq(Sending), replies' = replies \o more,
         \A i \in DOMAIN more : more[i].frame.code # "message",
         arrived' = arrived + 1, physical' = Append(physical, arrived + 1)
  PROVE  Coming(m)'
<1>1. /\ \A i \in DOMAIN replies : Carried(i) \in Nat
      /\ \A k \in DOMAIN physical : physical[k] \in Nat
      /\ arrived \in Nat
  BY ComingTypes
<1>2. /\ \A k \in DOMAIN physical' :
           \/ k \in DOMAIN physical /\ physical'[k] = physical[k]
           \/ physical'[k] = arrived' /\ k \notin DOMAIN physical
      /\ \A j, k \in DOMAIN physical' :
           j < k => j \in DOMAIN physical /\ physical'[j] = physical[j]
  <2> DEFINE S == 1 .. MaxArrivals
             item == arrived + 1
             longer == Append(physical, item)
  <2>1. physical \in Seq(S)
    BY DEF CompanionType
  <2> HIDE DEF S, item
  <2>2. /\ \A k \in DOMAIN longer :
             \/ k \in DOMAIN physical /\ longer[k] = physical[k]
             \/ longer[k] = item /\ k \notin DOMAIN physical
        /\ \A j, k \in DOMAIN longer :
             j < k => j \in DOMAIN physical /\ longer[j] = physical[j]
    BY <2>1
  <2> HIDE DEF longer
  <2>3. physical' = longer /\ arrived' = item
    BY DEF longer, item
  <2> QED
    BY <2>2, <2>3
<1>3. \A i \in DOMAIN replies' :
        \/ i \in DOMAIN replies /\ replies'[i] = replies[i]
        \/ i - Len(replies) \in DOMAIN more
           /\ replies'[i] = more[i - Len(replies)]
  BY SentBehind
<1>4. \A i \in DOMAIN replies' :
        Message(i)' => i \in DOMAIN replies /\ replies'[i] = replies[i]
  BY <1>3 DEF Message
<1>5. \A i \in DOMAIN replies' :
        Message(i)' => m < Carried(i)' /\ Carried(i)' <= arrived'
  BY <1>1, <1>4 DEF Coming, Message, Carried
<1>6. \A i, j \in DOMAIN replies' :
        Message(i)' /\ Message(j)' /\ i < j => Carried(i)' < Carried(j)'
  BY <1>4 DEF Coming, Message, Carried
<1>7. \A i \in DOMAIN replies', k \in DOMAIN physical' :
        Message(i)' => Carried(i)' < physical'[k]
  BY <1>1, <1>2, <1>4 DEF Coming, Message, Carried
<1>8. \A k \in DOMAIN physical' : m < physical'[k] /\ physical'[k] <= arrived'
  BY <1>1, <1>2 DEF Coming
<1>9. ASSUME NEW j \in DOMAIN physical', NEW k \in DOMAIN physical', j < k
      PROVE  physical'[j] < physical'[k]
  <2>1. j \in DOMAIN physical /\ physical'[j] = physical[j]
    BY <1>2, <1>9
  <2> QED
    BY <1>1, <1>2, <1>9, <2>1 DEF Coming
<1> QED
  BY <1>5, <1>6, <1>7, <1>8, <1>9 DEF Coming

\* Only a sync is answered with a message.
LEMMA AnswersNoMessage ==
  ASSUME NEW command \in Command, command # Sync,
         NEW answer \in Answers(command), NEW i \in DOMAIN answer
  PROVE  answer[i].code # "message"
<1>1. command.op # "sync_next_message"
  BY BrokerAssumption DEF Command
<1>2. \/ answer = <<Frame("contacts_start", 0), Frame("contact", 0),
                    Frame("end_of_contacts", 0)>>
      \/ answer = <<>>
      \/ answer = <<Frame("telemetry_response", SelfKey)>>
      \/ answer = <<Frame("sent", Token)>>
      \/ \E code \in SuccessCodes(command.op) :
           answer = <<Frame(code, IF code = "ok" THEN 0 ELSE command.arg)>>
  BY DEF Answers
<1>3. ASSUME NEW f, answer = <<f>>, f.code # "message"
      PROVE  answer[i].code # "message"
  BY <1>3
<1>4. CASE answer = <<Frame("contacts_start", 0), Frame("contact", 0),
                      Frame("end_of_contacts", 0)>>
  <2>1. answer[i] \in {Frame("contacts_start", 0), Frame("contact", 0),
                       Frame("end_of_contacts", 0)}
    BY <1>4
  <2> QED
    BY <2>1 DEF Frame
<1>5. CASE \/ answer = <<Frame("telemetry_response", SelfKey)>>
           \/ answer = <<Frame("sent", Token)>>
  <2>1. /\ Frame("telemetry_response", SelfKey).code # "message"
        /\ Frame("sent", Token).code # "message"
    BY DEF Frame
  <2> QED
    BY <1>3, <1>5, <2>1
<1>6. ASSUME NEW code \in SuccessCodes(command.op),
             answer = <<Frame(code, IF code = "ok" THEN 0 ELSE command.arg)>>
      PROVE  answer[i].code # "message"
  <2>1. code # "message"
    BY <1>1, OnlySyncFetches
  <2>2. Frame(code, IF code = "ok" THEN 0 ELSE command.arg).code # "message"
    BY <2>1 DEF Frame
  <2> QED
    BY <1>3, <1>6, <2>2
<1> QED
  BY <1>2, <1>4, <1>5, <1>6

\* The frames of an answer.
LEMMA AnswerFrames ==
  ASSUME NEW job \in Write, NEW frames \in Seq(SentFrames)
  PROVE  /\ Answer(job, frames) \in Seq(Sending)
         /\ \A i \in DOMAIN Answer(job, frames) :
              /\ i \in DOMAIN frames
              /\ Answer(job, frames)[i].frame = frames[i]
<1>1. DOMAIN frames = 1 .. Len(frames) /\ Len(frames) \in Nat
  OBVIOUS
<1> QED
  BY <1>1, AnswerType DEF Answer

LEMMA ComingCompanion ==
  ASSUME CompanionType, NEW m \in Nat, m <= arrived, Coming(m), CompanionStep
  PROVE  Coming(m)' /\ m <= arrived'
<1>1. received # <<>> => Head(received) \in Write
  BY FirstAndOthers DEF CompanionType
<1>2. arrived \in Nat
  BY ComingTypes
<1>3. ASSUME NEW frames \in Seq(SentFrames), received # <<>>,
             replies' = replies \o Answer(Head(received), frames),
             \A i \in DOMAIN frames : frames[i].code # "message",
             UNCHANGED <<physical, arrived>>
      PROVE  Coming(m)' /\ m <= arrived'
  <2> DEFINE more == Answer(Head(received), frames)
  <2>1. /\ more \in Seq(Sending)
        /\ \A i \in DOMAIN more : i \in DOMAIN frames /\ more[i].frame = frames[i]
    BY <1>1, <1>3, AnswerFrames
  <2> HIDE DEF more
  <2>2. \A i \in DOMAIN more : more[i].frame.code # "message"
    BY <1>3, <2>1
  <2>3. replies' = replies \o more
    BY <1>3 DEF more
  <2> QED
    BY <1>3, <2>1, <2>2, <2>3, ComingAdded
<1>4. CASE ExecutePop
  <2>1. received # <<>> /\ arrived' = arrived
    BY <1>4 DEF ExecutePop
  <2>2. CASE physical = <<>>
    <3> DEFINE f == Frame("no_more_messages", 0)
    <3>1. f \in SentFrames /\ f.code # "message"
      BY FramesMade DEF Frame
    <3>2. /\ replies' = replies \o Answer(Head(received), <<f>>)
          /\ physical' = physical
      BY <1>4, <2>2 DEF ExecutePop
    <3> HIDE DEF f
    <3>3. <<f>> \in Seq(SentFrames) /\ \A i \in DOMAIN <<f>> : <<f>>[i] = f
      BY <3>1
    <3> QED
      BY <1>3, <2>1, <3>1, <3>2, <3>3
  <2>3. CASE physical # <<>>
    <3> DEFINE f == Frame("message", Head(physical))
               more == Answer(Head(received), <<f>>)
    <3>1. Head(physical) \in 1 .. MaxArrivals
      BY <2>3, FirstAndOthers DEF CompanionType
    <3>2. f \in SentFrames /\ f.arg = Head(physical)
      BY <3>1, FramesMade DEF Frame
    <3>3. replies' = replies \o more /\ physical' = Tail(physical)
      BY <1>4, <2>3 DEF ExecutePop
    <3> HIDE DEF f
    <3> DEFINE one == <<f>>
    <3>4. /\ one \in Seq(SentFrames) /\ Len(one) = 1
          /\ \A i \in DOMAIN one : i = 1 /\ one[i] = f
      BY <3>2
    <3> HIDE DEF one
    <3>5. /\ more \in Seq(Sending) /\ Len(more) = 1
          /\ \A i \in DOMAIN more : i = 1 /\ more[i].frame = f
      <4> DEFINE job == Head(received)
      <4>1. job \in Write
        BY <1>1, <2>1
      <4> HIDE DEF job
      <4>2. /\ Answer(job, one) \in Seq(Sending)
            /\ Len(Answer(job, one)) = Len(one)
            /\ \A i \in DOMAIN Answer(job, one) :
                 i \in DOMAIN one /\ Answer(job, one)[i].frame = one[i]
        BY <3>4, <4>1, AnswerFrames, AnswerType
      <4> QED
        BY <3>4, <4>2 DEF job, one
    <3> HIDE DEF more
    <3>6. more # <<>>
      BY <3>5
    <3>7. \A i \in DOMAIN more : i = 1 /\ more[i].frame.arg = Head(physical)
      BY <3>2, <3>5
    <3>8. Coming(m)'
      BY <2>1, <2>3, <3>3, <3>5, <3>6, <3>7, ComingPopped
    <3> QED
      BY <2>1, <3>8
  <2> QED
    BY <2>2, <2>3
<1>5. CASE Execute
  <2> DEFINE command == Head(received).command
  <2>1. PICK answer \in Answers(command) :
          replies' = replies \o Answer(Head(received), answer)
    BY <1>5 DEF Execute
  <2>2. /\ received # <<>> /\ command # Sync
        /\ UNCHANGED <<physical, arrived>>
    BY <1>5 DEF Execute
  <2>3. command \in Command
    BY <1>1, <2>2 DEF Write
  <2> HIDE DEF command
  <2>4. command.op # "none"
    BY <2>1, NothingAnswersNone
  <2>5. answer \in Seq(SentFrames)
    BY <2>2, <2>3, <2>4, AnswersMade
  <2>6. \A i \in DOMAIN answer : answer[i].code # "message"
    BY <2>2, <2>3, AnswersNoMessage
  <2> QED
    BY <1>3, <2>1, <2>2, <2>5, <2>6
<1>6. CASE Refuse
  <2>1. PICK reason \in {1, ErrBadState} :
          replies' = replies \o Answer(Head(received), <<Frame("err", reason)>>)
    BY <1>6 DEF Refuse
  <2>2. received # <<>> /\ UNCHANGED <<physical, arrived>>
    BY <1>6 DEF Refuse
  <2> DEFINE f == Frame("err", reason)
  <2>3. f \in SentFrames /\ f.code # "message"
    BY FramesMade DEF Frame
  <2> HIDE DEF f
  <2>4. <<f>> \in Seq(SentFrames) /\ \A i \in DOMAIN <<f>> : <<f>>[i] = f
    BY <2>3
  <2> QED
    BY <1>3, <2>1, <2>2, <2>3, <2>4 DEF f
<1>7. ASSUME NEW owner \in Nat, NEW f \in SentFrames, f.code # "message",
             \/ replies' = replies
             \/ replies' = replies \o Announce(owner, f)
      PROVE  \E more \in Seq(Sending) :
               /\ replies' = replies \o more
               /\ \A i \in DOMAIN more : more[i].frame.code # "message"
  <2> DEFINE more == Announce(owner, f)
  <2>1. more \in Seq(Sending) /\ \A i \in DOMAIN more : more[i].frame = f
    BY AnnounceType DEF Announce
  <2>2. replies \o <<>> = replies /\ <<>> \in Seq(Sending) /\ DOMAIN <<>> = {}
    <3> DEFINE S == Sending
    <3>1. replies \in Seq(S)
      BY DEF CompanionType
    <3> HIDE DEF S
    <3>2. replies \o <<>> = replies /\ <<>> \in Seq(S) /\ DOMAIN <<>> = {}
      BY <3>1
    <3> QED
      BY <3>2 DEF S
  <2> HIDE DEF more
  <2>3. CASE replies' = replies
    BY <2>2, <2>3
  <2>4. CASE replies' = replies \o more
    BY <1>7, <2>1, <2>4
  <2> QED
    BY <1>7, <2>3, <2>4 DEF more
<1>8. CASE Arrive(usable)
  <2>1. Frame("msg_waiting", 0) \in SentFrames
        /\ Frame("msg_waiting", 0).code # "message"
    BY FramesMade DEF Frame
  <2>2. /\ arrived' = arrived + 1 /\ physical' = Append(physical, arrived + 1)
        /\ \/ replies' = replies
           \/ replies' = replies \o Announce(0, Frame("msg_waiting", 0))
    BY <1>8 DEF Arrive
  <2>3. PICK more \in Seq(Sending) :
          /\ replies' = replies \o more
          /\ \A i \in DOMAIN more : more[i].frame.code # "message"
    BY <1>7, <2>1, <2>2
  <2>4. Coming(m)'
    BY <2>2, <2>3, ComingArrived
  <2> QED
    BY <1>2, <2>2, <2>4
<1>9. CASE Report(usable)
  <2>1. PICK i \in DOMAIN requests, code \in DOMAIN RemotePushes :
          LET command == requests[i].command
              key == IF code = "binary_response" THEN Token ELSE command.arg
          IN /\ replies' = IF usable
                  THEN replies \o Announce(requests[i].owner, Frame(code, key))
                  ELSE replies
             /\ UNCHANGED <<received, physical, arrived, flood_scope, signer>>
    BY <1>9 DEF Report
  <2>2. requests[i] \in Accepted
    BY DEF CompanionType
  <2>3. requests[i].command \in Commands /\ requests[i].owner \in Nat
    BY <2>2 DEF Accepted
  <2> DEFINE key == IF code = "binary_response" THEN Token
                    ELSE requests[i].command.arg
             f == Frame(code, key)
  <2>4. f \in SentFrames /\ f.code # "message"
    <3>1. f \in SentFrames
      BY <2>3, FramesMade
    <3>2. code # "message"
      BY PushNames
    <3> QED
      BY <3>1, <3>2 DEF Frame
  <2>5. \/ replies' = replies
        \/ replies' = replies \o Announce(requests[i].owner, f)
    BY <2>1
  <2> HIDE DEF f
  <2>6. PICK more \in Seq(Sending) :
          /\ replies' = replies \o more
          /\ \A j \in DOMAIN more : more[j].frame.code # "message"
    BY <1>7, <2>3, <2>4, <2>5
  <2>7. Coming(m)'
    BY <2>1, <2>6, ComingAdded
  <2> QED
    BY <2>1, <2>7
<1> QED
  BY <1>4, <1>5, <1>6, <1>8, <1>9 DEF CompanionStep

\* A frame arrives at the broker, in an epoch or after it.
LEMMA QueueFrame ==
  ASSUME TypeInv, TransactionInv, CompanionType, QueueInv,
         FrameArrives \/ DrainDebt
  PROVE  QueueInv'
<1>1. PICK m \in Nat : m <= arrived /\ Held(m) /\ Coming(m)
  BY DEF QueueInv
<1>2. /\ replies # <<>> /\ replies' = Tail(replies)
      /\ UNCHANGED <<physical, arrived>>
  BY DEF FrameArrives, DrainDebt
<1>3. /\ Coming(m)' /\ Head(replies) = replies[1] /\ 1 \in DOMAIN replies
      /\ \A v : Message(1) /\ v = Carried(1) => Coming(v)'
  BY <1>1, <1>2, ComingTaken
<1>4. PICK f \in Frames : f = Head(replies).frame
  BY <1>2, NextFrame
<1>5. f.code = "message" => /\ Message(1) /\ f.arg = Carried(1)
                            /\ m < f.arg /\ f.arg <= arrived
  BY <1>1, <1>3, <1>4 DEF Coming, Message, Carried
<1>6. f.arg \in Nat
  BY BrokerAssumption
<1>7. ASSUME Held(m)'
      PROVE  QueueInv'
  BY <1>1, <1>2, <1>3, <1>7 DEF QueueInv
<1>8. ASSUME f.code = "message", Held(f.arg)'
      PROVE  QueueInv'
  <2>1. Coming(f.arg)'
    BY <1>3, <1>5, <1>8
  <2> QED
    BY <1>2, <1>5, <1>6, <1>8, <2>1 DEF QueueInv
<1>9. CASE LateUpstreamFrame
  BY <1>1, <1>7, <1>9, LinkHeld
<1>10. CASE UpstreamFrame(f) \/ DrainUncertainFrame(f)
  BY <1>1, <1>5, <1>7, <1>8, <1>10, FrameHeld
<1> QED
  BY <1>4, <1>9, <1>10 DEF FrameArrives, DrainDebt

LEMMA QueueStep ==
  ASSUME TypeInv, TransactionInv, CompanionType, QueueInv, MuxNext
  PROVE  QueueInv'
<1>1. PICK m \in Nat : m <= arrived /\ Held(m) /\ Coming(m)
  BY DEF QueueInv
<1>2. ASSUME Held(m)', replies' \in {replies, <<>>},
             physical' \in {physical, <<>>}, arrived' = arrived
      PROVE  QueueInv'
  BY <1>1, <1>2, ComingLess DEF QueueInv
<1>3. CASE Clients \/ ClientRequest \/ Clock \/ Schedule
  <2>1. ClientStep \/ ClockStep \/ ScheduleStep
    BY <1>3, ClientsStep, ClockIsBroker DEF Schedule
  <2>2. UNCHANGED companionVars
    BY <1>3 DEF Clients, ClientRequest, Clock, Schedule
  <2>3. Held(m)'
    BY <1>1, <2>1, HandlersHeld
  <2> QED
    BY <1>2, <2>2, <2>3 DEF companionVars
<1>4. CASE WriterWrites
  BY <1>1, <1>2, <1>4, LinkHeld DEF WriterWrites
<1>5. CASE WriterReports
  <2>1. UNCHANGED companionVars /\ (UpstreamWritten(wrote) \/ UNCHANGED vars)
    BY <1>5 DEF WriterReports
  <2>2. CASE UNCHANGED vars
    BY <1>1, <1>2, <2>1, <2>2 DEF vars, companionVars, Held
  <2>3. CASE UpstreamWritten(wrote)
    <3>1. \E w : UpstreamWritten(w)
      BY <2>3
    <3> QED
      BY <1>1, <1>2, <2>1, <3>1, LinkHeld DEF companionVars
  <2> QED
    BY <2>1, <2>2, <2>3
<1>6. CASE FrameArrives \/ DrainDebt
  BY <1>6, QueueFrame
<1>7. CASE LinkFails
  <2>1. /\ UpstreamClosed \/ ClientStep
        /\ replies' = <<>> /\ UNCHANGED <<physical, arrived>>
    BY <1>7 DEF LinkFails, ClientStep
  <2> QED
    BY <1>1, <1>2, <2>1, LinkHeld, HandlersHeld
<1>8. CASE Reconnect
  <2>1. PICK same_key \in BOOLEAN :
          /\ Restart(same_key)
          /\ IF same_key THEN UNCHANGED <<physical, requests, signer>>
             ELSE physical' = <<>> /\ requests' = <<>> /\ signer' = 0
    BY <1>8 DEF Reconnect
  <2>2. replies' = <<>> /\ arrived' = arrived
    BY <1>8 DEF Reconnect
  <2>3. Held(m)'
    BY <1>1, <2>1, RestartHeld
  <2>4. physical' \in {physical, <<>>}
    BY <2>1
  <2> QED
    BY <1>2, <2>2, <2>3, <2>4
<1>9. CASE CompanionStep
  <2>1. Held(m)'
    BY <1>1, <1>9 DEF CompanionStep, vars, Held
  <2> QED
    BY <1>1, <1>9, <2>1, ComingCompanion DEF QueueInv
<1> QED
  BY <1>3, <1>4, <1>5, <1>6, <1>7, <1>8, <1>9 DEF MuxNext

LEMMA QueueInit == MuxInit => QueueInv
<1>1. ASSUME MuxInit
      PROVE  QueueInv
  <2>1. /\ replies = <<>> /\ physical = <<>> /\ arrived = 0 /\ orphan = 0
        /\ sessions = [s \in {} |-> NewSession(0)]
        /\ slots = [d \in Slots |-> EmptySlot]
    BY <1>1 DEF MuxInit, Init, CompanionInit
  <2>2. Lined(EmptySlot.last, EmptySlot.queue, 0)
    BY DEF EmptySlot, Lined
  <2>3. Held(0)
    BY <2>1, <2>2 DEF Held
  <2>4. Coming(0)
    BY <2>1 DEF Coming
  <2> QED
    BY <2>1, <2>3, <2>4 DEF QueueInv
<1> QED
  BY <1>1

LEMMA QueueInvariant == MuxSpec => [](BrokerInv /\ LinkType /\ QueueInv)
<1>1. MuxInit => QueueInv
  BY QueueInit
<1>2. BrokerInv /\ LinkType /\ QueueInv /\ [MuxNext]_muxVars => QueueInv'
  <2>1. ASSUME QueueInv, UNCHANGED muxVars
        PROVE  QueueInv'
    BY <2>1 DEF muxVars, vars, companionVars, QueueInv, Held, Coming, Message,
       Carried
  <2>2. ASSUME BrokerInv, LinkType
        PROVE  TypeInv /\ TransactionInv /\ CompanionType
    BY <2>2, LinkParts DEF BrokerInv
  <2> QED
    BY <2>1, <2>2, QueueStep
<1>3. MuxSpec => [](BrokerInv /\ RoundInv /\ LinkType /\ WireInv)
  BY WireInvariant
<1> QED
  BY <1>1, <1>2, <1>3, PTL DEF MuxSpec

\* A queue in order is one the property speaks of.
LEMMA LinedIncreases ==
  ASSUME NEW queue \in Seq(Items), NEW last \in Nat, NEW m \in Nat,
         Lined(last, queue, m)
  PROVE  Increasing(<<last>> \o queue)
<1> DEFINE whole == <<last>> \o queue
<1>1. \A i \in DOMAIN queue : queue[i] \in Items
  OBVIOUS
<1>2. queue \in Seq(Nat)
  <2>1. \A i \in DOMAIN queue : queue[i] \in Nat
    BY <1>1, ItemsAreNumbers
  <2> QED
    BY <2>1
<1>3. /\ Len(queue) \in Nat /\ DOMAIN queue = 1 .. Len(queue)
      /\ Len(whole) = Len(queue) + 1 /\ whole[1] = last
      /\ \A i \in 1 .. Len(queue) : whole[i + 1] = queue[i]
  BY <1>2
<1> HIDE DEF whole
<1>4. ASSUME NEW i \in 1 .. Len(whole) - 1
      PROVE  whole[i] < whole[i + 1]
  <2>1. i \in DOMAIN queue /\ whole[i + 1] = queue[i] /\ i \in Nat
    BY <1>3
  <2>2. CASE i = 1
    BY <1>3, <2>1, <2>2 DEF Lined
  <2>3. CASE i # 1
    <3>1. i - 1 \in DOMAIN queue /\ whole[(i - 1) + 1] = queue[i - 1]
          /\ (i - 1) + 1 = i /\ i - 1 < i
      BY <1>3, <2>1, <2>3
    <3>2. queue[i - 1] < queue[i]
      BY <2>1, <3>1 DEF Lined
    <3> QED
      BY <2>1, <3>1, <3>2
  <2> QED
    BY <2>2, <2>3
<1> QED
  BY <1>4 DEF Increasing, whole

\* No client is given messages out of order or twice, and none waits for it in
\* such an order: fan_out appends what pop_result received to every queue,
\* deliver_item takes the oldest, admit hands the orphan over, and no item that
\* Runtime carries from one connection or epoch to the next, in a slot's queue,
\* as the orphan or as the debt of a pop, is younger than those still to come.
THEOREM InboxOrdered == MuxSpec => []InboxInOrder
<1>1. BrokerInv /\ QueueInv => InboxInOrder
  <2> SUFFICES ASSUME BrokerInv, QueueInv
               PROVE  InboxInOrder
    OBVIOUS
  <2>1. PICK m \in Nat : Held(m)
    BY DEF QueueInv
  <2>2. /\ sessions \in [DOMAIN sessions -> Session]
        /\ slots \in [Slots -> Slot]
    BY DEF BrokerInv, TypeInv, TypeOK
  <2>3. ASSUME NEW s \in DOMAIN sessions
        PROVE  Increasing(<<sessions[s].last>> \o sessions[s].inbox)
    <3>1. sessions[s].last \in Nat /\ sessions[s].inbox \in Seq(Items)
      BY <2>2 DEF Session
    <3> QED
      BY <2>1, <3>1, LinedIncreases DEF Held
  <2>4. ASSUME NEW d \in Slots
        PROVE  Increasing(<<slots[d].last>> \o slots[d].queue)
    <3>1. slots[d].last \in Nat /\ slots[d].queue \in Seq(Items)
      BY <2>2 DEF Slot
    <3> QED
      BY <2>1, <3>1, LinedIncreases DEF Held
  <2> QED
    BY <2>3, <2>4 DEF InboxInOrder
<1> QED
  BY <1>1, QueueInvariant, PTL

-----------------------------------------------------------------------------
(* A pop that is owed: the link of an epoch that has failed                *)

\* No message is lost on the link or thrown away: nobody closes the link, the
\* companion pays what it owes, no frame arrives at the very deadline, and
\* nothing is taken for a duplicate.
Lossless ==
  /\ "late frame" \notin Deadlines
  /\ Faults \cap {"upstream closed", "upstream writer", "debt unpaid"} = {}
  /\ ~ Deduplicate

\* The transaction that was never answered is a pop.
PopOwed == debt.step = "command" /\ debt.owner = 0

IsPop(w) == w.command = Sync /\ w.id # 0

\* No message is on its way, and none is going to be.
NoFetch ==
  /\ \A i \in DOMAIN outgoing : outgoing[i].command # Sync
  /\ \A i \in DOMAIN received : received[i].command # Sync
  /\ \A i \in DOMAIN replies : ~ Message(i)

\* One pop at most is in the writer's queue, at the companion or answered.
OneFetch ==
  /\ outgoing # <<>> => received = <<>>
  /\ outgoing # <<>> \/ received # <<>> => Ordinary = {}
  /\ \A i, j \in DOMAIN outgoing : i = j /\ IsPop(outgoing[i])
  /\ \A i, j \in DOMAIN received : i = j /\ IsPop(received[i])
  /\ \A i, j \in Ordinary : i = j
  /\ \A i \in DOMAIN replies : i \in Ordinary \/ replies[i].frame.code \in PushCodes

Owing == IF PopOwed THEN OneFetch ELSE NoFetch

\* A frame that made the epoch fail was the last reply.
Spent == received = <<>> /\ \A i \in DOMAIN replies : ~ Message(i)

\* The link of a failed epoch holds what its debt says.
OweInv ==
  /\ failed /\ usable => Owing
  /\ ~ usable => failed /\ Spent

\* What an epoch that fails now would owe.
Owed == IF active.step \in {"none", "result"} THEN debt ELSE active
Owes == IF failed THEN debt' = debt ELSE failed' => debt' = Owed

LEMMA CommitOwes ==
  ASSUME Ended, NEW x, Commit(x), x.debt = debt,
         \/ x.active = active
         \/ x.active.step = "none" /\ active.step = "result"
  PROVE  Owes
<1>1. NextState(x)
  BY DEF Commit
<1>2. debt' = debt \/ (EpochEnds(x) /\ debt' = x.active
                       /\ x.active.step \notin {"none", "result"})
  BY <1>1 DEF NextState, FailEpoch, Continue
<1>3. failed => active.step = "none"
  BY DEF Ended, Busy
<1>4. failed' /\ ~ failed /\ x.active = active => debt' = Owed
  BY <1>1 DEF NextState, FailEpoch, Continue, Owed
<1>5. failed' /\ ~ failed /\ x.active.step = "none" /\ active.step = "result"
        => debt' = Owed
  BY <1>1 DEF NextState, FailEpoch, Continue, Owed
<1> QED
  BY <1>2, <1>3, <1>4, <1>5 DEF Owes

\* A handler that is not about the link owes the running transaction if it
\* fails.
LEMMA HandlersOwe ==
  ASSUME TypeInv, Ended,
         \/ \E s : ScheduleLocal(s) \/ ScheduleAged(s)
         \/ ScheduleBusy \/ TurnNone
         \/ \E k, s : TurnReject(k, s)
         \/ Clients \/ ClientRequest \/ Clock
  PROVE  Owes
<1> DEFINE Idle(x) == x.debt = debt /\ x.active = active
           Quiet == \E x : Commit(x) /\ Idle(x)
<1>1. Quiet => Owes
  BY CommitOwes
<1>2. ASSUME NEW e, CommitAndSchedule(e)
      PROVE  Commit(e)
  BY <1>2 DEF CommitAndSchedule
<1>3. Idle(Fail(Now)) /\ \A gone : Idle([Now EXCEPT !.closed = gone])
  BY DEF Now, Fail
<1>4. ASSUME \E s : ScheduleLocal(s)
      PROVE  Quiet
  <2>1. PICK s : ScheduleLocal(s)
    BY <1>4
  <2> DEFINE command == Head(sessions[s].commands)
             e == [Now EXCEPT !.sessions[s].commands =
                                Tail(sessions[s].commands)]
  <2>2. Idle(e)
    BY DEF Now
  <2>3. e \in State(next_session)
    BY <2>1, TailTaken DEF ScheduleLocal, LocalReady, HeadReady
  <2>4. Commit(LocalEffect(e, s, command))
    BY <2>1 DEF ScheduleLocal
  <2> HIDE DEF e, command
  <2> DEFINE x == LocalEffect(e, s, command)
  <2>5. LocalSync(e, s).debt = e.debt /\ LocalSync(e, s).active = e.active
    BY <2>3 DEF LocalSync, State
  <2>6. x.debt = e.debt /\ x.active = e.active
    BY <2>3, <2>5 DEF LocalEffect, State
  <2> HIDE DEF x
  <2>7. Idle(x)
    BY <2>2, <2>6
  <2> QED
    BY <2>4, <2>7 DEF x
<1>5. ASSUME \E s : ScheduleAged(s)
      PROVE  Quiet
  <2>1. PICK s : ScheduleAged(s)
    BY <1>5
  <2> DEFINE x == [Now EXCEPT !.sessions[s] =
                     [Reply(sessions[s], "frame") EXCEPT
                        !.commands = Tail(sessions[s].commands)]]
  <2>2. Idle(x)
    BY DEF Now
  <2>3. Commit(x)
    BY <2>1 DEF ScheduleAged
  <2> HIDE DEF x, Idle
  <2> QED
    BY <2>2, <2>3
<1>6. ASSUME \E s, command : ClientFrame(s, command)
      PROVE  Quiet
  <2>1. PICK s, command : ClientFrame(s, command)
    BY <1>6
  <2> DEFINE x == [Now EXCEPT !.sessions[s] =
                     [sessions[s] EXCEPT
                        !.commands = Append(sessions[s].commands, command),
                        !.owed = Append(sessions[s].owed, command)]]
  <2>2. Idle(x)
    BY DEF Now
  <2>3. CommitAndSchedule(x) \/ CommitAndSchedule([Now EXCEPT !.closed = {s}])
    BY <2>1 DEF ClientFrame
  <2> HIDE DEF x, Idle
  <2> QED
    BY <1>2, <1>3, <2>2, <2>3
<1>7. ASSUME \E s : ClientClosed(s) \/ (s # 0 /\ WriteFailed(s))
      PROVE  Quiet
  <2>1. PICK s : CommitAndSchedule([Now EXCEPT !.closed = {s}])
    BY <1>7 DEF ClientClosed, WriteFailed
  <2> HIDE DEF Idle
  <2> QED
    BY <1>2, <1>3, <2>1
<1>8. ASSUME \E s : Written(s)
      PROVE  Owes
  <2>1. PICK s : Written(s)
    BY <1>8
  <2> DEFINE x == [Now EXCEPT !.sessions[s].writes = Tail(sessions[s].writes)]
             y == Fail(Finish(x))
  <2>2. Idle(x)
    BY DEF Now
  <2>3. y.debt = debt /\ y.active.step = "none"
    BY DEF Now, Fail, Finish, NoTransaction
  <2>4. CommitAndSchedule(x) \/ (CommitAndSchedule(y) /\ active.step = "result")
    BY <2>1 DEF Written
  <2> HIDE DEF x, y
  <2> QED
    BY <1>1, <1>2, <2>2, <2>3, <2>4, CommitOwes
<1>9. ASSUME \E stuck, late, expired, poll : Tick(stuck, late, expired, poll)
      PROVE  Quiet
  <2>1. PICK stuck, late, expired, poll : Tick(stuck, late, expired, poll)
    BY <1>9
  <2> DEFINE table == [s \in DOMAIN sessions |->
                         IF s \in late
                         THEN [Reply(sessions[s], "frame") EXCEPT !.sync = 0]
                         ELSE sessions[s]]
             x == [Now EXCEPT
                     !.closed = stuck,
                     !.sessions = IF poll THEN HintAll(table) ELSE table,
                     !.remote = IF "remote" \in expired THEN NoRemote
                                ELSE remote,
                     !.signing = IF "signing" \in expired THEN NoSigning
                                 ELSE signing]
  <2>2. Idle(x)
    BY DEF Now
  <2>3. CommitAndSchedule(x)
    BY <2>1 DEF Tick
  <2> HIDE DEF x, Idle
  <2> QED
    BY <1>2, <2>2, <2>3
<1>10. ASSUME \E k, s : TurnReject(k, s)
       PROVE  Quiet
  <2>1. PICK k, s : TurnReject(k, s)
    BY <1>10
  <2> DEFINE e == TurnTaken(k, s, Head(sessions[s].commands))
             x == [e EXCEPT !.sessions[s] = Reply(e.sessions[s], "frame")]
  <2>2. Commit(x) /\ NextTurn(k, s) /\ s # 0
    BY <2>1 DEF TurnReject
  <2>3. e \in State(next_session)
    BY <2>2, TurnTakenType
  <2>4. Idle(e)
    BY DEF TurnTaken, Now
  <2> HIDE DEF e
  <2>5. x.debt = e.debt /\ x.active = e.active
    BY <2>3 DEF State
  <2> HIDE DEF x
  <2> QED
    BY <2>2, <2>4, <2>5
<1>11. ASSUME UNCHANGED <<debt, failed>>
       PROVE  Owes
  BY <1>11 DEF Owes
<1>12. ASSUME \E d : Admit(d)
       PROVE  Owes
  <2>1. PICK d : Admit(d)
    BY <1>12
  <2> DEFINE id == next_session + 1
             old == IF d = 0 THEN 0 ELSE slots[d].attached
             others == DOMAIN sessions \ {old}
             new == Hint([NewSession(d) EXCEPT
                            !.inbox = IF TakesOrphan(d) THEN <<orphan>>
                                      ELSE <<>>])
             x == [Now EXCEPT
                     !.sessions = [s \in others \cup {id} |->
                                     IF s = id THEN new ELSE sessions[s]],
                     !.order = Append(order, id),
                     !.slots = [y \in Slots |->
                                  IF y = d THEN [slots[y] EXCEPT !.attached = id]
                                  ELSE slots[y]],
                     !.orphan = IF TakesOrphan(d) THEN 0 ELSE orphan,
                     !.drain = IF others = {} THEN NoDrain ELSE drain]
  <2>2. Idle(x)
    BY DEF Now
  <2>3. UNCHANGED <<debt, failed>> \/ CommitAndSchedule(x)
    BY <2>1 DEF Admit
  <2> HIDE DEF x, Idle
  <2> QED
    BY <1>1, <1>2, <1>11, <2>2, <2>3
<1>13. ASSUME \/ ScheduleBusy \/ TurnNone \/ QuarantineDeadline
              \/ \E i : DmDeadline(i)
       PROVE  Owes
  BY <1>11, <1>13 DEF ScheduleBusy, TurnNone, QuarantineDeadline, DmDeadline
<1>14. ASSUME ResponseTimeout \/ UpstreamWriteTimeout
       PROVE  Quiet
  <2>1. Commit(Fail(Now))
    BY <1>2, <1>14 DEF ResponseTimeout, UpstreamWriteTimeout
  <2> HIDE DEF Idle
  <2> QED
    BY <1>3, <2>1
<1>15. 0 \notin DOMAIN sessions
  BY DEF TypeInv, TypeOK
<1> HIDE DEF Quiet
<1>16. CASE Clients
  <2>1. \/ \E d : Admit(d)
        \/ \E s : ClientClosed(s) \/ (s # 0 /\ WriteFailed(s)) \/ Written(s)
    BY <1>15, <1>16 DEF Clients
  <2> QED
    BY <1>1, <1>7, <1>8, <1>12, <2>1
<1>17. CASE ClientRequest
  <2>1. \E s, command : ClientFrame(s, command)
    BY <1>17 DEF ClientRequest
  <2> QED
    BY <1>1, <1>6, <2>1
<1>18. CASE Clock
  <2>1. \/ \E stuck, late, expired, poll : Tick(stuck, late, expired, poll)
        \/ ResponseTimeout \/ UpstreamWriteTimeout
        \/ QuarantineDeadline \/ \E i : DmDeadline(i)
    BY <1>18 DEF Clock
  <2> QED
    BY <1>1, <1>9, <1>13, <1>14, <2>1
<1> QED
  BY <1>1, <1>4, <1>5, <1>10, <1>13, <1>16, <1>17, <1>18

\* When the epoch fails, the link still holds what the transaction sent.
LEMMA OwingStarts ==
  ASSUME TypeInv, RoundInv, NoDebt, CompanionType, Numbered, WireInv, FittingInv,
         ~ failed, Owes, failed', UNCHANGED <<outgoing, received, replies>>
  PROVE  Owing'
<1>1. /\ debt' = Owed /\ debt.step = "none" /\ active \in Transaction
      /\ PopShape(active)
  BY DEF Owes, NoDebt, TypeInv, TypeOK
<1>2. Aligned /\ Answering /\ Fitting
  BY DEF WireInv, FittingInv
<1>3. UNCHANGED <<Ordinary, PushCodes>>
  BY DEF Ordinary
<1>4. \A i \in DOMAIN outgoing : outgoing[i].id # 0
  BY DEF Numbered
<1>5. \A i \in DOMAIN replies : Message(i) =>
        i \in Ordinary /\ SuccessCodes(WireCommand(active).op) # {}
        /\ "message" \in SuccessCodes(WireCommand(active).op)
  <2>1. ASSUME NEW i \in DOMAIN replies, Message(i)
        PROVE  i \in Ordinary
    <3>1. "message" \notin PushCodes
      BY DEF PushCodes, RemotePushes
    <3> QED
      BY <1>2, <2>1, <3>1 DEF Answering, InPlace, Message
  <2>2. ASSUME NEW i \in DOMAIN replies, Message(i)
        PROVE  "message" \in SuccessCodes(WireCommand(active).op)
    BY <1>2, <2>1, <2>2 DEF Fitting, Suits, Message
  <2> QED
    BY <2>1, <2>2
<1>6. CASE active.step \in {"none", "result"}
  <2>1. outgoing = <<>> /\ received = <<>> /\ Ordinary = {}
    BY <1>2, <1>6 DEF Aligned
  <2>2. ~ PopOwed'
    BY <1>1, <1>6 DEF Owed, PopOwed
  <2>3. NoFetch'
    BY <1>5, <2>1 DEF NoFetch, Message
  <2> QED
    BY <2>2, <2>3 DEF Owing
<1>7. CASE active.step \notin {"none", "result"} /\ active.owner = 0
  <2>1. active.step = "command" /\ active.command = Sync /\ debt' = active
    BY <1>1, <1>7 DEF PopShape, Owed
  <2>2. PopOwed' /\ WireCommand(active) = Sync
    BY <1>7, <2>1 DEF PopOwed, WireCommand
  <2>3. ~ \E i, j \in Ordinary : j > i
    BY <1>2, <2>1 DEF Answering, InPlace, Completes, Sync, Ordinary
  <2>4. \A i, j \in Ordinary : i = j
    <3>1. Ordinary \subseteq Nat
      BY DEF Ordinary, CompanionType
    <3> QED
      BY <2>3, <3>1
  <2>5. /\ outgoing # <<>> =>
             outgoing = <<Job(next_write, active)>> /\ received = <<>>
        /\ received # <<>> => received = <<Job(next_write, active)>>
        /\ outgoing # <<>> \/ received # <<>> => Ordinary = {} /\ next_write # 0
    BY <1>2 DEF Aligned
  <2>6. outgoing # <<>> \/ received # <<>> => IsPop(Job(next_write, active))
    BY <2>2, <2>5 DEF IsPop, Job
  <2>7. /\ \A i, j \in DOMAIN outgoing : i = j /\ IsPop(outgoing[i])
        /\ \A i, j \in DOMAIN received : i = j /\ IsPop(received[i])
    BY <2>5, <2>6
  <2>8. \A i \in DOMAIN replies :
          i \in Ordinary \/ replies[i].frame.code \in PushCodes
    BY <1>2 DEF Answering, InPlace
  <2>9. OneFetch'
    BY <1>3, <2>4, <2>5, <2>7, <2>8 DEF OneFetch, IsPop
  <2> QED
    BY <2>2, <2>9 DEF Owing
<1>8. CASE active.step \notin {"none", "result"} /\ active.owner # 0
  <2>1. debt' = active /\ ~ PopOwed'
    BY <1>1, <1>8 DEF PopOwed, Owed
  <2>2. WireCommand(active).op # "sync_next_message"
    <3>1. ~ Virtual(active.command)
      BY <1>8 DEF RoundInv, Forwards
    <3>2. active.command.op # "sync_next_message"
      BY <3>1 DEF Virtual
    <3> QED
      BY <3>2 DEF WireCommand, SetScope
  <2>3. Job(next_write, active).command # Sync
    BY <2>2 DEF Job, Sync
  <2>4. /\ \A i \in DOMAIN outgoing : outgoing[i].command # Sync
        /\ \A i \in DOMAIN received : received[i].command # Sync
    BY <1>2, <2>3 DEF Aligned
  <2>5. \A i \in DOMAIN replies : ~ Message(i)
    BY <1>5, <2>2, OnlySyncFetches
  <2>6. NoFetch'
    BY <2>4, <2>5 DEF NoFetch, Message
  <2> QED
    BY <2>1, <2>6 DEF Owing
<1> QED
  BY <1>6, <1>7, <1>8

\* What the frame that was read says about the debt.
LEMMA DrainOwes ==
  ASSUME TypeInv, Ended, NEW f \in Frames, DrainUncertainFrame(f)
  PROVE  \/ f.code \in PushCodes /\ debt' = debt
         \/ /\ f.code \notin PushCodes
            /\ \/ debt' = NoTransaction
               \/ debt' = [debt EXCEPT !.contacts_started = TRUE]
<1>1. active.step = "none"
  BY DEF DrainUncertainFrame, Ended, Busy
<1>2. ASSUME NEW x, Commit(x), x.active = active
      PROVE  debt' = x.debt
  BY <1>1, <1>2 DEF Commit, NextState, FailEpoch, Continue
<1> DEFINE paid == [Now EXCEPT !.debt = NoTransaction]
           started == [Now EXCEPT !.debt.contacts_started = TRUE]
<1>3. /\ paid.active = active /\ paid.debt = NoTransaction
      /\ started.active = active
      /\ started.debt = [debt EXCEPT !.contacts_started = TRUE]
  BY DEF Now
<1>4. paid \in State(next_session)
  <2>1. Now \in State(next_session)
    BY NowType
  <2> QED
    BY <2>1, SmallChanges DEF TypeInv, TypeOK
<1> HIDE DEF paid, started
<1>5. LET x == PopResult(paid, debt, f)
      IN x.active = paid.active /\ x.debt = paid.debt
  <2> HIDE DEF PopResult
  <2>1. PopResult(paid, debt, f).active = paid.active
    BY <1>4, PopResultIsAside DEF TypeInv, TypeOK
  <2>2. PopResult(paid, debt, f).debt = paid.debt
    BY <1>4 DEF PopResult, NoMoreMessages, FanOut, State
  <2> QED
    BY <2>1, <2>2
<1>6. LET x == Push(f) IN x.active = active /\ x.debt = debt
  <2>1. ~ AnswersSelfTelemetry(f)
    BY <1>1 DEF AnswersSelfTelemetry, Busy
  <2>2. Push(f).debt = debt
    BY <2>1 DEF Push, AvailabilityHint, RemoteResult, Now
  <2>3. Push(f).active = active
    BY <1>1, PushIsAside DEF Busy
  <2> QED
    BY <2>2, <2>3
<1>7. \/ f.code \in PushCodes /\ Commit(Push(f))
      \/ f.code \notin PushCodes
           /\ (Commit(PopResult(paid, debt, f)) \/ Commit(paid) \/ Commit(started))
  BY DEF DrainUncertainFrame, paid, started
<1> QED
  BY <1>2, <1>3, <1>5, <1>6, <1>7

\* The first of the replies on their way is read for the debt.
LEMMA OwingDrained ==
  ASSUME TypeInv, Ended, CompanionType, Owing, replies # <<>>,
         DrainUncertainFrame(Head(replies).frame), replies' = Tail(replies),
         received' = received
  PROVE  Owing' /\ failed'
<1> DEFINE f == Head(replies).frame
<1>1. f \in Frames
  BY NextFrame
<1>2. outgoing' = outgoing /\ failed'
  BY <1>1, DrainWire
<1>3. /\ 1 \in DOMAIN replies /\ replies[1].frame = f
      /\ \A i \in DOMAIN replies' :
           i + 1 \in DOMAIN replies /\ replies'[i] = replies[i + 1]
           /\ i \in Nat /\ i >= 1
  BY TakenFrame DEF CompanionType
<1>4. debt \in Transaction
  BY DEF TypeInv, TypeOK
<1>5. \/ f.code \in PushCodes /\ debt' = debt
      \/ /\ f.code \notin PushCodes
         /\ \/ debt' = NoTransaction
            \/ debt' = [debt EXCEPT !.contacts_started = TRUE]
  BY <1>1, DrainOwes
<1> HIDE DEF f
<1>6. CASE ~ PopOwed
  <2>1. ~ PopOwed'
    <3>1. CASE debt' = debt \/ debt' = [debt EXCEPT !.contacts_started = TRUE]
      BY <1>4, <1>6, <3>1 DEF PopOwed, Transaction
    <3>2. CASE debt' = NoTransaction
      BY <3>2 DEF PopOwed, NoTransaction
    <3> QED
      BY <1>5, <3>1, <3>2
  <2>2. NoFetch'
    BY <1>2, <1>3, <1>6 DEF Owing, NoFetch, Message
  <2> QED
    BY <1>2, <2>1, <2>2 DEF Owing
<1>7. CASE PopOwed
  <2>1. OneFetch
    BY <1>7 DEF Owing
  <2>2. \A i \in Ordinary' : i + 1 \in Ordinary /\ i + 1 # 1
    BY <1>3 DEF Ordinary
  <2>3. CASE debt' # NoTransaction
    <3>1. PopOwed'
      BY <1>4, <1>5, <1>7, <2>3 DEF PopOwed, Transaction
    <3>2. \A i, j \in Ordinary' : i = j
      <4>1. \A i, j \in Ordinary' : i + 1 = j + 1 /\ i \in Nat /\ j \in Nat
        BY <1>3, <2>1, <2>2 DEF OneFetch, Ordinary
      <4> QED
        BY <4>1
    <3>3. \A i \in DOMAIN replies' :
            i \in Ordinary' \/ replies'[i].frame.code \in PushCodes
      BY <1>3, <2>1 DEF OneFetch, Ordinary
    <3>4. outgoing # <<>> \/ received # <<>> => Ordinary' = {}
      BY <2>1, <2>2 DEF OneFetch
    <3>5. OneFetch'
      BY <1>2, <2>1, <3>2, <3>3, <3>4 DEF OneFetch, IsPop
    <3> QED
      BY <1>2, <3>1, <3>5 DEF Owing
  <2>4. CASE debt' = NoTransaction
    <3>1. ~ PopOwed'
      BY <2>4 DEF PopOwed, NoTransaction
    <3>2. debt # NoTransaction
      BY <1>7 DEF PopOwed, NoTransaction
    <3>3. 1 \in Ordinary
      BY <1>3, <1>5, <2>1, <2>4, <3>2 DEF OneFetch
    <3>4. outgoing = <<>> /\ received = <<>> /\ Ordinary' = {}
      BY <2>1, <2>2, <3>3 DEF OneFetch
    <3>5. \A i \in DOMAIN replies' : ~ Message(i)'
      <4>1. "message" \notin PushCodes
        BY DEF PushCodes, RemotePushes
      <4>2. \A i \in DOMAIN replies' : i \notin Ordinary'
        BY <3>4
      <4> QED
        BY <1>3, <2>1, <4>1, <4>2 DEF OneFetch, Ordinary, Message
    <3>6. NoFetch'
      BY <1>2, <3>4, <3>5 DEF NoFetch, Message
    <3> QED
      BY <1>2, <3>1, <3>6 DEF Owing
  <2> QED
    BY <2>3, <2>4
<1> QED
  BY <1>6, <1>7

\* Pushes are sent behind the replies.
LEMMA OwingAnnounced ==
  ASSUME CompanionType, Owing, NEW owner \in Nat, NEW f \in SentFrames,
         f.code \in PushCodes, UNCHANGED <<debt, outgoing, received>>,
         replies' \in {replies, replies \o Announce(owner, f)}
  PROVE  Owing'
<1>1. PopOwed' = PopOwed
  BY DEF PopOwed
<1>2. f.code # "message"
  BY DEF PushCodes, RemotePushes
<1> DEFINE more == Announce(owner, f)
<1>3. /\ more \in Seq(Sending)
      /\ \A i \in DOMAIN more : more[i].id = 0 /\ more[i].frame = f
  BY AnnounceType DEF Announce
<1> HIDE DEF more
<1>4. \A i \in DOMAIN replies' :
        \/ i \in DOMAIN replies /\ replies'[i] = replies[i]
        \/ replies'[i].id = 0 /\ replies'[i].frame = f
  <2>1. CASE replies' = replies
    BY <2>1
  <2>2. CASE replies' = replies \o more
    BY <1>3, <2>2, SentBehind
  <2> QED
    BY <2>1, <2>2 DEF more
<1>5. Ordinary' \subseteq Ordinary
  BY <1>4 DEF Ordinary
<1>6. NoFetch => NoFetch'
  BY <1>2, <1>4 DEF NoFetch, Message
<1>7. OneFetch => OneFetch'
  <2>1. OneFetch => \A i \in DOMAIN replies' :
          i \in Ordinary' \/ replies'[i].frame.code \in PushCodes
    BY <1>4 DEF OneFetch, Ordinary
  <2> QED
    BY <1>5, <2>1 DEF OneFetch, IsPop
<1> QED
  BY <1>1, <1>6, <1>7 DEF Owing

\* The command at the companion is answered.
LEMMA OwingReplied ==
  ASSUME CompanionType, Owing, received # <<>>, received' = Tail(received),
         UNCHANGED <<debt, outgoing>>, NEW frames \in Seq(SentFrames),
         replies' = replies \o Answer(Head(received), frames),
         IF Head(received).command = Sync THEN Len(frames) = 1
         ELSE \A i \in DOMAIN frames : frames[i].code # "message"
  PROVE  Owing'
<1> DEFINE job == Head(received)
           more == Answer(job, frames)
<1>1. PopOwed' = PopOwed
  BY DEF PopOwed
<1>2. /\ job \in Write /\ 1 \in DOMAIN received /\ received[1] = job
      /\ \A i \in DOMAIN received' :
           i + 1 \in DOMAIN received /\ received'[i] = received[i + 1]
           /\ i \in Nat /\ i >= 1
  <2> DEFINE S == Write
  <2>1. received \in Seq(S)
    BY DEF CompanionType
  <2> HIDE DEF S
  <2>2. job \in S
    BY <2>1
  <2> QED
    BY <2>1, <2>2 DEF S
<1>3. /\ more \in Seq(Sending) /\ Len(more) = Len(frames)
      /\ \A i \in DOMAIN more :
           i \in DOMAIN frames /\ more[i].frame = frames[i] /\ more[i].id = job.id
  <2> HIDE DEF job
  <2>1. /\ more \in Seq(Sending) /\ Len(more) = Len(frames)
        /\ \A i \in DOMAIN more :
             i \in DOMAIN frames /\ more[i].frame = frames[i]
    BY <1>2, AnswerType, AnswerFrames
  <2>2. DOMAIN more = 1 .. Len(frames)
    BY DEF Answer
  <2>3. \A i \in DOMAIN more : more[i].id = job.id
    BY <2>2 DEF Answer
  <2> QED
    BY <2>1, <2>3
<1>4. replies' = replies \o more
  OBVIOUS
<1> HIDE DEF more, job
<1>5. /\ \A i \in DOMAIN replies' :
           \/ i \in DOMAIN replies /\ replies'[i] = replies[i]
           \/ /\ i > Len(replies) /\ i - Len(replies) \in DOMAIN more
              /\ replies'[i] = more[i - Len(replies)]
      /\ Len(replies) \in Nat /\ DOMAIN replies' \subseteq Nat
  BY <1>3, <1>4, SentBehind
<1>6. CASE PopOwed
  <2>1. OneFetch
    BY <1>6 DEF Owing
  <2>2. /\ IsPop(job) /\ outgoing = <<>> /\ Ordinary = {}
        /\ \A i, j \in DOMAIN received : i = j
    BY <1>2, <2>1 DEF OneFetch
  <2>3. DOMAIN received' = {}
    <3>1. \A i \in DOMAIN received' : i + 1 = 1
      BY <1>2, <2>2
    <3> QED
      BY <1>2, <3>1
  <2>4. received' = <<>>
    BY <2>3
  <2>5. DOMAIN more = {1} /\ more[1].id # 0
    <3>1. Len(more) = 1
      BY <1>3, <2>2 DEF IsPop, job
    <3>2. DOMAIN more = {1}
      <4> DEFINE S == Sending
      <4>1. more \in Seq(S)
        BY <1>3
      <4> HIDE DEF S
      <4> QED
        BY <3>1, <4>1
    <3> QED
      BY <1>3, <2>2, <3>2 DEF IsPop
  <2>6. \A i \in DOMAIN replies' :
          \/ i \in DOMAIN replies /\ replies'[i] = replies[i]
          \/ i = Len(replies) + 1 /\ i \in Ordinary'
    <3>1. \A i \in DOMAIN replies' : i - Len(replies) \in DOMAIN more =>
            i = Len(replies) + 1
      BY <1>5, <2>5
    <3> QED
      BY <1>5, <2>5, <3>1 DEF Ordinary
  <2>7. \A i \in Ordinary' : i = Len(replies) + 1
    BY <2>2, <2>6 DEF Ordinary
  <2>8. \A i \in DOMAIN replies' :
          i \in Ordinary' \/ replies'[i].frame.code \in PushCodes
    BY <2>1, <2>2, <2>6 DEF OneFetch
  <2>9. outgoing' = <<>> /\ \A i, j \in Ordinary' : i = j
    BY <2>2, <2>7
  <2>10. OneFetch'
    BY <2>4, <2>8, <2>9 DEF OneFetch, IsPop
  <2> QED
    BY <1>1, <1>6, <2>10 DEF Owing
<1>7. CASE ~ PopOwed
  <2>1. NoFetch
    BY <1>7 DEF Owing
  <2>2. job.command # Sync
    BY <1>2, <2>1 DEF NoFetch
  <2>3. \A i \in DOMAIN more : more[i].frame.code # "message"
    BY <1>3, <2>2 DEF job
  <2>4. NoFetch'
    BY <1>2, <1>5, <2>1, <2>3 DEF NoFetch, Message
  <2> QED
    BY <1>1, <1>7, <2>4 DEF Owing
<1> QED
  BY <1>6, <1>7

LEMMA OwingCompanion ==
  ASSUME CompanionType, CompanionStep, usable, Owing
  PROVE  Owing'
<1>1. UNCHANGED <<debt, outgoing>>
  BY DEF CompanionStep, vars
<1>2. received # <<>> => Head(received) \in Write
  BY FirstAndOthers DEF CompanionType
<1>3. \A f \in SentFrames : <<f>> \in Seq(SentFrames) /\ Len(<<f>>) = 1
                              /\ \A i \in DOMAIN <<f>> : <<f>>[i] = f
  OBVIOUS
<1>4. CASE ExecutePop
  <2>1. PICK f \in SentFrames : replies' = replies \o Answer(Head(received), <<f>>)
    <3>1. CASE physical = <<>>
      BY <1>4, <3>1, FramesMade DEF ExecutePop
    <3>2. CASE physical # <<>>
      <4>1. Head(physical) \in 1 .. MaxArrivals
        BY <3>2, FirstAndOthers DEF CompanionType
      <4>2. Frame("message", Head(physical)) \in SentFrames
        BY <4>1, FramesMade
      <4> QED
        BY <1>4, <3>2, <4>2 DEF ExecutePop
    <3> QED
      BY <3>1, <3>2
  <2>2. /\ received # <<>> /\ Head(received).command = Sync
        /\ received' = Tail(received)
    BY <1>4 DEF ExecutePop
  <2> DEFINE frames == <<f>>
  <2>3. frames \in Seq(SentFrames) /\ Len(frames) = 1
    BY <1>3
  <2> HIDE DEF frames
  <2>4. replies' = replies \o Answer(Head(received), frames)
    BY <2>1 DEF frames
  <2> QED
    BY <1>1, <2>2, <2>3, <2>4, OwingReplied
<1>5. CASE Execute
  <2> DEFINE command == Head(received).command
  <2>1. PICK answer \in Answers(command) :
          replies' = replies \o Answer(Head(received), answer)
    BY <1>5 DEF Execute
  <2>2. received # <<>> /\ command # Sync /\ received' = Tail(received)
    BY <1>5 DEF Execute
  <2>3. command \in Command
    BY <1>2, <2>2 DEF Write
  <2> HIDE DEF command
  <2>4. command.op # "none"
    BY <2>1, NothingAnswersNone
  <2>5. answer \in Seq(SentFrames)
    BY <2>2, <2>3, <2>4, AnswersMade
  <2>6. \A i \in DOMAIN answer : answer[i].code # "message"
    BY <2>2, <2>3, AnswersNoMessage
  <2> QED
    BY <1>1, <2>1, <2>2, <2>5, <2>6, OwingReplied DEF command
<1>6. CASE Refuse
  <2>1. PICK reason \in {1, ErrBadState} :
          replies' = replies \o Answer(Head(received), <<Frame("err", reason)>>)
    BY <1>6 DEF Refuse
  <2>2. received # <<>> /\ received' = Tail(received)
    BY <1>6 DEF Refuse
  <2> DEFINE f == Frame("err", reason)
             frames == <<f>>
  <2>3. f \in SentFrames /\ f.code # "message"
    BY FramesMade DEF Frame
  <2> HIDE DEF f
  <2>4. /\ frames \in Seq(SentFrames) /\ Len(frames) = 1
        /\ \A i \in DOMAIN frames : frames[i] = f
    BY <1>3, <2>3
  <2>5. replies' = replies \o Answer(Head(received), frames)
    BY <2>1 DEF f
  <2> HIDE DEF frames
  <2> QED
    BY <1>1, <2>2, <2>3, <2>4, <2>5, OwingReplied
<1>7. CASE Arrive(usable)
  <2>1. /\ Frame("msg_waiting", 0) \in SentFrames
        /\ Frame("msg_waiting", 0).code \in PushCodes
    BY FramesMade DEF Frame, PushCodes
  <2>2. /\ replies' \in {replies, replies \o Announce(0, Frame("msg_waiting", 0))}
        /\ received' = received
    BY <1>7 DEF Arrive
  <2> QED
    BY <1>1, <2>1, <2>2, OwingAnnounced
<1>8. CASE Report(usable)
  <2>1. PICK i \in DOMAIN requests, code \in DOMAIN RemotePushes :
          LET command == requests[i].command
              key == IF code = "binary_response" THEN Token ELSE command.arg
          IN /\ replies' = IF usable
                  THEN replies \o Announce(requests[i].owner, Frame(code, key))
                  ELSE replies
             /\ received' = received
    BY <1>8 DEF Report
  <2>2. requests[i].command \in Commands /\ requests[i].owner \in Nat
    <3>1. requests[i] \in Accepted
      BY DEF CompanionType
    <3> QED
      BY <3>1 DEF Accepted
  <2> DEFINE key == IF code = "binary_response" THEN Token
                    ELSE requests[i].command.arg
             f == Frame(code, key)
  <2>3. f \in SentFrames /\ f.code \in PushCodes
    BY <2>2, FramesMade DEF Frame, PushCodes
  <2>4. replies' \in {replies, replies \o Announce(requests[i].owner, f)}
    BY <2>1
  <2> HIDE DEF f
  <2> QED
    BY <1>1, <2>1, <2>2, <2>3, <2>4, OwingAnnounced
<1> QED
  BY <1>4, <1>5, <1>6, <1>7, <1>8 DEF CompanionStep

\* A frame that ends the epoch was the last reply to the command.
LEMMA SpentFrame ==
  ASSUME TypeInv, LinkType, FrameArrives, Lossless, WireInv, FittingInv, failed'
  PROVE  Spent'
<1> DEFINE f == Head(replies).frame
<1>1. /\ replies # <<>> /\ UpstreamFrame(f) /\ ~ failed
      /\ replies' = Tail(replies) /\ received' = received
  BY DEF FrameArrives, LateUpstreamFrame, Lossless, UpstreamFrame, AtRest
<1>2. CompanionType
  BY LinkParts
<1>3. /\ 1 \in DOMAIN replies /\ replies[1].frame = f
      /\ \A i \in DOMAIN replies' :
           i + 1 \in DOMAIN replies /\ replies'[i] = replies[i + 1]
           /\ i \in Nat /\ i >= 1
  BY <1>1, <1>2, TakenFrame DEF CompanionType
<1>4. Aligned /\ Answering /\ Fitting
  BY <1>1 DEF WireInv, FittingInv
<1>5. InPlace(1)
  BY <1>3, <1>4 DEF Answering
<1>6. \A i \in DOMAIN replies : Message(i) => i \in Ordinary
  <2>1. "message" \notin PushCodes
    BY DEF PushCodes, RemotePushes
  <2> QED
    BY <1>4, <2>1 DEF Answering, InPlace, Message
<1> HIDE DEF f
<1>7. CASE 1 \in Ordinary
  <2>1. received = <<>>
    BY <1>4, <1>7 DEF Aligned
  <2>2. ASSUME NEW i \in DOMAIN replies', Message(i)'
        PROVE  FALSE
    <3>1. i + 1 \in Ordinary /\ i + 1 > 1 /\ Message(i + 1)
      BY <1>3, <1>6, <2>2 DEF Message
    <3>2. active.step = "command" /\ ~ Completes(active.command, f)
      BY <1>3, <1>5, <1>7, <3>1 DEF InPlace
    <3>3. "message" \in SuccessCodes(active.command.op)
      BY <1>4, <3>1, <3>2 DEF Fitting, Suits, WireCommand, Message
    <3>4. active.command.op = "sync_next_message"
      BY <3>3, OnlySyncFetches
    <3> QED
      BY <3>2, <3>4 DEF Completes
  <2> QED
    BY <1>1, <2>1, <2>2 DEF Spent
<1>8. CASE 1 \notin Ordinary
  <2>1. f.code \in PushCodes /\ f # Frame("telemetry_response", SelfKey)
    BY <1>3, <1>5, <1>8 DEF InPlace
  <2>2. ~ AnswersSelfTelemetry(f) /\ ~ Malformed(f)
    BY <2>1 DEF AnswersSelfTelemetry, Frame, Malformed, PushCodes, RemotePushes
  <2>3. Commit(Push(f))
    BY <1>1, <2>1, <2>2 DEF UpstreamFrame, CommitAndSchedule
  <2> DEFINE x == Push(f)
  <2>4. x.failing = FALSE /\ x.active = active
    BY <2>2, PushNoWrite DEF SameWire, Now
  <2> HIDE DEF x
  <2>5. active.step = "result"
    BY <1>1, <2>3, <2>4, CommitSurvives DEF x
  <2>6. received = <<>> /\ Ordinary = {}
    BY <1>4, <2>5 DEF Aligned
  <2> QED
    BY <1>1, <1>3, <1>6, <2>6 DEF Spent, Message
<1> QED
  BY <1>7, <1>8

LEMMA OweStep ==
  ASSUME Lossless, BrokerInv, RoundInv, LinkType, WireInv, FittingInv, OweInv,
         MuxNext
  PROVE  OweInv'
<1>1. /\ TypeInv /\ InboxInv /\ Ended /\ NoDebt /\ Numbered /\ CompanionType
      /\ active \in Transaction
  BY LinkParts DEF BrokerInv, TypeInv, TypeOK, TransactionInv
<1>2. failed \in BOOLEAN /\ (~ failed => usable)
  BY <1>1 DEF TypeInv, TypeOK, OweInv
\* Steps that leave the link alone.
<1>3. ASSUME Owes, UNCHANGED <<outgoing, received, replies, usable>>,
             failed => failed'
      PROVE  OweInv'
  <2>1. CASE failed
    <3>1. debt' = debt /\ failed'
      BY <1>3, <2>1 DEF Owes
    <3>2. UNCHANGED <<PopOwed, NoFetch, OneFetch, Spent>>
      BY <1>3, <3>1
         DEF PopOwed, NoFetch, OneFetch, Spent, Message, Ordinary, IsPop, PushCodes
    <3> QED
      BY <1>3, <2>1, <3>1, <3>2 DEF OweInv, Owing
  <2>2. CASE ~ failed
    <3>1. failed' => Owing'
      BY <1>1, <1>3, <2>2, OwingStarts
    <3> QED
      BY <1>2, <1>3, <2>2, <3>1 DEF OweInv
  <2> QED
    BY <2>1, <2>2
<1>4. ASSUME Rests
      PROVE  outgoing' = outgoing /\ (failed => failed')
  BY <1>4 DEF Rests
<1>5. CASE Clients \/ ClientRequest \/ Clock
  <2>1. ClientStep \/ ClockStep
    BY <1>1, <1>5, ClientsStep, ClockIsBroker
  <2>2. Rests /\ Owes
    BY <1>1, <1>5, <2>1, HandlersCalm, HandlersOwe
  <2>3. UNCHANGED <<received, replies, usable>>
    BY <1>5 DEF Clients, ClientRequest, Clock, linkVars, companionVars
  <2> QED
    BY <1>3, <1>4, <2>2, <2>3
<1>6. CASE Schedule
  <2>1. ScheduleStep /\ UNCHANGED <<received, replies, usable>>
    BY <1>6 DEF Schedule, companionVars, linkVars
  <2>2. CASE \E k : TurnPop(k) \/ \E s : TurnDispatch(k, s)
    <3>1. PICK k : TurnPop(k) \/ \E s : TurnDispatch(k, s)
      BY <2>2
    <3>2. Starts
      BY <1>1, <3>1, TurnPopStarts, TurnDispatchStarts
    <3>3. DOMAIN sessions # {}
      <4>1. CASE TurnPop(k)
        BY <4>1 DEF TurnPop, NextTurn, HasWork
      <4>2. CASE \E s : TurnDispatch(k, s)
        <5>1. PICK s : s # 0 /\ NextTurn(k, s)
          BY <4>2 DEF TurnDispatch
        <5> QED
          BY <5>1 DEF NextTurn, HasWork
      <4> QED
        BY <3>1, <4>1, <4>2
    <3>4. ~ failed
      BY <1>1, <3>3 DEF Ended
    <3>5. ~ failed'
      BY <3>2, <3>4 DEF Starts
    <3> QED
      BY <1>2, <2>1, <3>4, <3>5 DEF OweInv
  <2>3. CASE ~ \E k : TurnPop(k) \/ \E s : TurnDispatch(k, s)
    <3>1. Rests /\ Owes
      BY <1>1, <2>1, <2>3, HandlersCalm, HandlersOwe DEF ScheduleStep
    <3> QED
      BY <1>3, <1>4, <2>1, <3>1
  <2> QED
    BY <2>2, <2>3
<1>7. CASE WriterWrites
  <2>1. /\ usable /\ outgoing # <<>> /\ outgoing' = Tail(outgoing)
        /\ received' = Append(received, Head(outgoing))
        /\ UNCHANGED <<failed, debt, replies, usable>>
    BY <1>7 DEF WriterWrites, TakeWrite
  <2>2. /\ 1 \in DOMAIN outgoing /\ outgoing[1] = Head(outgoing)
        /\ \A i \in DOMAIN outgoing' :
             i + 1 \in DOMAIN outgoing /\ outgoing'[i] = outgoing[i + 1]
             /\ i \in Nat /\ i >= 1
    <3> DEFINE S == Write
    <3>1. outgoing \in Seq(S)
      BY <1>1 DEF TypeInv, TypeOK, Write
    <3> HIDE DEF S
    <3> QED
      BY <2>1, <3>1
  <2>3. \A i \in DOMAIN received' :
          \/ i \in DOMAIN received /\ received'[i] = received[i]
          \/ i = Len(received) + 1 /\ received'[i] = outgoing[1]
    <3> DEFINE S == Write
    <3>1. received \in Seq(S)
      BY <1>1 DEF CompanionType
    <3> HIDE DEF S
    <3> QED
      BY <2>1, <2>2, <3>1
  <2>4. UNCHANGED <<PopOwed, Ordinary>>
    BY <2>1 DEF PopOwed, Ordinary
  <2>5. NoFetch => NoFetch'
    BY <2>1, <2>2, <2>3 DEF NoFetch, Message
  <2>6. ASSUME OneFetch
        PROVE  OneFetch'
    <3>1. received = <<>> /\ Ordinary = {} /\ IsPop(outgoing[1])
      BY <2>1, <2>2, <2>6 DEF OneFetch
    <3>2. DOMAIN outgoing' = {}
      <4>1. \A i \in DOMAIN outgoing' : i + 1 = 1
        BY <2>2, <2>6 DEF OneFetch
      <4> QED
        BY <2>2, <4>1
    <3>3. outgoing' = <<>>
      <4> DEFINE S == Write
      <4>1. outgoing \in Seq(S)
        BY <1>1 DEF TypeInv, TypeOK, Write
      <4> HIDE DEF S
      <4>2. outgoing' \in Seq(S)
        BY <2>1, <4>1
      <4> QED
        BY <3>2, <4>2
    <3>4. \A i \in DOMAIN received' :
            i = Len(received) + 1 /\ received'[i] = outgoing[1]
      BY <2>3, <3>1
    <3>5. \A i, j \in DOMAIN received' : i = j /\ IsPop(received'[i])
      BY <3>1, <3>4
    <3>6. \A i \in DOMAIN replies' :
            i \in Ordinary' \/ replies'[i].frame.code \in PushCodes
      BY <2>1, <2>4, <2>6 DEF OneFetch
    <3> QED
      BY <2>4, <3>1, <3>3, <3>5, <3>6 DEF OneFetch, IsPop
  <2> QED
    BY <2>1, <2>4, <2>5, <2>6 DEF OweInv, Owing
<1>8. CASE WriterReports
  <2>1. /\ UpstreamWritten(wrote) \/ (failed /\ UNCHANGED vars)
        /\ UNCHANGED <<received, replies, usable>>
    BY <1>8 DEF WriterReports, companionVars
  <2>2. CASE UpstreamWritten(wrote)
    <3> DEFINE v == IF AwaitsWrite(wrote) THEN 0 ELSE active.write
               x == [Now EXCEPT
                       !.upstream_writes = upstream_writes \ {wrote},
                       !.active.write = v]
    <3>1. Commit(x) /\ ~ failed
      BY <2>2 DEF UpstreamWritten, CommitAndSchedule, AtRest
    <3>2. /\ x.failing = FALSE /\ x.active = [active EXCEPT !.write = v]
          /\ x.debt = debt
      BY DEF Now
    <3> HIDE DEF x, v
    <3>3. [active EXCEPT !.write = v].step = active.step
      BY <1>1 DEF Transaction
    <3>4. failed' => active.step = "result" /\ debt' = debt
      BY <3>1, <3>2, <3>3
         DEF Commit, NextState, EpochEnds, FailEpoch, Continue
    <3>5. Owes
      BY <3>1, <3>4 DEF Owes, Owed
    <3>6. outgoing' = outgoing
      BY <1>1, <2>2, WrittenWire
    <3> QED
      BY <1>3, <2>1, <3>1, <3>5, <3>6
  <2>3. CASE failed /\ UNCHANGED vars
    <3>1. UNCHANGED <<failed, debt, outgoing>>
      BY <2>3 DEF vars
    <3>2. Owes
      BY <2>3, <3>1 DEF Owes
    <3> QED
      BY <1>3, <2>1, <2>3, <3>1, <3>2
  <2> QED
    BY <2>1, <2>2, <2>3
<1>9. CASE FrameArrives
  <2>1. usable' = ~ failed'
    BY <1>9 DEF FrameArrives
  <2>2. failed' => Spent'
    BY <1>1, <1>9, SpentFrame
  <2> QED
    BY <2>1, <2>2 DEF OweInv
<1>10. CASE LinkFails
  BY <1>10 DEF LinkFails, Lossless
<1>11. CASE DrainDebt
  <2>1. /\ usable /\ replies # <<>> /\ DrainUncertainFrame(Head(replies).frame)
        /\ replies' = Tail(replies) /\ received' = received /\ usable' = usable
    BY <1>11 DEF DrainDebt, linkVars
  <2>2. failed
    BY <2>1 DEF DrainUncertainFrame
  <2>3. Owing' /\ failed'
    BY <1>1, <2>1, <2>2, OwingDrained DEF OweInv
  <2> QED
    BY <2>1, <2>3 DEF OweInv
<1>12. CASE Reconnect
  BY <1>12 DEF Reconnect, Restart, OweInv
<1>13. CASE CompanionStep
  <2>1. UNCHANGED <<failed, usable>>
    BY <1>13 DEF CompanionStep, vars, linkVars
  <2>2. CASE usable
    <3>1. failed => Owing'
      BY <1>1, <1>13, <2>2, OwingCompanion DEF OweInv
    <3> QED
      BY <2>1, <2>2, <3>1 DEF OweInv
  <2>3. CASE ~ usable
    <3>1. received = <<>> /\ failed
      BY <2>3 DEF OweInv, Spent
    <3>2. Arrive(usable) \/ Report(usable)
      BY <1>13, <3>1 DEF CompanionStep, ExecutePop, Execute, Refuse
    <3>3. received' = received /\ replies' = replies
      BY <2>3, <3>2 DEF Arrive, Report
    <3> QED
      BY <2>1, <2>3, <3>1, <3>3 DEF OweInv, Spent, Message
  <2> QED
    BY <2>2, <2>3
<1> QED
  BY <1>5, <1>6, <1>7, <1>8, <1>9, <1>10, <1>11, <1>12, <1>13 DEF MuxNext

LEMMA OweInvariant ==
  ASSUME Lossless
  PROVE  MuxSpec =>
           [](BrokerInv /\ RoundInv /\ LinkType /\ WireInv /\ FittingInv /\ OweInv)
<1>1. MuxInit => OweInv
  BY DEF MuxInit, Init, OweInv
<1>2. BrokerInv /\ RoundInv /\ LinkType /\ WireInv /\ FittingInv /\ OweInv
        /\ [MuxNext]_muxVars => OweInv'
  <2>1. ASSUME OweInv, UNCHANGED muxVars
        PROVE  OweInv'
    <3>1. UNCHANGED <<failed, usable, debt, outgoing, received, replies>>
      BY <2>1 DEF muxVars, vars, companionVars, linkVars
    <3> QED
      BY <2>1, <3>1
         DEF OweInv, Owing, PopOwed, NoFetch, OneFetch, Spent, Message, Ordinary,
             IsPop, PushCodes
  <2> QED
    BY <2>1, OweStep
<1> QED
  BY <1>1, <1>2, FittingInvariant, PTL DEF MuxSpec

-----------------------------------------------------------------------------
(* A popped message reaches the clients or the orphan                      *)

\* The companion only adds to what it has sent.
Appends == \E more \in Seq(Sending) : replies' = replies \o more

\* The companion sends, it takes nothing back.
LEMMA CompanionAppends ==
  ASSUME CompanionType, CompanionStep
  PROVE  Appends
<1>1. ASSUME NEW more \in Seq(Sending), replies' = replies \o more
      PROVE  Appends
  BY <1>1 DEF Appends
<1>2. ASSUME replies' = replies
      PROVE  Appends
  <2>1. replies \in Seq(Sending)
    BY DEF CompanionType
  <2>2. <<>> \in Seq(Sending) /\ replies \o <<>> = replies
    BY <2>1
  <2> QED
    BY <1>2, <2>2 DEF Appends
<1>3. received # <<>> => Head(received) \in Write
  BY FirstAndOthers DEF CompanionType
<1>4. ASSUME NEW frames \in Seq(SentFrames), received # <<>>,
             replies' = replies \o Answer(Head(received), frames)
      PROVE  Appends
  BY <1>1, <1>3, <1>4, AnswerType
<1>5. ASSUME NEW owner \in Nat, NEW f \in SentFrames,
             replies' \in {replies, replies \o Announce(owner, f)}
      PROVE  Appends
  BY <1>1, <1>2, <1>5, AnnounceType
<1>6. CASE ExecutePop
  <2>1. received # <<>>
    BY <1>6 DEF ExecutePop
  <2>2. CASE physical = <<>>
    <3>1. <<Frame("no_more_messages", 0)>> \in Seq(SentFrames)
      BY FramesMade
    <3> QED
      BY <1>4, <1>6, <2>1, <2>2, <3>1 DEF ExecutePop
  <2>3. CASE physical # <<>>
    <3>1. Head(physical) \in 1 .. MaxArrivals
      BY <2>3, FirstAndOthers DEF CompanionType
    <3>2. <<Frame("message", Head(physical))>> \in Seq(SentFrames)
      BY <3>1, FramesMade
    <3> QED
      BY <1>4, <1>6, <2>1, <2>3, <3>2 DEF ExecutePop
  <2> QED
    BY <2>2, <2>3
<1>7. CASE Execute
  <2> DEFINE command == Head(received).command
  <2>1. received # <<>> /\ command # Sync
    BY <1>7 DEF Execute
  <2>2. PICK answer \in Answers(command) :
          replies' = replies \o Answer(Head(received), answer)
    BY <1>7 DEF Execute
  <2>3. command \in Command
    BY <1>3, <2>1 DEF Write
  <2>4. command.op # "none"
    BY <2>2, NothingAnswersNone
  <2> HIDE DEF command
  <2>5. answer \in Seq(SentFrames)
    BY <2>1, <2>2, <2>3, <2>4, AnswersMade
  <2> QED
    BY <1>4, <2>1, <2>2, <2>5
<1>8. CASE Refuse
  <2>1. PICK reason \in {1, ErrBadState} :
          replies' = replies \o Answer(Head(received), <<Frame("err", reason)>>)
    BY <1>8 DEF Refuse
  <2>2. received # <<>> /\ <<Frame("err", reason)>> \in Seq(SentFrames)
    BY <1>8, FramesMade DEF Refuse
  <2> QED
    BY <1>4, <2>1, <2>2
<1>9. CASE Arrive(usable)
  BY <1>5, <1>9, FramesMade DEF Arrive
<1>10. CASE Report(usable)
  <2>1. PICK i \in DOMAIN requests, code \in DOMAIN RemotePushes :
          LET command == requests[i].command
              key == IF code = "binary_response" THEN Token ELSE command.arg
          IN replies' = IF usable
               THEN replies \o Announce(requests[i].owner, Frame(code, key))
               ELSE replies
    BY <1>10 DEF Report
  <2>2. requests[i] \in Accepted
    BY DEF CompanionType
  <2>3. requests[i].command \in Commands /\ requests[i].owner \in Nat
    BY <2>2 DEF Accepted
  <2> DEFINE f == Frame(code, IF code = "binary_response" THEN Token
                              ELSE requests[i].command.arg)
  <2>4. f \in SentFrames
    BY <2>3, FramesMade
  <2>5. replies' \in {replies, replies \o Announce(requests[i].owner, f)}
    BY <2>1
  <2> HIDE DEF f
  <2> QED
    BY <1>5, <2>3, <2>4, <2>5
<1> QED
  BY <1>6, <1>7, <1>8, <1>9, <1>10 DEF CompanionStep

LEMMA CompanionTakesNone ==
  ASSUME CompanionType, CompanionStep, replies # <<>>
  PROVE  replies' # Tail(replies)
<1>1. PICK more \in Seq(Sending) : replies' = replies \o more
  BY CompanionAppends DEF Appends
<1>2. replies \in Seq(Sending)
  BY DEF CompanionType
<1>3. Len(replies') = Len(replies) + Len(more)
  BY <1>1, <1>2
<1> QED
  BY <1>2, <1>3

\* The client has been sent the item or has it in its inbox.
Retains(session, item) ==
  session.last = item \/ \E k \in DOMAIN session.inbox : session.inbox[k] = item

LEMMA EnqueueKeeps ==
  ASSUME NEW session \in Session, NEW item \in Items,
         session.sync # 0 => session.inbox = <<>>
  PROVE  Retains(EnqueueMultiClient(session, item), item)
<1> DEFINE inbox == Append(session.inbox, item)
           filled == [session EXCEPT !.inbox = inbox]
           answered == [filled EXCEPT !.sync = 0]
<1>1. /\ inbox \in Seq(Items)
      /\ \E k \in DOMAIN inbox : inbox[k] = item
      /\ session.sync # 0 => Head(inbox) = item
  <2>1. session.inbox \in Seq(Items)
    BY DEF Session
  <2>2. /\ Len(session.inbox) + 1 \in DOMAIN inbox
        /\ inbox[Len(session.inbox) + 1] = item
    BY <2>1
  <2> QED
    BY <2>1, <2>2
<1> HIDE DEF inbox
<1>2. /\ filled \in Session /\ filled.inbox = inbox
      /\ answered \in Session /\ answered.inbox = inbox
  BY <1>1 DEF Session
<1> HIDE DEF filled, answered
<1>3. Retains(filled, item) /\ Retains(Hint(filled), item)
  BY <1>1, <1>2 DEF Retains, Hint, Emit, Session
<1>4. session.sync # 0 => Retains(DeliverInbox(answered), item)
  <2> DEFINE x == Reply(answered, Layout(answered.version))
  <2>1. x \in Session /\ x.inbox = inbox
    <3>1. x \in Session
      BY <1>2, ReplyType DEF Layout, WriteKinds
    <3> QED
      BY <1>2, <3>1 DEF Reply, Emit, Session
  <2>2. DeliverInbox(answered) =
          IF HasRoom(answered)
          THEN [x EXCEPT !.inbox = Tail(inbox), !.last = Head(inbox)] ELSE x
    BY <1>2 DEF DeliverInbox
  <2> HIDE DEF x
  <2>3. [x EXCEPT !.inbox = Tail(inbox), !.last = Head(inbox)].last = Head(inbox)
    BY <2>1 DEF Session
  <2> QED
    BY <1>1, <2>1, <2>2, <2>3 DEF Retains
<1> QED
  BY <1>3, <1>4 DEF EnqueueMultiClient, filled, answered, inbox

\* What the fan-out of an item leaves to the clients without a slot.
LEMMA FanOutKeeps ==
  ASSUME NEW n \in Nat, NEW e \in State(n), NEW tx, NEW item \in Items,
         \A s \in DOMAIN e.sessions :
           e.sessions[s].slot = 0 /\ e.sessions[s].sync # 0
             => e.sessions[s].inbox = <<>>
  PROVE  LET x == FanOut(e, tx, item)
         IN /\ \A s \in Survivors(x) :
                 s \in DOMAIN e.sessions
                   /\ (e.sessions[s].slot = 0 => Retains(x.sessions[s], item))
            /\ Orphaned(e, tx) => x.orphan = item
<1> DEFINE x == FanOut(e, tx, item)
<1>1. \A s \in DOMAIN e.sessions : e.sessions[s] \in Session
  BY TableType DEF State
<1>2. /\ DOMAIN x.sessions = DOMAIN e.sessions
      /\ \A s \in DOMAIN e.sessions : x.sessions[s] =
           CASE e.sessions[s].slot # 0 -> FanOutAttached(e, s)
             [] e.sessions[s].slot = 0 /\ ~ InboxFull(e.sessions[s]) ->
                  EnqueueMultiClient(e.sessions[s], item)
             [] OTHER -> e.sessions[s]
      /\ x.closed = {s \in DOMAIN e.sessions : InboxFull(e.sessions[s])}
      /\ Orphaned(e, tx) => x.orphan = item
  BY DEF FanOut, State
<1> HIDE DEF x
<1>3. ASSUME NEW s \in Survivors(x)
      PROVE  s \in DOMAIN e.sessions
               /\ (e.sessions[s].slot = 0 => Retains(x.sessions[s], item))
  <2>1. s \in DOMAIN e.sessions /\ ~ InboxFull(e.sessions[s])
    BY <1>2 DEF Survivors
  <2>2. ASSUME e.sessions[s].slot = 0
        PROVE  x.sessions[s] = EnqueueMultiClient(e.sessions[s], item)
    BY <1>2, <2>1, <2>2
  <2>3. ASSUME e.sessions[s].slot = 0
        PROVE  Retains(EnqueueMultiClient(e.sessions[s], item), item)
    BY <1>1, <2>1, <2>3, EnqueueKeeps
  <2> QED
    BY <2>1, <2>2, <2>3
<1> QED
  BY <1>2, <1>3 DEF x

\* The handler of a popped message keeps the item for them.
KeptBy(tx, item) ==
  /\ \A s \in DOMAIN sessions \cap DOMAIN sessions' :
       sessions[s].slot = 0 => Retains(sessions'[s], item)
  /\ (\A s \in DOMAIN sessions : sessions[s].slot # 0) /\ tx.had_multi_client
       => orphan' = item

\* The handler's step is the fan-out.
FannedOut(tx, item) ==
  \E e \in State(next_session) :
    e.sessions = sessions /\ e.slots = slots /\ Commit(FanOut(e, tx, item))

LEMMA FannedOutKeeps ==
  ASSUME TypeInv, InboxInv, Ended', NEW tx, NEW item \in Items,
         FannedOut(tx, item)
  PROVE  KeptBy(tx, item)
<1>1. PICK e \in State(next_session) :
        e.sessions = sessions /\ Commit(FanOut(e, tx, item))
  BY DEF FannedOut
<1> DEFINE x == FanOut(e, tx, item)
<1>2. /\ orphan' = x.orphan
      /\ \A s \in DOMAIN sessions' :
           s \in Survivors(x) /\ sessions'[s] = x.sessions[s]
  BY <1>1 DEF Commit, NextState, FailEpoch, Continue
<1>3. \A s \in DOMAIN sessions :
        sessions[s].slot = 0 /\ sessions[s].sync # 0 => sessions[s].inbox = <<>>
  BY DEF InboxInv, SyncWaitsOnEmptyInbox, Waiting, InboxFor
<1> HIDE DEF x
<1>4. /\ \A s \in Survivors(x) :
           s \in DOMAIN sessions
             /\ (sessions[s].slot = 0 => Retains(x.sessions[s], item))
      /\ Orphaned(e, tx) => x.orphan = item
  <2>1. next_session \in Nat
    BY DEF TypeInv, TypeOK
  <2> QED
    BY <1>1, <1>3, <2>1, FanOutKeeps DEF x
<1> QED
  BY <1>1, <1>2, <1>4 DEF KeptBy, Orphaned

\* A message that answers a pop is not dropped where deduplication is off.
LEMMA MessageFansOut ==
  ASSUME Lossless, NEW e, NEW tx, NEW item
  PROVE  PopResult(e, tx, Frame("message", item)) = FanOut(e, tx, item)
BY DEF Lossless, Duplicate, PopResult, Frame

\* The pop that is running is answered.
LEMMA ArrivedFansOut ==
  ASSUME Lossless, TypeInv, RoundInv, LinkType, WireInv, FittingInv,
         FrameArrives, NEW i \in Items,
         Head(replies).frame = Frame("message", i)
  PROVE  ~ failed /\ FannedOut(active, i)
<1> DEFINE f == Head(replies).frame
           e == Finish(WriteIsOver)
<1>1. replies # <<>> /\ UpstreamFrame(f) /\ ~ failed
  BY DEF FrameArrives, LateUpstreamFrame, Lossless, UpstreamFrame, AtRest
<1>2. 1 \in DOMAIN replies /\ replies[1].frame = f
  BY <1>1, LinkParts, TakenFrame DEF CompanionType
<1>3. f.code = "message" /\ ~ Malformed(f) /\ f.code \notin PushCodes
  BY DEF Frame, Malformed, PushCodes, RemotePushes
<1>4. 1 \in Ordinary /\ Suits(WireCommand(active), f)
        /\ active.step \in {"setup", "command", "restore"}
  <2>1. Aligned /\ Answering /\ Fitting
    BY <1>1 DEF WireInv, FittingInv
  <2>2. 1 \in Ordinary
    BY <1>2, <1>3, <2>1 DEF Answering, InPlace
  <2> QED
    BY <1>2, <2>1, <2>2 DEF Fitting, Aligned
<1> HIDE DEF f
<1>5. next_session \in Nat
  BY DEF TypeInv, TypeOK
<1>6. /\ active.step = "command" /\ active.owner = 0
      /\ ValidResponse(active.command, active.contacts_started, f)
  <2>1. "message" \in SuccessCodes(WireCommand(active).op)
    BY <1>3, <1>4 DEF Suits
  <2>2. WireCommand(active).op = "sync_next_message"
    BY <2>1, OnlySyncFetches
  <2>3. active.step = "command" /\ active.command.op = "sync_next_message"
    BY <1>4, <2>2 DEF WireCommand, SetScope
  <2>4. active.owner = 0
    BY <2>3 DEF RoundInv, Forwards, Virtual
  <2> QED
    BY <1>3, <2>1, <2>3, <2>4 DEF ValidResponse, WireCommand
<1>7. e \in State(next_session) /\ e.sessions = sessions /\ e.slots = slots
  <2>1. /\ WriteIsOver \in State(next_session)
        /\ WriteIsOver.sessions = sessions /\ WriteIsOver.slots = slots
    BY WriteIsOverType DEF WriteIsOver, Now
  <2> QED
    BY <1>5, <2>1, FinishType DEF Finish, State
<1> HIDE DEF e
<1>8. TransactionResponse(f) = FanOut(e, active, i)
  <2>1. TransactionResponse(f) = PopResult(e, active, f)
    BY <1>3, <1>6 DEF TransactionResponse, e
  <2> QED
    BY <2>1, MessageFansOut DEF f
<1>9. Commit(FanOut(e, active, i))
  BY <1>1, <1>3, <1>8 DEF UpstreamFrame, CommitAndSchedule
<1> QED
  BY <1>1, <1>7, <1>9 DEF FannedOut

\* The pop that an epoch owed when it failed is answered after all.
LEMMA DrainedFansOut ==
  ASSUME Lossless, TypeInv, CompanionType, OweInv, DrainDebt, NEW i \in Items,
         Head(replies).frame = Frame("message", i)
  PROVE  failed /\ FannedOut(debt, i)
<1> DEFINE f == Head(replies).frame
           paid == [Now EXCEPT !.debt = NoTransaction]
<1>1. usable /\ failed /\ replies # <<>> /\ DrainUncertainFrame(f)
  BY DEF DrainDebt, DrainUncertainFrame
<1>2. 1 \in DOMAIN replies /\ replies[1].frame = f
  BY <1>1, TakenFrame DEF CompanionType, DrainDebt
<1>3. f.code = "message" /\ f.code \notin PushCodes
  BY DEF Frame, PushCodes, RemotePushes
<1> HIDE DEF f
<1>4. PopOwed
  BY <1>1, <1>2, <1>3 DEF OweInv, Owing, NoFetch, Message
<1>5. KeepsItem(f)
  BY <1>3, <1>4 DEF KeepsItem, PopOwed
<1>6. ~ DebtProgress(f)
  BY <1>3, OnlySyncFetches DEF DebtProgress, ValidResponse, Completes
<1>7. /\ paid \in State(next_session)
      /\ paid.sessions = sessions /\ paid.slots = slots
  <2>1. /\ Now \in State(next_session)
        /\ Now.sessions = sessions /\ Now.slots = slots
    BY NowType DEF Now
  <2>2. next_session \in Nat
    BY DEF TypeInv, TypeOK
  <2> QED
    BY <2>1, <2>2, SmallChanges DEF Now
<1>8. Commit(PopResult(paid, debt, f))
  BY <1>1, <1>3, <1>5, <1>6 DEF DrainUncertainFrame
<1> HIDE DEF paid
<1>9. Commit(FanOut(paid, debt, i))
  BY <1>8, MessageFansOut DEF f
<1> QED
  BY <1>1, <1>7, <1>9 DEF FannedOut

LEMMA PopStep ==
  ASSUME Lossless, BrokerInv, BrokerInv', RoundInv, LinkType, WireInv,
         FittingInv, OweInv, MuxNext, NEW i \in Items, replies # <<>>,
         Head(replies).frame = Frame("message", i), replies' = Tail(replies)
  PROVE  KeptBy(IF failed THEN debt ELSE active, i)
<1>1. TypeInv /\ InboxInv /\ Ended' /\ CompanionType
  BY LinkParts DEF BrokerInv
<1>2. replies' # replies
  <2>1. replies \in Seq(Sending)
    BY <1>1 DEF CompanionType
  <2> QED
    BY <2>1
<1>3. ASSUME Clients \/ ClientRequest \/ Clock \/ Schedule \/ WriterWrites
             \/ WriterReports
      PROVE  FALSE
  BY <1>2, <1>3
     DEF Clients, ClientRequest, Clock, Schedule, WriterWrites, WriterReports,
         companionVars
<1>4. ASSUME LinkFails
      PROVE  FALSE
  BY <1>4 DEF LinkFails, Lossless
<1>5. ASSUME CompanionStep
      PROVE  FALSE
  BY <1>1, <1>5, CompanionTakesNone
<1>6. ASSUME Reconnect
      PROVE  FALSE
  <2>1. failed /\ (usable => debt = NoTransaction)
    BY <1>6 DEF Reconnect, Restart, Lossless
  <2>2. 1 \in DOMAIN replies /\ Message(1)
    <3>1. 1 \in DOMAIN replies /\ replies[1] = Head(replies)
      BY <1>1, TakenFrame DEF CompanionType
    <3> QED
      BY <3>1 DEF Message, Frame
  <2>3. CASE usable
    BY <2>1, <2>2, <2>3 DEF OweInv, Owing, PopOwed, NoTransaction, NoFetch
  <2>4. CASE ~ usable
    BY <2>2, <2>4 DEF OweInv, Spent
  <2> QED
    BY <2>3, <2>4
<1>7. CASE FrameArrives
  BY <1>1, <1>7, ArrivedFansOut, FannedOutKeeps
<1>8. CASE DrainDebt
  BY <1>1, <1>8, DrainedFansOut, FannedOutKeeps
<1> QED
  BY <1>3, <1>4, <1>5, <1>6, <1>7, <1>8 DEF MuxNext

\* While no message is lost on the link or thrown away, one that the broker
\* takes from the companion is kept for the clients without a slot, whether it
\* answers the pop that runs (transaction_response) or the one that an epoch
\* owed when it failed (drain_uncertain): every such client that stays
\* connected has been sent it or has it in its inbox, and if those it was
\* popped for have all left it becomes the orphan (pop_result).
THEOREM PopsKept ==
  ASSUME Lossless
  PROVE  MuxSpec => PopIsKept
<1>1. BrokerInv /\ BrokerInv' /\ RoundInv /\ LinkType /\ WireInv /\ FittingInv
        /\ OweInv /\ [MuxNext]_muxVars =>
        [\A i \in Items :
           /\ replies # <<>>
           /\ Head(replies).frame = Frame("message", i)
           /\ replies' = Tail(replies)
           => /\ \A s \in DOMAIN sessions \cap DOMAIN sessions' :
                   sessions[s].slot = 0 =>
                     \/ sessions'[s].last = i
                     \/ \E k \in DOMAIN sessions'[s].inbox :
                          sessions'[s].inbox[k] = i
              /\ /\ \A s \in DOMAIN sessions : sessions[s].slot # 0
                 /\ IF failed THEN debt.had_multi_client
                    ELSE active.had_multi_client
                 => orphan' = i]_muxVars
  BY PopStep DEF KeptBy, Retains
<1> QED
  BY <1>1, OweInvariant, PTL DEF MuxSpec, PopIsKept

-----------------------------------------------------------------------------
(* SlotsMissNothing *)

\* The slot's client has been given the item, or can fetch it.
Has(slot, i) ==
  i <= slot.last \/ \E k \in DOMAIN slot.queue : slot.queue[k] = i

\* The queue is left alone, or its oldest item is given to the client.
Slid(slot, rest) ==
  \/ rest.queue = slot.queue /\ rest.last = slot.last
  \/ /\ slot.queue # <<>>
     /\ rest.queue = Tail(slot.queue) /\ rest.last = Head(slot.queue)

LEMMA SlidHas ==
  ASSUME NEW slot \in Slot, NEW rest, NEW m \in Nat,
         Lined(slot.last, slot.queue, m), Slid(slot, rest),
         NEW i \in Nat, Has(slot, i)
  PROVE  Has(rest, i)
<1> DEFINE queue == slot.queue
<1>1. queue \in Seq(Items) /\ slot.last \in Nat
  BY DEF Slot
<1>2. CASE rest.queue = slot.queue /\ rest.last = slot.last
  BY <1>2 DEF Has
<1>3. CASE queue # <<>> /\ rest.queue = Tail(queue) /\ rest.last = Head(queue)
  <2>1. /\ 1 \in DOMAIN queue /\ Head(queue) = queue[1] /\ queue[1] \in Items
        /\ \A k \in DOMAIN queue :
             k # 1 => k - 1 \in DOMAIN Tail(queue) /\ Tail(queue)[k - 1] = queue[k]
    BY <1>1, <1>3
  <2>2. queue[1] \in Nat /\ slot.last < queue[1]
    BY <2>1, ItemsAreNumbers DEF Lined
  <2>3. CASE i <= slot.last
    BY <1>1, <1>3, <2>1, <2>2, <2>3 DEF Has
  <2>4. ASSUME NEW k \in DOMAIN queue, queue[k] = i
        PROVE  Has(rest, i)
    <3> HIDE DEF queue
    <3>1. CASE k = 1
      BY <1>3, <2>1, <2>2, <2>4, <3>1 DEF Has
    <3>2. CASE k # 1
      BY <1>3, <2>1, <2>4, <3>2 DEF Has
    <3> QED
      BY <3>1, <3>2
  <2> QED
    BY <2>3, <2>4 DEF Has
<1> QED
  BY <1>2, <1>3 DEF Slid

SlotsSlide == \A d \in Slots : Slid(slots[d], slots'[d])

\* The slots a handler leaves behind, whatever becomes of the sessions.
LEMMA CommitLeaves ==
  ASSUME NEW x, Commit(x), x.slots \in [Slots -> Slot], NEW d \in Slots
  PROVE  slots'[d].queue = x.slots[d].queue /\ slots'[d].last = x.slots[d].last
<1>1. \E left : slots' = Detach(x.slots, left)
  BY DEF Commit, NextState, FailEpoch, Continue
<1>2. x.slots[d] \in Slot
  OBVIOUS
<1> QED
  BY <1>1, <1>2 DEF Detach, Slot

LEMMA CommitSlides ==
  ASSUME NEW x, Commit(x), x.slots \in [Slots -> Slot],
         \A d \in Slots : Slid(slots[d], x.slots[d])
  PROVE  SlotsSlide
BY CommitLeaves DEF SlotsSlide, Slid

LEMMA QuietSlides ==
  ASSUME TypeInv, NEW x, Commit(x), x.slots = slots
  PROVE  SlotsSlide
BY CommitSlides DEF Slid, TypeInv, TypeOK

LEMMA NothingSlides ==
  ASSUME TypeInv, MovesNothing
  PROVE  SlotsSlide
BY QuietSlides DEF MovesNothing, SlotsSlide, Slid

\* admit: the slot's new client is attached to the same queue.
LEMMA AdmitSlides ==
  ASSUME TypeInv, NEW d, Admit(d)
  PROVE  SlotsSlide
<1> DEFINE id == next_session + 1
           old == IF d = 0 THEN 0 ELSE slots[d].attached
           others == DOMAIN sessions \ {old}
           given == IF TakesOrphan(d) THEN <<orphan>> ELSE <<>>
           new == Hint([NewSession(d) EXCEPT !.inbox = given])
           table == [x \in Slots |->
                       IF x = d THEN [slots[x] EXCEPT !.attached = id]
                       ELSE slots[x]]
           e == [Now EXCEPT
                   !.sessions = [s \in others \cup {id} |->
                                   IF s = id THEN new ELSE sessions[s]],
                   !.order = Append(order, id),
                   !.slots = table,
                   !.orphan = IF TakesOrphan(d) THEN 0 ELSE orphan,
                   !.drain = IF others = {} THEN NoDrain ELSE drain]
<1>1. CASE UNCHANGED slots
  BY <1>1 DEF SlotsSlide, Slid
<1>2. CASE Commit(e)
  <2>1. e.slots = table
    BY DEF Now
  <2>2. id \in Nat /\ \A x \in Slots : slots[x] \in Slot
    BY DEF TypeInv, TypeOK
  <2>3. table \in [Slots -> Slot]
    BY <2>2 DEF Slot
  <2>4. \A x \in Slots : table[x].queue = slots[x].queue
                         /\ table[x].last = slots[x].last
    BY <2>2 DEF Slot
  <2> HIDE DEF e, table
  <2> QED
    BY <1>2, <2>1, <2>3, <2>4, CommitSlides DEF Slid
<1>3. UNCHANGED slots \/ Commit(e)
  BY DEF Admit, CommitAndSchedule
<1> QED
  BY <1>1, <1>2, <1>3

\* deliver_item: the oldest item, if the client's output has room for it.
LEMMA ShiftedSlides ==
  ASSUME NEW slot \in Slot, slot.queue # <<>>, NEW session
  PROVE  Shifted(slot, session) \in Slot /\ Slid(slot, Shifted(slot, session))
<1> DEFINE queue == slot.queue
<1>1. queue \in Seq(Items)
  BY DEF Slot
<1>2. Tail(queue) \in Seq(Items) /\ Head(queue) \in Items
  BY <1>1
<1>3. Head(queue) \in Nat
  BY <1>2, ItemsAreNumbers
<1> HIDE DEF queue
<1>4. CASE HasRoom(session)
  <2>1. Shifted(slot, session)
          = [slot EXCEPT !.queue = Tail(queue), !.last = Head(queue)]
    BY <1>4 DEF Shifted, queue
  <2> QED
    BY <1>2, <1>3, <2>1 DEF Slot, Slid, queue
<1>5. CASE ~ HasRoom(session)
  BY <1>5 DEF Shifted, Slid
<1> QED
  BY <1>4, <1>5

LEMMA ScheduleLocalSlides ==
  ASSUME TypeInv, NEW s, ScheduleLocal(s)
  PROVE  SlotsSlide
<1> DEFINE command == Head(sessions[s].commands)
           taken == [sessions[s] EXCEPT !.commands = Tail(sessions[s].commands)]
           e == [Now EXCEPT !.sessions[s].commands = Tail(sessions[s].commands)]
           d == sessions[s].slot
           x == LocalEffect(e, s, command)
<1>1. /\ s \in DOMAIN sessions /\ sessions[s] \in Session
      /\ slots \in [Slots -> Slot]
  BY DEF ScheduleLocal, LocalReady, TypeInv, TypeOK
<1>2. e.slots = slots /\ e.sessions = [sessions EXCEPT ![s] = taken]
  BY DEF Now
<1>3. e.sessions[s].slot = d
  <2>1. taken.slot = d
    BY <1>1 DEF Session
  <2> QED
    BY <1>1, <1>2, <2>1
<1>4. Commit(x)
  BY DEF ScheduleLocal
<1>5. \/ x.slots = slots
      \/ /\ InboxFor(s) # <<>> /\ d # 0
         /\ x.slots = [slots EXCEPT ![d] = Shifted(slots[d], e.sessions[s])]
  BY <1>2, <1>3 DEF LocalEffect, LocalSync, Now
<1> HIDE DEF e, x, command
<1>6. ASSUME InboxFor(s) # <<>>, d # 0,
             x.slots = [slots EXCEPT ![d] = Shifted(slots[d], e.sessions[s])]
      PROVE  SlotsSlide
  <2>1. d \in Slots /\ slots[d] \in Slot /\ slots[d].queue # <<>>
    BY <1>1, <1>6 DEF InboxFor, Session
  <2> DEFINE rest == Shifted(slots[d], e.sessions[s])
  <2>2. rest \in Slot /\ Slid(slots[d], rest)
    BY <2>1, ShiftedSlides
  <2> HIDE DEF rest
  <2>3. x.slots = [slots EXCEPT ![d] = rest]
    BY <1>6 DEF rest
  <2>4. /\ x.slots \in [Slots -> Slot]
        /\ \A y \in Slots : y # d => x.slots[y] = slots[y]
        /\ x.slots[d] = rest
    BY <1>1, <2>1, <2>2, <2>3
  <2>5. \A y \in Slots : Slid(slots[y], x.slots[y])
    BY <2>2, <2>4 DEF Slid
  <2> QED
    BY <1>4, <2>4, <2>5, CommitSlides
<1> QED
  BY <1>4, <1>5, <1>6, QuietSlides

LEMMA HandlersSlide ==
  ASSUME TypeInv, ScheduleStep \/ ClientStep \/ ClockStep
  PROVE  SlotsSlide
BY HandlersMoveNothing, NothingSlides, AdmitSlides, ScheduleLocalSlides

\* Any reply but a message.
LEMMA TransactionResponseSlides ==
  ASSUME TypeInv, TransactionInv, NEW f \in Frames, f.code # "message",
         Commit(TransactionResponse(f))
  PROVE  SlotsSlide
<1> DEFINE n == next_session
           e == WriteIsOver
           x == TransactionResponse(f)
<1>1. n \in Nat /\ e \in State(n)
  BY NowSound, WriteIsOverKeeps DEF TypeInv
<1>2. active \in Transaction /\ PopShape(active)
  BY DEF TypeInv, TypeOK
<1>3. e.active.step = active.step /\ e.active.owner = active.owner
  BY <1>2, WriteIsOverKeeps DEF Transaction
<1>4. e.slots = slots
  BY DEF WriteIsOver, Now
<1> HIDE DEF e, n
<1>5. Fail(e).slots = slots /\ Finish(e).slots = slots
  BY <1>1, <1>4 DEF Fail, Finish, State
<1>6. CASE active.step \in {"setup", "restore"}
  <2>1. x = ScopeResponse(e, f) /\ active.owner # 0
    BY <1>2, <1>6 DEF TransactionResponse, PopShape, e
  <2> QED
    BY <1>1, <1>3, <1>4, <1>6, <2>1, ReplyLeavesSlots, QuietSlides
<1>7. CASE active.step = "command" /\ active.owner # 0
  <2>1. x \in {Fail(e), CommandResponse(e, f)}
    BY <1>7 DEF TransactionResponse, e
  <2>2. x.slots = slots
    BY <1>1, <1>3, <1>4, <1>5, <1>7, <2>1, ReplyLeavesSlots
  <2> QED
    BY <2>2, QuietSlides
<1>8. CASE active.step = "command" /\ active.owner = 0
  <2>1. active.command = Sync /\ active.contacts_started \in BOOLEAN
    BY <1>2, <1>8 DEF PopShape, Transaction
  <2>2. ValidResponse(active.command, active.contacts_started, f)
          => f.code \in {"err", "message", "no_more_messages"}
    BY <2>1, SyncReplies
  <2>3. \/ x = Fail(e)
        \/ x = PopResult(Finish(e), active, f) /\ f.code = "no_more_messages"
    BY <1>8, <2>2 DEF TransactionResponse, e
  <2>4. Finish(e) \in State(n)
    BY <1>1, FinishType
  <2>5. NoMoreMessages(Finish(e), active).slots = slots
    BY <1>5, <2>4 DEF NoMoreMessages, State
  <2>6. x.slots = slots
    BY <1>5, <2>3, <2>5 DEF PopResult
  <2> QED
    BY <2>6, QuietSlides
<1>9. CASE active.step \in {"none", "result"}
  <2>1. x = Fail(e)
    BY <1>9 DEF TransactionResponse, e
  <2> QED
    BY <1>5, <2>1, QuietSlides
<1> QED
  BY <1>2, <1>6, <1>7, <1>8, <1>9 DEF Transaction, Steps

LEMMA PushSlides ==
  ASSUME TypeInv, TransactionInv, NEW f \in Frames, f.code \in PushCodes,
         Commit(Push(f))
  PROVE  SlotsSlide
<1>1. f.code # "message"
  BY DEF PushCodes, RemotePushes
<1>2. CASE AnswersSelfTelemetry(f)
  <2>1. Push(f) = TransactionResponse(f)
    BY <1>2 DEF Push, AnswersSelfTelemetry, RemotePushes
  <2> QED
    BY <1>1, <2>1, TransactionResponseSlides
<1>3. CASE ~ AnswersSelfTelemetry(f)
  BY <1>3, PushLeavesSlots, QuietSlides
<1> QED
  BY <1>2, <1>3

\* Only a message reaches the slots.
LEMMA FrameSlides ==
  ASSUME TypeInv, TransactionInv, NEW f \in Frames, f.code # "message",
         UpstreamFrame(f) \/ DrainUncertainFrame(f)
  PROVE  SlotsSlide
<1>1. CASE UpstreamFrame(f)
  <2>1. \/ Commit(Fail(Now)) \/ (f.code \in PushCodes /\ Commit(Push(f)))
        \/ Commit(TransactionResponse(f))
    BY <1>1 DEF UpstreamFrame, CommitAndSchedule
  <2>2. Fail(Now).slots = slots
    BY DEF Fail, Now
  <2> QED
    BY <2>1, <2>2, QuietSlides, PushSlides, TransactionResponseSlides
<1>2. CASE DrainUncertainFrame(f)
  <2> DEFINE paid == [Now EXCEPT !.debt = NoTransaction]
             started == [Now EXCEPT !.debt.contacts_started = TRUE]
             x == PopResult(paid, debt, f)
  <2>1. \/ f.code \in PushCodes /\ Commit(Push(f))
        \/ Commit(paid)
        \/ DebtPaid(f) /\ KeepsItem(f) /\ Commit(x)
        \/ Commit(started)
    BY <1>2 DEF DrainUncertainFrame
  <2>2. debt \in Transaction /\ PopShape(debt)
    BY DEF TypeInv, TypeOK
  <2>3. paid.slots = slots /\ started.slots = slots
    BY DEF Now
  <2>4. NoMoreMessages(paid, debt).slots = slots
    BY DEF NoMoreMessages, Now
  <2> HIDE DEF paid, started
  <2>5. ASSUME DebtPaid(f), KeepsItem(f)
        PROVE  x.slots = slots
    <3>1. /\ debt.command = Sync
          /\ debt.contacts_started \in BOOLEAN
          /\ ValidResponse(debt.command, debt.contacts_started, f)
      BY <2>2, <2>5 DEF KeepsItem, DebtPaid, PopShape, Transaction
    <3>2. f.code \in {"err", "message", "no_more_messages"}
      BY <3>1, SyncReplies
    <3>3. f.code = "no_more_messages"
      BY <2>5, <3>2 DEF KeepsItem
    <3> QED
      BY <2>4, <3>3 DEF PopResult
  <2> HIDE DEF x
  <2> QED
    BY <2>1, <2>3, <2>5, PushSlides, QuietSlides
<1> QED
  BY <1>1, <1>2

\* A message reaches every slot whose queue is not full.
LEMMA FanOutSlotHas ==
  ASSUME NEW n \in Nat, NEW e \in State(n), NEW d \in Slots,
         NEW item \in Items, NEW m \in Nat, m < item,
         Lined(e.slots[d].last, e.slots[d].queue, m),
         ~ Full(e.slots[d].queue)
  PROVE  LET x == FanOutSlot(e, d, item)
         IN Has(x, item) /\ \A i \in Nat : Has(e.slots[d], i) => Has(x, i)
<1> DEFINE slot == e.slots[d]
           more == Append(slot.queue, item)
           queued == [slot EXCEPT !.queue = more]
<1>1. slot \in Slot /\ slot.queue \in Seq(Items) /\ slot.last \in Nat
  BY DEF State, Slot
<1>2. EnqueueOffline(slot.queue, item) = more
  BY DEF EnqueueOffline, Discards
<1>3. Lined(slot.last, more, item)
  BY <1>1, LinedAppend
<1>4. /\ more \in Seq(Items) /\ more # <<>>
      /\ \E k \in DOMAIN more : more[k] = item
      /\ \A k \in DOMAIN slot.queue : k \in DOMAIN more /\ more[k] = slot.queue[k]
  <2> DEFINE queue == slot.queue
  <2>1. queue \in Seq(Items)
    BY <1>1
  <2> HIDE DEF slot, queue
  <2>2. /\ Append(queue, item) \in Seq(Items)
        /\ Len(queue) + 1 \in DOMAIN Append(queue, item)
        /\ Append(queue, item)[Len(queue) + 1] = item
        /\ \A k \in DOMAIN queue : /\ k \in DOMAIN Append(queue, item)
                                   /\ Append(queue, item)[k] = queue[k]
    BY <2>1
  <2> QED
    BY <2>2 DEF queue
<1> HIDE DEF more
<1>5. queued \in Slot /\ queued.queue = more /\ queued.last = slot.last
  BY <1>1, <1>4 DEF Slot
<1>6. \/ FanOutSlot(e, d, item) = queued
      \/ \E session : FanOutSlot(e, d, item) = Shifted(queued, session)
  BY <1>2 DEF FanOutSlot
<1> HIDE DEF queued
<1>7. Has(queued, item) /\ \A i \in Nat : Has(slot, i) => Has(queued, i)
  BY <1>4, <1>5 DEF Has
<1> HIDE DEF slot
<1>8. item \in Nat
  BY ItemsAreNumbers
<1>9. ASSUME NEW session, NEW i \in Nat, Has(queued, i)
      PROVE  Has(Shifted(queued, session), i)
  BY <1>3, <1>4, <1>5, <1>8, <1>9, ShiftedSlides, SlidHas
<1> QED
  BY <1>6, <1>7, <1>8, <1>9 DEF slot

LEMMA FannedOutHas ==
  ASSUME TypeInv, NEW tx \in Transaction, NEW item \in Items,
         FannedOut(tx, item), NEW m \in Nat, m < item, Held(m),
         \A d \in Slots : ~ Full(slots[d].queue), NEW d \in Slots
  PROVE  /\ Has(slots'[d], item)
         /\ \A i \in Nat : Has(slots[d], i) => Has(slots'[d], i)
<1>1. PICK e \in State(next_session) :
        e.slots = slots /\ Commit(FanOut(e, tx, item))
  BY DEF FannedOut
<1> DEFINE x == FanOut(e, tx, item)
<1>2. next_session \in Nat
  BY DEF TypeInv, TypeOK
<1>3. x.slots \in [Slots -> Slot]
  BY <1>2, FanOutType DEF State
<1>4. x.slots[d] = FanOutSlot(e, d, item)
  BY DEF FanOut, State
<1> HIDE DEF x
<1>5. slots'[d].queue = x.slots[d].queue /\ slots'[d].last = x.slots[d].last
  BY <1>1, <1>3, CommitLeaves DEF x
<1>6. Has(x.slots[d], item)
        /\ \A i \in Nat : Has(slots[d], i) => Has(x.slots[d], i)
  BY <1>1, <1>2, <1>4, FanOutSlotHas DEF Held
<1> QED
  BY <1>5, <1>6 DEF Has

\* The companion keeps a message until it is popped, and then sends it.
LEMMA CompanionCarries ==
  ASSUME CompanionType, CompanionStep, NEW i \in 1 .. arrived',
         i \in 1 .. arrived => OnItsWay(i)
  PROVE  OnItsWay(i)'
<1>1. replies \in Seq(Sending) /\ arrived \in Nat
  BY ComingTypes DEF CompanionType
<1>2. PICK more \in Seq(Sending) : replies' = replies \o more
  BY CompanionAppends DEF Appends
<1>3. \A k \in DOMAIN replies : k \in DOMAIN replies' /\ replies'[k] = replies[k]
  BY <1>1, <1>2
<1>4. CASE \E k \in DOMAIN replies : replies[k].frame = Frame("message", i)
  BY <1>3, <1>4 DEF OnItsWay
<1>5. \A k \in DOMAIN physical : physical[k] \in Nat
  BY ComingTypes
<1> DEFINE S == 1 .. MaxArrivals
<1>6. physical \in Seq(S)
  BY DEF CompanionType
<1> HIDE DEF S
<1>7. CASE physical' = Append(physical, arrived + 1) /\ arrived' = arrived + 1
  <2> DEFINE item == arrived + 1
             longer == Append(physical, item)
  <2>1. longer[Len(physical) + 1] = item /\ Len(physical) + 1 \in DOMAIN longer
    BY <1>6
  <2>2. \A k \in DOMAIN physical : k \in DOMAIN longer /\ longer[k] = physical[k]
    BY <1>6
  <2> HIDE DEF longer
  <2>3. physical' = longer
    BY <1>7 DEF longer
  <2>4. CASE i = item
    BY <2>1, <2>3, <2>4 DEF OnItsWay
  <2>5. CASE i # item
    <3>1. i \in 1 .. arrived
      BY <1>1, <1>7, <2>5
    <3> QED
      BY <1>4, <2>2, <2>3, <3>1 DEF OnItsWay
  <2> QED
    BY <2>4, <2>5
<1>8. CASE physical' = physical /\ arrived' = arrived
  BY <1>4, <1>8 DEF OnItsWay
<1>9. CASE ExecutePop /\ physical # <<>>
  <2>1. /\ physical' = Tail(physical) /\ arrived' = arrived
        /\ received # <<>> /\ received \in Seq(Write)
        /\ replies' = replies \o Answer(Head(received),
                                        <<Frame("message", Head(physical))>>)
    BY <1>9 DEF ExecutePop, CompanionType
  <2>2. Head(physical) = physical[1]
        /\ \A k \in DOMAIN physical :
             k # 1 => /\ k - 1 \in DOMAIN Tail(physical)
                      /\ Tail(physical)[k - 1] = physical[k]
    BY <1>6, <1>9
  <2>3. CASE \E k \in DOMAIN physical : k # 1 /\ physical[k] = i
    <3>1. \E k \in DOMAIN Tail(physical) : Tail(physical)[k] = i
      BY <2>2, <2>3
    <3> QED
      BY <2>1, <3>1 DEF OnItsWay
  <2>4. CASE physical[1] = i
    <3> DEFINE f == Frame("message", i)
               last == [id |-> Head(received).id, owner |-> Head(received).owner,
                        frame |-> f]
    <3>1. Answer(Head(received), <<f>>) = <<last>>
      BY DEF Answer
    <3>2. last.frame = f
      OBVIOUS
    <3> HIDE DEF last, f
    <3>3. replies' = replies \o <<last>>
      BY <2>1, <2>2, <2>4, <3>1 DEF f
    <3>4. /\ Len(replies) + 1 \in DOMAIN (replies \o <<last>>)
          /\ (replies \o <<last>>)[Len(replies) + 1] = last
      BY <1>1
    <3> QED
      BY <3>2, <3>3, <3>4 DEF OnItsWay, f
  <2> QED
    BY <1>4, <2>1, <2>3, <2>4 DEF OnItsWay
<1> QED
  BY <1>7, <1>8, <1>9
     DEF CompanionStep, ExecutePop, Execute, Refuse, Arrive, Report

\* Whatever a step does, each message is still on its way or has arrived.
LEMMA NothingMissed ==
  ASSUME SlotsMissNothing,
         \A d \in Slots : \A i \in Nat : Has(slots[d], i) => Has(slots'[d], i),
         \A i \in 1 .. arrived' :
           \/ OnItsWay(i)'
           \/ i \in 1 .. arrived /\ ~ OnItsWay(i)
           \/ \A d \in Slots : Has(slots'[d], i)
  PROVE  SlotsMissNothing'
<1>1. ASSUME NEW d \in Slots, NEW i \in 1 .. arrived'
      PROVE  OnItsWay(i)' \/ Has(slots'[d], i)
  <2>1. CASE i \in 1 .. arrived /\ ~ OnItsWay(i)
    <3>1. Has(slots[d], i) /\ i \in Nat
      BY <2>1 DEF SlotsMissNothing, Has
    <3> QED
      BY <3>1
  <2> QED
    BY <2>1
<1> QED
  BY <1>1 DEF SlotsMissNothing, Has

LEMMA SlideMissesNothing ==
  ASSUME TypeInv, QueueInv, SlotsMissNothing, SlotsSlide,
         \A i \in 1 .. arrived' :
           OnItsWay(i)' \/ (i \in 1 .. arrived /\ ~ OnItsWay(i))
  PROVE  SlotsMissNothing'
<1>1. PICK m \in Nat : Held(m)
  BY DEF QueueInv
<1>2. slots \in [Slots -> Slot]
  BY DEF TypeInv, TypeOK
<1>3. ASSUME NEW d \in Slots, NEW i \in Nat, Has(slots[d], i)
      PROVE  Has(slots'[d], i)
  BY <1>1, <1>2, <1>3, SlidHas DEF SlotsSlide, Held
<1> QED
  BY <1>3, NothingMissed

\* A slot's queue has room for each message that is taken from the companion.
RoomForAll ==
  /\ replies # <<>> /\ Head(replies).frame.code = "message"
  /\ replies' = Tail(replies)
  => \A d \in Slots : ~ Full(slots[d].queue)

LEMMA FrameMissesNothing ==
  ASSUME Lossless, BrokerInv, RoundInv, LinkType, WireInv, FittingInv, OweInv,
         QueueInv, SlotsMissNothing, RoomForAll, FrameArrives \/ DrainDebt
  PROVE  SlotsMissNothing'
<1>1. /\ TypeInv /\ TransactionInv /\ CompanionType
      /\ active \in Transaction /\ debt \in Transaction
  BY LinkParts DEF BrokerInv, TypeInv, TypeOK
<1>2. /\ replies # <<>> /\ replies' = Tail(replies)
      /\ UNCHANGED <<physical, arrived>>
  BY DEF FrameArrives, DrainDebt
<1>3. /\ 1 \in DOMAIN replies /\ replies[1] = Head(replies)
      /\ \A k \in DOMAIN replies :
           k = 1 \/ (k - 1 \in DOMAIN replies' /\ replies'[k - 1] = replies[k])
  BY <1>1, <1>2, TakenFrame DEF CompanionType
<1> DEFINE f == Head(replies).frame
<1>4. f \in SentFrames /\ f \in Frames
  <2>1. replies[1] \in Sending
    BY <1>1, <1>3 DEF CompanionType
  <2> QED
    BY <1>3, <2>1, SentAreFrames DEF Sending
<1>5. ASSUME NEW i, OnItsWay(i)
      PROVE  OnItsWay(i)' \/ f = Frame("message", i)
  BY <1>2, <1>3, <1>5 DEF OnItsWay
<1>6. CASE f.code # "message"
  <2>1. ASSUME NEW i \in 1 .. arrived'
        PROVE  OnItsWay(i)' \/ (i \in 1 .. arrived /\ ~ OnItsWay(i))
    <3>1. i \in 1 .. arrived /\ f # Frame("message", i)
      BY <1>2, <1>6 DEF Frame
    <3> QED
      BY <1>5, <3>1
  <2>2. UpstreamFrame(f) \/ DrainUncertainFrame(f)
    BY DEF FrameArrives, DrainDebt, LateUpstreamFrame, Lossless
  <2>3. SlotsSlide
    BY <1>1, <1>4, <1>6, <2>2, FrameSlides
  <2> QED
    BY <1>1, <2>1, <2>3, SlideMissesNothing
<1>7. CASE f.code = "message"
  <2> DEFINE item == f.arg
  <2>1. item \in Items /\ f = Frame("message", item)
    <3>1. f = Frame("message", item)
      BY <1>4, <1>7 DEF SentFrames, Frame
    <3> QED
      BY <1>4, <1>7, <3>1, BrokerAssumption
  <2>2. PICK m \in Nat : Held(m) /\ m < item
    <3>1. PICK m \in Nat : Held(m) /\ Coming(m)
      BY DEF QueueInv
    <3>2. m < item
      BY <1>3, <1>7, <3>1 DEF Coming, Message, Carried
    <3> QED
      BY <3>1, <3>2
  <2>3. \E tx \in Transaction : FannedOut(tx, item)
    BY <1>1, <2>1, ArrivedFansOut, DrainedFansOut
  <2>4. \A d \in Slots : ~ Full(slots[d].queue)
    BY <1>2, <1>7 DEF RoomForAll
  <2> HIDE DEF f, item
  <2>5. \A d \in Slots :
          /\ Has(slots'[d], item)
          /\ \A i \in Nat : Has(slots[d], i) => Has(slots'[d], i)
    BY <1>1, <2>1, <2>2, <2>3, <2>4, FannedOutHas
  <2>6. ASSUME NEW i \in 1 .. arrived'
        PROVE  \/ OnItsWay(i)'
               \/ i \in 1 .. arrived /\ ~ OnItsWay(i)
               \/ \A d \in Slots : Has(slots'[d], i)
    <3>1. i \in 1 .. arrived
      BY <1>2
    <3>2. CASE i = item
      BY <2>5, <3>2
    <3>3. CASE i # item
      <4>1. f # Frame("message", i)
        BY <2>1, <3>3 DEF Frame
      <4> QED
        BY <1>5, <3>1, <4>1 DEF f
    <3> QED
      BY <3>2, <3>3
  <2> QED
    BY <2>5, <2>6, NothingMissed
<1> QED
  BY <1>6, <1>7

\* The companion that is reconnected is the same one.
SameCompanion == "new identity" \notin Faults

LEMMA SlotsStep ==
  ASSUME Lossless, SameCompanion, BrokerInv, RoundInv, LinkType, WireInv,
         FittingInv, OweInv, QueueInv, SlotsMissNothing, RoomForAll, MuxNext
  PROVE  SlotsMissNothing'
<1>1. TypeInv /\ TransactionInv /\ CompanionType
  BY LinkParts DEF BrokerInv
<1>2. ASSUME SlotsSlide, UNCHANGED <<replies, physical, arrived>>
      PROVE  SlotsMissNothing'
  <2>1. \A i \in 1 .. arrived' :
          OnItsWay(i)' \/ (i \in 1 .. arrived /\ ~ OnItsWay(i))
    BY <1>2 DEF OnItsWay
  <2> QED
    BY <1>1, <1>2, <2>1, SlideMissesNothing
<1>3. UNCHANGED slots => SlotsSlide
  BY DEF SlotsSlide, Slid
<1>4. CASE Clients \/ ClientRequest \/ Clock \/ Schedule
  <2>1. ClientStep \/ ClockStep \/ ScheduleStep
    BY <1>1, <1>4, ClientsStep, ClockIsBroker DEF Schedule
  <2>2. UNCHANGED companionVars
    BY <1>4 DEF Clients, ClientRequest, Clock, Schedule
  <2>3. SlotsSlide
    BY <1>1, <2>1, HandlersSlide
  <2> QED
    BY <1>2, <2>2, <2>3 DEF companionVars
<1>5. CASE WriterWrites
  <2>1. SlotsSlide
    BY <1>1, <1>5, LinkMovesNothing, NothingSlides DEF WriterWrites
  <2> QED
    BY <1>2, <1>5, <2>1 DEF WriterWrites
<1>6. CASE WriterReports
  <2>1. UNCHANGED companionVars /\ (UpstreamWritten(wrote) \/ UNCHANGED vars)
    BY <1>6 DEF WriterReports
  <2>2. UpstreamWritten(wrote) => SlotsSlide
    BY <1>1, LinkMovesNothing, NothingSlides
  <2> QED
    BY <1>2, <1>3, <2>1, <2>2 DEF vars, companionVars
<1>7. CASE FrameArrives \/ DrainDebt
  BY <1>7, FrameMissesNothing
<1>8. CASE LinkFails
  BY <1>8 DEF LinkFails, Lossless
<1>9. CASE Reconnect
  <2>1. Restart(TRUE) /\ UNCHANGED <<physical, arrived>> /\ replies' = <<>>
    BY <1>9 DEF Reconnect, SameCompanion
  <2>2. UNCHANGED slots
    BY <2>1 DEF Restart
  <2>3. ASSUME NEW k \in DOMAIN replies, NEW i
        PROVE  replies[k].frame # Frame("message", i)
    <3>1. failed /\ (usable => debt = NoTransaction)
      BY <1>9 DEF Reconnect, Restart, Lossless
    <3>2. CASE usable
      <4>1. ~ PopOwed
        BY <3>1, <3>2 DEF PopOwed, NoTransaction
      <4>2. ~ Message(k)
        BY <3>1, <3>2, <4>1 DEF OweInv, Owing, NoFetch
      <4> QED
        BY <4>2 DEF Message, Frame
    <3>3. CASE ~ usable
      <4>1. ~ Message(k)
        BY <3>3 DEF OweInv, Spent
      <4> QED
        BY <4>1 DEF Message, Frame
    <3> QED
      BY <3>2, <3>3
  <2>4. \A i \in 1 .. arrived' :
          OnItsWay(i)' \/ (i \in 1 .. arrived /\ ~ OnItsWay(i))
    BY <2>1, <2>3 DEF OnItsWay
  <2> QED
    BY <1>1, <1>3, <2>2, <2>4, SlideMissesNothing
<1>10. CASE CompanionStep
  <2>1. SlotsSlide
    BY <1>3, <1>10 DEF CompanionStep, vars
  <2>2. \A i \in 1 .. arrived' :
          OnItsWay(i)' \/ (i \in 1 .. arrived /\ ~ OnItsWay(i))
    BY <1>1, <1>10, CompanionCarries
  <2> QED
    BY <1>1, <2>1, <2>2, SlideMissesNothing
<1> QED
  BY <1>4, <1>5, <1>6, <1>7, <1>8, <1>9, <1>10 DEF MuxNext

\* While no message is lost on the link or thrown away, the companion keeps its
\* identity and no slot's queue is full when a message is taken from it, every
\* message that reached the companion is on its way or has reached every slot,
\* whether a client is attached or not, also when the epoch fails with the pop
\* unanswered (pop_result, drain_uncertain, restore_state).
THEOREM SlotsComplete ==
  ASSUME Lossless, SameCompanion
  PROVE  MuxSpec /\ [][RoomForAll]_muxVars => []SlotsMissNothing
<1>1. MuxInit => SlotsMissNothing
  <2>1. MuxInit => 1 .. arrived = {}
    BY DEF MuxInit, CompanionInit
  <2> QED
    BY <2>1 DEF SlotsMissNothing
<1>2. BrokerInv /\ RoundInv /\ LinkType /\ WireInv /\ FittingInv /\ OweInv
        /\ QueueInv /\ SlotsMissNothing /\ [MuxNext]_muxVars
        /\ [RoomForAll]_muxVars => SlotsMissNothing'
  <2>1. UNCHANGED muxVars => UNCHANGED <<slots, replies, physical, arrived>>
    BY DEF muxVars, vars, companionVars
  <2>2. SlotsMissNothing /\ UNCHANGED muxVars => SlotsMissNothing'
    BY <2>1 DEF SlotsMissNothing, OnItsWay
  <2> QED
    BY <2>2, SlotsStep
<1> QED
  BY <1>1, <1>2, OweInvariant, QueueInvariant, PTL DEF MuxSpec

=============================================================================
