------------------------- MODULE TransactionProofs -------------------------
(***************************************************************************)
(* What a transaction holds while it runs: the lease or the ring entry its *)
(* reply will be recorded in, the whole companion if it is an exclusive    *)
(* one, and, if it is a pop, the free orphan entry and the waits that the  *)
(* answer "no more messages" may end.                                      *)
(*                                                                         *)
(* Sound(e) says so of the record e that a handler computes.  The part     *)
(* about pops is stronger than the property it proves: a wait that began   *)
(* before the running pop carries at most that pop's number, one that      *)
(* began later the next number (CoverIn).  Keeps(e, x) says that a change  *)
(* from e to x touches nothing a transaction holds; Releases(e, x), that   *)
(* the transaction ends with it or goes on to its restoration or result.   *)
(*                                                                         *)
(* The second half is what a client can count on: the direct messages      *)
(* queued for its slot reach it, its commands are answered one by one in   *)
(* their order, and what the broker answers itself never reaches the       *)
(* companion.                                                              *)
(***************************************************************************)
EXTENDS BrokerProofs

UnderWay(tx) == tx.step \in {"setup", "command"}

\* ReservationInFlight
LeaseIn(e) ==
  /\ e.remote.tentative =>
       /\ UnderWay(e.active)
       /\ e.active.command.op = e.remote.kind
       /\ e.remote.kind \in RemoteLease
  /\ UnderWay(e.active) =>
       /\ e.active.command.op \in RemoteLease => e.remote.tentative
       /\ PlainDm(e.active.command) => Available(e.dm_ring)

\* MaintenanceExclusive, without Cardinality
AloneIn(e) ==
  e.active.step # "none" /\ Exclusive(e.active.command) =>
    /\ DOMAIN e.sessions \subseteq {e.active.owner}
    /\ e.uncertain.until # "live"
    /\ e.remote.kind = "none"
    /\ \A i \in RingSlots : e.dm_ring.slots[i].state # "live"
    /\ e.signing.owner = 0

\* OrphanIsFree
OrphanIn(e) ==
  /\ (\E s \in DOMAIN e.sessions : e.sessions[s].slot = 0) => e.orphan = 0
  /\ PopIn(e) /\ e.active.had_multi_client => e.orphan = 0
  /\ e.debt.step = "command" /\ e.debt.owner = 0 /\ e.debt.had_multi_client =>
       e.orphan = 0

CoverIn(e) ==
  /\ \A s \in DOMAIN e.sessions : e.sessions[s].sync <= e.pop_sequence + 1
  /\ PopIn(e) =>
       /\ e.active.pop_sequence = e.pop_sequence
       /\ \A s \in DOMAIN e.sessions :
            e.sessions[s].sync # 0 /\ e.sessions[s].sync <= e.pop_sequence
              => s \in e.active.covers

Sound(e) == LeaseIn(e) /\ AloneIn(e) /\ OrphanIn(e) /\ CoverIn(e)

\* Only a failed epoch has a debt.
NoDebt == ~ failed => debt.step = "none"

TransactionInv == Sound(Now) /\ NoDebt

-----------------------------------------------------------------------------
(* Changes that keep a state sound *)

\* Sessions may leave and stop waiting; nothing else that matters here.
Calm(e, x) ==
  /\ DOMAIN x.sessions \subseteq DOMAIN e.sessions
  /\ \A s \in DOMAIN x.sessions :
       /\ x.sessions[s].slot = e.sessions[s].slot
       /\ x.sessions[s].sync \in {0, e.sessions[s].sync}

\* The same transaction, perhaps gone from setup to command.
SameTransaction(tx, ty) ==
  /\ ty.command = tx.command
  /\ ty.owner = tx.owner
  /\ ty.pop_sequence = tx.pop_sequence
  /\ ty.had_multi_client = tx.had_multi_client
  /\ ty.covers = tx.covers
  /\ \/ ty.step = tx.step
     \/ UnderWay(tx) /\ UnderWay(ty) /\ tx.owner # 0

\* Leases that are not tentative may end, deadlines may pass.
Settles(e, x) ==
  /\ \/ x.remote.kind = e.remote.kind /\ x.remote.tentative = e.remote.tentative
     \/ x.remote.kind = "none" /\ ~ x.remote.tentative /\ ~ e.remote.tentative
  /\ x.dm_ring.next = e.dm_ring.next
  /\ \A i \in RingSlots :
       x.dm_ring.slots[i].state = "live" => e.dm_ring.slots[i].state = "live"
  /\ x.uncertain.until = "live" => e.uncertain.until = "live"
  /\ x.signing.owner \in {0, e.signing.owner}

\* What a pop in flight or never answered relies on.
SameHistory(e, x) ==
  /\ x.pop_sequence = e.pop_sequence
  /\ x.orphan = e.orphan
  /\ x.debt.step = e.debt.step
  /\ x.debt.owner = e.debt.owner
  /\ x.debt.had_multi_client = e.debt.had_multi_client

Keeps(e, x) ==
  /\ Calm(e, x)
  /\ SameTransaction(e.active, x.active)
  /\ Settles(e, x)
  /\ SameHistory(e, x)

\* Such a change keeps a state sound.
LEMMA KeepsSound ==
  ASSUME NEW n \in Nat, NEW e \in State(n), NEW x, Sound(e), Keeps(e, x)
  PROVE  Sound(x)
<1>1. e.dm_ring.next \in RingSlots
  BY DEF State, DmRing
<1>2. LeaseIn(x)
  BY <1>1 DEF Sound, Keeps, LeaseIn, UnderWay, SameTransaction, Settles,
     Available, RemoteLease
<1>3. AloneIn(x)
  BY DEF Sound, Keeps, AloneIn, UnderWay, SameTransaction, Settles, Calm
<1>4. OrphanIn(x)
  BY DEF Sound, Keeps, OrphanIn, UnderWay, SameTransaction, SameHistory, Calm,
     PopIn
<1>5. CoverIn(x)
  <2>1. \A s \in DOMAIN e.sessions : e.sessions[s].sync \in Nat
    BY TableType DEF State, Session
  <2>2. e.pop_sequence \in Nat
    BY DEF State
  <2>3. \A s \in DOMAIN x.sessions : x.sessions[s].sync <= x.pop_sequence + 1
    BY <2>1, <2>2 DEF Sound, CoverIn, Keeps, Calm, SameHistory
  <2>4. PopIn(x) => PopIn(e)
    BY DEF Keeps, SameTransaction, UnderWay, PopIn
  <2> QED
    BY <2>1, <2>2, <2>3, <2>4
       DEF Sound, CoverIn, Keeps, Calm, SameHistory, SameTransaction
<1> QED
  BY <1>2, <1>3, <1>4, <1>5 DEF Sound

\* Changes of this kind can be done one after the other.
LEMMA KeepsTransitive ==
  ASSUME NEW e, NEW x, NEW y, Keeps(e, x), Keeps(x, y)
  PROVE  Keeps(e, y)
<1>1. Calm(e, y)
  BY DEF Keeps, Calm
<1>2. SameTransaction(e.active, y.active)
  BY DEF Keeps, SameTransaction, UnderWay
<1>3. Settles(e, y)
  BY DEF Keeps, Settles
<1>4. SameHistory(e, y)
  BY DEF Keeps, SameHistory
<1> QED
  BY <1>1, <1>2, <1>3, <1>4 DEF Keeps

\* Changes of anything else.
LEMMA UnrelatedKeeps ==
  ASSUME NEW e, NEW x, Calm(e, x), x.active = e.active, x.remote = e.remote,
         x.dm_ring = e.dm_ring, x.uncertain = e.uncertain,
         x.signing = e.signing, x.pop_sequence = e.pop_sequence,
         x.orphan = e.orphan, x.debt = e.debt
  PROVE  Keeps(e, x)
BY DEF Keeps, SameTransaction, Settles, SameHistory

\* The sessions that a handler closed go; nothing else changes that matters.
LEMMA ContinueKeeps ==
  ASSUME NEW n \in Nat, NEW e \in State(n), Continue(e, Survivors(e)),
         pop_sequence' = e.pop_sequence, orphan' = e.orphan,
         dm_ring' = e.dm_ring
  PROVE  Keeps(e, Now')
<1> DEFINE left == Survivors(e)
<1>1. /\ Now'.sessions = sessions' /\ Now'.active = active'
      /\ Now'.remote = remote' /\ Now'.dm_ring = dm_ring'
      /\ Now'.uncertain = uncertain' /\ Now'.signing = signing'
      /\ Now'.pop_sequence = pop_sequence' /\ Now'.orphan = orphan'
      /\ Now'.debt = debt'
  BY DEF Now
<1>2. left \subseteq DOMAIN e.sessions
  BY DEF Survivors
<1>3. sessions' = [s \in left |-> e.sessions[s]]
  BY DEF Continue
<1> HIDE DEF left
<1>4. DOMAIN sessions' = left /\ \A s \in left : sessions'[s] = e.sessions[s]
  BY <1>3
<1>5. Calm(e, Now')
  BY <1>1, <1>2, <1>4 DEF Calm
<1>6. remote'.kind = e.remote.kind /\ remote'.tentative = e.remote.tentative
  <2>1. e.remote \in Remote
    BY DEF State
  <2> QED
    BY <2>1 DEF Continue, RemoteOwnerGone, Remote
<1>7. signing'.owner \in {0, e.signing.owner}
  BY DEF Continue, SigningOwnerGone, NoSigning
<1>8. Settles(e, Now')
  BY <1>1, <1>6, <1>7 DEF Settles, Continue
<1>9. active' = e.active /\ debt' = e.debt
  BY DEF Continue
<1> QED
  BY <1>1, <1>5, <1>8, <1>9 DEF Keeps, SameTransaction, SameHistory

\* fail_epoch: no lease stays tentative, and a pop that was never answered is
\* the debt.
LEMMA FailEpochSound ==
  ASSUME NEW n \in Nat, NEW e \in State(n), Sound(e), FailEpoch(e),
         pop_sequence' = e.pop_sequence, orphan' = e.orphan
  PROVE  Sound(Now')
<1>1. /\ Now'.sessions = sessions' /\ Now'.active = active'
      /\ Now'.remote = remote' /\ Now'.orphan = orphan'
      /\ Now'.debt = debt'
  BY DEF Now
<1>2. DOMAIN sessions' = {} /\ active' = NoTransaction
  BY DEF FailEpoch
<1>3. active'.step = "none"
  BY <1>2 DEF NoTransaction
<1>4. ~ remote'.tentative
  <2>1. e.remote \in Remote
    BY DEF State
  <2>2. /\ ~ NoRemote.tentative
        /\ ~ AcceptanceUnknown(e.remote).tentative
        /\ [e.remote EXCEPT !.owner = 0].tentative = e.remote.tentative
    BY <2>1 DEF NoRemote, AcceptanceUnknown, Remote
  <2>3. e.remote.tentative =>
          UnderWay(e.active) /\ e.active.command.op \in RemoteLease
    BY DEF Sound, LeaseIn
  <2>4. remote' = UncertainRemote(e.active, e.remote)
    BY DEF FailEpoch
  <2> QED
    BY <2>2, <2>3, <2>4 DEF UncertainRemote, UnderWay
<1>5. LeaseIn(Now')
  BY <1>1, <1>3, <1>4 DEF LeaseIn, UnderWay
<1>6. AloneIn(Now')
  BY <1>1, <1>3 DEF AloneIn
<1>7. OrphanIn(Now')
  <2>1. debt' = e.debt \/ debt' = e.active
    BY DEF FailEpoch
  <2>2. debt'.step = "command" /\ debt'.owner = 0 /\ debt'.had_multi_client
          => orphan' = 0
    BY <2>1 DEF Sound, OrphanIn, PopIn
  <2> QED
    BY <1>1, <1>2, <1>3, <2>2 DEF OrphanIn, PopIn
<1>8. CoverIn(Now')
  BY <1>1, <1>2, <1>3 DEF CoverIn, PopIn
<1> QED
  BY <1>5, <1>6, <1>7, <1>8 DEF Sound

\* If what a handler computed is sound, so is the next state.
LEMMA CommitSound ==
  ASSUME NEW n \in Nat, NEW e, e \in State(n), Commit(e), Sound(e),
         ~ failed => e.debt.step = "none"
  PROVE  TransactionInv'
<1>1. NextState(e)
  BY DEF Commit
<1>2. pop_sequence' = e.pop_sequence /\ orphan' = e.orphan
      /\ dm_ring' = e.dm_ring
  BY <1>1 DEF NextState
<1>3. Sound(Now')
  <2>1. CASE EpochEnds(e)
    BY <1>1, <1>2, <2>1, FailEpochSound DEF NextState
  <2>2. CASE ~ EpochEnds(e)
    BY <1>1, <1>2, <2>2, ContinueKeeps, KeepsSound DEF NextState
  <2> QED
    BY <2>1, <2>2
<1>4. NoDebt'
  BY <1>1 DEF NextState, FailEpoch, Continue, NoDebt
<1> QED
  BY <1>3, <1>4 DEF TransactionInv

-----------------------------------------------------------------------------
(* Replies and pushes *)

\* Replacing a session by one in the same slot that does not newly wait.
LEMMA SessionKeeps ==
  ASSUME NEW n \in Nat, NEW e \in State(n), NEW s \in DOMAIN e.sessions,
         NEW session, session.slot = e.sessions[s].slot,
         session.sync \in {0, e.sessions[s].sync}
  PROVE  Keeps(e, [e EXCEPT !.sessions[s] = session])
<1> DEFINE x == [e EXCEPT !.sessions[s] = session]
<1>1. x.sessions = [e.sessions EXCEPT ![s] = session]
  BY DEF State
<1>2. /\ x.active = e.active /\ x.remote = e.remote
      /\ x.dm_ring = e.dm_ring /\ x.uncertain = e.uncertain
      /\ x.signing = e.signing /\ x.pop_sequence = e.pop_sequence
      /\ x.orphan = e.orphan /\ x.debt = e.debt
  BY DEF State
<1> HIDE DEF x
<1>3. Calm(e, x)
  BY <1>1 DEF Calm
<1>4. Keeps(e, x)
  BY <1>2, <1>3, UnrelatedKeeps
<1> QED
  BY <1>4 DEF x

\* The owner's copy of a reply changes only what is written to the owner.
LEMMA ReplyToOwnerKeeps ==
  ASSUME NEW n \in Nat, NEW e \in State(n), NEW f
  PROVE  Keeps(e, ReplyToOwner(e, f))
<1> DEFINE tx == e.active
           owner == e.sessions[tx.owner]
           seen_by == [owner EXCEPT !.version =
             IF tx.command.op = "device_query" /\ f.code = "device_info"
             THEN tx.command.arg ELSE owner.version]
           kind == IF tx.command.op \in Maintenance THEN "result" ELSE "frame"
<1>1. CASE tx.owner \notin DOMAIN e.sessions
  <2>1. ReplyToOwner(e, f) = e
    BY <1>1 DEF ReplyToOwner
  <2> QED
    BY <2>1, UnrelatedKeeps DEF Calm
<1>2. CASE tx.owner \in DOMAIN e.sessions
  <2>1. owner \in Session
    BY <1>2, TableType DEF State
  <2>2. tx.command.arg \in Nat
    BY CommandTypes DEF State, Transactions, Transaction
  <2>3. /\ seen_by \in Session
        /\ seen_by.slot = owner.slot
        /\ seen_by.sync = owner.sync
    BY <2>1, <2>2 DEF Session
  <2>4. PICK session :
          /\ session \in {Reply(seen_by, kind), Emit(seen_by, "frame")}
          /\ ReplyToOwner(e, f) = [e EXCEPT !.sessions[tx.owner] = session]
    BY <1>2 DEF ReplyToOwner
  <2>5. session.slot = owner.slot /\ session.sync = owner.sync
    <3> HIDE DEF seen_by, kind, owner
    <3> QED
      BY <2>3, <2>4, WriteKeeps
  <2> QED
    BY <1>2, <2>4, <2>5, SessionKeeps
<1> QED
  BY <1>1, <1>2

\* The end of a transaction, or of its part that clients see: what it held is
\* released, and what an exclusive one keeps from the others still is.
Releases(e, x) ==
  /\ Calm(e, x)
  /\ SameHistory(e, x)
  /\ ~ x.remote.tentative
  /\ x.active.step \in {"none", "restore", "result"}
  /\ x.active.step # "none" =>
       /\ x.active.command = e.active.command
       /\ x.active.owner = e.active.owner
       /\ x.active.owner # 0
       /\ Exclusive(e.active.command) => Settles(e, x)

LEMMA ReleasesSound ==
  ASSUME NEW n \in Nat, NEW e \in State(n), NEW x, Sound(e), Releases(e, x),
         e.active.step # "none"
  PROVE  Sound(x)
<1>1. ~ UnderWay(x.active) /\ ~ PopIn(x)
  BY DEF Releases, UnderWay, PopIn
<1>2. LeaseIn(x)
  BY <1>1 DEF Releases, LeaseIn
<1>3. AloneIn(x)
  BY DEF Sound, Releases, AloneIn, Settles, Calm
<1>4. OrphanIn(x)
  BY <1>1 DEF Sound, Releases, OrphanIn, SameHistory, Calm
<1>5. CoverIn(x)
  <2>1. \A s \in DOMAIN e.sessions : e.sessions[s].sync \in Nat
    BY TableType DEF State, Session
  <2>2. e.pop_sequence \in Nat
    BY DEF State
  <2> QED
    BY <1>1, <2>1, <2>2 DEF Sound, CoverIn, Releases, Calm, SameHistory
<1> QED
  BY <1>2, <1>3, <1>4, <1>5 DEF Sound

\* Releasing can follow a change that keeps.
LEMMA ReleasesAfter ==
  ASSUME NEW e, NEW x, NEW y, Keeps(e, x), Releases(x, y)
  PROVE  Releases(e, y)
<1>1. Calm(e, y)
  BY DEF Keeps, Releases, Calm
<1>2. SameHistory(e, y)
  BY DEF Keeps, Releases, SameHistory
<1>3. Exclusive(x.active.command) /\ y.active.step # "none" => Settles(e, y)
  BY DEF Keeps, Releases, Settles
<1>4. x.active.command = e.active.command /\ x.active.owner = e.active.owner
  BY DEF Keeps, SameTransaction
<1> QED
  BY <1>1, <1>2, <1>3, <1>4 DEF Releases

\* A client's command that gets its last reply: record_acceptance takes the
\* lease out of its tentative state before the transaction goes on.
LEMMA CompletedReleases ==
  ASSUME NEW n \in Nat, NEW e \in State(n), NEW f \in Frames, Sound(e),
         e.active.step = "command", e.active.owner # 0
  PROVE  Releases(e, AfterCommand(RecordAcceptance(e, e.active.command, f)))
<1> DEFINE tx == e.active
           command == tx.command
           y == RecordAcceptance(e, command, f)
           z == AfterCommand(y)
<1>1. tx \in Transaction /\ command \in Command
  BY DEF State, Transactions, Transaction
<1>2. y \in State(n) /\ y.active = tx
  BY <1>1, RecordAcceptanceType, OwnerKept
<1>3. /\ y.sessions = e.sessions /\ y.pop_sequence = e.pop_sequence
      /\ y.orphan = e.orphan /\ y.debt = e.debt
      /\ y.uncertain = e.uncertain
  BY DEF RecordAcceptance, State
<1>4. ~ y.remote.tentative
  <2>1. CASE command.op \in RemoteLease
    <3>1. ~ PlainDm(command)
      BY <2>1 DEF PlainDm, RemoteLease
    <3>2. e.remote \in Remote
      BY DEF State
    <3>3. ~ NoRemote.tentative /\ ~ RemoteAccepted(e.remote, f.arg).tentative
      BY <3>2 DEF NoRemote, RemoteAccepted, Remote
    <3>4. y.remote \in {NoRemote, RemoteAccepted(e.remote, f.arg)}
      BY <2>1, <3>1 DEF RecordAcceptance, RemoteLease, State
    <3> QED
      BY <3>3, <3>4
  <2>2. CASE command.op \notin RemoteLease
    <3>1. y.remote = e.remote
      BY <2>2 DEF RecordAcceptance, State
    <3>2. e.remote.tentative => command.op \in RemoteLease
      BY DEF Sound, LeaseIn
    <3> QED
      BY <2>2, <3>1, <3>2
  <2> QED
    BY <2>1, <2>2
<1>5. Exclusive(command) => y = e
  BY DEF RecordAcceptance, Exclusive, Maintenance, PlainDm, RemoteLease
<1> HIDE DEF y
<1>6. /\ z.sessions = y.sessions /\ z.pop_sequence = y.pop_sequence
      /\ z.orphan = y.orphan /\ z.debt = y.debt /\ z.remote = y.remote
      /\ z.uncertain = y.uncertain /\ z.dm_ring = y.dm_ring
      /\ z.signing = y.signing
  BY <1>2 DEF AfterCommand, SendUpstream, Finish, State
<1>7. /\ z.active.step \in {"none", "restore", "result"}
      /\ z.active.step # "none" =>
           z.active.command = command /\ z.active.owner = tx.owner
  <2>1. /\ Finish(y).active = NoTransaction
        /\ [y EXCEPT !.active.step = "result"].active
             = [tx EXCEPT !.step = "result"]
        /\ SendUpstream(y, [tx EXCEPT !.step = "restore"],
                        SetScope(DefaultScope)).active
             = [[tx EXCEPT !.step = "restore"] EXCEPT
                  !.write = y.next_write + 1]
    BY <1>2 DEF SendUpstream, Finish, State
  <2>2. z.active \in {NoTransaction, [tx EXCEPT !.step = "result"],
                      [[tx EXCEPT !.step = "restore"] EXCEPT
                         !.write = y.next_write + 1]}
    <3>1. z \in {Finish(y), [y EXCEPT !.active.step = "result"],
                 SendUpstream(y, [tx EXCEPT !.step = "restore"],
                              SetScope(DefaultScope))}
      BY <1>2 DEF AfterCommand
    <3> QED
      BY <2>1, <3>1, Zenon
  <2>3. NoTransaction.step = "none"
    BY DEF NoTransaction
  <2>4. LET ty == [tx EXCEPT !.step = "result"]
        IN ty.step = "result" /\ ty.command = command /\ ty.owner = tx.owner
    BY <1>1 DEF Transaction
  <2>5. LET ty == [[tx EXCEPT !.step = "restore"] EXCEPT
                     !.write = y.next_write + 1]
        IN ty.step = "restore" /\ ty.command = command /\ ty.owner = tx.owner
    BY <1>1 DEF Transaction
  <2> QED
    BY <2>2, <2>3, <2>4, <2>5
<1> HIDE DEF z
<1>8. Calm(e, z)
  BY <1>3, <1>6 DEF Calm
<1>9. Exclusive(command) => Settles(e, z)
  BY <1>5, <1>6 DEF Settles
<1>10. SameHistory(e, z)
  BY <1>3, <1>6 DEF SameHistory
<1>11. Releases(e, z)
  BY <1>4, <1>6, <1>7, <1>8, <1>9, <1>10 DEF Releases
<1> QED
  BY <1>11 DEF z, y

\* Changes of the running transaction that leave it the same transaction.
LEMMA ActiveKeeps ==
  ASSUME NEW n \in Nat, NEW e \in State(n), NEW x,
         SameTransaction(e.active, x.active),
         x.sessions = e.sessions, x.remote = e.remote,
         x.dm_ring = e.dm_ring, x.uncertain = e.uncertain,
         x.signing = e.signing, x.pop_sequence = e.pop_sequence,
         x.orphan = e.orphan, x.debt = e.debt
  PROVE  Keeps(e, x)
BY DEF Keeps, Calm, Settles, SameHistory

\* The end of the epoch is carried out by Commit.
LEMMA FailKeeps ==
  ASSUME NEW n \in Nat, NEW e \in State(n)
  PROVE  Keeps(e, Fail(e))
<1>1. LET x == Fail(e)
      IN /\ x.active = e.active /\ x.sessions = e.sessions
         /\ x.remote = e.remote
         /\ x.dm_ring = e.dm_ring /\ x.uncertain = e.uncertain
         /\ x.signing = e.signing /\ x.pop_sequence = e.pop_sequence
         /\ x.orphan = e.orphan /\ x.debt = e.debt
  BY DEF Fail, State
<1> QED
  BY <1>1, ActiveKeeps DEF SameTransaction

\* A transaction whose command is over holds no tentative lease.
LEMMA FinishReleases ==
  ASSUME NEW n \in Nat, NEW e \in State(n), Sound(e), ~ UnderWay(e.active)
  PROVE  Releases(e, Finish(e))
<1>1. LET x == Finish(e)
      IN /\ x.active = NoTransaction /\ x.sessions = e.sessions
         /\ x.remote = e.remote
         /\ x.pop_sequence = e.pop_sequence
         /\ x.orphan = e.orphan /\ x.debt = e.debt
  BY DEF Finish, State
<1>2. ~ e.remote.tentative
  BY DEF Sound, LeaseIn
<1> QED
  BY <1>1, <1>2 DEF Releases, Calm, SameHistory, NoTransaction

\* transaction_response for a client's command.
LEMMA CommandResponseSound ==
  ASSUME NEW n \in Nat, NEW e \in State(n), NEW f \in Frames, Sound(e),
         e.active.step = "command", e.active.owner # 0
  PROVE  LET x == CommandResponse(e, f) IN Keeps(e, x) \/ Releases(e, x)
<1> DEFINE x == ReplyToOwner(e, f)
           z == [x EXCEPT !.active.contacts_started = TRUE]
<1>1. x \in State(n) /\ x.active = e.active /\ Keeps(e, x)
  BY ReplyToOwnerType, OwnerKept, ReplyToOwnerKeeps
<1> HIDE DEF x
<1>2. Sound(x)
  BY <1>1, KeepsSound
<1>3. Releases(e, AfterCommand(RecordAcceptance(x, e.active.command, f)))
  BY <1>1, <1>2, CompletedReleases, ReleasesAfter
<1>4. Keeps(x, z)
  <2>1. x.active \in Transaction
    BY <1>1 DEF State, Transactions
  <2>2. /\ z.active = [x.active EXCEPT !.contacts_started = TRUE]
        /\ z.sessions = x.sessions /\ z.remote = x.remote
        /\ z.dm_ring = x.dm_ring /\ z.uncertain = x.uncertain
        /\ z.signing = x.signing /\ z.pop_sequence = x.pop_sequence
        /\ z.orphan = x.orphan /\ z.debt = x.debt
    BY <1>1 DEF State
  <2> HIDE DEF z
  <2>3. SameTransaction(x.active, z.active)
    BY <2>1, <2>2 DEF SameTransaction, Transaction
  <2> QED
    BY <1>1, <2>2, <2>3, ActiveKeeps
<1>5. Keeps(e, z)
  BY <1>1, <1>4, KeepsTransitive
<1> QED
  BY <1>3, <1>5 DEF CommandResponse, x

\* scope_response.
LEMMA ScopeResponseSound ==
  ASSUME NEW n \in Nat, NEW e \in State(n), NEW f, Sound(e),
         e.active.step \in {"setup", "restore"}, e.active.owner # 0
  PROVE  LET x == ScopeResponse(e, f) IN Keeps(e, x) \/ Releases(e, x)
<1> DEFINE tx == e.active
           refused == IF tx.owner \in DOMAIN e.sessions
                      THEN [e EXCEPT !.sessions[tx.owner] =
                              Reply(e.sessions[tx.owner], "frame")]
                      ELSE e
           remote_left == IF tx.command.op \in RemoteLease
                          THEN NoRemote ELSE e.remote
           dropped == Finish([refused EXCEPT !.remote = remote_left])
<1>1. tx \in Transaction
  BY DEF State, Transactions
<1>2. CASE tx.step = "setup"
  <2>1. Keeps(e, SendCommand(e, tx))
    <3> DEFINE x == SendCommand(e, tx)
    <3>1. /\ x.active = [[tx EXCEPT !.step = "command"] EXCEPT
                           !.write = e.next_write + 1]
          /\ x.sessions = e.sessions /\ x.remote = e.remote
          /\ x.dm_ring = e.dm_ring /\ x.uncertain = e.uncertain
          /\ x.signing = e.signing /\ x.pop_sequence = e.pop_sequence
          /\ x.orphan = e.orphan /\ x.debt = e.debt
      BY DEF SendCommand, SendUpstream, State
    <3> HIDE DEF x
    <3>2. SameTransaction(tx, x.active)
      BY <1>1, <1>2, <3>1 DEF SameTransaction, UnderWay, Transaction
    <3>3. Keeps(e, x)
      BY <3>1, <3>2, ActiveKeeps
    <3> QED
      BY <3>3 DEF x
  <2>2. Keeps(e, refused) /\ refused \in State(n) /\ refused.active = tx
    <3>1. CASE tx.owner \in DOMAIN e.sessions
      <4>1. e.sessions[tx.owner] \in Session
        BY <3>1, TableType DEF State
      <4>2. Reply(e.sessions[tx.owner], "frame") \in Session
        BY <4>1, ReplyType DEF WriteKinds
      <4>3. refused \in State(n)
        BY <3>1, <4>2, UpdateSession
      <4>4. Keeps(e, refused)
        BY <3>1, <4>1, SessionKeeps, WriteKeeps
      <4>5. refused.active = tx
        BY <3>1 DEF State
      <4> QED
        BY <4>3, <4>4, <4>5
    <3>2. CASE tx.owner \notin DOMAIN e.sessions
      BY <3>2, UnrelatedKeeps DEF Calm
    <3> QED
      BY <3>1, <3>2
  <2> HIDE DEF refused
  <2>3. Releases(refused, dropped)
    <3>1. /\ dropped.active = NoTransaction
          /\ dropped.sessions = refused.sessions
          /\ dropped.pop_sequence = refused.pop_sequence
          /\ dropped.orphan = refused.orphan /\ dropped.debt = refused.debt
          /\ dropped.remote = remote_left
      BY <2>2 DEF Finish, State
    <3>2. ~ remote_left.tentative
      <4>1. e.remote.tentative => tx.command.op \in RemoteLease
        BY DEF Sound, LeaseIn
      <4>2. ~ NoRemote.tentative
        BY DEF NoRemote
      <4> QED
        BY <4>1, <4>2
    <3>3. NoTransaction.step = "none"
      BY DEF NoTransaction
    <3> HIDE DEF dropped, remote_left
    <3> QED
      BY <3>1, <3>2, <3>3 DEF Releases, Calm, SameHistory
  <2>4. Releases(e, dropped)
    BY <2>2, <2>3, ReleasesAfter
  <2>5. Keeps(e, Fail(e))
    BY FailKeeps
  <2> QED
    BY <1>2, <2>1, <2>4, <2>5 DEF ScopeResponse, refused
<1>3. CASE tx.step = "restore"
  <2>1. Releases(e, Finish(e))
    BY <1>3, FinishReleases DEF UnderWay
  <2>2. Keeps(e, Fail(e))
    BY FailKeeps
  <2> QED
    BY <1>3, <2>1, <2>2 DEF ScopeResponse
<1> QED
  BY <1>2, <1>3

-----------------------------------------------------------------------------
(* pop_result *)

ItemKinds == {"item", "legacy_item"}

\* An item for a session: it stays where it is, and if its wait ends then
\* with the item.
Receives(session, x) ==
  /\ x.slot = session.slot
  /\ x.sync \in {0, session.sync}
  /\ session.sync # 0 /\ x.sync = 0 =>
       \E kind \in ItemKinds : x.writes = Append(session.writes, kind)

LEMMA FanOutAttachedReceives ==
  ASSUME NEW n \in Nat, NEW e \in State(n), NEW s \in DOMAIN e.sessions
  PROVE  Receives(e.sessions[s], FanOutAttached(e, s))
<1> DEFINE session == e.sessions[s]
           answered == [DeliverSlot(session) EXCEPT !.sync = 0]
<1>1. session \in Session
  BY TableType DEF State
<1>2. DeliverSlot(session) \in Session
      /\ DeliverSlot(session).slot = session.slot
      /\ DeliverSlot(session).writes
           = Append(session.writes, Layout(session.version))
  BY <1>1, DeliverSlotType, WriteKeeps DEF DeliverSlot, Reply, Emit, Session
<1>3. answered.slot = session.slot /\ answered.sync = 0
      /\ answered.writes = Append(session.writes, Layout(session.version))
  BY <1>2 DEF Session
<1>4. Layout(session.version) \in ItemKinds
  BY DEF Layout, ItemKinds
<1>5. Hint(session).slot = session.slot /\ Hint(session).sync = session.sync
  BY <1>1, WriteKeeps
<1> HIDE DEF answered
<1>6. FanOutAttached(e, s) \in {session, answered, Hint(session)}
  BY DEF FanOutAttached, answered
<1>7. Receives(session, answered)
  BY <1>3, <1>4 DEF Receives
<1>8. Receives(session, session) /\ Receives(session, Hint(session))
  BY <1>5 DEF Receives
<1> QED
  BY <1>6, <1>7, <1>8

LEMMA EnqueueMultiClientReceives ==
  ASSUME NEW session \in Session, NEW item \in Items
  PROVE  Receives(session, EnqueueMultiClient(session, item))
<1> DEFINE filled == [session EXCEPT !.inbox = Append(session.inbox, item)]
           answered == [filled EXCEPT !.sync = 0]
<1>1. Append(session.inbox, item) \in Seq(Items)
  BY DEF Session
<1>2. answered \in Session /\ answered.writes = session.writes
  BY <1>1 DEF Session
<1>3. EnqueueMultiClient(session, item).slot = session.slot
      /\ EnqueueMultiClient(session, item).sync = 0
  BY EnqueueMultiClientKeeps
<1> HIDE DEF answered
<1>4. Layout(answered.version) \in ItemKinds
  BY DEF Layout, ItemKinds
<1>5. Reply(answered, Layout(answered.version)) \in Session
  BY <1>2, <1>4, ReplyType DEF ItemKinds, WriteKinds
<1>6. Reply(answered, Layout(answered.version)).writes
        = Append(session.writes, Layout(answered.version))
  BY <1>2 DEF Reply, Emit, Session
<1>7. DeliverInbox(answered).writes
        = Append(session.writes, Layout(answered.version))
  BY <1>5, <1>6 DEF DeliverInbox, Session
<1>8. session.sync # 0 =>
        EnqueueMultiClient(session, item) = DeliverInbox(answered)
  BY DEF EnqueueMultiClient, answered
<1> QED
  BY <1>3, <1>4, <1>7, <1>8 DEF Receives

\* A pop's result ends waits and nothing else, and leaves an orphan only when
\* nobody without a slot is left to take it.
PopEffect(e, x) ==
  /\ Calm(e, x)
  /\ x.active = e.active /\ x.remote = e.remote
  /\ x.dm_ring = e.dm_ring /\ x.uncertain = e.uncertain
  /\ x.signing = e.signing /\ x.pop_sequence = e.pop_sequence
  /\ x.debt = e.debt
  /\ \/ x.orphan = e.orphan
     \/ \A s \in DOMAIN x.sessions : x.sessions[s].slot # 0

LEMMA PopEffectSound ==
  ASSUME NEW n \in Nat, NEW e \in State(n), NEW x, Sound(e), PopEffect(e, x),
         e.active.step = "none", e.debt.step = "none"
  PROVE  Sound(x)
<1>1. LeaseIn(x) /\ AloneIn(x)
  BY DEF Sound, PopEffect, LeaseIn, AloneIn, UnderWay
<1>2. OrphanIn(x)
  BY DEF Sound, PopEffect, OrphanIn, PopIn, Calm
<1>3. CoverIn(x)
  <2>1. \A s \in DOMAIN e.sessions : e.sessions[s].sync \in Nat
    BY TableType DEF State, Session
  <2>2. e.pop_sequence \in Nat
    BY DEF State
  <2> QED
    BY <2>1, <2>2 DEF Sound, PopEffect, CoverIn, PopIn, Calm
<1> QED
  BY <1>1, <1>2, <1>3 DEF Sound

\* What a wait that ends with a pop's result is answered with: the item, or
\* "no more messages" if it began before the pop.
AnswersWaits(e, tx, x) ==
  \A s \in DOMAIN x.sessions :
    e.sessions[s].sync # 0 /\ x.sessions[s].sync = 0 =>
      \/ e.sessions[s].sync <= tx.pop_sequence
      \/ \E kind \in ItemKinds :
           x.sessions[s].writes = Append(e.sessions[s].writes, kind)

LEMMA NoMoreMessagesEffect ==
  ASSUME NEW n \in Nat, NEW e \in State(n), NEW tx
  PROVE  LET x == NoMoreMessages(e, tx)
         IN PopEffect(e, x) /\ AnswersWaits(e, tx, x)
<1> DEFINE x == NoMoreMessages(e, tx)
<1>1. \A s \in DOMAIN e.sessions : e.sessions[s] \in Session
  BY TableType DEF State
<1>2. /\ DOMAIN x.sessions = DOMAIN e.sessions
      /\ \A s \in DOMAIN e.sessions : x.sessions[s] =
           IF s \in CoveredWaits(e, tx)
           THEN [Reply(e.sessions[s], "frame") EXCEPT !.sync = 0]
           ELSE e.sessions[s]
      /\ x.active = e.active /\ x.remote = e.remote
      /\ x.dm_ring = e.dm_ring /\ x.uncertain = e.uncertain
      /\ x.signing = e.signing /\ x.pop_sequence = e.pop_sequence
      /\ x.debt = e.debt /\ x.orphan = e.orphan
  BY DEF NoMoreMessages, State
<1> HIDE DEF x
<1>3. Calm(e, x)
  BY <1>1, <1>2, AnsweredKeeps DEF Calm
<1>4. AnswersWaits(e, tx, x)
  BY <1>2 DEF AnswersWaits, CoveredWaits
<1> QED
  BY <1>2, <1>3, <1>4 DEF PopEffect, x

LEMMA FanOutEffect ==
  ASSUME NEW n \in Nat, NEW e \in State(n), NEW tx, NEW item \in Items
  PROVE  LET x == FanOut(e, tx, item)
         IN PopEffect(e, x) /\ AnswersWaits(e, tx, x)
<1> DEFINE x == FanOut(e, tx, item)
<1>1. \A s \in DOMAIN e.sessions : e.sessions[s] \in Session
  BY TableType DEF State
<1>2. /\ DOMAIN x.sessions = DOMAIN e.sessions
      /\ \A s \in DOMAIN e.sessions : x.sessions[s] =
           CASE e.sessions[s].slot # 0 -> FanOutAttached(e, s)
             [] e.sessions[s].slot = 0 /\ ~ InboxFull(e.sessions[s]) ->
                  EnqueueMultiClient(e.sessions[s], item)
             [] OTHER -> e.sessions[s]
      /\ x.active = e.active /\ x.remote = e.remote
      /\ x.dm_ring = e.dm_ring /\ x.uncertain = e.uncertain
      /\ x.signing = e.signing /\ x.pop_sequence = e.pop_sequence
      /\ x.debt = e.debt
      /\ x.orphan = IF Orphaned(e, tx) THEN item ELSE e.orphan
  BY DEF FanOut, State
<1> HIDE DEF x
<1>3. ASSUME NEW s \in DOMAIN e.sessions
      PROVE  Receives(e.sessions[s], x.sessions[s])
  <2>1. Receives(e.sessions[s], e.sessions[s])
    BY DEF Receives
  <2> QED
    BY <1>1, <1>2, <2>1, FanOutAttachedReceives, EnqueueMultiClientReceives
<1>4. Calm(e, x)
  BY <1>2, <1>3 DEF Calm, Receives
<1>5. AnswersWaits(e, tx, x)
  BY <1>2, <1>3 DEF AnswersWaits, Receives
<1>6. x.orphan = e.orphan \/ \A s \in DOMAIN x.sessions : x.sessions[s].slot # 0
  BY <1>2, <1>3 DEF Orphaned, Receives
<1> QED
  BY <1>2, <1>4, <1>5, <1>6 DEF PopEffect, x

LEMMA PopResultEffect ==
  ASSUME NEW n \in Nat, NEW e \in State(n), NEW tx, NEW f \in Frames,
         f.code \in {"message", "no_more_messages"}
  PROVE  LET x == PopResult(e, tx, f)
         IN PopEffect(e, x) /\ AnswersWaits(e, tx, x)
<1> DEFINE again == [e EXCEPT !.drain.requested = e.drain.authorized]
<1>1. PopEffect(e, again) /\ AnswersWaits(e, tx, again)
  <2>1. /\ again.sessions = e.sessions
        /\ again.active = e.active /\ again.remote = e.remote
        /\ again.dm_ring = e.dm_ring /\ again.uncertain = e.uncertain
        /\ again.signing = e.signing /\ again.pop_sequence = e.pop_sequence
        /\ again.debt = e.debt /\ again.orphan = e.orphan
    BY DEF State
  <2> HIDE DEF again
  <2> QED
    BY <2>1 DEF PopEffect, Calm, AnswersWaits
<1>2. f.code # "no_more_messages" => f.arg \in Items
  BY FrameType
<1> HIDE DEF again
<1> QED
  BY <1>1, <1>2, NoMoreMessagesEffect, FanOutEffect DEF PopResult, again

-----------------------------------------------------------------------------
(* transaction_response and push *)

\* What every handler starts from.
LEMMA NowSound ==
  ASSUME TypeInv, TransactionInv
  PROVE  /\ next_session \in Nat
         /\ Now \in State(next_session)
         /\ Sound(Now)
         /\ Now.sessions = sessions /\ Now.active = active
         /\ Now.remote = remote /\ Now.dm_ring = dm_ring
         /\ Now.uncertain = uncertain /\ Now.signing = signing
         /\ Now.pop_sequence = pop_sequence /\ Now.orphan = orphan
         /\ Now.debt = debt
  BY NowType DEF TypeInv, TypeOK, Now, TransactionInv

\* The reply shows that the command was written.
LEMMA WriteIsOverKeeps ==
  ASSUME TypeInv, TransactionInv
  PROVE  /\ WriteIsOver \in State(next_session)
         /\ WriteIsOver.active = [active EXCEPT !.write = 0]
         /\ Keeps(Now, WriteIsOver)
<1> DEFINE e == WriteIsOver
<1>1. active \in Transaction /\ PopShape(active)
  BY DEF TypeInv, TypeOK
<1>2. [active EXCEPT !.write = 0] \in Transactions
  BY <1>1 DEF Transactions, Transaction, PopShape
<1>3. upstream_writes \ {active.write} \in SUBSET Nat
  BY DEF TypeInv, TypeOK
<1>4. e \in State(next_session)
  BY <1>2, <1>3, NowSound DEF State, Now, WriteIsOver
<1>5. /\ e.active = [active EXCEPT !.write = 0]
      /\ e.sessions = sessions /\ e.remote = remote
      /\ e.dm_ring = dm_ring /\ e.uncertain = uncertain
      /\ e.signing = signing /\ e.pop_sequence = pop_sequence
      /\ e.orphan = orphan /\ e.debt = debt
  BY DEF WriteIsOver, Now
<1> HIDE DEF e
<1>6. SameTransaction(active, e.active)
  BY <1>1, <1>5 DEF SameTransaction, Transaction
<1>7. Keeps(Now, e)
  BY <1>5, <1>6, NowSound, ActiveKeeps
<1> QED
  BY <1>4, <1>5, <1>7 DEF e

LEMMA TransactionResponseSound ==
  ASSUME TypeInv, TransactionInv, ~ failed, NEW f \in Frames
  PROVE  LET x == TransactionResponse(f)
         IN Sound(x) /\ x.debt.step = "none"
<1> DEFINE n == next_session
           e == WriteIsOver
<1>1. n \in Nat /\ e \in State(n) /\ Keeps(Now, e) /\ Sound(e)
  BY NowSound, WriteIsOverKeeps, KeepsSound
<1>2. active \in Transaction /\ PopShape(active)
  BY DEF TypeInv, TypeOK
<1>3. e.active.step = active.step /\ e.active.owner = active.owner
      /\ e.active.command = active.command
  BY <1>2, WriteIsOverKeeps DEF Transaction
<1>4. e.debt.step = "none"
  BY <1>1, NowSound DEF Keeps, SameHistory, TransactionInv, NoDebt
<1> HIDE DEF e, n
<1>5. Sound(Fail(e)) /\ Fail(e).debt.step = "none"
  <2>1. Keeps(e, Fail(e))
    BY <1>1, FailKeeps
  <2> QED
    BY <1>1, <1>4, <2>1, KeepsSound DEF Keeps, SameHistory
<1>6. ASSUME NEW x, Keeps(e, x) \/ Releases(e, x), active.step # "none"
      PROVE  Sound(x) /\ x.debt.step = "none"
  BY <1>1, <1>3, <1>4, <1>6, KeepsSound, ReleasesSound
     DEF Keeps, Releases, SameHistory
<1>7. CASE active.step \in {"setup", "restore"}
  <2>1. active.owner # 0
    BY <1>2, <1>7 DEF PopShape
  <2>2. LET x == ScopeResponse(e, f) IN Keeps(e, x) \/ Releases(e, x)
    BY <1>1, <1>3, <1>7, <2>1, ScopeResponseSound
  <2>3. TransactionResponse(f) = ScopeResponse(e, f)
    BY <1>7 DEF TransactionResponse, e
  <2> QED
    BY <1>6, <1>7, <2>2, <2>3
<1>8. CASE active.step = "command" /\ active.owner = 0
  <2>1. active.command = Sync /\ active.contacts_started \in BOOLEAN
    BY <1>2, <1>8 DEF PopShape, Transaction
  <2>2. ValidResponse(active.command, active.contacts_started, f)
          => f.code \in {"err", "message", "no_more_messages"}
    BY <2>1, SyncReplies
  <2>3. Finish(e) \in State(n)
    BY <1>1, FinishType
  <2>4. ~ e.remote.tentative
    BY <1>1, <1>3, <2>1 DEF Sound, LeaseIn, Sync, RemoteLease
  <2>5. Releases(e, Finish(e)) /\ Finish(e).active = NoTransaction
    <3>1. LET x == Finish(e)
          IN /\ x.active = NoTransaction /\ x.sessions = e.sessions
             /\ x.remote = e.remote
             /\ x.pop_sequence = e.pop_sequence
             /\ x.orphan = e.orphan /\ x.debt = e.debt
      BY <1>1 DEF Finish, State
    <3> QED
      BY <2>4, <3>1 DEF Releases, Calm, SameHistory, NoTransaction
  <2>6. /\ Sound(Finish(e)) /\ Finish(e).debt.step = "none"
        /\ Finish(e).active.step = "none"
    BY <1>6, <1>8, <2>5 DEF NoTransaction
  <2>7. f.code \in {"message", "no_more_messages"} =>
          LET x == PopResult(Finish(e), active, f)
          IN Sound(x) /\ x.debt.step = "none"
    <3> HAVE f.code \in {"message", "no_more_messages"}
    <3>1. PopEffect(Finish(e), PopResult(Finish(e), active, f))
      BY <1>1, <2>3, PopResultEffect
    <3> QED
      BY <1>1, <2>3, <2>6, <3>1, PopEffectSound DEF PopEffect
  <2>8. TransactionResponse(f) \in {Fail(e), PopResult(Finish(e), active, f)}
        /\ (TransactionResponse(f) # Fail(e) =>
              f.code \in {"message", "no_more_messages"})
    BY <1>8, <2>2 DEF TransactionResponse, e
  <2> QED
    BY <1>5, <2>7, <2>8
<1>9. CASE active.step = "command" /\ active.owner # 0
  <2>1. LET x == CommandResponse(e, f) IN Keeps(e, x) \/ Releases(e, x)
    BY <1>1, <1>3, <1>9, CommandResponseSound
  <2>2. TransactionResponse(f) \in {Fail(e), CommandResponse(e, f)}
    BY <1>9 DEF TransactionResponse, e
  <2> QED
    BY <1>5, <1>6, <1>9, <2>1, <2>2
<1>10. CASE active.step \in {"none", "result"}
  <2>1. TransactionResponse(f) = Fail(e)
    BY <1>10 DEF TransactionResponse, e
  <2> QED
    BY <1>5, <2>1
<1> QED
  BY <1>2, <1>7, <1>8, <1>9, <1>10 DEF Transaction, Steps

\* Frames written to every session.
LEMMA TableKeeps ==
  ASSUME TypeInv, TransactionInv, NEW x,
         x.sessions \in {sessions, EmitAll(sessions, "frame"),
                         HintAll(sessions)},
         x.active = active, x.remote = remote,
         x.dm_ring = dm_ring, x.uncertain = uncertain,
         x.signing = signing, x.pop_sequence = pop_sequence,
         x.orphan = orphan, x.debt = debt
  PROVE  Keeps(Now, x)
<1>1. \A s \in DOMAIN sessions : sessions[s] \in Session
  BY DEF TypeInv, TypeOK
<1>2. /\ DOMAIN EmitAll(sessions, "frame") = DOMAIN sessions
      /\ DOMAIN HintAll(sessions) = DOMAIN sessions
      /\ \A s \in DOMAIN sessions :
           /\ EmitAll(sessions, "frame")[s] = Emit(sessions[s], "frame")
           /\ HintAll(sessions)[s] = Hint(sessions[s])
  BY DEF EmitAll, HintAll
<1>3. Calm(Now, x)
  BY <1>1, <1>2, NowSound, WriteKeeps DEF Calm
<1> QED
  BY <1>3, NowSound, UnrelatedKeeps

\* A push that does not answer the running command keeps what that holds; the
\* result of a remote request ends a lease that is not tentative.
LEMMA PushKeeps ==
  ASSUME TypeInv, TransactionInv, NEW f \in Frames, ~ AnswersSelfTelemetry(f)
  PROVE  Keeps(Now, Push(f))
<1>1. Keeps(Now, AvailabilityHint)
  <2>1. LET x == AvailabilityHint
        IN /\ x.sessions = HintAll(sessions)
           /\ x.active = active /\ x.remote = remote
           /\ x.dm_ring = dm_ring /\ x.uncertain = uncertain
           /\ x.signing = signing /\ x.pop_sequence = pop_sequence
           /\ x.orphan = orphan /\ x.debt = debt
    BY DEF AvailabilityHint, Now
  <2> QED
    BY <2>1, TableKeeps
<1>2. Keeps(Now, [Now EXCEPT !.sessions = EmitAll(sessions, "frame")])
  <2> DEFINE x == [Now EXCEPT !.sessions = EmitAll(sessions, "frame")]
  <2>1. /\ x.sessions = EmitAll(sessions, "frame")
        /\ x.active = active /\ x.remote = remote
        /\ x.dm_ring = dm_ring /\ x.uncertain = uncertain
        /\ x.signing = signing /\ x.pop_sequence = pop_sequence
        /\ x.orphan = orphan /\ x.debt = debt
    BY DEF Now
  <2> HIDE DEF x
  <2>2. Keeps(Now, x)
    BY <2>1, TableKeeps
  <2> QED
    BY <2>2 DEF x
<1>3. Keeps(Now, [Now EXCEPT !.dm_ring = DmConfirm(dm_ring, f.arg),
                             !.sessions = EmitAll(sessions, "frame")])
  <2> DEFINE x == [Now EXCEPT !.sessions = EmitAll(sessions, "frame")]
             y == [Now EXCEPT !.dm_ring = DmConfirm(dm_ring, f.arg),
                              !.sessions = EmitAll(sessions, "frame")]
  <2>1. /\ y.sessions = x.sessions /\ y.active = x.active
        /\ y.remote = x.remote /\ y.uncertain = x.uncertain
        /\ y.signing = x.signing /\ y.pop_sequence = x.pop_sequence
        /\ y.orphan = x.orphan /\ y.debt = x.debt
        /\ y.dm_ring = DmConfirm(dm_ring, f.arg) /\ x.dm_ring = dm_ring
    BY DEF Now
  <2>2. /\ y.dm_ring.next = x.dm_ring.next
        /\ \A i \in RingSlots : y.dm_ring.slots[i].state = "live" =>
             x.dm_ring.slots[i].state = "live"
    <3>1. dm_ring \in DmRing
      BY DEF TypeInv, TypeOK
    <3>2. \A i \in RingSlots : dm_ring.slots[i] \in Entry
      BY <3>1 DEF DmRing
    <3>3. DmConfirm(dm_ring, f.arg).next = dm_ring.next
      BY <3>1 DEF DmConfirm, DmRing
    <3>4. \A i \in RingSlots :
            DmConfirm(dm_ring, f.arg).slots[i].state = "live" =>
              dm_ring.slots[i].state = "live"
      BY <3>1, <3>2 DEF DmConfirm, DmRing, Entry
    <3> QED
      BY <2>1, <3>3, <3>4
  <2> HIDE DEF x, y
  <2>3. Keeps(x, y)
    BY <2>1, <2>2 DEF Keeps, Calm, SameTransaction, Settles, SameHistory
  <2> QED
    BY <1>2, <2>3, KeepsTransitive DEF x, y
<1>4. Keeps(Now, RemoteResult(f))
  <2> DEFINE x == [Now EXCEPT !.remote = NoRemote]
  <2>1. x \in State(next_session) /\ x.sessions = sessions
    BY NowSound, LeaseTypes DEF State, Now
  <2>2. RemoteMatches(remote, f) => Keeps(Now, x)
    <3>1. RemoteMatches(remote, f) => ~ remote.tentative
      BY DEF RemoteMatches
    <3>2. /\ x.remote.kind = "none" /\ ~ x.remote.tentative
          /\ x.sessions = sessions /\ x.active = active
          /\ x.dm_ring = dm_ring /\ x.uncertain = uncertain
          /\ x.signing = signing /\ x.pop_sequence = pop_sequence
          /\ x.orphan = orphan /\ x.debt = debt
      BY DEF Now, NoRemote
    <3> HIDE DEF x
    <3> QED
      BY <3>1, <3>2, NowSound
         DEF Keeps, Calm, SameTransaction, Settles, SameHistory
  <2>3. ASSUME NEW s \in DOMAIN sessions
        PROVE  Keeps(x, [x EXCEPT !.sessions[s] = Emit(sessions[s], "frame")])
    <3>1. sessions[s] \in Session
      BY DEF TypeInv, TypeOK
    <3> HIDE DEF x
    <3> QED
      BY <2>1, <3>1, NowSound, WriteKeeps, SessionKeeps
  <2>4. \A s : [x EXCEPT !.sessions[s] = Emit(sessions[s], "frame")]
              = [Now EXCEPT !.remote = NoRemote,
                            !.sessions[s] = Emit(sessions[s], "frame")]
    BY DEF x
  <2>5. Keeps(Now, Now)
    BY NowSound, UnrelatedKeeps DEF Calm
  <2> HIDE DEF x
  <2>6. CASE ~ RemoteMatches(remote, f)
    BY <2>5, <2>6 DEF RemoteResult
  <2>7. CASE RemoteMatches(remote, f) /\ remote.owner \in DOMAIN sessions
    <3>1. RemoteResult(f) = [x EXCEPT !.sessions[remote.owner] =
                               Emit(sessions[remote.owner], "frame")]
      BY <2>4, <2>7 DEF RemoteResult
    <3> QED
      BY <2>2, <2>3, <2>7, <3>1, KeepsTransitive
  <2>8. CASE RemoteMatches(remote, f) /\ remote.owner \notin DOMAIN sessions
    BY <2>2, <2>8 DEF RemoteResult, x
  <2> QED
    BY <2>6, <2>7, <2>8
<1> QED
  BY <1>1, <1>2, <1>3, <1>4 DEF Push

LEMMA PushSound ==
  ASSUME TypeInv, TransactionInv, ~ failed, NEW f \in Frames
  PROVE  LET x == Push(f) IN Sound(x) /\ x.debt.step = "none"
<1>1. CASE AnswersSelfTelemetry(f)
  <2>1. Push(f) = TransactionResponse(f)
    BY <1>1 DEF Push, AnswersSelfTelemetry, RemotePushes
  <2> QED
    BY <2>1, TransactionResponseSound
<1>2. CASE ~ AnswersSelfTelemetry(f)
  BY <1>2, PushKeeps, NowSound, KeepsSound
     DEF Keeps, SameHistory, TransactionInv, NoDebt
<1> QED
  BY <1>1, <1>2

-----------------------------------------------------------------------------
(* One lemma per handler *)

\* A handler whose result is sound keeps the invariant.
LEMMA HandlerSound ==
  ASSUME NEW n \in Nat, NEW e, e \in State(n), CommitAndSchedule(e),
         Sound(e), e.debt.step = "none"
  PROVE  TransactionInv'
BY CommitSound DEF CommitAndSchedule

\* So does one that keeps what the transaction holds.
LEMMA KeepingHandler ==
  ASSUME TypeInv, TransactionInv, AtRest, NEW e, e \in State(next_session),
         CommitAndSchedule(e), Keeps(Now, e)
  PROVE  TransactionInv'
<1>1. debt.step = "none"
  BY DEF AtRest, TransactionInv, NoDebt
<1>2. Sound(e) /\ e.debt.step = "none"
  BY <1>1, NowSound, KeepsSound DEF Keeps, SameHistory
<1> QED
  BY <1>2, NowSound, HandlerSound

\* Closing sessions takes effect in Commit only.
LEMMA ClosingKeeps ==
  ASSUME TypeInv, TransactionInv, NEW gone \in SUBSET Nat
  PROVE  /\ [Now EXCEPT !.closed = gone] \in State(next_session)
         /\ Keeps(Now, [Now EXCEPT !.closed = gone])
<1> DEFINE x == [Now EXCEPT !.closed = gone]
<1>1. x \in State(next_session)
  BY NowSound, SmallChanges
<1>2. /\ x.sessions = sessions /\ x.active = active /\ x.remote = remote
      /\ x.dm_ring = dm_ring /\ x.uncertain = uncertain
      /\ x.signing = signing /\ x.pop_sequence = pop_sequence
      /\ x.orphan = orphan /\ x.debt = debt
  BY DEF Now
<1> HIDE DEF x
<1>3. Keeps(Now, x)
  BY <1>2, TableKeeps
<1> QED
  BY <1>1, <1>3 DEF x

\* Every handler that only ends the epoch.
LEMMA EpochEndSound ==
  ASSUME TypeInv, TransactionInv, AtRest, CommitAndSchedule(Fail(Now))
  PROVE  TransactionInv'
<1>1. Fail(Now) \in State(next_session) /\ Keeps(Now, Fail(Now))
  BY NowSound, FinishType, FailKeeps
<1> QED
  BY <1>1, KeepingHandler

\* admit: a session without a slot takes the orphan, and nobody is admitted
\* during maintenance.
LEMMA AdmitSound ==
  ASSUME TypeInv, TransactionInv, NEW d \in Slots \cup {0}, Admit(d)
  PROVE  TransactionInv'
<1> DEFINE id == next_session + 1
           old == IF d = 0 THEN 0 ELSE slots[d].attached
           others == DOMAIN sessions \ {old}
           given == IF TakesOrphan(d) THEN <<orphan>> ELSE <<>>
           new == Hint([NewSession(d) EXCEPT !.inbox = given])
           table == [s \in others \cup {id} |->
                       IF s = id THEN new ELSE sessions[s]]
           attached == [x \in Slots |->
                          IF x = d THEN [slots[x] EXCEPT !.attached = id]
                          ELSE slots[x]]
           e == [Now EXCEPT
                   !.sessions = table,
                   !.order = Append(order, id),
                   !.slots = attached,
                   !.orphan = IF TakesOrphan(d) THEN 0 ELSE orphan,
                   !.drain = IF others = {} THEN NoDrain ELSE drain]
<1>1. CASE InMaintenance(active)
  <2>1. Now' = Now /\ UNCHANGED <<failed, debt>>
    BY <1>1 DEF Admit, Now
  <2> QED
    BY <2>1 DEF TransactionInv, NoDebt
<1>2. CASE ~ InMaintenance(active)
  <2>1. id \in Nat /\ id \notin DOMAIN sessions
        /\ 1 .. next_session \subseteq 1 .. id /\ id \in 1 .. id
    BY DEF TypeInv, TypeOK
  <2>2. given \in Seq(Items)
    BY DEF TakesOrphan, TypeInv, TypeOK
  <2>3. new \in Session /\ new.slot = d /\ new.sync = 0
    <3> HIDE DEF given
    <3>1. NewSession(d) \in Session /\ NewSession(d).slot = d
          /\ NewSession(d).sync = 0
      BY NewSessionType DEF NewSession
    <3>2. \A session \in Session :
            LET x == [session EXCEPT !.inbox = given]
            IN /\ x \in Session /\ x.slot = session.slot
               /\ x.sync = session.sync
      BY <2>2 DEF Session
    <3> QED
      BY <3>1, <3>2, HintType, WriteKeeps
  <2>4. /\ e.sessions = table /\ e.active = active /\ e.remote = remote
        /\ e.dm_ring = dm_ring /\ e.uncertain = uncertain
        /\ e.signing = signing /\ e.pop_sequence = pop_sequence
        /\ e.orphan = (IF TakesOrphan(d) THEN 0 ELSE orphan)
        /\ e.debt = debt
    BY DEF Now
  <2>5. /\ DOMAIN table = others \cup {id}
        /\ table[id] = new
        /\ \A s \in others : table[s] = sessions[s]
    BY <2>1
  <2>6. e \in State(id)
    <3>1. table \in SessionTables(id)
      <4>1. DOMAIN table \subseteq 1 .. id
        BY <2>1, <2>5 DEF TypeInv, TypeOK
      <4>2. \A s \in DOMAIN table : table[s] \in Session
        BY <2>3, <2>5 DEF TypeInv, TypeOK
      <4> QED
        BY <2>1, <4>1, <4>2, TableType
    <3>2. attached \in [Slots -> Slot]
      BY <2>1 DEF TypeInv, TypeOK, Slot
    <3>3. Append(order, id) \in Seq(Nat)
      BY <2>1 DEF TypeInv, TypeOK
    <3>4. NoDrain \in [requested : BOOLEAN, authorized : BOOLEAN]
      BY DEF NoDrain
    <3> HIDE DEF table, attached, id
    <3> QED
      BY <3>1, <3>2, <3>3, <3>4, NowSound DEF State, TypeInv, TypeOK
  <2>7. CommitAndSchedule(e) /\ debt.step = "none"
    BY <1>2 DEF Admit, AtRest, TransactionInv, NoDebt
  <2> HIDE DEF table, attached, new, id, e
  <2>8. LeaseIn(e)
    BY <2>4, NowSound DEF Sound, LeaseIn
  <2>9. AloneIn(e)
    BY <1>2, <2>4 DEF AloneIn, InMaintenance, Exclusive
  <2>10. OrphanIn(e)
    <3>1. e.orphan # 0 => e.orphan = orphan /\ d # 0
      BY <2>4 DEF TakesOrphan
    <3>2. \A s \in DOMAIN table :
            table[s].slot = 0 => d = 0 \/ sessions[s].slot = 0
      BY <2>3, <2>5
    <3>3. \A s \in DOMAIN table \ {id} : s \in DOMAIN sessions
      BY <2>5
    <3> QED
      BY <2>3, <2>4, <2>5, <3>1, <3>2, <3>3, NowSound DEF Sound, OrphanIn, PopIn
  <2>11. CoverIn(e)
    <3>1. pop_sequence \in Nat
      BY DEF TypeInv, TypeOK
    <3>2. \A s \in DOMAIN table :
            \/ table[s].sync = 0
            \/ s \in DOMAIN sessions /\ table[s].sync = sessions[s].sync
      BY <2>3, <2>5
    <3> QED
      BY <2>4, <3>1, <3>2, NowSound DEF Sound, CoverIn, PopIn
  <2> QED
    BY <2>1, <2>4, <2>6, <2>7, <2>8, <2>9, <2>10, <2>11, HandlerSound DEF Sound
<1> QED
  BY <1>1, <1>2

\* client_frame.
LEMMA ClientFrameSound ==
  ASSUME TypeInv, TransactionInv, NEW s, NEW command \in Commands,
         ClientFrame(s, command)
  PROVE  TransactionInv'
<1> DEFINE session == sessions[s]
           queued == [session EXCEPT
                        !.commands = Append(session.commands, command),
                        !.owed = Append(session.owed, command)]
           x == [Now EXCEPT !.sessions[s] = queued]
<1>1. command \in Command
  BY BrokerAssumption DEF Command
<1>2. s \in DOMAIN sessions /\ s \in Nat /\ session \in Session /\ AtRest
  BY DEF ClientFrame, TypeInv, TypeOK
<1>3. /\ Append(session.commands, command) \in Seq(Command)
      /\ Append(session.owed, command) \in Seq(Command)
  BY <1>1, <1>2 DEF Session
<1>4. queued \in Session /\ queued.slot = session.slot
      /\ queued.sync = session.sync
  BY <1>2, <1>3 DEF Session
<1> HIDE DEF queued
<1>5. x \in State(next_session)
  BY <1>2, <1>4, NowSound, UpdateSession
<1>6. Keeps(Now, x)
  BY <1>2, <1>4, NowSound, SessionKeeps
<1>7. \/ CommitAndSchedule([Now EXCEPT !.closed = {s}])
      \/ CommitAndSchedule(x)
  BY DEF ClientFrame, queued
<1>8. {s} \in SUBSET Nat
  BY <1>2
<1> HIDE DEF x
<1> QED
  BY <1>2, <1>5, <1>6, <1>7, <1>8, ClosingKeeps, KeepingHandler

\* client_closed.
LEMMA ClientClosedSound ==
  ASSUME TypeInv, TransactionInv, NEW s, ClientClosed(s)
  PROVE  TransactionInv'
<1>1. {s} \in SUBSET Nat /\ AtRest
      /\ CommitAndSchedule([Now EXCEPT !.closed = {s}])
  BY DEF ClientClosed, TypeInv, TypeOK
<1> QED
  BY <1>1, ClosingKeeps, KeepingHandler

\* written, for a client's frame: when it is the result of a maintenance
\* command nothing is held any more.
LEMMA WrittenSound ==
  ASSUME TypeInv, TransactionInv, NEW s, Written(s)
  PROVE  TransactionInv'
<1> DEFINE session == [sessions[s] EXCEPT !.writes = Tail(sessions[s].writes)]
           e == [Now EXCEPT !.sessions[s].writes = Tail(sessions[s].writes)]
<1>1. s \in DOMAIN sessions /\ sessions[s] \in Session
      /\ sessions[s].writes # <<>> /\ AtRest
  BY DEF TypeInv, TypeOK, Written
<1>2. Tail(sessions[s].writes) \in Seq(WriteKinds)
  BY <1>1 DEF Session
<1>3. session \in Session /\ session.slot = sessions[s].slot
      /\ session.sync = sessions[s].sync
  BY <1>1, <1>2 DEF Session
<1>4. e = [Now EXCEPT !.sessions[s] = session]
  BY NowSound
<1> HIDE DEF session
<1>5. e \in State(next_session) /\ Keeps(Now, e)
  BY <1>1, <1>3, <1>4, NowSound, UpdateSession, SessionKeeps
<1>6. \/ CommitAndSchedule(e)
      \/ active.step = "result" /\ CommitAndSchedule(Fail(Finish(e)))
  BY DEF Written
<1> HIDE DEF e
<1>7. CASE active.step = "result" /\ CommitAndSchedule(Fail(Finish(e)))
  <2>1. Sound(e) /\ e.active.step = "result" /\ e.debt.step = "none"
    BY <1>1, <1>5, <1>7, NowSound, KeepsSound
       DEF Keeps, SameTransaction, UnderWay, SameHistory, AtRest,
           TransactionInv, NoDebt
  <2>2. Releases(e, Finish(e)) /\ Finish(e) \in State(next_session)
    BY <1>5, <2>1, NowSound, FinishType, FinishReleases DEF UnderWay
  <2>3. Sound(Finish(e)) /\ Finish(e).debt.step = "none"
    BY <1>5, <2>1, <2>2, NowSound, ReleasesSound DEF Releases, SameHistory
  <2> DEFINE y == Finish(e)
  <2> HIDE DEF y
  <2>4. Fail(y) \in State(next_session) /\ Keeps(y, Fail(y))
    BY <2>2, NowSound, FinishType, FailKeeps DEF y
  <2>5. Sound(Fail(y)) /\ Fail(y).debt.step = "none"
    BY <2>2, <2>3, <2>4, NowSound, KeepsSound DEF Keeps, SameHistory, y
  <2> QED
    BY <1>7, <2>4, <2>5, NowSound, HandlerSound DEF y
<1> QED
  BY <1>1, <1>5, <1>6, <1>7, KeepingHandler

\* write_failed.
LEMMA WriteFailedSound ==
  ASSUME TypeInv, TransactionInv, NEW id, WriteFailed(id)
  PROVE  TransactionInv'
<1>1. AtRest /\ {id} \in SUBSET Nat
  BY DEF WriteFailed, TypeInv, TypeOK
<1>2. \/ CommitAndSchedule(Fail(Now))
      \/ CommitAndSchedule([Now EXCEPT !.closed = {id}])
  BY DEF WriteFailed
<1> QED
  BY <1>1, <1>2, EpochEndSound, ClosingKeeps, KeepingHandler

\* written, for an upstream frame.
LEMMA UpstreamWrittenSound ==
  ASSUME TypeInv, TransactionInv, NEW w, UpstreamWritten(w)
  PROVE  TransactionInv'
<1> DEFINE write == IF AwaitsWrite(w) THEN 0 ELSE active.write
           e == [Now EXCEPT !.upstream_writes = upstream_writes \ {w},
                            !.active.write = write]
<1>1. active \in Transaction /\ PopShape(active) /\ AtRest
  BY DEF TypeInv, TypeOK, UpstreamWritten
<1>2. write \in Nat
  BY <1>1 DEF Transaction
<1> HIDE DEF write
<1>3. [active EXCEPT !.write = write] \in Transactions
  BY <1>1, <1>2 DEF Transactions, Transaction, PopShape
<1>4. upstream_writes \ {w} \in SUBSET Nat
  BY DEF TypeInv, TypeOK
<1>5. e \in State(next_session)
  BY <1>3, <1>4, NowSound DEF State
<1>6. /\ e.sessions = sessions /\ e.remote = remote
      /\ e.dm_ring = dm_ring /\ e.uncertain = uncertain
      /\ e.signing = signing /\ e.pop_sequence = pop_sequence
      /\ e.orphan = orphan /\ e.debt = debt
      /\ e.active = [active EXCEPT !.write = write]
  BY DEF Now
<1>7. CommitAndSchedule(e)
  BY DEF UpstreamWritten, write
<1> HIDE DEF e
<1>8. SameTransaction(active, e.active)
  BY <1>1, <1>6 DEF SameTransaction, Transaction
<1>9. Keeps(Now, e)
  BY <1>6, <1>8, NowSound, ActiveKeeps
<1> QED
  BY <1>1, <1>5, <1>7, <1>9, KeepingHandler

\* upstream_frame.
LEMMA UpstreamFrameSound ==
  ASSUME TypeInv, TransactionInv, NEW f \in Frames, UpstreamFrame(f)
  PROVE  TransactionInv'
<1>1. AtRest /\ ~ failed
  BY DEF UpstreamFrame, AtRest
<1>2. \/ CommitAndSchedule(Fail(Now))
      \/ CommitAndSchedule(Push(f))
      \/ CommitAndSchedule(TransactionResponse(f))
  BY DEF UpstreamFrame
<1>3. /\ Push(f) \in State(next_session)
      /\ Sound(Push(f)) /\ Push(f).debt.step = "none"
  BY <1>1, PushType, PushSound
<1>4. /\ TransactionResponse(f) \in State(next_session)
      /\ Sound(TransactionResponse(f))
      /\ TransactionResponse(f).debt.step = "none"
  BY <1>1, TransactionResponseType, TransactionResponseSound
<1> QED
  BY <1>1, <1>2, <1>3, <1>4, NowSound, EpochEndSound, HandlerSound

\* tick: waits end, and leases that have a deadline.
LEMMA TickSound ==
  ASSUME TypeInv, TransactionInv, NEW stuck, NEW late, NEW expired, NEW poll,
         Tick(stuck, late, expired, poll)
  PROVE  TransactionInv'
<1> DEFINE table == [s \in DOMAIN sessions |->
                       IF s \in late
                       THEN [Reply(sessions[s], "frame") EXCEPT !.sync = 0]
                       ELSE sessions[s]]
           shown == IF poll THEN HintAll(table) ELSE table
           lease == IF "remote" \in expired THEN NoRemote ELSE remote
           signed == IF "signing" \in expired THEN NoSigning ELSE signing
           e == [Now EXCEPT !.closed = stuck, !.sessions = shown,
                            !.remote = lease, !.signing = signed]
<1>1. sessions \in SessionTables(next_session) /\ AtRest
  BY NowSound, TableType DEF TypeInv, TypeOK, Tick
<1>2. \A s \in DOMAIN sessions : sessions[s] \in Session
  BY DEF TypeInv, TypeOK
<1>3. ASSUME NEW s \in DOMAIN sessions
      PROVE  /\ table[s] \in Session
             /\ table[s].slot = sessions[s].slot
             /\ table[s].sync \in {0, sessions[s].sync}
  <2>1. Reply(sessions[s], "frame") \in Session
        /\ Reply(sessions[s], "frame").slot = sessions[s].slot
    BY <1>2, ReplyType, WriteKeeps DEF WriteKinds
  <2> QED
    BY <1>2, <2>1 DEF Session
<1>4. DOMAIN table = DOMAIN sessions /\ table \in SessionTables(next_session)
  BY <1>1, <1>3, NowSound, NewTable
<1> HIDE DEF table
<1>5. /\ shown \in SessionTables(next_session)
      /\ DOMAIN shown = DOMAIN sessions
      /\ \A s \in DOMAIN sessions :
           /\ shown[s].slot = sessions[s].slot
           /\ shown[s].sync \in {0, sessions[s].sync}
  BY <1>3, <1>4, NowSound, EmitAllType, WriteKeeps DEF HintAll
<1>6. lease \in Remote
  BY DEF TypeInv, TypeOK, NoRemote, Remote
<1>7. signed \in SigningState
  BY DEF TypeInv, TypeOK, NoSigning, SigningState
<1>8. stuck \in SUBSET Nat
  BY DEF Tick, TypeInv, TypeOK
<1>9. \/ lease = remote
      \/ lease.kind = "none" /\ ~ lease.tentative /\ ~ remote.tentative
  BY DEF Tick, CanExpire, NoRemote
<1>10. signed.owner \in {0, signing.owner}
  BY DEF NoSigning
<1> HIDE DEF shown, lease, signed
<1>11. e \in State(next_session)
  BY <1>5, <1>6, <1>7, <1>8, NowSound DEF State
<1>12. /\ e.sessions = shown /\ e.active = active /\ e.remote = lease
       /\ e.dm_ring = dm_ring /\ e.uncertain = uncertain
       /\ e.signing = signed /\ e.pop_sequence = pop_sequence
       /\ e.orphan = orphan /\ e.debt = debt
  BY DEF Now
<1>13. CommitAndSchedule(e)
  BY DEF Tick, shown, lease, signed, table
<1> HIDE DEF e
<1>14. Calm(Now, e)
  BY <1>5, <1>12, NowSound DEF Calm
<1>15. Settles(Now, e)
  BY <1>9, <1>10, <1>12, NowSound DEF Settles
<1>16. Keeps(Now, e)
  BY <1>12, <1>14, <1>15, NowSound DEF Keeps, SameTransaction, SameHistory
<1> QED
  BY <1>1, <1>11, <1>13, <1>16, KeepingHandler

\* Steps that keep what the transaction holds without a handler.
LEMMA QuietSound ==
  ASSUME TypeInv, TransactionInv,
         \/ ScheduleBusy \/ TurnNone \/ TakeWrite \/ QuarantineDeadline
         \/ \E i \in RingSlots : DmDeadline(i)
         \/ UNCHANGED vars
  PROVE  TransactionInv'
<1>1. /\ Now'.sessions = sessions' /\ Now'.active = active'
      /\ Now'.remote = remote' /\ Now'.dm_ring = dm_ring'
      /\ Now'.uncertain = uncertain' /\ Now'.signing = signing'
      /\ Now'.pop_sequence = pop_sequence' /\ Now'.orphan = orphan'
      /\ Now'.debt = debt'
  BY DEF Now
<1>2. UNCHANGED <<sessions, active, debt, failed, remote, signing,
                  pop_sequence, orphan>>
  BY DEF ScheduleBusy, TurnNone, TakeWrite, QuarantineDeadline, DmDeadline, vars
<1>3. /\ dm_ring'.next = dm_ring.next
      /\ \A i \in RingSlots : dm_ring'.slots[i].state = "live" =>
           dm_ring.slots[i].state = "live"
  <2>1. CASE dm_ring' = dm_ring
    BY <2>1
  <2>2. ASSUME NEW i \in RingSlots, DmDeadline(i)
        PROVE  /\ dm_ring'.next = dm_ring.next
               /\ \A j \in RingSlots : dm_ring'.slots[j].state = "live" =>
                    dm_ring.slots[j].state = "live"
    BY <2>2 DEF DmDeadline, TypeInv, TypeOK, DmRing, Entry
  <2> QED
    BY <2>1, <2>2
       DEF ScheduleBusy, TurnNone, TakeWrite, QuarantineDeadline, vars
<1>4. uncertain'.until = "live" => uncertain.until = "live"
  <2>1. CASE uncertain' = uncertain
    BY <2>1
  <2>2. CASE QuarantineDeadline
    BY <2>2 DEF QuarantineDeadline, TypeInv, TypeOK, Uncertain
  <2> QED
    BY <2>1, <2>2 DEF ScheduleBusy, TurnNone, TakeWrite, DmDeadline, vars
<1>5. Keeps(Now, Now')
  BY <1>1, <1>2, <1>3, <1>4, NowSound
     DEF Keeps, Calm, SameTransaction, Settles, SameHistory
<1>6. Sound(Now')
  BY <1>5, NowSound, KeepsSound
<1> QED
  BY <1>2, <1>6 DEF TransactionInv, NoDebt

-----------------------------------------------------------------------------
(* schedule *)

\* An iteration that keeps what the transaction holds.
LEMMA KeepingIteration ==
  ASSUME TypeInv, TransactionInv, NEW e, e \in State(next_session), Commit(e),
         Keeps(Now, e)
  PROVE  TransactionInv'
<1>1. Sound(e) /\ e.debt.step = debt.step
  BY NowSound, KeepsSound DEF Keeps, SameHistory
<1> QED
  BY <1>1, NowSound, CommitSound DEF TransactionInv, NoDebt

\* A wait that begins now carries the number of the next pop.
LEMMA LocalSyncSound ==
  ASSUME NEW n \in Nat, NEW e \in State(n), NEW s \in DOMAIN e.sessions,
         Sound(e), e.sessions[s].sync = 0, e.pop_sequence = pop_sequence
  PROVE  Sound(LocalSync(e, s)) /\ LocalSync(e, s).debt = e.debt
<1> DEFINE session == e.sessions[s]
           d == session.slot
           x == LocalSync(e, s)
<1>1. session \in Session /\ d \in Slots \cup {0}
  BY TableType DEF State, Session
<1>2. CASE InboxFor(s) = <<>>
  <2>1. /\ x.sessions = [e.sessions EXCEPT ![s].sync = pop_sequence + 1]
        /\ x.active = e.active /\ x.remote = e.remote
        /\ x.dm_ring = e.dm_ring /\ x.uncertain = e.uncertain
        /\ x.signing = e.signing /\ x.pop_sequence = e.pop_sequence
        /\ x.orphan = e.orphan /\ x.debt = e.debt
    BY <1>2 DEF LocalSync, State
  <2> HIDE DEF x
  <2>2. /\ DOMAIN x.sessions = DOMAIN e.sessions
        /\ \A t \in DOMAIN e.sessions : t # s => x.sessions[t] = e.sessions[t]
        /\ x.sessions[s] = [session EXCEPT !.sync = pop_sequence + 1]
    BY <2>1
  <2>3. x.sessions[s].slot = session.slot
        /\ x.sessions[s].sync = pop_sequence + 1
    BY <1>1, <2>2 DEF Session
  <2>4. LeaseIn(x) /\ AloneIn(x)
    BY <2>1, <2>2 DEF Sound, LeaseIn, AloneIn
  <2>5. OrphanIn(x)
    BY <2>1, <2>2, <2>3 DEF Sound, OrphanIn, PopIn
  <2>6. CoverIn(x)
    <3>1. e.pop_sequence \in Nat
      BY DEF State
    <3>2. ~ (pop_sequence + 1 <= pop_sequence)
          /\ pop_sequence + 1 <= pop_sequence + 1
      BY <3>1
    <3> QED
      BY <2>1, <2>2, <2>3, <3>2 DEF Sound, CoverIn, PopIn
  <2> QED
    BY <2>1, <2>4, <2>5, <2>6 DEF Sound, x
<1>3. CASE InboxFor(s) # <<>>
  <2>1. PICK given :
          /\ given \in {DeliverInbox(session), DeliverSlot(session)}
          /\ x.sessions = [e.sessions EXCEPT ![s] = given]
    BY <1>3 DEF LocalSync, State
  <2>2. /\ x.active = e.active /\ x.remote = e.remote
        /\ x.dm_ring = e.dm_ring /\ x.uncertain = e.uncertain
        /\ x.signing = e.signing /\ x.pop_sequence = e.pop_sequence
        /\ x.orphan = e.orphan /\ x.debt = e.debt
    BY <1>3 DEF LocalSync, State
  <2> HIDE DEF x
  <2>3. given.slot = d /\ given.sync = 0
    <3>1. Reply(session, Layout(session.version)) \in Session
          /\ Reply(session, Layout(session.version)).slot = d
          /\ Reply(session, Layout(session.version)).sync = 0
      BY <1>1, ReplyType, WriteKeeps DEF Layout, WriteKinds
    <3> QED
      BY <2>1, <3>1 DEF DeliverInbox, DeliverSlot, Session
  <2>4. Calm(e, x)
    BY <2>1, <2>3 DEF Calm
  <2>5. Sound(x)
    BY <2>2, <2>4, UnrelatedKeeps, KeepsSound
  <2> QED
    BY <2>2, <2>5 DEF x
<1> QED
  BY <1>2, <1>3

\* schedule, first loop, a command answered by the broker.
LEMMA ScheduleLocalSound ==
  ASSUME TypeInv, TransactionInv, NEW s, ScheduleLocal(s)
  PROVE  TransactionInv'
<1> DEFINE n == next_session
           command == Head(sessions[s].commands)
           taken == [sessions[s] EXCEPT !.commands = Tail(sessions[s].commands)]
           e == [Now EXCEPT !.sessions[s].commands = Tail(sessions[s].commands)]
<1>1. s \in DOMAIN sessions /\ sessions[s].commands # <<>>
      /\ sessions[s].sync = 0
  BY DEF ScheduleLocal, LocalReady, HeadReady
<1>2. n \in Nat /\ e \in State(n) /\ taken \in Session
  BY <1>1, TailTaken DEF TypeInv, TypeOK
<1>3. /\ e.sessions[s] = taken
      /\ DOMAIN e.sessions = DOMAIN sessions
      /\ e.pop_sequence = pop_sequence /\ e.slots = slots
  BY <1>1 DEF Now
<1>4. taken.slot = sessions[s].slot /\ taken.sync = sessions[s].sync
      /\ taken.inbox = sessions[s].inbox
  BY <1>1 DEF TypeInv, TypeOK, Session
<1>5. command \in Command
  BY <1>1, CommandOf DEF TypeInv
<1>6. e = [Now EXCEPT !.sessions[s] = taken]
  BY NowSound
<1> HIDE DEF taken
<1>7. Keeps(Now, e)
  BY <1>1, <1>4, <1>6, NowSound, SessionKeeps
<1>8. Sound(e) /\ e.debt.step = debt.step
  BY <1>7, NowSound, KeepsSound DEF Keeps, SameHistory
<1> HIDE DEF e
<1>9. Reply(taken, "frame") \in Session
      /\ Reply(taken, "frame").slot = taken.slot
      /\ Reply(taken, "frame").sync = taken.sync
  BY <1>2, ReplyType, WriteKeeps DEF WriteKinds
<1> DEFINE scoped == [Reply(taken, "frame") EXCEPT !.scope = command.arg]
<1>10. scoped \in Session /\ scoped.slot = taken.slot
       /\ scoped.sync = taken.sync
  BY <1>5, <1>9, CommandTypes DEF Session
<1> HIDE DEF scoped, command, n
<1>11. /\ LocalSync(e, s) \in State(n)
       /\ Sound(LocalSync(e, s)) /\ LocalSync(e, s).debt.step = debt.step
  <2>1. LocalSync(e, s) \in State(n)
    BY <1>1, <1>2, <1>3, <1>4, LocalSyncType DEF n
  <2>2. Sound(LocalSync(e, s)) /\ LocalSync(e, s).debt = e.debt
    BY <1>1, <1>2, <1>3, <1>4, <1>8, LocalSyncSound
  <2> QED
    BY <1>8, <2>1, <2>2
<1>12. ASSUME NEW session \in {Reply(taken, "frame"), scoped}
       PROVE  LET x == [e EXCEPT !.sessions[s] = session]
              IN x \in State(n) /\ Sound(x) /\ x.debt.step = debt.step
  <2> DEFINE x == [e EXCEPT !.sessions[s] = session]
  <2>1. session \in Session /\ session.slot = taken.slot
        /\ session.sync = taken.sync
    BY <1>9, <1>10
  <2>2. x \in State(n) /\ Keeps(e, x)
    BY <1>1, <1>2, <1>3, <2>1, UpdateSession, SessionKeeps
  <2> HIDE DEF x
  <2>3. Sound(x) /\ x.debt.step = debt.step
    BY <1>2, <1>8, <2>2, KeepsSound DEF Keeps, SameHistory
  <2> QED
    BY <2>2, <2>3 DEF x
<1>13. LET x == LocalEffect(e, s, command)
       IN x \in State(n) /\ Sound(x) /\ x.debt.step = debt.step
  BY <1>3, <1>11, <1>12 DEF LocalEffect, scoped
<1>14. Commit(LocalEffect(e, s, command))
  BY DEF ScheduleLocal, e, command
<1> QED
  BY <1>2, <1>13, <1>14, CommitSound DEF TransactionInv, NoDebt

\* schedule, first loop, a command that is too old.
LEMMA ScheduleAgedSound ==
  ASSUME TypeInv, TransactionInv, NEW s, ScheduleAged(s)
  PROVE  TransactionInv'
<1> DEFINE refused == [Reply(sessions[s], "frame") EXCEPT
                         !.commands = Tail(sessions[s].commands)]
           x == [Now EXCEPT !.sessions[s] = refused]
<1>1. s \in DOMAIN sessions /\ sessions[s].commands # <<>>
      /\ sessions[s] \in Session
  BY DEF ScheduleAged, HeadReady, TypeInv, TypeOK
<1>2. Tail(sessions[s].commands) \in Seq(Command)
  BY <1>1, CommandOf DEF TypeInv
<1>3. Reply(sessions[s], "frame") \in Session
      /\ Reply(sessions[s], "frame").slot = sessions[s].slot
      /\ Reply(sessions[s], "frame").sync = sessions[s].sync
  BY <1>1, ReplyType, WriteKeeps DEF WriteKinds
<1>4. refused \in Session /\ refused.slot = sessions[s].slot
      /\ refused.sync = sessions[s].sync
  BY <1>2, <1>3 DEF Session
<1>5. Commit(x)
  BY DEF ScheduleAged
<1> HIDE DEF refused
<1>6. x \in State(next_session)
  BY <1>1, <1>4, NowSound, UpdateSession
<1>7. Keeps(Now, x)
  BY <1>1, <1>4, NowSound, SessionKeeps
<1> HIDE DEF x
<1> QED
  BY <1>5, <1>6, <1>7, KeepingIteration

-----------------------------------------------------------------------------
(* schedule, second loop *)

\* What Cardinality says in Leases, without it.
LEMMA PendingZero ==
  ASSUME NEW ring
  PROVE  PendingCount(ring) = 0 <=>
           \A i \in RingSlots : ring.slots[i].state # "live"
<1> DEFINE pending == {i \in RingSlots : ring.slots[i].state = "live"}
<1>1. DmCapacity - 1 \in Int
  BY DmCapacityAssumption
<1>2. IsFiniteSet(RingSlots)
  BY <1>1, FS_Interval DEF RingSlots
<1>3. IsFiniteSet(pending)
  BY <1>2, FS_Subset
<1>4. Cardinality(pending) = 0 <=> pending = {}
  BY <1>3, FS_EmptySet
<1> QED
  BY <1>4 DEF PendingCount

\* The pop covers exactly the waits there are, and while a client without a
\* slot is connected no orphan can be in its way.
LEMMA DispatchPopSound ==
  ASSUME NEW n \in Nat, NEW e \in State(n), Sound(e),
         e.active.step = "none", e.debt.step = "none"
  PROVE  LET x == DispatchPop(e) IN Sound(x) /\ x.debt = e.debt
<1> DEFINE waiting == {s \in DOMAIN e.sessions : e.sessions[s].sync # 0}
           multi == \E s \in DOMAIN e.sessions : e.sessions[s].slot = 0
           x == DispatchPop(e)
<1>1. /\ x.sessions = e.sessions /\ x.remote = e.remote
      /\ x.dm_ring = e.dm_ring /\ x.uncertain = e.uncertain
      /\ x.signing = e.signing /\ x.pop_sequence = e.pop_sequence + 1
      /\ x.orphan = e.orphan /\ x.debt = e.debt
  BY DEF DispatchPop, SendCommand, SendUpstream, State
<1>2. /\ x.active.step = "command" /\ x.active.owner = 0
      /\ x.active.command = Sync
      /\ x.active.pop_sequence = e.pop_sequence + 1
      /\ x.active.had_multi_client = multi
      /\ x.active.covers = waiting
  BY DEF DispatchPop, SendCommand, SendUpstream, State, NoTransaction
<1>3. Sync.op \notin RemoteLease /\ ~ PlainDm(Sync) /\ ~ Exclusive(Sync)
  BY DEF Sync, RemoteLease, PlainDm, Exclusive, Maintenance
<1> HIDE DEF x
<1>4. LeaseIn(x)
  BY <1>1, <1>2, <1>3 DEF Sound, LeaseIn, UnderWay
<1>5. AloneIn(x)
  BY <1>2, <1>3 DEF AloneIn
<1>6. OrphanIn(x)
  BY <1>1, <1>2 DEF Sound, OrphanIn
<1>7. CoverIn(x)
  <2>1. \A s \in DOMAIN e.sessions : e.sessions[s].sync \in Nat
    BY TableType DEF State, Session
  <2>2. e.pop_sequence \in Nat
    BY DEF State
  <2> QED
    BY <1>1, <1>2, <2>1, <2>2 DEF Sound, CoverIn
<1> QED
  BY <1>1, <1>4, <1>5, <1>6, <1>7 DEF Sound, x

\* schedule, second loop, the inbox consumer's turn.
LEMMA TurnPopSound ==
  ASSUME TypeInv, InboxInv, Ended, TransactionInv, NEW k, TurnPop(k)
  PROVE  TransactionInv'
<1> DEFINE n == next_session
           e == [Now EXCEPT !.order = Rotated(k)]
           x == DispatchPop(e)
<1>1. n \in Nat /\ order \in Seq(Nat)
  BY DEF TypeInv, TypeOK
<1>2. k \in Nat /\ k <= Len(order)
  BY DEF TurnPop, NextTurn, TurnsLeft, TypeInv, TypeOK
<1>3. Rotated(k) \in Seq(Nat)
  BY <1>1, <1>2, RotatedType
<1>4. e \in State(n)
  BY <1>1, <1>3, NowSound, SmallChanges
<1>5. Keeps(Now, e)
  <2>1. /\ e.sessions = sessions /\ e.active = active /\ e.remote = remote
        /\ e.dm_ring = dm_ring /\ e.uncertain = uncertain
        /\ e.signing = signing /\ e.pop_sequence = pop_sequence
        /\ e.orphan = orphan /\ e.debt = debt
    BY DEF Now
  <2> HIDE DEF e
  <2> QED
    BY <2>1, TableKeeps
<1>6. e.active.step = "none" /\ e.debt.step = "none"
  <2>1. ~ Busy /\ ~ failed
    BY TurnIsFree DEF TurnPop, NextTurn, HasWork, Ended
  <2>2. e.active = active /\ e.debt = debt
    BY DEF Now
  <2> QED
    BY <2>1, <2>2 DEF Busy, TransactionInv, NoDebt
<1>7. Commit(x)
  BY DEF TurnPop
<1> HIDE DEF e
<1>8. Sound(e)
  BY <1>1, <1>5, NowSound, KeepsSound
<1>9. x \in State(n) /\ Sound(x) /\ x.debt = e.debt
  BY <1>1, <1>4, <1>6, <1>8, DispatchPopType, DispatchPopSound
<1> HIDE DEF x
<1> QED
  BY <1>1, <1>6, <1>7, <1>9, CommitSound

\* Taking a command from a queue, and asking whether the quarantine is over,
\* keep what nobody holds; nothing is in flight.
LEMMA TurnTakenKeeps ==
  ASSUME TypeInv, InboxInv, Ended, TransactionInv, NEW k, NEW s, s # 0,
         NextTurn(k, s)
  PROVE  LET e == TurnTaken(k, s, Head(sessions[s].commands))
         IN /\ Sound(e)
            /\ e.active.step = "none" /\ e.debt.step = "none"
            /\ DOMAIN e.sessions = DOMAIN sessions
            /\ e.remote = remote /\ e.dm_ring = dm_ring /\ e.signing = signing
            /\ e.uncertain.until = "live" => uncertain.until = "live"
<1> DEFINE command == Head(sessions[s].commands)
           taken == [sessions[s] EXCEPT !.commands = Tail(sessions[s].commands)]
           e == TurnTaken(k, s, command)
<1>1. s \in DOMAIN sessions /\ sessions[s] \in Session /\ AtTurn
  BY DEF NextTurn, HasWork, TypeInv, TypeOK
<1>2. taken.slot = sessions[s].slot /\ taken.sync = sessions[s].sync
  BY <1>1 DEF Session
<1>3. /\ e.sessions = [sessions EXCEPT ![s] = taken]
      /\ e.active = active /\ e.remote = remote
      /\ e.dm_ring = dm_ring /\ e.signing = signing
      /\ e.pop_sequence = pop_sequence
      /\ e.orphan = orphan /\ e.debt = debt
      /\ e.uncertain \in {uncertain, Certain}
  BY <1>1 DEF TurnTaken, Now, AfterQuery
<1>4. e.uncertain.until = "live" => uncertain.until = "live"
  BY <1>3 DEF Certain
<1>5. active.step = "none" /\ debt.step = "none"
  BY <1>1, TurnIsFree DEF Busy, Ended, TransactionInv, NoDebt
<1> HIDE DEF taken, e
<1>6. Calm(Now, e)
  BY <1>2, <1>3, NowSound DEF Calm
<1>7. Settles(Now, e)
  BY <1>3, <1>4, NowSound DEF Settles
<1>8. Keeps(Now, e)
  BY <1>3, <1>6, <1>7, NowSound DEF Keeps, SameTransaction, SameHistory
<1>9. Sound(e)
  BY <1>8, NowSound, KeepsSound
<1>10. DOMAIN e.sessions = DOMAIN sessions
  BY <1>3
<1> QED
  BY <1>3, <1>4, <1>5, <1>9, <1>10 DEF e

\* dispatch, once admit_command? has reserved what the command needs.
LEMMA DispatchSound ==
  ASSUME NEW n \in Nat, NEW e \in State(n), NEW s \in DOMAIN e.sessions,
         NEW command \in Command, OrphanIn(e), CoverIn(e),
         e.active.step = "none",
         e.remote.tentative =>
           command.op = e.remote.kind /\ e.remote.kind \in RemoteLease,
         command.op \in RemoteLease => e.remote.tentative,
         PlainDm(command) => Available(e.dm_ring),
         Exclusive(command) =>
           /\ DOMAIN e.sessions \subseteq {s}
           /\ e.uncertain.until # "live"
           /\ e.remote.kind = "none"
           /\ \A i \in RingSlots : e.dm_ring.slots[i].state # "live"
           /\ e.signing.owner = 0
  PROVE  LET x == Dispatch(e, s, command) IN Sound(x) /\ x.debt = e.debt
<1> DEFINE x == Dispatch(e, s, command)
<1>1. s # 0
  BY TableType DEF State
<1>2. /\ x.sessions = e.sessions /\ x.remote = e.remote
      /\ x.dm_ring = e.dm_ring /\ x.uncertain = e.uncertain
      /\ x.signing = e.signing /\ x.pop_sequence = e.pop_sequence
      /\ x.orphan = e.orphan /\ x.debt = e.debt
  BY DEF Dispatch, SendCommand, SendUpstream, State
<1>3. /\ UnderWay(x.active)
      /\ x.active.command = command /\ x.active.owner = s
  BY DEF Dispatch, SendCommand, SendUpstream, State, NoTransaction, UnderWay
<1> HIDE DEF x
<1>4. LeaseIn(x)
  BY <1>2, <1>3 DEF LeaseIn
<1>5. AloneIn(x)
  BY <1>2, <1>3 DEF AloneIn
<1>6. OrphanIn(x)
  BY <1>1, <1>2, <1>3 DEF OrphanIn, PopIn
<1>7. CoverIn(x)
  BY <1>1, <1>2, <1>3 DEF CoverIn, PopIn
<1> QED
  BY <1>2, <1>4, <1>5, <1>6, <1>7 DEF Sound, x

\* schedule, second loop, a client's command that is admitted.
LEMMA TurnDispatchSound ==
  ASSUME TypeInv, InboxInv, Ended, TransactionInv, NEW k, NEW s,
         TurnDispatch(k, s)
  PROVE  TransactionInv'
<1> DEFINE n == next_session
           command == Head(sessions[s].commands)
           e == TurnTaken(k, s, command)
           x == Reserved(e, s, command)
           y == Dispatch(x, s, command)
<1>1. s # 0 /\ NextTurn(k, s) /\ AdmitsCommand(s, command)
  BY DEF TurnDispatch
<1>2. /\ s \in DOMAIN sessions
      /\ command \in Command
      /\ e \in State(n)
  BY <1>1, TurnTakenType
<1>3. n \in Nat /\ s \in Nat
  BY <1>2 DEF TypeInv, TypeOK
<1>4. /\ Sound(e)
      /\ e.active.step = "none" /\ e.debt.step = "none"
      /\ DOMAIN e.sessions = DOMAIN sessions
      /\ e.remote = remote /\ e.dm_ring = dm_ring /\ e.signing = signing
      /\ e.uncertain.until = "live" => uncertain.until = "live"
  BY <1>1, TurnTakenKeeps
<1>5. Commit(y)
  BY DEF TurnDispatch
<1> HIDE DEF command, e, n
<1>6. x \in State(n) /\ x.sessions = e.sessions
  BY <1>2, <1>3, ReservedType DEF n
<1>7. /\ x.active = e.active /\ x.dm_ring = e.dm_ring
      /\ x.uncertain = e.uncertain /\ x.pop_sequence = e.pop_sequence
      /\ x.orphan = e.orphan /\ x.debt = e.debt
  BY <1>2 DEF Reserved, State
<1>8. ~ e.remote.tentative
  BY <1>4 DEF Sound, LeaseIn, UnderWay
<1>9. ASSUME command.op \in RemoteLease
      PROVE  x.remote.kind = command.op /\ x.remote.tentative
  <2>1. x.remote = Reserve(s, command)
    BY <1>2, <1>9 DEF Reserved, State, RemoteLease
  <2> QED
    BY <2>1 DEF Reserve
<1>10. ASSUME command.op \notin RemoteLease
       PROVE  x.remote = e.remote
  BY <1>2, <1>10 DEF Reserved, State
<1>11. ASSUME Exclusive(command)
       PROVE  /\ x = e
              /\ DOMAIN sessions \subseteq {s}
              /\ uncertain.until # "live"
              /\ remote.kind = "none"
              /\ \A i \in RingSlots : dm_ring.slots[i].state # "live"
              /\ signing.owner = 0
  <2>1. x = e
    BY <1>11 DEF Reserved, Exclusive, Maintenance, RemoteLease
  <2>2. Alone /\ OffAir /\ PendingCount(dm_ring) = 0 /\ signing.owner = 0
    BY <1>1, <1>11 DEF AdmitsCommand
  <2> QED
    BY <1>2, <2>1, <2>2, PendingZero DEF Alone, OffAir, Quarantined
<1>12. PlainDm(command) => Available(e.dm_ring)
  BY <1>1, <1>4 DEF AdmitsCommand
<1> HIDE DEF x
<1>13. OrphanIn(x) /\ CoverIn(x)
  BY <1>4, <1>6, <1>7 DEF Sound, OrphanIn, CoverIn, PopIn
<1>14. s \in DOMAIN x.sessions
  BY <1>2, <1>4, <1>6
<1>15. Sound(y) /\ y.debt = x.debt
  BY <1>2, <1>3, <1>4, <1>6, <1>7, <1>8, <1>9, <1>10, <1>11, <1>12, <1>13,
     <1>14, DispatchSound
<1>16. y \in State(n)
  BY <1>2, <1>3, <1>6, <1>14, DispatchType
<1> HIDE DEF y
<1> QED
  BY <1>3, <1>4, <1>5, <1>7, <1>15, <1>16, CommitSound

\* schedule, second loop, a client's command that is refused.
LEMMA TurnRejectSound ==
  ASSUME TypeInv, InboxInv, Ended, TransactionInv, NEW k, NEW s,
         TurnReject(k, s)
  PROVE  TransactionInv'
<1> DEFINE n == next_session
           e == TurnTaken(k, s, Head(sessions[s].commands))
           x == [e EXCEPT !.sessions[s] = Reply(e.sessions[s], "frame")]
<1>1. s # 0 /\ NextTurn(k, s)
  BY DEF TurnReject
<1>2. n \in Nat /\ e \in State(n) /\ s \in DOMAIN e.sessions
      /\ e.sessions[s] \in Session
  BY <1>1, TurnTakenType DEF TypeInv, TypeOK
<1>3. Sound(e) /\ e.debt.step = "none"
  BY <1>1, TurnTakenKeeps
<1>4. Commit(x)
  BY DEF TurnReject
<1> HIDE DEF e, n
<1>5. /\ Reply(e.sessions[s], "frame") \in Session
      /\ Reply(e.sessions[s], "frame").slot = e.sessions[s].slot
      /\ Reply(e.sessions[s], "frame").sync = e.sessions[s].sync
  BY <1>2, ReplyType, WriteKeeps DEF WriteKinds
<1>6. x \in State(n) /\ Keeps(e, x)
  BY <1>2, <1>5, UpdateSession, SessionKeeps
<1> HIDE DEF x
<1>7. Sound(x) /\ x.debt.step = "none"
  BY <1>2, <1>3, <1>6, KeepsSound DEF Keeps, SameHistory
<1> QED
  BY <1>2, <1>4, <1>6, <1>7, CommitSound

-----------------------------------------------------------------------------
(* After the epoch has failed *)

\* An item that the old connection still delivers finds the orphan entry
\* free if it is for a client without a slot.
LEMMA DrainUncertainFrameSound ==
  ASSUME TypeInv, Ended, TransactionInv, NEW f \in Frames,
         DrainUncertainFrame(f)
  PROVE  TransactionInv'
<1> DEFINE n == next_session
           paid == [Now EXCEPT !.debt = NoTransaction]
           started == [Now EXCEPT !.debt.contacts_started = TRUE]
<1>1. n \in Nat /\ Now \in State(n) /\ Sound(Now)
  BY NowSound
<1>2. debt \in Transaction /\ PopShape(debt)
  BY DEF TypeInv, TypeOK
<1>3. paid \in State(n)
  BY <1>1, SmallChanges
<1>4. started \in State(n)
  <2>1. [debt EXCEPT !.contacts_started = TRUE] \in Transactions
    BY <1>2 DEF Transactions, Transaction, PopShape
  <2> QED
    BY <1>1, <2>1, NowSound DEF State
<1>5. failed /\ DOMAIN sessions = {} /\ active.step = "none"
  BY DEF DrainUncertainFrame, Ended, Busy
<1>6. /\ paid.sessions = sessions /\ paid.active = active
      /\ paid.remote = remote /\ paid.dm_ring = dm_ring
      /\ paid.uncertain = uncertain /\ paid.signing = signing
      /\ paid.pop_sequence = pop_sequence /\ paid.orphan = orphan
      /\ paid.debt = NoTransaction
  BY DEF Now
<1>7. /\ started.sessions = sessions /\ started.active = active
      /\ started.remote = remote /\ started.dm_ring = dm_ring
      /\ started.uncertain = uncertain /\ started.signing = signing
      /\ started.pop_sequence = pop_sequence /\ started.orphan = orphan
      /\ started.debt = [debt EXCEPT !.contacts_started = TRUE]
  BY DEF Now
<1>8. \/ Commit(Push(f))
      \/ Commit(paid)
      \/ DebtPaid(f) /\ KeepsItem(f) /\ Commit(PopResult(paid, debt, f))
      \/ Commit(started)
  BY DEF DrainUncertainFrame
<1> HIDE DEF paid, started
<1>9. Sound(paid) /\ paid.debt.step = "none"
  <2>1. NoTransaction.step = "none"
    BY DEF NoTransaction
  <2>2. LeaseIn(paid) /\ AloneIn(paid) /\ CoverIn(paid)
    BY <1>1, <1>5, <1>6, NowSound
       DEF Sound, LeaseIn, AloneIn, CoverIn, UnderWay, PopIn
  <2>3. OrphanIn(paid)
    BY <1>5, <1>6, <2>1 DEF OrphanIn, PopIn
  <2> QED
    BY <1>6, <2>1, <2>2, <2>3 DEF Sound
<1>10. Sound(started)
  <2>1. LET ty == [debt EXCEPT !.contacts_started = TRUE]
        IN /\ ty.step = debt.step /\ ty.owner = debt.owner
           /\ ty.had_multi_client = debt.had_multi_client
    BY <1>2 DEF Transaction
  <2>2. Keeps(Now, started)
    BY <1>7, <2>1, NowSound
       DEF Keeps, Calm, SameTransaction, Settles, SameHistory
  <2> QED
    BY <1>1, <2>2, KeepsSound
<1>11. CASE Commit(Push(f))
  <2>1. ~ AnswersSelfTelemetry(f)
    BY <1>5 DEF AnswersSelfTelemetry, Busy
  <2>2. Push(f) \in State(n) /\ Sound(Push(f))
    BY <1>1, <2>1, PushType, PushKeeps, KeepsSound
  <2> QED
    BY <1>1, <1>5, <1>11, <2>2, CommitSound
<1>12. CASE Commit(paid) \/ Commit(started)
  BY <1>1, <1>3, <1>4, <1>5, <1>9, <1>10, <1>12, CommitSound
<1>13. CASE DebtPaid(f) /\ KeepsItem(f) /\ Commit(PopResult(paid, debt, f))
  <2>1. /\ debt.command = Sync
        /\ debt.contacts_started \in BOOLEAN
        /\ ValidResponse(debt.command, debt.contacts_started, f)
    BY <1>2, <1>13 DEF KeepsItem, DebtPaid, PopShape, Transaction
  <2>2. f.code \in {"err", "message", "no_more_messages"}
    BY <2>1, SyncReplies
  <2>3. f.code \in {"message", "no_more_messages"}
    BY <1>13, <2>2 DEF KeepsItem
  <2>4. PopResult(paid, debt, f) \in State(n)
    BY <1>1, <1>2, <1>3, <2>3, PopResultType
  <2>5. PopEffect(paid, PopResult(paid, debt, f))
    BY <1>1, <1>3, <2>3, PopResultEffect
  <2>6. Sound(PopResult(paid, debt, f))
    BY <1>1, <1>3, <1>5, <1>6, <1>9, <2>5, PopEffectSound
  <2> QED
    BY <1>1, <1>5, <1>13, <2>4, <2>6, CommitSound
<1> QED
  BY <1>8, <1>11, <1>12, <1>13

\* A new broker has no debt, and takes over the orphan, the remote lease and
\* the ring as they are, none of them tentative.
LEMMA RestartSound ==
  ASSUME TypeInv, Ended, TransactionInv, NEW same_key, Restart(same_key)
  PROVE  TransactionInv'
<1>1. DOMAIN sessions = {} /\ active.step = "none"
  BY DEF Restart, Ended, Busy
<1>2. ~ remote'.tentative
  <2>1. ~ remote.tentative
    BY <1>1, NowSound DEF Sound, LeaseIn, UnderWay
  <2> QED
    BY <2>1 DEF Restart, NoRemote
<1>3. sessions' = sessions /\ active' = active /\ debt'.step = "none"
  BY DEF Restart, NoTransaction
<1>4. /\ Now'.sessions = sessions' /\ Now'.active = active'
      /\ Now'.remote = remote' /\ Now'.debt = debt'
  BY DEF Now
<1>5. Sound(Now')
  BY <1>1, <1>2, <1>3, <1>4
     DEF Sound, LeaseIn, AloneIn, OrphanIn, CoverIn, UnderWay, PopIn
<1> QED
  BY <1>3, <1>5 DEF TransactionInv, NoDebt

-----------------------------------------------------------------------------
(* The invariant *)

\* It holds at the start.
LEMMA TransactionInit == Init => TransactionInv
<1> SUFFICES ASSUME Init PROVE TransactionInv
  OBVIOUS
<1>1. /\ DOMAIN sessions = {} /\ active.step = "none" /\ debt.step = "none"
      /\ ~ remote.tentative
  BY DEF Init, NoTransaction, NoRemote
<1>2. /\ Now.sessions = sessions /\ Now.active = active
      /\ Now.remote = remote /\ Now.debt = debt
  BY DEF Now
<1>3. Sound(Now)
  BY <1>1, <1>2
     DEF Sound, LeaseIn, AloneIn, OrphanIn, CoverIn, UnderWay, PopIn
<1> QED
  BY <1>1, <1>3 DEF TransactionInv, NoDebt

\* Every step keeps it.
LEMMA TransactionStep ==
  TypeInv /\ InboxInv /\ Ended /\ TransactionInv /\ [Next]_vars
    => TransactionInv'
<1> SUFFICES ASSUME TypeInv, InboxInv, Ended, TransactionInv, [Next]_vars
             PROVE  TransactionInv'
  OBVIOUS
<1>1. CASE UNCHANGED vars
  BY <1>1, QuietSound
<1>2. CASE ScheduleStep
  BY <1>2, ScheduleLocalSound, ScheduleAgedSound, TurnPopSound,
     TurnDispatchSound, TurnRejectSound, QuietSound DEF ScheduleStep
<1>3. CASE ClientStep
  BY <1>3, AdmitSound, ClientFrameSound, ClientClosedSound, WrittenSound,
     WriteFailedSound DEF ClientStep
<1>4. CASE UpstreamStep
  <2>1. CASE LateUpstreamFrame \/ UpstreamClosed
    BY <2>1, EpochEndSound DEF LateUpstreamFrame, UpstreamClosed
  <2>2. CASE ~ (LateUpstreamFrame \/ UpstreamClosed)
    BY <1>4, <2>2, UpstreamWrittenSound, UpstreamFrameSound, QuietSound,
       DrainUncertainFrameSound, RestartSound DEF UpstreamStep
  <2> QED
    BY <2>1, <2>2
<1>5. CASE ClockStep
  <2>1. CASE ResponseTimeout \/ UpstreamWriteTimeout
    BY <2>1, EpochEndSound DEF ResponseTimeout, UpstreamWriteTimeout
  <2>2. CASE ~ (ResponseTimeout \/ UpstreamWriteTimeout)
    BY <1>5, <2>2, TickSound, QuietSound DEF ClockStep
  <2> QED
    BY <2>1, <2>2
<1> QED
  BY <1>1, <1>2, <1>3, <1>4, <1>5 DEF Next

\* The inductive invariant, of which the theorems are parts.
BrokerInv == TypeInv /\ InboxInv /\ Ended /\ TransactionInv

LEMMA TransactionInvariant == Spec => []BrokerInv
<1>1. Init => BrokerInv
  BY TypeInit, InboxInit, TransactionInit DEF BrokerInv
<1>2. BrokerInv /\ [Next]_vars => BrokerInv'
  BY TypeStep, InboxStep, TransactionStep DEF BrokerInv
<1> QED
  BY <1>1, <1>2, PTL DEF Spec

\* A remote reservation without a deadline belongs to a command whose reply is
\* still to come, so that record_acceptance, scope_response or the end of the
\* epoch releases it; and such a command still has what admit_command? reserved
\* for it when its reply is recorded, whatever pushes and ticks came between.
THEOREM ReservationAlways == Spec => []ReservationInFlight
<1>1. BrokerInv => ReservationInFlight
  BY NowSound
     DEF BrokerInv, TransactionInv, Sound, LeaseIn, UnderWay, ReservationInFlight
<1> QED
  BY <1>1, TransactionInvariant, PTL

\* From its dispatch until its result is written, an exclusive command shares
\* the companion with nobody: admit refuses connections, and no push, tick or
\* reply starts anything on the radio or a signing operation.
THEOREM MaintenanceAlone == Spec => []MaintenanceExclusive
<1>1. BrokerInv => MaintenanceExclusive
  <2> SUFFICES ASSUME BrokerInv, Busy, Exclusive(active.command)
               PROVE  /\ DOMAIN sessions \subseteq {active.owner}
                      /\ OffAir
                      /\ PendingCount(dm_ring) = 0
                      /\ signing.owner = 0
    BY DEF MaintenanceExclusive
  <2>1. /\ DOMAIN sessions \subseteq {active.owner}
        /\ uncertain.until # "live"
        /\ remote.kind = "none"
        /\ \A i \in RingSlots : dm_ring.slots[i].state # "live"
        /\ signing.owner = 0
    BY NowSound DEF BrokerInv, Sound, AloneIn, Busy
  <2>2. PendingCount(dm_ring) = 0
    BY <2>1, PendingZero
  <2>3. ~ Quarantined(uncertain, dm_ring)
    BY <2>1, <2>2 DEF Quarantined
  <2> QED
    BY <2>1, <2>2, <2>3 DEF OffAir
<1> QED
  BY <1>1, TransactionInvariant, PTL

\* An item popped for clients that have all left never replaces an orphan that
\* is still to be taken: fan_out stores one only for a pop dispatched while a
\* client without a slot was connected, and admit gives that client the orphan.
THEOREM OrphanKept == Spec => []OrphanIsFree
<1>1. BrokerInv => OrphanIsFree
  BY NowSound
     DEF BrokerInv, Sound, OrphanIn, PopIn, Popping, Busy, OrphanIsFree
<1> QED
  BY <1>1, TransactionInvariant, PTL

-----------------------------------------------------------------------------
(* How a pop ends *)

\* A handler that leaves the transaction running either ends the epoch, which
\* ends all sessions, or it still runs.
LEMMA StillRuns ==
  ASSUME NEW e, Commit(e), e.active.step # "none"
  PROVE  Busy' \/ DOMAIN sessions' = {}
<1>1. NextState(e)
  BY DEF Commit
<1> QED
  BY <1>1 DEF NextState, FailEpoch, Continue, Busy

\* What the loops of schedule do while a pop is in flight.
LEMMA PopSurvivesSchedule ==
  ASSUME BrokerInv, Popping, ScheduleStep
  PROVE  Busy' \/ DOMAIN sessions' = {}
<1>1. Busy /\ active.step # "none" /\ InboxInv
  BY DEF Popping, Busy, BrokerInv
<1>2. ASSUME NEW s \in DOMAIN sessions, ScheduleLocal(s)
      PROVE  Busy' \/ DOMAIN sessions' = {}
  <2> DEFINE command == Head(sessions[s].commands)
             e == [Now EXCEPT !.sessions[s].commands =
                                Tail(sessions[s].commands)]
  <2>1. e.active = active
    BY DEF Now
  <2>2. e = [Now EXCEPT !.sessions = e.sessions]
    BY DEF Now
  <2>3. LocalSync(e, s).active = active
    BY <2>1 DEF LocalSync, Now
  <2>4. LocalEffect(e, s, command).active = active
    BY <2>1, <2>3 DEF LocalEffect, Now
  <2>5. Commit(LocalEffect(e, s, command))
    BY <1>2 DEF ScheduleLocal
  <2> HIDE DEF e, command
  <2> QED
    BY <1>1, <2>4, <2>5, StillRuns
<1>3. ASSUME NEW s \in DOMAIN sessions, ScheduleAged(s)
      PROVE  Busy' \/ DOMAIN sessions' = {}
  <2> DEFINE e == [Now EXCEPT !.sessions[s] =
                     [Reply(sessions[s], "frame") EXCEPT
                        !.commands = Tail(sessions[s].commands)]]
  <2>1. e.active = active
    BY DEF Now
  <2>2. Commit(e)
    BY <1>3 DEF ScheduleAged
  <2> QED
    BY <1>1, <2>1, <2>2, StillRuns
<1>4. ASSUME NEW k, NEW s, NextTurn(k, s)
      PROVE  FALSE
  BY <1>1, <1>4, TurnIsFree DEF NextTurn
<1>5. CASE ScheduleBusy \/ TurnNone
  BY <1>1, <1>5 DEF ScheduleBusy, TurnNone, Busy
<1> QED
  BY <1>2, <1>3, <1>4, <1>5 DEF ScheduleStep, TurnPop, TurnDispatch, TurnReject

\* What clients do while a pop is in flight.
LEMMA PopSurvivesClients ==
  ASSUME BrokerInv, Popping, ClientStep
  PROVE  Busy' \/ DOMAIN sessions' = {}
<1>1. active.step = "command" /\ active.owner = 0
  BY DEF Popping, Busy, BrokerInv, TypeInv, PopShape
<1>2. Now.active = active /\ Fail(Now).active = active
  BY DEF Now, Fail
<1>3. \A id : [Now EXCEPT !.closed = {id}].active = active
  BY DEF Now
<1>4. ASSUME NEW d, Admit(d)
      PROVE  Busy' \/ DOMAIN sessions' = {}
  <2> DEFINE id == next_session + 1
             old == IF d = 0 THEN 0 ELSE slots[d].attached
             others == DOMAIN sessions \ {old}
             given == IF TakesOrphan(d) THEN <<orphan>> ELSE <<>>
             new == Hint([NewSession(d) EXCEPT !.inbox = given])
             e == [Now EXCEPT
                     !.sessions = [s \in others \cup {id} |->
                                     IF s = id THEN new ELSE sessions[s]],
                     !.order = Append(order, id),
                     !.slots = [x \in Slots |->
                                  IF x = d THEN [slots[x] EXCEPT !.attached = id]
                                  ELSE slots[x]],
                     !.orphan = IF TakesOrphan(d) THEN 0 ELSE orphan,
                     !.drain = IF others = {} THEN NoDrain ELSE drain]
  <2>1. e.active = active
    BY DEF Now
  <2>2. UNCHANGED active \/ CommitAndSchedule(e)
    BY <1>4 DEF Admit
  <2> HIDE DEF e
  <2> QED
    BY <1>1, <2>1, <2>2, StillRuns DEF CommitAndSchedule, Busy
<1>5. ASSUME NEW s, NEW command, ClientFrame(s, command)
      PROVE  Busy' \/ DOMAIN sessions' = {}
  <2> DEFINE queued == [sessions[s] EXCEPT
                          !.commands = Append(sessions[s].commands, command),
                          !.owed = Append(sessions[s].owed, command)]
             e == [Now EXCEPT !.sessions[s] = queued]
  <2>1. e.active = active
    BY DEF Now
  <2>2. CommitAndSchedule([Now EXCEPT !.closed = {s}]) \/ CommitAndSchedule(e)
    BY <1>5 DEF ClientFrame
  <2> HIDE DEF e
  <2> QED
    BY <1>1, <1>3, <2>1, <2>2, StillRuns DEF CommitAndSchedule
<1>6. ASSUME NEW s, ClientClosed(s)
      PROVE  Busy' \/ DOMAIN sessions' = {}
  BY <1>1, <1>3, <1>6, StillRuns DEF ClientClosed, CommitAndSchedule
<1>7. ASSUME NEW s, Written(s)
      PROVE  Busy' \/ DOMAIN sessions' = {}
  <2>1. \E e : CommitAndSchedule(e) /\ e.active = active
    BY <1>1, <1>7 DEF Written, Now
  <2> QED
    BY <1>1, <2>1, StillRuns DEF CommitAndSchedule
<1>8. ASSUME NEW id, WriteFailed(id)
      PROVE  Busy' \/ DOMAIN sessions' = {}
  BY <1>1, <1>2, <1>3, <1>8, StillRuns DEF WriteFailed, CommitAndSchedule
<1> QED
  BY <1>4, <1>5, <1>6, <1>7, <1>8 DEF ClientStep

\* A pop ends with the companion's answer, or with the epoch.
LEMMA PopEnds ==
  ASSUME BrokerInv, Next, Popping, ~ Busy', DOMAIN sessions' # {}
  PROVE  \E f \in Frames :
           /\ f.code \in {"message", "no_more_messages"}
           /\ Commit(PopResult(Finish(WriteIsOver), active, f))
<1>1. /\ active.step = "command" /\ active.owner = 0 /\ active.command = Sync
      /\ active \in Transaction /\ Busy /\ ~ failed
  BY DEF Popping, Busy, BrokerInv, TypeInv, TypeOK, PopShape, Ended
<1>2. Now.active = active /\ Fail(Now).active = active
  BY DEF Now, Fail
<1>3. ~ ScheduleStep /\ ~ ClientStep
  BY PopSurvivesSchedule, PopSurvivesClients
<1>4. ~ CommitAndSchedule(Fail(Now))
  BY <1>1, <1>2, StillRuns DEF CommitAndSchedule
<1>5. ~ ClockStep
  <2>1. ~ ResponseTimeout /\ ~ UpstreamWriteTimeout
    BY <1>4 DEF ResponseTimeout, UpstreamWriteTimeout
  <2>2. ~ QuarantineDeadline /\ \A i \in RingSlots : ~ DmDeadline(i)
    BY <1>1 DEF QuarantineDeadline, DmDeadline, Busy
  <2>3. ASSUME NEW stuck, NEW late, NEW expired, NEW poll,
               Tick(stuck, late, expired, poll)
        PROVE  FALSE
    <3> DEFINE table == [s \in DOMAIN sessions |->
                           IF s \in late
                           THEN [Reply(sessions[s], "frame") EXCEPT !.sync = 0]
                           ELSE sessions[s]]
               e == [Now EXCEPT
                       !.closed = stuck,
                       !.sessions = IF poll THEN HintAll(table) ELSE table,
                       !.remote = IF "remote" \in expired THEN NoRemote
                                  ELSE remote,
                       !.signing = IF "signing" \in expired THEN NoSigning
                                   ELSE signing]
    <3>1. e.active = active
      BY DEF Now
    <3>2. CommitAndSchedule(e)
      BY <2>3 DEF Tick
    <3> HIDE DEF e
    <3> QED
      BY <1>1, <3>1, <3>2, StillRuns DEF CommitAndSchedule
  <2> QED
    BY <2>1, <2>2, <2>3 DEF ClockStep
<1>6. UpstreamStep
  BY <1>3, <1>5 DEF Next
<1>7. ASSUME NEW w, UpstreamWritten(w)
      PROVE  FALSE
  <2> DEFINE write == IF AwaitsWrite(w) THEN 0 ELSE active.write
             e == [Now EXCEPT !.upstream_writes = upstream_writes \ {w},
                              !.active.write = write]
  <2>1. [active EXCEPT !.write = write].step = active.step
    BY <1>1 DEF Transaction
  <2>2. e.active = [active EXCEPT !.write = write]
    BY DEF Now
  <2>3. CommitAndSchedule(e)
    BY <1>7 DEF UpstreamWritten
  <2> HIDE DEF e
  <2> QED
    BY <1>1, <2>1, <2>2, <2>3, StillRuns DEF CommitAndSchedule
<1>8. PICK f \in Frames : UpstreamFrame(f)
  <2>1. ~ LateUpstreamFrame /\ ~ UpstreamClosed
    BY <1>4 DEF LateUpstreamFrame, UpstreamClosed
  <2>2. ~ TakeWrite
    BY <1>1 DEF TakeWrite, Busy
  <2>3. \A f \in Frames : ~ DrainUncertainFrame(f)
    BY <1>1 DEF DrainUncertainFrame
  <2>4. \A same_key \in BOOLEAN : ~ Restart(same_key)
    BY <1>1 DEF Restart
  <2> QED
    BY <1>6, <1>7, <2>1, <2>2, <2>3, <2>4 DEF UpstreamStep
<1>9. ~ CommitAndSchedule(Push(f))
  <2>1. ~ AnswersSelfTelemetry(f)
    BY <1>1 DEF AnswersSelfTelemetry, Sync
  <2>2. SameTransaction(active, Push(f).active)
    BY <2>1, PushKeeps, NowSound DEF BrokerInv, Keeps
  <2>3. Push(f).active.step # "none"
    BY <1>1, <2>2 DEF SameTransaction, UnderWay
  <2> QED
    BY <2>3, StillRuns DEF CommitAndSchedule
<1>10. CommitAndSchedule(TransactionResponse(f))
  BY <1>4, <1>8, <1>9 DEF UpstreamFrame
<1>11. ~ CommitAndSchedule(Fail(WriteIsOver))
  <2>1. WriteIsOver.active = [active EXCEPT !.write = 0]
    BY WriteIsOverKeeps DEF BrokerInv
  <2>2. Fail(WriteIsOver).active.step = "command"
    BY <1>1, <2>1 DEF Fail, WriteIsOver, Now, Transaction
  <2> QED
    BY <2>2, StillRuns DEF CommitAndSchedule
<1>12. /\ ValidResponse(active.command, active.contacts_started, f)
       /\ f.code # "err"
       /\ CommitAndSchedule(PopResult(Finish(WriteIsOver), active, f))
  BY <1>1, <1>10, <1>11 DEF TransactionResponse
<1>13. f.code \in {"message", "no_more_messages"}
  <2>1. active.contacts_started \in BOOLEAN
    BY <1>1 DEF Transaction
  <2> QED
    BY <1>1, <1>12, <2>1, SyncReplies
<1> QED
  BY <1>12, <1>13 DEF CommitAndSchedule

\* The answer that ends a wait without an item ends one that began before the
\* pop that found the inbox empty: a client that began to wait later goes on
\* waiting, for a pop that has seen what arrived in between.
THEOREM EmptyAnswerHonest == Spec => EmptyIsHonest
<1> DEFINE Honest(s) ==
             /\ Popping
             /\ ~ Busy'
             /\ s \in DOMAIN sessions'
             /\ sessions'[s].sync = 0
             /\ sessions'[s].writes = Append(sessions[s].writes, "frame")
             => s \in active.covers
<1>1. ASSUME BrokerInv, Next, NEW s \in Waiting, Popping, ~ Busy',
             s \in DOMAIN sessions', sessions'[s].sync = 0,
             sessions'[s].writes = Append(sessions[s].writes, "frame")
      PROVE  s \in active.covers
  <2> DEFINE n == next_session
             e == Finish(WriteIsOver)
  <2>1. PICK f \in Frames :
          /\ f.code \in {"message", "no_more_messages"}
          /\ Commit(PopResult(e, active, f))
    BY <1>1, PopEnds
  <2>2. TypeInv /\ TransactionInv
    BY <1>1 DEF BrokerInv
  <2>3. n \in Nat /\ WriteIsOver \in State(n)
    BY <2>2, NowSound, WriteIsOverKeeps
  <2>4. e \in State(n) /\ e.sessions = sessions
    BY <2>3, FinishType DEF Finish, WriteIsOver, Now
  <2> DEFINE x == PopResult(e, active, f)
  <2>5. PopEffect(e, x) /\ AnswersWaits(e, active, x)
    <3> HIDE DEF e
    <3> QED
      BY <2>1, <2>3, <2>4, PopResultEffect
  <2> HIDE DEF x
  <2>6. s \in DOMAIN x.sessions /\ sessions'[s] = x.sessions[s]
    <3>1. NextState(x)
      BY <2>1 DEF Commit, x
    <3> QED
      BY <1>1, <3>1 DEF NextState, FailEpoch, Continue, Survivors
  <2>7. \/ sessions[s].sync <= active.pop_sequence
        \/ \E kind \in ItemKinds :
             x.sessions[s].writes = Append(sessions[s].writes, kind)
    BY <1>1, <2>4, <2>5, <2>6 DEF AnswersWaits, Waiting
  <2>8. \A kind \in ItemKinds :
          Append(sessions[s].writes, kind) # Append(sessions[s].writes, "frame")
    <3>1. sessions[s].writes \in Seq(WriteKinds)
      BY <1>1, <2>2 DEF TypeInv, TypeOK, Waiting, Session
    <3> QED
      BY <3>1 DEF ItemKinds, WriteKinds
  <2>9. sessions[s].sync <= active.pop_sequence
    BY <1>1, <2>6, <2>7, <2>8
  <2> QED
    BY <1>1, <2>2, <2>9, NowSound
       DEF Sound, CoverIn, PopIn, Popping, Busy, Waiting
<1>2. BrokerInv /\ [Next]_vars => [\A s \in Waiting : Honest(s)]_vars
  BY <1>1
<1> QED
  BY <1>2, TransactionInvariant, PTL DEF Spec, EmptyIsHonest

-----------------------------------------------------------------------------
\* The least element of a set of natural numbers.
LEMMA LeastOfNaturals ==
  ASSUME NEW S, S \subseteq Nat, S # {}
  PROVE  \E i \in S : \A j \in S : i <= j
<1> DEFINE R == OpToRel(<, Nat)
<1>1. IsWellFoundedOn(R, Nat)
  BY NatLessThanWellFounded
<1>2. \A x, y \in Nat : x < y => <<x, y>> \in R
  BY DEF OpToRel
<1> HIDE DEF R
<1>3. PICK x \in S : \A y \in S : <<y, x>> \notin R
  BY <1>1, WFMin
<1>4. \A y \in S : ~ (y < x)
  BY <1>2, <1>3
<1>5. \A y \in S : x <= y
  BY <1>4
<1> QED
  BY <1>5

-----------------------------------------------------------------------------
(* DirectsSurvive *)

\* What is in a slot's queue and has not come from a channel stays there, or
\* is the first entry and goes to the slot's client.
Spares(e, x) ==
  \A d \in Slots : \A i \in DOMAIN e.slots[d].queue :
    LET item == e.slots[d].queue[i]
    IN item \notin ChannelItems =>
         \/ \E j \in DOMAIN x.slots[d].queue : x.slots[d].queue[j] = item
         \/ i = 1 /\ e.slots[d].attached # 0 /\ x.slots[d].last = item

SameQueues(e, x) == \A d \in Slots : x.slots[d].queue = e.slots[d].queue

LEMMA SameQueuesSpare ==
  ASSUME NEW e, NEW x, SameQueues(e, x)
  PROVE  Spares(e, x)
BY DEF SameQueues, Spares

\* The entry that makes room is one from a channel.
LEMMA OldestIsChannel ==
  ASSUME NEW queue \in Seq(Items), Full(queue), ~ Discards(queue)
  PROVE  OldestChannel(queue) \in ChannelIndexes(queue)
<1>1. ChannelIndexes(queue) \subseteq Nat /\ ChannelIndexes(queue) # {}
  BY DEF ChannelIndexes, Discards
<1>2. \E i \in ChannelIndexes(queue) :
        \A j \in ChannelIndexes(queue) : i <= j
  BY <1>1, LeastOfNaturals
<1> QED
  BY <1>2 DEF OldestChannel

\* enqueue: whatever arrives, a direct message that was queued still is.
LEMMA EnqueueSpares ==
  ASSUME NEW queue \in Seq(Items), NEW item \in Items,
         NEW i \in 1 .. Len(queue), queue[i] \notin ChannelItems
  PROVE  LET after == EnqueueOffline(queue, item)
         IN \E j \in DOMAIN after : after[j] = queue[i]
<1> DEFINE after == EnqueueOffline(queue, item)
<1>1. CASE Discards(queue)
  BY <1>1 DEF EnqueueOffline
<1>2. CASE Full(queue) /\ ~ Discards(queue)
  <2> DEFINE c == OldestChannel(queue)
             rest == DeleteAt(queue, c)
  <2>1. c \in 1 .. Len(queue) /\ queue[c] \in ChannelItems
    BY <1>2, OldestIsChannel DEF ChannelIndexes
  <2>2. after = Append(rest, item)
    BY <1>2 DEF EnqueueOffline
  <2>3. queue # <<>>
    OBVIOUS
  <2> HIDE DEF c
  <2>4. rest \in Seq(Items)
    BY <2>3, DeleteAtType
  <2>5. /\ Len(rest) = Len(queue) - 1
        /\ \A j \in 1 .. Len(queue) - 1 :
             rest[j] = IF j < c THEN queue[j] ELSE queue[j + 1]
    <3>1. Len(queue) - 1 \in Nat
      BY <2>3
    <3> QED
      BY <3>1, <2>4 DEF DeleteAt
  <2> HIDE DEF rest, after
  <2>6. \A j \in 1 .. Len(rest) : j \in DOMAIN after /\ after[j] = rest[j]
    BY <2>2, <2>4
  <2>7. i # c
    BY <2>1
  <2>8. CASE i < c
    <3>1. i \in 1 .. Len(rest) /\ rest[i] = queue[i]
      BY <2>1, <2>5, <2>8
    <3> QED
      BY <2>6, <3>1 DEF after
  <2>9. CASE i > c
    <3>1. i - 1 \in 1 .. Len(rest) /\ rest[i - 1] = queue[i]
      BY <2>1, <2>5, <2>9
    <3> QED
      BY <2>6, <3>1 DEF after
  <2> QED
    BY <2>1, <2>7, <2>8, <2>9
<1>3. CASE ~ Full(queue)
  <2>1. after = Append(queue, item)
    BY <1>3 DEF EnqueueOffline, Discards
  <2>2. i \in DOMAIN Append(queue, item) /\ Append(queue, item)[i] = queue[i]
    OBVIOUS
  <2> QED
    BY <2>1, <2>2
<1> QED
  BY <1>1, <1>2, <1>3

\* fan_out: a client that waits on a slot waits on an empty queue, so that what
\* it is handed at once is the new item and never one that was waiting.
LEMMA FanOutSpares ==
  ASSUME NEW n \in Nat, NEW e \in State(n), NEW tx, NEW item \in Items,
         AttachedIn(e), WaitsIn(e)
  PROVE  Spares(e, FanOut(e, tx, item))
<1> DEFINE x == FanOut(e, tx, item)
<1>1. \A d \in Slots : x.slots[d] = FanOutSlot(e, d, item)
  BY DEF FanOut, State
<1> HIDE DEF x
<1>2. ASSUME NEW d \in Slots, NEW i \in DOMAIN e.slots[d].queue,
             e.slots[d].queue[i] \notin ChannelItems
      PROVE  \E j \in DOMAIN x.slots[d].queue :
               x.slots[d].queue[j] = e.slots[d].queue[i]
  <2> DEFINE slot == e.slots[d]
             queued == [slot EXCEPT !.queue = EnqueueOffline(slot.queue, item)]
  <2>1. slot \in Slot /\ slot.queue \in Seq(Items)
    BY DEF State, Slot
  <2>2. i \in 1 .. Len(slot.queue) /\ slot.queue # <<>>
    BY <1>2, <2>1
  <2>3. ~ (slot.attached \in DOMAIN e.sessions
             /\ e.sessions[slot.attached].sync # 0)
    <3> SUFFICES ASSUME slot.attached \in DOMAIN e.sessions,
                        e.sessions[slot.attached].sync # 0
                 PROVE  FALSE
      OBVIOUS
    <3>1. slot.attached # 0 /\ d # 0
      BY TableType, BrokerAssumption DEF State
    <3>2. e.sessions[slot.attached].slot = d
      BY <3>1 DEF AttachedIn
    <3> QED
      BY <2>2, <3>1, <3>2 DEF WaitsIn, QueueOf
  <2>4. x.slots[d] = queued
    BY <1>1, <2>3 DEF FanOutSlot
  <2>5. queued.queue = EnqueueOffline(slot.queue, item)
    BY <2>1 DEF Slot
  <2> QED
    <3> DEFINE queue == slot.queue
               after == EnqueueOffline(queue, item)
    <3>1. queue \in Seq(Items) /\ i \in 1 .. Len(queue) /\ queue[i] \notin ChannelItems
      BY <1>2, <2>1, <2>2
    <3>2. x.slots[d].queue = after
      BY <2>4, <2>5
    <3> HIDE DEF queue, queued, slot
    <3>3. \E j \in DOMAIN after : after[j] = queue[i]
      BY <3>1, EnqueueSpares
    <3> HIDE DEF after
    <3>4. \E j \in DOMAIN x.slots[d].queue : x.slots[d].queue[j] = queue[i]
      BY <3>2, <3>3
    <3> QED
      BY <3>4 DEF queue, slot
<1>3. Spares(e, x)
  BY <1>2 DEF Spares
<1> QED
  BY <1>3 DEF x

LEMMA PopResultSpares ==
  ASSUME NEW n \in Nat, NEW e \in State(n), NEW tx, NEW f \in Frames,
         f.code \in {"message", "no_more_messages"}, AttachedIn(e), WaitsIn(e)
  PROVE  Spares(e, PopResult(e, tx, f))
<1>1. NoMoreMessages(e, tx).slots = e.slots
  BY DEF NoMoreMessages, State
<1>2. [e EXCEPT !.drain.requested = e.drain.authorized].slots = e.slots
  BY DEF State
<1>3. f.code = "message" => f.arg \in Items
  BY BrokerAssumption
<1> QED
  BY <1>1, <1>2, <1>3, FanOutSpares, SameQueuesSpare
     DEF PopResult, SameQueues

-----------------------------------------------------------------------------
(* Steps that leave every queue alone *)

\* What one step may do to the queues of the slots in an epoch.
QueuesSpared ==
  \A d \in Slots : \A i \in DOMAIN slots[d].queue :
    LET item == slots[d].queue[i]
    IN item \notin ChannelItems =>
         \/ \E j \in DOMAIN slots'[d].queue : slots'[d].queue[j] = item
         \/ i = 1 /\ slots[d].attached # 0 /\ slots'[d].last = item

\* However a handler ends, the queues are as it left them.
LEMMA CommitSpares ==
  ASSUME NEW x, Commit(x), x.slots \in [Slots -> Slot], Spares(Now, x)
  PROVE  QueuesSpared
<1>1. NextState(x)
  BY DEF Commit
<1>2. \E left : slots' = Detach(x.slots, left)
  BY <1>1 DEF NextState, FailEpoch, Continue
<1>3. ASSUME NEW d \in Slots
      PROVE  slots'[d].queue = x.slots[d].queue /\ slots'[d].last = x.slots[d].last
  <2>1. x.slots[d] \in Slot
    OBVIOUS
  <2> QED
    BY <1>2, <2>1 DEF Detach, Slot
<1>4. Now.slots = slots
  BY DEF Now
<1> QED
  BY <1>3, <1>4 DEF Spares, QueuesSpared

LEMMA QuietCommit ==
  ASSUME TypeInv, NEW x, Commit(x), x.slots = slots
  PROVE  QueuesSpared
<1>1. slots \in [Slots -> Slot] /\ Now.slots = slots
  BY DEF TypeInv, TypeOK, Now
<1> QED
  BY <1>1, SameQueuesSpare, CommitSpares DEF SameQueues

LEMMA StoredSpared ==
  ASSUME UNCHANGED slots
  PROVE  QueuesSpared
BY DEF QueuesSpared

\* What follows a reply to a client's command has nothing to do with slots.
LEMMA ReplyLeavesSlots ==
  ASSUME NEW n \in Nat, NEW e \in State(n), NEW f \in Frames,
         e.active.owner # 0
  PROVE  /\ CommandResponse(e, f).slots = e.slots
         /\ e.active.step \in {"setup", "restore"} =>
              ScopeResponse(e, f).slots = e.slots
<1>1. /\ Fail(e).slots = e.slots
      /\ \A tx : SendCommand(e, tx).slots = e.slots
      /\ Finish(e).slots = e.slots
  BY DEF Fail, SendCommand, SendUpstream, Finish, State
<1>2. CommandResponse(e, f).slots = e.slots
  <2> DEFINE x == ReplyToOwner(e, f)
             y == RecordAcceptance(x, e.active.command, f)
  <2>1. x \in State(n) /\ x.active = e.active /\ x.slots = e.slots
    <3>1. x.slots = e.slots
      BY DEF ReplyToOwner, State
    <3> QED
      BY <3>1, ReplyToOwnerType, OwnerKept
  <2>2. e.active.command \in Command
    BY DEF State, Transactions, Transaction
  <2> HIDE DEF x
  <2>3. y \in State(n) /\ y.slots = x.slots
    BY <2>1, <2>2, RecordAcceptanceType DEF RecordAcceptance, State
  <2> HIDE DEF y
  <2>4. AfterCommand(y).slots = y.slots
    BY <2>3 DEF AfterCommand, SendUpstream, Finish, State
  <2>5. [x EXCEPT !.active.contacts_started = TRUE].slots = x.slots
    BY <2>1 DEF State
  <2> QED
    BY <2>1, <2>3, <2>4, <2>5 DEF CommandResponse, x, y
<1>3. ASSUME e.active.step \in {"setup", "restore"}
      PROVE  ScopeResponse(e, f).slots = e.slots
  <2> DEFINE tx == e.active
             refused == IF tx.owner \in DOMAIN e.sessions
                        THEN [e EXCEPT !.sessions[tx.owner] =
                                Reply(e.sessions[tx.owner], "frame")]
                        ELSE e
             lease == IF tx.command.op \in RemoteLease THEN NoRemote ELSE e.remote
             dropped == [refused EXCEPT !.remote = lease]
  <2>1. Finish(dropped).slots = e.slots
    BY DEF Finish, State
  <2>2. ScopeResponse(e, f) \in {SendCommand(e, tx), Finish(e),
                                 Finish(dropped), Fail(e)}
    BY <1>3 DEF ScopeResponse
  <2> HIDE DEF dropped
  <2> QED
    BY <1>1, <2>1, <2>2
<1> QED
  BY <1>2, <1>3

\* A push writes to sessions only, unless it answers the running command.
LEMMA PushLeavesSlots ==
  ASSUME NEW f, ~ AnswersSelfTelemetry(f)
  PROVE  Push(f).slots = slots
<1>1. RemoteResult(f).slots = slots
  BY DEF RemoteResult, Now
<1>2. AvailabilityHint.slots = slots
  BY DEF AvailabilityHint, Now
<1> QED
  BY <1>1, <1>2 DEF Push, Now

-----------------------------------------------------------------------------
(* Steps that change a queue *)

\* admit: the slot's new client is attached to the same queue.
LEMMA AdmitSpares ==
  ASSUME TypeInv, NEW d, Admit(d)
  PROVE  QueuesSpared
<1> DEFINE id == next_session + 1
           old == IF d = 0 THEN 0 ELSE slots[d].attached
           others == DOMAIN sessions \ {old}
           given == IF TakesOrphan(d) THEN <<orphan>> ELSE <<>>
           new == Hint([NewSession(d) EXCEPT !.inbox = given])
           table == [x \in Slots |->
                       IF x = d THEN [slots[x] EXCEPT !.attached = id]
                       ELSE slots[x]]
           e == [Now EXCEPT
                   !.sessions = [s \in others \cup {id} |->
                                   IF s = id THEN new ELSE sessions[s]],
                   !.order = Append(order, id),
                   !.slots = table,
                   !.orphan = IF TakesOrphan(d) THEN 0 ELSE orphan,
                   !.drain = IF others = {} THEN NoDrain ELSE drain]
<1>1. CASE UNCHANGED slots
  BY <1>1, StoredSpared
<1>2. CASE Commit(e)
  <2>1. e.slots = table /\ Now.slots = slots
    BY DEF Now
  <2>2. id \in Nat /\ \A x \in Slots : slots[x] \in Slot
    BY DEF TypeInv, TypeOK
  <2>3. table \in [Slots -> Slot]
    BY <2>2 DEF Slot
  <2>4. \A x \in Slots : table[x].queue = slots[x].queue
    BY <2>2 DEF Slot
  <2> HIDE DEF e, table
  <2>5. SameQueues(Now, e)
    BY <2>1, <2>4 DEF SameQueues
  <2> QED
    BY <1>2, <2>1, <2>3, <2>5, SameQueuesSpare, CommitSpares
<1>3. UNCHANGED slots \/ Commit(e)
  BY DEF Admit, CommitAndSchedule
<1> QED
  BY <1>1, <1>2, <1>3

\* A sync that the queue answers: its first entry leaves it for the client.
LEMMA LocalSyncSpares ==
  ASSUME TypeInv, InboxInv, NEW s \in DOMAIN sessions, NEW e,
         e.slots = slots, e.sessions[s].slot = sessions[s].slot,
         e = [Now EXCEPT !.sessions = e.sessions]
  PROVE  /\ Spares(Now, LocalSync(e, s))
         /\ LocalSync(e, s).slots \in [Slots -> Slot]
<1> DEFINE session == e.sessions[s]
           d == sessions[s].slot
           x == LocalSync(e, s)
<1>1. slots \in [Slots -> Slot] /\ Now.slots = slots
  BY DEF TypeInv, TypeOK, Now
<1>2. CASE InboxFor(s) = <<>> \/ d = 0
  <2>1. x.slots = slots
    BY <1>2 DEF LocalSync, Now
  <2> QED
    BY <1>1, <2>1, SameQueuesSpare DEF SameQueues
<1>3. CASE InboxFor(s) # <<>> /\ d # 0
  <2> DEFINE slot == slots[d]
             rest == Shifted(slot, session)
  <2>1. d \in Slots /\ slot \in Slot
    BY <1>1, <1>3 DEF TypeInv, TypeOK, Session
  <2>2. slot.queue # <<>> /\ slot.attached = s /\ s # 0
    BY <1>3 DEF InboxFor, InboxInv, SlotAttachment, TypeInv, TypeOK
  <2>3. slot.queue \in Seq(Items)
    BY <2>1 DEF Slot
  <2>4. \/ rest = slot
        \/ /\ rest.queue = Tail(slot.queue)
           /\ rest.last = Head(slot.queue)
           /\ rest \in Slot
    <3>1. Tail(slot.queue) \in Seq(Items) /\ Head(slot.queue) \in Nat
      BY <2>2, <2>3, ItemsAreNumbers
    <3> HIDE DEF slot
    <3> QED
      BY <2>1, <3>1 DEF Shifted, Slot
  <2>5. x.slots = [slots EXCEPT ![d] = rest]
    BY <1>3 DEF LocalSync, Now
  <2> HIDE DEF x, rest
  <2>6. rest \in Slot
    BY <2>1, <2>4
  <2>7. x.slots \in [Slots -> Slot]
    BY <1>1, <2>5, <2>6
  <2>8. \A y \in Slots : y # d => x.slots[y] = slots[y]
    BY <1>1, <2>5
  <2>9. x.slots[d] = rest
    BY <1>1, <2>1, <2>5
  <2>10. ASSUME NEW i \in DOMAIN slot.queue
         PROVE  \/ \E j \in DOMAIN rest.queue : rest.queue[j] = slot.queue[i]
                \/ i = 1 /\ slot.attached # 0 /\ rest.last = slot.queue[i]
    <3> DEFINE queue == slot.queue
    <3>1. i \in 1 .. Len(queue)
      BY <2>3
    <3>2. CASE rest = slot
      BY <3>2
    <3>3. CASE rest.queue = Tail(queue) /\ rest.last = Head(queue) /\ i = 1
      BY <2>2, <2>3, <3>3
    <3>4. CASE rest.queue = Tail(queue) /\ i # 1
      <4> HIDE DEF slot
      <4>1. /\ i - 1 \in DOMAIN Tail(queue)
            /\ Tail(queue)[i - 1] = queue[i]
        BY <2>2, <2>3, <3>1, <3>4
      <4> QED
        BY <3>4, <4>1
    <3> QED
      BY <2>4, <3>2, <3>3, <3>4
  <2>11. Spares(Now, x)
    BY <1>1, <2>8, <2>9, <2>10 DEF Spares
  <2> QED
    BY <2>7, <2>11 DEF x
<1> QED
  BY <1>2, <1>3

LEMMA ScheduleLocalSpares ==
  ASSUME TypeInv, InboxInv, NEW s, ScheduleLocal(s)
  PROVE  QueuesSpared
<1> DEFINE command == Head(sessions[s].commands)
           taken == [sessions[s] EXCEPT !.commands = Tail(sessions[s].commands)]
           e == [Now EXCEPT !.sessions[s].commands = Tail(sessions[s].commands)]
<1>1. s \in DOMAIN sessions /\ sessions[s] \in Session
  BY DEF ScheduleLocal, LocalReady, TypeInv, TypeOK
<1>2. /\ e.slots = slots
      /\ e.sessions = [sessions EXCEPT ![s] = taken]
      /\ e = [Now EXCEPT !.sessions = e.sessions]
  BY DEF Now
<1>3. e.sessions[s].slot = sessions[s].slot
  <2>1. taken.slot = sessions[s].slot
    BY <1>1 DEF Session
  <2> QED
    BY <1>1, <1>2, <2>1
<1>4. Commit(LocalEffect(e, s, command))
  BY DEF ScheduleLocal
<1> HIDE DEF e
<1>5. /\ Spares(Now, LocalSync(e, s))
      /\ LocalSync(e, s).slots \in [Slots -> Slot]
  BY <1>1, <1>2, <1>3, LocalSyncSpares
<1>6. LocalEffect(e, s, command) = LocalSync(e, s)
      \/ LocalEffect(e, s, command).slots = slots
  BY <1>2 DEF LocalEffect, Now
<1> QED
  BY <1>4, <1>5, <1>6, CommitSpares, QuietCommit

\* One physical item for all clients, popped in this epoch or owed by the last.
LEMMA PoppedSpares ==
  ASSUME NEW n \in Nat, NEW e \in State(n), NEW tx \in Transaction,
         NEW f \in Frames, f.code \in {"message", "no_more_messages"},
         e.slots = slots, AttachedIn(e), WaitsIn(e),
         Commit(PopResult(e, tx, f))
  PROVE  QueuesSpared
<1>1. PopResult(e, tx, f) \in State(n)
  BY PopResultType
<1>2. Spares(e, PopResult(e, tx, f))
  BY PopResultSpares
<1>3. Spares(Now, PopResult(e, tx, f))
  BY <1>2 DEF Spares, Now
<1> QED
  BY <1>1, <1>3, CommitSpares DEF State

LEMMA TransactionResponseSpares ==
  ASSUME TypeInv, InboxInv, TransactionInv, NEW f \in Frames,
         Commit(TransactionResponse(f))
  PROVE  QueuesSpared
<1> DEFINE n == next_session
           e == WriteIsOver
<1>1. n \in Nat /\ e \in State(n)
  BY NowSound, WriteIsOverKeeps
<1>2. active \in Transaction /\ PopShape(active)
  BY DEF TypeInv, TypeOK
<1>3. e.active.step = active.step /\ e.active.owner = active.owner
  BY <1>2, WriteIsOverKeeps DEF Transaction
<1>4. e.sessions = sessions /\ e.slots = slots /\ e.drain = drain
  BY DEF WriteIsOver, Now
<1> HIDE DEF e, n
<1>5. Fail(e).slots = slots /\ Finish(e).slots = slots
  BY <1>1, <1>4 DEF Fail, Finish, State
<1>6. CASE TransactionResponse(f).slots = slots
  BY <1>6, QuietCommit
<1>7. CASE active.step \in {"setup", "restore"}
  <2>1. TransactionResponse(f) = ScopeResponse(e, f) /\ active.owner # 0
    BY <1>2, <1>7 DEF TransactionResponse, PopShape, e
  <2> QED
    BY <1>1, <1>3, <1>4, <1>6, <1>7, <2>1, ReplyLeavesSlots
<1>8. CASE active.step = "command" /\ active.owner # 0
  <2>1. TransactionResponse(f) \in {Fail(e), CommandResponse(e, f)}
    BY <1>8 DEF TransactionResponse, e
  <2> QED
    BY <1>1, <1>3, <1>4, <1>5, <1>6, <1>8, <2>1, ReplyLeavesSlots
<1>9. CASE active.step = "command" /\ active.owner = 0
  <2>1. active.command = Sync /\ active.contacts_started \in BOOLEAN
    BY <1>2, <1>9 DEF PopShape, Transaction
  <2>2. ValidResponse(active.command, active.contacts_started, f)
          => f.code \in {"err", "message", "no_more_messages"}
    BY <2>1, SyncReplies
  <2>3. \/ TransactionResponse(f) = Fail(e)
        \/ /\ f.code \in {"message", "no_more_messages"}
           /\ TransactionResponse(f) = PopResult(Finish(e), active, f)
    BY <1>9, <2>2 DEF TransactionResponse, e
  <2>4. Finish(e) \in State(n)
    BY <1>1, FinishType
  <2>5. AttachedIn(Finish(e)) /\ WaitsIn(Finish(e))
    <3>1. /\ Finish(e).sessions = sessions
          /\ Finish(e).slots = slots /\ Finish(e).drain = drain
      BY <1>1, <1>4 DEF Finish, State
    <3> QED
      BY <3>1, NowFacts DEF Good, AttachedIn, WaitsIn, QueueOf
  <2>6. ASSUME f.code \in {"message", "no_more_messages"},
               Commit(PopResult(Finish(e), active, f))
        PROVE  QueuesSpared
    BY <1>1, <1>2, <1>5, <2>4, <2>5, <2>6, PoppedSpares
  <2> QED
    BY <1>5, <1>6, <2>3, <2>6
<1>10. CASE active.step \in {"none", "result"}
  <2>1. TransactionResponse(f) = Fail(e)
    BY <1>10 DEF TransactionResponse, e
  <2> QED
    BY <1>5, <1>6, <2>1
<1> QED
  BY <1>2, <1>7, <1>8, <1>9, <1>10 DEF Transaction, Steps

LEMMA PushSpares ==
  ASSUME TypeInv, InboxInv, TransactionInv, NEW f \in Frames, Commit(Push(f))
  PROVE  QueuesSpared
<1>1. CASE AnswersSelfTelemetry(f)
  <2>1. Push(f) = TransactionResponse(f)
    BY <1>1 DEF Push, AnswersSelfTelemetry, RemotePushes
  <2> QED
    BY <2>1, TransactionResponseSpares
<1>2. CASE ~ AnswersSelfTelemetry(f)
  BY <1>2, PushLeavesSlots, QuietCommit
<1> QED
  BY <1>1, <1>2

LEMMA DrainUncertainFrameSpares ==
  ASSUME TypeInv, InboxInv, TransactionInv, NEW f \in Frames,
         DrainUncertainFrame(f)
  PROVE  QueuesSpared
<1> DEFINE n == next_session
           paid == [Now EXCEPT !.debt = NoTransaction]
           started == [Now EXCEPT !.debt.contacts_started = TRUE]
<1>1. n \in Nat /\ paid \in State(n)
  BY NowFacts, SmallChanges
<1>2. debt \in Transaction /\ PopShape(debt)
  BY DEF TypeInv, TypeOK
<1>3. /\ paid.sessions = sessions /\ paid.slots = slots /\ paid.drain = drain
      /\ paid.active = active /\ started.slots = slots
  BY DEF Now
<1>4. \/ Commit(Push(f))
      \/ Commit(paid)
      \/ DebtPaid(f) /\ KeepsItem(f) /\ Commit(PopResult(paid, debt, f))
      \/ Commit(started)
  BY DEF DrainUncertainFrame
<1> HIDE DEF paid, started, n
<1>5. AttachedIn(paid) /\ WaitsIn(paid)
  BY <1>3, NowFacts, UnrelatedEases, EasedGood DEF Good
<1>6. ASSUME DebtPaid(f), KeepsItem(f)
      PROVE  f.code \in {"message", "no_more_messages"}
  <2>1. /\ debt.command = Sync
        /\ debt.contacts_started \in BOOLEAN
        /\ ValidResponse(debt.command, debt.contacts_started, f)
    BY <1>2, <1>6 DEF KeepsItem, DebtPaid, PopShape, Transaction
  <2>2. f.code \in {"err", "message", "no_more_messages"}
    BY <2>1, SyncReplies
  <2> QED
    BY <1>6, <2>2 DEF KeepsItem
<1>7. CASE Commit(Push(f))
  BY <1>7, PushSpares
<1>8. CASE Commit(paid) \/ Commit(started)
  BY <1>3, <1>8, QuietCommit
<1>9. CASE DebtPaid(f) /\ KeepsItem(f) /\ Commit(PopResult(paid, debt, f))
  BY <1>1, <1>2, <1>3, <1>5, <1>6, <1>9, PoppedSpares
<1> QED
  BY <1>4, <1>7, <1>8, <1>9

\* Every other handler and every turn of the round robin.
LEMMA HandlersSpare ==
  ASSUME TypeInv, Next, \A d : ~ Admit(d), \A s : ~ ScheduleLocal(s),
         \A f \in Frames : ~ UpstreamFrame(f) /\ ~ DrainUncertainFrame(f),
         \A same_key \in BOOLEAN : ~ Restart(same_key)
  PROVE  QueuesSpared
<1> DEFINE Quiet == \E x : Commit(x) /\ x.slots = slots
<1>1. Quiet => QueuesSpared
  BY QuietCommit
<1>2. /\ Now.slots = slots /\ Fail(Now).slots = slots
      /\ \A gone : [Now EXCEPT !.closed = gone].slots = slots
  BY DEF Now, Fail
<1>3. ASSUME \E s : ScheduleAged(s)
      PROVE  Quiet
  BY <1>3 DEF ScheduleAged, Now
<1>4. ASSUME \E k : TurnPop(k)
      PROVE  Quiet
  <2>1. PICK k : TurnPop(k)
    BY <1>4
  <2>2. DispatchPop([Now EXCEPT !.order = Rotated(k)]).slots = slots
    BY DEF DispatchPop, SendCommand, SendUpstream, Now
  <2> QED
    BY <2>1, <2>2 DEF TurnPop
<1>5. ASSUME NEW k, NEW s, NEW command
      PROVE  TurnTaken(k, s, command).slots = slots
  BY DEF TurnTaken, Now
<1>6. ASSUME \E k, s : TurnDispatch(k, s)
      PROVE  Quiet
  <2>1. PICK k, s : TurnDispatch(k, s)
    BY <1>6
  <2> DEFINE command == Head(sessions[s].commands)
             e == TurnTaken(k, s, command)
             x == Reserved(e, s, command)
  <2>2. e.slots = slots
    BY <1>5
  <2>3. x.slots = slots
    BY DEF Reserved, TurnTaken, Now
  <2>4. Dispatch(x, s, command).slots = slots
    BY DEF Dispatch, SendCommand, SendUpstream, Reserved, TurnTaken, Now
  <2>5. Commit(Dispatch(x, s, command))
    BY <2>1 DEF TurnDispatch
  <2> QED
    BY <2>4, <2>5
<1>7. ASSUME \E k, s : TurnReject(k, s)
      PROVE  Quiet
  <2>1. PICK k, s : TurnReject(k, s)
    BY <1>7
  <2> DEFINE e == TurnTaken(k, s, Head(sessions[s].commands))
             x == [e EXCEPT !.sessions[s] = Reply(e.sessions[s], "frame")]
  <2>2. x.slots = slots
    BY DEF TurnTaken, Now
  <2>3. Commit(x)
    BY <2>1 DEF TurnReject
  <2> HIDE DEF x
  <2> QED
    BY <2>2, <2>3
<1>8. ASSUME \E s, command : ClientFrame(s, command)
      PROVE  Quiet
  <2>1. PICK s, command : ClientFrame(s, command)
    BY <1>8
  <2> DEFINE x == [Now EXCEPT !.sessions[s] =
                     [sessions[s] EXCEPT
                        !.commands = Append(sessions[s].commands, command),
                        !.owed = Append(sessions[s].owed, command)]]
  <2>2. x.slots = slots
    BY DEF Now
  <2>3. Commit(x) \/ Commit([Now EXCEPT !.closed = {s}])
    BY <2>1 DEF ClientFrame, CommitAndSchedule
  <2> HIDE DEF x
  <2> QED
    BY <1>2, <2>2, <2>3
<1>9. ASSUME \E s : ClientClosed(s) \/ Written(s) \/ WriteFailed(s)
      PROVE  Quiet
  <2>1. ASSUME NEW s, ClientClosed(s) \/ WriteFailed(s)
        PROVE  Quiet
    BY <1>2, <2>1 DEF ClientClosed, WriteFailed, CommitAndSchedule
  <2>2. ASSUME NEW s, Written(s)
        PROVE  Quiet
    <3> DEFINE x == [Now EXCEPT !.sessions[s].writes = Tail(sessions[s].writes)]
    <3>1. x.slots = slots /\ Fail(Finish(x)).slots = slots
      BY DEF Fail, Finish, Now
    <3>2. Commit(x) \/ Commit(Fail(Finish(x)))
      BY <2>2 DEF Written, CommitAndSchedule
    <3> HIDE DEF x
    <3> QED
      BY <3>1, <3>2
  <2> QED
    BY <1>9, <2>1, <2>2
<1>10. ASSUME \E w : UpstreamWritten(w)
       PROVE  Quiet
  <2>1. PICK w : UpstreamWritten(w)
    BY <1>10
  <2> DEFINE x == [Now EXCEPT
                     !.upstream_writes = upstream_writes \ {w},
                     !.active.write = IF AwaitsWrite(w) THEN 0 ELSE active.write]
  <2>2. x.slots = slots /\ Commit(x)
    BY <2>1 DEF UpstreamWritten, CommitAndSchedule, Now
  <2> HIDE DEF x
  <2> QED
    BY <2>2
<1>11. ASSUME \/ LateUpstreamFrame \/ UpstreamClosed
              \/ ResponseTimeout \/ UpstreamWriteTimeout
       PROVE  Quiet
  BY <1>2, <1>11 DEF LateUpstreamFrame, UpstreamClosed, ResponseTimeout,
     UpstreamWriteTimeout, CommitAndSchedule
<1>12. ASSUME \E stuck, late, expired, poll : Tick(stuck, late, expired, poll)
       PROVE  Quiet
  <2>1. PICK stuck, late, expired, poll : Tick(stuck, late, expired, poll)
    BY <1>12
  <2> DEFINE table == [s \in DOMAIN sessions |->
                         IF s \in late
                         THEN [Reply(sessions[s], "frame") EXCEPT !.sync = 0]
                         ELSE sessions[s]]
             x == [Now EXCEPT
                     !.closed = stuck,
                     !.sessions = IF poll THEN HintAll(table) ELSE table,
                     !.remote = IF "remote" \in expired THEN NoRemote
                                ELSE remote,
                     !.signing = IF "signing" \in expired THEN NoSigning
                                 ELSE signing]
  <2>2. x.slots = slots
    BY DEF Now
  <2>3. Commit(x)
    BY <2>1 DEF Tick, CommitAndSchedule
  <2> HIDE DEF x
  <2> QED
    BY <2>2, <2>3
<1>13. CASE \/ ScheduleBusy \/ TurnNone \/ TakeWrite \/ QuarantineDeadline
            \/ \E i : DmDeadline(i)
  BY <1>13, StoredSpared DEF ScheduleBusy, TurnNone, TakeWrite,
     QuarantineDeadline, DmDeadline
<1> HIDE DEF Quiet
<1> QED
  BY <1>1, <1>3, <1>4, <1>6, <1>7, <1>8, <1>9, <1>10, <1>11, <1>12, <1>13
     DEF Next, ScheduleStep, ClientStep, UpstreamStep, ClockStep

LEMMA StepSpares ==
  ASSUME BrokerInv, Next
  PROVE  QueuesSpared \/ (failed /\ ~ failed')
<1>1. TypeInv /\ InboxInv /\ TransactionInv
  BY DEF BrokerInv
<1>2. ASSUME NEW f \in Frames, UpstreamFrame(f)
      PROVE  QueuesSpared
  <2>1. Fail(Now).slots = slots
    BY DEF Fail, Now
  <2>2. \/ Commit(Fail(Now)) \/ Commit(Push(f))
        \/ Commit(TransactionResponse(f))
    BY <1>2 DEF UpstreamFrame, CommitAndSchedule
  <2> QED
    BY <1>1, <2>1, <2>2, QuietCommit, PushSpares, TransactionResponseSpares
<1>3. \A same_key \in BOOLEAN : Restart(same_key) => failed /\ ~ failed'
  BY DEF Restart
<1> QED
  BY <1>1, <1>2, <1>3, AdmitSpares, ScheduleLocalSpares,
     DrainUncertainFrameSpares, HandlersSpare

\* A direct message that waits in a slot's queue is not lost in an epoch: it
\* leaves the queue by being handed to the client the slot is attached to, and
\* only a reconnection to another companion empties the queue otherwise.
THEOREM DirectsKept == Spec => DirectsSurvive
<1>1. BrokerInv /\ [Next]_vars
        => [QueuesSpared \/ (failed /\ ~ failed')]_vars
  BY StepSpares
<1>2. [QueuesSpared \/ (failed /\ ~ failed')]_vars
        => [\A d \in Slots : \A i \in DOMAIN slots[d].queue :
              LET item == slots[d].queue[i]
              IN item \notin ChannelItems =>
                   \/ \E j \in DOMAIN slots'[d].queue : slots'[d].queue[j] = item
                   \/ i = 1 /\ slots[d].attached # 0 /\ slots'[d].last = item
                   \/ failed /\ ~ failed']_vars
  BY DEF QueuesSpared
<1> QED
  BY <1>1, <1>2, TransactionInvariant, PTL DEF Spec, DirectsSurvive

-----------------------------------------------------------------------------
(* RepliesInOrder                                                          *)
(*                                                                         *)
(* OrderIn is the invariant of a handler's state: what a client is owed is *)
(* the command in flight for it and then its queue; the client whose       *)
(* command is running does not wait for a message too; and no id yet to be *)
(* given is that of the running command's owner.                           *)

\* A sync has no argument.
Sendable == {c \in Command : c.op = "sync_next_message" => c = Sync}

LEMMA CommandsAreSendable == Commands \subseteq Sendable
<1>1. ASSUME NEW c \in Commands
      PROVE  c \in Sendable
  <2>1. c \in [op : Ops \ {"none"}, arg : Nat]
    BY BrokerAssumption
  <2>2. c \in Command
    BY <2>1 DEF Command
  <2>3. c.op = "sync_next_message" => c = Sync
    BY BrokerAssumption
  <2> QED
    BY <2>2, <2>3 DEF Sendable
<1> QED
  BY <1>1

Asks(tx, s) == tx.step # "none" /\ tx.owner = s

Flying(tx, s, sync) ==
  CASE Asks(tx, s) /\ UnderWay(tx) -> <<tx.command>>
    [] ~ Asks(tx, s) /\ sync # 0 -> <<Sync>>
    [] OTHER -> <<>>

Fits(tx, s, session) ==
  /\ session.owed = Flying(tx, s, session.sync) \o session.commands
  /\ Asks(tx, s) => session.sync = 0
  /\ session.commands \in Seq(Sendable)

OrderIn(n, e) ==
  /\ e.active.owner <= n
  /\ \A s \in DOMAIN e.sessions : Fits(e.active, s, e.sessions[s])

\* What is left of a queue when its first entry has been answered.
LEMMA FirstAnswered ==
  ASSUME NEW S, NEW c \in S, NEW q \in Seq(S)
  PROVE  LET p == <<c>> \o q IN SubSeq(p, 2, Len(p)) = q
<1> DEFINE p == <<c>> \o q
<1>1. <<c>> \in Seq(S) /\ Len(<<c>>) = 1 /\ <<c>>[1] = c
  OBVIOUS
<1>2. /\ p \in Seq(S) /\ Len(p) = 1 + Len(q)
      /\ \A i \in 1 .. 1 + Len(q) : p[i] = IF i <= 1 THEN c ELSE q[i - 1]
  BY <1>1, ConcatProperties
<1> HIDE DEF p
<1>3. p # <<>> /\ Tail(p) = SubSeq(p, 2, Len(p))
  BY <1>2, TailIsSubSeq
<1>4. Tail(p) \in Seq(S) /\ Len(Tail(p)) = Len(q)
  BY <1>2, <1>3
<1>5. \A i \in 1 .. Len(q) : Tail(p)[i] = q[i]
  BY <1>2, <1>3
<1>6. Tail(p) = q
  BY <1>4, <1>5, SeqEqual
<1> QED
  BY <1>3, <1>6 DEF p

\* A queue is its first entry and the rest.
LEMMA FirstAndRest ==
  ASSUME NEW S, NEW q \in Seq(S), q # <<>>
  PROVE  /\ Head(q) \in S /\ Tail(q) \in Seq(S)
         /\ q = <<Head(q)>> \o Tail(q)
         /\ SubSeq(q, 2, Len(q)) = Tail(q)
<1>1. Head(q) \in S /\ Tail(q) \in Seq(S)
  OBVIOUS
<1>2. SubSeq(q, 2, Len(q)) = Tail(q)
  BY TailIsSubSeq
<1>3. SubSeq(q, 1, Len(q)) = <<q[1]>> \o SubSeq(q, 1 + 1, Len(q))
  BY SubSeqRecursiveFirst
<1>4. SubSeq(q, 1, Len(q)) = q
  BY SubSeqFull
<1>5. Head(q) = q[1] /\ 1 + 1 = 2
  OBVIOUS
<1> QED
  BY <1>1, <1>2, <1>3, <1>4, <1>5

\* Adding at the end does not look at how the front is made up.
AppendsInside(p, q, c) == Append(p \o q, c) = p \o Append(q, c)

LEMMA AppendToConcat ==
  ASSUME NEW S, NEW p \in Seq(S), NEW q \in Seq(S), NEW c \in S
  PROVE  AppendsInside(p, q, c)
<1>1. p \o q \in Seq(S) /\ <<c>> \in Seq(S)
  BY ConcatProperties
<1>2. Append(p \o q, c) = (p \o q) \o <<c>>
  BY <1>1, AppendIsConcat
<1>3. Append(q, c) = q \o <<c>>
  BY AppendIsConcat
<1> QED
  BY <1>1, <1>2, <1>3, ConcatAssociative DEF AppendsInside

-----------------------------------------------------------------------------
(* What a step may do for one session *)

LEMMA SyncIsSendable == Sync \in Sendable
BY CommandTypes DEF Sendable

\* Nothing that concerns it.
LEMMA SameFits ==
  ASSUME NEW tx, NEW s, NEW a, NEW b, Fits(tx, s, a),
         b.commands = a.commands, b.owed = a.owed, b.sync = a.sync
  PROVE  Fits(tx, s, b)
BY DEF Fits

\* The running command goes on.
LEMMA SameTransactionFits ==
  ASSUME NEW tx, NEW ty, NEW s, NEW a, Fits(tx, s, a), SameTransaction(tx, ty)
  PROVE  Fits(ty, s, a)
<1>1. (Asks(ty, s) <=> Asks(tx, s)) /\ (UnderWay(ty) <=> UnderWay(tx))
  BY DEF SameTransaction, Asks, UnderWay
<1>2. Flying(ty, s, a.sync) = Flying(tx, s, a.sync)
  BY <1>1 DEF Flying, SameTransaction
<1> QED
  BY <1>1, <1>2 DEF Fits

\* A transaction that owes the session no reply ends, or enters a step in which
\* it owes none.
LEMMA NothingOwedFits ==
  ASSUME NEW tx, NEW ty, NEW s, NEW a, Fits(tx, s, a),
         Asks(tx, s) => ~ UnderWay(tx),
         Asks(ty, s) => Asks(tx, s) /\ ~ UnderWay(ty)
  PROVE  Fits(ty, s, a)
<1>1. Flying(ty, s, a.sync) = Flying(tx, s, a.sync)
  BY DEF Flying, Fits
<1> QED
  BY <1>1 DEF Fits

\* The wait is answered.
LEMMA WaitAnsweredFits ==
  ASSUME NEW tx, NEW s, NEW a, NEW b, Fits(tx, s, a), a.sync # 0,
         b.sync = 0, b.commands = a.commands,
         b.owed = SubSeq(a.owed, 2, Len(a.owed))
  PROVE  Fits(tx, s, b)
<1>1. ~ Asks(tx, s) /\ a.owed = <<Sync>> \o a.commands
  BY DEF Fits, Flying
<1>2. b.owed = b.commands /\ b.commands \in Seq(Sendable)
  BY <1>1, SyncIsSendable, FirstAnswered DEF Fits
<1>3. b.owed = <<>> \o b.commands
  BY <1>2, ConcatEmptySeq
<1> QED
  BY <1>1, <1>2, <1>3 DEF Fits, Flying

\* The running command is answered; its transaction ends or goes on to a step in
\* which it owes no reply.
LEMMA CommandAnsweredFits ==
  ASSUME NEW tx, NEW ty, NEW s, NEW a, NEW b, Fits(tx, s, a),
         Asks(tx, s), UnderWay(tx), ~ UnderWay(ty), tx.command \in Command,
         b.sync = a.sync, b.commands = a.commands,
         b.owed = SubSeq(a.owed, 2, Len(a.owed))
  PROVE  Fits(ty, s, b)
<1>1. a.owed = <<tx.command>> \o a.commands /\ a.sync = 0
  BY DEF Fits, Flying
<1>2. a.commands \in Seq(Sendable) /\ a.commands \in Seq(Command)
  BY SeqMonotonic DEF Fits, Sendable
<1>3. b.owed = b.commands
  BY <1>1, <1>2, FirstAnswered
<1>4. b.owed = <<>> \o b.commands
  BY <1>2, <1>3, ConcatEmptySeq
<1>5. Flying(ty, s, b.sync) = <<>>
  BY <1>1 DEF Flying
<1> QED
  BY <1>1, <1>2, <1>4, <1>5 DEF Fits

\* A session that waits for nothing and whose command is not running is owed
\* what is in its queue.
LEMMA IdleOwed ==
  ASSUME NEW tx, NEW s, NEW a, Fits(tx, s, a), ~ Asks(tx, s), a.sync = 0
  PROVE  a.owed = a.commands /\ a.commands \in Seq(Sendable)
<1>1. a.owed = <<>> \o a.commands /\ a.commands \in Seq(Sendable)
  BY DEF Fits, Flying
<1> QED
  BY <1>1, ConcatEmptySeq

\* The first command of the queue is answered at once.
LEMMA HeadAnsweredFits ==
  ASSUME NEW tx, NEW s, NEW a, NEW b, Fits(tx, s, a), ~ Asks(tx, s),
         a.sync = 0, a.commands # <<>>, b.sync = 0,
         b.commands = Tail(a.commands), b.owed = SubSeq(a.owed, 2, Len(a.owed))
  PROVE  Fits(tx, s, b)
<1>1. b.owed = b.commands /\ b.commands \in Seq(Sendable)
  BY IdleOwed, FirstAndRest
<1>2. b.owed = <<>> \o b.commands
  BY <1>1, ConcatEmptySeq
<1> QED
  BY <1>1, <1>2 DEF Fits, Flying

\* It begins to wait, or to run.
LEMMA HeadTakenFits ==
  ASSUME NEW tx, NEW ty, NEW s, NEW a, NEW b, Fits(tx, s, a), ~ Asks(tx, s),
         a.sync = 0, a.commands # <<>>,
         b.commands = Tail(a.commands), b.owed = a.owed,
         \/ ~ Asks(ty, s) /\ b.sync # 0 /\ Head(a.commands) = Sync
         \/ /\ Asks(ty, s) /\ UnderWay(ty) /\ b.sync = 0
            /\ ty.command = Head(a.commands)
  PROVE  Fits(ty, s, b)
<1>1. a.owed = <<Head(a.commands)>> \o b.commands
      /\ b.commands \in Seq(Sendable)
  BY IdleOwed, FirstAndRest
<1>2. Flying(ty, s, b.sync) = <<Head(a.commands)>>
  BY DEF Flying
<1> QED
  BY <1>1, <1>2 DEF Fits

\* A command arrives.
LEMMA ArrivalFits ==
  ASSUME NEW tx, NEW s, NEW a, NEW b, NEW c \in Sendable, Fits(tx, s, a),
         tx.command \in Command,
         b.sync = a.sync, b.commands = Append(a.commands, c),
         b.owed = Append(a.owed, c)
  PROVE  Fits(tx, s, b)
<1> DEFINE flying == Flying(tx, s, a.sync)
<1>1. a.commands \in Seq(Sendable) /\ a.owed = flying \o a.commands
  BY DEF Fits
<1>2. c \in Command /\ a.commands \in Seq(Command) /\ Sync \in Command
  BY <1>1, SeqMonotonic, SyncIsSendable DEF Sendable
<1>3. flying \in Seq(Command)
  BY <1>2 DEF Flying
<1> HIDE DEF flying
<1>4. b.commands \in Seq(Sendable)
  BY <1>1
<1>5. b.owed = flying \o b.commands
  <2>1. AppendsInside(flying, a.commands, c)
    BY <1>2, <1>3, AppendToConcat
  <2>2. Append(flying \o a.commands, c) = flying \o Append(a.commands, c)
    BY <2>1 DEF AppendsInside
  <2> QED
    BY <1>1, <2>2, Zenon
<1> QED
  BY <1>4, <1>5 DEF Fits, flying

-----------------------------------------------------------------------------
(* What a step may do for all sessions *)

Told(a, b) ==
  /\ b.commands = a.commands
  /\ \/ b.sync = a.sync /\ b.owed = a.owed
     \/ /\ a.sync # 0 /\ b.sync = 0
        /\ b.owed = SubSeq(a.owed, 2, Len(a.owed))

Tells(e, x) ==
  \A s \in DOMAIN x.sessions :
    s \in DOMAIN e.sessions /\ Told(e.sessions[s], x.sessions[s])

\* Sessions that are written to, and waits that end with an answer, keep the
\* order while the running command goes on.
LEMMA TellsOrder ==
  ASSUME NEW n, NEW e, NEW x, OrderIn(n, e), Tells(e, x),
         SameTransaction(e.active, x.active)
  PROVE  OrderIn(n, x)
<1>1. ASSUME NEW s \in DOMAIN x.sessions
      PROVE  Fits(x.active, s, x.sessions[s])
  <2> DEFINE a == e.sessions[s]
             b == x.sessions[s]
  <2>1. Told(a, b) /\ Fits(e.active, s, a)
    BY <1>1 DEF Tells, OrderIn
  <2> HIDE DEF a, b
  <2>2. Fits(e.active, s, b)
    BY <2>1, SameFits, WaitAnsweredFits DEF Told
  <2>3. Fits(x.active, s, b)
    BY <2>2, SameTransactionFits
  <2> QED
    BY <2>3 DEF b
<1>2. x.active.owner = e.active.owner
  BY DEF SameTransaction
<1> QED
  BY <1>1, <1>2 DEF OrderIn

LEMMA SameActiveOrder ==
  ASSUME NEW n, NEW e, NEW x, OrderIn(n, e), Tells(e, x), x.active = e.active
  PROVE  OrderIn(n, x)
BY TellsOrder DEF SameTransaction

\* A frame that answers nothing, and the hint.
LEMMA WriteTells ==
  ASSUME NEW session \in Session, NEW kind
  PROVE  /\ Told(session, session)
         /\ Told(session, Emit(session, kind))
         /\ Told(session, Hint(session))
<1>1. Told(session, session)
  BY DEF Told
<1>2. \A k : Told(session, Emit(session, k))
  BY DEF Told, Emit, Session
<1> QED
  BY <1>1, <1>2 DEF Hint

\* What a reply does to a session.
LEMMA ReplyFields ==
  ASSUME NEW session \in Session, NEW kind
  PROVE  LET b == Reply(session, kind)
         IN /\ b.commands = session.commands
            /\ b.sync = session.sync
            /\ b.owed = SubSeq(session.owed, 2, Len(session.owed))
<1> DEFINE x == Emit(session, kind)
<1>1. /\ x.commands = session.commands
      /\ x.sync = session.sync
      /\ x.owed = session.owed
      /\ x = [session EXCEPT !.writes = Append(session.writes, kind)]
  BY DEF Emit, Session
<1>2. DOMAIN x = DOMAIN session
  BY <1>1
<1>3. {"commands", "sync", "owed"} \subseteq DOMAIN session
  BY DEF Session
<1> HIDE DEF x
<1>4. LET b == [x EXCEPT !.owed = SubSeq(session.owed, 2, Len(session.owed))]
      IN /\ b.commands = session.commands
         /\ b.sync = session.sync
         /\ b.owed = SubSeq(session.owed, 2, Len(session.owed))
  BY <1>1, <1>2, <1>3
<1> QED
  BY <1>4 DEF Reply, x

\* The end of a wait.
LEMMA WaitEndTells ==
  ASSUME NEW session \in Session, NEW kind \in WriteKinds, session.sync # 0
  PROVE  Told(session, [Reply(session, kind) EXCEPT !.sync = 0])
<1> DEFINE x == Reply(session, kind)
<1>1. x \in Session
  BY ReplyType
<1>2. /\ x.commands = session.commands
      /\ x.owed = SubSeq(session.owed, 2, Len(session.owed))
  BY ReplyFields
<1> HIDE DEF x
<1>3. LET b == [x EXCEPT !.sync = 0]
      IN b.sync = 0 /\ b.commands = x.commands /\ b.owed = x.owed
  BY <1>1 DEF Session
<1>4. Told(session, [x EXCEPT !.sync = 0])
  BY <1>2, <1>3 DEF Told
<1> QED
  BY <1>4 DEF x

-----------------------------------------------------------------------------
(* pop_result *)

LEMMA NoMoreMessagesTells ==
  ASSUME NEW n \in Nat, NEW e \in State(n), NEW tx
  PROVE  Tells(e, NoMoreMessages(e, tx))
<1> DEFINE x == NoMoreMessages(e, tx)
<1>1. \A s \in DOMAIN e.sessions : e.sessions[s] \in Session
  BY TableType DEF State
<1>2. /\ DOMAIN x.sessions = DOMAIN e.sessions
      /\ \A s \in DOMAIN e.sessions : x.sessions[s] =
           IF s \in CoveredWaits(e, tx)
           THEN [Reply(e.sessions[s], "frame") EXCEPT !.sync = 0]
           ELSE e.sessions[s]
  BY DEF NoMoreMessages, State
<1> HIDE DEF x
<1>3. ASSUME NEW s \in DOMAIN e.sessions
      PROVE  Told(e.sessions[s], x.sessions[s])
  <2>1. CASE s \in CoveredWaits(e, tx)
    <3>1. e.sessions[s].sync # 0
      BY <2>1 DEF CoveredWaits
    <3> QED
      BY <1>1, <1>2, <2>1, <3>1, WaitEndTells DEF WriteKinds
  <2>2. CASE s \notin CoveredWaits(e, tx)
    BY <1>1, <1>2, <2>2, WriteTells
  <2> QED
    BY <2>1, <2>2
<1>4. Tells(e, x)
  BY <1>2, <1>3 DEF Tells
<1> QED
  BY <1>4 DEF x

LEMMA FanOutAttachedTells ==
  ASSUME NEW n \in Nat, NEW e \in State(n), NEW s \in DOMAIN e.sessions
  PROVE  Told(e.sessions[s], FanOutAttached(e, s))
<1> DEFINE session == e.sessions[s]
           answered == [DeliverSlot(session) EXCEPT !.sync = 0]
<1>1. session \in Session
  BY TableType DEF State
<1>2. session.sync # 0 => Told(session, answered)
  BY <1>1, WaitEndTells DEF DeliverSlot, Layout, WriteKinds
<1>3. Told(session, session) /\ Told(session, Hint(session))
  BY <1>1, WriteTells
<1> HIDE DEF answered
<1>4. \/ FanOutAttached(e, s) \in {session, Hint(session)}
      \/ session.sync # 0 /\ FanOutAttached(e, s) = answered
  BY DEF FanOutAttached, answered
<1> QED
  BY <1>2, <1>3, <1>4

LEMMA EnqueueMultiClientTells ==
  ASSUME NEW session \in Session, NEW item \in Items
  PROVE  Told(session, EnqueueMultiClient(session, item))
<1> DEFINE filled == [session EXCEPT !.inbox = Append(session.inbox, item)]
           answered == [filled EXCEPT !.sync = 0]
           x == EnqueueMultiClient(session, item)
<1>1. Append(session.inbox, item) \in Seq(Items)
  BY DEF Session
<1>2. /\ filled \in Session
      /\ filled.commands = session.commands
      /\ filled.sync = session.sync /\ filled.owed = session.owed
  BY <1>1 DEF Session
<1>3. /\ answered \in Session
      /\ answered.commands = session.commands
      /\ answered.sync = 0 /\ answered.owed = session.owed
  BY <1>1 DEF Session
<1>4. /\ session.sync # 0 => x = DeliverInbox(answered)
      /\ session.sync = 0 => x \in {filled, Hint(filled)}
  BY DEF EnqueueMultiClient
<1> HIDE DEF filled, answered, x
<1>5. Told(session, filled) /\ Told(session, Hint(filled))
  BY <1>2, WriteTells DEF Told
<1>6. ASSUME session.sync # 0
      PROVE  Told(session, DeliverInbox(answered))
  <2> DEFINE given == Reply(answered, Layout(answered.version))
  <2>1. given \in Session
    BY <1>3, ReplyType DEF Layout, WriteKinds
  <2>2. /\ given.commands = answered.commands
        /\ given.sync = 0
        /\ given.owed = SubSeq(answered.owed, 2, Len(answered.owed))
    BY <1>3, ReplyFields
  <2> HIDE DEF given
  <2>3. LET b == [given EXCEPT !.inbox = Tail(answered.inbox),
                               !.last = Head(answered.inbox)]
        IN /\ b.commands = given.commands
           /\ b.sync = given.sync /\ b.owed = given.owed
    BY <2>1 DEF Session
  <2>4. \/ DeliverInbox(answered) = given
        \/ DeliverInbox(answered) =
             [given EXCEPT !.inbox = Tail(answered.inbox),
                           !.last = Head(answered.inbox)]
    BY DEF DeliverInbox, given
  <2> QED
    BY <1>3, <1>6, <2>2, <2>3, <2>4 DEF Told
<1> QED
  BY <1>4, <1>5, <1>6 DEF x

LEMMA FanOutTells ==
  ASSUME NEW n \in Nat, NEW e \in State(n), NEW tx, NEW item \in Items
  PROVE  Tells(e, FanOut(e, tx, item))
<1> DEFINE x == FanOut(e, tx, item)
<1>1. \A s \in DOMAIN e.sessions : e.sessions[s] \in Session
  BY TableType DEF State
<1>2. /\ DOMAIN x.sessions = DOMAIN e.sessions
      /\ \A s \in DOMAIN e.sessions : x.sessions[s] =
           CASE e.sessions[s].slot # 0 -> FanOutAttached(e, s)
             [] e.sessions[s].slot = 0 /\ ~ InboxFull(e.sessions[s]) ->
                  EnqueueMultiClient(e.sessions[s], item)
             [] OTHER -> e.sessions[s]
  BY DEF FanOut, State
<1> HIDE DEF x
<1>3. ASSUME NEW s \in DOMAIN e.sessions
      PROVE  Told(e.sessions[s], x.sessions[s])
  <2>1. CASE e.sessions[s].slot # 0
    BY <1>2, <2>1, FanOutAttachedTells
  <2>2. CASE e.sessions[s].slot = 0 /\ ~ InboxFull(e.sessions[s])
    BY <1>1, <1>2, <2>2, EnqueueMultiClientTells
  <2>3. CASE e.sessions[s].slot = 0 /\ InboxFull(e.sessions[s])
    BY <1>1, <1>2, <2>3, WriteTells
  <2> QED
    BY <2>1, <2>2, <2>3
<1>4. Tells(e, x)
  BY <1>2, <1>3 DEF Tells
<1> QED
  BY <1>4 DEF x

LEMMA PopResultTells ==
  ASSUME NEW n \in Nat, NEW e \in State(n), NEW tx, NEW f \in Frames,
         f.code \in {"message", "no_more_messages"}
  PROVE  LET x == PopResult(e, tx, f)
         IN Tells(e, x) /\ x.active = e.active
<1> DEFINE again == [e EXCEPT !.drain.requested = e.drain.authorized]
<1>1. \A s \in DOMAIN e.sessions : e.sessions[s] \in Session
  BY TableType DEF State
<1>2. again.sessions = e.sessions /\ again.active = e.active
  BY DEF State
<1> HIDE DEF again
<1>3. Tells(e, again)
  BY <1>1, <1>2, WriteTells DEF Tells
<1>4. f.code # "no_more_messages" => f.arg \in Items
  BY FrameType
<1>5. /\ NoMoreMessages(e, tx).active = e.active
      /\ FanOut(e, tx, f.arg).active = e.active
  BY DEF NoMoreMessages, FanOut, State
<1>6. \/ PopResult(e, tx, f) \in {NoMoreMessages(e, tx), again}
      \/ f.arg \in Items /\ PopResult(e, tx, f) = FanOut(e, tx, f.arg)
  BY <1>4 DEF PopResult, again
<1> QED
  BY <1>2, <1>3, <1>5, <1>6, NoMoreMessagesTells, FanOutTells

-----------------------------------------------------------------------------
(* transaction_response *)

Replied(a, b) ==
  /\ b.commands = a.commands
  /\ b.sync = a.sync
  /\ b.owed = SubSeq(a.owed, 2, Len(a.owed))

\* The running command is answered, if its client is still there, and the
\* transaction ends or has no further reply to give.
LEMMA AnsweredOrder ==
  ASSUME NEW n \in Nat, NEW e \in State(n), NEW x, OrderIn(n, e),
         UnderWay(e.active), ~ UnderWay(x.active),
         \/ x.active = NoTransaction
         \/ x.active.owner = e.active.owner,
         DOMAIN x.sessions = DOMAIN e.sessions,
         \A s \in DOMAIN e.sessions :
           IF s = e.active.owner THEN Replied(e.sessions[s], x.sessions[s])
           ELSE x.sessions[s] = e.sessions[s]
  PROVE  OrderIn(n, x)
<1>1. ASSUME NEW s \in DOMAIN e.sessions
      PROVE  Fits(x.active, s, x.sessions[s])
  <2> DEFINE a == e.sessions[s]
             b == x.sessions[s]
  <2>1. Fits(e.active, s, a)
    BY DEF OrderIn
  <2>2. e.active.command \in Command /\ e.active.step # "none"
    BY DEF State, Transactions, Transaction, UnderWay
  <2>3. CASE s = e.active.owner
    <3>1. Replied(a, b) /\ Asks(e.active, s)
      BY <2>2, <2>3 DEF Asks
    <3> HIDE DEF a, b
    <3>2. Fits(x.active, s, b)
      BY <2>1, <2>2, <3>1, CommandAnsweredFits DEF Replied
    <3> QED
      BY <3>2 DEF b
  <2>4. CASE s # e.active.owner
    <3>1. ~ Asks(e.active, s) /\ ~ Asks(x.active, s)
      BY <2>4 DEF Asks, NoTransaction
    <3>2. b = a
      BY <2>4
    <3> HIDE DEF a, b
    <3>3. Fits(x.active, s, b)
      BY <2>1, <3>1, <3>2, NothingOwedFits
    <3> QED
      BY <3>3 DEF b
  <2> QED
    BY <2>3, <2>4
<1>2. x.active.owner <= n
  BY DEF OrderIn, NoTransaction
<1> QED
  BY <1>1, <1>2 DEF OrderIn

\* A transaction that owes no reply ends.
LEMMA EndedOrder ==
  ASSUME NEW n \in Nat, NEW e \in State(n), NEW x, OrderIn(n, e),
         ~ UnderWay(e.active) \/ e.active.owner = 0,
         x.active = NoTransaction, x.sessions = e.sessions
  PROVE  OrderIn(n, x)
<1>1. \A s \in DOMAIN e.sessions : s \in 1 .. n
  BY TableType DEF State
<1>2. ASSUME NEW s \in DOMAIN e.sessions
      PROVE  Fits(x.active, s, e.sessions[s])
  <2>1. Asks(e.active, s) => ~ UnderWay(e.active)
    BY <1>1 DEF Asks
  <2>2. ~ Asks(x.active, s)
    BY DEF Asks, NoTransaction
  <2>3. Fits(e.active, s, e.sessions[s])
    BY DEF OrderIn
  <2> QED
    BY <2>1, <2>2, <2>3, NothingOwedFits
<1>3. x.active.owner <= n
  BY DEF NoTransaction
<1> QED
  BY <1>2, <1>3 DEF OrderIn

\* The owner's copy of the reply.
LEMMA ReplyToOwnerTells ==
  ASSUME NEW n \in Nat, NEW e \in State(n), NEW f
  PROVE  LET x == ReplyToOwner(e, f)
         IN /\ DOMAIN x.sessions = DOMAIN e.sessions
            /\ \A s \in DOMAIN e.sessions :
                 IF s = e.active.owner
                 THEN IF Completes(e.active.command, f)
                      THEN Replied(e.sessions[s], x.sessions[s])
                      ELSE Told(e.sessions[s], x.sessions[s])
                 ELSE x.sessions[s] = e.sessions[s]
<1> DEFINE tx == e.active
           owner == e.sessions[tx.owner]
           seen_by == [owner EXCEPT !.version =
             IF tx.command.op = "device_query" /\ f.code = "device_info"
             THEN tx.command.arg ELSE owner.version]
           kind == IF tx.command.op \in Maintenance THEN "result" ELSE "frame"
           x == ReplyToOwner(e, f)
<1>1. CASE tx.owner \notin DOMAIN e.sessions
  BY <1>1 DEF ReplyToOwner
<1>2. CASE tx.owner \in DOMAIN e.sessions
  <2> DEFINE given == IF Completes(tx.command, f) THEN Reply(seen_by, kind)
                      ELSE Emit(seen_by, "frame")
  <2>1. owner \in Session
    BY <1>2, TableType DEF State
  <2>2. tx.command.arg \in Nat
    BY CommandTypes DEF State, Transactions, Transaction
  <2>3. /\ seen_by \in Session
        /\ seen_by.commands = owner.commands
        /\ seen_by.sync = owner.sync /\ seen_by.owed = owner.owed
    BY <2>1, <2>2 DEF Session
  <2>4. x = [e EXCEPT !.sessions[tx.owner] = given]
    BY <1>2 DEF ReplyToOwner
  <2> HIDE DEF seen_by, kind
  <2>5. IF Completes(tx.command, f) THEN Replied(owner, given)
        ELSE Told(owner, given)
    <3>1. Replied(seen_by, Reply(seen_by, kind))
      BY <2>3, ReplyFields DEF Replied
    <3>2. Told(seen_by, Emit(seen_by, "frame"))
      BY <2>3, WriteTells
    <3> HIDE DEF owner
    <3> QED
      BY <2>3, <3>1, <3>2 DEF Replied, Told
  <2> HIDE DEF given
  <2>6. x.sessions = [e.sessions EXCEPT ![tx.owner] = given]
    BY <2>4 DEF State
  <2> QED
    BY <1>2, <2>5, <2>6
<1> QED
  BY <1>1, <1>2

LEMMA CommandResponseOrder ==
  ASSUME NEW n \in Nat, NEW e \in State(n), NEW f \in Frames, OrderIn(n, e),
         e.active.step = "command", e.active.owner # 0
  PROVE  OrderIn(n, CommandResponse(e, f))
<1> DEFINE x == ReplyToOwner(e, f)
           y == RecordAcceptance(x, e.active.command, f)
           z == [x EXCEPT !.active.contacts_started = TRUE]
<1>1. x \in State(n) /\ x.active = e.active
  BY ReplyToOwnerType, OwnerKept
<1>2. /\ DOMAIN x.sessions = DOMAIN e.sessions
      /\ \A s \in DOMAIN e.sessions :
           IF s = e.active.owner
           THEN IF Completes(e.active.command, f)
                THEN Replied(e.sessions[s], x.sessions[s])
                ELSE Told(e.sessions[s], x.sessions[s])
           ELSE x.sessions[s] = e.sessions[s]
  BY ReplyToOwnerTells
<1> HIDE DEF x
<1>3. e.active \in Transaction
  BY DEF State, Transactions
<1>4. ASSUME Completes(e.active.command, f)
      PROVE  OrderIn(n, AfterCommand(y))
  <2>1. y \in State(n) /\ y.active = e.active /\ y.sessions = x.sessions
    <3>1. e.active.command \in Command
      BY <1>3 DEF Transaction
    <3>2. y.sessions = x.sessions
      BY <1>1 DEF RecordAcceptance, State
    <3> QED
      BY <1>1, <3>1, <3>2, RecordAcceptanceType, OwnerKept
  <2> HIDE DEF y
  <2> DEFINE u == AfterCommand(y)
  <2>2. u.sessions = x.sessions
    BY <2>1 DEF AfterCommand, SendUpstream, Finish, State
  <2>3. \/ u.active = NoTransaction
        \/ u.active.owner = e.active.owner /\ u.active.step \in {"restore", "result"}
    <3> DEFINE restoring(w) ==
                 [[e.active EXCEPT !.step = "restore"] EXCEPT !.write = w]
               ended == [e.active EXCEPT !.step = "result"]
    <3>1. \A w : /\ restoring(w).step = "restore"
                 /\ restoring(w).owner = e.active.owner
      BY <1>3 DEF Transaction
    <3>2. ended.step = "result" /\ ended.owner = e.active.owner
      BY <1>3 DEF Transaction
    <3>3. u.active \in {NoTransaction, ended} \/ \E w : u.active = restoring(w)
      BY <2>1 DEF AfterCommand, SendUpstream, Finish, State
    <3> HIDE DEF u, ended, restoring
    <3> QED
      BY <3>1, <3>2, <3>3
  <2> HIDE DEF u
  <2>4. UnderWay(e.active) /\ ~ UnderWay(u.active)
    BY <2>3 DEF UnderWay, NoTransaction
  <2>5. OrderIn(n, u)
    BY <1>2, <1>4, <2>2, <2>3, <2>4, AnsweredOrder
  <2> QED
    BY <2>5 DEF u
<1>5. ASSUME ~ Completes(e.active.command, f)
      PROVE  OrderIn(n, z)
  <2>1. z.sessions = x.sessions
        /\ z.active = [e.active EXCEPT !.contacts_started = TRUE]
    BY <1>1 DEF State
  <2> HIDE DEF z
  <2>2. SameTransaction(e.active, z.active)
    BY <1>3, <2>1 DEF SameTransaction, Transaction
  <2>3. \A s \in DOMAIN e.sessions : e.sessions[s] \in Session
    BY TableType DEF State
  <2>4. Tells(e, z)
    BY <1>2, <1>5, <2>1, <2>3, WriteTells DEF Tells
  <2> QED
    BY <2>2, <2>4, TellsOrder
<1>6. CommandResponse(e, f) =
        IF Completes(e.active.command, f) THEN AfterCommand(y) ELSE z
  BY DEF CommandResponse, x
<1> QED
  BY <1>4, <1>5, <1>6

LEMMA ScopeResponseOrder ==
  ASSUME NEW n \in Nat, NEW e \in State(n), NEW f, OrderIn(n, e),
         e.active.step \in {"setup", "restore"}, e.active.owner # 0
  PROVE  OrderIn(n, ScopeResponse(e, f))
<1> DEFINE tx == e.active
           refused == IF tx.owner \in DOMAIN e.sessions
                      THEN [e EXCEPT !.sessions[tx.owner] =
                              Reply(e.sessions[tx.owner], "frame")]
                      ELSE e
           lease == IF tx.command.op \in RemoteLease THEN NoRemote ELSE e.remote
           dropped == [refused EXCEPT !.remote = lease]
<1>1. \A s \in DOMAIN e.sessions : e.sessions[s] \in Session
  BY TableType DEF State
<1>2. tx \in Transaction
  BY DEF State, Transactions
<1>3. ASSUME tx.step = "setup"
      PROVE  OrderIn(n, SendCommand(e, tx))
  <2> DEFINE x == SendCommand(e, tx)
             issued == [[tx EXCEPT !.step = "command"] EXCEPT
                        !.write = e.next_write + 1]
  <2>1. x.sessions = e.sessions /\ x.active = issued
    BY DEF SendCommand, SendUpstream, State
  <2>2. SameTransaction(tx, issued)
    BY <1>2, <1>3 DEF SameTransaction, Transaction, UnderWay
  <2> HIDE DEF x, issued
  <2>3. Tells(e, x)
    BY <1>1, <2>1, WriteTells DEF Tells
  <2>4. OrderIn(n, x)
    BY <2>1, <2>2, <2>3, TellsOrder
  <2> QED
    BY <2>4 DEF x
<1>4. ASSUME tx.step = "restore"
      PROVE  OrderIn(n, Finish(e))
  <2>1. Finish(e).active = NoTransaction /\ Finish(e).sessions = e.sessions
    BY DEF Finish, State
  <2> QED
    BY <1>4, <2>1, EndedOrder DEF UnderWay
<1>5. ASSUME tx.step = "setup"
      PROVE  OrderIn(n, Finish(dropped))
  <2> DEFINE x == Finish(dropped)
  <2>1. x.active = NoTransaction /\ x.sessions = refused.sessions
    BY DEF Finish, State
  <2>2. /\ DOMAIN x.sessions = DOMAIN e.sessions
        /\ \A s \in DOMAIN e.sessions :
             IF s = tx.owner THEN x.sessions[s] = Reply(e.sessions[s], "frame")
             ELSE x.sessions[s] = e.sessions[s]
    BY <2>1 DEF State
  <2> HIDE DEF x
  <2>3. \A s \in DOMAIN e.sessions :
          IF s = tx.owner THEN Replied(e.sessions[s], x.sessions[s])
          ELSE x.sessions[s] = e.sessions[s]
    BY <1>1, <2>2, ReplyFields DEF Replied
  <2>4. UnderWay(tx) /\ ~ UnderWay(x.active)
    BY <1>5, <2>1 DEF UnderWay, NoTransaction
  <2>5. OrderIn(n, x)
    BY <2>1, <2>2, <2>3, <2>4, AnsweredOrder
  <2> QED
    BY <2>5 DEF x
<1>6. OrderIn(n, Fail(e))
  <2>1. Fail(e).sessions = e.sessions /\ Fail(e).active = e.active
    BY DEF Fail, State
  <2> QED
    BY <1>1, <2>1, WriteTells, SameActiveOrder DEF Tells
<1>7. \/ tx.step = "setup" /\ ScopeResponse(e, f) = SendCommand(e, tx)
      \/ tx.step = "restore" /\ ScopeResponse(e, f) = Finish(e)
      \/ tx.step = "setup" /\ ScopeResponse(e, f) = Finish(dropped)
      \/ ScopeResponse(e, f) = Fail(e)
  BY DEF ScopeResponse
<1> QED
  BY <1>3, <1>4, <1>5, <1>6, <1>7

-----------------------------------------------------------------------------
(* The invariant, and how handlers keep it *)

OrderInv == OrderIn(next_session, Now)

\* What every handler starts from.
LEMMA NowOrder ==
  ASSUME TypeInv, OrderInv
  PROVE  /\ next_session \in Nat
         /\ Now \in State(next_session)
         /\ OrderIn(next_session, Now)
         /\ Now.sessions = sessions /\ Now.active = active
         /\ \A s \in DOMAIN sessions : sessions[s] \in Session
  BY NowType DEF TypeInv, TypeOK, Now, OrderInv

\* However a handler ends, the sessions that are left are as it left them.
LEMMA CommitOrder ==
  ASSUME NEW n \in Nat, NEW x, Commit(x), next_session' = n,
         OrderIn(n, x) \/ x.failing
  PROVE  OrderInv'
<1>1. NextState(x)
  BY DEF Commit
<1>2. CASE EpochEnds(x)
  <2>1. DOMAIN sessions' = {} /\ active' = NoTransaction
    BY <1>1, <1>2 DEF NextState, FailEpoch
  <2> QED
    BY <2>1 DEF OrderInv, OrderIn, Now, NoTransaction
<1>3. CASE ~ EpochEnds(x)
  <2>1. /\ active' = x.active
        /\ sessions' = [s \in Survivors(x) |-> x.sessions[s]]
    BY <1>1, <1>3 DEF NextState, Continue
  <2>2. OrderIn(n, x)
    BY <1>3 DEF EpochEnds
  <2> QED
    BY <2>1, <2>2 DEF OrderInv, OrderIn, Now, Survivors
<1> QED
  BY <1>2, <1>3

LEMMA TransactionResponseOrder ==
  ASSUME TypeInv, TransactionInv, OrderInv, NEW f \in Frames
  PROVE  LET x == TransactionResponse(f)
         IN OrderIn(next_session, x)
<1> DEFINE n == next_session
           e == WriteIsOver
<1>1. n \in Nat /\ e \in State(n) /\ e.active = [active EXCEPT !.write = 0]
  BY NowSound, WriteIsOverKeeps
<1>2. active \in Transaction /\ PopShape(active)
  BY DEF TypeInv, TypeOK
<1>3. e.active.step = active.step /\ e.active.owner = active.owner
  BY <1>1, <1>2 DEF Transaction
<1>4. OrderIn(n, e)
  <2>1. SameTransaction(active, e.active)
    BY <1>1, <1>2 DEF SameTransaction, Transaction
  <2>2. e.sessions = sessions
    BY DEF WriteIsOver, Now
  <2> HIDE DEF e
  <2>3. Tells(Now, e)
    BY <2>2, NowOrder, WriteTells DEF Tells
  <2> QED
    BY <2>1, <2>3, NowOrder, TellsOrder
<1> HIDE DEF e, n
<1>5. OrderIn(n, Fail(e))
  <2>1. Fail(e).sessions = e.sessions /\ Fail(e).active = e.active
    BY <1>1 DEF Fail, State
  <2> QED
    BY <1>4, <2>1 DEF OrderIn
<1>6. CASE active.step \in {"setup", "restore"}
  <2>1. active.owner # 0
    BY <1>2, <1>6 DEF PopShape
  <2>2. OrderIn(n, ScopeResponse(e, f))
    BY <1>1, <1>3, <1>4, <1>6, <2>1, ScopeResponseOrder
  <2>3. TransactionResponse(f) = ScopeResponse(e, f)
    BY <1>6 DEF TransactionResponse, e
  <2> QED
    BY <2>2, <2>3 DEF n
<1>7. CASE active.step = "command" /\ active.owner = 0
  <2>1. active.command = Sync /\ active.contacts_started \in BOOLEAN
    BY <1>2, <1>7 DEF PopShape, Transaction
  <2>2. ValidResponse(active.command, active.contacts_started, f)
          => f.code \in {"err", "message", "no_more_messages"}
    BY <2>1, SyncReplies
  <2>3. Finish(e) \in State(n)
    BY <1>1, FinishType
  <2>4. OrderIn(n, Finish(e))
    <3>1. Finish(e).active = NoTransaction /\ Finish(e).sessions = e.sessions
      BY <1>1 DEF Finish, State
    <3> QED
      BY <1>1, <1>3, <1>4, <1>7, <3>1, EndedOrder
  <2>5. f.code \in {"message", "no_more_messages"} =>
          OrderIn(n, PopResult(Finish(e), active, f))
    BY <1>1, <2>3, <2>4, PopResultTells, SameActiveOrder
  <2>6. TransactionResponse(f) \in {Fail(e), PopResult(Finish(e), active, f)}
        /\ (TransactionResponse(f) # Fail(e) =>
              f.code \in {"message", "no_more_messages"})
    BY <1>7, <2>2 DEF TransactionResponse, e
  <2> QED
    BY <1>5, <2>5, <2>6 DEF n
<1>8. CASE active.step = "command" /\ active.owner # 0
  <2>1. OrderIn(n, CommandResponse(e, f))
    BY <1>1, <1>3, <1>4, <1>8, CommandResponseOrder
  <2>2. TransactionResponse(f) \in {Fail(e), CommandResponse(e, f)}
    BY <1>8 DEF TransactionResponse, e
  <2> QED
    BY <1>5, <2>1, <2>2 DEF n
<1>9. CASE active.step \in {"none", "result"}
  <2>1. TransactionResponse(f) = Fail(e)
    BY <1>9 DEF TransactionResponse, e
  <2> QED
    BY <1>5, <2>1 DEF n
<1> QED
  BY <1>2, <1>6, <1>7, <1>8, <1>9 DEF Transaction, Steps

LEMMA PushOrder ==
  ASSUME TypeInv, TransactionInv, OrderInv, NEW f \in Frames
  PROVE  OrderIn(next_session, Push(f))
<1>1. CASE AnswersSelfTelemetry(f)
  <2>1. Push(f) = TransactionResponse(f)
    BY <1>1 DEF Push, AnswersSelfTelemetry, RemotePushes
  <2> QED
    BY <2>1, TransactionResponseOrder
<1>2. CASE ~ AnswersSelfTelemetry(f)
  <2> DEFINE x == Push(f)
             owner == remote.owner
  <2>1. /\ AvailabilityHint.sessions = HintAll(sessions)
        /\ AvailabilityHint.active = active
    BY DEF AvailabilityHint, Now
  <2>2. /\ RemoteResult(f).active = active
        /\ \/ RemoteResult(f).sessions = sessions
           \/ /\ owner \in DOMAIN sessions
              /\ RemoteResult(f).sessions =
                   [sessions EXCEPT ![owner] = Emit(sessions[owner], "frame")]
    BY DEF RemoteResult, Now
  <2>3. /\ x.active = active
        /\ \/ x.sessions \in {sessions, EmitAll(sessions, "frame"),
                              HintAll(sessions)}
           \/ /\ owner \in DOMAIN sessions
              /\ x.sessions =
                   [sessions EXCEPT ![owner] = Emit(sessions[owner], "frame")]
    BY <1>2, <2>1, <2>2 DEF Push, Now
  <2> HIDE DEF x, owner
  <2>4. Tells(Now, x)
    BY <2>3, NowOrder, WriteTells DEF Tells, EmitAll, HintAll
  <2>5. OrderIn(next_session, x)
    BY <2>3, <2>4, NowOrder, SameActiveOrder
  <2> QED
    BY <2>5 DEF x
<1> QED
  BY <1>1, <1>2

-----------------------------------------------------------------------------
(* One lemma per handler *)

LEMMA OneSessionOrder ==
  ASSUME NEW n, NEW e, NEW x, NEW s \in DOMAIN e.sessions, NEW b,
         OrderIn(n, e), x.active = e.active,
         x.sessions = [e.sessions EXCEPT ![s] = b], Fits(e.active, s, b)
  PROVE  OrderIn(n, x)
BY DEF OrderIn

\* A handler that changes neither the sessions nor who runs a command.
LEMMA UnspokenOrder ==
  ASSUME TypeInv, OrderInv, NEW x, Commit(x), next_session' = next_session,
         \/ x.failing
         \/ x.sessions = sessions /\ SameTransaction(active, x.active)
  PROVE  OrderInv'
<1>1. CASE x.failing
  BY <1>1, NowOrder, CommitOrder
<1>2. CASE x.sessions = sessions /\ SameTransaction(active, x.active)
  <2>1. Tells(Now, x)
    BY <1>2, NowOrder, WriteTells DEF Tells
  <2>2. OrderIn(next_session, x)
    BY <1>2, <2>1, NowOrder, TellsOrder
  <2> QED
    BY <2>2, NowOrder, CommitOrder
<1> QED
  BY <1>1, <1>2

LEMMA AdmitOrder ==
  ASSUME TypeInv, OrderInv, NEW d \in Slots \cup {0}, Admit(d)
  PROVE  OrderInv'
<1> DEFINE id == next_session + 1
           old == IF d = 0 THEN 0 ELSE slots[d].attached
           others == DOMAIN sessions \ {old}
           given == IF TakesOrphan(d) THEN <<orphan>> ELSE <<>>
           fresh == [NewSession(d) EXCEPT !.inbox = given]
           new == Hint(fresh)
           table == [s \in others \cup {id} |->
                       IF s = id THEN new ELSE sessions[s]]
           e == [Now EXCEPT
                   !.sessions = table,
                   !.order = Append(order, id),
                   !.slots = [x \in Slots |->
                                IF x = d THEN [slots[x] EXCEPT !.attached = id]
                                ELSE slots[x]],
                   !.orphan = IF TakesOrphan(d) THEN 0 ELSE orphan,
                   !.drain = IF others = {} THEN NoDrain ELSE drain]
<1>1. /\ next_session \in Nat /\ id \in Nat /\ next_session' = id
      /\ DOMAIN sessions \subseteq 1 .. next_session
      /\ active.owner \in Nat /\ active.owner <= next_session
      /\ \A s \in DOMAIN sessions : Fits(active, s, sessions[s])
  <2>1. next_session' = id /\ next_session \in Nat
    BY DEF Admit, TypeInv, TypeOK
  <2>2. DOMAIN sessions \subseteq 1 .. next_session /\ active.owner \in Nat
    BY DEF TypeInv, TypeOK, Transaction
  <2>3. /\ active.owner <= next_session
        /\ \A s \in DOMAIN sessions : Fits(active, s, sessions[s])
    BY NowOrder DEF OrderIn
  <2> QED
    BY <2>1, <2>2, <2>3
<1>2. CASE UNCHANGED <<sessions, active>>
  <2>1. active.owner <= id
    BY <1>1
  <2> HIDE DEF id
  <2> QED
    BY <1>1, <1>2, <2>1 DEF OrderInv, OrderIn, Now
<1>3. CASE CommitAndSchedule(e)
  <2>1. e.sessions = table /\ e.active = active
    BY DEF Now
  <2>2. /\ new.commands = <<>> /\ new.owed = <<>> /\ new.sync = 0
    <3>1. /\ fresh.commands = <<>> /\ fresh.owed = <<>> /\ fresh.sync = 0
          /\ fresh.writes = <<>>
      BY DEF NewSession
    <3>2. LET x == [fresh EXCEPT !.writes = Append(fresh.writes, "msg_waiting")]
          IN x.commands = <<>> /\ x.owed = <<>> /\ x.sync = 0
      BY DEF NewSession
    <3> HIDE DEF fresh
    <3> QED
      BY <3>1, <3>2 DEF Hint, Emit
  <2>3. ~ Asks(active, id)
    BY <1>1 DEF Asks
  <2> HIDE DEF new
  <2>4. Fits(active, id, new)
    BY <2>2, <2>3 DEF Fits, Flying
  <2>5. \A s \in DOMAIN table : Fits(active, s, table[s])
    BY <1>1, <2>4
  <2>6. active.owner <= id
    BY <1>1
  <2> HIDE DEF e, table, id
  <2>7. OrderIn(id, e)
    BY <2>1, <2>5, <2>6 DEF OrderIn
  <2> QED
    BY <1>1, <1>3, <2>7, CommitOrder DEF CommitAndSchedule
<1>4. UNCHANGED <<sessions, active>> \/ CommitAndSchedule(e)
  BY DEF Admit
<1> QED
  BY <1>2, <1>3, <1>4

LEMMA ClientFrameOrder ==
  ASSUME TypeInv, OrderInv, NEW s, NEW command \in Commands,
         ClientFrame(s, command)
  PROVE  OrderInv'
<1> DEFINE a == sessions[s]
           b == [a EXCEPT !.commands = Append(a.commands, command),
                          !.owed = Append(a.owed, command)]
           x == [Now EXCEPT !.sessions[s] = b]
<1>1. s \in DOMAIN sessions /\ a \in Session /\ next_session' = next_session
  BY NowOrder DEF ClientFrame
<1>2. /\ b.sync = a.sync /\ b.commands = Append(a.commands, command)
      /\ b.owed = Append(a.owed, command)
  BY <1>1 DEF Session
<1>3. Fits(active, s, a) /\ active.command \in Command
  BY <1>1, NowOrder DEF OrderIn, TypeInv, TypeOK, Transaction
<1>4. command \in Sendable
  BY CommandsAreSendable
<1>5. x.sessions = [sessions EXCEPT ![s] = b] /\ x.active = active
  BY DEF Now
<1>6. \/ Commit([Now EXCEPT !.closed = {s}])
      \/ Commit(x)
  BY DEF ClientFrame, CommitAndSchedule
<1> HIDE DEF a, b, x
<1>7. Fits(active, s, b)
  BY <1>2, <1>3, <1>4, ArrivalFits
<1>8. CASE Commit(x)
  <2>1. OrderIn(next_session, x)
    BY <1>1, <1>5, <1>7, NowOrder, OneSessionOrder
  <2> QED
    BY <1>1, <1>8, <2>1, NowOrder, CommitOrder
<1>9. CASE Commit([Now EXCEPT !.closed = {s}])
  <2>1. /\ [Now EXCEPT !.closed = {s}].sessions = sessions
        /\ [Now EXCEPT !.closed = {s}].active = active
    BY DEF Now
  <2> QED
    BY <1>1, <1>9, <2>1, UnspokenOrder DEF SameTransaction
<1> QED
  BY <1>6, <1>8, <1>9

LEMMA WrittenOrder ==
  ASSUME TypeInv, OrderInv, NEW s, Written(s)
  PROVE  OrderInv'
<1> DEFINE a == sessions[s]
           b == [a EXCEPT !.writes = Tail(a.writes)]
           x == [Now EXCEPT !.sessions[s].writes = Tail(a.writes)]
<1>1. s \in DOMAIN sessions /\ a \in Session /\ next_session' = next_session
  BY NowOrder DEF Written
<1>2. b.sync = a.sync /\ b.commands = a.commands /\ b.owed = a.owed
  BY <1>1 DEF Session
<1>3. x.sessions = [sessions EXCEPT ![s] = b] /\ x.active = active
  BY DEF Now
<1>4. Fits(active, s, a)
  BY <1>1, NowOrder DEF OrderIn
<1>5. Commit(x) \/ Commit(Fail(Finish(x)))
  BY DEF Written, CommitAndSchedule
<1>6. Fail(Finish(x)).failing = TRUE
  BY DEF Fail, Finish, Now
<1> HIDE DEF a, b, x
<1>7. Fits(active, s, b)
  BY <1>2, <1>4, SameFits
<1>8. OrderIn(next_session, x)
  BY <1>1, <1>3, <1>7, NowOrder, OneSessionOrder
<1> QED
  BY <1>1, <1>5, <1>6, <1>8, NowOrder, CommitOrder

LEMMA UpstreamWrittenOrder ==
  ASSUME TypeInv, OrderInv, NEW w, UpstreamWritten(w)
  PROVE  OrderInv'
<1> DEFINE write == IF AwaitsWrite(w) THEN 0 ELSE active.write
           x == [Now EXCEPT !.upstream_writes = upstream_writes \ {w},
                            !.active.write = write]
<1>1. x.sessions = sessions /\ x.active = [active EXCEPT !.write = write]
  BY DEF Now
<1>2. SameTransaction(active, [active EXCEPT !.write = write])
  BY DEF SameTransaction, TypeInv, TypeOK, Transaction
<1>3. Commit(x) /\ next_session' = next_session
  BY DEF UpstreamWritten, CommitAndSchedule
<1> HIDE DEF x
<1> QED
  BY <1>1, <1>2, <1>3, UnspokenOrder

\* The handlers that end the epoch, and those that only close sessions.
LEMMA EndingOrder ==
  ASSUME TypeInv, OrderInv,
         \/ \E s : ClientClosed(s) \/ WriteFailed(s)
         \/ LateUpstreamFrame \/ UpstreamClosed
         \/ ResponseTimeout \/ UpstreamWriteTimeout
  PROVE  OrderInv'
<1>1. Fail(Now).failing = TRUE
  BY DEF Fail, Now
<1>2. \A s : /\ [Now EXCEPT !.closed = {s}].sessions = sessions
             /\ [Now EXCEPT !.closed = {s}].active = active
  BY DEF Now
<1>3. next_session' = next_session
  BY DEF ClientClosed, WriteFailed, LateUpstreamFrame, UpstreamClosed,
     ResponseTimeout, UpstreamWriteTimeout
<1>4. Commit(Fail(Now)) \/ \E s : Commit([Now EXCEPT !.closed = {s}])
  BY DEF ClientClosed, WriteFailed, LateUpstreamFrame, UpstreamClosed,
     ResponseTimeout, UpstreamWriteTimeout, CommitAndSchedule
<1> QED
  BY <1>1, <1>2, <1>3, <1>4, UnspokenOrder DEF SameTransaction

LEMMA UpstreamFrameOrder ==
  ASSUME TypeInv, TransactionInv, OrderInv, NEW f \in Frames, UpstreamFrame(f)
  PROVE  OrderInv'
<1>1. Fail(Now).failing = TRUE
  BY DEF Fail, Now
<1>2. \/ Commit(Fail(Now)) \/ Commit(Push(f))
      \/ Commit(TransactionResponse(f))
  BY DEF UpstreamFrame, CommitAndSchedule
<1>3. next_session' = next_session
  BY DEF UpstreamFrame
<1> QED
  BY <1>1, <1>2, <1>3, NowOrder, PushOrder, TransactionResponseOrder, CommitOrder

LEMMA TickOrder ==
  ASSUME TypeInv, OrderInv, NEW stuck, NEW late, NEW expired, NEW poll,
         Tick(stuck, late, expired, poll)
  PROVE  OrderInv'
<1> DEFINE table == [s \in DOMAIN sessions |->
                       IF s \in late
                       THEN [Reply(sessions[s], "frame") EXCEPT !.sync = 0]
                       ELSE sessions[s]]
           x == [Now EXCEPT
                   !.closed = stuck,
                   !.sessions = IF poll THEN HintAll(table) ELSE table,
                   !.remote = IF "remote" \in expired THEN NoRemote ELSE remote,
                   !.signing = IF "signing" \in expired THEN NoSigning
                               ELSE signing]
<1>1. /\ x.sessions = IF poll THEN HintAll(table) ELSE table
      /\ x.active = active
  BY DEF Now
<1>2. Commit(x) /\ next_session' = next_session
  BY DEF Tick, CommitAndSchedule
<1>3. \A s \in late : s \in DOMAIN sessions /\ sessions[s].sync # 0
  BY DEF Tick
<1> HIDE DEF x
<1>4. ASSUME NEW s \in DOMAIN sessions
      PROVE  table[s] \in Session /\ Told(sessions[s], table[s])
  <2>1. sessions[s] \in Session
    BY NowOrder
  <2>2. CASE s \in late
    <3>1. Told(sessions[s], [Reply(sessions[s], "frame") EXCEPT !.sync = 0])
      BY <1>3, <2>1, <2>2, WaitEndTells DEF WriteKinds
    <3>2. Reply(sessions[s], "frame") \in Session
      BY <2>1, ReplyType DEF WriteKinds
    <3>3. [Reply(sessions[s], "frame") EXCEPT !.sync = 0] \in Session
      BY <3>2 DEF Session
    <3> QED
      BY <2>2, <3>1, <3>3
  <2>3. CASE s \notin late
    BY <2>1, <2>3, WriteTells
  <2> QED
    BY <2>2, <2>3
<1>5. ASSUME NEW s \in DOMAIN sessions
      PROVE  Told(sessions[s], Hint(table[s]))
  <2> DEFINE a == sessions[s]
             b == table[s]
             c == Hint(b)
  <2>1. b \in Session /\ Told(a, b)
    BY <1>4
  <2> HIDE DEF a, b
  <2>2. c.commands = b.commands /\ c.owed = b.owed /\ c.sync = b.sync
    BY <2>1 DEF Hint, Emit, Session
  <2> HIDE DEF c
  <2>3. Told(a, c)
    BY <2>1, <2>2 DEF Told
  <2> QED
    BY <2>3 DEF a, b, c
<1>6. DOMAIN table = DOMAIN sessions
  OBVIOUS
<1> HIDE DEF table
<1>7. Tells(Now, x)
  BY <1>1, <1>4, <1>5, <1>6, NowOrder DEF Tells, HintAll
<1>8. OrderIn(next_session, x)
  BY <1>1, <1>7, NowOrder, SameActiveOrder
<1> QED
  BY <1>2, <1>8, NowOrder, CommitOrder


-----------------------------------------------------------------------------
(* The iterations of schedule *)

\* A session whose queue schedule looks at.
LEMMA ReadyFits ==
  ASSUME TypeInv, OrderInv, NEW s \in DOMAIN sessions, sessions[s].sync = 0,
         sessions[s].commands # <<>>, ~ Owns(s)
  PROVE  /\ Fits(active, s, sessions[s]) /\ ~ Asks(active, s)
         /\ sessions[s] \in Session
         /\ Head(sessions[s].commands) \in Sendable
<1>1. Fits(active, s, sessions[s]) /\ sessions[s] \in Session
  BY NowOrder DEF OrderIn
<1>2. sessions[s].commands \in Seq(Sendable)
  BY <1>1 DEF Fits
<1> QED
  BY <1>1, <1>2, FirstAndRest DEF Owns, Busy, Asks

\* The ways to answer a command at once.
LEMMA AnswersReply ==
  ASSUME NEW a \in Session, NEW scope \in Nat,
         NEW b \in {Reply(a, "frame"), [Reply(a, "frame") EXCEPT !.scope = scope],
                    DeliverInbox(a), DeliverSlot(a)}
  PROVE  Replied(a, b)
<1> DEFINE x == Reply(a, "frame")
           y == Reply(a, Layout(a.version))
           z == [y EXCEPT !.inbox = Tail(a.inbox), !.last = Head(a.inbox)]
           v == [x EXCEPT !.scope = scope]
<1>1. x \in Session /\ y \in Session
  BY ReplyType DEF Layout, WriteKinds
<1>2. Replied(a, x) /\ Replied(a, y)
  BY ReplyFields DEF Replied
<1>3. b \in {x, y, z, v}
  BY DEF DeliverInbox, DeliverSlot
<1> HIDE DEF x, y
<1>4. z.commands = y.commands /\ z.sync = y.sync /\ z.owed = y.owed
  BY <1>1 DEF Session
<1>5. v.commands = x.commands /\ v.sync = x.sync /\ v.owed = x.owed
  BY <1>1 DEF Session
<1> HIDE DEF z, v
<1> QED
  BY <1>2, <1>3, <1>4, <1>5 DEF Replied

LEMMA ScheduleLocalOrder ==
  ASSUME TypeInv, OrderInv, NEW s, ScheduleLocal(s)
  PROVE  OrderInv'
<1> DEFINE a == sessions[s]
           command == Head(a.commands)
           taken == [a EXCEPT !.commands = Tail(a.commands)]
           e == [Now EXCEPT !.sessions[s].commands = Tail(a.commands)]
           x == LocalEffect(e, s, command)
           waits == [taken EXCEPT !.sync = pop_sequence + 1]
           scoped == [Reply(taken, "frame") EXCEPT !.scope = command.arg]
<1>1. /\ s \in DOMAIN sessions /\ a.commands # <<>> /\ a.sync = 0 /\ ~ Owns(s)
  BY DEF ScheduleLocal, LocalReady, HeadReady
<1>2. /\ Fits(active, s, a) /\ ~ Asks(active, s)
      /\ a \in Session /\ command \in Sendable
  BY <1>1, ReadyFits
<1>3. taken \in Session
  BY <1>1, TailTaken
<1>4. /\ taken.commands = Tail(a.commands)
      /\ taken.owed = a.owed /\ taken.sync = 0
  BY <1>1, <1>2 DEF Session
<1>5. e.sessions = [sessions EXCEPT ![s] = taken] /\ e.active = active
      /\ e.sessions[s] = taken
  BY <1>1 DEF Now
<1>6. Commit(x) /\ next_session' = next_session
  BY DEF ScheduleLocal
<1>7. command.arg \in Nat
  BY <1>2, CommandTypes DEF Sendable
<1>8. PICK b :
        /\ x.active = active /\ x.sessions = [sessions EXCEPT ![s] = b]
        /\ \/ b \in {Reply(taken, "frame"), scoped,
                     DeliverInbox(taken), DeliverSlot(taken)}
           \/ command.op = "sync_next_message" /\ b = waits
  <2>1. e \in State(next_session)
    BY <1>1, TailTaken
  <2> HIDE DEF e, taken, a, waits, scoped
  <2>2. CASE command.op = "sync_next_message"
    <3>1. x = LocalSync(e, s)
      BY <2>2 DEF LocalEffect
    <3>2. CASE InboxFor(s) = <<>>
      <4>1. /\ x.active = active
            /\ x.sessions = [e.sessions EXCEPT ![s].sync = pop_sequence + 1]
        BY <1>5, <2>1, <3>1, <3>2 DEF LocalSync, State
      <4> HIDE DEF x
      <4>2. x.sessions = [sessions EXCEPT ![s] = waits]
        BY <1>5, <4>1 DEF waits
      <4> QED
        BY <2>2, <4>1, <4>2
    <3>3. CASE InboxFor(s) # <<>>
      <4>1. PICK b \in {DeliverInbox(taken), DeliverSlot(taken)} :
              x.active = active /\ x.sessions = [e.sessions EXCEPT ![s] = b]
        BY <1>5, <2>1, <3>1, <3>3 DEF LocalSync, State
      <4> HIDE DEF x
      <4>2. x.sessions = [sessions EXCEPT ![s] = b]
        BY <1>5, <4>1
      <4> QED
        BY <4>1, <4>2
    <3> QED
      BY <3>2, <3>3
  <2>3. CASE command.op = "set_flood_scope_key"
    <3>1. x = [e EXCEPT !.sessions[s] = scoped]
      BY <1>5, <2>3 DEF LocalEffect, scoped
    <3>2. x.active = active /\ x.sessions = [e.sessions EXCEPT ![s] = scoped]
      BY <1>5, <2>1, <3>1 DEF State
    <3> HIDE DEF x
    <3> QED
      BY <1>5, <3>2
  <2>4. CASE command.op \notin {"sync_next_message", "set_flood_scope_key"}
    <3>1. x = [e EXCEPT !.sessions[s] = Reply(taken, "frame")]
      BY <1>5, <2>4 DEF LocalEffect
    <3>2. x.active = active
          /\ x.sessions = [e.sessions EXCEPT ![s] = Reply(taken, "frame")]
      BY <1>5, <2>1, <3>1 DEF State
    <3> HIDE DEF x
    <3> QED
      BY <1>5, <3>2
  <2> QED
    BY <2>2, <2>3, <2>4
<1> HIDE DEF x
<1>9. Fits(active, s, b)
  <2>1. CASE b \in {Reply(taken, "frame"), scoped,
                    DeliverInbox(taken), DeliverSlot(taken)}
    <3>1. Replied(taken, b)
      BY <1>3, <1>7, <2>1, AnswersReply
    <3> HIDE DEF taken, a, scoped
    <3> QED
      BY <1>1, <1>2, <1>4, <3>1, HeadAnsweredFits DEF Replied
  <2>2. CASE command.op = "sync_next_message" /\ b = waits
    <3>1. pop_sequence \in Nat
      BY DEF TypeInv, TypeOK
    <3>2. /\ waits.commands = taken.commands /\ waits.owed = taken.owed
          /\ waits.sync = pop_sequence + 1
      BY <1>3 DEF Session
    <3>3. command = Sync
      BY <1>2, <2>2 DEF Sendable
    <3> HIDE DEF taken, waits, a
    <3> QED
      BY <1>1, <1>2, <1>4, <2>2, <3>1, <3>2, <3>3, HeadTakenFits
  <2> QED
    BY <1>8, <2>1, <2>2
<1> HIDE DEF a
<1>10. OrderIn(next_session, x)
  BY <1>1, <1>8, <1>9, NowOrder, OneSessionOrder
<1> QED
  BY <1>6, <1>10, NowOrder, CommitOrder

LEMMA ScheduleAgedOrder ==
  ASSUME TypeInv, OrderInv, NEW s, ScheduleAged(s)
  PROVE  OrderInv'
<1> DEFINE a == sessions[s]
           given == Reply(a, "frame")
           b == [given EXCEPT !.commands = Tail(a.commands)]
           x == [Now EXCEPT !.sessions[s] = b]
<1>1. s \in DOMAIN sessions /\ a.commands # <<>> /\ a.sync = 0 /\ ~ Owns(s)
  BY DEF ScheduleAged, HeadReady
<1>2. Fits(active, s, a) /\ ~ Asks(active, s) /\ a \in Session
  BY <1>1, ReadyFits
<1>3. given \in Session /\ Replied(a, given)
  BY <1>2, ReplyType, ReplyFields DEF Replied, WriteKinds
<1>4. Commit(x) /\ next_session' = next_session
  BY DEF ScheduleAged
<1>5. x.sessions = [sessions EXCEPT ![s] = b] /\ x.active = active
  BY DEF Now
<1> HIDE DEF x, given, a
<1>6. /\ b.commands = Tail(a.commands)
      /\ b.owed = given.owed /\ b.sync = given.sync
  BY <1>3 DEF Session
<1> HIDE DEF b
<1>7. Fits(active, s, b)
  BY <1>1, <1>2, <1>3, <1>6, HeadAnsweredFits DEF Replied
<1>8. OrderIn(next_session, x)
  BY <1>1, <1>5, <1>7, NowOrder, OneSessionOrder
<1> QED
  BY <1>4, <1>8, NowOrder, CommitOrder


\* The inbox consumer's transaction owes no client a reply.
LEMMA TurnPopOrder ==
  ASSUME TypeInv, InboxInv, Ended, OrderInv, NEW k, TurnPop(k)
  PROVE  OrderInv'
<1> DEFINE e == [Now EXCEPT !.order = Rotated(k)]
           x == DispatchPop(e)
<1>1. ~ Busy
  BY TurnIsFree DEF TurnPop, NextTurn
<1>2. x.sessions = sessions /\ x.active.owner = 0
  BY DEF DispatchPop, SendCommand, SendUpstream, Now, NoTransaction
<1>3. Commit(x) /\ next_session' = next_session
  BY DEF TurnPop
<1> HIDE DEF x
<1>4. ASSUME NEW s \in DOMAIN sessions
      PROVE  Fits(x.active, s, sessions[s])
  <2>1. Fits(active, s, sessions[s])
    BY NowOrder DEF OrderIn
  <2>2. ~ Asks(active, s) /\ ~ Asks(x.active, s)
    BY <1>1, <1>2 DEF Busy, Asks, TypeInv, TypeOK
  <2> QED
    BY <2>1, <2>2, NothingOwedFits
<1>5. OrderIn(next_session, x)
  BY <1>2, <1>4, NowOrder DEF OrderIn
<1> QED
  BY <1>3, <1>5, NowOrder, CommitOrder

\* A turn takes the first command of the queue of s.
LEMMA TurnTakenFields ==
  ASSUME TypeInv, InboxInv, Ended, OrderInv, NEW k, NEW s, s # 0,
         NextTurn(k, s)
  PROVE  LET a == sessions[s]
             command == Head(a.commands)
             e == TurnTaken(k, s, command)
             b == e.sessions[s]
         IN /\ ~ Busy /\ s \in DOMAIN sessions
            /\ Fits(active, s, a) /\ a.sync = 0 /\ a.commands # <<>>
            /\ command \in Sendable
            /\ b \in Session /\ b.commands = Tail(a.commands)
            /\ b.owed = a.owed /\ b.sync = 0
            /\ e.active = active /\ DOMAIN e.sessions = DOMAIN sessions
            /\ \A t \in DOMAIN sessions : t # s => e.sessions[t] = sessions[t]
<1> DEFINE a == sessions[s]
           command == Head(a.commands)
           taken == [a EXCEPT !.commands = Tail(a.commands)]
           e == TurnTaken(k, s, command)
<1>1. ~ Busy
  BY TurnIsFree DEF NextTurn
<1>2. s \in DOMAIN sessions /\ a.sync = 0 /\ a.commands # <<>> /\ ~ Owns(s)
  BY <1>1 DEF NextTurn, HasWork, Owns
<1>3. /\ Fits(active, s, a) /\ a \in Session /\ command \in Sendable
  BY <1>2, ReadyFits
<1>4. taken \in Session
  BY <1>2, TailTaken
<1>5. /\ taken.commands = Tail(a.commands)
      /\ taken.owed = a.owed /\ taken.sync = 0
  BY <1>2, <1>3 DEF Session
<1>6. e.sessions = [sessions EXCEPT ![s] = taken] /\ e.active = active
  BY DEF TurnTaken, Now
<1> HIDE DEF e, taken, a
<1> QED
  BY <1>1, <1>2, <1>3, <1>4, <1>5, <1>6 DEF a, e

LEMMA TurnDispatchOrder ==
  ASSUME TypeInv, InboxInv, Ended, OrderInv, NEW k, NEW s, TurnDispatch(k, s)
  PROVE  OrderInv'
<1> DEFINE a == sessions[s]
           command == Head(a.commands)
           e == TurnTaken(k, s, command)
           r == Reserved(e, s, command)
           x == Dispatch(r, s, command)
<1>1. s # 0 /\ NextTurn(k, s)
  BY DEF TurnDispatch
<1>2. /\ ~ Busy /\ s \in DOMAIN sessions
      /\ Fits(active, s, a) /\ a.sync = 0 /\ a.commands # <<>>
      /\ command \in Command
      /\ DOMAIN e.sessions = DOMAIN sessions
      /\ \A t \in DOMAIN sessions : t # s => e.sessions[t] = sessions[t]
  BY <1>1, TurnTakenFields DEF Sendable
<1>3. LET b == e.sessions[s]
      IN b.commands = Tail(a.commands) /\ b.owed = a.owed /\ b.sync = 0
  BY <1>1, TurnTakenFields
<1>4. e \in State(next_session)
  BY <1>1, TurnTakenType
<1>5. next_session \in Nat /\ s \in Nat /\ s <= next_session
  BY <1>2 DEF TypeInv, TypeOK
<1>6. Commit(x) /\ next_session' = next_session
  BY DEF TurnDispatch
<1> HIDE DEF e, command, a
<1>7. r \in State(next_session) /\ r.sessions = e.sessions
  BY <1>2, <1>4, <1>5, ReservedType
<1> HIDE DEF r
<1>8. /\ x.sessions = e.sessions /\ UnderWay(x.active)
      /\ x.active.command = command /\ x.active.owner = s
  BY <1>7 DEF Dispatch, SendCommand, SendUpstream, State, NoTransaction, UnderWay
<1> HIDE DEF x
<1>9. \A t : ~ Asks(active, t)
  BY <1>2 DEF Busy, Asks
<1>10. Asks(x.active, s)
  BY <1>8 DEF Asks, UnderWay
<1>11. Fits(x.active, s, e.sessions[s])
  <2> DEFINE b == e.sessions[s]
  <2>1. b.commands = Tail(a.commands) /\ b.owed = a.owed /\ b.sync = 0
    BY <1>3
  <2> HIDE DEF b
  <2>2. Fits(x.active, s, b)
    BY <1>2, <1>8, <1>9, <1>10, <2>1, HeadTakenFits DEF command
  <2> QED
    BY <2>2 DEF b
<1>12. ASSUME NEW t \in DOMAIN sessions, t # s
       PROVE  Fits(x.active, t, e.sessions[t])
  <2>1. Fits(active, t, sessions[t])
    BY NowOrder DEF OrderIn
  <2>2. ~ Asks(x.active, t)
    BY <1>8, <1>12 DEF Asks
  <2>3. Fits(x.active, t, sessions[t])
    BY <1>9, <2>1, <2>2, NothingOwedFits
  <2> QED
    BY <1>2, <1>12, <2>3
<1>13. OrderIn(next_session, x)
  BY <1>2, <1>5, <1>8, <1>11, <1>12 DEF OrderIn
<1> QED
  BY <1>5, <1>6, <1>13, CommitOrder

LEMMA TurnRejectOrder ==
  ASSUME TypeInv, InboxInv, Ended, OrderInv, NEW k, NEW s, TurnReject(k, s)
  PROVE  OrderInv'
<1> DEFINE a == sessions[s]
           e == TurnTaken(k, s, Head(a.commands))
           b == e.sessions[s]
           c == Reply(b, "frame")
           x == [e EXCEPT !.sessions[s] = c]
<1>1. s # 0 /\ NextTurn(k, s)
  BY DEF TurnReject
<1>2. /\ ~ Busy /\ s \in DOMAIN sessions
      /\ Fits(active, s, a) /\ a.sync = 0 /\ a.commands # <<>>
      /\ b \in Session /\ b.commands = Tail(a.commands)
      /\ b.owed = a.owed /\ b.sync = 0
      /\ e.active = active /\ DOMAIN e.sessions = DOMAIN sessions
      /\ \A t \in DOMAIN sessions : t # s => e.sessions[t] = sessions[t]
  BY <1>1, TurnTakenFields
<1>3. e \in State(next_session) /\ next_session \in Nat
  BY <1>1, TurnTakenType DEF TypeInv, TypeOK
<1>4. Commit(x) /\ next_session' = next_session
  BY DEF TurnReject
<1>5. Replied(b, c)
  BY <1>2, ReplyFields DEF Replied
<1> HIDE DEF b, c, e
<1>6. x.sessions = [e.sessions EXCEPT ![s] = c] /\ x.active = active
  BY <1>2, <1>3 DEF State
<1> HIDE DEF x, a
<1>7. Fits(active, s, c)
  <2>1. ~ Asks(active, s)
    BY <1>2 DEF Busy, Asks
  <2> QED
    BY <1>2, <1>5, <2>1, HeadAnsweredFits DEF Replied
<1>8. ASSUME NEW t \in DOMAIN x.sessions
      PROVE  Fits(active, t, x.sessions[t])
  <2>1. t # s => Fits(active, t, sessions[t])
    BY <1>2, <1>6, NowOrder DEF OrderIn
  <2> QED
    BY <1>2, <1>6, <1>7, <2>1
<1>9. active.owner <= next_session
  BY NowOrder DEF OrderIn
<1>10. OrderIn(next_session, x)
  BY <1>6, <1>8, <1>9 DEF OrderIn
<1> QED
  BY <1>3, <1>4, <1>10, CommitOrder

-----------------------------------------------------------------------------
(* The rest *)

\* Steps that leave the sessions and the transaction alone.
LEMMA QuietOrder ==
  ASSUME OrderInv, UNCHANGED <<sessions, active, next_session>>
  PROVE  OrderInv'
BY DEF OrderInv, OrderIn, Now

\* An item that the old connection still delivers answers waits as one popped in
\* this epoch does.
LEMMA DrainUncertainFrameOrder ==
  ASSUME TypeInv, TransactionInv, OrderInv, NEW f \in Frames,
         DrainUncertainFrame(f)
  PROVE  OrderInv'
<1> DEFINE n == next_session
           paid == [Now EXCEPT !.debt = NoTransaction]
           started == [Now EXCEPT !.debt.contacts_started = TRUE]
<1>1. n \in Nat /\ paid \in State(n)
  BY NowOrder, SmallChanges
<1>2. debt \in Transaction /\ PopShape(debt)
  BY DEF TypeInv, TypeOK
<1>3. /\ paid.sessions = sessions /\ paid.active = active
      /\ started.sessions = sessions /\ started.active = active
  BY DEF Now
<1>4. \/ Commit(Push(f))
      \/ Commit(paid)
      \/ DebtPaid(f) /\ KeepsItem(f) /\ Commit(PopResult(paid, debt, f))
      \/ Commit(started)
  BY DEF DrainUncertainFrame
<1>5. next_session' = n
  BY DEF DrainUncertainFrame
<1> HIDE DEF paid, started, n
<1>6. ASSUME DebtPaid(f), KeepsItem(f)
      PROVE  f.code \in {"message", "no_more_messages"}
  <2>1. /\ debt.command = Sync
        /\ debt.contacts_started \in BOOLEAN
        /\ ValidResponse(debt.command, debt.contacts_started, f)
    BY <1>2, <1>6 DEF KeepsItem, DebtPaid, PopShape, Transaction
  <2>2. f.code \in {"err", "message", "no_more_messages"}
    BY <2>1, SyncReplies
  <2> QED
    BY <1>6, <2>2 DEF KeepsItem
<1>7. CASE Commit(Push(f))
  BY <1>5, <1>7, NowOrder, PushOrder, CommitOrder DEF n
<1>8. OrderIn(n, paid) /\ OrderIn(n, started)
  BY <1>3, NowOrder DEF OrderIn, n
<1>9. CASE Commit(paid) \/ Commit(started)
  BY <1>1, <1>5, <1>8, <1>9, CommitOrder
<1>10. CASE DebtPaid(f) /\ KeepsItem(f) /\ Commit(PopResult(paid, debt, f))
  <2> DEFINE x == PopResult(paid, debt, f)
  <2>1. Tells(paid, x) /\ x.active = paid.active
    BY <1>1, <1>6, <1>10, PopResultTells
  <2> HIDE DEF x
  <2>2. OrderIn(n, x)
    BY <1>8, <2>1, SameActiveOrder
  <2> QED
    BY <1>1, <1>5, <1>10, <2>2, CommitOrder DEF x
<1> QED
  BY <1>4, <1>7, <1>9, <1>10

LEMMA OrderInit == Init => OrderInv
<1> SUFFICES ASSUME Init
             PROVE  OrderInv
  OBVIOUS
<1>1. /\ DOMAIN Now.sessions = {} /\ Now.active.owner = 0
      /\ next_session = 0
  BY DEF Init, Now, NoTransaction
<1> QED
  BY <1>1 DEF OrderInv, OrderIn

LEMMA OrderStep == BrokerInv /\ OrderInv /\ [Next]_vars => OrderInv'
<1> SUFFICES ASSUME TypeInv, InboxInv, Ended, TransactionInv, OrderInv,
                    [Next]_vars
             PROVE  OrderInv'
  BY DEF BrokerInv
<1>1. CASE UNCHANGED vars
  BY <1>1, QuietOrder DEF vars
<1>2. CASE ScheduleStep
  <2>1. ScheduleBusy \/ TurnNone => UNCHANGED <<sessions, active, next_session>>
    BY DEF ScheduleBusy, TurnNone
  <2> QED
    BY <1>2, <2>1, ScheduleLocalOrder, ScheduleAgedOrder, TurnPopOrder,
       TurnDispatchOrder, TurnRejectOrder, QuietOrder DEF ScheduleStep
<1>3. CASE ClientStep
  <2>1. ASSUME \/ \E s : ClientClosed(s)
               \/ \E s : WriteFailed(s)
        PROVE  OrderInv'
    BY <2>1, EndingOrder
  <2> QED
    BY <1>3, <2>1, AdmitOrder, ClientFrameOrder, WrittenOrder DEF ClientStep
<1>4. CASE UpstreamStep
  <2>1. ASSUME \/ TakeWrite \/ \E same_key \in BOOLEAN : Restart(same_key)
        PROVE  UNCHANGED <<sessions, active, next_session>>
    BY <2>1 DEF TakeWrite, Restart
  <2>2. LateUpstreamFrame \/ UpstreamClosed => OrderInv'
    BY EndingOrder
  <2> QED
    BY <1>4, <2>1, <2>2, UpstreamWrittenOrder, UpstreamFrameOrder,
       DrainUncertainFrameOrder, QuietOrder DEF UpstreamStep
<1>5. CASE ClockStep
  <2>1. ASSUME \/ QuarantineDeadline \/ \E i \in RingSlots : DmDeadline(i)
        PROVE  UNCHANGED <<sessions, active, next_session>>
    BY <2>1 DEF QuarantineDeadline, DmDeadline
  <2>2. ResponseTimeout \/ UpstreamWriteTimeout => OrderInv'
    BY EndingOrder
  <2> QED
    BY <1>5, <2>1, <2>2, TickOrder, QuietOrder DEF ClockStep
<1> QED
  BY <1>1, <1>2, <1>3, <1>4, <1>5 DEF Next

LEMMA OrderInvariant == Spec => [](BrokerInv /\ OrderInv)
<1>1. Init => OrderInv
  BY OrderInit
<1>2. BrokerInv /\ OrderInv /\ [Next]_vars => OrderInv'
  BY OrderStep
<1> QED
  BY <1>1, <1>2, TransactionInvariant, PTL DEF Spec

\* Every command of a connected client is answered exactly once and in the order
\* received, whatever is interleaved with it: answers of the broker itself, pops
\* for other clients, the hidden scope commands around a send, refusals of the
\* round robin, commands that grow too old and waits that run out of time.
THEOREM RepliesOrdered == Spec => []RepliesInOrder
<1>1. OrderInv => RepliesInOrder
  <2> SUFFICES ASSUME OrderInv, NEW s \in DOMAIN sessions
               PROVE  sessions[s].owed = InFlight(s) \o sessions[s].commands
    BY DEF RepliesInOrder
  <2>1. Fits(active, s, sessions[s])
    BY DEF OrderInv, OrderIn, Now
  <2>2. InFlight(s) = Flying(active, s, sessions[s].sync)
    BY DEF InFlight, Flying, Owns, Busy, Asks, UnderWay
  <2> QED
    BY <2>1, <2>2 DEF Fits
<1> QED
  BY <1>1, OrderInvariant, PTL


-----------------------------------------------------------------------------
(* VirtualNeverForwarded                                                   *)
(*                                                                         *)
(* The first loop of schedule leaves no virtual command at the head of a   *)
(* queue that the second may look at.  A refusal in the second loop does:  *)
(* behind the refused command may be a virtual one.  It is not met, since  *)
(* the turn has moved its session to the end of the round robin and a turn *)
(* is left for each of the others at most.  So RoundInv says that no       *)
(* session is in the round robin twice, that the turns left do not reach   *)
(* around, and that the heads they may still meet are not virtual; that no *)
(* session is over its output budget, so that only the refused one can     *)
(* leave with the refusal, which shifts nobody into a turn that is left.   *)

Distinct(queue) ==
  \A i, j \in DOMAIN queue : queue[i] = queue[j] => i = j

\* What the round robin may find when it comes to an id.
MayMeet(id) ==
  id # 0 /\ HasWork(id) => ~ Virtual(Head(sessions[id].commands))

Forwards(tx) == tx.step # "none" /\ tx.owner # 0 => ~ Virtual(tx.command)

RoundInv ==
  /\ Distinct(order)
  /\ \A i \in DOMAIN order : order[i] \in DOMAIN sessions \cup {0}
  /\ \A s \in DOMAIN sessions : Len(sessions[s].writes) <= OutputFrames
  /\ Forwards(active)
  /\ phase = "turn" =>
       /\ ~ failed
       /\ turns <= Len(order)
       /\ \A j \in 1 .. turns : MayMeet(order[j])

\* Removing sessions from the round robin leaves the others in it once.
LEMMA WithoutDistinct ==
  ASSUME NEW queue \in Seq(Nat), NEW left, Distinct(queue)
  PROVE  LET q == Without(queue, left)
         IN Distinct(q) /\ \A k \in DOMAIN q : q[k] \in left \cup {0}
<1> DEFINE kept == {i \in DOMAIN queue : queue[i] \in left \cup {0}}
           Rank(i) == Cardinality({j \in kept : j < i})
           Position(k) == CHOOSE i \in kept : Rank(i) = k - 1
           q == Without(queue, left)
<1>1. Len(queue) \in Nat /\ kept \in SUBSET (1 .. Len(queue))
  OBVIOUS
<1>2. Cardinality(kept) \in Nat
  <2>1. IsFiniteSet(1 .. Len(queue))
    BY <1>1, FS_Interval
  <2> QED
    BY <1>1, <2>1, FS_Subset, FS_CardinalityType
<1>3. ASSUME NEW k \in 1 .. Cardinality(kept)
      PROVE  Position(k) \in kept /\ Rank(Position(k)) = k - 1
  BY <1>1, Ranked
<1>4. q = [k \in 1 .. Cardinality(kept) |-> queue[Position(k)]]
  BY DEF Without
<1> HIDE DEF Position, Rank, q
<1>5. ASSUME NEW i \in DOMAIN q, NEW j \in DOMAIN q, q[i] = q[j]
      PROVE  i = j
  <2>1. /\ i \in 1 .. Cardinality(kept) /\ j \in 1 .. Cardinality(kept)
        /\ queue[Position(i)] = queue[Position(j)]
    BY <1>4, <1>5
  <2>2. Position(i) = Position(j)
    BY <1>3, <2>1 DEF Distinct
  <2>3. i - 1 = j - 1
    BY <1>3, <2>1, <2>2
  <2> QED
    BY <1>2, <2>1, <2>3
<1>6. \A k \in DOMAIN q : q[k] \in left \cup {0}
  BY <1>3, <1>4
<1> QED
  BY <1>5, <1>6 DEF Distinct, q

\* If nobody leaves from the front, the front stays as it is.
LEMMA WithoutFront ==
  ASSUME NEW queue \in Seq(Nat), NEW left, NEW m \in 0 .. Len(queue),
         \A i \in 1 .. m : queue[i] \in left \cup {0}
  PROVE  LET q == Without(queue, left)
         IN m <= Len(q) /\ \A k \in 1 .. m : q[k] = queue[k]
<1> DEFINE kept == {i \in DOMAIN queue : queue[i] \in left \cup {0}}
           Below(i) == {j \in kept : j < i}
           Position(k) ==
             CHOOSE i \in kept : Cardinality(Below(i)) = k - 1
           q == Without(queue, left)
<1>1. /\ Len(queue) \in Nat /\ kept \in SUBSET (1 .. Len(queue))
      /\ 1 .. m \subseteq kept
  OBVIOUS
<1>2. IsFiniteSet(kept) /\ Cardinality(kept) \in Nat
  <2>1. IsFiniteSet(1 .. Len(queue))
    BY <1>1, FS_Interval
  <2> QED
    BY <1>1, <2>1, FS_Subset, FS_CardinalityType
<1>3. \A k \in Nat : Cardinality(1 .. k) = k
  <2>1. \A k \in Nat : Cardinality(1 .. k) = IF 1 > k THEN 0 ELSE k - 1 + 1
    BY FS_Interval
  <2> QED
    BY <2>1
<1>4. m <= Cardinality(kept)
  BY <1>1, <1>2, <1>3, FS_Subset
<1>5. q = [k \in 1 .. Cardinality(kept) |-> queue[Position(k)]]
  BY DEF Without
<1>6. ASSUME NEW k \in 1 .. Cardinality(kept)
      PROVE  Position(k) \in kept /\ Cardinality(Below(Position(k))) = k - 1
  BY <1>1, Ranked
<1>7. \A i : IsFiniteSet(Below(i)) /\ Cardinality(Below(i)) \in Nat
  BY <1>2, FS_Subset, FS_CardinalityType
<1>8. ASSUME NEW i \in 1 .. m
      PROVE  Below(i) = 1 .. (i - 1)
  BY <1>1
<1>9. ASSUME NEW i \in kept, NEW k \in 1 .. m, k < i
      PROVE  1 .. k \subseteq Below(i)
  BY <1>1, <1>9
<1> HIDE DEF q, Position, Below, kept
<1>10. ASSUME NEW k \in 1 .. m
       PROVE  Position(k) = k
  <2> DEFINE i == Position(k)
  <2>1. i \in kept /\ i \in Nat /\ i >= 1 /\ Cardinality(Below(i)) = k - 1
    <3>1. k \in 1 .. Cardinality(kept)
      BY <1>1, <1>2, <1>4
    <3>2. \A j \in kept : j \in Nat /\ j >= 1
      BY <1>1
    <3> QED
      BY <1>6, <3>1, <3>2
  <2> HIDE DEF i
  <2>2. ASSUME i < k
        PROVE  FALSE
    <3>1. i \in 1 .. m /\ i - 1 \in Nat
      BY <2>1, <2>2
    <3>2. Cardinality(Below(i)) = i - 1
      BY <1>3, <1>8, <3>1
    <3> QED
      BY <2>1, <2>2, <3>2
  <2>3. ASSUME k < i
        PROVE  FALSE
    <3>1. 1 .. k \subseteq Below(i)
      BY <1>9, <2>1, <2>3
    <3>2. Cardinality(1 .. k) <= Cardinality(Below(i))
      BY <1>7, <3>1, FS_Subset
    <3> QED
      BY <1>3, <2>1, <3>2
  <2> QED
    BY <2>1, <2>2, <2>3 DEF i
<1>11. Len(q) = Cardinality(kept)
  BY <1>2, <1>5
<1>12. \A k \in 1 .. m : q[k] = queue[k]
  BY <1>2, <1>4, <1>5, <1>10
<1> QED
  BY <1>4, <1>11, <1>12 DEF q

\* Turning the round robin.
LEMMA RotatedEntries ==
  ASSUME order \in Seq(Nat), NEW k \in Nat, k <= Len(order)
  PROVE  LET r == Rotated(k)
             m == Len(order) - k
         IN /\ r \in Seq(Nat) /\ Len(r) = Len(order)
            /\ \A j \in 1 .. m : r[j] = order[k + j]
            /\ \A j \in m + 1 .. Len(order) : r[j] = order[j - m]
<1> DEFINE p == SubSeq(order, k + 1, Len(order))
           q == SubSeq(order, 1, k)
           m == Len(order) - k
<1>1. /\ p \in Seq(Nat) /\ Len(p) = m
      /\ \A j \in 1 .. m : p[j] = order[k + j]
  <2>1. k + 1 \in 1 .. Len(order) + 1 /\ Len(order) \in 0 .. Len(order)
    OBVIOUS
  <2>2. /\ p \in Seq(Nat) /\ Len(p) = Len(order) - (k + 1) + 1
        /\ \A j \in 1 .. Len(order) - (k + 1) + 1 :
             p[j] = order[(k + 1) + j - 1]
    BY <2>1, SubSeqProperties
  <2>3. Len(order) - (k + 1) + 1 = m
    OBVIOUS
  <2>4. \A j \in 1 .. m : (k + 1) + j - 1 = k + j
    OBVIOUS
  <2> HIDE DEF p, m
  <2> QED
    BY <2>2, <2>3, <2>4
<1>2. /\ q \in Seq(Nat) /\ Len(q) = k
      /\ \A j \in 1 .. k : q[j] = order[j]
  OBVIOUS
<1> HIDE DEF p, q
<1>3. /\ p \o q \in Seq(Nat) /\ Len(p \o q) = Len(order)
      /\ \A j \in 1 .. Len(order) :
           (p \o q)[j] = IF j <= m THEN p[j] ELSE q[j - m]
  <2>1. Len(p) = m /\ Len(p) + Len(q) = Len(order)
    BY <1>1, <1>2
  <2>2. /\ p \in Seq(Nat) /\ q \in Seq(Nat)
    BY <1>1, <1>2
  <2>3. /\ p \o q \in Seq(Nat)
        /\ Len(p \o q) = Len(p) + Len(q)
        /\ \A j \in 1 .. Len(p) + Len(q) :
             (p \o q)[j] = IF j <= Len(p) THEN p[j] ELSE q[j - Len(p)]
    BY <2>2, ConcatProperties
  <2> QED
    BY <2>1, <2>3
<1>4. \A j \in 1 .. m : (p \o q)[j] = order[k + j]
  BY <1>1, <1>3
<1>5. ASSUME NEW j \in m + 1 .. Len(order)
      PROVE  (p \o q)[j] = order[j - m]
  <2>1. j \in 1 .. Len(order) /\ ~(j <= m) /\ j - m \in 1 .. k
    <3>1. Len(order) \in Nat
      OBVIOUS
    <3> QED
      BY <3>1
  <2> HIDE DEF m
  <2>2. (p \o q)[j] = q[j - m]
    BY <2>1, <1>3
  <2> QED
    BY <2>1, <2>2, <1>2
<1> QED
  BY <1>3, <1>4, <1>5 DEF Rotated, p, q

LEMMA RotatedDistinct ==
  ASSUME order \in Seq(Nat), NEW k \in Nat, k <= Len(order), Distinct(order)
  PROVE  Distinct(Rotated(k)) /\ Rotated(k) \in Seq(Nat)
         /\ \A j \in DOMAIN Rotated(k) :
              \E i \in DOMAIN order : Rotated(k)[j] = order[i]
<1> DEFINE r == Rotated(k)
           L == Len(order)
           From(j) == IF j <= L - k THEN k + j ELSE j - (L - k)
<1>1. L \in Nat /\ DOMAIN order = 1 .. L
  OBVIOUS
<1>2. /\ r \in Seq(Nat) /\ DOMAIN r = 1 .. L
      /\ \A j \in 1 .. L : From(j) \in 1 .. L /\ r[j] = order[From(j)]
  <2>1. /\ r \in Seq(Nat) /\ Len(r) = L
        /\ \A j \in 1 .. L - k : r[j] = order[k + j]
        /\ \A j \in L - k + 1 .. L : r[j] = order[j - (L - k)]
    BY RotatedEntries
  <2> HIDE DEF r, L
  <2>2. ASSUME NEW j \in 1 .. L
        PROVE  From(j) \in 1 .. L /\ r[j] = order[From(j)]
    BY <1>1, <2>1 DEF L
  <2> QED
    BY <2>1, <2>2
<1>3. \A i, j \in 1 .. L : From(i) = From(j) => i = j
  BY <1>1
<1> HIDE DEF r, L, From
<1> QED
  BY <1>1, <1>2, <1>3 DEF Distinct, r


-----------------------------------------------------------------------------
(* What handlers do with the round robin *)

\* The running command goes on or ends.
Goes(tx, ty) ==
  \/ ty.step = "none"
  \/ tx.step # "none" /\ ty.command = tx.command /\ ty.owner = tx.owner

LEMMA GoesForwards ==
  ASSUME NEW tx, NEW ty, Forwards(tx), Goes(tx, ty)
  PROVE  Forwards(ty)
BY DEF Forwards, Goes

LEMMA CommitRound ==
  ASSUME NEW x, x.order \in Seq(Nat), Distinct(x.order), Forwards(x.active),
         Commit(x), phase' # "turn"
  PROVE  RoundInv'
<1>1. NextState(x)
  BY DEF Commit
<1>2. CASE EpochEnds(x)
  <2>1. order' = <<0>> /\ DOMAIN sessions' = {} /\ active' = NoTransaction
    BY <1>1, <1>2 DEF NextState, FailEpoch
  <2> QED
    BY <2>1 DEF RoundInv, Distinct, Forwards, NoTransaction
<1>3. CASE ~ EpochEnds(x)
  <2>1. /\ order' = Without(x.order, Survivors(x)) /\ active' = x.active
        /\ sessions' = [s \in Survivors(x) |-> x.sessions[s]]
    BY <1>1, <1>3 DEF NextState, Continue
  <2>2. /\ Distinct(order')
        /\ \A i \in DOMAIN order' : order'[i] \in Survivors(x) \cup {0}
    BY <2>1, WithoutDistinct
  <2>3. \A s \in Survivors(x) : Len(x.sessions[s].writes) <= OutputFrames
    BY DEF Survivors
  <2>4. Distinct(order)' /\ Forwards(active)'
    BY <2>1, <2>2 DEF Distinct, Forwards
  <2> QED
    BY <2>1, <2>2, <2>3, <2>4 DEF RoundInv
<1> QED
  BY <1>2, <1>3

\* A handler that leaves the round robin to Commit.
LEMMA SteadyRound ==
  ASSUME TypeInv, RoundInv, NEW x, Commit(x), phase' # "turn",
         x.order = order, Goes(active, x.active)
  PROVE  RoundInv'
<1>1. order \in Seq(Nat)
  BY DEF TypeInv, TypeOK
<1> QED
  BY <1>1, GoesForwards, CommitRound DEF RoundInv

LEMMA CommandResponseGoes ==
  ASSUME NEW n \in Nat, NEW e \in State(n), NEW f \in Frames, Sound(e),
         e.active.step = "command", e.active.owner # 0
  PROVE  LET x == CommandResponse(e, f)
         IN x.order = e.order /\ Goes(e.active, x.active)
<1> DEFINE x == ReplyToOwner(e, f)
           y == RecordAcceptance(x, e.active.command, f)
           z == [x EXCEPT !.active.contacts_started = TRUE]
<1>1. x \in State(n) /\ x.active = e.active /\ x.order = e.order
  <2>1. x \in State(n) /\ x.active = e.active
    BY ReplyToOwnerType, OwnerKept
  <2>2. x.order = e.order
    BY DEF ReplyToOwner, State
  <2> QED
    BY <2>1, <2>2
<1> HIDE DEF x
<1>2. e.active.command \in Command
  BY DEF State, Transactions, Transaction
<1>3. y \in State(n) /\ y.order = e.order
  <2>1. y \in State(n)
    BY <1>1, <1>2, RecordAcceptanceType
  <2>2. y.order = x.order
    BY <1>1 DEF RecordAcceptance, State
  <2> QED
    BY <1>1, <2>1, <2>2
<1>4. z.order = e.order
  BY <1>1 DEF State
<1> HIDE DEF y, z
<1>5. AfterCommand(y).order = e.order
  BY <1>3 DEF AfterCommand, SendUpstream, Finish, State
<1>6. CommandResponse(e, f) \in {AfterCommand(y), z}
  BY DEF CommandResponse, y, z, x
<1>7. CommandResponse(e, f).order = e.order
  BY <1>4, <1>5, <1>6
<1>8. Keeps(e, CommandResponse(e, f)) \/ Releases(e, CommandResponse(e, f))
  BY CommandResponseSound
<1> QED
  BY <1>7, <1>8 DEF Keeps, Releases, SameTransaction, Goes

LEMMA ScopeResponseGoes ==
  ASSUME NEW n \in Nat, NEW e \in State(n), NEW f, Sound(e),
         e.active.step \in {"setup", "restore"}, e.active.owner # 0
  PROVE  LET x == ScopeResponse(e, f)
         IN x.order = e.order /\ Goes(e.active, x.active)
<1>1. ScopeResponse(e, f).order = e.order
  BY DEF ScopeResponse, SendCommand, SendUpstream, Finish, Fail, State
<1>2. Keeps(e, ScopeResponse(e, f)) \/ Releases(e, ScopeResponse(e, f))
  BY ScopeResponseSound
<1> QED
  BY <1>1, <1>2 DEF Keeps, Releases, SameTransaction, Goes

LEMMA PopResultGoes ==
  ASSUME NEW n \in Nat, NEW e \in State(n), NEW tx, NEW f \in Frames,
         f.code \in {"message", "no_more_messages"}
  PROVE  LET x == PopResult(e, tx, f)
         IN x.order = e.order /\ x.active = e.active
<1>1. PopResult(e, tx, f).order = e.order
  BY DEF PopResult, NoMoreMessages, FanOut, State
<1> QED
  BY <1>1, PopResultTells

LEMMA TransactionResponseGoes ==
  ASSUME TypeInv, TransactionInv, NEW f \in Frames
  PROVE  LET x == TransactionResponse(f)
         IN x.order = order /\ Goes(active, x.active)
<1> DEFINE n == next_session
           e == WriteIsOver
           x == TransactionResponse(f)
<1>1. n \in Nat /\ e \in State(n) /\ Sound(e)
  BY NowSound, WriteIsOverKeeps, KeepsSound
<1>2. active \in Transaction /\ PopShape(active)
  BY DEF TypeInv, TypeOK
<1>3. e.active.step = active.step /\ e.active.owner = active.owner
      /\ e.active.command = active.command
  BY <1>2, WriteIsOverKeeps DEF Transaction
<1>4. e.order = order
  BY DEF WriteIsOver, Now
<1> HIDE DEF e, n
<1>5. Fail(e).order = order /\ Goes(active, Fail(e).active)
  BY <1>1, <1>3, <1>4 DEF Fail, State, Goes
<1>6. Finish(e).order = order /\ Finish(e).active = NoTransaction
  BY <1>1, <1>4 DEF Finish, State
<1>7. CASE active.step \in {"setup", "restore"}
  <2>1. active.owner # 0
    BY <1>2, <1>7 DEF PopShape
  <2>2. x = ScopeResponse(e, f)
    BY <1>7 DEF TransactionResponse, e
  <2> HIDE DEF x
  <2> QED
    BY <1>1, <1>3, <1>4, <1>7, <2>1, <2>2, ScopeResponseGoes DEF Goes, x
<1>8. CASE active.step = "command" /\ active.owner = 0
  <2>1. active.command = Sync /\ active.contacts_started \in BOOLEAN
    BY <1>2, <1>8 DEF PopShape, Transaction
  <2>2. ValidResponse(active.command, active.contacts_started, f)
          => f.code \in {"err", "message", "no_more_messages"}
    BY <2>1, SyncReplies
  <2>3. \/ x = Fail(e)
        \/ /\ f.code \in {"message", "no_more_messages"}
           /\ x = PopResult(Finish(e), active, f)
    BY <1>8, <2>2 DEF TransactionResponse, e
  <2>4. Finish(e) \in State(n)
    BY <1>1, FinishType
  <2>5. ASSUME f.code \in {"message", "no_more_messages"}
        PROVE  LET y == PopResult(Finish(e), active, f)
               IN y.order = order /\ y.active.step = "none"
    BY <1>1, <1>6, <2>4, <2>5, PopResultGoes DEF NoTransaction
  <2> HIDE DEF x
  <2> QED
    BY <1>5, <2>3, <2>5 DEF Goes, x
<1>9. CASE active.step = "command" /\ active.owner # 0
  <2>1. x \in {Fail(e), CommandResponse(e, f)}
    BY <1>9 DEF TransactionResponse, e
  <2>2. LET y == CommandResponse(e, f)
        IN y.order = order /\ Goes(active, y.active)
    BY <1>1, <1>3, <1>4, <1>9, CommandResponseGoes DEF Goes
  <2> HIDE DEF x
  <2> QED
    BY <1>5, <2>1, <2>2 DEF x
<1>10. CASE active.step \in {"none", "result"}
  <2>1. x = Fail(e)
    BY <1>10 DEF TransactionResponse, e
  <2> QED
    BY <1>5, <2>1
<1> QED
  BY <1>2, <1>7, <1>8, <1>9, <1>10 DEF Transaction, Steps

LEMMA PushGoes ==
  ASSUME TypeInv, TransactionInv, NEW f \in Frames
  PROVE  LET x == Push(f) IN x.order = order /\ Goes(active, x.active)
<1>1. CASE AnswersSelfTelemetry(f)
  <2>1. Push(f) = TransactionResponse(f)
    BY <1>1 DEF Push, AnswersSelfTelemetry, RemotePushes
  <2> QED
    BY <2>1, TransactionResponseGoes
<1>2. CASE ~ AnswersSelfTelemetry(f)
  <2>1. AvailabilityHint.order = order /\ RemoteResult(f).order = order
    BY DEF AvailabilityHint, RemoteResult, Now
  <2>2. Push(f).order = order
    BY <1>2, <2>1 DEF Push, Now
  <2>3. SameTransaction(active, Push(f).active)
    BY <1>2, PushKeeps, NowSound DEF Keeps
  <2> QED
    BY <2>2, <2>3 DEF SameTransaction, Goes, UnderWay
<1> QED
  BY <1>1, <1>2


\* A new session joins at the end.
LEMMA AdmitRound ==
  ASSUME TypeInv, RoundInv, NEW d, Admit(d)
  PROVE  RoundInv'
<1> DEFINE id == next_session + 1
           old == IF d = 0 THEN 0 ELSE slots[d].attached
           others == DOMAIN sessions \ {old}
           given == IF TakesOrphan(d) THEN <<orphan>> ELSE <<>>
           new == Hint([NewSession(d) EXCEPT !.inbox = given])
           queue == Append(order, id)
           e == [Now EXCEPT
                   !.sessions = [s \in others \cup {id} |->
                                   IF s = id THEN new ELSE sessions[s]],
                   !.order = queue,
                   !.slots = [x \in Slots |->
                                IF x = d THEN [slots[x] EXCEPT !.attached = id]
                                ELSE slots[x]],
                   !.orphan = IF TakesOrphan(d) THEN 0 ELSE orphan,
                   !.drain = IF others = {} THEN NoDrain ELSE drain]
<1>1. /\ order \in Seq(Nat) /\ next_session \in Nat /\ id \in Nat
      /\ DOMAIN sessions \subseteq 1 .. next_session /\ phase = "idle"
  BY DEF TypeInv, TypeOK, Admit, AtRest
<1>2. CASE UNCHANGED <<sessions, order, active, phase, failed>>
  BY <1>1, <1>2 DEF RoundInv, Distinct, Forwards
<1>3. CASE CommitAndSchedule(e)
  <2>1. e.order = queue /\ e.active = active
    BY DEF Now
  <2>2. \A i \in DOMAIN order : order[i] # id
    BY <1>1 DEF RoundInv
  <2>3. /\ queue \in Seq(Nat) /\ DOMAIN queue = 1 .. Len(order) + 1
        /\ \A i \in DOMAIN order : queue[i] = order[i]
        /\ queue[Len(order) + 1] = id
        /\ DOMAIN order = 1 .. Len(order) /\ Len(order) \in Nat
    BY <1>1
  <2>4. Distinct(order) /\ Forwards(active)
    BY DEF RoundInv
  <2> HIDE DEF e, queue, id
  <2>5. Distinct(queue)
    <3>1. \A i \in DOMAIN queue : i \in DOMAIN order \/ i = Len(order) + 1
      BY <2>3
    <3> QED
      BY <2>2, <2>3, <2>4, <3>1 DEF Distinct
  <2>6. Commit(e) /\ phase' # "turn"
    BY <1>3 DEF CommitAndSchedule
  <2> QED
    BY <2>1, <2>3, <2>4, <2>5, <2>6, CommitRound
<1>4. UNCHANGED <<sessions, order, active, phase, failed>>
      \/ CommitAndSchedule(e)
  BY DEF Admit
<1> QED
  BY <1>2, <1>3, <1>4

\* The turns: everything they may still meet can be forwarded.
LEMMA TurnsMeet ==
  ASSUME TypeInv, InboxInv, RoundInv, AtTurn, NEW j \in 1 .. TurnsLeft,
         j <= Len(order)
  PROVE  MayMeet(order[j])
<1>1. CASE phase = "turn"
  BY <1>1 DEF RoundInv, TurnsLeft
<1>2. CASE phase # "turn"
  <2>1. AllLocalDone /\ ~ Busy
    BY <1>2 DEF AtTurn
  <2> QED
    BY <2>1 DEF AllLocalDone, LocalReady, HeadReady, Owns, MayMeet, HasWork
<1> QED
  BY <1>1, <1>2

\* The turn that finds work, and the round robin after it.
LEMMA TurnTurns ==
  ASSUME TypeInv, RoundInv, NEW k, NEW id, NextTurn(k, id)
  PROVE  /\ order \in Seq(Nat) /\ k \in Nat /\ k >= 1 /\ k <= Len(order)
         /\ k \in 1 .. TurnsLeft /\ order[k] = id /\ HasWork(id)
         /\ TurnsLeft \in Nat /\ TurnsLeft <= Len(order)
         /\ Rotated(k) \in Seq(Nat) /\ Distinct(Rotated(k))
<1>1. /\ order \in Seq(Nat) /\ turns \in Nat /\ Len(order) \in Nat
      /\ Distinct(order) /\ (phase = "turn" => turns <= Len(order))
  BY DEF TypeInv, TypeOK, RoundInv
<1>2. TurnsLeft \in Nat /\ TurnsLeft <= Len(order)
  BY <1>1 DEF TurnsLeft
<1>3. /\ k \in 1 .. TurnsLeft /\ k <= Len(order)
      /\ order[k] = id /\ HasWork(id)
  BY DEF NextTurn
<1> QED
  BY <1>1, <1>2, <1>3, RotatedDistinct

LEMMA TurnPopRound ==
  ASSUME TypeInv, RoundInv, NEW k, TurnPop(k)
  PROVE  RoundInv'
<1> DEFINE x == DispatchPop([Now EXCEPT !.order = Rotated(k)])
<1>1. NextTurn(k, 0) /\ Commit(x) /\ phase' # "turn"
  BY DEF TurnPop
<1>2. Rotated(k) \in Seq(Nat) /\ Distinct(Rotated(k))
  BY <1>1, TurnTurns
<1>3. x.order = Rotated(k) /\ x.active.owner = 0
  BY DEF DispatchPop, SendCommand, SendUpstream, Now, NoTransaction
<1> HIDE DEF x
<1> QED
  BY <1>1, <1>2, <1>3, CommitRound DEF Forwards

LEMMA TurnDispatchRound ==
  ASSUME TypeInv, InboxInv, RoundInv, NEW k, NEW s, TurnDispatch(k, s)
  PROVE  RoundInv'
<1> DEFINE command == Head(sessions[s].commands)
           e == TurnTaken(k, s, command)
           r == Reserved(e, s, command)
           x == Dispatch(r, s, command)
<1>1. s # 0 /\ NextTurn(k, s) /\ Commit(x) /\ phase' # "turn"
  BY DEF TurnDispatch
<1>2. /\ Rotated(k) \in Seq(Nat) /\ Distinct(Rotated(k))
      /\ k \in 1 .. TurnsLeft /\ k <= Len(order) /\ order[k] = s /\ HasWork(s)
  BY <1>1, TurnTurns
<1>3. ~ Virtual(command)
  <2>1. AtTurn
    BY <1>1 DEF NextTurn
  <2> QED
    BY <1>1, <1>2, <2>1, TurnsMeet DEF MayMeet
<1>4. e \in State(next_session) /\ s \in Nat /\ command \in Command
  BY <1>1, TurnTakenType DEF TypeInv, TypeOK
<1>5. e.order = Rotated(k)
  BY DEF TurnTaken, Now
<1> HIDE DEF e, command
<1>6. r \in State(next_session) /\ r.order = e.order
  BY <1>4, ReservedType DEF Reserved, State
<1> HIDE DEF r
<1>7. x.order = r.order /\ x.active.command = command
  BY <1>6 DEF Dispatch, SendCommand, SendUpstream, State, NoTransaction
<1> HIDE DEF x
<1> QED
  BY <1>1, <1>2, <1>3, <1>5, <1>6, <1>7, CommitRound DEF Forwards

\* Every other step leaves the round robin as it is.
LEMMA HandlersSteady ==
  ASSUME TypeInv, Ended, RoundInv, Next, \A d : ~ Admit(d),
         \A k, s : ~ TurnDispatch(k, s) /\ ~ TurnReject(k, s),
         \A k : ~ TurnPop(k),
         \A f \in Frames : ~ UpstreamFrame(f) /\ ~ DrainUncertainFrame(f)
  PROVE  RoundInv'
<1> DEFINE Steady == \E x : /\ Commit(x) /\ phase' # "turn"
                            /\ x.order = order /\ Goes(active, x.active)
<1>1. Steady => RoundInv'
  BY SteadyRound
<1>2. ASSUME NEW e, CommitAndSchedule(e)
      PROVE  Commit(e) /\ phase' # "turn"
  BY <1>2 DEF CommitAndSchedule
<1>3. Goes(active, active) /\ \A ty : SameTransaction(active, ty) => Goes(active, ty)
  BY DEF Goes, SameTransaction, UnderWay
<1>4. /\ Fail(Now).order = order /\ Goes(active, Fail(Now).active)
      /\ \A gone : /\ [Now EXCEPT !.closed = gone].order = order
                   /\ Goes(active, [Now EXCEPT !.closed = gone].active)
  BY <1>3 DEF Now, Fail
<1>5. ASSUME \E s : ScheduleLocal(s)
      PROVE  Steady
  <2>1. PICK s : ScheduleLocal(s)
    BY <1>5
  <2> DEFINE command == Head(sessions[s].commands)
             e == [Now EXCEPT !.sessions[s].commands =
                                Tail(sessions[s].commands)]
  <2>2. e.active = active /\ e.order = order
    BY DEF Now
  <2>3. e \in State(next_session)
    BY <2>1, TailTaken DEF ScheduleLocal, LocalReady, HeadReady
  <2>4. Commit(LocalEffect(e, s, command)) /\ phase' # "turn"
    BY <2>1 DEF ScheduleLocal
  <2> HIDE DEF e, command
  <2>5. LocalSync(e, s).active = active /\ LocalSync(e, s).order = order
    BY <2>2, <2>3 DEF LocalSync, State
  <2>6. /\ LocalEffect(e, s, command).active = active
        /\ LocalEffect(e, s, command).order = order
    BY <2>2, <2>3, <2>5 DEF LocalEffect, State
  <2> QED
    BY <1>3, <2>4, <2>6
<1>6. ASSUME \E s : ScheduleAged(s)
      PROVE  Steady
  <2>1. PICK s : ScheduleAged(s)
    BY <1>6
  <2> DEFINE x == [Now EXCEPT !.sessions[s] =
                     [Reply(sessions[s], "frame") EXCEPT
                        !.commands = Tail(sessions[s].commands)]]
  <2>2. x.active = active /\ x.order = order
    BY DEF Now
  <2>3. Commit(x) /\ phase' # "turn"
    BY <2>1 DEF ScheduleAged
  <2> HIDE DEF x
  <2> QED
    BY <1>3, <2>2, <2>3
<1>7. ASSUME \E s, command : ClientFrame(s, command)
      PROVE  Steady
  <2>1. PICK s, command : ClientFrame(s, command)
    BY <1>7
  <2> DEFINE x == [Now EXCEPT !.sessions[s] =
                     [sessions[s] EXCEPT
                        !.commands = Append(sessions[s].commands, command),
                        !.owed = Append(sessions[s].owed, command)]]
  <2>2. x.active = active /\ x.order = order
    BY DEF Now
  <2>3. CommitAndSchedule(x) \/ CommitAndSchedule([Now EXCEPT !.closed = {s}])
    BY <2>1 DEF ClientFrame
  <2> HIDE DEF x
  <2> QED
    BY <1>2, <1>3, <1>4, <2>2, <2>3
<1>8. ASSUME \E s : ClientClosed(s) \/ Written(s) \/ WriteFailed(s)
      PROVE  Steady
  <2>1. ASSUME NEW s, ClientClosed(s) \/ WriteFailed(s)
        PROVE  Steady
    BY <1>2, <1>4, <2>1 DEF ClientClosed, WriteFailed
  <2>2. ASSUME NEW s, Written(s)
        PROVE  Steady
    <3> DEFINE x == [Now EXCEPT !.sessions[s].writes = Tail(sessions[s].writes)]
               y == Fail(Finish(x))
    <3>1. /\ x.order = order /\ x.active = active
          /\ y.order = order /\ y.active = NoTransaction
      BY DEF Fail, Finish, Now
    <3>2. CommitAndSchedule(x) \/ CommitAndSchedule(y)
      BY <2>2 DEF Written
    <3> HIDE DEF x, y
    <3>3. Goes(active, NoTransaction)
      BY DEF Goes, NoTransaction
    <3> QED
      BY <1>2, <1>3, <3>1, <3>2, <3>3
  <2> QED
    BY <1>8, <2>1, <2>2
<1>9. ASSUME \E w : UpstreamWritten(w)
      PROVE  Steady
  <2>1. PICK w : UpstreamWritten(w)
    BY <1>9
  <2> DEFINE write == IF AwaitsWrite(w) THEN 0 ELSE active.write
             tx == [active EXCEPT !.write = write]
             x == [Now EXCEPT !.upstream_writes = upstream_writes \ {w},
                              !.active.write = write]
  <2>2. x.order = order /\ x.active = tx /\ CommitAndSchedule(x)
    BY <2>1 DEF UpstreamWritten, Now
  <2>3. SameTransaction(active, tx)
    BY DEF SameTransaction, TypeInv, TypeOK, Transaction
  <2> HIDE DEF x, tx
  <2> QED
    BY <1>2, <1>3, <2>2, <2>3
<1>10. ASSUME \/ LateUpstreamFrame \/ UpstreamClosed
              \/ ResponseTimeout \/ UpstreamWriteTimeout
       PROVE  Steady
  BY <1>2, <1>4, <1>10 DEF LateUpstreamFrame, UpstreamClosed, ResponseTimeout,
     UpstreamWriteTimeout
<1>11. ASSUME \E stuck, late, expired, poll : Tick(stuck, late, expired, poll)
       PROVE  Steady
  <2>1. PICK stuck, late, expired, poll : Tick(stuck, late, expired, poll)
    BY <1>11
  <2> DEFINE table == [s \in DOMAIN sessions |->
                         IF s \in late
                         THEN [Reply(sessions[s], "frame") EXCEPT !.sync = 0]
                         ELSE sessions[s]]
             x == [Now EXCEPT
                     !.closed = stuck,
                     !.sessions = IF poll THEN HintAll(table) ELSE table,
                     !.remote = IF "remote" \in expired THEN NoRemote
                                ELSE remote,
                     !.signing = IF "signing" \in expired THEN NoSigning
                                 ELSE signing]
  <2>2. x.active = active /\ x.order = order
    BY DEF Now
  <2>3. CommitAndSchedule(x)
    BY <2>1 DEF Tick
  <2> HIDE DEF x
  <2> QED
    BY <1>2, <1>3, <2>2, <2>3
<1>12. CASE TurnNone
  <2> DEFINE n == IF TurnsLeft < Len(order) THEN TurnsLeft ELSE Len(order)
  <2>1. n \in Nat /\ n <= Len(order) /\ order \in Seq(Nat)
    BY DEF TurnsLeft, TypeInv, TypeOK
  <2>2. /\ order' = Rotated(n) /\ phase' = "idle"
        /\ UNCHANGED <<sessions, active>>
    BY <1>12 DEF TurnNone
  <2> HIDE DEF n
  <2>3. /\ Distinct(Rotated(n))
        /\ \A j \in DOMAIN Rotated(n) :
             \E i \in DOMAIN order : Rotated(n)[j] = order[i]
    BY <2>1, RotatedDistinct DEF RoundInv
  <2> QED
    BY <2>2, <2>3 DEF RoundInv, Distinct, Forwards
<1>13. CASE \/ ScheduleBusy \/ QuarantineDeadline \/ \E i : DmDeadline(i)
            \/ \E same_key \in BOOLEAN : Restart(same_key)
  <2>1. UNCHANGED <<sessions, active, order>> /\ phase' # "turn"
    BY <1>13 DEF ScheduleBusy, QuarantineDeadline, DmDeadline, Restart, RoundInv
  <2> QED
    BY <2>1 DEF RoundInv, Distinct, Forwards
<1>14. CASE TakeWrite
  <2>1. UNCHANGED <<sessions, active, order, drain, phase, turns, failed>>
    BY <1>14 DEF TakeWrite
  <2>2. RoundInv => RoundInv'
    BY <2>1 DEF RoundInv, Distinct, Forwards, MayMeet, HasWork
  <2> QED
    BY <2>2
<1> HIDE DEF Steady
<1> QED
  BY <1>1, <1>5, <1>6, <1>7, <1>8, <1>9, <1>10, <1>11, <1>12, <1>13, <1>14
     DEF Next, ScheduleStep, ClientStep, UpstreamStep, ClockStep


\* After a refusal the turns that are left meet what they would have met
\* before: the refused session is at the end, beyond them, and if it leaves
\* because it does not read its answers, it leaves from there.
LEMMA TurnRejectRound ==
  ASSUME TypeInv, InboxInv, Ended, RoundInv, NEW k, NEW s, TurnReject(k, s)
  PROVE  RoundInv'
<1> DEFINE L == Len(order)
           r == Rotated(k)
           e == TurnTaken(k, s, Head(sessions[s].commands))
           x == [e EXCEPT !.sessions[s] = Reply(e.sessions[s], "frame")]
           left == Survivors(x)
<1>1. /\ s # 0 /\ NextTurn(k, s) /\ AtTurn /\ NextState(x)
      /\ turns' = TurnsLeft - k
  BY DEF TurnReject, TurnsAfter, Commit, NextTurn
<1>2. /\ order \in Seq(Nat) /\ k \in Nat /\ k >= 1 /\ k <= L
      /\ k \in 1 .. TurnsLeft /\ order[k] = s /\ HasWork(s)
      /\ TurnsLeft \in Nat /\ TurnsLeft <= L
      /\ r \in Seq(Nat) /\ Distinct(r)
  BY <1>1, TurnTurns
<1>3. /\ s \in DOMAIN sessions /\ ~ failed /\ ~ Busy
  BY <1>1, <1>2, TurnIsFree DEF HasWork, Ended
<1>4. /\ e.active = active /\ e.order = r
      /\ e.closed = {} /\ e.failing = FALSE
      /\ DOMAIN e.sessions = DOMAIN sessions
      /\ \A t \in DOMAIN sessions : t # s => e.sessions[t] = sessions[t]
  BY DEF TurnTaken, Now
<1>5. e \in State(next_session)
  BY <1>1, TurnTakenType
<1> HIDE DEF e, r
<1>6. /\ x.active = active /\ x.order = r
      /\ x.closed = {} /\ x.failing = FALSE
      /\ DOMAIN x.sessions = DOMAIN sessions
      /\ \A t \in DOMAIN sessions : t # s => x.sessions[t] = sessions[t]
  BY <1>4, <1>5 DEF State
<1> HIDE DEF x
<1>7. ~ EpochEnds(x)
  BY <1>3, <1>6 DEF EpochEnds, Busy
<1>8. /\ order' = Without(r, left) /\ active' = active /\ failed' = failed
      /\ sessions' = [t \in left |-> x.sessions[t]]
  BY <1>1, <1>6, <1>7 DEF NextState, Continue
<1>9. \A t \in left : t \in DOMAIN sessions
                       /\ Len(x.sessions[t].writes) <= OutputFrames
  BY <1>6 DEF Survivors
<1>10. \A t \in DOMAIN sessions : t # s => t \in left
  BY <1>6 DEF RoundInv, Survivors
<1>11. /\ L \in Nat /\ Len(r) = L /\ r[L] = s
       /\ \A j \in 1 .. L - k : r[j] = order[k + j]
       /\ \A j \in 1 .. L : r[j] \in DOMAIN sessions \cup {0}
  <2>1. L \in Nat
    BY <1>2
  <2>2. /\ Len(r) = L
        /\ \A j \in 1 .. L - k : r[j] = order[k + j]
        /\ \A j \in L - k + 1 .. L : r[j] = order[j - (L - k)]
    BY <1>2, RotatedEntries DEF r
  <2>3. L \in L - k + 1 .. L /\ L - (L - k) = k
    BY <1>2, <2>1
  <2>4. \A j \in DOMAIN r : \E i \in DOMAIN order : r[j] = order[i]
    BY <1>2, RotatedDistinct DEF r, RoundInv
  <2>5. \A j \in 1 .. L : r[j] \in DOMAIN sessions \cup {0}
    BY <1>2, <2>2, <2>4 DEF RoundInv
  <2> QED
    BY <1>2, <2>1, <2>2, <2>3, <2>5
<1> HIDE DEF L, left
<1>12. ASSUME NEW j \in 1 .. L - 1
       PROVE  r[j] # s /\ r[j] \in left \cup {0}
  <2>1. j \in DOMAIN r /\ L \in DOMAIN r /\ j # L
    BY <1>2, <1>11
  <2>2. r[j] # s
    BY <1>11, <2>1, <1>2 DEF Distinct
  <2> QED
    BY <1>10, <1>11, <2>1, <2>2
<1>13. L - 1 <= Len(order') /\ \A j \in 1 .. L - 1 : order'[j] = r[j]
  <2>1. L - 1 \in 0 .. Len(r)
    BY <1>2, <1>11
  <2> QED
    BY <1>2, <1>8, <1>12, <2>1, WithoutFront
<1>14. Distinct(order') /\ \A i \in DOMAIN order' : order'[i] \in left \cup {0}
  BY <1>2, <1>8, WithoutDistinct
<1>15. turns' \in Nat /\ turns' <= L - 1
  BY <1>1, <1>2, <1>11
<1>16. ASSUME NEW j \in 1 .. turns'
       PROVE  MayMeet(order[j])'
  <2> DEFINE id == order[k + j]
  <2>1. /\ j \in 1 .. L - 1 /\ j \in 1 .. L - k
        /\ k + j \in 1 .. TurnsLeft /\ k + j <= L
    BY <1>1, <1>2, <1>11, <1>15
  <2>2. order'[j] = id /\ id # s /\ id \in left \cup {0}
    BY <1>11, <1>12, <1>13, <2>1
  <2>3. MayMeet(id)
    BY <1>1, <2>1, TurnsMeet DEF L
  <2>4. id # 0 => sessions'[id] = sessions[id] /\ id \in DOMAIN sessions
    BY <1>6, <1>8, <1>9, <2>2
  <2> HIDE DEF id
  <2> QED
    BY <2>2, <2>3, <2>4 DEF MayMeet, HasWork
<1>17. turns' <= Len(order')
  BY <1>8, <1>11, <1>13, <1>15, <1>2, WithoutType
<1>18. Distinct(order)' /\ Forwards(active)'
  BY <1>8, <1>14 DEF Distinct, RoundInv, Forwards
<1>19. \A i \in DOMAIN order' : order'[i] \in DOMAIN sessions' \cup {0}
  BY <1>8, <1>14
<1>20. \A t \in DOMAIN sessions' : Len(sessions'[t].writes) <= OutputFrames
  BY <1>8, <1>9
<1> QED
  BY <1>3, <1>8, <1>16, <1>17, <1>18, <1>19, <1>20 DEF RoundInv

LEMMA FramesRound ==
  ASSUME TypeInv, TransactionInv, RoundInv, NEW f \in Frames,
         UpstreamFrame(f) \/ DrainUncertainFrame(f)
  PROVE  RoundInv'
<1> DEFINE Steady == \E x : /\ Commit(x) /\ phase' # "turn"
                            /\ x.order = order /\ Goes(active, x.active)
<1>1. Steady => RoundInv'
  BY SteadyRound
<1>2. Goes(active, active)
  BY DEF Goes
<1>3. CASE UpstreamFrame(f)
  <2>1. Fail(Now).order = order /\ Goes(active, Fail(Now).active)
    BY <1>2 DEF Now, Fail
  <2>2. PICK x \in {Fail(Now), Push(f), TransactionResponse(f)} :
          CommitAndSchedule(x)
    BY <1>3 DEF UpstreamFrame
  <2>3. Commit(x) /\ phase' # "turn"
    BY <2>2 DEF CommitAndSchedule
  <2>4. x.order = order /\ Goes(active, x.active)
    BY <2>1, <2>2, PushGoes, TransactionResponseGoes
  <2> QED
    BY <1>1, <2>3, <2>4
<1>4. CASE DrainUncertainFrame(f)
  <2> DEFINE paid == [Now EXCEPT !.debt = NoTransaction]
             started == [Now EXCEPT !.debt.contacts_started = TRUE]
  <2>1. paid \in State(next_session) /\ next_session \in Nat
    BY NowSound, SmallChanges
  <2>2. /\ paid.order = order /\ paid.active = active
        /\ started.order = order /\ started.active = active
    BY DEF Now
  <2>3. failed /\ phase' = phase
    BY <1>4 DEF DrainUncertainFrame
  <2>4. phase' # "turn"
    BY <2>3 DEF RoundInv
  <2>5. \/ Commit(Push(f))
        \/ Commit(paid)
        \/ DebtPaid(f) /\ KeepsItem(f) /\ Commit(PopResult(paid, debt, f))
        \/ Commit(started)
    BY <1>4 DEF DrainUncertainFrame
  <2> HIDE DEF paid, started
  <2>6. ASSUME DebtPaid(f), KeepsItem(f)
        PROVE  LET y == PopResult(paid, debt, f)
               IN y.order = order /\ y.active = active
    <3>1. /\ debt.command = Sync
          /\ debt.contacts_started \in BOOLEAN
          /\ ValidResponse(debt.command, debt.contacts_started, f)
      BY <2>6 DEF KeepsItem, DebtPaid, PopShape, Transaction, TypeInv, TypeOK
    <3>2. f.code \in {"message", "no_more_messages"}
      BY <2>6, <3>1, SyncReplies DEF KeepsItem
    <3> QED
      BY <2>1, <2>2, <3>2, PopResultGoes
  <2> QED
    BY <1>1, <1>2, <2>2, <2>4, <2>5, <2>6, PushGoes
<1> QED
  BY <1>3, <1>4

LEMMA RoundInit == Init => RoundInv
BY DEF Init, RoundInv, Distinct, Forwards, NoTransaction

LEMMA RoundStep == BrokerInv /\ RoundInv /\ [Next]_vars => RoundInv'
<1> SUFFICES ASSUME TypeInv, InboxInv, Ended, TransactionInv, RoundInv,
                    [Next]_vars
             PROVE  RoundInv'
  BY DEF BrokerInv
<1>1. CASE UNCHANGED vars
  <2>1. UNCHANGED <<sessions, active, order, drain, phase, turns, failed>>
    BY <1>1 DEF vars
  <2> QED
    BY <2>1 DEF RoundInv, Distinct, Forwards, MayMeet, HasWork
<1>2. CASE Next
  BY <1>2, AdmitRound, TurnPopRound, TurnDispatchRound, TurnRejectRound,
     FramesRound, HandlersSteady
<1> QED
  BY <1>1, <1>2

LEMMA RoundInvariant == Spec => [](BrokerInv /\ RoundInv)
<1>1. Init => RoundInv
  BY RoundInit
<1>2. BrokerInv /\ RoundInv /\ [Next]_vars => RoundInv'
  BY RoundStep
<1> QED
  BY <1>1, <1>2, TransactionInvariant, PTL DEF Spec

\* A command the broker answers itself, a sync or one without a descriptor or
\* one the configuration refuses, is never the running transaction's: schedule
\* answers those at the head of a queue before its second loop, and a refusal in
\* that loop never brings one to light where a turn is left to meet it.
THEOREM VirtualStaysHere == Spec => []VirtualNeverForwarded
<1>1. RoundInv => VirtualNeverForwarded
  BY DEF RoundInv, Forwards, VirtualNeverForwarded, Busy
<1> QED
  BY <1>1, RoundInvariant, PTL

=============================================================================
