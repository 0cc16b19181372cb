------------------------------- MODULE Leases -------------------------------
(***************************************************************************)
(* The reservations the broker keeps on state the companion shares between *)
(* its clients: the acknowledgement ring of plain direct messages, the one *)
(* remote request, the one signing operation, and the quarantine after a   *)
(* command whose acceptance is unknown.  Each is a record; its methods are *)
(* operators from the record to the record they leave behind.              *)
(*                                                                         *)
(* An owner is a session id; 0 stands for nil, since the broker's own      *)
(* inbox consumer (id 0) never takes a lease.  A deadline is a state of    *)
(* the record ("live" or "elapsed"), not a time: see Broker for who moves  *)
(* it.                                                                     *)
(***************************************************************************)
EXTENDS Protocol, FiniteSets

CONSTANT DmCapacity  \* DmRing::CAPACITY

ASSUME DmCapacityAssumption == DmCapacity \in Nat \ {0}

-----------------------------------------------------------------------------
(* DmRing *)

RingSlots == 0 .. DmCapacity - 1
EntryStates == {"free", "live", "settled", "elapsed"}
Entry == [token : Nat, state : EntryStates]
DmRing == [slots : [RingSlots -> Entry], next : RingSlots]

EmptyRing ==
  [slots |-> [i \in RingSlots |-> [token |-> 0, state |-> "free"]], next |-> 0]

Available(ring) == ring.slots[ring.next].state # "live"

PendingCount(ring) ==
  Cardinality({i \in RingSlots : ring.slots[i].state = "live"})

\* SENT with token 0 uses no physical ring position.
DmAccepted(ring, token) ==
  IF token = 0 THEN ring
  ELSE [slots |-> [ring.slots EXCEPT ![ring.next] =
                     [token |-> token, state |-> "live"]],
        next  |-> (ring.next + 1) % DmCapacity]

\* Tokens are four-byte hashes, not identities: every equal one is settled.
\* An entry past its deadline that is confirmed late is settled as well.
DmConfirm(ring, token) ==
  [ring EXCEPT !.slots = [i \in RingSlots |->
     IF /\ ring.slots[i].state \in {"live", "elapsed"}
        /\ ring.slots[i].token = token
     THEN [ring.slots[i] EXCEPT !.state = "settled"]
     ELSE ring.slots[i]]]

-----------------------------------------------------------------------------
(* RemoteLease: the one outstanding remote request.                        *)
(* kind "none": free.  tentative: reserved, SENT not seen, no deadline.    *)
(* key: what a result must carry, the peer or (tag, auth) of the command,  *)
(* or the token of SENT for binary and anonymous requests.                 *)

Remote ==
  [kind : RemoteLease \cup {"none"}, owner : Nat, key : Nat,
   tentative : BOOLEAN]

NoRemote == [kind |-> "none", owner |-> 0, key |-> 0, tentative |-> FALSE]

Reserve(owner, command) ==
  [kind |-> command.op, owner |-> owner, key |-> command.arg,
   tentative |-> TRUE]

\* The token of SENT is not recorded.
KeepsReservedKey(lease, token) == [lease EXCEPT !.tentative = FALSE]

RemoteAccepted(lease, token) ==
  [lease EXCEPT
     !.key = IF lease.kind \in {"send_binary_req", "send_anon_req"}
             THEN token ELSE lease.key,
     !.tentative = FALSE]

AcceptanceUnknown(lease) == [lease EXCEPT !.owner = 0, !.tentative = FALSE]

RemoteMatches(lease, push) ==
  /\ lease.kind # "none"
  /\ ~ lease.tentative
  /\ lease.kind \in RemotePushes[push.code]
  /\ lease.key = push.arg

\* `deadline` is set exactly when the lease is held and not tentative.
CanExpire(lease) == lease.kind # "none" /\ ~ lease.tentative

-----------------------------------------------------------------------------
(* CompanionRadioState's quarantine *)

Uncertain == [until : {"none", "live", "elapsed"}, cursor : BOOLEAN]
Certain == [until |-> "none", cursor |-> FALSE]

Quarantined(uncertain, ring) ==
  \/ uncertain.until = "live"
  \/ /\ uncertain.until = "elapsed"
     /\ uncertain.cursor
     /\ PendingCount(ring) > 0

\* quarantined? forgets the uncertainty on the first query that finds it over.
AfterQuery(uncertain, ring) ==
  IF Quarantined(uncertain, ring) THEN uncertain ELSE Certain

\* The new deadline is the later one, so the window always restarts.
Quarantine(uncertain, cursor) ==
  [until |-> "live", cursor |-> uncertain.cursor \/ cursor]

-----------------------------------------------------------------------------
(* SigningLease.  limit is nil exactly while tentative; pending 0 is nil.  *)

SigningState ==
  [owner : Nat, tentative : BOOLEAN, limit : Nat, accepted : Nat,
   pending : Nat, finish : BOOLEAN]

NoSigning ==
  [owner |-> 0, tentative |-> FALSE, limit |-> 0, accepted |-> 0,
   pending |-> 0, finish |-> FALSE]

CanStart(lease, owner) == lease.owner \in {0, owner}

StartSigning(owner) == [NoSigning EXCEPT !.owner = owner, !.tentative = TRUE]

UsableByAll(lease, owner) ==
  ~ lease.tentative /\ lease.pending = 0 /\ ~ lease.finish
UsableBy(lease, owner) ==
  /\ lease.owner = owner
  /\ ~ lease.tentative
  /\ lease.pending = 0
  /\ ~ lease.finish

RoomFor(lease, bytes) == bytes <= lease.limit - lease.accepted

BeginData(lease, bytes) == [lease EXCEPT !.pending = bytes]
BeginFinish(lease) == [lease EXCEPT !.finish = TRUE]

StartResponse(lease, f) ==
  IF f.code = "sign_start"
  THEN [lease EXCEPT !.limit = f.arg, !.tentative = FALSE]
  ELSE NoSigning

DataResponse(lease, f) ==
  CASE f.code = "ok" ->
         [lease EXCEPT !.accepted = lease.accepted + lease.pending,
                       !.pending = 0]
    [] f.code # "ok" /\ f.arg = ErrBadState -> NoSigning
    [] OTHER -> [lease EXCEPT !.pending = 0]

FinishResponse(lease, f) ==
  IF f.code = "signature" \/ f.arg = ErrBadState THEN NoSigning
  ELSE [lease EXCEPT !.finish = FALSE]
=============================================================================
