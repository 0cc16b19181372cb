------------------------------ MODULE MCBroker ------------------------------
(* The broker alone, in an environment that may do anything at any time:   *)
(* the instance of the specification the proofs are about.                 *)
EXTENDS Broker

CONSTANTS MaxSessions, MaxPops, MaxGeneration, MaxWrites  \* bounds

MCCommands == {Sync, [op |-> "send_login", arg |-> 1]}
MCFrames ==
  {[code |-> "message", arg |-> 1], [code |-> "message", arg |-> 2],
   [code |-> "no_more_messages", arg |-> 0],
   [code |-> "sent", arg |-> 1], [code |-> "err", arg |-> ErrBadState],
   [code |-> "msg_waiting", arg |-> 0], [code |-> "malformed", arg |-> 0]}
MCText == [i \in Items |-> i]

WithinBounds ==
  /\ pop_sequence < MaxPops
  /\ generation < MaxGeneration
  /\ next_write < MaxWrites

\* Past the bounds only the end of the epoch is left.
BoundedNext ==
  \/ ScheduleStep
  \/ WithinBounds /\ Next /\ next_session' <= MaxSessions
  \/ ~ WithinBounds /\ UpstreamClosed
  \/ ~ WithinBounds /\ \E same_key \in BOOLEAN : Restart(same_key)

BoundedSpec == Init /\ [][BoundedNext]_vars
=============================================================================
