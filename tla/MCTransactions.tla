--------------------------- MODULE MCTransactions ---------------------------
(* Ordinary commands of two clients: a stream of replies, a scoped send    *)
(* with its hidden setup and restoration, virtual and refused commands,    *)
(* and the signing operation that spans several of them.                   *)
EXTENDS Mux

MCCommands ==
  {[op |-> "get_contacts", arg |-> 0], SetScope(1),
   [op |-> "send_channel_txt_msg", arg |-> 0],
   [op |-> "self_telemetry", arg |-> 0],
   [op |-> "malformed", arg |-> 0],
   [op |-> "sign_start", arg |-> 2], [op |-> "sign_data", arg |-> 2],
   [op |-> "sign_finish", arg |-> 0]}
MCRefused ==
  {[op |-> "sign_start", arg |-> 2], [op |-> "sign_data", arg |-> 2],
   SetScope(1), [op |-> "send_channel_txt_msg", arg |-> 0],
   [op |-> "get_contacts", arg |-> 0]}
MCText == [i \in Items |-> 0]
=============================================================================
