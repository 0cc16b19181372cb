------------------------------ MODULE MCLeases ------------------------------
(* Commands that reserve what the companion shares between its clients:    *)
(* a remote request, an acknowledgement slot, the whole companion during   *)
(* maintenance.                                                            *)
EXTENDS Mux

MCCommands ==
  {[op |-> "send_binary_req", arg |-> 2], [op |-> "send_txt_msg", arg |-> 0],
   SetScope(1), [op |-> "import_private_key", arg |-> 0],
   [op |-> "reboot", arg |-> 0], [op |-> "factory_reset", arg |-> 0]}
MCRefused ==
  {[op |-> "import_private_key", arg |-> 0], [op |-> "send_txt_msg", arg |-> 0],
   [op |-> "send_binary_req", arg |-> 2]}
MCText == [i \in Items |-> 0]
=============================================================================
