----------------------------- MODULE MCLiveness -----------------------------
(* Every command is answered, with the other client free to leave.         *)
EXTENDS Mux

MCCommands == {Sync, [op |-> "get_contacts", arg |-> 0]}
MCText == [i \in Items |-> 0]
=============================================================================
