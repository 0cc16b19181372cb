----------------------------- MODULE MCRecovery -----------------------------
(* Two messages, clients that come and go, and an epoch that ends while a  *)
(* pop is unanswered.                                                     *)
EXTENDS Mux

MCCommands == {Sync}
MCText == [i \in Items |-> 0]
=============================================================================
