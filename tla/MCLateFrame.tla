---------------------------- MODULE MCLateFrame ----------------------------
(* The reply to a pop is itself what finds the response deadline elapsed.  *)
EXTENDS Mux

MCCommands == {Sync}
MCText == [i \in Items |-> 0]
=============================================================================
