----------------------------- MODULE MCStartup -----------------------------
(* The fence with lost replies, refusals, interruptions and reconnection.  *)
EXTENDS Startup
=============================================================================
