------------------------------ MODULE MCRemote ------------------------------
(* One repeater, with a result limit as long as the script's own timeout.  *)
EXTENDS RemoteRequests
=============================================================================
