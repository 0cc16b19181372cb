---------------------------- MODULE MCTransport ----------------------------
(* The upstream endpoint with more writes than its queue holds, a client   *)
(* with one, which sends two frames at once or one by one; upstream only   *)
(* sends malformed input or ends.                                          *)
EXTENDS Transport

MCMaxWrites == [e \in Endpoints |-> IF e = 0 THEN 2 ELSE 1]
MCMaxFrames == [e \in Endpoints |-> IF e = 0 THEN 0 ELSE 2]
=============================================================================
