---------------------------- MODULE MCReconnect ----------------------------
(* The scripts behind the relay, in all their scenarios and modes, with a  *)
(* multiplexer that behaves and with one that does as it likes.            *)
EXTENDS LiveScope

MCCommands ==
  {"start", "device", "time", "contacts", "battery", "scope", "default", "status"}
MCResponses ==
  {"info", "time_reply", "contact", "end", "battery_reply", "ok", "sent"}
=============================================================================
