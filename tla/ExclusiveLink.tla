--------------------------- MODULE ExclusiveLink ---------------------------
(***************************************************************************)
(* What the live checks need of the frame relay: the companion accepts one *)
(* TCP client, so there is one physical connection at a time, connections  *)
(* are numbered by generation, and after the relay has been shut there is  *)
(* none, for ever, so that the next check can have the companion.          *)
(***************************************************************************)
EXTENDS Naturals

VARIABLES
  link,   \* generation of the open physical connection, 0 for none
  last,   \* the last generation
  shut    \* the owner has been told that the relay is closed

linkVars == <<link, last, shut>>

LinkInit == link = 0 /\ last = 0 /\ shut = FALSE

Open ==
  /\ link = 0
  /\ ~ shut
  /\ last' = last + 1
  /\ link' = last'
  /\ UNCHANGED shut

Close ==
  /\ link # 0
  /\ link' = 0
  /\ UNCHANGED <<last, shut>>

Shut ==
  /\ link = 0
  /\ shut' = TRUE
  /\ UNCHANGED <<link, last>>

LinkSpec == LinkInit /\ [][Open \/ Close \/ Shut]_linkVars
=============================================================================
