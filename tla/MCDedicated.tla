----------------------------- MODULE MCDedicated -----------------------------
(* Strict and lenient runs of the live check of dedicated listeners.       *)
EXTENDS LiveDedicated

Run(ports, channel, execute, max_unmatched, max_radio_sends, conduct) ==
  [ports |-> ports, channel |-> channel, execute |-> execute,
   max_unmatched |-> max_unmatched, max_radio_sends |-> max_radio_sends,
   conduct |-> conduct]

MCPort == <<"port_1", "port_2", "port_3">>

MCSettings ==
  { Run(3, TRUE, TRUE, 0, 9, "good"),
    Run(2, TRUE, TRUE, 0, 8, "good"),
    Run(2, TRUE, TRUE, 1, 7, "good"),
    Run(1, FALSE, FALSE, 0, 8, "good"),
    Run(1, TRUE, TRUE, 0, 7, "any"),
    Run(1, FALSE, TRUE, 1, 5, "any"),
    Run(1, TRUE, TRUE, 1, 8, "any"),
    Run(2, FALSE, TRUE, 0, 7, "any") }
=============================================================================
