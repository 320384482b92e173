------------------------------ MODULE PushLink ------------------------------
(***************************************************************************)
(* What the push connection promises the rest of the coordinator: the      *)
(* abstract specification of the WebSocket task, in three states.  Polling *)
(* assumes it, WebSocketLoop implements it.                                *)
(***************************************************************************)

VARIABLE ws     \* off: no task runs; waiting: not connected; open

LinkInit == ws = "waiting"

Opens  == ws = "waiting" /\ ws' = "open"
Drops  == ws = "open" /\ ws' = "waiting"
Ends   == ws # "off" /\ ws' = "off"
Starts == ws = "off" /\ ws' = "waiting"

LinkNext == Opens \/ Drops \/ Ends \/ Starts

\* A task that runs without a connection gets one or ends: it does not hang.
LinkSpec == LinkInit /\ [][LinkNext]_ws /\ WF_ws(Opens \/ (ws = "waiting" /\ Ends))
=============================================================================
