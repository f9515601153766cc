------------------------------ MODULE MCAlerts ------------------------------
(***************************************************************************)
(* Three nodes in a row.  Alert 2 cancels alert 1 by its number, and the   *)
(* final alert 3 as one of its set; it does not apply to these nodes, but  *)
(* is relayed until it expires.  Alert 4 has the number of the final one   *)
(* and another form.                                                       *)
(***************************************************************************)
EXTENDS Alerts

MCNodes == 1 .. 3
MCLinks == {<<1, 2>>, <<2, 1>>, <<2, 3>>, <<3, 2>>}
MCOpens == {<<1, 2>>, <<2, 3>>}
MCAlertSet == 1 .. 4
MCMaxID == 10
MCnID == <<1, 2, 10, 10>>
MCnCancel == <<0, 1, 9, 9>>
MCsetCancel == <<{}, {10}, {}, {}>>
MCnExpiration == <<1, 2, 3, 3>>
MCnRelayUntil == <<0, 2, 0, 0>>
MCCanonical == {3}
MCApplying == {1, 3, 4}
=============================================================================
