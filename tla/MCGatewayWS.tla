---------------------------- MODULE MCGatewayWS ----------------------------
(* Instances of GatewayWS for TLC.                                         *)
EXTENDS GatewayWS, TLC

CONSTANTS c1, c2, m1, m2

OneCaller   == {c1}
TwoCallers  == {c1, c2}
OneMessage  == {m1}
TwoMessages == {m1, m2}
=============================================================================
