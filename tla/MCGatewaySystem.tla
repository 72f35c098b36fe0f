--------------------------- MODULE MCGatewaySystem ---------------------------
(* The instances of GatewaySystem that TLC checks. *)
EXTENDS GatewaySystem, TLC
=============================================================================
