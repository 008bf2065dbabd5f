-------------------------- MODULE MCGatewayConnection --------------------------
(* Small instances of GatewayConnection for TLC.                           *)
EXTENDS GatewayConnection
=============================================================================
