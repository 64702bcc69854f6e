-------------------------- MODULE MCGatewaySession --------------------------
(* Small instances of GatewaySession for TLC.                              *)
EXTENDS GatewaySession
=============================================================================
