--------------------------- MODULE MCBridgedCall ---------------------------
(* Small instances of BridgedCall for TLC.                                 *)
EXTENDS BridgedCall
=============================================================================
