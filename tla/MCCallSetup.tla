---------------------------- MODULE MCCallSetup ----------------------------
(* Small instances of CallSetup for TLC.                                   *)
EXTENDS CallSetup
=============================================================================
