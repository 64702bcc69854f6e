----------------------------- MODULE MCPbxLine -----------------------------
(* Small instances of PbxLine for TLC.                                     *)
EXTENDS PbxLine
=============================================================================
