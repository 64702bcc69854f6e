--------------------------- MODULE MCEnrolStore ---------------------------
(* Small instances of EnrolStore for TLC.                                  *)
EXTENDS EnrolStore

MCDevices == 1..2
MCTimes == 1..2
MCSeatCounts == {1, 2, NoSeatLimit}
=============================================================================
