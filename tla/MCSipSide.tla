----------------------------- MODULE MCSipSide ------------------------------
(* The parts of the server a phone and the exchange talk to, on small       *)
(* instances.                                                              *)
(* A behaviour picks one part and takes the steps of that part's own       *)
(* next-state relation from that part's own initial states; the others,    *)
(* which share no state with it, stay as they are.                         *)
EXTENDS MediaPump, Registrar, TrunkPool

VARIABLE part

(* media: in order, one lost, the lost one late, an honest silence, a       *)
(* stall, a frozen clock, a small and a large step back, a jump ahead, a   *)
(* renumbering, a new SSRC.                                                *)
Arrival(n, t, g, s) == [seq |-> n, ts |-> t, gap |-> g, ssrc |-> s]
MCArrivals ==
  {Arrival(1, 1, 1, 0), Arrival(2, 2, 2, 0), Arrival(-1, -1, 0, 0),
   Arrival(1, 5, 5, 0), Arrival(1, 1, 5, 0), Arrival(1, 0, 1, 0), Arrival(1, -1, 1, 0),
   Arrival(1, -6, 1, 0), Arrival(1, 6, 1, 0), Arrival(11, 1, 1, 0), Arrival(5, 9, 1, 1)}

(* registrar: two phones that were given codes of the same device.         *)
MCDeviceOf == [p \in Phones |-> IF p = "p3" THEN "d2" ELSE "d1"]
MCUserOf == [d \in Devices |-> IF d = "d1" THEN "u1" ELSE "u2"]
-----------------------------------------------------------------------------
Parts == {"media", "registrar", "trunk"}

SideInit ==
  /\ part \in Parts
  /\ PumpInit /\ SipInit /\ TrunkInit

Media ==
  /\ part = "media" /\ PumpNext
  /\ UNCHANGED <<part, sipVars, trunkVars>>
Registration ==
  /\ part = "registrar" /\ SipNext
  /\ UNCHANGED <<part, pumpVars, trunkVars>>
Trunk ==
  /\ part = "trunk" /\ TrunkNext
  /\ UNCHANGED <<part, pumpVars, sipVars>>

SideNext == Media \/ Registration \/ Trunk
=============================================================================
