---------------------------- MODULE MCAdminSide -----------------------------
(* The parts of the server an administrator works with, on small instances.*)
(* A behaviour picks one part and takes the steps of that part's own       *)
(* next-state relation from that part's own initial states; the others,    *)
(* which share no state with it, stay as they are.                         *)
EXTENDS AdminHooks, Directory, Licence, EventRing, AdminDoor, AdminConsole

VARIABLE part

(* hooks.                                                                  *)
MCDevices == 1..2

(* directory: no file yet, or one starred contact.  A write by id makes a   *)
(* second with the same address.                                           *)
Asked(u, s) == [uri |-> u, name |-> "a", star |-> s]
MCDrafts == {Asked("u1", TRUE), Asked("u2", FALSE)}
MCLegacy == <<Asked("u1", FALSE)>>
MCFiles ==
  {Empty, [version |-> 1, contacts |-> [Empty.contacts EXCEPT ![1] = Stored(Asked("u1", TRUE), 1)]]}

(* licence: one that expires first, one with more seats, one for another    *)
(* install, one whose signature does not match.                            *)
Signed(o, s, u, i) == [ok |-> o, seats |-> s, until |-> u, install |-> i]
MCTokens == {Signed(TRUE, 1, 1, 1), Signed(TRUE, 2, 2, 1), Signed(TRUE, 2, 2, 2), Signed(FALSE, 3, 2, 1)}

-----------------------------------------------------------------------------
Parts == {"hooks", "directory", "licence", "events", "door", "claims", "console"}

SideInit ==
  /\ part \in Parts
  /\ Init /\ DirInit /\ LicInit /\ RingInit /\ DoorInit /\ ConsoleInit
  /\ part # "hooks" => seats = 0
  /\ part # "directory" => file = Empty /\ link = "down"
  /\ part # "licence" => installId = NoInstall /\ licFile = NoToken

Hooks ==
  /\ part = "hooks" /\ Next
  /\ UNCHANGED <<part, dirVars, licVars, ringVars, doorVars, consoleVars>>
AddressBooks ==
  /\ part = "directory" /\ DirNext
  /\ UNCHANGED <<part, vars, licVars, ringVars, doorVars, consoleVars>>
Licensing ==
  /\ part = "licence" /\ LicNext
  /\ UNCHANGED <<part, vars, dirVars, ringVars, doorVars, consoleVars>>
Events ==
  /\ part = "events" /\ RingNext
  /\ UNCHANGED <<part, vars, dirVars, licVars, doorVars, consoleVars>>
Door ==
  /\ part = "door" /\ DoorNext
  /\ UNCHANGED <<part, vars, dirVars, licVars, ringVars, consoleVars>>
Claims ==
  /\ part = "claims" /\ ClaimsNext
  /\ UNCHANGED <<part, vars, dirVars, licVars, ringVars, consoleVars>>
Console ==
  /\ part = "console" /\ ConsoleNext
  /\ UNCHANGED <<part, vars, dirVars, licVars, ringVars, doorVars>>

SideNext == Hooks \/ AddressBooks \/ Licensing \/ Events \/ Door \/ Claims \/ Console
=============================================================================
