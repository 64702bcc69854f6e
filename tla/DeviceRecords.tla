--------------------------- MODULE DeviceRecords ---------------------------
(***************************************************************************)
(* What each write of the device store (server/internal/enroll/enroll.go,  *)
(* line.go) does to the map of device records: the body of the closure it  *)
(* hands to commit, as a relation between the map before and the map       *)
(* after.  A case the closure refuses (ErrExists, ErrUserTaken,            *)
(* ErrImmutable, ErrBadCode, errNoChange...) restores the map and relates  *)
(* nothing.  The seat test of IssueToken and Claim is left to the module   *)
(* that knows the seat count.  Device ids are naturals, ordered as the id  *)
(* strings are; credentials and codes are numbers, 0 for none.             *)
(***************************************************************************)
EXTENDS Naturals

CONSTANTS
  Devices, Users,
  Credentials,     \* the numbers tokens and enrolment codes are drawn from
  Times,           \* the readings of the clock; 0 is the zero time
  CodeTTL,
  SsidLists,       \* the Wi-Fi lists an administrator may set
  Details,         \* the values of the description and the PBX line together
  MaxVersion,      \* bound: the settings versions explored
  Absent

(* version is ConfigVersion, since is SeatSince, 0 when no seat is held;   *)
(* detail stands for the description and the PBX line.                     *)
Record == [user : Users, token : Nat, revoked : BOOLEAN, since : Nat,
           code : Nat, codeExpires : Nat, version : Nat, ssids : SsidLists,
           detail : Details]

ASSUME RecordsAssumption ==
  /\ Devices \subseteq Nat
  /\ Credentials \subseteq Nat \ {0}
  /\ Times \subseteq Nat \ {0}
  /\ CodeTTL \in Nat
  /\ MaxVersion \in Nat
  /\ SsidLists # {}
  /\ Details # {}
  /\ Absent \notin Record

(* The settings and details of a record nobody has written.                *)
NoSsids == CHOOSE s \in SsidLists : TRUE
NoDetail == CHOOSE x \in Details : TRUE

Known(db) == {d \in Devices : db[d] # Absent}

(* record.holdsSeat: enrolled and not revoked.                             *)
holdsSeat(r) == r # Absent /\ r.token # 0 /\ ~r.revoked

(* Mutant of userTakenLocked: no device is compared.                       *)
MutUserNeverTaken(db, u, d) == FALSE

userTakenLocked(db, u, d) == \E e \in Known(db) \ {d} : db[e].user = u

(* Create: a record with no credential.                                    *)
Created(db, after, d, u) ==
  /\ db[d] = Absent
  /\ ~userTakenLocked(db, u, d)
  /\ after = [db EXCEPT ![d] = [user |-> u, token |-> 0, revoked |-> FALSE,
                since |-> 0, code |-> 0, codeExpires |-> 0, version |-> 0,
                ssids |-> NoSsids, detail |-> NoDetail]]

(* Mutant of Issued: every issue stamps SeatSince.                         *)
MutIssuedRestamps(db, after, d, u, token, now) ==
  \/ /\ db[d] = Absent
     /\ ~userTakenLocked(db, u, d)
     /\ after = [db EXCEPT ![d] = [user |-> u, token |-> token, revoked |-> FALSE,
                   since |-> now, code |-> 0, codeExpires |-> 0, version |-> 0,
                   ssids |-> NoSsids, detail |-> NoDetail]]
  \/ /\ db[d] # Absent
     /\ db[d].user = u
     /\ after = [db EXCEPT ![d] = [@ EXCEPT !.token = token, !.since = now]]

(* IssueToken: a credential, for a new record or in place of the old one;  *)
(* a device that was not a holder and is not revoked joins the queue now.  *)
Issued(db, after, d, u, token, now) ==
  \/ /\ db[d] = Absent
     /\ ~userTakenLocked(db, u, d)
     /\ after = [db EXCEPT ![d] = [user |-> u, token |-> token, revoked |-> FALSE,
                   since |-> now, code |-> 0, codeExpires |-> 0, version |-> 0,
                   ssids |-> NoSsids, detail |-> NoDetail]]
  \/ /\ db[d] # Absent
     /\ db[d].user = u                                   \* else ErrImmutable
     /\ after = [db EXCEPT ![d] = [@ EXCEPT !.token = token,
                   !.since = IF holdsSeat(db[d]) \/ db[d].revoked THEN db[d].since ELSE now]]

MintedCode(db, after, d, code, now) ==
  /\ db[d] # Absent
  /\ after = [db EXCEPT ![d] = [@ EXCEPT !.code = code, !.codeExpires = now + CodeTTL]]

CancelledCode(db, after, d) ==
  /\ db[d] # Absent
  /\ db[d].code # 0                                      \* else errNoChange
  /\ after = [db EXCEPT ![d] = [@ EXCEPT !.code = 0, !.codeExpires = 0]]

(* Mutant of Claimed: the code is left on the record.                      *)
MutClaimedKeepsCode(db, after, d, token, now) ==
  /\ db[d] # Absent
  /\ db[d].code # 0
  /\ now < db[d].codeExpires
  /\ after = [db EXCEPT ![d] = [@ EXCEPT !.token = token, !.revoked = FALSE,
                !.since = IF holdsSeat(db[d]) THEN db[d].since ELSE now]]

(* Claim: the unexpired code of d is traded for a credential, and a        *)
(* revoked device is live again.                                           *)
Claimed(db, after, d, token, now) ==
  /\ db[d] # Absent
  /\ db[d].code # 0
  /\ now < db[d].codeExpires                             \* else ErrBadCode
  /\ after = [db EXCEPT ![d] = [@ EXCEPT !.token = token, !.revoked = FALSE,
                !.code = 0, !.codeExpires = 0,
                !.since = IF holdsSeat(db[d]) THEN db[d].since ELSE now]]

Revoked(db, after, d) ==
  /\ db[d] # Absent
  /\ ~db[d].revoked                                      \* else errNoChange
  /\ after = [db EXCEPT ![d] = [@ EXCEPT !.revoked = TRUE, !.since = 0]]

Purged(db, after, d) ==
  /\ db[d] # Absent
  /\ after = [db EXCEPT ![d] = Absent]

(* SetConfig: the list is replaced and the version goes up by one.         *)
Configured(db, after, d, ssids) ==
  /\ db[d] # Absent
  /\ ~(db[d].version > 0 /\ db[d].ssids = ssids)         \* else errNoChange
  /\ db[d].version < MaxVersion
  /\ after = [db EXCEPT ![d] = [@ EXCEPT !.ssids = ssids, !.version = db[d].version + 1]]

(* SetDescription, SetPBXLine, DeletePBXLine: fields no other write reads. *)
Detailed(db, after, d, detail) ==
  /\ db[d] # Absent
  /\ db[d].detail # detail                               \* else errNoChange
  /\ after = [db EXCEPT ![d] = [@ EXCEPT !.detail = detail]]
=============================================================================
