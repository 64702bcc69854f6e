-------------------------- MODULE EnrolStoreProofs --------------------------
(***************************************************************************)
(* Theorems about the device store, for every set of devices, users,       *)
(* credentials and seat counts, with failing saves and crashes.            *)
(*                                                                         *)
(* The inductive invariant adds to the properties what a write in progress *)
(* owes: its backup is what the file holds, and the map it is about to     *)
(* save is one write away from the file.  Two more invariants rest on it:  *)
(* CredInv, of the credentials and codes answered for, and CountExact, of  *)
(* the seats counted.                                                      *)
(***************************************************************************)
EXTENDS EnrolStore, FiniteSetTheorems, TLAPS

UniqueUsers(db) == \A d, e \in Known(db) : db[d].user = db[e].user => d = e

(* One write of the store, with the relations of DeviceRecords.            *)
OneWrite(old, new) ==
  \E d \in Devices :
    \/ \E u \in Users : Created(old, new, d, u)
    \/ \E u \in Users, t \in Credentials, at \in Times : Issued(old, new, d, u, t, at)
    \/ \E c \in Credentials, at \in Times : MintedCode(old, new, d, c, at)
    \/ CancelledCode(old, new, d)
    \/ \E t \in Credentials, at \in Times : Claimed(old, new, d, t, at)
    \/ Revoked(old, new, d)
    \/ Purged(old, new, d)
    \/ \E s \in SsidLists : Configured(old, new, d, s)
    \/ \E x \in Details : Detailed(old, new, d, x)

WriterSound ==
  /\ writer = Idle => devices = file
  /\ writer # Idle /\ writer.stage = "dirty"
       => writer.backup = file /\ OneWrite(file, devices)
  /\ writer # Idle /\ writer.stage = "saved" => devices = file

Inv == TypeOK /\ UniqueUsers(devices) /\ UniqueUsers(file) /\ WriterSound

(* The settings and details of a new record are of their types.            *)
LEMMA DefaultsTyped == NoSsids \in SsidLists /\ NoDetail \in Details
BY RecordsAssumption DEF NoSsids, NoDetail

(* A write changes the record of one device, to Absent or to a record, and *)
(* changes that device's user only when it creates the record, for a user  *)
(* nobody else has.                                                        *)
LEMMA OneRecordChanges ==
  ASSUME NEW old \in Maps, NEW new, OneWrite(old, new)
  PROVE  \E d \in Devices, r \in Record \cup {Absent} :
           /\ new = [old EXCEPT ![d] = r]
           /\ \/ r = Absent
              \/ old[d] # Absent /\ r.user = old[d].user
              \/ \A e \in Known(old) \ {d} : old[e].user # r.user
<1>1. PICK d \in Devices :
        \/ \E u \in Users : Created(old, new, d, u)
        \/ \E u \in Users, t \in Credentials, at \in Times : Issued(old, new, d, u, t, at)
        \/ \E c \in Credentials, at \in Times : MintedCode(old, new, d, c, at)
        \/ CancelledCode(old, new, d)
        \/ \E t \in Credentials, at \in Times : Claimed(old, new, d, t, at)
        \/ Revoked(old, new, d)
        \/ Purged(old, new, d)
        \/ \E s \in SsidLists : Configured(old, new, d, s)
        \/ \E x \in Details : Detailed(old, new, d, x)
  BY DEF OneWrite
<1> DEFINE Changed(r) ==
      /\ new = [old EXCEPT ![d] = r]
      /\ \/ r = Absent
         \/ old[d] # Absent /\ r.user = old[d].user
         \/ \A e \in Known(old) \ {d} : old[e].user # r.user
<1>o. old[d] # Absent => old[d] \in Record
  BY DEF Maps
<1>2. ASSUME NEW u \in Users, Created(old, new, d, u)
      PROVE  \E r \in Record \cup {Absent} : Changed(r)
  <2> DEFINE r == [user |-> u, token |-> 0, revoked |-> FALSE, since |-> 0, code |-> 0,
                   codeExpires |-> 0, version |-> 0, ssids |-> NoSsids, detail |-> NoDetail]
  <2>1. r \in Record
    BY DefaultsTyped DEF Record
  <2>2. new = [old EXCEPT ![d] = r]
    BY <1>2 DEF Created
  <2>3. \A e \in Known(old) \ {d} : old[e].user # r.user
    BY <1>2 DEF Created, userTakenLocked
  <2> QED BY <2>1, <2>2, <2>3
<1>3. ASSUME NEW u \in Users, NEW t \in Credentials, NEW at \in Times,
             Issued(old, new, d, u, t, at)
      PROVE  \E r \in Record \cup {Absent} : Changed(r)
  <2>0. t \in Nat /\ at \in Nat
    BY RecordsAssumption
  <2>1. CASE old[d] = Absent
    <3> DEFINE r == [user |-> u, token |-> t, revoked |-> FALSE, since |-> at, code |-> 0,
                     codeExpires |-> 0, version |-> 0, ssids |-> NoSsids, detail |-> NoDetail]
    <3>1. r \in Record
      BY <2>0, DefaultsTyped DEF Record
    <3>2. new = [old EXCEPT ![d] = r]
      BY <1>3, <2>1 DEF Issued
    <3>3. \A e \in Known(old) \ {d} : old[e].user # r.user
      BY <1>3, <2>1 DEF Issued, userTakenLocked
    <3> QED BY <3>1, <3>2, <3>3
  <2>2. CASE old[d] # Absent
    <3> DEFINE s == IF holdsSeat(old[d]) \/ old[d].revoked THEN old[d].since ELSE at
               r == [old[d] EXCEPT !.token = t, !.since = s]
    <3>0. s \in Nat
      BY <1>o, <2>0, <2>2 DEF Record
    <3>1. r \in Record /\ r.user = old[d].user
      BY <1>o, <2>0, <2>2, <3>0 DEF Record
    <3>2. new = [old EXCEPT ![d] = r]
      BY <1>3, <2>2 DEF Issued, Maps
    <3> QED BY <2>2, <3>1, <3>2
  <2> QED BY <2>1, <2>2
<1>4. ASSUME NEW c \in Credentials, NEW at \in Times, MintedCode(old, new, d, c, at)
      PROVE  \E r \in Record \cup {Absent} : Changed(r)
  <2> DEFINE r == [old[d] EXCEPT !.code = c, !.codeExpires = at + CodeTTL]
  <2>0. c \in Nat /\ at + CodeTTL \in Nat
    BY RecordsAssumption
  <2>1. old[d] # Absent /\ new = [old EXCEPT ![d] = r]
    BY <1>4 DEF MintedCode, Maps
  <2>2. r \in Record /\ r.user = old[d].user
    BY <1>o, <2>0, <2>1 DEF Record
  <2> QED BY <2>1, <2>2
<1>5. ASSUME CancelledCode(old, new, d)
      PROVE  \E r \in Record \cup {Absent} : Changed(r)
  <2> DEFINE r == [old[d] EXCEPT !.code = 0, !.codeExpires = 0]
  <2>1. old[d] # Absent /\ new = [old EXCEPT ![d] = r]
    BY <1>5 DEF CancelledCode, Maps
  <2>2. r \in Record /\ r.user = old[d].user
    BY <1>o, <2>1 DEF Record
  <2> QED BY <2>1, <2>2
<1>6. ASSUME NEW t \in Credentials, NEW at \in Times, Claimed(old, new, d, t, at)
      PROVE  \E r \in Record \cup {Absent} : Changed(r)
  <2> DEFINE s == IF holdsSeat(old[d]) THEN old[d].since ELSE at
             r == [old[d] EXCEPT !.token = t, !.revoked = FALSE, !.code = 0,
                                 !.codeExpires = 0, !.since = s]
  <2>0. t \in Nat /\ at \in Nat
    BY RecordsAssumption
  <2>1. old[d] # Absent /\ new = [old EXCEPT ![d] = r]
    BY <1>6 DEF Claimed, Maps
  <2>2. s \in Nat
    BY <1>o, <2>0, <2>1 DEF Record
  <2>3. r \in Record /\ r.user = old[d].user
    BY <1>o, <2>0, <2>1, <2>2 DEF Record
  <2> QED BY <2>1, <2>3
<1>7. ASSUME Revoked(old, new, d)
      PROVE  \E r \in Record \cup {Absent} : Changed(r)
  <2> DEFINE r == [old[d] EXCEPT !.revoked = TRUE, !.since = 0]
  <2>1. old[d] # Absent /\ new = [old EXCEPT ![d] = r]
    BY <1>7 DEF Revoked, Maps
  <2>2. r \in Record /\ r.user = old[d].user
    BY <1>o, <2>1 DEF Record
  <2> QED BY <2>1, <2>2
<1>8. ASSUME Purged(old, new, d)
      PROVE  \E r \in Record \cup {Absent} : Changed(r)
  BY <1>8 DEF Purged
<1>9. ASSUME NEW s \in SsidLists, Configured(old, new, d, s)
      PROVE  \E r \in Record \cup {Absent} : Changed(r)
  <2> DEFINE r == [old[d] EXCEPT !.ssids = s, !.version = old[d].version + 1]
  <2>1. old[d] # Absent /\ new = [old EXCEPT ![d] = r]
    BY <1>9 DEF Configured, Maps
  <2>2. old[d].version + 1 \in Nat
    BY <1>o, <2>1 DEF Record
  <2>3. r \in Record /\ r.user = old[d].user
    BY <1>o, <2>1, <2>2 DEF Record
  <2> QED BY <2>1, <2>3
<1>10. ASSUME NEW x \in Details, Detailed(old, new, d, x)
       PROVE  \E r \in Record \cup {Absent} : Changed(r)
  <2> DEFINE r == [old[d] EXCEPT !.detail = x]
  <2>1. old[d] # Absent /\ new = [old EXCEPT ![d] = r]
    BY <1>10 DEF Detailed, Maps
  <2>2. r \in Record /\ r.user = old[d].user
    BY <1>o, <2>1 DEF Record
  <2> QED BY <2>1, <2>2
<1>11. \E r \in Record \cup {Absent} : Changed(r)
  BY <1>1, <1>2, <1>3, <1>4, <1>5, <1>6, <1>7, <1>8, <1>9, <1>10
<1> QED BY <1>11

(* So a write keeps the map a map and the users distinct.                  *)
LEMMA WriteKeepsMap ==
  ASSUME NEW old \in Maps, NEW new, OneWrite(old, new), UniqueUsers(old)
  PROVE  new \in Maps /\ UniqueUsers(new)
<1>1. PICK d \in Devices, r \in Record \cup {Absent} :
           /\ new = [old EXCEPT ![d] = r]
           /\ \/ r = Absent
              \/ old[d] # Absent /\ r.user = old[d].user
              \/ \A e \in Known(old) \ {d} : old[e].user # r.user
  BY OneRecordChanges
<1>2. new \in Maps
  BY <1>1 DEF Maps
<1>3. new[d] = r /\ \A e \in Devices \ {d} : new[e] = old[e]
  BY <1>1 DEF Maps
<1>4. UniqueUsers(new)
  BY <1>1, <1>3 DEF UniqueUsers, Known
<1> QED BY <1>2, <1>4

(* The number of holders is a natural number.                              *)
LEMMA HoldersCounted ==
  ASSUME NEW db
  PROVE  Cardinality(Holders(db)) \in Nat /\ Holders(db) \subseteq Devices
<1>1. Holders(db) \subseteq Devices
  BY DEF Holders
<1>2. IsFiniteSet(Holders(db))
  BY <1>1, StoreAssumption, FS_Subset
<1> QED BY <1>1, <1>2, FS_CardinalityType

(* SetSeats takes seats only from devices of the store.                    *)
LEMMA BeyondSeatsTyped ==
  ASSUME NEW db, NEW n
  PROVE  BeyondSeats(db, n) \subseteq Devices
BY DEF BeyondSeats, Holders

(* Every mutation is one write, started under wmu.                         *)
LEMMA MutateIsWrite ==
  ASSUME Mutate, TypeOK
  PROVE  /\ OneWrite(devices, devices')
         /\ fresh' \in Nat
         /\ seen' \in [Clients -> Seen \cup {Nothing}]
         /\ \E d \in Devices, t \in Nat, c \in Nat, p \in BOOLEAN : Begin(d, t, c, p)
<1>s. /\ fresh \in Nat
      /\ seen \in [Clients -> Seen \cup {Nothing}]
      /\ devices \in Maps
  BY DEF TypeOK
<1>d. ASSUME Draw PROVE fresh' \in Credentials /\ fresh' \in Nat
  BY <1>s, <1>d DEF Draw
<1>1. CASE \E d \in Devices, u \in Users : Create(d, u)
  BY <1>1, <1>s DEF Create, OneWrite
<1>2. CASE \E d \in Devices, u \in Users, at \in Times : IssueToken(d, u, at)
  <2>1. PICK d \in Devices, u \in Users, at \in Times : IssueToken(d, u, at)
    BY <1>2
  <2>2. Draw /\ Issued(devices, devices', d, u, fresh', at) /\ Begin(d, fresh', 0, FALSE)
        /\ seen' = seen
    BY <2>1 DEF IssueToken
  <2> QED BY <1>d, <1>s, <2>2 DEF OneWrite
<1>3. CASE \E d \in Devices, at \in Times : MintCode(d, at)
  <2>1. PICK d \in Devices, at \in Times : MintCode(d, at)
    BY <1>3
  <2>2. Draw /\ MintedCode(devices, devices', d, fresh', at) /\ Begin(d, 0, 0, FALSE)
        /\ seen' = seen
    BY <2>1 DEF MintCode
  <2> QED BY <1>d, <1>s, <2>2 DEF OneWrite
<1>4. CASE \E d \in Devices : CancelCode(d)
  BY <1>4, <1>s DEF CancelCode, OneWrite
<1>5. CASE \E d \in Devices, at \in Times : Claim(d, at)
  <2>1. PICK d \in Devices, at \in Times : Claim(d, at)
    BY <1>5
  <2>2. Draw /\ Claimed(devices, devices', d, fresh', at) /\ Begin(d, fresh', devices[d].code, FALSE)
        /\ seen' = seen
    BY <2>1 DEF Claim
  <2>3. devices[d].code \in Nat
    BY <1>s, <2>2 DEF Claimed, Maps, Record
  <2> QED BY <1>d, <1>s, <2>2, <2>3 DEF OneWrite
<1>6. CASE \E d \in Devices : Revoke(d)
  BY <1>6, <1>s DEF Revoke, OneWrite
<1>7. CASE \E d \in Devices : Purge(d)
  BY <1>7, <1>s DEF Purge, OneWrite
<1>8. CASE \E d \in Devices, x \in Details : SetDetail(d, x)
  BY <1>8, <1>s DEF SetDetail, OneWrite
<1>9. CASE \E d \in Devices, s \in SsidLists : SetConfig(d, s)
  BY <1>9, <1>s DEF SetConfig, OneWrite
<1>10. CASE \E c \in Clients, s \in SsidLists : SetConfigIf(c, s)
  <2>1. PICK c \in Clients, s \in SsidLists : SetConfigIf(c, s)
    BY <1>10
  <2>2. seen[c].device \in Devices
    BY <1>s, <2>1 DEF SetConfigIf, Seen
  <2> QED BY <1>s, <2>1, <2>2 DEF SetConfigIf, OneWrite
<1> QED
  BY <1>1, <1>2, <1>3, <1>4, <1>5, <1>6, <1>7, <1>8, <1>9, <1>10 DEF Mutate

-----------------------------------------------------------------------------

(* A store opened on an empty file satisfies the invariant.                *)
LEMMA InvInit == Init => Inv
<1> SUFFICES ASSUME Init PROVE Inv
  OBVIOUS
<1>1. devices \in Maps /\ file \in Maps /\ devices = file
  BY DEF Init, Maps
<1>2. TypeOK
  BY <1>1, StoreAssumption DEF Init, TypeOK
<1>3. UniqueUsers(devices)
  BY DEF Init, UniqueUsers, Known
<1> QED BY <1>1, <1>2, <1>3 DEF Inv, WriterSound, Init

(* Every write, save, failed save, crash and restart keeps the invariant.  *)
LEMMA InvNext == Inv /\ [Next]_vars => Inv'
<1> SUFFICES ASSUME Inv, [Next]_vars PROVE Inv'
  OBVIOUS
<1>t. TypeOK /\ UniqueUsers(devices) /\ UniqueUsers(file) /\ WriterSound
  BY DEF Inv
<1>w. writer # Idle => writer \in Writing
  BY <1>t DEF TypeOK
<1>i. Idle \in {Idle} \cup Writing
  OBVIOUS
<1>1. CASE Mutate
  <2>1. /\ OneWrite(devices, devices')
        /\ fresh' \in Nat
        /\ seen' \in [Clients -> Seen \cup {Nothing}]
    BY <1>1, <1>t, MutateIsWrite
  <2>2. PICK d \in Devices, t \in Nat, c \in Nat, p \in BOOLEAN : Begin(d, t, c, p)
    BY <1>1, <1>t, MutateIsWrite
  <2>3. devices = file
    BY <1>t, <2>2 DEF Begin, WriterSound
  <2>4. devices' \in Maps /\ UniqueUsers(devices')
    BY <1>t, <2>1, WriteKeepsMap DEF TypeOK
  <2>5. /\ writer' \in Writing
        /\ writer' # Idle
        /\ writer'.stage = "dirty"
        /\ writer'.backup = file
    <3>1. licensedSet \subseteq Devices
      BY DEF licensedSet, Holders
    <3>2. writer' = [stage |-> "dirty", device |-> d, token |-> t, code |-> c,
                purge |-> p, backup |-> devices, prevUnlicensed |-> unlicensed,
                prevUsed |-> used, prevLicensed |-> licensedSet]
      BY <2>2 DEF Begin
    <3>3. writer' \in Writing
      BY <1>t, <3>1, <3>2 DEF TypeOK, Writing
    <3>4. writer'.stage = "dirty" /\ writer'.backup = file
      BY <2>3, <3>2
    <3> QED BY <3>3, <3>4 DEF Idle
  <2>6. used' \in Nat /\ unlicensed' \subseteq Devices
    BY <2>2, HoldersCounted, BeyondSeatsTyped DEF Begin, recomputeSeats
  <2>7. UNCHANGED <<file, seats, acked, spent>>
    BY <2>2 DEF Begin
  <2>8. TypeOK'
    BY <1>t, <2>1, <2>4, <2>5, <2>6, <2>7 DEF TypeOK
  <2>9. WriterSound'
    BY <2>1, <2>3, <2>5, <2>7 DEF WriterSound
  <2>10. UniqueUsers(file)'
    BY <1>t, <2>7 DEF UniqueUsers, Known
  <2>11. UniqueUsers(devices)'
    BY <2>4 DEF UniqueUsers, Known
  <2> QED BY <2>8, <2>9, <2>10, <2>11 DEF Inv
<1>2. CASE \E c \in Clients, d \in Devices : ReadConfig(c, d)
  <2>1. PICK c \in Clients, d \in Devices : ReadConfig(c, d)
    BY <1>2
  <2> DEFINE s == [device |-> d, version |-> devices[d].version, ssids |-> devices[d].ssids]
  <2>2. devices[d] \in Record
    BY <1>t, <2>1 DEF ReadConfig, TypeOK, Maps
  <2>3. s \in Seen
    BY <2>2 DEF Record, Seen
  <2>4. seen' \in [Clients -> Seen \cup {Nothing}]
    BY <1>t, <2>1, <2>3 DEF ReadConfig, TypeOK
  <2>5. UNCHANGED <<store, fresh, acked, spent>>
    BY <2>1 DEF ReadConfig
  <2>6. TypeOK'
    BY <1>t, <2>4, <2>5 DEF TypeOK, store
  <2>7. UniqueUsers(devices)' /\ UniqueUsers(file)' /\ WriterSound'
    BY <1>t, <2>5 DEF UniqueUsers, Known, WriterSound, store
  <2> QED BY <2>6, <2>7 DEF Inv
<1>3. CASE Persist
  <2>1. /\ file' = devices
        /\ writer # Idle
        /\ writer' = [writer EXCEPT !.stage = "saved"]
        /\ UNCHANGED <<devices, seats, used, unlicensed, fresh, seen, spent>>
    BY <1>3 DEF Persist
  <2>2. writer' \in Writing /\ writer'.stage = "saved"
    BY <1>w, <2>1 DEF Writing
  <2>3. writer' # Idle /\ writer'.stage # "dirty"
    BY <2>2 DEF Idle
  <2>4. acked' \in [Devices -> Nat]
    <3>1. writer.device \in Devices
      BY <1>w, <2>1 DEF Writing
    <3> QED BY <1>3, <1>t, <3>1 DEF Persist, TypeOK
  <2>5. TypeOK'
    BY <1>t, <2>1, <2>2, <2>4 DEF TypeOK
  <2>6. WriterSound'
    BY <2>1, <2>3 DEF WriterSound
  <2>7. UniqueUsers(devices)' /\ UniqueUsers(file)'
    BY <1>t, <2>1 DEF UniqueUsers, Known
  <2> QED BY <2>5, <2>6, <2>7 DEF Inv
<1>4. CASE SaveFail
  <2>1. /\ writer # Idle
        /\ writer.stage = "dirty"
        /\ writer' = Idle
        /\ devices' = writer.backup
        /\ unlicensed' = writer.prevUnlicensed
        /\ used' = writer.prevUsed
        /\ UNCHANGED <<file, seats, fresh, seen, acked, spent>>
    BY <1>4 DEF SaveFail
  <2>2. devices' = file
    BY <1>t, <2>1 DEF WriterSound
  <2>3. unlicensed' \subseteq Devices /\ used' \in Nat
    BY <1>w, <2>1 DEF Writing
  <2>4. TypeOK'
    BY <1>t, <1>i, <2>1, <2>2, <2>3 DEF TypeOK
  <2>5. WriterSound'
    BY <2>1, <2>2 DEF WriterSound
  <2>6. UniqueUsers(devices)' /\ UniqueUsers(file)'
    BY <1>t, <2>1, <2>2 DEF UniqueUsers, Known
  <2> QED BY <2>4, <2>5, <2>6 DEF Inv
<1>5. CASE Finish
  <2>1. /\ writer # Idle
        /\ writer.stage = "saved"
        /\ writer' = Idle
        /\ acked' = [acked EXCEPT ![writer.device] =
                       IF writer.token # 0 THEN writer.token ELSE acked[writer.device]]
        /\ spent' = IF writer.code # 0 THEN spent \cup {writer.code} ELSE spent
        /\ UNCHANGED <<devices, file, seats, used, unlicensed, fresh, seen>>
    BY <1>5 DEF Finish
  <2>2. writer.device \in Devices /\ writer.token \in Nat /\ writer.code \in Nat
    BY <1>w, <2>1 DEF Writing
  <2>3. acked' \in [Devices -> Nat] /\ spent' \subseteq Nat
    BY <1>t, <2>1, <2>2 DEF TypeOK
  <2>4. TypeOK'
    BY <1>t, <1>i, <2>1, <2>3 DEF TypeOK
  <2>5. WriterSound'
    BY <1>t, <2>1 DEF WriterSound
  <2>6. UniqueUsers(devices)' /\ UniqueUsers(file)'
    BY <1>t, <2>1 DEF UniqueUsers, Known
  <2> QED BY <2>4, <2>5, <2>6 DEF Inv
<1>6. CASE \E n \in SeatCounts : SetSeats(n)
  <2>1. PICK n \in SeatCounts : SetSeats(n)
    BY <1>6
  <2>2. used' \in Nat /\ unlicensed' \subseteq Devices /\ seats' \in Nat \cup {NoSeatLimit}
    BY <2>1, StoreAssumption, HoldersCounted, BeyondSeatsTyped DEF SetSeats, recomputeSeats
  <2>3. UNCHANGED <<devices, file, writer, fresh, seen, acked, spent>>
    BY <2>1 DEF SetSeats
  <2>4. TypeOK'
    BY <1>t, <2>2, <2>3 DEF TypeOK
  <2>5. UniqueUsers(devices)' /\ UniqueUsers(file)' /\ WriterSound'
    BY <1>t, <2>3 DEF UniqueUsers, Known, WriterSound
  <2> QED BY <2>4, <2>5 DEF Inv
<1>7. CASE Restart
  <2>1. /\ devices' = file
        /\ writer' = Idle
        /\ UNCHANGED <<file, seats, fresh, seen, acked, spent>>
    BY <1>7 DEF Restart
  <2>2. used' \in Nat /\ unlicensed' \subseteq Devices
    BY <1>7, HoldersCounted, BeyondSeatsTyped DEF Restart, recomputeSeats
  <2>3. TypeOK'
    BY <1>t, <1>i, <2>1, <2>2 DEF TypeOK
  <2>4. WriterSound'
    BY <2>1 DEF WriterSound
  <2>5. UniqueUsers(devices)' /\ UniqueUsers(file)'
    BY <1>t, <2>1 DEF UniqueUsers, Known
  <2> QED BY <2>3, <2>4, <2>5 DEF Inv
<1>8. CASE UNCHANGED vars
  BY <1>t, <1>8 DEF Inv, TypeOK, UniqueUsers, Known, WriterSound, vars, store
<1> QED
  BY <1>1, <1>2, <1>3, <1>4, <1>5, <1>6, <1>7, <1>8 DEF Next

(* The invariant holds in every state of the store.                        *)
THEOREM StoreInv == Spec => []Inv
BY InvInit, InvNext, PTL DEF Spec

(* Every variable of the store keeps its type, in particular the count of  *)
(* seats in use never goes negative, for every instance of the constants.  *)
THEOREM StoreTypeOK == Spec => []TypeOK
<1>1. Inv => TypeOK
  BY DEF Inv
<1> QED BY <1>1, StoreInv, PTL

(* No two records ever have the same user, in memory or in devices.json:   *)
(* the uniqueness test of Create and IssueToken is not undone by a failed  *)
(* save, a crash, a purge or a seat-count change.                          *)
THEOREM StoreUserUnique == Spec => []UserUnique
<1>1. Inv => UserUnique
  BY DEF Inv, UserUnique, UniqueUsers
<1> QED BY <1>1, StoreInv, PTL

(* Between writes the file and the memory agree, so what was answered with *)
(* success survives a crash and what failed leaves nothing.                *)
THEOREM StoreDurable == Spec => []IdleIsDurable
<1>1. Inv => IdleIsDurable
  BY DEF Inv, IdleIsDurable, WriterSound
<1> QED BY <1>1, StoreInv, PTL

(* Types, unique users and durability together, as the run checks them.    *)
THEOREM StoreIsSound == Spec => []StoreSound
<1>1. TypeOK /\ UserUnique /\ IdleIsDurable => StoreSound
  BY DEF StoreSound
<1> QED BY <1>1, StoreTypeOK, StoreUserUnique, StoreDurable, PTL

(* One write, said with the abstract specification's own relations.        *)
LEMMA OneWriteIsAbstract ==
  ASSUME NEW old, NEW new, OneWrite(old, new)
  PROVE  Durable!Write(old, new)
BY DEF OneWrite, Durable!Write, Created, Durable!Created, Issued, Durable!Issued,
       MintedCode, Durable!MintedCode, CancelledCode, Durable!CancelledCode,
       Claimed, Durable!Claimed, Revoked, Durable!Revoked, Purged, Durable!Purged,
       Configured, Durable!Configured, Detailed, Durable!Detailed,
       holdsSeat, Durable!holdsSeat, userTakenLocked, Durable!userTakenLocked,
       Known, Durable!Known, NoSsids, Durable!NoSsids, NoDetail, Durable!NoDetail

(* devices.json, seen across every save, failure and restart, behaves as   *)
(* the abstract store: each step changes it by one whole write or leaves   *)
(* it alone.                                                               *)
THEOREM StoreImplements == Spec => ImplementsStore
<1>1. Init => Durable!Init
  BY DEF Init, Durable!Init
<1>2. Inv /\ [Next]_vars => [Durable!Next]_file
  <2> SUFFICES ASSUME Inv, [Next]_vars PROVE Durable!Next \/ file' = file
    OBVIOUS
  <2>1. CASE Persist
    <3>1. file' = devices /\ OneWrite(file, devices)
      BY <2>1 DEF Persist, Inv, WriterSound
    <3>2. Durable!Write(file, devices)
      BY <3>1, OneWriteIsAbstract
    <3> QED BY <3>1, <3>2 DEF Durable!Next
  <2>2. CASE Mutate
    BY <2>2, MutateIsWrite DEF Inv, Begin
  <2>3. CASE ~Persist /\ ~Mutate
    BY <2>3 DEF Next, vars, store, ReadConfig, SaveFail, Finish, SetSeats, Restart
  <2> QED BY <2>1, <2>2, <2>3
<1> QED BY <1>1, <1>2, StoreInv, PTL DEF Spec, ImplementsStore, Durable!Spec

-----------------------------------------------------------------------------
(* Credentials, codes and seats: what one mutation does to the one record  *)
(* it rewrites.  d, t, c and p are the arguments of Begin: the device, the *)
(* credential and the code its answer will carry, whether it purges.       *)
Rewrites(d, t, c, p) ==
  /\ Begin(d, t, c, p)
  /\ \A e \in Devices \ {d} : devices'[e] = devices[e]
  /\ fresh' \in {fresh, fresh + 1}
  /\ p <=> devices'[d] = Absent
  /\ devices'[d] # Absent =>
       /\ \/ fresh' = fresh + 1 /\ devices'[d].token = fresh'
          \/ devices[d] = Absent /\ devices'[d].token = 0
          \/ devices[d] # Absent /\ devices'[d].token = devices[d].token
       /\ \/ devices'[d].code = 0
          \/ fresh' = fresh + 1 /\ devices'[d].code = fresh'
          \/ devices[d] # Absent /\ devices'[d].code = devices[d].code
  /\ t # 0 => /\ fresh' = fresh + 1
              /\ t = fresh'
              /\ devices'[d] # Absent
              /\ devices'[d].token = t
  /\ c # 0 => /\ devices[d] # Absent
              /\ devices[d].code = c
              /\ devices'[d] # Absent
              /\ devices'[d].code = 0
  /\ \/ ~holdsSeat(devices'[d])
     \/ freeSeat
     \/ holdsSeat(devices[d]) /\ devices'[d].since = devices[d].since

(* Rewriting one record leaves the others.                                 *)
LEMMA RewriteFrame ==
  ASSUME NEW d \in Devices, NEW r, devices \in Maps, devices' = [devices EXCEPT ![d] = r]
  PROVE  devices'[d] = r /\ \A e \in Devices \ {d} : devices'[e] = devices[e]
BY DEF Maps

(* Every mutation rewrites one record: its credential and code are the    *)
(* record's own or drawn now, and a new holder takes a free seat.          *)
LEMMA MutateRewrites ==
  ASSUME Mutate, TypeOK
  PROVE  \E d \in Devices, t \in Nat, c \in Nat, p \in BOOLEAN : Rewrites(d, t, c, p)
<1>s. fresh \in Nat /\ devices \in Maps /\ seen \in [Clients -> Seen \cup {Nothing}]
  BY DEF TypeOK
<1>o. \A d \in Devices : devices[d] # Absent => devices[d] \in Record
  BY <1>s DEF Maps
<1>f. ASSUME Draw PROVE fresh' = fresh + 1 /\ fresh' \in Nat /\ fresh' # 0
  BY <1>f, <1>s DEF Draw
<1>a. Absent \notin Record
  BY RecordsAssumption
<1>1. ASSUME NEW d \in Devices, NEW u \in Users, Create(d, u)
      PROVE  Rewrites(d, 0, 0, FALSE)
  <2> DEFINE r == [user |-> u, token |-> 0, revoked |-> FALSE, since |-> 0, code |-> 0,
                   codeExpires |-> 0, version |-> 0, ssids |-> NoSsids, detail |-> NoDetail]
  <2>1. /\ devices[d] = Absent
        /\ devices' = [devices EXCEPT ![d] = r]
        /\ Begin(d, 0, 0, FALSE)
        /\ fresh' = fresh
    BY <1>1 DEF Create, Created
  <2>2. r \in Record /\ r.token = 0 /\ r.code = 0
    BY DefaultsTyped DEF Record
  <2>3. devices'[d] = r /\ \A e \in Devices \ {d} : devices'[e] = devices[e]
    BY <1>s, <2>1, RewriteFrame
  <2> HIDE DEF r
  <2>4. devices'[d] # Absent /\ devices'[d].token = 0 /\ devices'[d].code = 0
    BY <1>a, <2>2, <2>3
  <2> QED BY <2>1, <2>3, <2>4 DEF Rewrites, holdsSeat
<1>2. ASSUME NEW d \in Devices, NEW u \in Users, NEW at \in Times, IssueToken(d, u, at)
      PROVE  Rewrites(d, fresh', 0, FALSE)
  <2>1. /\ Draw
        /\ Issued(devices, devices', d, u, fresh', at)
        /\ holdsSeat(devices[d]) \/ ~holdsSeat(devices'[d]) \/ freeSeat
        /\ Begin(d, fresh', 0, FALSE)
    BY <1>2 DEF IssueToken
  <2>t. at \in Nat
    BY RecordsAssumption
  <2>2. CASE devices[d] = Absent
    <3> DEFINE r == [user |-> u, token |-> fresh', revoked |-> FALSE, since |-> at, code |-> 0,
                     codeExpires |-> 0, version |-> 0, ssids |-> NoSsids, detail |-> NoDetail]
    <3>1. devices' = [devices EXCEPT ![d] = r]
      BY <2>1, <2>2 DEF Issued
    <3>2. r \in Record /\ r.token = fresh' /\ r.code = 0
      BY <1>f, <2>1, <2>t, DefaultsTyped DEF Record
    <3>3. devices'[d] = r /\ \A e \in Devices \ {d} : devices'[e] = devices[e]
      BY <1>s, <3>1, RewriteFrame
    <3> HIDE DEF r
    <3>4. devices'[d] # Absent /\ devices'[d].token = fresh' /\ devices'[d].code = 0
      BY <1>a, <3>2, <3>3
    <3>5. ~holdsSeat(devices[d])
      BY <2>2 DEF holdsSeat
    <3> QED BY <1>f, <2>1, <3>3, <3>4, <3>5 DEF Rewrites
  <2>3. CASE devices[d] # Absent
    <3> DEFINE s == IF holdsSeat(devices[d]) \/ devices[d].revoked THEN devices[d].since ELSE at
               r == [devices[d] EXCEPT !.token = fresh', !.since = s]
    <3>0. devices[d] \in Record
      BY <1>o, <2>3
    <3>1. devices' = [devices EXCEPT ![d] = r]
      BY <1>s, <2>1, <2>3 DEF Issued, Maps
    <3>2. s \in Nat
      BY <3>0, <2>t DEF Record
    <3>3. /\ r \in Record
          /\ r.token = fresh'
          /\ r.code = devices[d].code
          /\ r.since = s
      BY <1>f, <2>1, <3>0, <3>2 DEF Record
    <3>4. devices'[d] = r /\ \A e \in Devices \ {d} : devices'[e] = devices[e]
      BY <1>s, <3>1, RewriteFrame
    <3>5. devices'[d] # Absent /\ devices'[d].token = fresh' /\ devices'[d].code = devices[d].code
      BY <1>a, <3>3, <3>4
    <3>6. \/ ~holdsSeat(devices'[d])
          \/ freeSeat
          \/ holdsSeat(devices[d]) /\ devices'[d].since = devices[d].since
      BY <2>1, <3>3, <3>4
    <3> HIDE DEF r, s
    <3> QED BY <1>f, <2>1, <2>3, <3>4, <3>5, <3>6 DEF Rewrites
  <2> QED BY <2>2, <2>3
<1>3. ASSUME NEW d \in Devices, NEW at \in Times, MintCode(d, at)
      PROVE  Rewrites(d, 0, 0, FALSE)
  <2> DEFINE r == [devices[d] EXCEPT !.code = fresh', !.codeExpires = at + CodeTTL]
  <2>1. /\ Draw
        /\ devices[d] # Absent
        /\ devices' = [devices EXCEPT ![d] = r]
        /\ Begin(d, 0, 0, FALSE)
    BY <1>3, <1>s DEF MintCode, MintedCode, Maps
  <2>2. devices[d] \in Record /\ at + CodeTTL \in Nat
    BY <1>o, <2>1, RecordsAssumption
  <2>3. /\ r \in Record
        /\ r.token = devices[d].token
        /\ r.code = fresh'
        /\ r.since = devices[d].since
        /\ r.revoked = devices[d].revoked
    BY <1>f, <2>1, <2>2 DEF Record
  <2>4. devices'[d] = r /\ \A e \in Devices \ {d} : devices'[e] = devices[e]
    BY <1>s, <2>1, RewriteFrame
  <2> HIDE DEF r
  <2>5. ~holdsSeat(devices'[d]) \/ holdsSeat(devices[d])
    BY <2>1, <2>3, <2>4, Zenon DEF holdsSeat
  <2> QED BY <1>a, <1>f, <2>1, <2>3, <2>4, <2>5 DEF Rewrites
<1>4. ASSUME NEW d \in Devices, CancelCode(d)
      PROVE  Rewrites(d, 0, 0, FALSE)
  <2> DEFINE r == [devices[d] EXCEPT !.code = 0, !.codeExpires = 0]
  <2>1. /\ devices[d] # Absent
        /\ devices' = [devices EXCEPT ![d] = r]
        /\ Begin(d, 0, 0, FALSE)
        /\ fresh' = fresh
    BY <1>4, <1>s DEF CancelCode, CancelledCode, Maps
  <2>2. devices[d] \in Record
    BY <1>o, <2>1
  <2>3. /\ r \in Record
        /\ r.token = devices[d].token
        /\ r.code = 0
        /\ r.since = devices[d].since
        /\ r.revoked = devices[d].revoked
    BY <2>2 DEF Record
  <2>4. devices'[d] = r /\ \A e \in Devices \ {d} : devices'[e] = devices[e]
    BY <1>s, <2>1, RewriteFrame
  <2> HIDE DEF r
  <2>5. ~holdsSeat(devices'[d]) \/ holdsSeat(devices[d])
    BY <2>1, <2>3, <2>4, Zenon DEF holdsSeat
  <2> QED BY <1>a, <2>1, <2>3, <2>4, <2>5 DEF Rewrites
<1>5. ASSUME NEW d \in Devices, NEW at \in Times, Claim(d, at)
      PROVE  Rewrites(d, fresh', devices[d].code, FALSE) /\ devices[d].code \in Nat
  <2> DEFINE s == IF holdsSeat(devices[d]) THEN devices[d].since ELSE at
             r == [devices[d] EXCEPT !.token = fresh', !.revoked = FALSE, !.code = 0,
                                     !.codeExpires = 0, !.since = s]
  <2>1. /\ Draw
        /\ devices[d] # Absent
        /\ devices' = [devices EXCEPT ![d] = r]
        /\ Begin(d, fresh', devices[d].code, FALSE)
        /\ holdsSeat(devices[d]) \/ freeSeat
    BY <1>5, <1>s DEF Claim, Claimed, Maps
  <2>2. devices[d] \in Record /\ at \in Nat
    BY <1>o, <2>1, RecordsAssumption
  <2>3. s \in Nat /\ devices[d].code \in Nat
    BY <2>2 DEF Record
  <2>4. /\ r \in Record
        /\ r.token = fresh'
        /\ r.code = 0
        /\ r.since = s
    BY <1>f, <2>1, <2>2, <2>3 DEF Record
  <2>5. devices'[d] = r /\ \A e \in Devices \ {d} : devices'[e] = devices[e]
    BY <1>s, <2>1, RewriteFrame
  <2>6. freeSeat \/ (holdsSeat(devices[d]) /\ devices'[d].since = devices[d].since)
    BY <2>1, <2>4, <2>5
  <2> HIDE DEF r, s
  <2> QED BY <1>a, <1>f, <2>1, <2>3, <2>4, <2>5, <2>6 DEF Rewrites
<1>6. ASSUME NEW d \in Devices, Revoke(d)
      PROVE  Rewrites(d, 0, 0, FALSE)
  <2> DEFINE r == [devices[d] EXCEPT !.revoked = TRUE, !.since = 0]
  <2>1. /\ devices[d] # Absent
        /\ devices' = [devices EXCEPT ![d] = r]
        /\ Begin(d, 0, 0, FALSE)
        /\ fresh' = fresh
    BY <1>6, <1>s DEF Revoke, Revoked, Maps
  <2>2. devices[d] \in Record
    BY <1>o, <2>1
  <2>3. /\ r \in Record
        /\ r.token = devices[d].token
        /\ r.code = devices[d].code
        /\ r.revoked = TRUE
    BY <2>2 DEF Record
  <2>4. devices'[d] = r /\ \A e \in Devices \ {d} : devices'[e] = devices[e]
    BY <1>s, <2>1, RewriteFrame
  <2> HIDE DEF r
  <2>5. ~holdsSeat(devices'[d])
    BY <2>3, <2>4, Zenon DEF holdsSeat
  <2> QED BY <1>a, <2>1, <2>3, <2>4, <2>5 DEF Rewrites
<1>7. ASSUME NEW d \in Devices, Purge(d)
      PROVE  Rewrites(d, 0, 0, TRUE)
  <2>1. /\ devices' = [devices EXCEPT ![d] = Absent]
        /\ Begin(d, 0, 0, TRUE)
        /\ fresh' = fresh
    BY <1>7 DEF Purge, Purged
  <2>2. devices'[d] = Absent /\ \A e \in Devices \ {d} : devices'[e] = devices[e]
    BY <1>s, <2>1, RewriteFrame
  <2> QED BY <2>1, <2>2 DEF Rewrites, holdsSeat
<1>8. ASSUME NEW d \in Devices, NEW x \in Details, SetDetail(d, x)
      PROVE  Rewrites(d, 0, 0, FALSE)
  <2> DEFINE r == [devices[d] EXCEPT !.detail = x]
  <2>1. /\ devices[d] # Absent
        /\ devices' = [devices EXCEPT ![d] = r]
        /\ Begin(d, 0, 0, FALSE)
        /\ fresh' = fresh
    BY <1>8, <1>s DEF SetDetail, Detailed, Maps
  <2>2. devices[d] \in Record
    BY <1>o, <2>1
  <2>3. /\ r \in Record
        /\ r.token = devices[d].token
        /\ r.code = devices[d].code
        /\ r.since = devices[d].since
        /\ r.revoked = devices[d].revoked
    BY <2>2 DEF Record
  <2>4. devices'[d] = r /\ \A e \in Devices \ {d} : devices'[e] = devices[e]
    BY <1>s, <2>1, RewriteFrame
  <2> HIDE DEF r
  <2>5. ~holdsSeat(devices'[d]) \/ holdsSeat(devices[d])
    BY <2>1, <2>3, <2>4, Zenon DEF holdsSeat
  <2> QED BY <1>a, <2>1, <2>3, <2>4, <2>5 DEF Rewrites
<1>c. ASSUME NEW d \in Devices, NEW s \in SsidLists,
             Configured(devices, devices', d, s), Begin(d, 0, 0, FALSE), fresh' = fresh
      PROVE  Rewrites(d, 0, 0, FALSE)
  <2> DEFINE r == [devices[d] EXCEPT !.ssids = s, !.version = devices[d].version + 1]
  <2>1. devices[d] # Absent /\ devices' = [devices EXCEPT ![d] = r]
    BY <1>c, <1>s DEF Configured, Maps
  <2>2. devices[d] \in Record /\ devices[d].version + 1 \in Nat
    BY <1>o, <2>1 DEF Record
  <2>3. /\ r \in Record
        /\ r.token = devices[d].token
        /\ r.code = devices[d].code
        /\ r.since = devices[d].since
        /\ r.revoked = devices[d].revoked
    BY <2>2 DEF Record
  <2>4. devices'[d] = r /\ \A e \in Devices \ {d} : devices'[e] = devices[e]
    BY <1>s, <2>1, RewriteFrame
  <2> HIDE DEF r
  <2>5. ~holdsSeat(devices'[d]) \/ holdsSeat(devices[d])
    BY <2>1, <2>3, <2>4, Zenon DEF holdsSeat
  <2> QED BY <1>a, <1>c, <2>1, <2>3, <2>4, <2>5 DEF Rewrites
<1>9. ASSUME NEW d \in Devices, NEW s \in SsidLists, SetConfig(d, s)
      PROVE  Rewrites(d, 0, 0, FALSE)
  BY <1>9, <1>c DEF SetConfig
<1>10. ASSUME NEW k \in Clients, NEW s \in SsidLists, SetConfigIf(k, s)
       PROVE  \E d \in Devices : Rewrites(d, 0, 0, FALSE)
  <2>1. seen[k].device \in Devices
    BY <1>10, <1>s DEF SetConfigIf, Seen
  <2> QED BY <1>10, <1>c, <2>1 DEF SetConfigIf
<1>m. \/ \E d \in Devices, u \in Users : Create(d, u)
      \/ \E d \in Devices, u \in Users, at \in Times : IssueToken(d, u, at)
      \/ \E d \in Devices, at \in Times : MintCode(d, at)
      \/ \E d \in Devices : CancelCode(d) \/ Revoke(d) \/ Purge(d)
      \/ \E d \in Devices, at \in Times : Claim(d, at)
      \/ \E d \in Devices, x \in Details : SetDetail(d, x)
      \/ \E d \in Devices, s \in SsidLists : SetConfig(d, s)
      \/ \E k \in Clients, s \in SsidLists : SetConfigIf(k, s)
  BY DEF Mutate
<1>d. (Draw => fresh' \in Nat) /\ 0 \in Nat
  BY <1>f
<1>i. \A d \in Devices, u \in Users, at \in Times : IssueToken(d, u, at) => Draw
  BY DEF IssueToken
<1>j. \A d \in Devices, at \in Times : Claim(d, at) => Draw
  BY DEF Claim
<1> QED
  BY <1>1, <1>2, <1>3, <1>4, <1>5, <1>6, <1>7, <1>8, <1>9, <1>10, <1>m, <1>d, <1>i, <1>j

(* What has been drawn is not drawn again: every credential and code there *)
(* is, on a record or answered, is at most fresh.                          *)
Drawn(db) ==
  \A d \in Known(db) : db[d].token <= fresh /\ db[d].code <= fresh

CodesApart(db) ==
  \A d, e \in Known(db) : db[d].code = db[e].code /\ db[d].code # 0 => d = e

Answered ==
  /\ \A d \in Devices : acked[d] <= fresh
  /\ \A c \in spent : c # 0 /\ c <= fresh

(* The file forgets a device only with what was answered for it; memory    *)
(* may, for the moment a purge takes to be saved.                          *)
FileCurrent ==
  \A d \in Devices :
    IF file[d] = Absent THEN acked[d] = 0 ELSE file[d].token >= acked[d]

MemoryCurrent == \A d \in Known(devices) : devices[d].token >= acked[d]

CodesUnspent(db) == \A d \in Known(db) : db[d].code \notin spent

(* A write under way has touched one record, has put on it the credential  *)
(* its answer carries, and has taken the code it will report spent off     *)
(* every record.                                                           *)
InFlight ==
  writer # Idle =>
    /\ writer.stage = "dirty" =>
         /\ \A e \in Devices \ {writer.device} : devices[e] = file[e]
         /\ writer.purge <=> devices[writer.device] = Absent
    /\ writer.token # 0 => /\ devices[writer.device] # Absent
                           /\ devices[writer.device].token = writer.token
    /\ writer.code # 0 => /\ writer.code <= fresh
                          /\ \A e \in Known(devices) : devices[e].code # writer.code
    /\ writer.token <= fresh

CredInv ==
  /\ Drawn(devices) /\ Drawn(file)
  /\ CodesApart(devices) /\ CodesApart(file)
  /\ Answered
  /\ FileCurrent /\ MemoryCurrent
  /\ CodesUnspent(devices) /\ CodesUnspent(file)
  /\ InFlight

(* The count of seats in use is that of the records, in memory and in the  *)
(* backup a failed save would restore.                                     *)
CountExact ==
  /\ used = Cardinality(Holders(devices))
  /\ writer # Idle => writer.prevUsed = Cardinality(Holders(writer.backup))

(* A mutation keeps the credentials and codes in order: what it draws is   *)
(* newer than everything answered, and the code it takes goes from the one *)
(* record that had it.                                                     *)
LEMMA CredMutate ==
  ASSUME Inv, CredInv, Mutate
  PROVE  CredInv'
<1>1. PICK d \in Devices, t \in Nat, c \in Nat, p \in BOOLEAN : Rewrites(d, t, c, p)
  BY MutateRewrites DEF Inv
<1>2. /\ writer = Idle
      /\ writer' = [stage |-> "dirty", device |-> d, token |-> t, code |-> c,
                    purge |-> p, backup |-> devices, prevUnlicensed |-> unlicensed,
                    prevUsed |-> used, prevLicensed |-> licensedSet]
      /\ UNCHANGED <<file, acked, spent>>
  BY <1>1 DEF Rewrites, Begin
<1>3. /\ devices = file
      /\ fresh \in Nat
      /\ acked \in [Devices -> Nat]
      /\ \A e \in Devices : devices[e] # Absent => devices[e].token \in Nat /\ devices[e].code \in Nat
  BY <1>2 DEF Inv, WriterSound, TypeOK, Maps, Record
<1>4. /\ \A e \in Devices \ {d} : devices'[e] = devices[e]
      /\ fresh' \in {fresh, fresh + 1}
      /\ p <=> devices'[d] = Absent
      /\ devices'[d] # Absent =>
           \/ fresh' = fresh + 1 /\ devices'[d].token = fresh'
           \/ devices[d] = Absent /\ devices'[d].token = 0
           \/ devices[d] # Absent /\ devices'[d].token = devices[d].token
      /\ devices'[d] # Absent =>
           \/ devices'[d].code = 0
           \/ fresh' = fresh + 1 /\ devices'[d].code = fresh'
           \/ devices[d] # Absent /\ devices'[d].code = devices[d].code
  BY <1>1 DEF Rewrites
<1>5. /\ t # 0 => t = fresh' /\ devices'[d] # Absent /\ devices'[d].token = t
      /\ c # 0 => /\ devices[d] # Absent
                  /\ devices[d].code = c
                  /\ devices'[d] # Absent
                  /\ devices'[d].code = 0
  BY <1>1 DEF Rewrites
<1>6. /\ \A e \in Devices : devices[e] # Absent => devices[e].token <= fresh /\ devices[e].code <= fresh
      /\ \A e \in Devices : acked[e] <= fresh
      /\ \A x \in spent : x # 0 /\ x <= fresh
      /\ \A e \in Devices : devices[e] = Absent => acked[e] = 0
      /\ \A e \in Devices : devices[e] # Absent => devices[e].token >= acked[e]
      /\ \A e \in Devices : devices[e] # Absent => devices[e].code \notin spent
      /\ \A e, f \in Devices : devices[e] # Absent /\ devices[f] # Absent
            /\ devices[e].code = devices[f].code /\ devices[e].code # 0 => e = f
  BY <1>3 DEF CredInv, Drawn, Answered, FileCurrent, MemoryCurrent, CodesUnspent, CodesApart, Known
<1>7. Drawn(devices)'
  BY <1>3, <1>4, <1>6 DEF Drawn, Known
<1>8. Drawn(file)'
  BY <1>2, <1>3, <1>4, <1>6 DEF Drawn, Known
<1>9. CodesApart(devices)'
  <2> SUFFICES ASSUME NEW e \in Devices, NEW f \in Devices, devices'[e] # Absent,
                      devices'[f] # Absent, devices'[e].code = devices'[f].code,
                      devices'[e].code # 0
               PROVE  e = f
    BY DEF CodesApart, Known
  <2>1. CASE e # d /\ f # d
    BY <1>4, <1>6, <2>1
  <2>2. CASE e = d
    BY <1>3, <1>4, <1>6, <2>2
  <2>3. CASE f = d
    BY <1>3, <1>4, <1>6, <2>3
  <2> QED BY <2>1, <2>2, <2>3
<1>10. CodesApart(file)'
  BY <1>2 DEF CodesApart, Known, CredInv
<1>11. Answered'
  BY <1>2, <1>3, <1>4, <1>6 DEF Answered, CredInv, Inv, TypeOK
<1>12. FileCurrent'
  BY <1>2 DEF FileCurrent, CredInv
<1>13. MemoryCurrent'
  BY <1>2, <1>3, <1>4, <1>6 DEF MemoryCurrent, Known
<1>14. CodesUnspent(devices)'
  <2> SUFFICES ASSUME NEW e \in Devices, devices'[e] # Absent, devices'[e].code \in spent
               PROVE  FALSE
    BY <1>2 DEF CodesUnspent, Known
  <2> QED BY <1>3, <1>4, <1>6
<1>15. CodesUnspent(file)'
  BY <1>2 DEF CodesUnspent, Known, CredInv
<1>16. InFlight'
  <2>1. /\ writer'.stage = "dirty"
        /\ writer'.device = d
        /\ writer'.token = t
        /\ writer'.code = c
        /\ writer'.purge = p
    BY <1>2
  <2>2. \A e \in Devices \ {d} : devices'[e] = file'[e]
    BY <1>2, <1>3, <1>4
  <2>3. c # 0 => c <= fresh' /\ \A e \in Devices : devices'[e] # Absent => devices'[e].code # c
    BY <1>3, <1>4, <1>5, <1>6
  <2>4. t <= fresh'
    BY <1>3, <1>4, <1>5
  <2> QED BY <1>4, <1>5, <2>1, <2>2, <2>3, <2>4 DEF InFlight, Known
<1> QED
  BY <1>7, <1>8, <1>9, <1>10, <1>11, <1>12, <1>13, <1>14, <1>15, <1>16 DEF CredInv

(* Every step keeps what the store says of credentials and codes.          *)
LEMMA CredNext ==
  ASSUME Inv, CredInv, [Next]_vars
  PROVE  CredInv'
<1>t. /\ fresh \in Nat
      /\ acked \in [Devices -> Nat]
      /\ WriterSound
      /\ writer # Idle => writer \in Writing
  BY DEF Inv, TypeOK
<1>w. writer # Idle => /\ writer.device \in Devices
                       /\ writer.token \in Nat
                       /\ writer.code \in Nat
  BY <1>t DEF Writing
<1>k. /\ Drawn(devices) /\ Drawn(file)
      /\ CodesApart(devices) /\ CodesApart(file)
      /\ Answered
      /\ FileCurrent /\ MemoryCurrent
      /\ CodesUnspent(devices) /\ CodesUnspent(file)
      /\ InFlight
  BY DEF CredInv
<1>i. FileCurrent => \A d \in Known(file) : file[d].token >= acked[d]
  BY DEF FileCurrent, Known
<1>1. CASE Mutate
  BY <1>1, CredMutate
<1>2. CASE Persist
  <2>1. /\ writer # Idle
        /\ writer.stage = "dirty"
        /\ file' = devices
        /\ writer' = [writer EXCEPT !.stage = "saved"]
        /\ acked' = [acked EXCEPT ![writer.device] = IF writer.purge THEN 0 ELSE acked[writer.device]]
        /\ UNCHANGED <<devices, fresh, spent>>
    BY <1>2 DEF Persist
  <2>2. /\ writer'.stage = "saved"
        /\ writer'.device = writer.device
        /\ writer'.token = writer.token
        /\ writer'.code = writer.code
    BY <1>t, <2>1 DEF Writing
  <2>3. /\ acked'[writer.device] = IF writer.purge THEN 0 ELSE acked[writer.device]
        /\ \A e \in Devices \ {writer.device} : acked'[e] = acked[e]
    BY <1>t, <1>w, <2>1
  <2>4. /\ \A e \in Devices \ {writer.device} : devices[e] = file[e]
        /\ writer.purge <=> devices[writer.device] = Absent
    BY <1>k, <2>1 DEF InFlight
  <2>5. Drawn(devices)' /\ Drawn(file)'
    BY <1>k, <2>1 DEF Drawn, Known
  <2>6. CodesApart(devices)' /\ CodesApart(file)'
    BY <1>k, <2>1 DEF CodesApart, Known
  <2>7. Answered'
    BY <1>k, <1>t, <1>w, <2>1, <2>3 DEF Answered
  <2>8. FileCurrent'
    <3> SUFFICES ASSUME NEW e \in Devices
                 PROVE  IF devices[e] = Absent THEN acked'[e] = 0 ELSE devices[e].token >= acked'[e]
      BY <2>1 DEF FileCurrent
    <3>1. CASE e = writer.device
      BY <1>k, <2>3, <2>4, <3>1 DEF MemoryCurrent, Known
    <3>2. CASE e # writer.device
      BY <1>k, <2>3, <2>4, <3>2 DEF FileCurrent
    <3> QED BY <3>1, <3>2
  <2>9. MemoryCurrent'
    BY <1>k, <1>t, <2>1, <2>3, <2>4 DEF MemoryCurrent, Known
  <2>10. CodesUnspent(devices)' /\ CodesUnspent(file)'
    BY <1>k, <2>1 DEF CodesUnspent, Known
  <2>11. InFlight'
    BY <1>k, <2>1, <2>2 DEF InFlight, Known
  <2> QED BY <2>5, <2>6, <2>7, <2>8, <2>9, <2>10, <2>11 DEF CredInv
<1>3. CASE SaveFail \/ Restart
  <2>1. devices' = file /\ writer' = Idle /\ UNCHANGED <<file, fresh, acked, spent>>
    BY <1>3, <1>t DEF SaveFail, Restart, WriterSound
  <2>2. Drawn(devices)' /\ Drawn(file)' /\ CodesApart(devices)' /\ CodesApart(file)'
    BY <1>k, <2>1 DEF Drawn, CodesApart, Known
  <2>3. Answered' /\ FileCurrent' /\ CodesUnspent(devices)' /\ CodesUnspent(file)'
    BY <1>k, <2>1 DEF Answered, FileCurrent, CodesUnspent, Known
  <2>4. MemoryCurrent'
    BY <1>i, <1>k, <2>1 DEF MemoryCurrent, Known
  <2>5. InFlight'
    BY <2>1 DEF InFlight
  <2> QED BY <2>2, <2>3, <2>4, <2>5 DEF CredInv
<1>4. CASE Finish
  <2>1. /\ writer # Idle
        /\ writer.stage = "saved"
        /\ writer' = Idle
        /\ acked' = [acked EXCEPT ![writer.device] =
                       IF writer.token # 0 THEN writer.token ELSE acked[writer.device]]
        /\ spent' = IF writer.code # 0 THEN spent \cup {writer.code} ELSE spent
        /\ UNCHANGED <<devices, file, fresh>>
    BY <1>4 DEF Finish
  <2>2. /\ acked'[writer.device] = IF writer.token # 0 THEN writer.token ELSE acked[writer.device]
        /\ \A e \in Devices \ {writer.device} : acked'[e] = acked[e]
    BY <1>t, <1>w, <2>1
  <2>3. /\ writer.token # 0 => /\ devices[writer.device] # Absent
                               /\ devices[writer.device].token = writer.token
        /\ writer.code # 0 => /\ writer.code <= fresh
                              /\ \A e \in Known(devices) : devices[e].code # writer.code
        /\ writer.token <= fresh
    BY <1>k, <2>1 DEF InFlight
  <2>4. devices = file
    BY <1>t, <2>1 DEF WriterSound
  <2>5. Drawn(devices)' /\ Drawn(file)' /\ CodesApart(devices)' /\ CodesApart(file)'
    BY <1>k, <2>1 DEF Drawn, CodesApart, Known
  <2>6. Answered'
    <3>1. \A e \in Devices : acked'[e] <= fresh'
      BY <1>k, <1>w, <2>1, <2>2, <2>3 DEF Answered
    <3>2. \A x \in spent' : x # 0 /\ x <= fresh'
      BY <1>k, <2>1, <2>3 DEF Answered
    <3> QED BY <3>1, <3>2 DEF Answered
  <2>7. FileCurrent'
    <3> SUFFICES ASSUME NEW e \in Devices
                 PROVE  IF file[e] = Absent THEN acked'[e] = 0 ELSE file[e].token >= acked'[e]
      BY <2>1 DEF FileCurrent
    <3>1. CASE e = writer.device
      BY <1>k, <1>w, <2>1, <2>2, <2>3, <2>4, <3>1 DEF FileCurrent
    <3>2. CASE e # writer.device
      BY <1>k, <2>2, <3>2 DEF FileCurrent
    <3> QED BY <3>1, <3>2
  <2>8. MemoryCurrent'
    BY <2>1, <2>4, <2>7 DEF MemoryCurrent, FileCurrent, Known
  <2>9. CodesUnspent(devices)' /\ CodesUnspent(file)'
    BY <1>k, <2>1, <2>3, <2>4 DEF CodesUnspent, Known
  <2>10. InFlight'
    BY <2>1 DEF InFlight
  <2> QED BY <2>5, <2>6, <2>7, <2>8, <2>9, <2>10 DEF CredInv
<1>5. CASE UNCHANGED <<devices, file, writer, fresh, acked, spent>>
  BY <1>5 DEF CredInv, Drawn, Known, CodesApart, Answered, FileCurrent, MemoryCurrent,
              CodesUnspent, InFlight
<1>6. (\E c \in Clients, d \in Devices : ReadConfig(c, d)) \/ (\E n \in SeatCounts : SetSeats(n))
        \/ UNCHANGED vars
      => UNCHANGED <<devices, file, writer, fresh, acked, spent>>
  BY DEF ReadConfig, SetSeats, vars, store
<1> QED
  BY <1>1, <1>2, <1>3, <1>4, <1>5, <1>6 DEF Next

(* In every run the credentials in memory and on file are at least as new  *)
(* as the last one a caller was answered for, and no code that was claimed *)
(* is left on a record.                                                    *)
THEOREM StoreCredInv == Spec => []CredInv
<1>1. Init => CredInv
  BY DEF Init, CredInv, Drawn, Known, CodesApart, Answered, FileCurrent, MemoryCurrent,
         CodesUnspent, InFlight
<1>2. Inv /\ CredInv /\ [Next]_vars => CredInv'
  BY CredNext
<1> QED BY <1>1, <1>2, StoreInv, PTL DEF Spec

(* A credential that replaced another is never replaced by it again: no    *)
(* failed save, crash, purge or interleaved write brings back, in memory   *)
(* or in devices.json, a credential older than the one last answered.      *)
THEOREM StoreNoOlderCredential == Spec => []NoOlderCredential
<1>1. Inv /\ CredInv => NoOlderCredential
  BY DEF Inv, CredInv, FileCurrent, MemoryCurrent, Known, NoOlderCredential
<1> QED BY <1>1, StoreInv, StoreCredInv, PTL

(* An enrolment code a claim was answered for is on no record, in memory   *)
(* or in devices.json, ever after: it enrols once.                         *)
THEOREM StoreCodeSingleUse == Spec => []CodeSingleUse
<1>1. CredInv => CodeSingleUse
  BY DEF CredInv, CodesUnspent, CodeSingleUse
<1> QED BY <1>1, StoreCredInv, PTL

-----------------------------------------------------------------------------
(* Seats.                                                                  *)

(* The devices that hold a seat can be counted.                            *)
LEMMA HoldersFinite ==
  ASSUME NEW db
  PROVE  IsFiniteSet(Holders(db))
BY StoreAssumption, FS_Subset DEF Holders

(* A set of holders is no larger than one that contains it.                *)
LEMMA FewerHolders ==
  ASSUME NEW db, NEW S, S \subseteq Holders(db)
  PROVE  Cardinality(S) \in Nat /\ Cardinality(S) <= Cardinality(Holders(db))
<1>1. IsFiniteSet(S)
  BY HoldersFinite, FS_Subset
<1> QED BY <1>1, HoldersFinite, FS_Subset, FS_CardinalityType

(* A mutation adds at most its own device to the holders.                  *)
LEMMA OneMoreHolder ==
  ASSUME NEW d \in Devices, \A e \in Devices \ {d} : devices'[e] = devices[e]
  PROVE  /\ Holders(devices') \subseteq Holders(devices) \cup {d}
         /\ Cardinality(Holders(devices')) <= Cardinality(Holders(devices)) + 1
<1>1. Holders(devices') \subseteq Holders(devices) \cup {d}
  BY DEF Holders
<1>2. IsFiniteSet(Holders(devices) \cup {d})
  BY HoldersFinite, FS_AddElement
<1>3. Cardinality(Holders(devices')) <= Cardinality(Holders(devices) \cup {d})
  BY <1>1, <1>2, FS_Subset
<1>4. Cardinality(Holders(devices) \cup {d}) <= Cardinality(Holders(devices)) + 1
  BY HoldersFinite, HoldersCounted, FS_AddElement
<1>5. Cardinality(Holders(devices) \cup {d}) \in Nat
  BY <1>2, FS_CardinalityType
<1> QED BY <1>1, <1>3, <1>4, <1>5, HoldersCounted

(* Every step keeps the count in step with the records: recomputeSeats on  *)
(* open, and the one device a write changes.                               *)
LEMMA CountNext ==
  ASSUME Inv, CountExact, [Next]_vars
  PROVE  CountExact'
<1>t. WriterSound /\ (writer # Idle => writer \in Writing)
  BY DEF Inv, TypeOK
<1>1. CASE Mutate
  <2>1. PICK d \in Devices, t \in Nat, c \in Nat, p \in BOOLEAN : Begin(d, t, c, p)
    BY <1>1, MutateIsWrite DEF Inv
  <2>2. writer' = [stage |-> "dirty", device |-> d, token |-> t, code |-> c,
                purge |-> p, backup |-> devices, prevUnlicensed |-> unlicensed,
                prevUsed |-> used, prevLicensed |-> licensedSet]
    BY <2>1 DEF Begin
  <2>3. writer'.backup = devices /\ writer'.prevUsed = used
    BY <2>2
  <2>4. used' = Cardinality(Holders(devices'))
    BY <2>1 DEF Begin, recomputeSeats
  <2> QED BY <2>3, <2>4 DEF CountExact, Holders
<1>2. CASE Persist
  <2>1. writer \in Writing /\ writer' = [writer EXCEPT !.stage = "saved"]
        /\ UNCHANGED <<devices, used>>
    BY <1>2, <1>t DEF Persist
  <2>2. writer'.backup = writer.backup /\ writer'.prevUsed = writer.prevUsed
    BY <2>1 DEF Writing
  <2> QED BY <1>2, <2>1, <2>2 DEF CountExact, Persist, Holders
<1>3. CASE SaveFail
  BY <1>3 DEF SaveFail, CountExact, Holders
<1>4. CASE Finish
  BY <1>4 DEF Finish, CountExact, Holders
<1>5. CASE \E n \in SeatCounts : SetSeats(n)
  BY <1>5 DEF SetSeats, recomputeSeats, CountExact, Holders
<1>6. CASE Restart
  BY <1>6 DEF Restart, recomputeSeats, CountExact, Holders
<1>7. CASE UNCHANGED store
  BY <1>7 DEF store, CountExact, Holders
<1> QED
  BY <1>1, <1>2, <1>3, <1>4, <1>5, <1>6, <1>7 DEF Next, ReadConfig, vars

(* seatsInUse is the number of records in memory that hold a seat, in      *)
(* every run, a write in progress included.                                *)
THEOREM StoreCountExact == Spec => []CountExact
<1>1. Init => CountExact
  <2> SUFFICES ASSUME Init PROVE CountExact
    OBVIOUS
  <2>1. Holders(devices) = {}
    BY DEF Init, Holders, holdsSeat
  <2> QED BY <2>1, FS_EmptySet DEF Init, CountExact
<1>2. Inv /\ CountExact /\ [Next]_vars => CountExact'
  BY CountNext
<1> QED BY <1>1, <1>2, StoreInv, PTL DEF Spec

(* Only a mutation starts a write.                                         *)
LEMMA OnlyMutateBegins ==
  ASSUME [Next]_vars, writer = Idle, writer' # Idle
  PROVE  Mutate
BY DEF Next, vars, store, ReadConfig, Persist, SaveFail, Finish, SetSeats, Restart

(* A write that makes a device a holder finds a free seat for it by the    *)
(* cached count, and the cached count is the count, after failed saves,    *)
(* crashes and seat changes too: no seat is sold twice.                    *)
THEOREM StoreNoOversell == Spec => NoOversell
<1>1. Inv /\ CountExact /\ [Next]_vars =>
        [/\ writer = Idle
         /\ writer' # Idle
         /\ Holders(devices)' \ Holders(devices) # {}
         => seats = NoSeatLimit \/ Cardinality(Holders(devices)') <= seats]_vars
  <2> SUFFICES ASSUME Inv, CountExact, [Next]_vars, writer = Idle, writer' # Idle,
                      Holders(devices') \ Holders(devices) # {}, seats # NoSeatLimit
               PROVE  Cardinality(Holders(devices')) <= seats
    BY DEF Holders
  <2>1. PICK d \in Devices, t \in Nat, c \in Nat, p \in BOOLEAN : Rewrites(d, t, c, p)
    BY OnlyMutateBegins, MutateRewrites DEF Inv
  <2>2. \A e \in Devices \ {d} : devices'[e] = devices[e]
    BY <2>1 DEF Rewrites
  <2>3. d \in Holders(devices') /\ d \notin Holders(devices)
    BY <2>2, OneMoreHolder
  <2>4. holdsSeat(devices'[d]) /\ ~holdsSeat(devices[d])
    BY <2>3 DEF Holders
  <2>5. used < seats
    BY <2>1, <2>4 DEF Rewrites, freeSeat
  <2>6. /\ seats \in Nat
        /\ used = Cardinality(Holders(devices))
        /\ Cardinality(Holders(devices)) \in Nat
        /\ Cardinality(Holders(devices')) \in Nat
    BY HoldersCounted DEF Inv, TypeOK, CountExact
  <2>7. Cardinality(Holders(devices')) <= Cardinality(Holders(devices)) + 1
    BY <2>2, OneMoreHolder
  <2> QED BY <2>5, <2>6, <2>7
<1> QED BY <1>1, StoreInv, StoreCountExact, PTL DEF Spec, NoOversell

(* On a disk that does not refuse a save, the cached seat answers are      *)
(* those of the records and the count in force, in every state: during a   *)
(* write, after a seat change in the middle of one and after a crash.  (A  *)
(* refused save restores the unlicensed set of before the write, which a   *)
(* seat change in between has made stale.)                                 *)
THEOREM StoreSeatsExact ==
  ASSUME ~SaveMayFail
  PROVE  Spec => []SeatsExact
<1>1. Init => SeatsExact
  <2> SUFFICES ASSUME Init PROVE SeatsExact
    OBVIOUS
  <2>1. Holders(devices) = {}
    BY DEF Init, Holders, holdsSeat
  <2>2. BeyondSeats(devices, seats) = {}
    BY <2>1 DEF BeyondSeats
  <2> QED BY <2>1, <2>2, FS_EmptySet DEF Init, SeatsExact
<1>2. Inv /\ SeatsExact /\ [Next]_vars => SeatsExact'
  <2> SUFFICES ASSUME Inv, SeatsExact, [Next]_vars PROVE SeatsExact'
    OBVIOUS
  <2>1. CASE Mutate
    <3>1. PICK d \in Devices, t \in Nat, c \in Nat, p \in BOOLEAN : Begin(d, t, c, p)
      BY <2>1, MutateIsWrite DEF Inv
    <3> QED BY <3>1 DEF Begin, recomputeSeats, SeatsExact, Holders, BeyondSeats, Ahead
  <2>2. CASE \E n \in SeatCounts : SetSeats(n)
    BY <2>2 DEF SetSeats, recomputeSeats, SeatsExact, Holders, BeyondSeats, Ahead
  <2>3. CASE Restart
    BY <2>3 DEF Restart, recomputeSeats, SeatsExact, Holders, BeyondSeats, Ahead
  <2>4. CASE UNCHANGED <<devices, seats, used, unlicensed>>
    BY <2>4 DEF SeatsExact, Holders, BeyondSeats, Ahead
  <2> QED
    BY <2>1, <2>2, <2>3, <2>4 DEF Next, ReadConfig, Persist, SaveFail, Finish, vars, store
<1> QED BY <1>1, <1>2, StoreInv, PTL DEF Spec

(* The holders ahead of h in the seat queue.                               *)
Front(db, h) == {g \in Holders(db) : Ahead(db, g, h)}

(* Nobody is ahead of itself, so the queue ahead of a holder is shorter    *)
(* than the queue.                                                         *)
LEMMA FrontShorter ==
  ASSUME NEW db \in Maps, NEW h \in Holders(db)
  PROVE  /\ Cardinality(Front(db, h)) \in Nat
         /\ Cardinality(Front(db, h)) < Cardinality(Holders(db))
<1>1. h \in Nat /\ db[h].since \in Nat
  BY RecordsAssumption DEF Holders, holdsSeat, Maps, Record
<1>2. h \notin Front(db, h)
  BY <1>1 DEF Front, Ahead
<1>3. Front(db, h) \subseteq Holders(db) \ {h}
  BY <1>2 DEF Front
<1>4. /\ IsFiniteSet(Holders(db) \ {h})
      /\ Cardinality(Holders(db) \ {h}) = Cardinality(Holders(db)) - 1
  BY HoldersFinite, FS_RemoveElement
<1>5. Cardinality(Front(db, h)) <= Cardinality(Holders(db) \ {h})
  BY <1>3, <1>4, FS_Subset
<1>6. Cardinality(Front(db, h)) \in Nat
  BY FewerHolders DEF Front
<1> QED BY <1>4, <1>5, <1>6, HoldersCounted

(* On such a disk a licensed device keeps its seat until the count goes    *)
(* down: a write that adds a holder had a seat to spare for the whole      *)
(* queue, and any other write leaves the queue ahead of it no longer.      *)
THEOREM StoreSeatKept ==
  ASSUME ~SaveMayFail
  PROVE  Spec => SeatKept
<1>1. Inv /\ SeatsExact /\ [Next]_vars =>
        [\A d \in licensedSet :
           ((writer = Idle /\ writer' # Idle) \/ seats' # seats)
             /\ d \in Holders(devices)' /\ d \notin licensedSet'
           => seats' # NoSeatLimit /\ (seats = NoSeatLimit \/ seats' < seats)]_vars
  <2> SUFFICES ASSUME Inv, SeatsExact, [Next]_vars, NEW d \in licensedSet,
                      (writer = Idle /\ writer' # Idle) \/ seats' # seats,
                      d \in Holders(devices'), d \in unlicensed'
               PROVE  seats' # NoSeatLimit /\ (seats = NoSeatLimit \/ seats' < seats)
    BY DEF Holders, licensedSet
  <2>1. /\ devices \in Maps
        /\ seats \in Nat \cup {NoSeatLimit}
        /\ d \in Holders(devices)
        /\ d \notin BeyondSeats(devices, seats)
        /\ used = Cardinality(Holders(devices))
        /\ used \in Nat
    BY HoldersCounted DEF Inv, TypeOK, SeatsExact, licensedSet
  <2>2. seats = NoSeatLimit \/ (seats \in Nat /\ Cardinality(Front(devices, d)) < seats)
    BY <2>1, FrontShorter DEF BeyondSeats, Front, NoSeatLimit
  <2>3. CASE \E n \in SeatCounts : SetSeats(n)
    <3>1. d \in BeyondSeats(devices, seats') /\ seats' \in SeatCounts
      BY <2>3 DEF SetSeats, recomputeSeats
    <3>2. seats' # NoSeatLimit /\ Cardinality(Front(devices, d)) >= seats'
      BY <3>1 DEF BeyondSeats, Front
    <3>3. seats' \in Nat /\ Cardinality(Front(devices, d)) \in Nat
      BY <2>1, <3>1, <3>2, StoreAssumption, FrontShorter
    <3> QED BY <2>2, <3>2, <3>3
  <2>4. CASE Mutate
    <3>1. PICK w \in Devices, t \in Nat, c \in Nat, p \in BOOLEAN : Rewrites(w, t, c, p)
      BY <2>4, MutateRewrites DEF Inv
    <3>2. /\ \A e \in Devices \ {w} : devices'[e] = devices[e]
          /\ unlicensed' = BeyondSeats(devices', seats)
          /\ seats' = seats
      BY <3>1 DEF Rewrites, Begin, recomputeSeats
    <3>3. seats # NoSeatLimit /\ Cardinality(Front(devices', d)) >= seats /\ seats \in Nat
      BY <2>1, <3>2 DEF BeyondSeats, Front
    <3>4. devices' \in Maps
      BY <2>4, InvNext DEF Inv, TypeOK, Next
    <3>5. CASE freeSeat
      <4>1. Cardinality(Holders(devices')) <= Cardinality(Holders(devices)) + 1
        BY <3>2, OneMoreHolder
      <4>2. Cardinality(Holders(devices')) <= seats
        BY <2>1, <3>3, <3>5, <4>1, HoldersCounted DEF freeSeat
      <4>3. /\ Cardinality(Front(devices', d)) \in Nat
            /\ Cardinality(Front(devices', d)) < Cardinality(Holders(devices'))
        BY <3>4, FrontShorter
      <4> QED BY <3>3, <4>2, <4>3, HoldersCounted
    <3>6. CASE ~freeSeat
      <4>1. \A g \in Holders(devices') :
              g \in Holders(devices) /\ devices'[g].since = devices[g].since
        BY <3>1, <3>2, <3>6 DEF Rewrites, Holders
      <4>2. Front(devices', d) \subseteq Front(devices, d)
        BY <4>1 DEF Front, Ahead
      <4>3. IsFiniteSet(Front(devices, d))
        BY HoldersFinite, FS_Subset DEF Front
      <4>4. Cardinality(Front(devices', d)) <= Cardinality(Front(devices, d))
        BY <4>2, <4>3, FS_Subset
      <4>5. Cardinality(Front(devices', d)) \in Nat /\ Cardinality(Front(devices, d)) \in Nat
        BY <2>1, <3>4, FrontShorter
      <4> QED BY <2>2, <3>3, <4>4, <4>5
    <3> QED BY <3>5, <3>6
  <2>5. Mutate \/ \E n \in SeatCounts : SetSeats(n)
    BY OnlyMutateBegins DEF Next, vars, store, ReadConfig, Persist, SaveFail, Finish, Restart
  <2> QED BY <2>3, <2>4, <2>5
<1> QED BY <1>1, StoreInv, StoreSeatsExact, PTL DEF Spec, SeatKept
=============================================================================
