---------------------------- MODULE EnrolStore ----------------------------
(***************************************************************************)
(* The device store (server/internal/enroll: enroll.go, line.go): the map  *)
(* of device records in memory, devices.json, and the licence seats.       *)
(*                                                                         *)
(* A write takes wmu for its whole length and mu only in pieces: it        *)
(* mutates the map and recomputes the seats (Begin), saves the file with   *)
(* no lock (Persist or SaveFail), and compares the seats with those before *)
(* (Finish) before it answers.  Between the pieces SetSeats, which takes   *)
(* mu alone, and every reader get in, and the process may die.             *)
(***************************************************************************)
EXTENDS DeviceRecords, Integers, FiniteSets

CONSTANTS
  SeatCounts,      \* the seat counts the licence manager may set
  Clients,         \* administrators that read settings and write them back
  SaveMayFail,     \* the disk may refuse a save
  MayCrash,        \* the process may die and restart
  Nothing

NoSeatLimit == -1

ASSUME StoreAssumption ==
  /\ IsFiniteSet(Devices)
  /\ SeatCounts \subseteq Nat \cup {NoSeatLimit}
  /\ SaveMayFail \in BOOLEAN
  /\ MayCrash \in BOOLEAN

VARIABLES
  devices,      \* Store.devices
  file,         \* the contents of devices.json
  seats,        \* Store.seats
  used,         \* Store.used
  unlicensed,   \* Store.unlicensed
  writer,       \* the write that holds wmu, with commitLocked's locals
  fresh,        \* the credentials and codes drawn so far
  seen,         \* per administrator, the settings last read
  acked,        \* history: per device, the credential last answered with success
  spent         \* history: the codes a claim was answered for

store == <<devices, file, seats, used, unlicensed, writer>>
vars == <<store, fresh, seen, acked, spent>>

Idle == [stage |-> "idle"]

Maps == [Devices -> Record \cup {Absent}]

(* backup, prevUnlicensed and prevUsed are the locals commitLocked restores*)
(* from, prevLicensed the one it compares with; token and code are what    *)
(* the answer will carry (0 for none), purge whether the record goes.      *)
Writing == [stage : {"dirty", "saved"}, device : Devices, token : Nat, code : Nat,
            purge : BOOLEAN, backup : Maps, prevUnlicensed : SUBSET Devices,
            prevUsed : Nat, prevLicensed : SUBSET Devices]

Seen == [device : Devices, version : Nat, ssids : SsidLists]

TypeOK ==
  /\ devices \in Maps
  /\ file \in Maps
  /\ seats \in Nat \cup {NoSeatLimit}
  /\ used \in Nat
  /\ unlicensed \subseteq Devices
  /\ writer \in {Idle} \cup Writing
  /\ fresh \in Nat
  /\ seen \in [Clients -> Seen \cup {Nothing}]
  /\ acked \in [Devices -> Nat]
  /\ spent \subseteq Nat

-----------------------------------------------------------------------------
(* Licence seats.                                                          *)

Holders(db) == {d \in Devices : holdsSeat(db[d])}

(* The order of the seat queue: seatSince, then id.                        *)
Ahead(db, g, h) ==
  \/ db[g].since < db[h].since
  \/ db[g].since = db[h].since /\ g < h

(* recomputeSeatsLocked's unlicensed: the holders after the first n.       *)
BeyondSeats(db, n) ==
  IF n = NoSeatLimit THEN {}
  ELSE {h \in Holders(db) : Cardinality({g \in Holders(db) : Ahead(db, g, h)}) >= n}

(* licensedSetLocked, and Licensed for one device.                         *)
licensedSet == Holders(devices) \ unlicensed

freeSeat == seats = NoSeatLimit \/ used < seats

recomputeSeats(db, n) ==
  /\ used' = Cardinality(Holders(db))
  /\ unlicensed' = BeyondSeats(db, n)

-----------------------------------------------------------------------------
(* commitLocked, first piece, under wmu and mu: the locals, the closure's  *)
(* change and the seats recomputed.  The map after is in devices'.         *)
Begin(d, token, code, purge) ==
  /\ writer = Idle
  /\ writer' = [stage |-> "dirty", device |-> d, token |-> token, code |-> code,
                purge |-> purge, backup |-> devices, prevUnlicensed |-> unlicensed,
                prevUsed |-> used, prevLicensed |-> licensedSet]
  /\ recomputeSeats(devices', seats)
  /\ UNCHANGED <<file, seats, acked, spent>>

(* A credential or a code is a number never drawn before.                  *)
Draw ==
  /\ fresh + 1 \in Credentials
  /\ fresh' = fresh + 1

Create(d, u) ==
  /\ Created(devices, devices', d, u)
  /\ Begin(d, 0, 0, FALSE)
  /\ UNCHANGED <<fresh, seen>>

(* Mutant of IssueToken: the seat test is dropped.                         *)
MutIssueNoSeatTest(d, u, at) ==
  /\ Draw
  /\ Issued(devices, devices', d, u, fresh', at)
  /\ Begin(d, fresh', 0, FALSE)
  /\ UNCHANGED seen

(* A device that becomes a holder needs a free seat, else ErrNoSeats.      *)
IssueToken(d, u, at) ==
  /\ Draw
  /\ Issued(devices, devices', d, u, fresh', at)
  /\ holdsSeat(devices[d]) \/ ~holdsSeat(devices'[d]) \/ freeSeat
  /\ Begin(d, fresh', 0, FALSE)
  /\ UNCHANGED seen

MintCode(d, at) ==
  /\ Draw
  /\ MintedCode(devices, devices', d, fresh', at)
  /\ Begin(d, 0, 0, FALSE)
  /\ UNCHANGED seen

CancelCode(d) ==
  /\ CancelledCode(devices, devices', d)
  /\ Begin(d, 0, 0, FALSE)
  /\ UNCHANGED <<fresh, seen>>

(* Without a free seat the claim is refused and the code stays claimable.  *)
Claim(d, at) ==
  /\ Draw
  /\ Claimed(devices, devices', d, fresh', at)
  /\ holdsSeat(devices[d]) \/ freeSeat
  /\ Begin(d, fresh', devices[d].code, FALSE)
  /\ UNCHANGED seen

Revoke(d) ==
  /\ Revoked(devices, devices', d)
  /\ Begin(d, 0, 0, FALSE)
  /\ UNCHANGED <<fresh, seen>>

Purge(d) ==
  /\ Purged(devices, devices', d)
  /\ Begin(d, 0, 0, TRUE)
  /\ UNCHANGED <<fresh, seen>>

(* SetDescription, SetPBXLine, DeletePBXLine.                              *)
SetDetail(d, x) ==
  /\ Detailed(devices, devices', d, x)
  /\ Begin(d, 0, 0, FALSE)
  /\ UNCHANGED <<fresh, seen>>

(* SetConfig without a precondition.                                       *)
SetConfig(d, s) ==
  /\ Configured(devices, devices', d, s)
  /\ Begin(d, 0, 0, FALSE)
  /\ UNCHANGED <<fresh, seen>>

(* Config, read by an administrator that will write it back.  It takes mu  *)
(* shared and so sees a write that is not yet saved.                       *)
ReadConfig(c, d) ==
  /\ devices[d] # Absent
  /\ seen' = [seen EXCEPT ![c] = [device |-> d, version |-> devices[d].version,
                                  ssids |-> devices[d].ssids]]
  /\ UNCHANGED <<store, fresh, acked, spent>>

(* SetConfig with If-Match on the version read: Match.check inside commit. *)
SetConfigIf(c, s) ==
  /\ seen[c] # Nothing
  /\ devices[seen[c].device] # Absent
  /\ devices[seen[c].device].version = seen[c].version   \* else ErrVersionMismatch
  /\ Configured(devices, devices', seen[c].device, s)
  /\ Begin(seen[c].device, 0, 0, FALSE)
  /\ seen' = [seen EXCEPT ![c] = Nothing]
  /\ UNCHANGED fresh

(* Mutant of Persist: the file keeps its old contents.                     *)
MutPersistNothing ==
  /\ writer # Idle
  /\ writer.stage = "dirty"
  /\ writer' = [writer EXCEPT !.stage = "saved"]
  /\ acked' = [acked EXCEPT ![writer.device] = IF writer.purge THEN 0 ELSE @]
  /\ UNCHANGED <<devices, file, seats, used, unlicensed, fresh, seen, spent>>

(* save succeeds: the map is written beside the file and renamed into      *)
(* place, in one step as far as a restart can tell.                        *)
Persist ==
  /\ writer # Idle
  /\ writer.stage = "dirty"
  /\ file' = devices
  /\ writer' = [writer EXCEPT !.stage = "saved"]
  /\ acked' = [acked EXCEPT ![writer.device] = IF writer.purge THEN 0 ELSE @]
  /\ UNCHANGED <<devices, seats, used, unlicensed, fresh, seen, spent>>

(* Mutant of SaveFail: memory keeps what the file does not have.           *)
MutSaveFailKeeps ==
  /\ SaveMayFail
  /\ writer # Idle
  /\ writer.stage = "dirty"
  /\ writer' = Idle
  /\ UNCHANGED <<devices, file, seats, used, unlicensed, fresh, seen, acked, spent>>

(* Mutant of SaveFail: the count is restored and the write uncounted too.  *)
MutSaveFailMiscounts ==
  /\ SaveMayFail
  /\ writer # Idle
  /\ writer.stage = "dirty"
  /\ devices' = writer.backup
  /\ unlicensed' = writer.prevUnlicensed
  /\ used' = writer.prevUsed - 1
  /\ writer' = Idle
  /\ UNCHANGED <<file, seats, fresh, seen, acked, spent>>

(* Mutant of SaveFail: the records are restored, the seat count is not.    *)
MutSaveFailKeepsUsed ==
  /\ SaveMayFail
  /\ writer # Idle
  /\ writer.stage = "dirty"
  /\ devices' = writer.backup
  /\ unlicensed' = writer.prevUnlicensed
  /\ writer' = Idle
  /\ UNCHANGED <<file, seats, used, fresh, seen, acked, spent>>

(* save fails: memory is restored and the write is answered with an error. *)
SaveFail ==
  /\ SaveMayFail
  /\ writer # Idle
  /\ writer.stage = "dirty"
  /\ devices' = writer.backup
  /\ unlicensed' = writer.prevUnlicensed
  /\ used' = writer.prevUsed
  /\ writer' = Idle
  /\ UNCHANGED <<file, seats, fresh, seen, acked, spent>>

(* seatDiffLocked against prevLicensed; wmu is released and the write      *)
(* answered.  The hooks the difference is announced to run after this.     *)
Gained(prev, next) == next \ prev
Lost(prev, next) == prev \ next

Finish ==
  /\ writer # Idle
  /\ writer.stage = "saved"
  /\ writer' = Idle
  /\ acked' = [acked EXCEPT ![writer.device] = IF writer.token # 0 THEN writer.token ELSE @]
  /\ spent' = IF writer.code # 0 THEN spent \cup {writer.code} ELSE spent
  /\ UNCHANGED <<devices, file, seats, used, unlicensed, fresh, seen>>

(* Mutant of SetSeats: the count changes, the seats are not recomputed.    *)
MutSetSeatsNoRecompute(n) ==
  /\ n # seats
  /\ seats' = n
  /\ UNCHANGED <<devices, file, used, unlicensed, writer, fresh, seen, acked, spent>>

(* SetSeats takes mu alone: a write may be in progress.                    *)
SetSeats(n) ==
  /\ n # seats
  /\ seats' = n
  /\ recomputeSeats(devices, n)
  /\ UNCHANGED <<devices, file, writer, fresh, seen, acked, spent>>

(* The process dies and Open reads the file back; the licence manager then *)
(* sets the same count before a listener is bound.                         *)
Restart ==
  /\ MayCrash
  /\ devices' = file
  /\ recomputeSeats(file, seats)
  /\ writer' = Idle
  /\ UNCHANGED <<file, seats, fresh, seen, acked, spent>>

Init ==
  /\ devices = [d \in Devices |-> Absent]
  /\ file = devices
  /\ seats \in SeatCounts
  /\ used = 0
  /\ unlicensed = {}
  /\ writer = Idle
  /\ fresh = 0
  /\ seen = [c \in Clients |-> Nothing]
  /\ acked = [d \in Devices |-> 0]
  /\ spent = {}

Mutate ==
  \/ \E d \in Devices :
       \/ \E u \in Users : Create(d, u)
       \/ \E u \in Users, at \in Times : IssueToken(d, u, at)
       \/ \E at \in Times : MintCode(d, at)
       \/ CancelCode(d)
       \/ \E at \in Times : Claim(d, at)
       \/ Revoke(d)
       \/ Purge(d)
       \/ \E x \in Details : SetDetail(d, x)
       \/ \E s \in SsidLists : SetConfig(d, s)
  \/ \E c \in Clients, s \in SsidLists : SetConfigIf(c, s)

Next ==
  \/ Mutate
  \/ \E c \in Clients, d \in Devices : ReadConfig(c, d)
  \/ Persist
  \/ SaveFail
  \/ Finish
  \/ \E n \in SeatCounts : SetSeats(n)
  \/ Restart

Spec == Init /\ [][Next]_vars
-----------------------------------------------------------------------------
(* No two records have the same user, in memory or on disk: Create and     *)
(* IssueToken test it, and what is saved, restored or read back keeps it.  *)
UserUnique ==
  \A db \in {devices, file} : \A d, e \in Known(db) :
    db[d].user = db[e].user => d = e

(* "the file always reflects the latest memory": with no write in progress *)
(* the file and the map agree, after failed saves and restarts too, so an  *)
(* answered write survives a crash and a refused one leaves nothing.       *)
IdleIsDurable == writer = Idle => devices = file

(* The store's bookkeeping through failed saves and crashes: its types (the *)
(* count of seats in use never goes below zero), one record per user, and  *)
(* the file as the map.                                                    *)
StoreSound == TypeOK /\ UserUnique /\ IdleIsDurable

(* Once a credential has been handed out, no older one of that device      *)
(* authenticates again, whatever fails or crashes later.                   *)
NoOlderCredential ==
  \A db \in {devices, file}, d \in Devices :
    db[d] # Absent => db[d].token >= acked[d]

(* A code a claim was answered for is on no record: it cannot be claimed a *)
(* second time, even after a restart.                                      *)
CodeSingleUse ==
  \A db \in {devices, file} : \A d \in Known(db) : db[d].code \notin spent

(* used and unlicensed, the cached answers of every door, are those of the *)
(* records and the count in force: "kept under mu and recomputed after     *)
(* every write".                                                           *)
SeatsExact ==
  /\ used = Cardinality(Holders(devices))
  /\ unlicensed = BeyondSeats(devices, seats)

(* A write that makes a device a holder never sells more seats than there  *)
(* are, after restored and interleaved writes too.                         *)
NoOversell ==
  [][/\ writer = Idle
     /\ writer' # Idle
     /\ Holders(devices)' \ Holders(devices) # {}
     => seats = NoSeatLimit \/ Cardinality(Holders(devices)') <= seats]_vars

(* A licensed device that goes on holding a seat keeps it until the count  *)
(* itself goes down: no other device's enrolment, and no rotation of its   *)
(* own credential, pushes it over the line ("rotating a credential never   *)
(* sends a device to the back of the seat queue").                         *)
SeatKept ==
  [][\A d \in licensedSet :
       ((writer = Idle /\ writer' # Idle) \/ seats' # seats)
         /\ d \in Holders(devices)' /\ d \notin licensedSet'
       => seats' # NoSeatLimit /\ (seats = NoSeatLimit \/ seats' < seats)]_vars

(* "a write proceeds only if the record is as the caller last saw it": a   *)
(* conditional SetConfig is never applied over settings the administrator  *)
(* did not read.                                                           *)
IfMatchHonoured ==
  [][\A c \in Clients : seen[c] # Nothing /\ seen'[c] = Nothing
       => devices[seen[c].device].ssids = seen[c].ssids]_vars

(* The file is the abstract store: every step changes it by one write, or  *)
(* not at all.                                                             *)
Durable == INSTANCE CredentialStore WITH db <- file
ImplementsStore == Durable!Spec
=============================================================================
