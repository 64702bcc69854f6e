---------------------------- MODULE AdminHooks ----------------------------
(***************************************************************************)
(* What the admin and enrolment requests do to the live server after the   *)
(* store has accepted them (server/internal/enroll/admin_handler.go and    *)
(* handler.go, server/cmd/dialpark-server main.go, licence.go and          *)
(* pbxlines.go): the registry's provisioned devices and the lines the PBX  *)
(* line manager holds, kept in step with the device records by hooks that  *)
(* run on each request's own goroutine, after the store's locks are gone.  *)
(*                                                                         *)
(* The store's writes are atomic here (EnrolStore shows they may be taken  *)
(* so), a device stands for its user, and the seat queue is the sequence   *)
(* of holders.  A request is the list of steps it still has to take.       *)
(***************************************************************************)
EXTENDS Naturals, FiniteSets, Sequences, SequencesExt

CONSTANTS
  Devices,
  Requests,      \* the goroutines: admin and enrolment requests, licence changes
  SeatCounts,
  MayRestart,
  Absent

ASSUME HooksAssumption ==
  /\ Devices \subseteq Nat
  /\ IsFiniteSet(Devices)
  /\ SeatCounts \subseteq Nat
  /\ MayRestart \in BOOLEAN

VARIABLES
  rec,      \* Store.devices
  queue,    \* the seat holders in order
  seats,    \* Store.seats
  prov,     \* the devices the registry has provisioned
  lines,    \* the devices whose line the manager holds
  todo      \* per request, the steps it still has to take

vars == <<rec, queue, seats, prov, lines, todo>>

Record == [enrolled : BOOLEAN, revoked : BOOLEAN, code : BOOLEAN, line : BOOLEAN]

(* No record is the mark of a missing one.                                 *)
ASSUME AbsentAssumption == Absent \notin Record

Ops == {"create", "issue", "mint", "provision", "lookup", "deprovision", "delete",
        "register", "seatCheck", "put", "userFor"}

Step(op, d) == [op |-> op, d |-> d, new |-> FALSE]

TypeOK ==
  /\ rec \in [Devices -> Record \cup {Absent}]
  /\ queue \in Seq(Devices)
  /\ seats \in Nat
  /\ prov \subseteq Devices
  /\ lines \subseteq Devices
  /\ todo \in [Requests -> Seq([op : Ops, d : Devices, new : BOOLEAN])]

-----------------------------------------------------------------------------
Known == {d \in Devices : rec[d] # Absent}
Holder(d) == \E i \in DOMAIN queue : queue[i] = d
LicensedOf(q, n) == {q[i] : i \in {j \in DOMAIN q : j <= n}}
Unlicensed(d) == Holder(d) /\ d \notin LicensedOf(queue, seats)   \* SeatUnlicensed
UserFor(d) == d \in Known /\ ~rec[d].revoked
FreeSeat == Len(queue) < seats

(* The devices of S, the one with i - 1 smaller ones in the i-th place.    *)
InOrder(S) ==
  [i \in 1..Cardinality(S) |-> CHOOSE d \in S : Cardinality({e \in S : e < d}) = i - 1]

(* Mutant of SeatSteps: a gained seat does nothing.                        *)
MutSeatStepsLostOnly(q, n) ==
  LET lost == InOrder(LicensedOf(queue, seats) \ LicensedOf(q, n))
  IN  [i \in DOMAIN lost |-> Step("userFor", lost[i])]

(* seatHooks for the change from the licensed set of the old queue and     *)
(* count to the new: lines of the devices that lost a seat are dropped,    *)
(* those of the devices that gained one registered.                        *)
SeatSteps(q, n) ==
  LET was == LicensedOf(queue, seats)
      is == LicensedOf(q, n)
      lost == InOrder(was \ is)
      gained == InOrder(is \ was)
  IN  [i \in DOMAIN lost |-> Step("userFor", lost[i])]
        \o [i \in DOMAIN gained |-> Step("register", gained[i])]

(* One write of the store by request r: the record, the queue, the seat    *)
(* hooks that commit fires before it returns, and what the handler does    *)
(* next.                                                                   *)
Commit(r, d, record, q, next) ==
  /\ rec' = [rec EXCEPT ![d] = record]
  /\ queue' = q
  /\ todo' = [todo EXCEPT ![r] = SeatSteps(q, seats) \o next]
  /\ UNCHANGED <<seats, prov, lines>>

(* A step that leaves the store alone.                                     *)
Goto(r, next) ==
  /\ todo' = [todo EXCEPT ![r] = next]
  /\ UNCHANGED <<rec, queue, seats>>

Free(r) == todo[r] = <<>>
At(r, op, d) == todo[r] # <<>> /\ Head(todo[r]).op = op /\ Head(todo[r]).d = d
Rest(r) == Tail(todo[r])

(* The queue without d, which is in it once at most.                       *)
Without(q, d) ==
  IF \E i \in DOMAIN q : q[i] = d THEN RemoveAt(q, CHOOSE i \in DOMAIN q : q[i] = d) ELSE q

-----------------------------------------------------------------------------
(* The requests.                                                           *)

(* POST /v1/admin/devices: an existing id needs a token; a new device with *)
(* a token needs a free seat before it is created.                         *)
PostDevice(r, d, token) ==
  /\ Free(r)
  /\ d \in Known => token
  /\ d \notin Known /\ token => FreeSeat
  /\ Goto(r, (IF d \in Known THEN <<>> ELSE <<Step("create", d)>>)
             \o (IF token THEN <<[op |-> "issue", d |-> d, new |-> d \notin Known]>> ELSE <<>>)
             \o <<Step("mint", d), Step("provision", d)>>)
  /\ UNCHANGED <<prov, lines>>

(* DELETE /v1/admin/devices/{id}: a device already revoked is not written  *)
(* again, its hook runs all the same.                                      *)
RevokeDevice(r, d) ==
  /\ Free(r)
  /\ d \in Known
  /\ IF rec[d].revoked
     THEN Goto(r, <<Step("lookup", d)>>) /\ UNCHANGED <<prov, lines>>
     ELSE Commit(r, d, [rec[d] EXCEPT !.revoked = TRUE], Without(queue, d),
                 <<Step("lookup", d)>>)

PurgeDevice(r, d) ==
  /\ Free(r)
  /\ d \in Known
  /\ Commit(r, d, Absent, Without(queue, d), <<Step("lookup", d)>>)

(* POST /v1/admin/devices/{id}/enrol-code.                                 *)
PostCode(r, d) ==
  /\ Free(r)
  /\ d \in Known
  /\ Commit(r, d, [rec[d] EXCEPT !.code = TRUE], queue, <<>>)

(* Mutant of ClaimCode: OnClaim forgets to provision.                      *)
MutClaimNoProvision(r, d) ==
  /\ Free(r)
  /\ d \in Known
  /\ rec[d].code
  /\ Holder(d) \/ FreeSeat
  /\ Commit(r, d, [rec[d] EXCEPT !.enrolled = TRUE, !.revoked = FALSE, !.code = FALSE],
            IF Holder(d) THEN queue ELSE Append(queue, d),
            <<Step("register", d)>>)

(* POST /v1/enrol with d's code, and OnClaim.                              *)
ClaimCode(r, d) ==
  /\ Free(r)
  /\ d \in Known
  /\ rec[d].code
  /\ Holder(d) \/ FreeSeat
  /\ Commit(r, d, [rec[d] EXCEPT !.enrolled = TRUE, !.revoked = FALSE, !.code = FALSE],
            IF Holder(d) THEN queue ELSE Append(queue, d),
            <<Step("provision", d), Step("register", d)>>)

(* PUT and DELETE /v1/admin/devices/{id}/pbx-line, and OnPBXLine.          *)
PutLine(r, d) ==
  /\ Free(r)
  /\ d \in Known
  /\ Commit(r, d, [rec[d] EXCEPT !.line = TRUE], queue, <<Step("register", d)>>)

DropLine(r, d) ==
  /\ Free(r)
  /\ d \in Known
  /\ Commit(r, d, [rec[d] EXCEPT !.line = FALSE], queue, <<Step("userFor", d)>>)

(* The licence manager's OnChange: SetSeats and its seat hooks.            *)
SetSeats(r, n) ==
  /\ Free(r)
  /\ n # seats
  /\ seats' = n
  /\ todo' = [todo EXCEPT ![r] = SeatSteps(queue, n)]
  /\ UNCHANGED <<rec, queue, prov, lines>>

-----------------------------------------------------------------------------
(* The steps of POST /v1/admin/devices.                                    *)

Blank == [enrolled |-> FALSE, revoked |-> FALSE, code |-> FALSE, line |-> FALSE]

CreateStep(r, d) ==
  /\ At(r, "create", d)
  /\ IF d \in Known
     THEN Goto(r, <<>>) /\ UNCHANGED <<prov, lines>>          \* ErrExists
     ELSE Commit(r, d, Blank, queue, Rest(r))

(* IssueToken: ErrNoSeats answers the request and nothing more is done.    *)
IssueStep(r, d) ==
  LET old == IF d \in Known THEN rec[d] ELSE Blank
      joins == ~Holder(d) /\ ~old.revoked
  IN  /\ At(r, "issue", d)
      /\ IF joins /\ ~FreeSeat
         THEN Goto(r, <<>>) /\ UNCHANGED <<prov, lines>>
         ELSE Commit(r, d, [old EXCEPT !.enrolled = TRUE],
                     IF joins THEN Append(queue, d) ELSE queue, Rest(r))

MintStep(r, d) ==
  /\ At(r, "mint", d)
  /\ IF d \in Known
     THEN Commit(r, d, [rec[d] EXCEPT !.code = TRUE], queue, Rest(r))
     ELSE Goto(r, <<>>) /\ UNCHANGED <<prov, lines>>          \* ErrInvalid

(* OnIssue and OnClaim: reg.Provision.                                     *)
ProvisionStep(r, d) ==
  /\ At(r, "provision", d)
  /\ prov' = prov \cup {d}
  /\ Goto(r, Rest(r))
  /\ UNCHANGED lines

-----------------------------------------------------------------------------
(* The steps of the hooks.                                                 *)

(* OnRevoke, OnPurge: reg.LookupDevice decides whether there is anything   *)
(* to take down.                                                           *)
LookupStep(r, d) ==
  /\ At(r, "lookup", d)
  /\ Goto(r, IF d \in prov
             THEN <<Step("deprovision", d), Step("delete", d)>> \o Rest(r)
             ELSE Rest(r))
  /\ UNCHANGED <<prov, lines>>

DeprovisionStep(r, d) ==
  /\ At(r, "deprovision", d)
  /\ prov' = prov \ {d}
  /\ Goto(r, Rest(r))
  /\ UNCHANGED lines

(* lines.Delete.                                                           *)
DeleteStep(r, d) ==
  /\ At(r, "delete", d)
  /\ lines' = lines \ {d}
  /\ Goto(r, Rest(r))
  /\ UNCHANGED prov

(* A lost seat, or a line removed: the line goes if UserFor knows the      *)
(* device.                                                                 *)
UserForStep(r, d) ==
  /\ At(r, "userFor", d)
  /\ Goto(r, IF UserFor(d) THEN <<Step("delete", d)>> \o Rest(r) ELSE Rest(r))
  /\ UNCHANGED <<prov, lines>>

(* registerLine, in three pieces: PBXCredential, SeatState, mgr.Put.       *)
RegisterStep(r, d) ==
  /\ At(r, "register", d)
  /\ Goto(r, IF d \in Known /\ rec[d].line
             THEN <<Step("seatCheck", d)>> \o Rest(r) ELSE Rest(r))
  /\ UNCHANGED <<prov, lines>>

(* Mutant of SeatCheckStep: the seat is not asked for.                     *)
MutSeatNotChecked(r, d) ==
  /\ At(r, "seatCheck", d)
  /\ Goto(r, <<Step("put", d)>> \o Rest(r))
  /\ UNCHANGED <<prov, lines>>

SeatCheckStep(r, d) ==
  /\ At(r, "seatCheck", d)
  /\ Goto(r, IF Unlicensed(d) THEN Rest(r) ELSE <<Step("put", d)>> \o Rest(r))
  /\ UNCHANGED <<prov, lines>>

PutStep(r, d) ==
  /\ At(r, "put", d)
  /\ lines' = lines \cup {d}
  /\ Goto(r, Rest(r))
  /\ UNCHANGED prov

(* A restart provisions and registers from the store: main, and            *)
(* PBXCredentials for startPBXLines.                                       *)
Startup ==
  /\ prov' = {d \in Known : ~rec[d].revoked}
  /\ lines' = {d \in Known : rec[d].line /\ ~rec[d].revoked /\ ~Unlicensed(d)}

Restart ==
  /\ MayRestart
  /\ Startup
  /\ todo' = [r \in Requests |-> <<>>]
  /\ UNCHANGED <<rec, queue, seats>>

-----------------------------------------------------------------------------
Init ==
  /\ rec = [d \in Devices |-> Absent]
  /\ queue = <<>>
  /\ seats \in SeatCounts
  /\ prov = {}
  /\ lines = {}
  /\ todo = [r \in Requests |-> <<>>]

Request(r, d) ==
  \/ \E token \in BOOLEAN : PostDevice(r, d, token)
  \/ RevokeDevice(r, d)
  \/ PurgeDevice(r, d)
  \/ PostCode(r, d)
  \/ ClaimCode(r, d)
  \/ PutLine(r, d)
  \/ DropLine(r, d)

Proceed(r, d) ==
  \/ CreateStep(r, d)
  \/ IssueStep(r, d)
  \/ MintStep(r, d)
  \/ ProvisionStep(r, d)
  \/ LookupStep(r, d)
  \/ DeprovisionStep(r, d)
  \/ DeleteStep(r, d)
  \/ UserForStep(r, d)
  \/ RegisterStep(r, d)
  \/ SeatCheckStep(r, d)
  \/ PutStep(r, d)

Next ==
  \/ \E r \in Requests, d \in Devices : Request(r, d) \/ Proceed(r, d)
  \/ \E r \in Requests, n \in SeatCounts : SetSeats(r, n)
  \/ Restart

Spec == Init /\ [][Next]_vars

-----------------------------------------------------------------------------
Quiescent == \A r \in Requests : Free(r)

(* When nothing is in progress, every record that is not revoked is        *)
(* provisioned, so its user can be called: through creation, revocation,   *)
(* claims that un-revoke, purges and restarts.                             *)
LiveProvisioned == Quiescent => {d \in Known : ~rec[d].revoked} \subseteq prov

(* "keeps the registrar in step with the admin API": when nothing is in    *)
(* progress, the stored line of a live device within the seats is          *)
(* registered, whatever order line writes, claims, revocations and seat    *)
(* changes came in.                                                        *)
LinesServed ==
  Quiescent =>
    \A d \in Known : rec[d].line /\ ~rec[d].revoked /\ ~Unlicensed(d) => d \in lines

(* "the exchange must not ring a phone the server refuses everywhere       *)
(* else": when nothing is in progress, no device beyond the seats has its  *)
(* line registered.                                                        *)
SeatlessLineDown == Quiescent => \A d \in Known : Unlicensed(d) => d \notin lines

(* The registry and the registrar have followed the store once nothing is   *)
(* in progress, restarts at any step of a request included.                 *)
HooksFollow == LiveProvisioned /\ LinesServed /\ SeatlessLineDown

(* "Its phone can no longer connect, so its line must not stay             *)
(* registered": when nothing is in progress, no revoked device's line is   *)
(* with the manager.                                                       *)
RevokedLineDown == Quiescent => \A d \in Known : rec[d].revoked => d \notin lines

(* "the call path's view, where a revoked device does not exist": when     *)
(* nothing is in progress, no revoked device is provisioned.               *)
RevokedUnknown == Quiescent => \A d \in Known : rec[d].revoked => d \notin prov

(* "check before the record exists so a refusal leaves nothing behind": a  *)
(* POST refused for want of a seat does not leave the device it created.   *)
RefusalLeavesNothing ==
  [][\A r \in Requests : \A d \in Devices :
       At(r, "issue", d) /\ Head(todo[r]).new /\ todo'[r] = <<>>
         => rec'[d] = Absent]_vars
=============================================================================
