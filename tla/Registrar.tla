----------------------------- MODULE Registrar -----------------------------
(***************************************************************************)
(* The app leg's registrar: Digest authentication against the enrolment     *)
(* store (server/internal/sipauth), the REGISTER handler and the INVITE      *)
(* gate of the B2BUA, the routing of a call, and what revoking a device,     *)
(* claiming its code and taking its seat do to the binding                  *)
(* (cmd/dialpark-server adminHooks and seatHooks).                          *)
(*                                                                         *)
(* A phone holds the credential of one device.  A connection (flow) is the   *)
(* address a binding is rewritten to.  A step ends where a lock is released: *)
(* the credential is verified under the store's lock and the binding written *)
(* under the registry's, later; an admin write changes the store first and   *)
(* the registry in its hook.                                                *)
(***************************************************************************)
EXTENDS Integers, FiniteSets

CONSTANTS
  Phones,
  Devices,
  SipUsers,
  DeviceOf,    \* the device each phone was given the code of
  UserOf,      \* the SIP user each device is enrolled for
  MaxFlows,    \* bound: connections opened
  MaxAdmin,    \* bound: admin writes
  MaxIncoming  \* bound: calls

ASSUME RegistrarAssumption ==
  /\ DeviceOf \in [Phones -> Devices]
  /\ UserOf \in [Devices -> SipUsers]
  /\ \A d, e \in Devices : UserOf[d] = UserOf[e] => d = e
  /\ {MaxFlows, MaxAdmin, MaxIncoming} \subseteq Nat

Flows == 1..MaxFlows
NoFlow == 0
NoPhone == "no phone"
NoDevice == "no device"
ASSUME SentinelAssumption == NoPhone \notin Phones /\ NoDevice \notin Devices
Silent == [pc |-> "idle"]
NoHook == [kind |-> "none"]

VARIABLES
  enrolled,   \* device -> [gen, revoked, seat], as DigestSecret reads it
  binding,    \* user -> [device, contact]: the registry's endpoint, NoDevice when unprovisioned
  hook,       \* the admin write whose hook has yet to run
  phone,      \* phone -> [gen, nonce, flow]
  flowOf,     \* flow -> the phone that opened it
  alive,      \* the connections in sipgo's pool
  request,    \* phone -> the request being served
  incoming,   \* the call being routed
  late,       \* user -> its binding was verified while entitled and written when no more
  wiped,      \* the call dropped a binding it had found alive
  adminWrites, incomings

sipVars == <<enrolled, binding, hook, phone, flowOf, alive, request, incoming, late, wiped, adminWrites, incomings>>

Unbound(b) == [b EXCEPT !.contact = NoFlow]

SipInit ==
  /\ enrolled = [d \in Devices |-> [gen |-> 0, revoked |-> FALSE, seat |-> TRUE]]
  /\ binding = [u \in SipUsers |->
       [device |-> IF \E d \in Devices : UserOf[d] = u
                   THEN CHOOSE d \in Devices : UserOf[d] = u ELSE NoDevice,
        contact |-> NoFlow]]
  /\ hook = NoHook
  /\ phone = [p \in Phones |-> [gen |-> 0, nonce |-> "none", flow |-> NoFlow]]
  /\ flowOf = [f \in Flows |-> NoPhone]
  /\ alive = {}
  /\ request = [p \in Phones |-> Silent]
  /\ incoming = Silent
  /\ late = [u \in SipUsers |-> FALSE]
  /\ wiped = FALSE
  /\ adminWrites = 0 /\ incomings = 0

-----------------------------------------------------------------------------
(* Connections: a phone opens one after another, and its last is lost when   *)
(* the app is killed or changes network.                                    *)
Connect(p) ==
  /\ phone[p].flow = NoFlow
  /\ \E f \in Flows :
       /\ flowOf[f] = NoPhone /\ \A g \in Flows : g < f => flowOf[g] # NoPhone
       /\ flowOf' = [flowOf EXCEPT ![f] = p]
       /\ phone' = [phone EXCEPT ![p].flow = f]
       /\ alive' = alive \cup {f}
  /\ UNCHANGED <<enrolled, binding, hook, request, incoming, late, wiped, adminWrites, incomings>>

Disconnect(p) ==
  /\ phone[p].flow # NoFlow
  /\ alive' = alive \ {phone[p].flow}
  /\ phone' = [phone EXCEPT ![p].flow = NoFlow]
  /\ UNCHANGED <<enrolled, binding, hook, flowOf, request, incoming, late, wiped, adminWrites, incomings>>

(* A nonce older than NonceTTL is refused by nonceValid, and swept from the  *)
(* table by the next newNonce.                                              *)
NonceExpires(p) ==
  /\ phone[p].nonce = "fresh"
  /\ phone' = [phone EXCEPT ![p].nonce = "old"]
  /\ UNCHANGED <<enrolled, binding, hook, flowOf, alive, request, incoming, late, wiped, adminWrites, incomings>>

-----------------------------------------------------------------------------
(* DigestSecret and the response it has to match: the device is live, holds  *)
(* a seat, and the phone computed its answer from the credential in force.   *)
DigestSecret(d) == ~enrolled[d].revoked /\ enrolled[d].gen > 0 /\ enrolled[d].seat

Verify(p) ==
  CASE phone[p].nonce = "none" -> "no credentials"
    [] phone[p].nonce = "old" -> "stale"
    [] OTHER -> IF DigestSecret(DeviceOf[p]) /\ phone[p].gen = enrolled[DeviceOf[p]].gen
                THEN "ok" ELSE "refused"

(* Mutant of authorized: any enrolled phone may speak for any user. *)
authorized_AnyUser(p, user) == Verify(p) = "ok"

authorized(p, user) == Verify(p) = "ok" /\ UserOf[DeviceOf[p]] = user

(* A phone sends a request as some user on its connection: a REGISTER that   *)
(* binds, removes (Expires 0 or a wildcard) or asks (a query, or a time too   *)
(* short to grant), or an INVITE.  No credentials, or a nonce that is not    *)
(* known any more, is answered with a new nonce.                            *)
Ops == {"bind", "remove", "ask", "invite"}
Asks(p) == request[p] = Silent /\ phone[p].flow # NoFlow

Challenge(p) ==
  /\ Asks(p) /\ Verify(p) \in {"no credentials", "stale"}
  /\ phone' = [phone EXCEPT ![p].nonce = "fresh"]
  /\ UNCHANGED <<enrolled, binding, hook, flowOf, alive, request, incoming, late, wiped, adminWrites, incomings>>

Pass(p) ==
  /\ Asks(p)
  /\ \E u \in SipUsers, op \in Ops :
       /\ authorized(p, u)
       /\ request' = [request EXCEPT ![p] =
            [pc |-> "verified", user |-> u, op |-> op, flow |-> phone[p].flow,
             entitled |-> DigestSecret(DeviceOf[p])]]
  /\ UNCHANGED <<enrolled, binding, hook, phone, flowOf, alive, incoming, late, wiped, adminWrites, incomings>>

(* The rest of onRegister, once the credential is accepted. *)
Register(p) ==
  LET r == request[p] IN
  /\ r.pc = "verified" /\ r.op \in {"bind", "remove", "ask"}
  /\ request' = [request EXCEPT ![p] = Silent]
  /\ CASE r.op = "bind" /\ binding[r.user].device # NoDevice ->
            /\ binding' = [binding EXCEPT ![r.user].contact = r.flow]
            /\ late' = [late EXCEPT ![r.user] = r.entitled /\ ~DigestSecret(DeviceOf[p])]
       [] r.op = "remove" ->
            /\ binding' = [binding EXCEPT ![r.user] = Unbound(@)]
            /\ UNCHANGED late
       [] OTHER -> UNCHANGED <<binding, late>>
  /\ UNCHANGED <<enrolled, hook, phone, flowOf, alive, incoming, wiped, adminWrites, incomings>>

(* A registration that was not refreshed: viewLocked clears its contact. *)
RegistrationExpires(u) ==
  /\ binding[u].contact # NoFlow
  /\ binding' = [binding EXCEPT ![u] = Unbound(@)]
  /\ UNCHANGED <<enrolled, hook, phone, flowOf, alive, request, incoming, late, wiped, adminWrites, incomings>>

-----------------------------------------------------------------------------
(* Admin writes: the store first, then the hook.                            *)
AdminStep == hook = NoHook /\ adminWrites < MaxAdmin /\ adminWrites' = adminWrites + 1

Revoke(d) ==
  /\ AdminStep /\ ~enrolled[d].revoked
  /\ enrolled' = [enrolled EXCEPT ![d].revoked = TRUE]
  /\ hook' = [kind |-> "revoke", device |-> d]
  /\ UNCHANGED <<binding, phone, flowOf, alive, request, incoming, late, wiped, incomings>>

(* A phone claims its device's code: the credential is a new one. *)
ClaimCode(p) ==
  LET d == DeviceOf[p] IN
  /\ AdminStep
  /\ enrolled' = [enrolled EXCEPT ![d].gen = @ + 1, ![d].revoked = FALSE]
  /\ phone' = [phone EXCEPT ![p].gen = enrolled[d].gen + 1]
  /\ hook' = [kind |-> "claim", device |-> d]
  /\ UNCHANGED <<binding, flowOf, alive, request, incoming, late, wiped, incomings>>

SetSeat(d) ==
  /\ AdminStep
  /\ enrolled' = [enrolled EXCEPT ![d].seat = ~@]
  /\ hook' = [kind |-> IF enrolled[d].seat THEN "seat lost" ELSE "seat gained", device |-> d]
  /\ UNCHANGED <<binding, phone, flowOf, alive, request, incoming, late, wiped, incomings>>

Deprovision(d) ==
  [u \in SipUsers |->
    IF binding[u].device = d THEN [device |-> NoDevice, contact |-> NoFlow] ELSE binding[u]]

SeatLost(d) ==
  IF enrolled[d].revoked THEN binding ELSE [binding EXCEPT ![UserOf[d]] = Unbound(@)]

(* Provision keeps any registration. *)
Provision(d) ==
  [binding EXCEPT ![UserOf[d]] =
     [device |-> d, contact |-> IF @.device = NoDevice THEN NoFlow ELSE @.contact]]

HookRuns ==
  /\ hook # NoHook
  /\ binding' = CASE hook.kind = "revoke" -> Deprovision(hook.device)
                  [] hook.kind = "claim" -> Provision(hook.device)
                  [] hook.kind = "seat lost" -> SeatLost(hook.device)
                  [] OTHER -> binding
  /\ hook' = NoHook
  /\ UNCHANGED <<enrolled, phone, flowOf, alive, request, incoming, late, wiped, adminWrites, incomings>>

-----------------------------------------------------------------------------
(* Calls: an INVITE a phone was let through with, or one from the trunk, is  *)
(* routed by Resolve, and a binding on a connection that is gone is dropped  *)
(* before the phone is woken.                                               *)
Resolve(to) ==
  /\ incoming = Silent /\ incomings < MaxIncoming
  /\ incomings' = incomings + 1
  /\ incoming' = IF binding[to].device # NoDevice /\ binding[to].contact # NoFlow
                 THEN [pc |-> "resolved", user |-> to, contact |-> binding[to].contact]
                 ELSE Silent

InviteFromApp(p) ==
  /\ request[p].pc = "verified" /\ request[p].op = "invite"
  /\ request' = [request EXCEPT ![p] = Silent]
  /\ \E to \in SipUsers : Resolve(to)
  /\ UNCHANGED <<enrolled, binding, hook, phone, flowOf, alive, late, wiped, adminWrites>>

InviteFromTrunk ==
  /\ \E to \in SipUsers : Resolve(to)
  /\ UNCHANGED <<enrolled, binding, hook, phone, flowOf, alive, request, late, wiped, adminWrites>>

(* Mutant of flowAlive: the pool is asked for the phone, not its route. *)
flowAlive_Inverted(f) == f \notin alive

flowAlive(f) == f \in alive

CheckFlow ==
  /\ incoming.pc = "resolved"
  /\ incoming' = IF flowAlive(incoming.contact) THEN Silent
                 ELSE [incoming EXCEPT !.pc = "dead"]
  /\ UNCHANGED <<enrolled, binding, hook, phone, flowOf, alive, request, late, wiped, adminWrites, incomings>>

(* reg.Unregister(ep.User): whatever the user is bound to by now. *)
DropFlow ==
  /\ incoming.pc = "dead"
  /\ binding' = [binding EXCEPT ![incoming.user] = Unbound(@)]
  /\ wiped' = (wiped \/ (binding[incoming.user].contact \in alive
                         /\ binding[incoming.user].contact = incoming.contact))
  /\ incoming' = Silent
  /\ UNCHANGED <<enrolled, hook, phone, flowOf, alive, request, late, adminWrites, incomings>>

SipNext ==
  \/ \E p \in Phones :
       \/ Connect(p) \/ Disconnect(p) \/ NonceExpires(p)
       \/ Challenge(p) \/ Pass(p) \/ Register(p)
       \/ ClaimCode(p) \/ InviteFromApp(p)
  \/ \E u \in SipUsers : RegistrationExpires(u)
  \/ \E d \in Devices : Revoke(d) \/ SetSeat(d)
  \/ HookRuns
  \/ InviteFromTrunk \/ CheckFlow \/ DropFlow

SipSpec == SipInit /\ [][SipNext]_sipVars

-----------------------------------------------------------------------------
SipTypeOK ==
  /\ \A u \in SipUsers : binding[u].device \in Devices \cup {NoDevice} /\ binding[u].contact \in Flows \cup {NoFlow}
  /\ alive \subseteq Flows
  /\ late \in [SipUsers -> BOOLEAN]

(* Whoever a user is bound to got there with that user's own device: however *)
(* claims, revocations and requests of several phones interleave, no         *)
(* connection of another device's phone takes a user's calls.               *)
NoHijack ==
  \A u \in SipUsers :
    binding[u].contact # NoFlow => UserOf[DeviceOf[flowOf[binding[u].contact]]] = u

(* Once the hook of an admin write has run, a revoked device has neither a   *)
(* registry entry nor a binding, and a device without a seat has a binding   *)
(* only if its REGISTER was verified before the seat went and written after. *)
CutOff ==
  hook = NoHook => \A d \in Devices :
    /\ enrolled[d].revoked => binding[UserOf[d]] = [device |-> NoDevice, contact |-> NoFlow]
    /\ ~enrolled[d].seat /\ binding[UserOf[d]].contact # NoFlow => late[UserOf[d]]

(* A user's calls go to the phone entitled to them, or nowhere.              *)
BindingSound == SipTypeOK /\ NoHijack /\ CutOff

(* A call that finds the connection of a registration gone drops no           *)
(* registration that was made on that connection and is alive: a live one     *)
(* goes only when the phone registered again between the look and the drop.   *)
LiveFlowKept == ~wiped

(* What the docs say of a rotated credential: its old holder's registration   *)
(* goes with it.                                                            *)
BindingCurrent ==
  hook = NoHook => \A u \in SipUsers :
    binding[u].contact # NoFlow =>
      LET p == flowOf[binding[u].contact] IN phone[p].gen = enrolled[DeviceOf[p]].gen
=============================================================================
