---------------------------- MODULE SipSideProofs ----------------------------
(***************************************************************************)
(* Theorems about what phones and the exchange meet: the trunk's pooled    *)
(* connection (TrunkPool), the registrar (Registrar) and a user's line on  *)
(* the PBX (PbxLine), for any numbers of calls, connections, phones,       *)
(* devices, admin writes, numbers, secrets and line objects.               *)
(***************************************************************************)
EXTENDS TrunkPool, Registrar, PbxLine, SequenceTheorems, TLAPS

-----------------------------------------------------------------------------
(* The trunk.  A connection that is not closed is the one in the pool, so an *)
(* INVITE still unsent waits on that one, and closing it takes them all.     *)
TrunkCallStates ==
  [pc : {"idle", "waiting", "refused", "answered", "unresponsive", "cancelled", "redial", "failed"},
   conn : Conns \cup {NoConn}, attempt : Nat]

TrunkTypeOK ==
  /\ conn \in [Conns -> {"unused", "open", "stuck", "closed"}]
  /\ pooled \in Conns \cup {NoConn}
  /\ unsent \subseteq TrunkCalls \X Conns
  /\ trunkCall \in [TrunkCalls -> TrunkCallStates]
  /\ probe \in [pc : {"waiting", "asked", "failed"}, conn : Conns \cup {NoConn}, dead : BOOLEAN]

OnlyPooled == \A k \in Conns : conn[k] \in {"open", "stuck"} => pooled = k

UnsentStuck == \A u \in unsent : conn[u[2]] = "stuck"

TrunkInv == TrunkTypeOK /\ OnlyPooled /\ UnsentStuck /\ NoGhostInvite

(* dropTrunkConnection leaves nothing unsent. *)
LEMMA DropSendsNothing ==
  ASSUME TrunkInv, dropTrunkConnection
  PROVE  /\ unsent' = {}
         /\ conn' \in [Conns -> {"unused", "open", "stuck", "closed"}]
         /\ \A k \in Conns : conn'[k] \notin {"open", "stuck"}
<1>1. CASE pooled = NoConn
  BY <1>1, TrunkAssumption DEF dropTrunkConnection, TrunkInv, TrunkTypeOK, OnlyPooled, UnsentStuck, Conns, NoConn
<1>2. CASE pooled # NoConn
  <2>1. pooled \in Conns
    BY <1>2 DEF TrunkInv, TrunkTypeOK
  <2>2. \A u \in unsent : u[2] = pooled
    BY DEF TrunkInv, TrunkTypeOK, OnlyPooled, UnsentStuck
  <2> QED BY <1>2, <2>1, <2>2 DEF dropTrunkConnection, TrunkInv, TrunkTypeOK, OnlyPooled
<1> QED BY <1>1, <1>2

(* Taking a connection keeps what is not closed the pooled one. *)
LEMMA TakesKeeps ==
  ASSUME TrunkInv, NEW k \in Conns, Takes(k)
  PROVE  /\ conn' \in [Conns -> {"unused", "open", "stuck", "closed"}]
         /\ pooled' \in Conns \cup {NoConn}
         /\ OnlyPooled'
         /\ \A j \in Conns : conn[j] = "stuck" <=> conn'[j] = "stuck"
<1> USE DEF TrunkInv, TrunkTypeOK, OnlyPooled
<1>1. CASE pooled # NoConn /\ k = pooled /\ UNCHANGED <<conn, pooled>>
  BY <1>1
<1>2. CASE pooled = NoConn /\ conn[k] = "unused" /\ conn' = [conn EXCEPT ![k] = "open"] /\ pooled' = k
  <2>1. \A j \in Conns : conn[j] \notin {"open", "stuck"}
    BY <1>2, TrunkAssumption DEF NoConn, Conns
  <2> QED BY <1>2, <2>1
<1> QED BY <1>1, <1>2 DEF Takes

(* Every step of the calls, the qualifier, the pool and the network keeps it. *)
LEMMA TrunkStep == TrunkInv /\ [TrunkNext]_trunkVars => TrunkInv'
<1> SUFFICES ASSUME TrunkInv, [TrunkNext]_trunkVars PROVE TrunkInv'
  OBVIOUS
<1> USE TrunkAssumption DEF TrunkInv, TrunkTypeOK, OnlyPooled, UnsentStuck, NoGhostInvite,
                           TrunkCallStates
<1>1. ASSUME NEW k \in Conns, Evict(k) PROVE TrunkInv'
  BY <1>1 DEF Evict
<1>2. ASSUME NEW k \in Conns, Heal(k) PROVE TrunkInv'
  BY <1>2 DEF Heal
<1>3. ASSUME NEW k \in Conns, GiveUp(k) PROVE TrunkInv'
  BY <1>3 DEF GiveUp
<1>4. CASE Break
  BY <1>4 DEF Break
<1>5. ASSUME NEW c \in TrunkCalls, Invite(c) PROVE TrunkInv'
  <2>1. PICK k \in Conns :
          /\ Takes(k)
          /\ trunkCall' = [trunkCall EXCEPT ![c].conn = k,
               ![c].pc = IF conn[k] = "closed" THEN "refused" ELSE "waiting"]
          /\ unsent' = IF conn[k] = "stuck" THEN unsent \cup {<<c, k>>} ELSE unsent
    BY <1>5 DEF Invite
  <2>2. UNCHANGED probe
    BY <1>5 DEF Invite
  <2>r. trunkCall[c] \in TrunkCallStates
    BY DEF TrunkInv, TrunkTypeOK
  <2>s. [trunkCall[c] EXCEPT !.conn = k,
           !.pc = IF conn[k] = "closed" THEN "refused" ELSE "waiting"] \in TrunkCallStates
    <3> HIDE DEF TrunkInv
    <3> QED BY <2>r DEF TrunkCallStates
  <2>t. trunkCall' \in [TrunkCalls -> TrunkCallStates]
    BY <2>1, <2>s
  <2>u. unsent' \subseteq TrunkCalls \X Conns
    BY <2>1
  <2>3. /\ TrunkTypeOK' /\ OnlyPooled'
        /\ \A j \in Conns : conn[j] = "stuck" <=> conn'[j] = "stuck"
    BY <2>1, <2>2, <2>t, <2>u, TakesKeeps
  <2>4. UnsentStuck'
    BY <2>1, <2>3
  <2>5. /\ trunkCall'[c].pc \notin {"redial", "failed"}
        /\ \A e \in TrunkCalls \ {c} : trunkCall'[e] = trunkCall[e]
    BY <2>1
  <2>6. \A e \in TrunkCalls \ {c}, j \in Conns : <<e, j>> \in unsent' => <<e, j>> \in unsent
    BY <2>1
  <2>7. NoGhostInvite'
    BY <2>5, <2>6
  <2> QED BY <2>3, <2>4, <2>7
<1>6. ASSUME NEW c \in TrunkCalls, Answered(c) \/ Watchdog(c) \/ CallerGone(c) PROVE TrunkInv'
  BY <1>6 DEF Answered, Watchdog, CallerGone
<1>7. ASSUME NEW c \in TrunkCalls, Drop(c) PROVE TrunkInv'
  BY <1>7, DropSendsNothing DEF Drop
<1>8. CASE Probe
  <2>1. PICK k \in Conns :
          /\ Takes(k)
          /\ probe' = [probe EXCEPT !.conn = k, !.pc = IF conn[k] = "closed" THEN "failed" ELSE "asked"]
    BY <1>8 DEF Probe
  <2>2. UNCHANGED <<unsent, trunkCall>>
    BY <1>8 DEF Probe
  <2> QED BY <2>1, <2>2, TakesKeeps
<1>9. CASE ProbeAnswered \/ ProbeTimeout
  BY <1>9 DEF ProbeAnswered, ProbeTimeout
<1>10. CASE ProbeFails
  BY <1>10, DropSendsNothing DEF ProbeFails
<1>11. CASE UNCHANGED trunkVars
  BY <1>11 DEF trunkVars
<1> QED
  BY <1>1, <1>2, <1>3, <1>4, <1>5, <1>6, <1>7, <1>8, <1>9, <1>10, <1>11 DEF TrunkNext

(* However calls, watchdogs, the qualifier and the network interleave, a     *)
(* call given up on or about to be redialled has no INVITE left that a       *)
(* connection may still carry to the exchange.                              *)
THEOREM TrunkNoGhostInvite == TrunkSpec => []NoGhostInvite
<1>1. TrunkInit => TrunkInv
  BY DEF TrunkInit, TrunkInv, TrunkTypeOK, OnlyPooled, UnsentStuck, NoGhostInvite,
         TrunkCallStates
<1>2. TrunkInv => NoGhostInvite
  BY DEF TrunkInv
<1> QED BY <1>1, <1>2, TrunkStep, PTL DEF TrunkSpec

-----------------------------------------------------------------------------
(* The registrar.                                                           *)
Enrolments == [gen : Nat, revoked : BOOLEAN, seat : BOOLEAN]
Bindings == [device : Devices \cup {NoDevice}, contact : Flows \cup {NoFlow}]
PhoneStates == [gen : Nat, nonce : {"none", "fresh", "old"}, flow : Flows \cup {NoFlow}]
VerifiedRequests == [pc : {"verified"}, user : SipUsers, op : Ops, flow : Flows, entitled : BOOLEAN]
Routes == [pc : {"resolved", "dead"}, user : SipUsers, contact : Flows]
Hooks == [kind : {"revoke", "claim", "seat lost", "seat gained"}, device : Devices]

SipTypes ==
  /\ enrolled \in [Devices -> Enrolments]
  /\ binding \in [SipUsers -> Bindings]
  /\ hook \in Hooks \cup {NoHook}
  /\ phone \in [Phones -> PhoneStates]
  /\ flowOf \in [Flows -> Phones \cup {NoPhone}]
  /\ alive \subseteq Flows
  /\ request \in [Phones -> VerifiedRequests \cup {Silent}]
  /\ incoming \in Routes \cup {Silent}
  /\ late \in [SipUsers -> BOOLEAN]
  /\ wiped \in BOOLEAN

(* A connection belongs to one phone for good, and a request that passed the *)
(* gate is for the user of its phone's device, on that phone's connection.   *)
Owned ==
  /\ \A p \in Phones : phone[p].flow # NoFlow => flowOf[phone[p].flow] = p
  /\ \A p \in Phones : request[p].pc = "verified" =>
       /\ flowOf[request[p].flow] = p
       /\ request[p].user = UserOf[DeviceOf[p]]
       /\ request[p].entitled = TRUE

(* An endpoint is provisioned with its user's own device, and bound, if at   *)
(* all, to a connection of a phone of that device.                           *)
Bound ==
  \A u \in SipUsers :
    /\ binding[u].device # NoDevice => UserOf[binding[u].device] = u
    /\ binding[u].device = NoDevice => binding[u].contact = NoFlow
    /\ binding[u].contact # NoFlow =>
         /\ flowOf[binding[u].contact] \in Phones
         /\ UserOf[DeviceOf[flowOf[binding[u].contact]]] = u

(* CutOff, and what the hook in flight still has to do.                      *)
Cutting(kind, d) == hook.kind = kind /\ hook.device = d
CutInv ==
  /\ \A d \in Devices :
       /\ enrolled[d].revoked /\ ~Cutting("revoke", d) =>
            binding[UserOf[d]].device = NoDevice /\ binding[UserOf[d]].contact = NoFlow
       /\ ~enrolled[d].seat /\ ~Cutting("seat lost", d) /\ binding[UserOf[d]].contact # NoFlow
            => late[UserOf[d]]
  /\ hook.kind = "claim" => ~enrolled[hook.device].revoked

(* A route that was looked up is a connection that some phone opened, and    *)
(* one found dead stays dead.                                               *)
RouteInv ==
  /\ incoming.pc # "idle" => flowOf[incoming.contact] # NoPhone
  /\ incoming.pc = "dead" => incoming.contact \notin alive
  /\ wiped = FALSE

SipInv == SipTypes /\ Owned /\ Bound /\ CutInv /\ RouteInv

(* A claim gives a device a new credential and clears its revocation. *)
LEMMA ClaimedEnrolment ==
  ASSUME NEW e \in Enrolments
  PROVE  [e EXCEPT !.gen = @ + 1, !.revoked = FALSE] \in Enrolments
<1>1. ASSUME NEW g \in Nat PROVE [e EXCEPT !.gen = g, !.revoked = FALSE] \in Enrolments
  BY Zenon DEF Enrolments
<1>2. e.gen + 1 \in Nat
  BY DEF Enrolments
<1> QED BY <1>1, <1>2

(* What Register does to the bindings. *)
LEMMA RegisterCases ==
  ASSUME SipTypes, NEW p \in Phones, Register(p)
  PROVE  LET r == request[p] IN
         /\ r \in VerifiedRequests
         /\ \/ /\ r.op = "bind" /\ binding[r.user].device # NoDevice
               /\ binding' = [binding EXCEPT ![r.user].contact = r.flow]
               /\ late' = [late EXCEPT ![r.user] = r.entitled /\ ~DigestSecret(DeviceOf[p])]
            \/ /\ binding' = [binding EXCEPT ![r.user] = Unbound(@)]
               /\ late' = late
            \/ binding' = binding /\ late' = late
<1>1. request[p] \in VerifiedRequests
  BY DEF Register, Silent, SipTypes
<1> QED BY <1>1, Zenon DEF Register

(* A route is a connection of a phone that is bound to the user called. *)
LEMMA ResolveRoute ==
  ASSUME SipTypes, NEW to \in SipUsers, Resolve(to)
  PROVE  /\ incoming' \in Routes \cup {Silent}
         /\ incoming'.pc \in {"idle", "resolved"}
         /\ incoming'.pc = "resolved" =>
              binding[to].contact # NoFlow /\ incoming'.contact = binding[to].contact
<1>1. CASE binding[to].device # NoDevice /\ binding[to].contact # NoFlow
  <2>1. incoming' = [pc |-> "resolved", user |-> to, contact |-> binding[to].contact]
    BY <1>1 DEF Resolve
  <2>2. binding[to].contact \in Flows
    BY <1>1 DEF SipTypes, Bindings
  <2> QED BY <1>1, <2>1, <2>2 DEF Routes
<1>2. CASE ~(binding[to].device # NoDevice /\ binding[to].contact # NoFlow)
  BY <1>2 DEF Resolve, Silent
<1> QED BY <1>1, <1>2

(* The types are kept. *)
LEMMA SipTypesStep == SipTypes /\ [SipNext]_sipVars => SipTypes'
<1> SUFFICES ASSUME SipTypes, [SipNext]_sipVars PROVE SipTypes'
  OBVIOUS
<1> USE RegistrarAssumption DEF SipTypes
<1>1. ASSUME NEW p \in Phones, Connect(p) PROVE SipTypes'
  <2>1. PICK f \in Flows :
          /\ flowOf' = [flowOf EXCEPT ![f] = p]
          /\ phone' = [phone EXCEPT ![p].flow = f]
          /\ alive' = alive \cup {f}
    BY <1>1 DEF Connect
  <2>2. phone' \in [Phones -> PhoneStates]
    BY <2>1 DEF PhoneStates
  <2> QED BY <1>1, <2>1, <2>2 DEF Connect
<1>2. ASSUME NEW p \in Phones, Disconnect(p) PROVE SipTypes'
  <2>1. phone' \in [Phones -> PhoneStates]
    BY <1>2 DEF Disconnect, PhoneStates
  <2> QED BY <1>2, <2>1 DEF Disconnect
<1>3. ASSUME NEW p \in Phones, NonceExpires(p) \/ Challenge(p) PROVE SipTypes'
  <2>1. \E n \in {"fresh", "old"} : phone' = [phone EXCEPT ![p].nonce = n]
    BY <1>3 DEF NonceExpires, Challenge
  <2>2. phone' \in [Phones -> PhoneStates]
    BY <2>1 DEF PhoneStates
  <2> QED BY <1>3, <2>2 DEF NonceExpires, Challenge
<1>4. ASSUME NEW p \in Phones, Pass(p) PROVE SipTypes'
  <2>1. PICK u \in SipUsers, op \in Ops :
          request' = [request EXCEPT ![p] =
            [pc |-> "verified", user |-> u, op |-> op, flow |-> phone[p].flow,
             entitled |-> DigestSecret(DeviceOf[p])]]
    BY <1>4 DEF Pass
  <2>2. phone[p].flow \in Flows /\ DigestSecret(DeviceOf[p]) \in BOOLEAN
    BY <1>4 DEF Pass, Asks, DigestSecret, PhoneStates
  <2>3. request' \in [Phones -> VerifiedRequests \cup {Silent}]
    BY <2>1, <2>2 DEF VerifiedRequests
  <2> QED BY <1>4, <2>3 DEF Pass
<1>5. ASSUME NEW p \in Phones, Register(p) PROVE SipTypes'
  <2> DEFINE r == request[p]
  <2>1. r \in VerifiedRequests
    BY <1>5, RegisterCases
  <2>2. request' \in [Phones -> VerifiedRequests \cup {Silent}]
    BY <1>5 DEF Register
  <2>3. binding' \in [SipUsers -> Bindings]
    <3>1. r.user \in SipUsers /\ r.flow \in Flows
      BY <2>1 DEF VerifiedRequests
    <3>2. ASSUME NEW b \in Bindings PROVE Unbound(b) \in Bindings /\ [b EXCEPT !.contact = r.flow] \in Bindings
      BY <3>1 DEF Bindings, Unbound
    <3>3. CASE binding' = [binding EXCEPT ![r.user].contact = r.flow]
      BY <3>1, <3>2, <3>3
    <3>4. CASE binding' = [binding EXCEPT ![r.user] = Unbound(@)]
      BY <3>1, <3>2, <3>4
    <3>5. CASE binding' = binding
      BY <3>5
    <3> QED BY <1>5, <3>3, <3>4, <3>5, RegisterCases
  <2>4. late' \in [SipUsers -> BOOLEAN]
    <3>1. (r.entitled /\ ~DigestSecret(DeviceOf[p])) \in BOOLEAN
      BY <2>1 DEF VerifiedRequests
    <3> QED BY <1>5, <3>1, RegisterCases DEF VerifiedRequests
  <2> QED BY <1>5, <2>2, <2>3, <2>4 DEF Register
<1>6. ASSUME NEW p \in Phones, ClaimCode(p) PROVE SipTypes'
  <2>1. DeviceOf[p] \in Devices
    OBVIOUS
  <2>2. enrolled' \in [Devices -> Enrolments]
    <3>1. [enrolled[DeviceOf[p]] EXCEPT !.gen = @ + 1, !.revoked = FALSE] \in Enrolments
      BY <2>1, ClaimedEnrolment
    <3> QED BY <1>6, <2>1, <3>1 DEF ClaimCode
  <2>3. enrolled[DeviceOf[p]].gen + 1 \in Nat
    BY <2>1 DEF Enrolments
  <2>4. phone' \in [Phones -> PhoneStates]
    BY <1>6, <2>3 DEF ClaimCode, PhoneStates
  <2>5. hook' \in Hooks
    BY <1>6, <2>1 DEF ClaimCode, Hooks
  <2> QED BY <1>6, <2>2, <2>4, <2>5 DEF ClaimCode
<1>7. ASSUME NEW p \in Phones, InviteFromApp(p) PROVE SipTypes'
  BY <1>7, ResolveRoute DEF InviteFromApp
<1>8. ASSUME NEW u \in SipUsers, RegistrationExpires(u) PROVE SipTypes'
  BY <1>8 DEF RegistrationExpires, Bindings, Unbound
<1>9. ASSUME NEW d \in Devices, Revoke(d) \/ SetSeat(d) PROVE SipTypes'
  <2>1. CASE Revoke(d)
    <3>1. enrolled' \in [Devices -> Enrolments]
      BY <2>1 DEF Revoke, Enrolments
    <3>2. hook' \in Hooks
      BY <2>1 DEF Revoke, Hooks
    <3> QED BY <2>1, <3>1, <3>2 DEF Revoke
  <2>2. CASE SetSeat(d)
    <3>1. [enrolled[d] EXCEPT !.seat = ~@] \in Enrolments
      BY DEF Enrolments
    <3>2. enrolled' \in [Devices -> Enrolments]
      BY <2>2, <3>1 DEF SetSeat
    <3>3. hook' \in Hooks
      BY <2>2 DEF SetSeat, Hooks
    <3> QED BY <2>2, <3>2, <3>3 DEF SetSeat
  <2> QED BY <1>9, <2>1, <2>2
<1>10. CASE HookRuns
  <2>1. hook.device \in Devices
    BY <1>10 DEF HookRuns, Hooks
  <2>2. /\ Deprovision(hook.device) \in [SipUsers -> Bindings]
        /\ Provision(hook.device) \in [SipUsers -> Bindings]
        /\ SeatLost(hook.device) \in [SipUsers -> Bindings]
    BY <2>1 DEF Deprovision, Provision, SeatLost, Unbound, Bindings
  <2>3. binding' \in [SipUsers -> Bindings]
    BY <1>10, <2>2 DEF HookRuns
  <2> QED BY <1>10, <2>3 DEF HookRuns
<1>11. CASE InviteFromTrunk
  BY <1>11, ResolveRoute DEF InviteFromTrunk
<1>12. CASE CheckFlow
  BY <1>12 DEF CheckFlow, Routes, Silent
<1>13. CASE DropFlow
  BY <1>13 DEF DropFlow, Routes, Silent, Unbound, Bindings
<1>14. CASE UNCHANGED sipVars
  BY <1>14 DEF sipVars
<1> QED
  BY <1>1, <1>2, <1>3, <1>4, <1>5, <1>6, <1>7, <1>8, <1>9, <1>10, <1>11, <1>12, <1>13, <1>14
  DEF SipNext

(* What passed the gate did so as its own user, and connections keep their   *)
(* phones.                                                                  *)
LEMMA OwnedStep == SipInv /\ [SipNext]_sipVars => Owned'
<1> SUFFICES ASSUME SipInv, [SipNext]_sipVars PROVE Owned'
  OBVIOUS
<1> USE RegistrarAssumption, SentinelAssumption DEF SipInv, SipTypes, Owned
<1>1. ASSUME NEW p \in Phones, Connect(p) PROVE Owned'
  <2>1. PICK f \in Flows :
          /\ flowOf[f] = NoPhone
          /\ flowOf' = [flowOf EXCEPT ![f] = p]
          /\ phone' = [phone EXCEPT ![p].flow = f]
    BY <1>1 DEF Connect
  <2>2. \A q \in Phones \ {p} : phone'[q] = phone[q]
    BY <2>1
  <2>3. phone'[p].flow = f
    BY <2>1 DEF PhoneStates
  <2>4. \A g \in Flows \ {f} : flowOf'[g] = flowOf[g]
    BY <2>1
  <2>5. flowOf'[f] = p
    BY <2>1
  <2>6. \A q \in Phones : phone'[q].flow # NoFlow => flowOf'[phone'[q].flow] = q
    BY <2>1, <2>2, <2>3, <2>4, <2>5 DEF PhoneStates
  <2>7. \A q \in Phones : request[q].pc = "verified" => request[q] \in VerifiedRequests
    BY DEF Silent
  <2>8. \A q \in Phones : request[q].pc = "verified" => flowOf'[request[q].flow] = q
    BY <2>1, <2>4, <2>7 DEF VerifiedRequests
  <2> QED BY <1>1, <2>6, <2>8 DEF Connect
<1>2. ASSUME NEW p \in Phones, Disconnect(p) PROVE Owned'
  <2>1. \A q \in Phones : phone'[q].flow # NoFlow => phone'[q].flow = phone[q].flow
    BY <1>2 DEF Disconnect, PhoneStates
  <2> QED BY <1>2, <2>1 DEF Disconnect
<1>3. ASSUME NEW p \in Phones, NonceExpires(p) \/ Challenge(p) \/ ClaimCode(p) PROVE Owned'
  <2>1. \A q \in Phones : phone'[q].flow = phone[q].flow
    <3>1. ASSUME NEW x, phone' = [phone EXCEPT ![p].nonce = x]
          PROVE  \A q \in Phones : phone'[q].flow = phone[q].flow
      BY <3>1 DEF PhoneStates
    <3>2. ASSUME NEW x, phone' = [phone EXCEPT ![p].gen = x]
          PROVE  \A q \in Phones : phone'[q].flow = phone[q].flow
      BY <3>2 DEF PhoneStates
    <3>3. CASE NonceExpires(p) \/ Challenge(p)
      BY <3>1, <3>3 DEF NonceExpires, Challenge
    <3>4. CASE ClaimCode(p)
      BY <3>2, <3>4 DEF ClaimCode
    <3> QED BY <1>3, <3>3, <3>4
  <2> QED BY <1>3, <2>1 DEF NonceExpires, Challenge, ClaimCode
<1>4. ASSUME NEW p \in Phones, Pass(p) PROVE Owned'
  <2>1. PICK u \in SipUsers, op \in Ops :
          /\ authorized(p, u)
          /\ request' = [request EXCEPT ![p] =
               [pc |-> "verified", user |-> u, op |-> op, flow |-> phone[p].flow,
                entitled |-> DigestSecret(DeviceOf[p])]]
    BY <1>4 DEF Pass
  <2>2. DigestSecret(DeviceOf[p]) /\ u = UserOf[DeviceOf[p]]
    BY <2>1 DEF authorized, Verify
  <2>3. phone[p].flow # NoFlow
    BY <1>4 DEF Pass, Asks
  <2> QED BY <1>4, <2>1, <2>2, <2>3 DEF Pass
<1>5. ASSUME NEW p \in Phones, Register(p) \/ InviteFromApp(p) PROVE Owned'
  BY <1>5 DEF Register, InviteFromApp, Silent
<1>6. CASE UNCHANGED <<phone, flowOf, request>>
  BY <1>6
<1> QED
  BY <1>1, <1>2, <1>3, <1>4, <1>5, <1>6
  DEF SipNext, sipVars, RegistrationExpires, Revoke, SetSeat, HookRuns, InviteFromTrunk, CheckFlow, DropFlow

(* Bindings are made by requests that passed the gate only, and provisioning *)
(* names the user's own device.                                             *)
LEMMA BoundStep == SipInv /\ [SipNext]_sipVars => Bound'
<1> SUFFICES ASSUME SipInv, [SipNext]_sipVars PROVE Bound'
  OBVIOUS
<1> USE RegistrarAssumption, SentinelAssumption DEF SipInv, SipTypes, Bound
<1>1. ASSUME NEW p \in Phones, Connect(p) PROVE Bound'
  <2>1. PICK f \in Flows : flowOf[f] = NoPhone /\ flowOf' = [flowOf EXCEPT ![f] = p]
    BY <1>1 DEF Connect
  <2>2. \A g \in Flows : flowOf[g] \in Phones => flowOf'[g] = flowOf[g]
    BY <2>1
  <2> QED BY <1>1, <2>2 DEF Connect, Bindings
<1>2. ASSUME NEW p \in Phones, Register(p) PROVE Bound'
  <2> DEFINE r == request[p]
  <2>1. /\ r.user \in SipUsers /\ r.flow \in Flows
        /\ flowOf[r.flow] = p /\ r.user = UserOf[DeviceOf[p]]
    BY <1>2, RegisterCases DEF VerifiedRequests, Owned
  <2>2. UNCHANGED flowOf
    BY <1>2 DEF Register
  <2>3. CASE binding[r.user].device # NoDevice /\ binding' = [binding EXCEPT ![r.user].contact = r.flow]
    BY <2>1, <2>2, <2>3 DEF Bindings
  <2>4. CASE binding' = [binding EXCEPT ![r.user] = Unbound(@)]
    BY <2>1, <2>2, <2>4 DEF Bindings, Unbound
  <2>5. CASE binding' = binding
    BY <2>2, <2>5
  <2> QED BY <1>2, <2>3, <2>4, <2>5, RegisterCases
<1>3. ASSUME NEW u \in SipUsers, binding' = [binding EXCEPT ![u] = Unbound(@)], UNCHANGED flowOf
      PROVE Bound'
  BY <1>3 DEF Bindings, Unbound
<1>4. CASE HookRuns
  <2> DEFINE d == hook.device
  <2>1. d \in Devices /\ UserOf[d] \in SipUsers
    BY <1>4 DEF HookRuns, Hooks
  <2>2. UNCHANGED flowOf
    BY <1>4 DEF HookRuns
  <2>3. CASE binding' = Deprovision(d)
    BY <2>2, <2>3 DEF Deprovision
  <2>4. CASE binding' = Provision(d)
    BY <2>1, <2>2, <2>4 DEF Provision, Bindings
  <2>5. CASE binding' = SeatLost(d) \/ binding' = binding
    BY <1>3, <2>1, <2>2, <2>5 DEF SeatLost
  <2> QED BY <1>4, <2>3, <2>4, <2>5 DEF HookRuns
<1>5. CASE DropFlow
  <2>1. incoming.user \in SipUsers
    BY <1>5 DEF DropFlow, Routes, Silent
  <2> QED BY <1>3, <1>5, <2>1 DEF DropFlow
<1>6. CASE UNCHANGED <<binding, flowOf>>
  BY <1>6
<1> QED
  BY <1>1, <1>2, <1>3, <1>4, <1>5, <1>6
  DEF SipNext, sipVars, Disconnect, NonceExpires, Challenge, Pass, ClaimCode, InviteFromApp,
      RegistrationExpires, Revoke, SetSeat, InviteFromTrunk, CheckFlow

(* Unbinding keeps the device; a write of one field of an enrolment keeps    *)
(* the others.                                                              *)
LEMMA UnboundFields ==
  ASSUME NEW b \in Bindings
  PROVE  Unbound(b).device = b.device /\ Unbound(b).contact = NoFlow
BY DEF Unbound, Bindings

(* What a revocation, a seat change and a claim leave of a record.         *)
LEMMA EnrolmentFields ==
  ASSUME NEW e \in Enrolments
  PROVE  /\ [e EXCEPT !.revoked = TRUE].seat = e.seat
         /\ [e EXCEPT !.seat = ~@].revoked = e.revoked
         /\ [e EXCEPT !.seat = ~@].seat = ~e.seat
         /\ [e EXCEPT !.gen = @ + 1, !.revoked = FALSE].seat = e.seat
         /\ [e EXCEPT !.gen = @ + 1, !.revoked = FALSE].revoked = FALSE
BY Zenon DEF Enrolments

(* Deprovisioning a device empties the entries that name it, and no other. *)
LEMMA DeprovisionFields ==
  ASSUME NEW d, NEW u \in SipUsers
  PROVE  IF binding[u].device = d
         THEN Deprovision(d)[u].device = NoDevice /\ Deprovision(d)[u].contact = NoFlow
         ELSE Deprovision(d)[u] = binding[u]
<1>1. Deprovision(d)[u] = IF binding[u].device = d THEN [device |-> NoDevice, contact |-> NoFlow] ELSE binding[u]
  BY DEF Deprovision
<1>2. CASE binding[u].device = d
  <2>1. Deprovision(d)[u] = [device |-> NoDevice, contact |-> NoFlow]
    BY <1>1, <1>2
  <2> QED BY <1>2, <2>1
<1>3. CASE binding[u].device # d
  BY <1>1, <1>3
<1> QED BY <1>2, <1>3

(* Unbinding a user, with nothing else changed, cuts off no less.            *)
LEMMA UnboundCut ==
  ASSUME SipInv, NEW u \in SipUsers, binding' = [binding EXCEPT ![u] = Unbound(@)],
         UNCHANGED <<enrolled, hook, late>>
  PROVE  CutInv'
<1>1. binding \in [SipUsers -> Bindings]
  BY DEF SipInv, SipTypes
<1>2. /\ \A v \in SipUsers \ {u} : binding'[v] = binding[v]
      /\ binding'[u] = Unbound(binding[u])
  BY <1>1
<1>3. binding'[u].device = binding[u].device /\ binding'[u].contact = NoFlow
  BY <1>1, <1>2, UnboundFields
<1>4. CutInv
  BY DEF SipInv
<1>5. \A d \in Devices : UserOf[d] \in SipUsers
  BY RegistrarAssumption
<1>6. \A d \in Devices : /\ binding'[UserOf[d]].device = binding[UserOf[d]].device
                         /\ binding'[UserOf[d]].contact \in {binding[UserOf[d]].contact, NoFlow}
  BY <1>2, <1>3, <1>5
<1>7. enrolled' = enrolled /\ hook' = hook /\ late' = late
  OBVIOUS
<1> HIDE DEF Unbound
<1>8. \A d \in Devices :
        /\ enrolled'[d].revoked /\ ~Cutting("revoke", d)' =>
             binding'[UserOf[d]].device = NoDevice /\ binding'[UserOf[d]].contact = NoFlow
        /\ ~enrolled'[d].seat /\ ~Cutting("seat lost", d)' /\ binding'[UserOf[d]].contact # NoFlow
             => late'[UserOf[d]]
  BY <1>4, <1>6, <1>7 DEF CutInv, Cutting
<1> QED BY <1>4, <1>7, <1>8 DEF CutInv

(* A hook does what the write before it left to do, and a REGISTER that was  *)
(* verified before a seat went marks what it binds after.                    *)
LEMMA CutStep == SipInv /\ [SipNext]_sipVars => CutInv'
<1> SUFFICES ASSUME SipInv, [SipNext]_sipVars PROVE CutInv'
  OBVIOUS
<1>a. CutInv
  BY DEF SipInv
<1>b. /\ binding \in [SipUsers -> Bindings]
      /\ enrolled \in [Devices -> Enrolments]
      /\ late \in [SipUsers -> BOOLEAN]
      /\ hook \in Hooks \cup {NoHook}
      /\ incoming \in Routes \cup {Silent}
  BY DEF SipInv, SipTypes
<1>c. /\ \A d \in Devices : UserOf[d] \in SipUsers
      /\ \A d, e \in Devices : UserOf[d] = UserOf[e] => d = e
      /\ \A p \in Phones : DeviceOf[p] \in Devices
  BY RegistrarAssumption
<1>1. ASSUME NEW p \in Phones, Register(p) PROVE CutInv'
  <2> DEFINE r == request[p]
  <2>1. /\ r.user \in SipUsers /\ r.flow \in Flows
        /\ r.user = UserOf[DeviceOf[p]] /\ r.entitled = TRUE
    BY <1>1, RegisterCases DEF VerifiedRequests, Owned, SipInv
  <2>2. UNCHANGED <<enrolled, hook>>
    BY <1>1 DEF Register
  <2>3. CASE /\ binding[r.user].device # NoDevice
             /\ binding' = [binding EXCEPT ![r.user].contact = r.flow]
             /\ late' = [late EXCEPT ![r.user] = r.entitled /\ ~DigestSecret(DeviceOf[p])]
    <3>1. \A u \in SipUsers \ {r.user} : binding'[u] = binding[u] /\ late'[u] = late[u]
      BY <1>b, <2>3
    <3>2. late'[r.user] = ~DigestSecret(DeviceOf[p])
      BY <1>b, <2>1, <2>3
    <3>3. \A d \in Devices : d # DeviceOf[p] => UserOf[d] # r.user
      BY <1>c, <2>1
    <3>4. ~enrolled[DeviceOf[p]].seat => late'[r.user]
      BY <3>2 DEF DigestSecret
    <3>5. enrolled[DeviceOf[p]].revoked => Cutting("revoke", DeviceOf[p])
      BY <1>a, <1>c, <2>1, <2>3 DEF CutInv
    <3>6. Cutting("revoke", DeviceOf[p])' = Cutting("revoke", DeviceOf[p])
      BY <2>2 DEF Cutting
    <3>7. ASSUME NEW d \in Devices
          PROVE  /\ enrolled'[d].revoked /\ ~Cutting("revoke", d)' =>
                      binding'[UserOf[d]].device = NoDevice /\ binding'[UserOf[d]].contact = NoFlow
                 /\ ~enrolled'[d].seat /\ ~Cutting("seat lost", d)' /\ binding'[UserOf[d]].contact # NoFlow
                      => late'[UserOf[d]]
      <4>1. CASE d = DeviceOf[p]
        BY <2>1, <2>2, <3>4, <3>5, <3>6, <4>1
      <4>2. CASE d # DeviceOf[p]
        <5>1. binding'[UserOf[d]] = binding[UserOf[d]] /\ late'[UserOf[d]] = late[UserOf[d]]
          BY <1>c, <3>1, <3>3, <4>2
        <5> QED BY <1>a, <2>2, <5>1 DEF CutInv, Cutting
      <4> QED BY <4>1, <4>2
    <3> QED BY <1>a, <2>2, <3>7 DEF CutInv
  <2>4. CASE binding' = [binding EXCEPT ![r.user] = Unbound(@)] /\ late' = late
    BY <2>1, <2>2, <2>4, UnboundCut
  <2>5. CASE binding' = binding /\ late' = late
    BY <1>a, <2>2, <2>5 DEF CutInv, Cutting
  <2>6. SipTypes
    BY DEF SipInv
  <2> QED BY <1>1, <2>3, <2>4, <2>5, <2>6, RegisterCases
<1>3. ASSUME NEW d \in Devices, Revoke(d) PROVE CutInv'
  <2>1. hook = NoHook /\ hook' = [kind |-> "revoke", device |-> d]
    BY <1>3 DEF Revoke, AdminStep
  <2>2. enrolled' = [enrolled EXCEPT ![d] = [enrolled[d] EXCEPT !.revoked = TRUE]]
    BY <1>3 DEF Revoke
  <2>3. /\ \A e \in Devices \ {d} : enrolled'[e] = enrolled[e]
        /\ enrolled'[d] = [enrolled[d] EXCEPT !.revoked = TRUE]
    BY <1>b, <2>2
  <2>4. enrolled'[d].seat = enrolled[d].seat
    BY <1>b, <2>3, EnrolmentFields
  <2>5. UNCHANGED <<binding, late>>
    BY <1>3 DEF Revoke
  <2> QED BY <1>a, <1>c, <2>1, <2>3, <2>4, <2>5 DEF CutInv, Cutting, NoHook
<1>4. ASSUME NEW d \in Devices, SetSeat(d) PROVE CutInv'
  <2>1. /\ hook = NoHook
        /\ hook' = [kind |-> IF enrolled[d].seat THEN "seat lost" ELSE "seat gained", device |-> d]
    BY <1>4 DEF SetSeat, AdminStep
  <2>2. enrolled' = [enrolled EXCEPT ![d] = [enrolled[d] EXCEPT !.seat = ~@]]
    BY <1>4 DEF SetSeat
  <2>3. /\ \A e \in Devices \ {d} : enrolled'[e] = enrolled[e]
        /\ enrolled'[d] = [enrolled[d] EXCEPT !.seat = ~@]
    BY <1>b, <2>2
  <2>4. enrolled'[d].seat = ~enrolled[d].seat /\ enrolled'[d].revoked = enrolled[d].revoked
    BY <1>b, <2>3, EnrolmentFields
  <2>5. UNCHANGED <<binding, late>>
    BY <1>4 DEF SetSeat
  <2> QED BY <1>a, <1>c, <2>1, <2>3, <2>4, <2>5 DEF CutInv, Cutting, NoHook
<1>5. ASSUME NEW p \in Phones, ClaimCode(p) PROVE CutInv'
  <2> DEFINE d == DeviceOf[p]
  <2>1. d \in Devices /\ hook = NoHook /\ hook' = [kind |-> "claim", device |-> d]
    BY <1>c, <1>5 DEF ClaimCode, AdminStep
  <2>2. enrolled' = [enrolled EXCEPT ![d] = [enrolled[d] EXCEPT !.gen = @ + 1, !.revoked = FALSE]]
    BY <1>5, <1>b, <2>1 DEF ClaimCode
  <2>3. /\ \A e \in Devices \ {d} : enrolled'[e] = enrolled[e]
        /\ enrolled'[d] = [enrolled[d] EXCEPT !.gen = @ + 1, !.revoked = FALSE]
    BY <1>b, <2>1, <2>2
  <2>4. enrolled'[d].seat = enrolled[d].seat /\ enrolled'[d].revoked = FALSE
    BY <1>b, <2>1, <2>3, EnrolmentFields
  <2>5. UNCHANGED <<binding, late>>
    BY <1>5 DEF ClaimCode
  <2> QED BY <1>a, <1>c, <2>1, <2>3, <2>4, <2>5 DEF CutInv, Cutting, NoHook
<1>6. CASE HookRuns
  <2> DEFINE d == hook.device
  <2>1. d \in Devices /\ UserOf[d] \in SipUsers /\ hook \in Hooks
    BY <1>b, <1>c, <1>6 DEF HookRuns, Hooks
  <2>2. UNCHANGED <<enrolled, late>> /\ hook'.kind = "none"
    BY <1>6 DEF HookRuns, NoHook
  <2>3. \A e \in Devices : e # d => UserOf[e] # UserOf[d]
    BY <1>c, <2>1
  <2>4. CASE hook.kind = "revoke"
    <3>1. binding' = Deprovision(d)
      BY <1>6, <2>4 DEF HookRuns
    <3>2. \A u \in SipUsers : IF binding[u].device = d
                            THEN binding'[u].device = NoDevice /\ binding'[u].contact = NoFlow
                            ELSE binding'[u] = binding[u]
      BY <3>1, DeprovisionFields
    <3>3. \A u \in SipUsers : binding[u].device \in Devices \cup {NoDevice}
      BY <1>b DEF Bindings
    <3>4. binding[UserOf[d]].device # d => binding[UserOf[d]].device = NoDevice /\ binding[UserOf[d]].contact = NoFlow
      BY <1>c, <2>1, <3>3 DEF SipInv, Bound
    <3>6. \A u \in SipUsers : binding'[u] = binding[u]
                           \/ (binding'[u].device = NoDevice /\ binding'[u].contact = NoFlow)
      BY <3>2
    <3>5. binding'[UserOf[d]].device = NoDevice /\ binding'[UserOf[d]].contact = NoFlow
      <4>1. CASE binding[UserOf[d]].device = d
        BY <2>1, <3>2, <4>1
      <4>2. CASE binding[UserOf[d]].device # d
        BY <2>1, <3>2, <3>4, <4>2
      <4> QED BY <4>1, <4>2
    <3> QED BY <1>a, <1>c, <2>1, <2>2, <2>3, <2>4, <3>5, <3>6 DEF CutInv, Cutting
  <2>5. CASE hook.kind = "claim"
    <3>1. binding' = Provision(d)
      BY <1>6, <2>5 DEF HookRuns
    <3>2. /\ \A u \in SipUsers \ {UserOf[d]} : binding'[u] = binding[u]
          /\ binding'[UserOf[d]].contact \in {NoFlow, binding[UserOf[d]].contact}
      BY <1>b, <2>1, <3>1 DEF Provision
    <3>3. ~enrolled[d].revoked
      BY <1>a, <2>5 DEF CutInv
    <3> QED BY <1>a, <1>c, <2>1, <2>2, <2>3, <2>5, <3>2, <3>3 DEF CutInv, Cutting
  <2>6. CASE hook.kind = "seat lost"
    <3>1. binding' = SeatLost(d)
      BY <1>6, <2>6 DEF HookRuns
    <3>2. CASE enrolled[d].revoked
      <4>1. binding' = binding /\ binding[UserOf[d]].contact = NoFlow
        BY <1>a, <2>1, <2>6, <3>1, <3>2 DEF SeatLost, CutInv, Cutting
      <4> QED BY <1>a, <1>c, <2>1, <2>2, <2>3, <2>6, <4>1 DEF CutInv, Cutting
    <3>3. CASE ~enrolled[d].revoked
      <4>1. /\ \A u \in SipUsers \ {UserOf[d]} : binding'[u] = binding[u]
            /\ binding'[UserOf[d]] = Unbound(binding[UserOf[d]])
        BY <1>b, <2>1, <3>1, <3>3 DEF SeatLost
      <4>2. binding'[UserOf[d]].contact = NoFlow
        BY <1>b, <2>1, <4>1, UnboundFields
      <4> QED BY <1>a, <1>c, <2>1, <2>2, <2>3, <2>6, <3>3, <4>1, <4>2 DEF CutInv, Cutting
    <3> QED BY <3>2, <3>3
  <2>7. CASE hook.kind = "seat gained"
    <3>1. binding' = binding
      BY <1>6, <2>7 DEF HookRuns
    <3> QED BY <1>a, <2>1, <2>2, <2>7, <3>1 DEF CutInv, Cutting
  <2> QED BY <2>1, <2>4, <2>5, <2>6, <2>7 DEF Hooks
<1>7. CASE DropFlow
  <2>1. incoming \in Routes
    BY <1>b, <1>7 DEF DropFlow, Silent
  <2>2. incoming.user \in SipUsers
    BY <2>1 DEF Routes
  <2> QED BY <1>7, <2>2, UnboundCut DEF DropFlow
<1>8. ASSUME NEW u \in SipUsers, RegistrationExpires(u) PROVE CutInv'
  BY <1>8, UnboundCut DEF RegistrationExpires
<1>9. CASE UNCHANGED <<enrolled, binding, hook, late>>
  BY <1>a, <1>9 DEF CutInv, Cutting
<1> QED
  BY <1>1, <1>3, <1>4, <1>5, <1>6, <1>7, <1>8, <1>9
  DEF SipNext, sipVars, Connect, Disconnect, NonceExpires, Challenge, Pass, InviteFromApp,
      InviteFromTrunk, CheckFlow

(* A dead connection does not come back: its number is used once.            *)
LEMMA RouteStep == SipInv /\ [SipNext]_sipVars => RouteInv'
<1> SUFFICES ASSUME SipInv, [SipNext]_sipVars PROVE RouteInv'
  OBVIOUS
<1> USE SentinelAssumption DEF SipInv, SipTypes, RouteInv
<1>0. incoming.pc # "idle" => incoming \in Routes
  BY DEF Silent
<1>1. ASSUME NEW p \in Phones, Connect(p) PROVE RouteInv'
  <2>1. PICK f \in Flows :
          flowOf[f] = NoPhone /\ flowOf' = [flowOf EXCEPT ![f] = p] /\ alive' = alive \cup {f}
    BY <1>1 DEF Connect
  <2> QED BY <1>0, <1>1, <2>1 DEF Connect, Routes
<1>2. ASSUME NEW p \in Phones, Disconnect(p) PROVE RouteInv'
  BY <1>2 DEF Disconnect
<1>3. ASSUME NEW to \in SipUsers, Resolve(to), UNCHANGED <<flowOf, alive, wiped>> PROVE RouteInv'
  BY <1>3, ResolveRoute DEF Bound
<1>4. CASE CheckFlow
  BY <1>0, <1>4 DEF CheckFlow, Routes, Silent, flowAlive
<1>5. CASE DropFlow
  BY <1>5 DEF DropFlow, Silent
<1>6. CASE UNCHANGED <<flowOf, alive, incoming, wiped>>
  BY <1>6
<1> QED
  BY <1>1, <1>2, <1>3, <1>4, <1>5, <1>6
  DEF SipNext, sipVars, NonceExpires, Challenge, Pass, Register, ClaimCode, InviteFromApp,
      RegistrationExpires, Revoke, SetSeat, HookRuns, InviteFromTrunk

(* At the start every device is provisioned for its user, and none bound.    *)
LEMMA SipInitInv == SipInit => SipInv
<1> SUFFICES ASSUME SipInit PROVE SipInv
  OBVIOUS
<1> USE RegistrarAssumption DEF SipInit
<1>1. \A u \in SipUsers : /\ binding[u] \in Bindings /\ binding[u].contact = NoFlow
                          /\ binding[u].device # NoDevice => UserOf[binding[u].device] = u
  BY DEF Bindings
<1>2. SipTypes
  <2>1. enrolled \in [Devices -> Enrolments] /\ phone \in [Phones -> PhoneStates]
    BY DEF Enrolments, PhoneStates
  <2>2. binding \in [SipUsers -> Bindings]
    <3>1. \A u \in SipUsers : [device |-> IF \E d \in Devices : UserOf[d] = u
                                          THEN CHOOSE d \in Devices : UserOf[d] = u ELSE NoDevice,
                                contact |-> NoFlow] \in Bindings
      BY DEF Bindings
    <3> QED BY <3>1, Zenon
  <2>3. /\ flowOf \in [Flows -> Phones \cup {NoPhone}]
        /\ request \in [Phones -> VerifiedRequests \cup {Silent}]
        /\ late \in [SipUsers -> BOOLEAN]
    OBVIOUS
  <2> QED BY <2>1, <2>2, <2>3 DEF SipTypes
<1>3. Owned /\ Bound /\ CutInv /\ RouteInv
  BY <1>1 DEF Owned, Bound, CutInv, RouteInv, Silent, Cutting, NoHook
<1> QED BY <1>2, <1>3 DEF SipInv

(* The registrar's invariant holds of every run.                           *)
LEMMA SipInductive == SipSpec => []SipInv
<1>1. SipInv /\ [SipNext]_sipVars => SipInv'
  BY SipTypesStep, OwnedStep, BoundStep, CutStep, RouteStep DEF SipInv
<1> QED BY <1>1, SipInitInv, PTL DEF SipSpec

(* However phones, admin writes and their hooks interleave, a user's calls   *)
(* go to a phone of the user's own device or nowhere: a revoked device is    *)
(* gone from the registry once its hook has run, and one that lost its seat  *)
(* is bound only by a REGISTER that was verified before.                     *)
THEOREM SipBindingSound == SipSpec => []BindingSound
<1>1. SipInv => BindingSound
  <2> SUFFICES ASSUME SipInv PROVE BindingSound
    OBVIOUS
  <2> USE RegistrarAssumption DEF SipInv, SipTypes, Bindings
  <2>1. SipTypeOK
    BY DEF SipTypeOK
  <2>2. NoHijack
    BY DEF NoHijack, Bound
  <2>3. CutOff
    BY DEF CutOff, CutInv, Cutting, NoHook
  <2> QED BY <2>1, <2>2, <2>3 DEF BindingSound
<1> QED BY <1>1, SipInductive, PTL

(* Routing a call never drops a registration on a connection that is alive:  *)
(* what CheckFlow found dead is dead when DropFlow unregisters it.           *)
THEOREM SipLiveFlowKept == SipSpec => []LiveFlowKept
<1>1. SipInv => LiveFlowKept
  BY DEF SipInv, RouteInv, LiveFlowKept
<1> QED BY <1>1, SipInductive, PTL

-----------------------------------------------------------------------------
(* A line on the PBX.                                                      *)

(* One loop: a deadline and the watcher's token belong to a wait, the      *)
(* scatters are taken with StartSpread only, and without it a credential   *)
(* the loop has not read is signalled or about to be read.                 *)
SoundLoop(s, l) ==
  /\ l \in LoopState
  /\ l.until => l.pc \in Waits
  /\ l.late => l.pc \in Waits
  /\ l.pc \in {"startSpread", "spread"} => s
  /\ s \/ l.sent = l.cur \/ l.wake \/ l.pc = "snap"

LineRest ==
  /\ spread \in BOOLEAN
  /\ manager \in {"new", "started", "stopping", "stopped"}
  /\ active \in 0..MaxLines /\ used \in 0..MaxLines /\ active <= used
  /\ un \in [Objects -> UnState]
  /\ cached \in {0} \cup Requests
  /\ reqs \in [Requests -> Request]
  /\ wire \in Seq(Message)
  /\ bound \subseteq DNs

Loops == ln \in [Objects -> LoopState] /\ \A i \in Objects : SoundLoop(spread, ln[i])

(* No loop runs before Start.                                              *)
NotYet == manager = "new" => \A i \in Objects : ln[i].pc = "idle"

LineInv == LineRest /\ Loops /\ NotYet

(* The placeholder credential is a credential.                             *)
LEMMA NoneIsLine == None \in Line
<1>1. (CHOOSE d \in DNs : TRUE) \in DNs /\ (CHOOSE s \in Secrets : TRUE) \in Secrets
  BY LineAssumption
<1> QED BY <1>1 DEF None, Line

(* A new line object is sound and its loop is not running.                 *)
LEMMA NewLineSound ==
  ASSUME NEW s \in BOOLEAN, NEW l \in Line
  PROVE  SoundLoop(s, NewLine(l)) /\ NewLine(l).pc = "idle"
BY DEF SoundLoop, NewLine, LoopState, Waits

(* startLocked leaves a sound loop.                                        *)
LEMMA StartedSound ==
  ASSUME NEW l, SoundLoop(spread, l), l.pc = "idle", spread \in BOOLEAN
  PROVE  SoundLoop(spread, Started(l))
<1>1. Started(l) = [l EXCEPT !.pc = First, !.until = spread] /\ First \in {"startSpread", "snap"}
      /\ (First = "startSpread" <=> spread) /\ (First = "snap" <=> ~spread)
  BY DEF Started, First
<1> QED BY <1>1 DEF SoundLoop, LoopState, Waits

(* Put on a line that exists leaves a sound loop, where it was.            *)
LEMMA ReplacedSound ==
  ASSUME NEW s \in BOOLEAN, NEW l, SoundLoop(s, l), NEW new \in Line
  PROVE  SoundLoop(s, Replaced(l, new)) /\ Replaced(l, new).pc = l.pc
         /\ Replaced(l, new).ended = l.ended
BY DEF SoundLoop, LoopState, Replaced

(* A step of one loop.                                                     *)
LEMMA OneLoop ==
  ASSUME LineInv, NEW i \in Objects, NEW r, ln' = [ln EXCEPT ![i] = r],
         SoundLoop(spread, r), UNCHANGED spread, LineRest',
         manager' = "new" => manager = "new" /\ r.pc = "idle"
  PROVE  LineInv'
<1>1. ln \in [Objects -> LoopState] /\ \A j \in Objects : SoundLoop(spread, ln[j])
  BY DEF LineInv, Loops
<1>2. r \in LoopState
  BY DEF SoundLoop
<1>3. ln' \in [Objects -> LoopState] /\ \A j \in Objects : ln'[j] = IF j = i THEN r ELSE ln[j]
  BY <1>1, <1>2
<1>4. Loops'
  BY <1>1, <1>3 DEF Loops
<1>5. NotYet'
  BY <1>3 DEF NotYet, LineInv
<1> QED BY <1>4, <1>5 DEF LineInv

(* The invariant of a line holds before the first Put.                     *)
LEMMA LineInit == Init => LineInv
<1> SUFFICES ASSUME Init PROVE LineInv
  OBVIOUS
<1>1. None \in Line /\ None.dn \in DNs
  BY NoneIsLine DEF Line
<1>2. spread \in BOOLEAN
  BY LineAssumption DEF Init
<1>3. SoundLoop(spread, NewLine(None)) /\ NewLine(None).pc = "idle" /\ NewLine(None) \in LoopState
  BY <1>1, <1>2, NewLineSound DEF SoundLoop
<1>4. Loops /\ NotYet
  BY <1>3 DEF Init, Loops, NotYet
<1>5. un \in [Objects -> UnState]
  BY <1>1 DEF Init, UnState
<1>6. reqs \in [Requests -> Request]
  BY <1>1 DEF Init, Request
<1>7. active = 0 /\ used = 0 /\ cached = 0 /\ manager = "new" /\ wire = <<>> /\ bound = {}
  BY DEF Init
<1>8. active \in 0..MaxLines /\ used \in 0..MaxLines /\ active <= used
  BY <1>7, LineAssumption
<1> QED BY <1>2, <1>4, <1>5, <1>6, <1>7, <1>8 DEF LineInv, LineRest

(* Start, Put, Delete, Stop and the clock watcher keep the invariant.      *)
LEMMA ManagerKeeps ==
  ASSUME LineInv, Start \/ (\E l \in Line : Put(l)) \/ Delete \/ Stop \/ Stopped \/ flagIfOverdue
  PROVE  LineInv'
<1>t. LineRest /\ Loops /\ NotYet /\ spread \in BOOLEAN /\ spread' = spread
  BY DEF LineInv, LineRest, Start, Put, Delete, Stop, Stopped, flagIfOverdue
<1>o. MaxLines \in Nat /\ Objects = 1..MaxLines /\ active \in 0..MaxLines
      /\ (active # 0 => active \in Objects)
  BY <1>t, LineAssumption DEF LineRest, Objects
<1>l. \A i \in Objects : ln[i] \in LoopState /\ SoundLoop(spread, ln[i])
  BY <1>t DEF Loops
<1>1. CASE Start
  <2>1. \A i \in Objects : ln[i].pc = "idle"
    BY <1>1, <1>t DEF Start, NotYet
  <2>2. \A i \in Objects : ln'[i] = IF i = active THEN Started(ln[i]) ELSE ln[i]
    BY <1>1 DEF Start
  <2>3. \A i \in Objects : SoundLoop(spread, ln'[i])
    BY <1>t, <1>l, <2>1, <2>2, StartedSound
  <2>4. \A i \in Objects : ln'[i] \in LoopState
    BY <2>3 DEF SoundLoop
  <2>5. ln' \in [Objects -> LoopState]
    BY <1>1, <2>2, <2>4 DEF Start
  <2>6. Loops'
    BY <1>t, <2>3, <2>5 DEF Loops
  <2>7. LineRest' /\ NotYet'
    BY <1>1, <1>t DEF Start, LineRest, NotYet
  <2> QED BY <2>6, <2>7 DEF LineInv
<1>2. ASSUME NEW l \in Line, Put(l) PROVE LineInv'
  <2>1. CASE active # 0
    <3>1. /\ ln' = [ln EXCEPT ![active] = Replaced(ln[active], l)]
          /\ UNCHANGED <<active, used, spread, manager, un, cached, reqs, wire, bound>>
      BY <1>2, <2>1 DEF Put
    <3>2. LineRest'
      BY <1>t, <3>1 DEF LineRest
    <3>3. SoundLoop(spread, Replaced(ln[active], l)) /\ Replaced(ln[active], l).pc = ln[active].pc
      BY <1>t, <1>o, <1>l, <2>1, ReplacedSound
    <3> QED BY <1>t, <1>o, <2>1, <3>1, <3>2, <3>3, OneLoop DEF NotYet
  <2>2. CASE active = 0
    <3> DEFINE r == IF manager = "started" THEN Started(NewLine(l)) ELSE NewLine(l)
    <3>1. /\ used < MaxLines /\ used' = used + 1 /\ active' = used + 1
          /\ ln' = [ln EXCEPT ![used + 1] = r]
          /\ UNCHANGED <<spread, manager, un, cached, reqs, wire, bound>>
      BY <1>2, <2>2 DEF Put
    <3>2. SoundLoop(spread, r) /\ (manager = "new" => r.pc = "idle")
      BY <1>t, NewLineSound, StartedSound
    <3>3. used + 1 \in Objects /\ used + 1 \in 0..MaxLines /\ used + 1 <= used + 1
      BY <1>t, <1>o, <3>1 DEF LineRest
    <3>4. LineRest'
      BY <1>t, <3>1, <3>3 DEF LineRest
    <3> HIDE DEF r
    <3> QED BY <1>t, <3>1, <3>2, <3>3, <3>4, OneLoop
  <2> QED BY <2>1, <2>2
<1>e. ASSUME NEW i \in Objects
      PROVE  LET r == [ln[i] EXCEPT !.ended = TRUE] IN
             SoundLoop(spread, r) /\ r.pc = ln[i].pc
  BY <1>l DEF SoundLoop, LoopState
<1>3. CASE Delete
  <2> DEFINE r == [ln[active] EXCEPT !.ended = TRUE]
  <2>1. /\ active # 0 /\ active \in Objects /\ active' = 0 /\ ln' = [ln EXCEPT ![active] = r]
        /\ un' = IF manager = "started" THEN [un EXCEPT ![active] = Unregistering(active)] ELSE un
        /\ UNCHANGED <<spread, manager, used, cached, reqs, wire, bound>>
    BY <1>3, <1>o DEF Delete
  <2>2. SoundLoop(spread, r) /\ r.pc = ln[active].pc
    BY <1>e, <2>1
  <2>3. Unregistering(active) \in UnState
    <3>1. un[active] \in UnState /\ ln[active].cur \in Line
      BY <1>t, <1>l, <2>1 DEF LineRest, LoopState
    <3> QED BY <3>1 DEF Unregistering, UnState
  <2>4. un' \in [Objects -> UnState] /\ 0 \in 0..MaxLines /\ 0 <= used
    BY <1>t, <1>o, <2>1, <2>3 DEF LineRest
  <2>5. LineRest'
    BY <1>t, <2>1, <2>4 DEF LineRest
  <2> HIDE DEF r
  <2> QED BY <1>t, <2>1, <2>2, <2>5, OneLoop DEF NotYet
<1>4. CASE Stop
  <2>1. /\ manager' = "stopping"
        /\ un' = IF active = 0 THEN un
                 ELSE [un EXCEPT ![active].pc = "stop", ![active].line = ln[active].cur]
        /\ UNCHANGED <<spread, active, used, cached, reqs, wire, bound>>
    BY <1>4 DEF Stop
  <2>2. \A i \in Objects : ln'[i] = IF i = active THEN [ln[i] EXCEPT !.ended = TRUE] ELSE ln[i]
    BY <1>4 DEF Stop
  <2>3. \A i \in Objects : SoundLoop(spread, ln'[i])
    BY <1>l, <1>e, <2>2
  <2>4. ln' \in [Objects -> LoopState]
    BY <1>4, <2>2, <2>3 DEF Stop, SoundLoop
  <2>5. un' \in [Objects -> UnState]
    <3>1. CASE active = 0
      BY <1>t, <2>1, <3>1 DEF LineRest
    <3>2. CASE active # 0
      <4> DEFINE u == [un[active] EXCEPT !.pc = "stop", !.line = ln[active].cur]
      <4>1. active \in Objects /\ un[active] \in UnState /\ ln[active].cur \in Line
            /\ un \in [Objects -> UnState]
        BY <1>t, <1>o, <1>l, <3>2 DEF LineRest, LoopState
      <4>2. u \in UnState
        BY <4>1 DEF UnState
      <4>3. un' = [un EXCEPT ![active] = u]
        BY <2>1, <3>2, <4>1
      <4> HIDE DEF u
      <4> QED BY <4>1, <4>2, <4>3
    <3> QED BY <3>1, <3>2
  <2>6. LineRest' /\ NotYet'
    BY <1>t, <2>1, <2>5 DEF LineRest, NotYet
  <2> QED BY <1>t, <2>3, <2>4, <2>6 DEF LineInv, Loops
<1>5. CASE Stopped
  <2>1. /\ manager' = "stopped" /\ UNCHANGED <<spread, active, used, ln, cached, reqs, wire, bound>>
        /\ un' = [i \in Objects |-> IF un[i].pc = "stop" THEN [un[i] EXCEPT !.pc = "prep"] ELSE un[i]]
    BY <1>5 DEF Stopped
  <2>2. un' \in [Objects -> UnState]
    BY <1>t, <2>1 DEF LineRest, UnState
  <2> QED BY <1>t, <2>1, <2>2 DEF LineInv, LineRest, Loops, NotYet
<1>6. CASE flagIfOverdue
  <2> DEFINE r == [ln[active] EXCEPT !.until = FALSE, !.late = TRUE]
  <2>1. /\ active \in Objects /\ ln[active].until /\ ln' = [ln EXCEPT ![active] = r]
        /\ manager = "started"
        /\ UNCHANGED <<spread, manager, active, used, un, cached, reqs, wire, bound>>
    BY <1>6, <1>o DEF flagIfOverdue
  <2>2. SoundLoop(spread, r)
    BY <1>l, <2>1 DEF SoundLoop, LoopState
  <2>3. LineRest'
    BY <1>t, <2>1 DEF LineRest
  <2> HIDE DEF r
  <2> QED BY <2>1, <2>2, <2>3, OneLoop
<1> QED BY <1>1, <1>2, <1>3, <1>4, <1>5, <1>6

(* The request the two callers share keeps its type.                       *)
LEMMA PreparedTyped ==
  ASSUME LineRest, NEW l \in Line, NEW keep \in BOOLEAN, NEW r \in Requests, Prepared(l, keep, r)
  PROVE  /\ cached' = r /\ reqs' \in [Requests -> Request] /\ reqs'[r].keep = keep
         /\ \A q \in Requests \ {r} : reqs'[q] = reqs[q]
<1>t. cached \in {0} \cup Requests /\ reqs \in [Requests -> Request] /\ l.dn \in DNs
  BY DEF LineRest, Line
<1>1. CASE cached # 0
  <2> DEFINE x == [reqs[r] EXCEPT !.keep = keep]
  <2>1. x \in Request /\ x.keep = keep
    BY <1>t DEF Request
  <2>2. r = cached /\ cached' = cached /\ reqs' = [reqs EXCEPT ![r] = x]
    BY <1>1 DEF Prepared
  <2> HIDE DEF x
  <2> QED BY <1>t, <2>1, <2>2
<1>2. CASE cached = 0
  <2> DEFINE x == [dn |-> l.dn, keep |-> keep, made |-> TRUE]
  <2>1. x \in Request /\ x.keep = keep
    BY <1>t DEF Request
  <2>2. cached' = r /\ reqs' = [reqs EXCEPT ![r] = x]
    BY <1>2 DEF Prepared
  <2> HIDE DEF x
  <2> QED BY <1>t, <2>1, <2>2
<1> QED BY <1>1, <1>2

(* What is put on the wire is a message.                                   *)
LEMMA SentTyped ==
  ASSUME LineRest, NEW by \in Callers, NEW i \in Objects, NEW r \in Requests, Sent(by, i, r)
  PROVE  wire' \in Seq(Message)
<1>1. [by |-> by, obj |-> i, dn |-> reqs[r].dn, keep |-> reqs[r].keep] \in Message
  BY DEF LineRest, Request, Message
<1> QED BY <1>1 DEF Sent, LineRest

(* What is sent is a request that was prepared.                            *)
Sending ==
  \A i \in Objects : /\ ln[i].pc = "send" => ln[i].req \in Requests
                     /\ un[i].pc = "send" => un[i].req \in Requests

(* Every step of a line's loop keeps the invariant.                        *)
LEMMA LoopKeeps ==
  ASSUME LineInv, Sending, NEW i \in Objects, Loop(i)
  PROVE  LineInv'
<1>t. LineRest /\ Loops /\ NotYet /\ spread \in BOOLEAN
  BY DEF LineInv, LineRest
<1>l. ln[i] \in LoopState /\ SoundLoop(spread, ln[i]) /\ spread' = spread /\ manager' = manager
  BY <1>t DEF Loops, Loop, StartSpreadEnds, Snapshot, SpreadEnds, Prepare, Send, Outcome, WaitEnds,
              Unpark, Return
<1>n. manager # "new"
  <2>1. ln[i].pc # "idle"
    BY DEF Loop, StartSpreadEnds, Snapshot, SpreadEnds, Prepare, Send, Outcome, WaitEnds, Unpark,
           Return, Waits
  <2> QED BY <1>t, <2>1 DEF NotYet
<1>q. ASSUME UNCHANGED <<spread, manager, active, used, un, cached, reqs, wire, bound>>,
             NEW r, ln' = [ln EXCEPT ![i] = r], SoundLoop(spread, r)
      PROVE  LineInv'
  <2>1. LineRest'
    BY <1>t, <1>q DEF LineRest
  <2> QED BY <1>q, <1>l, <1>n, <2>1, OneLoop
<1>1. CASE StartSpreadEnds(i)
  <2>1. PICK woken \in {FALSE, ln[i].wake} :
          ln' = [ln EXCEPT ![i] = [ln[i] EXCEPT !.pc = "snap", !.until = FALSE, !.late = FALSE,
                                                !.wake = ln[i].wake /\ ~woken]]
    BY <1>1, <1>t, <1>l DEF StartSpreadEnds, Loops, LoopState
  <2> DEFINE r == [ln[i] EXCEPT !.pc = "snap", !.until = FALSE, !.late = FALSE,
                                !.wake = ln[i].wake /\ ~woken]
  <2>2. SoundLoop(spread, r)
    BY <1>l DEF SoundLoop, LoopState
  <2>3. UNCHANGED <<spread, manager, active, used, un, cached, reqs, wire, bound>>
    BY <1>1 DEF StartSpreadEnds
  <2> QED BY <1>q, <2>1, <2>2, <2>3
<1>2. CASE Snapshot(i)
  <2> DEFINE scatter == ln[i].overdue /\ spread
             r == [ln[i] EXCEPT !.sent = ln[i].cur, !.news = FALSE, !.until = scatter,
                                !.pc = IF scatter THEN "spread" ELSE "prep"]
  <2>1. ln' = [ln EXCEPT ![i] = r]
    BY <1>2, <1>t, <1>l DEF Snapshot, Loops, LoopState
  <2>2. SoundLoop(spread, r)
    <3>1. scatter \in BOOLEAN /\ (scatter => spread)
      BY <1>l DEF LoopState
    <3> HIDE DEF scatter
    <3>2. CASE scatter
      BY <1>l, <3>1, <3>2 DEF SoundLoop, LoopState, Waits
    <3>3. CASE ~scatter
      <4>1. ~ln[i].late
        BY <1>2, <1>l DEF Snapshot, SoundLoop, Waits
      <4> QED BY <1>l, <3>1, <3>3, <4>1 DEF SoundLoop, LoopState, Waits
    <3> QED BY <3>2, <3>3
  <2>3. UNCHANGED <<spread, manager, active, used, un, cached, reqs, wire, bound>>
    BY <1>2 DEF Snapshot
  <2> HIDE DEF r
  <2> QED BY <1>q, <2>1, <2>2, <2>3
<1>3. CASE SpreadEnds(i)
  <2>1. PICK woken \in {FALSE, ln[i].wake} :
          ln' = [ln EXCEPT ![i] = [ln[i] EXCEPT !.pc = "prep", !.until = FALSE, !.late = FALSE,
                                                !.wake = ln[i].wake /\ ~woken]]
    BY <1>3, <1>t, <1>l DEF SpreadEnds, Loops, LoopState
  <2> DEFINE r == [ln[i] EXCEPT !.pc = "prep", !.until = FALSE, !.late = FALSE,
                                !.wake = ln[i].wake /\ ~woken]
  <2>2. SoundLoop(spread, r)
    <3>1. spread
      BY <1>3, <1>l DEF SpreadEnds, SoundLoop
    <3> QED BY <1>l, <3>1 DEF SoundLoop, LoopState
  <2>3. UNCHANGED <<spread, manager, active, used, un, cached, reqs, wire, bound>>
    BY <1>3 DEF SpreadEnds
  <2> QED BY <1>q, <2>1, <2>2, <2>3
<1>4. CASE Prepare(i)
  <2>1. PICK q \in Requests : /\ Prepared(ln[i].sent, TRUE, q)
                              /\ ln' = [ln EXCEPT ![i] = [ln[i] EXCEPT !.pc = "send", !.req = q]]
    BY <1>4, <1>t, <1>l DEF Prepare, Loops, LoopState
  <2> DEFINE r == [ln[i] EXCEPT !.pc = "send", !.req = q]
  <2>2. SoundLoop(spread, r)
    BY <1>4, <1>l DEF Prepare, SoundLoop, LoopState, Waits
  <2>3. UNCHANGED <<spread, manager, active, used, un, wire, bound>>
    BY <1>4 DEF Prepare
  <2>4. ln[i].sent \in Line
    BY <1>l DEF LoopState
  <2>5. cached' = q /\ reqs' \in [Requests -> Request]
    BY <1>t, <2>1, <2>4, PreparedTyped
  <2>6. LineRest'
    BY <1>t, <2>3, <2>5 DEF LineRest
  <2> QED BY <1>l, <1>n, <2>1, <2>2, <2>6, OneLoop
<1>5. CASE Send(i)
  <2> DEFINE r == [ln[i] EXCEPT !.pc = "answer", !.answer = "none"]
  <2>1. ln' = [ln EXCEPT ![i] = r]
    BY <1>5, <1>t, <1>l DEF Send, Loops, LoopState
  <2>2. SoundLoop(spread, r)
    BY <1>5, <1>l DEF Send, SoundLoop, LoopState, Waits
  <2>3. UNCHANGED <<spread, manager, active, used, un, cached, reqs, bound>>
    BY <1>5 DEF Send
  <2>4. wire' \in Seq(Message)
    BY <1>5, <1>t, SentTyped DEF Send, Sending, Callers
  <2>5. LineRest'
    BY <1>t, <2>3, <2>4 DEF LineRest
  <2> HIDE DEF r
  <2> QED BY <1>l, <1>n, <2>1, <2>2, <2>5, OneLoop
<1>6. CASE Outcome(i)
  <2> DEFINE a == ln[i].answer
             r == [ln[i] EXCEPT !.status = Published(a), !.pc = IF a = "refused" THEN "parked" ELSE "wait",
                                !.until = (a # "refused"), !.answer = "none", !.req = 0]
  <2>1. ln' = [ln EXCEPT ![i] = r]
    BY <1>6, <1>t, <1>l DEF Outcome, Loops, LoopState
  <2>2. SoundLoop(spread, r)
    <3>1. Published(a) \in {"registered", "refused", "retrying"} /\ a \in {"ok", "refused", "failed"}
      BY <1>6, <1>l DEF Outcome, Published, LoopState
    <3> HIDE DEF a
    <3>2. CASE a = "refused"
      BY <1>6, <1>l, <3>1, <3>2 DEF Outcome, SoundLoop, LoopState, Waits
    <3>3. CASE a # "refused"
      BY <1>6, <1>l, <3>1, <3>3 DEF Outcome, SoundLoop, LoopState, Waits
    <3> QED BY <3>2, <3>3
  <2>3. UNCHANGED <<spread, manager, active, used, un, cached, reqs, wire, bound>>
    BY <1>6 DEF Outcome
  <2> HIDE DEF r
  <2> QED BY <1>q, <2>1, <2>2, <2>3
<1>7. ASSUME NEW why \in {"timer", "wake", "late"}, WaitEnds(i, why) PROVE LineInv'
  <2> DEFINE r == [ln[i] EXCEPT !.pc = "snap", !.until = FALSE, !.late = FALSE,
                                !.wake = ln[i].wake /\ why # "wake", !.overdue = (why = "late")]
  <2>1. ln' = [ln EXCEPT ![i] = r]
    BY <1>7, <1>t, <1>l DEF WaitEnds, Loops, LoopState
  <2>2. SoundLoop(spread, r)
    BY <1>l DEF SoundLoop, LoopState
  <2>3. UNCHANGED <<spread, manager, active, used, un, cached, reqs, wire, bound>>
    BY <1>7 DEF WaitEnds
  <2> HIDE DEF r
  <2> QED BY <1>q, <2>1, <2>2, <2>3
<1>8. CASE Unpark(i)
  <2> DEFINE r == [ln[i] EXCEPT !.pc = "snap", !.wake = FALSE]
  <2>1. ln' = [ln EXCEPT ![i] = r]
    BY <1>8, <1>t, <1>l DEF Unpark, Loops, LoopState
  <2>2. SoundLoop(spread, r)
    BY <1>8, <1>l DEF Unpark, SoundLoop, LoopState, Waits
  <2>3. UNCHANGED <<spread, manager, active, used, un, cached, reqs, wire, bound>>
    BY <1>8 DEF Unpark
  <2> HIDE DEF r
  <2> QED BY <1>q, <2>1, <2>2, <2>3
<1>9. CASE Return(i)
  <2> DEFINE r == [NewLine(None) EXCEPT !.pc = "done", !.ended = TRUE]
  <2>1. ln' = [ln EXCEPT ![i] = r]
    BY <1>9 DEF Return
  <2>2. SoundLoop(spread, r)
    <3>1. None \in Line
      BY NoneIsLine
    <3> QED BY <3>1 DEF SoundLoop, NewLine, LoopState, Waits
  <2>3. UNCHANGED <<spread, manager, active, used, un, cached, reqs, wire, bound>>
    BY <1>9 DEF Return
  <2> HIDE DEF r
  <2> QED BY <1>q, <2>1, <2>2, <2>3
<1> QED BY <1>1, <1>2, <1>3, <1>4, <1>5, <1>6, <1>7, <1>8, <1>9 DEF Loop

(* Every step of an unregister keeps the invariant.                        *)
LEMMA UnregisterKeeps ==
  ASSUME LineInv, Sending, NEW i \in Objects, Unregister(i)
  PROVE  LineInv'
<1>t. LineRest /\ Loops /\ NotYet /\ un[i] \in UnState /\ un \in [Objects -> UnState]
  BY DEF LineInv, LineRest
<1>u. UNCHANGED <<spread, manager, active, used, ln, bound>>
  BY DEF Unregister, UnPrepare, UnSend, UnForget
<1>1. CASE UnPrepare(i)
  <2>1. PICK q \in Requests : /\ Prepared(un[i].line, FALSE, q)
                              /\ un' = [un EXCEPT ![i] = [un[i] EXCEPT !.pc = "send", !.req = q]]
    BY <1>1, <1>t DEF UnPrepare, UnState
  <2>2. [un[i] EXCEPT !.pc = "send", !.req = q] \in UnState /\ un[i].line \in Line
    BY <1>t DEF UnState
  <2>3. un' \in [Objects -> UnState]
    BY <1>t, <2>1, <2>2
  <2>4. cached' = q /\ reqs' \in [Requests -> Request] /\ UNCHANGED wire
    BY <1>t, <1>1, <2>1, <2>2, PreparedTyped DEF UnPrepare
  <2> QED BY <1>t, <1>u, <2>3, <2>4 DEF LineInv, LineRest, Loops, NotYet
<1>2. CASE UnSend(i)
  <2>1. un' = [un EXCEPT ![i] = [un[i] EXCEPT !.pc = "answer"]] /\ UNCHANGED <<cached, reqs>>
    BY <1>2, <1>t DEF UnSend, UnState
  <2>2. [un[i] EXCEPT !.pc = "answer"] \in UnState
    BY <1>t DEF UnState
  <2>3. un' \in [Objects -> UnState]
    BY <1>t, <2>1, <2>2
  <2>4. wire' \in Seq(Message)
    BY <1>2, <1>t, SentTyped DEF UnSend, Sending, Callers
  <2> QED BY <1>t, <1>u, <2>1, <2>3, <2>4 DEF LineInv, LineRest, Loops, NotYet
<1>3. CASE UnForget(i)
  <2>1. cached' = 0 /\ un' = [un EXCEPT ![i] = [pc |-> "done", line |-> None, req |-> 0]]
        /\ UNCHANGED <<reqs, wire>>
    BY <1>3 DEF UnForget
  <2>2. [pc |-> "done", line |-> None, req |-> 0] \in UnState
    BY NoneIsLine DEF UnState
  <2>3. un' \in [Objects -> UnState]
    BY <1>t, <2>1, <2>2
  <2> QED BY <1>t, <1>u, <2>1, <2>3 DEF LineInv, LineRest, Loops, NotYet
<1> QED BY <1>1, <1>2, <1>3 DEF Unregister

(* The exchange's answers keep the invariant.                              *)
LEMMA ExchangeKeeps ==
  ASSUME LineInv, NEW outcome \in {"ok", "refused", "failed"}, Exchange(outcome)
  PROVE  LineInv'
<1>t. LineRest /\ Loops /\ NotYet
  BY DEF LineInv
<1> DEFINE m == Head(wire)
<1>1. m \in Message /\ wire' \in Seq(Message)
  BY <1>t DEF Exchange, LineRest
<1>2. m.obj \in Objects /\ m.dn \in DNs
  BY <1>1 DEF Message
<1>u. UNCHANGED <<spread, manager, active, used, cached, reqs>>
  BY DEF Exchange
<1>3. bound' \subseteq DNs
  <2>1. bound' \in {bound, bound \cup {m.dn}, bound \ {m.dn}}
    BY DEF Exchange
  <2> HIDE DEF m
  <2> QED BY <1>t, <1>2, <2>1 DEF LineRest
<1>4. un' \in [Objects -> UnState]
  <2>1. un' = un \/ un' = [un EXCEPT ![m.obj].pc = "forget"]
    BY DEF Exchange
  <2> HIDE DEF m
  <2> QED BY <1>t, <1>2, <2>1 DEF LineRest, UnState
<1>5. LineRest'
  BY <1>t, <1>1, <1>3, <1>4, <1>u DEF LineRest
<1>6. CASE ln' = ln
  BY <1>t, <1>5, <1>6, <1>u DEF LineInv, Loops, NotYet
<1>7. CASE ln' # ln
  <2> DEFINE r == [ln[m.obj] EXCEPT !.answer = outcome]
  <2>1. ln' = [ln EXCEPT ![m.obj].answer = outcome] /\ ln[m.obj].pc = "answer"
    BY <1>7 DEF Exchange
  <2> HIDE DEF m
  <2>2. ln' = [ln EXCEPT ![m.obj] = r] /\ ln[m.obj] \in LoopState
    BY <1>2, <1>t, <2>1 DEF Loops, LoopState
  <2>3. SoundLoop(spread, r)
    BY <1>2, <1>t, <2>2 DEF Loops, SoundLoop, LoopState
  <2>4. manager # "new"
    BY <1>2, <1>t, <2>1 DEF NotYet
  <2> HIDE DEF r
  <2> QED BY <1>2, <1>5, <1>u, <2>2, <2>3, <2>4, OneLoop
<1> QED BY <1>6, <1>7

(* Nobody is sending at first.                                             *)
LEMMA SendingInit == Init => Sending
<1> SUFFICES ASSUME Init, NEW i \in Objects PROVE ln[i].pc = "idle" /\ un[i].pc = "none"
  BY DEF Sending
<1>1. ln[i] = NewLine(None) /\ un[i] = [pc |-> "none", line |-> None, req |-> 0]
  BY DEF Init
<1> QED BY <1>1 DEF NewLine

(* Whoever comes to send has just prepared, or is where it was.            *)
LEMMA SendingKept ==
  ASSUME LineInv, Sending,
         \A i \in Objects :
           /\ ln'[i].pc = "send" => ln'[i].req \in Requests \/ ln'[i] = ln[i]
                                    \/ (ln[i].pc = "send" /\ ln'[i].req = ln[i].req)
           /\ un'[i].pc = "send" => un'[i].req \in Requests \/ un'[i] = un[i]
  PROVE  Sending'
BY DEF Sending

(* Only Prepare and UnPrepare lead to a send, and both set the request.    *)
LEMMA SendingNext ==
  ASSUME LineInv, Sending, Next
  PROVE  Sending'
<1>t. LineRest /\ Loops /\ NotYet /\ Requests' = Requests
      /\ ln \in [Objects -> LoopState] /\ un \in [Objects -> UnState]
  BY DEF LineInv, LineRest, Loops
<1>o. active # 0 => active \in Objects
  BY <1>t, LineAssumption DEF LineRest, Objects
<1>l. \A i \in Objects : ln[i] \in LoopState /\ un[i] \in UnState
  BY <1>t
<1>1. CASE Start
  <2>1. \A i \in Objects : ln'[i] = ln[i] \/ ln'[i] = Started(ln[i])
    BY <1>1 DEF Start
  <2>2. \A i \in Objects : Started(ln[i]).pc # "send"
    BY <1>l DEF Started, First, LoopState
  <2> QED BY <1>1, <2>1, <2>2 DEF Start, Sending
<1>2. ASSUME NEW l \in Line, Put(l) PROVE Sending'
  <2>1. un' = un
    BY <1>2 DEF Put
  <2>2. CASE active # 0
    <3>1. \A i \in Objects : ln'[i] = ln[i] \/ ln'[i] = Replaced(ln[i], l)
      BY <1>2, <1>t, <1>o, <2>2 DEF Put
    <3>2. \A i \in Objects : Replaced(ln[i], l).pc = ln[i].pc /\ Replaced(ln[i], l).req = ln[i].req
      BY <1>l DEF Replaced, LoopState
    <3> QED BY <2>1, <3>1, <3>2 DEF Sending
  <2>3. CASE active = 0
    <3>1. used + 1 \in Objects
      BY <1>2, <1>t, <2>3, LineAssumption DEF Put, LineRest, Objects
    <3>2. \A i \in Objects : ln'[i] = ln[i] \/ ln'[i] = NewLine(l) \/ ln'[i] = Started(NewLine(l))
      BY <1>2, <1>t, <2>3, <3>1 DEF Put
    <3>3. NewLine(l).pc = "idle" /\ Started(NewLine(l)).pc # "send"
      BY DEF NewLine, Started, First
    <3> QED BY <2>1, <3>2, <3>3 DEF Sending
  <2> QED BY <2>2, <2>3
<1>3. CASE Delete
  <2>1. \A i \in Objects : ln'[i] = ln[i] \/ ln'[i] = [ln[i] EXCEPT !.ended = TRUE]
    BY <1>3, <1>t, <1>o DEF Delete
  <2>2. \A i \in Objects : /\ [ln[i] EXCEPT !.ended = TRUE].pc = ln[i].pc
                           /\ [ln[i] EXCEPT !.ended = TRUE].req = ln[i].req
    BY <1>l DEF LoopState
  <2>3. \A i \in Objects : un'[i] = un[i] \/ un'[i] = Unregistering(i)
    BY <1>3, <1>t, <1>o DEF Delete
  <2>4. \A i \in Objects : Unregistering(i).pc = "prep"
    BY <1>l DEF Unregistering, UnState
  <2> QED BY <2>1, <2>2, <2>3, <2>4 DEF Sending
<1>4. CASE Stop
  <2>1. \A i \in Objects : ln'[i] = ln[i] \/ ln'[i] = [ln[i] EXCEPT !.ended = TRUE]
    BY <1>4, <1>t, <1>o DEF Stop
  <2>2. \A i \in Objects : /\ [ln[i] EXCEPT !.ended = TRUE].pc = ln[i].pc
                           /\ [ln[i] EXCEPT !.ended = TRUE].req = ln[i].req
    BY <1>l DEF LoopState
  <2>3. \A i \in Objects : un'[i] = un[i] \/ un'[i].pc = "stop"
    BY <1>4, <1>t, <1>l, <1>o DEF Stop, UnState
  <2> QED BY <2>1, <2>2, <2>3 DEF Sending
<1>5. CASE Stopped
  <2>1. \A i \in Objects : ln'[i] = ln[i] /\ (un'[i] = un[i] \/ un'[i].pc = "prep")
    BY <1>5, <1>l DEF Stopped, UnState
  <2> QED BY <2>1 DEF Sending
<1>6. ASSUME NEW j \in Objects, Loop(j) PROVE Sending'
  <2>1. \A i \in Objects \ {j} : ln'[i] = ln[i]
    BY <1>6, <1>t DEF Loop, StartSpreadEnds, Snapshot, SpreadEnds, Prepare, Send, Outcome, WaitEnds,
                      Unpark, Return
  <2>2. un' = un
    BY <1>6 DEF Loop, StartSpreadEnds, Snapshot, SpreadEnds, Prepare, Send, Outcome, WaitEnds,
                Unpark, Return
  <2>3. ln'[j].pc = "send" => ln'[j].req \in Requests
    <3>1. CASE Prepare(j)
      BY <3>1, <1>t, <1>l DEF Prepare, LoopState
    <3>2. CASE ~Prepare(j)
      <4>1. CASE Outcome(j)
        BY <4>1, <1>t, <1>l DEF Outcome, LoopState
      <4>2. CASE Return(j)
        BY <4>2, <1>t DEF Return, NewLine
      <4>3. CASE Snapshot(j)
        BY <4>3, <1>t, <1>l DEF Snapshot, LoopState
      <4>4. CASE StartSpreadEnds(j) \/ SpreadEnds(j)
        BY <4>4, <1>t, <1>l DEF StartSpreadEnds, SpreadEnds, LoopState
      <4>5. CASE Send(j) \/ Unpark(j) \/ \E why \in {"timer", "wake", "late"} : WaitEnds(j, why)
        BY <4>5, <1>t, <1>l DEF Send, Unpark, WaitEnds, LoopState
      <4> QED BY <1>6, <3>2, <4>1, <4>2, <4>3, <4>4, <4>5 DEF Loop
    <3> QED BY <3>1, <3>2
  <2> QED BY <2>1, <2>2, <2>3 DEF Sending
<1>7. ASSUME NEW j \in Objects, Unregister(j) PROVE Sending'
  <2>1. ln' = ln /\ \A i \in Objects \ {j} : un'[i] = un[i]
    BY <1>7, <1>t DEF Unregister, UnPrepare, UnSend, UnForget
  <2>2. un'[j].pc = "send" => un'[j].req \in Requests
    <3>1. CASE UnPrepare(j)
      BY <3>1, <1>t, <1>l DEF UnPrepare, UnState
    <3>2. CASE UnSend(j) \/ UnForget(j)
      BY <3>2, <1>t, <1>l DEF UnSend, UnForget, UnState
    <3> QED BY <1>7, <3>1, <3>2 DEF Unregister
  <2> QED BY <2>1, <2>2 DEF Sending
<1>8. CASE flagIfOverdue
  <2> DEFINE r == [ln[active] EXCEPT !.until = FALSE, !.late = TRUE]
  <2>1. active \in Objects /\ un' = un /\ ln' = [ln EXCEPT ![active] = r]
    BY <1>8, <1>o DEF flagIfOverdue
  <2>2. r.pc = ln[active].pc /\ r.req = ln[active].req
    BY <1>l, <2>1 DEF LoopState
  <2> HIDE DEF r
  <2> QED BY <1>t, <2>1, <2>2 DEF Sending
<1>9. ASSUME NEW outcome \in {"ok", "refused", "failed"}, Exchange(outcome) PROVE Sending'
  <2> DEFINE m == Head(wire)
  <2>1. \A i \in Objects : ln'[i] = ln[i] \/ ln'[i].pc = "answer"
    <3>1. ln' = ln \/ (ln' = [ln EXCEPT ![m.obj].answer = outcome] /\ ln[m.obj].pc = "answer")
      BY <1>9 DEF Exchange
    <3> HIDE DEF m
    <3> QED BY <1>t, <1>l, <3>1 DEF LoopState
  <2>2. \A i \in Objects : un'[i] = un[i] \/ un'[i].pc = "forget"
    <3>1. un' = un \/ un' = [un EXCEPT ![m.obj].pc = "forget"]
      BY <1>9 DEF Exchange
    <3> HIDE DEF m
    <3> QED BY <1>t, <1>l, <3>1 DEF UnState
  <2> QED BY <2>1, <2>2 DEF Sending
<1>10. CASE UNCHANGED vars
  BY <1>10 DEF vars, Sending
<1> QED BY <1>1, <1>2, <1>3, <1>4, <1>5, <1>6, <1>7, <1>8, <1>9, <1>10 DEF Next

(* The invariant of a line holds of every run.                             *)
THEOREM LineInductive == Spec => [](LineInv /\ Sending)
<1>1. Init => LineInv /\ Sending
  BY LineInit, SendingInit
<1>2. LineInv /\ Sending /\ [Next]_vars => (LineInv /\ Sending)'
  <2> SUFFICES ASSUME LineInv, Sending, [Next]_vars PROVE LineInv' /\ Sending'
    OBVIOUS
  <2>1. ASSUME UNCHANGED vars PROVE LineInv' /\ Sending'
    <3>1. LineInv'
      BY <2>1 DEF vars, LineInv, LineRest, Loops, NotYet
    <3> QED BY <2>1, <3>1 DEF vars, Sending
  <2>2. ASSUME Next, ~UNCHANGED vars PROVE LineInv'
    BY <2>2, ManagerKeeps, LoopKeeps, UnregisterKeeps, ExchangeKeeps DEF Next
  <2> QED BY <2>1, <2>2, SendingNext
<1> QED BY <1>1, <1>2, PTL DEF Spec

(* "a corrected password should take effect now": whatever the numbers and *)
(* secrets, however often the line is written, deleted and written again,  *)
(* a loop that waits without a token registered the credential it has.     *)
THEOREM LineCredentialRegistered == Spec => []CredentialRegistered
<1>1. LineInv => CredentialRegistered
  BY DEF LineInv, Loops, SoundLoop, CredentialRegistered
<1> QED BY <1>1, LineInductive, PTL

(* "a token can never outlive its wait": the half of LineSound that holds  *)
(* of every line object.                                                   *)
THEOREM LineLateInWait == Spec => []LateInWait
<1>1. LineInv => LateInWait
  BY DEF LineInv, Loops, SoundLoop, LateInWait
<1> QED BY <1>1, LineInductive, PTL

-----------------------------------------------------------------------------
(* One line object for the user, under one number.                         *)

OneLine == (\A a, b \in DNs : a = b) /\ (MaxLines = 1 \/ ~Deletes)

RegisterMsg == [by |-> "run", obj |-> 1, dn |-> None.dn, keep |-> TRUE]
UnregisterMsg == [by |-> "unregister", obj |-> 1, dn |-> None.dn, keep |-> FALSE]

(* The line has never been registered, nor dropped.                        *)
Untouched == ln[1].pc = "idle" /\ un[1].pc = "none" /\ wire = <<>> /\ bound = {}

(* The loop has the exchange to itself: at most its one request is on its  *)
(* way, and what it shows or has just been told is what is bound.          *)
Serving ==
  /\ un[1].pc = "none" /\ ~ln[1].ended
  /\ wire = <<>> \/ (wire = <<RegisterMsg>> /\ ln[1].pc = "answer" /\ ln[1].answer = "none")
  /\ ln[1].pc = "send" => reqs[ln[1].req].keep
  /\ ln[1].status = "registered" \/ ln[1].answer = "ok" => bound = {None.dn}

(* Stop waits: the loop may still send, the unregister may not.            *)
Winding ==
  /\ un[1].pc = "stop" /\ ln[1].ended
  /\ wire = <<>> \/ (wire = <<RegisterMsg>> /\ ln[1].pc \in {"answer", "done"})
  /\ ln[1].pc = "send" => reqs[ln[1].req].keep

(* The loop has returned and the drop is the last request sent.            *)
Dropping ==
  /\ ln[1].pc \in {"idle", "done"}
  /\ \/ un[1].pc = "prep" /\ wire \in {<<>>, <<RegisterMsg>>}
     \/ un[1].pc = "send" /\ wire \in {<<>>, <<RegisterMsg>>} /\ ~reqs[un[1].req].keep
     \/ un[1].pc = "answer" /\ wire \in {<<UnregisterMsg>>, <<RegisterMsg, UnregisterMsg>>}
     \/ un[1].pc \in {"forget", "done"} /\ wire = <<>> /\ bound = {}

Others == \A i \in Objects \ {1} : ln[i].pc = "idle" /\ un[i].pc = "none"

Alone ==
  /\ Others
  /\ used \in {0, 1} /\ (active = 0 /\ used = 1 => Deletes)
  /\ used = 0 => Untouched
  /\ active = 1 =>
       CASE manager \in {"new", "started"} -> Serving
         [] manager = "stopping" -> Untouched \/ Winding
         [] manager = "stopped" -> Untouched \/ Dropping

(* What is known of the only line object and the only number.              *)
LEMMA OneFacts ==
  ASSUME OneLine, LineInv
  PROVE  /\ 1 \in Objects /\ ln[1] \in LoopState /\ un[1] \in UnState
         /\ ln \in [Objects -> LoopState] /\ un \in [Objects -> UnState]
         /\ None.dn \in DNs /\ (\A x \in DNs : x = None.dn)
         /\ (bound = {} \/ bound = {None.dn})
         /\ (active # 0 => active \in Objects)
         /\ manager \in {"new", "started", "stopping", "stopped"}
<1>1. 1 \in Objects /\ (active # 0 => active \in Objects)
  BY LineAssumption DEF LineInv, LineRest, Objects
<1>2. ln \in [Objects -> LoopState] /\ un \in [Objects -> UnState] /\ bound \subseteq DNs
      /\ manager \in {"new", "started", "stopping", "stopped"}
  BY DEF LineInv, LineRest, Loops
<1>3. None.dn \in DNs /\ \A x \in DNs : x = None.dn
  BY NoneIsLine DEF Line, OneLine
<1>4. bound = {} \/ bound = {None.dn}
  BY <1>2, <1>3
<1> QED BY <1>1, <1>2, <1>3, <1>4

(* With one line, the object in Manager.lines is the first or none.        *)
LEMMA FirstOnly ==
  ASSUME OneLine, LineInv, Alone
  PROVE  active \in {0, 1} /\ (active = 1 => used = 1) /\ (active = 0 /\ used < MaxLines => used = 0)
<1>1. active <= used /\ active \in 0..MaxLines /\ used \in {0, 1} /\ (active = 0 /\ used = 1 => Deletes)
  BY DEF LineInv, LineRest, Alone
<1>2. (MaxLines = 1 \/ ~Deletes) /\ MaxLines \in Nat
  BY LineAssumption DEF OneLine
<1>3. active \in {0, 1} /\ (active = 1 => used = 1)
  BY <1>1, <1>2
<1>4. CASE MaxLines = 1
  BY <1>1, <1>3, <1>4
<1>5. CASE ~Deletes
  BY <1>1, <1>3, <1>5
<1> QED BY <1>2, <1>3, <1>4, <1>5

(* Once the line has been deleted there is one object, and nothing more is *)
(* claimed of it.                                                          *)
LEMMA GoneKeeps ==
  ASSUME OneLine, used' = 1, active' = 0, Deletes
  PROVE  Alone'
<1>1. MaxLines = 1 /\ Objects = 1..1
  BY DEF OneLine, Objects
<1>2. Others'
  BY <1>1 DEF Others, Objects
<1> QED BY <1>2 DEF Alone

(* The manager and the clock watcher keep the one line's phases apart.     *)
LEMMA ManagerAlone ==
  ASSUME OneLine, LineInv, Alone,
         Start \/ (\E l \in Line : Put(l)) \/ Delete \/ Stop \/ Stopped \/ flagIfOverdue
  PROVE  Alone'
<1>t. /\ 1 \in Objects /\ ln[1] \in LoopState /\ un[1] \in UnState
      /\ ln \in [Objects -> LoopState] /\ un \in [Objects -> UnState]
      /\ manager \in {"new", "started", "stopping", "stopped"}
  BY OneFacts
<1>a. active \in {0, 1} /\ (active = 1 => used = 1) /\ (active = 0 /\ used < MaxLines => used = 0)
  BY FirstOnly
<1>z. 0 \notin Objects
  BY LineAssumption DEF Objects
<1>o. Others /\ used \in {0, 1} /\ (active = 0 /\ used = 1 => Deletes) /\ (used = 0 => Untouched)
  BY DEF Alone
<1>k. ASSUME ln'[1].pc = ln[1].pc, ln'[1].ended = ln[1].ended, ln'[1].answer = ln[1].answer,
             ln'[1].status = ln[1].status, ln'[1].req = ln[1].req, Others',
             UNCHANGED <<manager, active, used, un, reqs, wire, bound>>
      PROVE  Alone'
  <2>1. Untouched => Untouched'
    BY <1>k DEF Untouched
  <2>2. Serving => Serving'
    BY <1>k DEF Serving, RegisterMsg
  <2>3. Winding => Winding'
    BY <1>k DEF Winding, RegisterMsg
  <2>4. Dropping => Dropping'
    BY <1>k DEF Dropping, RegisterMsg, UnregisterMsg
  <2> QED BY <1>k, <1>t, <2>1, <2>2, <2>3, <2>4 DEF Alone
<1>1. CASE Start
  <2>1. manager = "new" /\ manager' = "started" /\ UNCHANGED <<active, used, un, reqs, wire, bound>>
        /\ \A i \in Objects : ln'[i] = IF i = active THEN Started(ln[i]) ELSE ln[i]
    BY <1>1 DEF Start
  <2>2. Others'
    BY <1>a, <1>z, <1>o, <2>1 DEF Others
  <2>3. CASE active = 0
    BY <1>t, <1>o, <2>1, <2>2, <2>3 DEF Alone, Untouched
  <2>4. CASE active = 1
    <3>1. Serving /\ used = 1
      BY <1>a, <2>1, <2>4 DEF Alone
    <3>2. ln[1].pc = "idle"
      BY <1>t, <2>1 DEF LineInv, NotYet
    <3>3. ln'[1] = Started(ln[1])
      BY <1>t, <2>1, <2>4
    <3>4. ln'[1].pc \in {"snap", "startSpread"} /\ ln'[1].ended = ln[1].ended
          /\ ln'[1].status = ln[1].status /\ ln'[1].answer = ln[1].answer
      BY <1>t, <3>3 DEF Started, First, LoopState
    <3>5. Serving'
      BY <2>1, <3>1, <3>2, <3>4 DEF Serving
    <3> QED BY <2>1, <2>2, <2>4, <3>1, <3>5 DEF Alone
  <2> QED BY <1>a, <2>3, <2>4
<1>2. ASSUME NEW l \in Line, Put(l) PROVE Alone'
  <2>1. CASE active = 1
    <3>1. ln' = [ln EXCEPT ![1] = Replaced(ln[1], l)]
          /\ UNCHANGED <<active, used, manager, un, reqs, wire, bound>>
      BY <1>2, <2>1 DEF Put
    <3>2. Others'
      BY <1>t, <1>o, <3>1 DEF Others
    <3>3. LET r == Replaced(ln[1], l) IN
          r.pc = ln[1].pc /\ r.ended = ln[1].ended /\ r.answer = ln[1].answer
          /\ r.status = ln[1].status /\ r.req = ln[1].req
      BY <1>t DEF Replaced, LoopState
    <3>4. ln'[1] = Replaced(ln[1], l)
      BY <1>t, <3>1
    <3> QED BY <1>k, <3>1, <3>2, <3>3, <3>4
  <2>2. CASE active = 0
    <3> DEFINE r == IF manager = "started" THEN Started(NewLine(l)) ELSE NewLine(l)
    <3>0. used < MaxLines
      BY <1>2, <2>2 DEF Put
    <3>1. used = 0
      BY <1>a, <2>2, <3>0
    <3>2. /\ ln' = [ln EXCEPT ![1] = r] /\ used' = 1 /\ active' = 1
          /\ UNCHANGED <<manager, un, reqs, wire, bound>>
      BY <1>2, <2>2, <3>1 DEF Put
    <3>3. r.pc # "send" /\ ~r.ended /\ r.status = "pending" /\ r.answer = "none"
          /\ (manager # "started" => r.pc = "idle")
      BY DEF Started, First, NewLine
    <3> HIDE DEF r
    <3>4. ln'[1] = r /\ Others'
      BY <1>t, <1>o, <3>2 DEF Others
    <3>5. Untouched
      BY <1>o, <3>1
    <3>6. Serving'
      BY <3>2, <3>3, <3>4, <3>5 DEF Serving, Untouched
    <3>7. manager # "started" => Untouched'
      BY <3>2, <3>3, <3>4, <3>5 DEF Untouched
    <3>8. used' \in {0, 1} /\ ~(active' = 0) /\ ~(used' = 0)
      BY <3>2
    <3>9. manager' \in {"new", "started"} \/ (manager' \in {"stopping", "stopped"} /\ Untouched')
      BY <1>t, <3>2, <3>7
    <3> QED BY <3>4, <3>6, <3>8, <3>9 DEF Alone
  <2> QED BY <1>a, <2>1, <2>2
<1>3. CASE Delete
  <2>1. active' = 0 /\ used' = used /\ Deletes /\ active # 0
    BY <1>3 DEF Delete
  <2> QED BY <1>a, <2>1, GoneKeeps
<1>4. CASE Stop
  <2>1. manager = "started" /\ manager' = "stopping" /\ UNCHANGED <<active, used, reqs, wire, bound>>
        /\ (\A i \in Objects : ln'[i] = IF i = active THEN [ln[i] EXCEPT !.ended = TRUE] ELSE ln[i])
        /\ un' = IF active = 0 THEN un
                 ELSE [un EXCEPT ![active].pc = "stop", ![active].line = ln[active].cur]
    BY <1>4 DEF Stop
  <2>2. CASE active = 0
    <3>1. (\A i \in Objects : ln'[i] = ln[i]) /\ un' = un
      BY <1>z, <2>1, <2>2
    <3> QED BY <1>t, <1>o, <2>1, <2>2, <3>1 DEF Alone, Untouched, Others
  <2>3. CASE active = 1
    <3>1. Serving /\ used = 1
      BY <1>a, <2>1, <2>3 DEF Alone
    <3>2. ln'[1].pc = ln[1].pc /\ ln'[1].req = ln[1].req /\ ln'[1].ended
      BY <1>t, <2>1, <2>3 DEF LoopState
    <3>3. un'[1].pc = "stop" /\ \A i \in Objects \ {1} : un'[i] = un[i]
      BY <1>t, <2>1, <2>3 DEF UnState
    <3>4. Others'
      BY <1>o, <2>1, <2>3, <3>3 DEF Others
    <3>5. Winding'
      BY <2>1, <3>1, <3>2, <3>3 DEF Serving, Winding, RegisterMsg
    <3> QED BY <2>1, <2>3, <3>1, <3>4, <3>5 DEF Alone
  <2> QED BY <1>a, <2>2, <2>3
<1>5. CASE Stopped
  <2>1. /\ manager = "stopping" /\ manager' = "stopped"
        /\ UNCHANGED <<active, used, ln, reqs, wire, bound>>
        /\ \A i \in Objects : ln[i].pc \in {"idle", "done"}
        /\ \A i \in Objects : un'[i] = IF un[i].pc = "stop" THEN [un[i] EXCEPT !.pc = "prep"] ELSE un[i]
    BY <1>5 DEF Stopped
  <2>2. Others' /\ (Untouched => Untouched')
    BY <1>t, <1>o, <2>1 DEF Others, Untouched
  <2>3. ASSUME Winding PROVE Dropping'
    <3>1. un'[1].pc = "prep"
      BY <1>t, <2>1, <2>3 DEF Winding, UnState
    <3>2. ln[1].pc \in {"idle", "done"} /\ wire \in {<<>>, <<RegisterMsg>>}
      BY <1>t, <2>1, <2>3 DEF Winding
    <3> QED BY <2>1, <3>1, <3>2 DEF Dropping, RegisterMsg
  <2> QED BY <2>1, <2>2, <2>3 DEF Alone
<1>6. CASE flagIfOverdue
  <2> DEFINE r == [ln[1] EXCEPT !.until = FALSE, !.late = TRUE]
  <2>1. ln' = [ln EXCEPT ![1] = r] /\ UNCHANGED <<manager, active, used, un, reqs, wire, bound>>
    BY <1>6, <1>a DEF flagIfOverdue
  <2>2. r.pc = ln[1].pc /\ r.ended = ln[1].ended /\ r.answer = ln[1].answer
        /\ r.status = ln[1].status /\ r.req = ln[1].req
    BY <1>t DEF LoopState
  <2> HIDE DEF r
  <2>3. ln'[1] = r /\ Others'
    BY <1>t, <1>o, <2>1 DEF Others
  <2> QED BY <1>k, <2>1, <2>2, <2>3
<1> QED BY <1>1, <1>2, <1>3, <1>4, <1>5, <1>6

(* Appending to a wire of one request.                                     *)
LEMMA TwoInLine ==
  ASSUME NEW a, NEW b
  PROVE  Append(<<a>>, b) = <<a, b>>
<1> DEFINE S == {a, b}
<1>1. <<a>> \in Seq(S) /\ b \in S /\ Len(<<a>>) = 1 /\ <<a>>[1] = a
  OBVIOUS
<1>2. <<a, b>> \in Seq(S) /\ Len(<<a, b>>) = 2 /\ <<a, b>>[1] = a /\ <<a, b>>[2] = b
  OBVIOUS
<1> HIDE DEF S
<1>3. /\ Append(<<a>>, b) \in Seq(S) /\ Len(Append(<<a>>, b)) = 1 + 1
      /\ (\A i \in 1..1 : Append(<<a>>, b)[i] = <<a>>[i]) /\ Append(<<a>>, b)[1 + 1] = b
  BY <1>1, AppendProperties
<1>4. Len(Append(<<a>>, b)) = 2 /\ \A i \in 1..2 : Append(<<a>>, b)[i] = <<a, b>>[i]
  BY <1>1, <1>2, <1>3
<1> QED BY <1>2, <1>3, <1>4, SeqEqual

(* While the line is there, whoever moves moves for object 1.              *)
LEMMA LoopAlone ==
  ASSUME OneLine, LineInv, Sending, Alone, NEW j \in Objects, Loop(j)
  PROVE  Alone'
<1>t. /\ 1 \in Objects /\ ln[1] \in LoopState /\ ln \in [Objects -> LoopState]
      /\ manager \in {"new", "started", "stopping", "stopped"}
      /\ None.dn \in DNs /\ \A x \in DNs : x = None.dn
  BY OneFacts
<1>p. ln[j].pc \notin {"idle", "done"}
  BY DEF Loop, StartSpreadEnds, Snapshot, SpreadEnds, Prepare, Send, Outcome, WaitEnds, Unpark,
         Return, Waits
<1>1. j = 1 /\ used = 1
  BY <1>p DEF Alone, Others, Untouched
<1>2. UNCHANGED <<manager, active, used, un, bound>>
  BY DEF Loop, StartSpreadEnds, Snapshot, SpreadEnds, Prepare, Send, Outcome, WaitEnds, Unpark,
         Return
<1>3. CASE active # 1
  <2>1. active = 0 /\ Deletes
    BY <1>1, <1>3, FirstOnly DEF Alone
  <2> QED BY <1>1, <1>2, <2>1, GoneKeeps
<1>4. CASE active = 1
  <2>1. (manager = "started" /\ Serving) \/ (manager = "stopping" /\ Winding)
    BY <1>t, <1>p, <1>1, <1>4 DEF Alone, Untouched, Dropping, LineInv, NotYet
  <2>2. Others'
    <3>1. \A i \in Objects \ {1} : ln'[i] = ln[i]
      BY <1>1, <1>t DEF Loop, StartSpreadEnds, Snapshot, SpreadEnds, Prepare, Send, Outcome, WaitEnds,
                        Unpark, Return
    <3> QED BY <1>2, <3>1 DEF Alone, Others
  <2>3. SUFFICES (Serving => Serving') /\ (Winding => Winding')
    <3>1. ASSUME (Serving => Serving') /\ (Winding => Winding') PROVE Alone'
      <4>1. used' = 1 /\ active' = 1 /\ manager' = manager
        BY <1>1, <1>2, <1>4
      <4>2. CASE manager = "started" /\ Serving
        BY <2>2, <3>1, <4>1, <4>2 DEF Alone
      <4>3. CASE manager = "stopping" /\ Winding
        BY <2>2, <3>1, <4>1, <4>3 DEF Alone
      <4> QED BY <2>1, <4>2, <4>3
    <3> QED BY <3>1
  <2>q. ASSUME ln[1].pc \notin {"answer", "send"}, ln'[1].pc # "send", ln'[1].ended = ln[1].ended,
               ln'[1].status = ln[1].status, ln'[1].answer = ln[1].answer, UNCHANGED <<reqs, wire>>
        PROVE  (Serving => Serving') /\ (Winding => Winding')
    BY <1>1, <1>2, <1>p, <2>q DEF Serving, Winding
  <2>4. CASE StartSpreadEnds(1)
    <3>1. ln'[1].pc = "snap" /\ ln'[1].ended = ln[1].ended /\ ln'[1].status = ln[1].status
          /\ ln'[1].answer = ln[1].answer
      BY <2>4, <1>t DEF StartSpreadEnds, LoopState
    <3> QED BY <2>4, <2>q, <3>1 DEF StartSpreadEnds
  <2>5. CASE Snapshot(1)
    <3>1. ln'[1].pc # "send" /\ ln'[1].ended = ln[1].ended /\ ln'[1].status = ln[1].status
          /\ ln'[1].answer = ln[1].answer
      BY <2>5, <1>t DEF Snapshot, LoopState
    <3> QED BY <2>5, <2>q, <3>1 DEF Snapshot
  <2>6. CASE SpreadEnds(1)
    <3>1. ln'[1].pc = "prep" /\ ln'[1].ended = ln[1].ended /\ ln'[1].status = ln[1].status
          /\ ln'[1].answer = ln[1].answer
      BY <2>6, <1>t DEF SpreadEnds, LoopState
    <3> QED BY <2>6, <2>q, <3>1 DEF SpreadEnds
  <2>7. ASSUME NEW why \in {"timer", "wake", "late"}, WaitEnds(1, why)
        PROVE  (Serving => Serving') /\ (Winding => Winding')
    <3>1. ln'[1].pc = "snap" /\ ln'[1].ended = ln[1].ended /\ ln'[1].status = ln[1].status
          /\ ln'[1].answer = ln[1].answer
      BY <2>7, <1>t DEF WaitEnds, LoopState
    <3> QED BY <2>7, <2>q, <3>1 DEF WaitEnds
  <2>8. CASE Unpark(1)
    <3>1. ln'[1].pc = "snap" /\ ln'[1].ended = ln[1].ended /\ ln'[1].status = ln[1].status
          /\ ln'[1].answer = ln[1].answer
      BY <2>8, <1>t DEF Unpark, LoopState
    <3> QED BY <2>8, <2>q, <3>1 DEF Unpark
  <2>9. CASE Prepare(1)
    <3>1. PICK q \in Requests : Prepared(ln[1].sent, TRUE, q)
                                /\ ln' = [ln EXCEPT ![1].pc = "send", ![1].req = q]
      BY <2>9 DEF Prepare
    <3>2. ln[1].pc = "prep" /\ wire' = wire
      BY <2>9 DEF Prepare
    <3>3. reqs'[q].keep
      BY <1>t, <3>1, PreparedTyped DEF LoopState, LineInv
    <3>4. ln'[1].pc = "send" /\ ln'[1].req = q /\ ln'[1].ended = ln[1].ended
          /\ ln'[1].status = ln[1].status /\ ln'[1].answer = ln[1].answer
      BY <1>t, <3>1 DEF LoopState
    <3> QED BY <1>2, <3>2, <3>3, <3>4 DEF Serving, Winding
  <2>10. CASE Send(1)
    <3>1. ln[1].pc = "send" /\ reqs' = reqs
      BY <2>10 DEF Send
    <3>2. ln'[1].pc = "answer" /\ ln'[1].answer = "none" /\ ln'[1].ended = ln[1].ended
          /\ ln'[1].status = ln[1].status
      BY <1>t, <2>10 DEF Send, LoopState
    <3>3. wire = <<>> /\ reqs[ln[1].req].keep
      BY <2>1, <3>1 DEF Serving, Winding
    <3>4. reqs[ln[1].req].dn = None.dn /\ reqs[ln[1].req].keep = TRUE
      <4>1. reqs[ln[1].req] \in Request
        BY <1>t, <3>1 DEF LineInv, LineRest, Sending
      <4> QED BY <1>t, <3>3, <4>1 DEF Request
    <3>5. wire' = <<RegisterMsg>>
      BY <2>10, <3>3, <3>4 DEF Send, Sent, RegisterMsg
    <3> QED BY <1>2, <3>1, <3>2, <3>5 DEF Serving, Winding, RegisterMsg
  <2>11. CASE Outcome(1)
    <3>1. ln[1].pc = "answer" /\ ln[1].answer # "none" /\ ~ln[1].ended /\ wire' = wire
      BY <2>11 DEF Outcome
    <3>2. ln'[1].pc \in {"parked", "wait"} /\ ln'[1].answer = "none" /\ ~ln'[1].ended
          /\ ln'[1].status = Published(ln[1].answer)
      BY <1>t, <2>11 DEF Outcome, LoopState
    <3>3. Published(ln[1].answer) = "registered" => ln[1].answer = "ok"
      BY <1>t, <3>1 DEF Published, LoopState
    <3>4. ~Winding
      BY <3>1 DEF Winding
    <3> QED BY <1>2, <3>1, <3>2, <3>3, <3>4 DEF Serving, Winding
  <2>12. CASE Return(1)
    <3>1. ln[1].ended /\ ln[1].pc # "send" /\ UNCHANGED <<reqs, wire>>
      BY <2>12 DEF Return, Waits
    <3>2. ln'[1].pc = "done" /\ ln'[1].ended
      BY <1>t, <2>12 DEF Return, NewLine
    <3> QED BY <1>2, <3>1, <3>2 DEF Serving, Winding, RegisterMsg
  <2> QED BY <1>1, <2>4, <2>5, <2>6, <2>7, <2>8, <2>9, <2>10, <2>11, <2>12 DEF Loop
<1> QED BY <1>3, <1>4

(* The unregister of the one line moves only after the loop has returned.  *)
LEMMA UnregisterAlone ==
  ASSUME OneLine, LineInv, Sending, Alone, NEW j \in Objects, Unregister(j)
  PROVE  Alone'
<1>t. /\ 1 \in Objects /\ un[1] \in UnState /\ un \in [Objects -> UnState]
      /\ manager \in {"new", "started", "stopping", "stopped"}
      /\ None.dn \in DNs /\ \A x \in DNs : x = None.dn
  BY OneFacts
<1>p. un[j].pc \in {"prep", "send", "forget"}
  BY DEF Unregister, UnPrepare, UnSend, UnForget
<1>1. j = 1 /\ used = 1
  BY <1>p DEF Alone, Others, Untouched
<1>2. UNCHANGED <<manager, active, used, ln, bound>>
  BY DEF Unregister, UnPrepare, UnSend, UnForget
<1>3. CASE active # 1
  <2>1. active = 0 /\ Deletes
    BY <1>1, <1>3, FirstOnly DEF Alone
  <2> QED BY <1>1, <1>2, <2>1, GoneKeeps
<1>4. CASE active = 1
  <2>1. manager = "stopped" /\ Dropping
    BY <1>t, <1>p, <1>1, <1>4 DEF Alone, Untouched, Winding, Serving
  <2>2. Others'
    <3>1. \A i \in Objects \ {1} : un'[i] = un[i]
      BY <1>1, <1>t DEF Unregister, UnPrepare, UnSend, UnForget
    <3> QED BY <1>2, <3>1 DEF Alone, Others
  <2>3. SUFFICES Dropping'
    BY <1>1, <1>2, <1>4, <2>1, <2>2 DEF Alone
  <2>4. ln'[1].pc \in {"idle", "done"}
    BY <1>2, <2>1 DEF Dropping
  <2>5. CASE UnPrepare(1)
    <3>1. PICK q \in Requests : Prepared(un[1].line, FALSE, q)
                                /\ un' = [un EXCEPT ![1].pc = "send", ![1].req = q]
      BY <2>5 DEF UnPrepare
    <3>2. un[1].pc = "prep" /\ wire' = wire
      BY <2>5 DEF UnPrepare
    <3>3. reqs'[q].keep = FALSE
      BY <1>t, <3>1, PreparedTyped DEF UnState, LineInv
    <3>4. un'[1].pc = "send" /\ un'[1].req = q
      BY <1>t, <3>1 DEF UnState
    <3> QED BY <2>1, <2>4, <3>2, <3>3, <3>4 DEF Dropping, RegisterMsg
  <2>6. CASE UnSend(1)
    <3>1. un[1].pc = "send" /\ un'[1].pc = "answer"
      BY <1>t, <2>6 DEF UnSend, UnState
    <3>2. wire \in {<<>>, <<RegisterMsg>>} /\ ~reqs[un[1].req].keep
      BY <2>1, <3>1 DEF Dropping
    <3>3. reqs[un[1].req].dn = None.dn /\ reqs[un[1].req].keep = FALSE
      <4>1. reqs[un[1].req] \in Request
        BY <1>t, <3>1 DEF LineInv, LineRest, Sending
      <4> QED BY <1>t, <3>2, <4>1 DEF Request
    <3>4. wire' = Append(wire, UnregisterMsg)
      BY <2>6, <3>3 DEF UnSend, Sent, UnregisterMsg
    <3>5. wire' \in {<<UnregisterMsg>>, <<RegisterMsg, UnregisterMsg>>}
      <4>1. CASE wire = <<>>
        BY <3>4, <4>1
      <4>2. CASE wire = <<RegisterMsg>>
        BY <3>4, <4>2, TwoInLine
      <4> QED BY <3>2, <4>1, <4>2
    <3> QED BY <2>4, <3>1, <3>5 DEF Dropping, RegisterMsg, UnregisterMsg
  <2>7. CASE UnForget(1)
    <3>1. un[1].pc = "forget" /\ un'[1].pc = "done" /\ wire' = wire
      BY <1>t, <2>7 DEF UnForget
    <3> QED BY <1>2, <2>1, <2>4, <3>1 DEF Dropping
  <2> QED BY <1>1, <2>5, <2>6, <2>7 DEF Unregister
<1> QED BY <1>3, <1>4

(* The exchange takes the register before the unregister sent after it.    *)
LEMMA ExchangeAlone ==
  ASSUME OneLine, LineInv, Alone, NEW outcome \in {"ok", "refused", "failed"}, Exchange(outcome)
  PROVE  Alone'
<1>t. /\ 1 \in Objects /\ ln[1] \in LoopState /\ ln \in [Objects -> LoopState]
      /\ un[1] \in UnState /\ un \in [Objects -> UnState]
      /\ manager \in {"new", "started", "stopping", "stopped"}
      /\ (bound = {} \/ bound = {None.dn})
  BY OneFacts
<1>1. wire # <<>> /\ used = 1 /\ UNCHANGED <<manager, active, used, reqs>> /\ wire' = Tail(wire)
  BY DEF Exchange, Alone, Untouched
<1>2. CASE active # 1
  <2>1. active = 0 /\ Deletes
    BY <1>1, <1>2, FirstOnly DEF Alone
  <2> QED BY <1>1, <2>1, GoneKeeps
<1>3. CASE active = 1
  <2>r. ASSUME Head(wire) = RegisterMsg
        PROVE  /\ un' = un
               /\ ln' = IF ln[1].pc = "answer" THEN [ln EXCEPT ![1].answer = outcome] ELSE ln
               /\ bound' = IF outcome = "ok" THEN {None.dn} ELSE bound
    <3>1. Head(wire).keep = TRUE /\ Head(wire).by = "run" /\ Head(wire).obj = 1 /\ Head(wire).dn = None.dn
      BY <2>r DEF RegisterMsg
    <3>2. bound' = IF outcome = "ok" THEN bound \cup {None.dn} ELSE bound
      <4>1. CASE outcome = "ok"
        BY <3>1, <4>1 DEF Exchange
      <4>2. CASE outcome # "ok"
        BY <3>1, <4>2 DEF Exchange
      <4> QED BY <4>1, <4>2
    <3>3. /\ un' = un
          /\ ln' = IF ln[1].pc = "answer" THEN [ln EXCEPT ![1].answer = outcome] ELSE ln
      BY <3>1 DEF Exchange
    <3> QED BY <1>t, <3>2, <3>3
  <2>d. ASSUME Head(wire) = UnregisterMsg
        PROVE  un' = [un EXCEPT ![1].pc = "forget"] /\ ln' = ln /\ bound' = {}
    <3>1. Head(wire).keep = FALSE /\ Head(wire).by = "unregister" /\ Head(wire).obj = 1
          /\ Head(wire).dn = None.dn
      BY <2>d DEF UnregisterMsg
    <3>2. outcome = "ok" /\ bound' = bound \ {None.dn} /\ ln' = ln
          /\ un' = [un EXCEPT ![1].pc = "forget"]
      BY <3>1 DEF Exchange
    <3> QED BY <1>t, <3>2
  <2>l. ASSUME Head(wire) = RegisterMsg
        PROVE  /\ ln'[1].pc = ln[1].pc /\ ln'[1].ended = ln[1].ended /\ ln'[1].status = ln[1].status
               /\ ln'[1].req = ln[1].req /\ (ln[1].pc = "answer" => ln'[1].answer = outcome)
               /\ \A i \in Objects \ {1} : ln'[i] = ln[i]
    BY <1>t, <2>l, <2>r DEF LoopState
  <2>1. CASE manager \in {"new", "started"}
    <3>1. Serving
      BY <1>3, <2>1 DEF Alone
    <3>2. wire = <<RegisterMsg>> /\ ln[1].pc = "answer"
      BY <1>1, <3>1 DEF Serving
    <3>3. Head(wire) = RegisterMsg /\ wire' = <<>>
      BY <1>1, <3>2
    <3>4. Serving'
      BY <1>1, <2>r, <2>l, <3>1, <3>2, <3>3 DEF Serving
    <3>5. Others'
      BY <2>r, <2>l, <3>3 DEF Alone, Others
    <3>6. used' = 1 /\ active' = 1 /\ manager' \in {"new", "started"}
      BY <1>1, <1>3, <2>1
    <3>7. CASE manager' = "new"
      BY <3>4, <3>5, <3>6, <3>7 DEF Alone
    <3>8. CASE manager' = "started"
      BY <3>4, <3>5, <3>6, <3>8 DEF Alone
    <3> QED BY <3>6, <3>7, <3>8
  <2>2. CASE manager = "stopping"
    <3>1. Winding
      BY <1>1, <1>3, <2>2 DEF Alone, Untouched
    <3>2. wire = <<RegisterMsg>>
      BY <1>1, <3>1 DEF Winding
    <3>3. Head(wire) = RegisterMsg /\ wire' = <<>>
      BY <1>1, <3>2
    <3>4. Winding'
      BY <1>1, <2>r, <2>l, <3>1, <3>3 DEF Winding
    <3>5. Others'
      BY <2>r, <2>l, <3>3 DEF Alone, Others
    <3> QED BY <1>1, <1>3, <2>2, <3>4, <3>5 DEF Alone
  <2>3. CASE manager = "stopped"
    <3>1. Dropping
      BY <1>1, <1>3, <2>3 DEF Alone, Untouched
    <3>2. CASE Head(wire) = RegisterMsg
      <4>1. (un[1].pc \in {"prep", "send"} /\ wire = <<RegisterMsg>>)
            \/ (un[1].pc = "answer" /\ wire = <<RegisterMsg, UnregisterMsg>>)
        <5>1. RegisterMsg # UnregisterMsg
          BY DEF RegisterMsg, UnregisterMsg
        <5> QED BY <1>1, <3>1, <3>2, <5>1 DEF Dropping
      <4>2. (un[1].pc \in {"prep", "send"} /\ wire' = <<>>)
            \/ (un[1].pc = "answer" /\ wire' = <<UnregisterMsg>>)
        <5>1. Tail(<<RegisterMsg>>) = <<>> /\ Tail(<<RegisterMsg, UnregisterMsg>>) = <<UnregisterMsg>>
          OBVIOUS
        <5> QED BY <1>1, <4>1, <5>1
      <4>3. Dropping'
        BY <1>1, <2>r, <2>l, <3>1, <3>2, <4>2 DEF Dropping, UnregisterMsg
      <4>4. Others'
        BY <2>r, <2>l, <3>2 DEF Alone, Others
      <4> QED BY <1>1, <1>3, <2>3, <4>3, <4>4 DEF Alone
    <3>3. CASE Head(wire) # RegisterMsg
      <4>1. wire = <<UnregisterMsg>>
        BY <1>1, <3>1, <3>3 DEF Dropping
      <4>2. Head(wire) = UnregisterMsg /\ wire' = <<>>
        BY <1>1, <4>1
      <4>3. un'[1].pc = "forget" /\ ln' = ln /\ bound' = {} /\ \A i \in Objects \ {1} : un'[i] = un[i]
        BY <1>t, <2>d, <4>2 DEF UnState
      <4>4. Dropping'
        BY <3>1, <4>2, <4>3 DEF Dropping
      <4>5. Others'
        BY <4>3 DEF Alone, Others
      <4> QED BY <1>1, <1>3, <2>3, <4>4, <4>5 DEF Alone
    <3> QED BY <3>2, <3>3
  <2> QED BY <1>t, <2>1, <2>2, <2>3
<1> QED BY <1>2, <1>3

(* "so the PBX does not ring a line we have stopped serving" and a line    *)
(* shown registered is bound: with one number and one line object, for any *)
(* secrets, any number of changes, refusals, failures and sleeps.          *)
THEOREM LineStaysSound ==
  ASSUME OneLine
  PROVE  Spec => []LineSound
<1>1. Init => Alone
  <2> SUFFICES ASSUME Init PROVE Alone
    OBVIOUS
  <2>1. active = 0 /\ used = 0 /\ wire = <<>> /\ bound = {}
        /\ \A i \in Objects : ln[i] = NewLine(None) /\ un[i].pc = "none"
    BY DEF Init
  <2>2. NewLine(None).pc = "idle" /\ 1 \in Objects
    BY LineAssumption DEF NewLine, Objects
  <2>3. Others /\ Untouched
    BY <2>1, <2>2 DEF Others, Untouched
  <2> QED BY <2>1, <2>3 DEF Alone
<1>2. LineInv /\ Sending /\ Alone /\ [Next]_vars => Alone'
  <2> SUFFICES ASSUME LineInv, Sending, Alone, [Next]_vars PROVE Alone'
    OBVIOUS
  <2>1. ASSUME UNCHANGED vars PROVE Alone'
    <3>1. (Untouched => Untouched') /\ (Serving => Serving') /\ (Winding => Winding')
          /\ (Dropping => Dropping') /\ (Others => Others')
      BY <2>1 DEF vars, Untouched, Serving, Winding, Dropping, Others, RegisterMsg, UnregisterMsg
    <3>2. manager \in {"new", "started", "stopping", "stopped"} /\ UNCHANGED <<manager, active, used>>
      BY <2>1, OneFacts DEF vars
    <3> QED BY <3>1, <3>2 DEF Alone
  <2> QED BY <2>1, ManagerAlone, LoopAlone, UnregisterAlone, ExchangeAlone DEF Next
<1>3. LineInv /\ Alone => LineSound
  <2> SUFFICES ASSUME LineInv, Alone PROVE LineSound
    OBVIOUS
  <2>1. LateInWait
    BY DEF LineInv, Loops, SoundLoop, LateInWait
  <2>2. active \in {0, 1} /\ 1 \in Objects /\ ln[1] \in LoopState /\ \A x \in DNs : x = None.dn
    BY OneFacts, FirstOnly
  <2>3. Served
    <3>1. ln[1].cur.dn = None.dn
      BY <2>2 DEF LoopState, Line
    <3> QED BY <2>2, <3>1 DEF Alone, Served, Serving
  <2>4. StopDrops
    BY <2>2 DEF Alone, StopDrops, Quiet, Untouched, Dropping
  <2> QED BY <2>1, <2>3, <2>4 DEF LineSound
<1> QED BY <1>1, <1>2, <1>3, LineInductive, PTL DEF Spec
=============================================================================
