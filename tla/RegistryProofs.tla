--------------------------- MODULE RegistryProofs ---------------------------
(* Proofs that the registry keeps its device index sound and loses no      *)
(* wake-up, for any users, devices, contacts, calls and lifetimes.         *)
EXTENDS Registry, TLAPS

IInv == TypeOK /\ DeviceIndexed /\ NoWaiterLeak /\ NoLostWakeup

(* The contact an endpoint is reported with is a contact or none.          *)
LEMMA LiveContactType ==
  ASSUME TypeOK, NEW u \in Users
  PROVE  LiveContact(u) \in Contacts \cup {NoContact}
BY RegistryAssumption DEF TypeOK, LiveContact, viewLocked, Endpoint

(* checkOrPark keeps the types of what it writes.                          *)
LEMMA CheckOrParkType ==
  ASSUME TypeOK, NEW c \in Calls, NEW k \in Kinds, NEW u \in Users,
         NEW r \in Contacts \cup {NoContact}, checkOrPark(c, k, u, r)
  PROVE  waiters' \in [Users -> SUBSET Calls] /\ wait' \in [Calls -> WaitStates]
<1>1. CASE Satisfies(u, r)
  <2>1. LiveContact(u) \in Contacts
    BY <1>1, LiveContactType DEF Satisfies
  <2>2. Returned(LiveContact(u)) \in WaitStates
    BY <2>1 DEF Returned, WaitStates
  <2> QED BY <1>1, <2>2 DEF checkOrPark, TypeOK
<1>2. CASE ~Satisfies(u, r)
  <2>1. Blocked(k, u, r) \in WaitStates
    BY DEF Blocked, WaitStates
  <2> QED BY <1>2, <2>1 DEF checkOrPark, TypeOK
<1> QED BY <1>1, <1>2

(* The maps keep their types under every method of the registry.           *)
LEMMA TypeStep == TypeOK /\ [Next]_vars => TypeOK'
<1> SUFFICES ASSUME TypeOK, [Next]_vars PROVE TypeOK'
  OBVIOUS
<1> USE RegistryAssumption
<1>1. ASSUME NEW u \in Users, NEW d \in Devices, Provision(u, d) PROVE TypeOK'
  BY <1>1 DEF TypeOK, Provision, dropDevice, Endpoint
<1>2. ASSUME NEW u \in Users, Deprovision(u) PROVE TypeOK'
  BY <1>2 DEF TypeOK, Deprovision, dropDevice, Endpoint
<1>3. ASSUME NEW u \in Users, Unregister(u) PROVE TypeOK'
  BY <1>3 DEF TypeOK, Unregister, Endpoint
<1>4. ASSUME NEW u \in Users, NEW k \in Contacts, NEW ttl \in TTLs,
             Register(u, k, ttl)
      PROVE TypeOK'
  BY <1>4 DEF TypeOK, Register, Endpoint
<1>5. ASSUME NEW c \in Calls, NEW u \in Users, WaitRegistered(c, u) PROVE TypeOK'
  BY <1>5, CheckOrParkType DEF TypeOK, WaitRegistered, Kinds
<1>6. ASSUME NEW c \in Calls, NEW u \in Users, NEW r \in Contacts,
             WaitRouteChange(c, u, r)
      PROVE TypeOK'
  BY <1>6, CheckOrParkType DEF TypeOK, WaitRouteChange, Kinds
<1>7. ASSUME NEW c \in Calls, Wake(c) PROVE TypeOK'
  <2>1. /\ wait[c].user \in Users
        /\ wait[c].route \in Contacts \cup {NoContact}
    BY <1>7 DEF Wake, Woken, TypeOK, WaitStates, Idle
  <2>2. CASE wait[c].kind = "registered"
    <3> DEFINE res == IF LiveContact(wait[c].user) = NoContact
                        THEN "ErrUnknownUser" ELSE LiveContact(wait[c].user)
    <3>1. res \in Contacts \cup {"ErrUnknownUser", "ctx.Err"}
      BY <2>1, LiveContactType
    <3>2. Returned(res) \in WaitStates
      BY <3>1 DEF Returned, WaitStates
    <3>3. wait' = [wait EXCEPT ![c] = Returned(res)]
      BY <1>7, <2>2 DEF Wake
    <3> QED BY <1>7, <2>2, <3>2, <3>3 DEF Wake, TypeOK
  <2>3. CASE wait[c].kind # "registered"
    BY <1>7, <2>1, <2>3, CheckOrParkType DEF Wake, Kinds, TypeOK
  <2> QED BY <2>2, <2>3
<1>8. ASSUME NEW c \in Calls, GiveUp(c) PROVE TypeOK'
  <2>1. wait[c].user \in Users
    BY <1>8 DEF GiveUp, TypeOK, WaitStates, Idle
  <2>2. Returned("ctx.Err") \in WaitStates
    BY DEF Returned, WaitStates
  <2> QED BY <1>8, <2>1, <2>2 DEF GiveUp, TypeOK
<1>9. CASE Tick
  BY <1>9 DEF TypeOK, Tick
<1>10. CASE UNCHANGED vars
  BY <1>10 DEF TypeOK, vars
<1> QED BY <1>1, <1>2, <1>3, <1>4, <1>5, <1>6, <1>7, <1>8, <1>9, <1>10 DEF Next

(* Only Provision and Deprovision touch the index or bind a device.        *)
LEMMA DeviceStep == TypeOK /\ DeviceIndexed /\ [Next]_vars => DeviceIndexed'
<1> SUFFICES ASSUME TypeOK, DeviceIndexed, [Next]_vars PROVE DeviceIndexed'
  OBVIOUS
<1> USE RegistryAssumption
<1>1. ASSUME NEW u \in Users, NEW d \in Devices, Provision(u, d)
      PROVE DeviceIndexed'
  <2> SUFFICES ASSUME NEW e \in Devices, byDevice'[e] # NoUser
               PROVE  /\ byUser'[byDevice'[e]] # Absent
                      /\ byUser'[byDevice'[e]].device = e
    BY DEF DeviceIndexed
  <2>1. byUser'[u] # Absent /\ byUser'[u].device = d
    BY <1>1 DEF Provision, TypeOK, Endpoint
  <2>2. CASE e = d
    BY <1>1, <2>1, <2>2 DEF Provision, TypeOK, dropDevice
  <2>3. CASE e # d
    <3>1. byDevice'[e] = byDevice[e]
      BY <1>1, <2>3 DEF Provision, TypeOK, dropDevice, Endpoint
    <3>2. byDevice[e] # u
      BY <1>1, <2>3, <3>1 DEF Provision, TypeOK, dropDevice, DeviceIndexed, Endpoint
    <3> QED BY <1>1, <3>1, <3>2 DEF Provision, TypeOK, DeviceIndexed
  <2> QED BY <2>2, <2>3
<1>2. ASSUME NEW u \in Users, Deprovision(u) PROVE DeviceIndexed'
  BY <1>2 DEF Deprovision, dropDevice, DeviceIndexed, TypeOK, Endpoint
<1>3. ASSUME NEW u \in Users, Unregister(u) PROVE DeviceIndexed'
  BY <1>3 DEF Unregister, DeviceIndexed, TypeOK, Endpoint
<1>4. ASSUME NEW u \in Users, NEW k \in Contacts, NEW ttl \in TTLs,
             Register(u, k, ttl)
      PROVE DeviceIndexed'
  BY <1>4 DEF Register, DeviceIndexed, TypeOK, Endpoint
<1>5. CASE UNCHANGED <<byUser, byDevice>>
  BY <1>5 DEF DeviceIndexed
<1> QED
  BY <1>1, <1>2, <1>3, <1>4, <1>5
     DEF Next, vars, WaitRegistered, WaitRouteChange, Wake, GiveUp, Tick

(* Time only takes contacts away, so a wait it satisfies was satisfied.    *)
LEMMA TickSatisfies ==
  ASSUME TypeOK, NEW u \in Users, NEW r, Tick, Satisfies(u, r)'
  PROVE  Satisfies(u, r)
<1> USE RegistryAssumption
<1>1. byUser' = byUser /\ now' = now + 1 /\ now \in Nat
  BY DEF Tick, TypeOK
<1>2. byUser[u] # Absent /\ byUser[u] \in Endpoint
  BY <1>1 DEF Satisfies, LiveContact, TypeOK
<1>3. byUser[u].contact # NoContact /\ byUser[u].expires > now + 1
  BY <1>1, <1>2 DEF Satisfies, LiveContact, viewLocked, Endpoint
<1>4. byUser[u].contact \notin {NoContact, r}
  BY <1>1, <1>2, <1>3 DEF Satisfies, LiveContact, viewLocked, Endpoint
<1> QED BY <1>1, <1>2, <1>3, <1>4 DEF Satisfies, LiveContact, viewLocked, Endpoint

(* A user whose endpoint loses its contact satisfies no wait.              *)
LEMMA SameSatisfies ==
  ASSUME NEW u \in Users, NEW r, byUser'[u] = byUser[u], now' = now
  PROVE  Satisfies(u, r)' <=> Satisfies(u, r)
BY DEF Satisfies, LiveContact, viewLocked

(* No channel is left open by a call that is not blocked on that user, and *)
(* none is open while a contact would satisfy it.                          *)
LEMMA WaitersStep ==
  TypeOK /\ NoWaiterLeak /\ NoLostWakeup /\ [Next]_vars
    => NoWaiterLeak' /\ NoLostWakeup'
<1> SUFFICES ASSUME TypeOK, NoWaiterLeak, NoLostWakeup, [Next]_vars
             PROVE  NoWaiterLeak' /\ NoLostWakeup'
  OBVIOUS
<1> USE RegistryAssumption
\* checkOrPark parks only a call whose test failed, and parks it where it says
<1>a. ASSUME NEW c \in Calls, NEW k \in Kinds, NEW u \in Users,
             NEW r \in Contacts \cup {NoContact}, checkOrPark(c, k, u, r),
             \A v \in Users : c \notin waiters[v],
             UNCHANGED <<byUser, byDevice, now>>
      PROVE  NoWaiterLeak' /\ NoLostWakeup'
  <2>0. \A v \in Users : \A s : Satisfies(v, s)' <=> Satisfies(v, s)
    BY <1>a, SameSatisfies
  <2>1. CASE Satisfies(u, r)
    <3>1. /\ waiters' = waiters
          /\ \A x \in Calls \ {c} : wait'[x] = wait[x]
          /\ wait'[c].pc = "returned"
      BY <1>a, <2>1 DEF checkOrPark, TypeOK, Returned
    <3>2. \A x \in Calls : wait[x].pc = "blocked" => wait[x].user \in Users
      BY DEF TypeOK, WaitStates, Idle
    <3>3. NoWaiterLeak'
      BY <1>a, <3>1 DEF NoWaiterLeak, TypeOK
    <3>4. NoLostWakeup'
      BY <2>0, <3>1, <3>2 DEF NoLostWakeup
    <3> QED BY <3>3, <3>4
  <2>2. CASE ~Satisfies(u, r)
    <3>1. /\ \A v \in Users \ {u} : waiters'[v] = waiters[v]
          /\ waiters'[u] = waiters[u] \cup {c}
          /\ \A x \in Calls \ {c} : wait'[x] = wait[x]
          /\ wait'[c] = Blocked(k, u, r)
      BY <1>a, <2>2 DEF checkOrPark, TypeOK
    <3>2. wait'[c].pc = "blocked" /\ wait'[c].user = u /\ wait'[c].route = r
      BY <3>1 DEF Blocked
    <3>3. NoWaiterLeak'
      BY <1>a, <3>1, <3>2 DEF NoWaiterLeak, TypeOK
    <3>4. NoLostWakeup'
      <4> SUFFICES ASSUME NEW x \in Calls, wait'[x].pc = "blocked",
                          x \in waiters'[wait'[x].user]
                   PROVE  ~Satisfies(wait[x].user, wait[x].route)'
        BY DEF NoLostWakeup
      <4>0. \A s : Satisfies(u, s)' <=> Satisfies(u, s)
        BY <2>0
      <4>1. CASE x = c
        <5>1. ~Satisfies(u, r)'
          BY <2>2, <4>0
        <5>2. Satisfies(wait[c].user, wait[c].route)' <=> Satisfies(u, r)'
          BY <3>2 DEF Satisfies, LiveContact, viewLocked
        <5> QED BY <4>1, <5>1, <5>2
      <4>2. CASE x # c
        <5>1. wait'[x] = wait[x] /\ wait[x].user \in Users
          BY <3>1, <4>2 DEF TypeOK, WaitStates, Idle
        <5>2. x \in waiters[wait[x].user]
          BY <3>1, <4>2, <5>1
        <5>3. ~Satisfies(wait[x].user, wait[x].route)
          BY <4>2, <5>1, <5>2 DEF NoLostWakeup
        <5>4. Satisfies(wait[x].user, wait[x].route)' <=> Satisfies(wait[x].user, wait[x].route)
          BY <1>a, <5>1 DEF Satisfies, LiveContact, viewLocked
        <5> QED BY <5>3, <5>4
      <4> QED BY <4>1, <4>2
    <3> QED BY <3>3, <3>4
  <2> QED BY <2>1, <2>2
\* a method that opens no channel and changes only endpoints of u
<1>b. ASSUME NEW u \in Users, wait' = wait, now' = now,
             waiters' = waiters \/ waiters' = [waiters EXCEPT ![u] = {}],
             \A v \in Users \ {u} : byUser'[v] = byUser[v],
             waiters'[u] = {} \/ \A r : Satisfies(u, r)' => Satisfies(u, r)
      PROVE  NoWaiterLeak' /\ NoLostWakeup'
  <2>1. NoWaiterLeak'
    BY <1>b DEF NoWaiterLeak, TypeOK
  <2>2. ASSUME NEW x \in Calls, wait[x].pc = "blocked",
               x \in waiters'[wait[x].user]
        PROVE  ~Satisfies(wait[x].user, wait[x].route)'
    <3>1. wait[x].user \in Users
      BY <2>2 DEF TypeOK, WaitStates, Idle
    <3>2. x \in waiters[wait[x].user]
      BY <1>b, <2>2, <3>1 DEF TypeOK
    <3>3. ~Satisfies(wait[x].user, wait[x].route)
      BY <2>2, <3>2 DEF NoLostWakeup
    <3>4. CASE wait[x].user = u
      BY <1>b, <2>2, <3>3, <3>4
    <3>5. CASE wait[x].user # u
      BY <1>b, <3>1, <3>3, <3>5, SameSatisfies
    <3> QED BY <3>4, <3>5
  <2> QED BY <1>b, <2>1, <2>2 DEF NoLostWakeup
<1>1. ASSUME NEW u \in Users, NEW d \in Devices, Provision(u, d)
      PROVE  NoWaiterLeak' /\ NoLostWakeup'
  <2>1. \A r : Satisfies(u, r)' => Satisfies(u, r)
    BY <1>1 DEF Provision, Satisfies, LiveContact, viewLocked, TypeOK, Endpoint
  <2>2. \A v \in Users \ {u} : byUser'[v] = byUser[v]
    BY <1>1 DEF Provision, TypeOK
  <2> QED BY <1>1, <1>b, <2>1, <2>2 DEF Provision
<1>2. ASSUME NEW u \in Users, Deprovision(u)
      PROVE  NoWaiterLeak' /\ NoLostWakeup'
  <2>1. \A r : ~Satisfies(u, r)'
    BY <1>2 DEF Deprovision, Satisfies, LiveContact, TypeOK
  <2>2. \A v \in Users \ {u} : byUser'[v] = byUser[v]
    BY <1>2 DEF Deprovision, TypeOK
  <2> QED BY <1>2, <1>b, <2>1, <2>2 DEF Deprovision
<1>3. ASSUME NEW u \in Users, Unregister(u)
      PROVE  NoWaiterLeak' /\ NoLostWakeup'
  <2>1. \A r : ~Satisfies(u, r)'
    BY <1>3 DEF Unregister, Satisfies, LiveContact, viewLocked, TypeOK, Endpoint
  <2>2. \A v \in Users \ {u} : byUser'[v] = byUser[v]
    BY <1>3 DEF Unregister, TypeOK
  <2> QED BY <1>3, <1>b, <2>1, <2>2 DEF Unregister
<1>4. ASSUME NEW u \in Users, NEW k \in Contacts, NEW ttl \in TTLs,
             Register(u, k, ttl)
      PROVE  NoWaiterLeak' /\ NoLostWakeup'
  <2>1. waiters'[u] = {} /\ \A v \in Users \ {u} : byUser'[v] = byUser[v]
    BY <1>4 DEF Register, TypeOK
  <2> QED BY <1>4, <1>b, <2>1 DEF Register
<1>5. ASSUME NEW c \in Calls, NEW u \in Users, WaitRegistered(c, u)
      PROVE  NoWaiterLeak' /\ NoLostWakeup'
  <2>1. \A v \in Users : c \notin waiters[v]
    BY <1>5 DEF WaitRegistered, NoWaiterLeak
  <2> QED BY <1>5, <1>a, <2>1 DEF WaitRegistered, Kinds
<1>6. ASSUME NEW c \in Calls, NEW u \in Users, NEW r \in Contacts,
             WaitRouteChange(c, u, r)
      PROVE  NoWaiterLeak' /\ NoLostWakeup'
  <2>1. \A v \in Users : c \notin waiters[v]
    BY <1>6 DEF WaitRouteChange, NoWaiterLeak
  <2> QED BY <1>6, <1>a, <2>1 DEF WaitRouteChange, Kinds
<1>7. ASSUME NEW c \in Calls, Wake(c)
      PROVE  NoWaiterLeak' /\ NoLostWakeup'
  <2>1. /\ wait[c].user \in Users
        /\ wait[c].route \in Contacts \cup {NoContact}
    BY <1>7 DEF Wake, Woken, TypeOK, WaitStates, Idle
  <2>2. \A v \in Users : c \notin waiters[v]
    BY <1>7 DEF Wake, Woken, NoWaiterLeak
  <2>3. CASE wait[c].kind = "registered"
    <3>1. /\ \A x \in Calls \ {c} : wait'[x] = wait[x]
          /\ wait'[c].pc = "returned"
          /\ waiters' = waiters
      BY <1>7, <2>3 DEF Wake, TypeOK, Returned
    <3>2. \A v \in Users : \A s : Satisfies(v, s)' <=> Satisfies(v, s)
      BY <1>7, SameSatisfies DEF Wake
    <3>3. \A x \in Calls : wait[x].pc = "blocked" => wait[x].user \in Users
      BY DEF TypeOK, WaitStates, Idle
    <3> QED BY <2>2, <3>1, <3>2, <3>3 DEF NoWaiterLeak, NoLostWakeup, TypeOK
  <2>4. CASE wait[c].kind # "registered"
    BY <1>7, <1>a, <2>1, <2>2, <2>4 DEF Wake, Kinds
  <2> QED BY <2>3, <2>4
<1>8. ASSUME NEW c \in Calls, GiveUp(c)
      PROVE  NoWaiterLeak' /\ NoLostWakeup'
  <2>1. \A x \in Calls : wait[x].pc = "blocked" => wait[x].user \in Users
    BY DEF TypeOK, WaitStates, Idle
  <2>2. /\ \A x \in Calls \ {c} : wait'[x] = wait[x]
        /\ wait'[c].pc = "returned"
        /\ \A v \in Users : waiters'[v] \subseteq waiters[v]
        /\ \A v \in Users : c \notin waiters'[v]
    BY <1>8, <2>1 DEF GiveUp, TypeOK, Returned, NoWaiterLeak
  <2>3. \A v \in Users : \A s : Satisfies(v, s)' <=> Satisfies(v, s)
    BY <1>8, SameSatisfies DEF GiveUp
  <2> QED BY <2>1, <2>2, <2>3 DEF NoWaiterLeak, NoLostWakeup, TypeOK
<1>9. CASE Tick
  <2>1. \A x \in Calls : wait[x].pc = "blocked" => wait[x].user \in Users
    BY DEF TypeOK, WaitStates, Idle
  <2>2. wait' = wait /\ waiters' = waiters
    BY <1>9 DEF Tick
  <2>3. \A v \in Users : \A s : Satisfies(v, s)' => Satisfies(v, s)
    BY <1>9, TickSatisfies
  <2> QED BY <2>1, <2>2, <2>3 DEF NoWaiterLeak, NoLostWakeup
<1>10. CASE UNCHANGED vars
  <2>1. \A x \in Calls : wait[x].pc = "blocked" => wait[x].user \in Users
    BY DEF TypeOK, WaitStates, Idle
  <2>2. \A v \in Users : \A s : Satisfies(v, s)' => Satisfies(v, s)
    BY <1>10, SameSatisfies DEF vars
  <2> QED BY <1>10, <2>1, <2>2 DEF NoWaiterLeak, NoLostWakeup, vars
<1> QED BY <1>1, <1>2, <1>3, <1>4, <1>5, <1>6, <1>7, <1>8, <1>9, <1>10 DEF Next

(* The initial registry, empty and with nobody waiting, satisfies IInv.    *)
LEMMA InitIInv == Init => IInv
<1> SUFFICES ASSUME Init PROVE IInv
  OBVIOUS
<1> USE RegistryAssumption
<1>1. TypeOK
  BY DEF Init, TypeOK, WaitStates, Idle
<1>2. DeviceIndexed /\ NoWaiterLeak /\ NoLostWakeup
  BY DEF Init, DeviceIndexed, NoWaiterLeak, NoLostWakeup, Idle
<1> QED BY <1>1, <1>2 DEF IInv

(* The conjunction of the registry's invariants is inductive.              *)
LEMMA RegistryInvariant == Spec => []IInv
<1>1. IInv /\ [Next]_vars => IInv'
  BY TypeStep, DeviceStep, WaitersStep DEF IInv
<1> QED BY <1>1, InitIInv, PTL DEF Spec

(* Every reachable registry is well typed.                                 *)
THEOREM RegistryTypeOK == Spec => []TypeOK
<1>1. IInv => TypeOK
  BY DEF IInv
<1> QED BY <1>1, RegistryInvariant, PTL

(* LookupDevice never dereferences a missing endpoint, whatever order      *)
(* Provision and Deprovision are called in.                                *)
THEOREM RegistryDeviceIndexed == Spec => []DeviceIndexed
<1>1. IInv => DeviceIndexed
  BY DEF IInv
<1> QED BY <1>1, RegistryInvariant, PTL

(* No call stays parked while the contact it waits for is live, for any    *)
(* number of calls, users and registrations.                               *)
THEOREM RegistryNoLostWakeup == Spec => []NoLostWakeup
<1>1. IInv => NoLostWakeup
  BY DEF IInv
<1> QED BY <1>1, RegistryInvariant, PTL

(* No channel outlives the wait it was made for.                           *)
THEOREM RegistryNoWaiterLeak == Spec => []NoWaiterLeak
<1>1. IInv => NoWaiterLeak
  BY DEF IInv
<1> QED BY <1>1, RegistryInvariant, PTL

(* The bookkeeping as a whole: IInv is what it says.                       *)
THEOREM RegistryIsSound == Spec => []RegistrySound
<1>1. IInv => RegistrySound
  BY DEF IInv, RegistrySound
<1> QED BY <1>1, RegistryInvariant, PTL
=============================================================================
