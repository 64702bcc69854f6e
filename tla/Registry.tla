------------------------------ MODULE Registry ------------------------------
(***************************************************************************)
(* The endpoint registry (server/internal/registry/registry.go): which SIP *)
(* users exist, which device wakes each of them, which contact each is     *)
(* registered at, and the calls blocked until a user registers             *)
(* (WaitRegistered) or registers somewhere else (WaitRouteChange).         *)
(*                                                                         *)
(* Every method runs under one mutex, so each is one step; a waiting call  *)
(* is two: the check that parks it on a channel, and what it does once the *)
(* channel is closed or its context ends.  A channel is named by the call  *)
(* that made it, since a call waits on one channel at a time: the call is  *)
(* in waiters[u] while the channel is open, and blocked without being      *)
(* there once notifyLocked has closed it.                                  *)
(***************************************************************************)
EXTENDS Integers

CONSTANTS Users, Devices, Contacts,
          Calls,                \* goroutines that may wait for a registration
          NoUser, NoDevice, NoContact, Absent,
          TTLs,                 \* lifetimes a REGISTER may be granted
          MaxNow                \* bound on the clock

ASSUME RegistryAssumption ==
  /\ NoUser \notin Users
  /\ NoDevice \notin Devices
  /\ NoContact \notin Contacts
  /\ TTLs \subseteq Nat \ {0}
  /\ MaxNow \in Nat
  /\ Absent \notin [device : Devices \cup {NoDevice},
                    contact : Contacts \cup {NoContact}, expires : Int]

VARIABLES
  byUser,     \* Registry.byUser: user -> *Endpoint, Absent when there is none
  byDevice,   \* Registry.byDevice: device -> user, NoUser when there is none
  waiters,    \* Registry.waiters: user -> the calls whose channel is open
  now,        \* the clock
  wait        \* what each call is doing

regVars == <<byUser, byDevice, waiters>>
vars == <<byUser, byDevice, waiters, now, wait>>

Endpoint == [device : Devices \cup {NoDevice},
             contact : Contacts \cup {NoContact}, expires : Int]

(* A call's use of the registry: idle, blocked on its channel for user,    *)
(* or returned with a contact, with ErrUnknownUser or with ctx.Err().      *)
(* route is NoContact in WaitRegistered, whose test "any live contact" is  *)
(* then WaitRouteChange's "a live contact other than route".               *)
Kinds == {"registered", "routeChange"}
Idle == [pc |-> "idle"]
Blocked(k, u, r) == [pc |-> "blocked", kind |-> k, user |-> u, route |-> r]
Returned(res) == [pc |-> "returned", result |-> res]

WaitStates ==
  {Idle} \cup [pc : {"blocked"}, kind : Kinds, user : Users,
               route : Contacts \cup {NoContact}]
         \cup [pc : {"returned"},
               result : Contacts \cup {"ErrUnknownUser", "ctx.Err"}]

-----------------------------------------------------------------------------
(* What an endpoint is reported as now: an expired contact is cleared.     *)
viewLocked(ep) ==
  IF ep.contact # NoContact /\ ~(ep.expires > now)
    THEN [ep EXCEPT !.contact = NoContact, !.expires = 0]
    ELSE ep

(* The live contact of a user, NoContact when it has none.                 *)
LiveContact(u) ==
  IF byUser[u] = Absent THEN NoContact ELSE viewLocked(byUser[u]).contact

(* A live contact that ends a wait which already knows route.              *)
Satisfies(u, route) == LiveContact(u) \notin {NoContact, route}

(* LookupDevice: the endpoint a device index entry leads to.               *)
LookupDevice(d) == viewLocked(byUser[byDevice[d]])

-----------------------------------------------------------------------------
Init ==
  /\ byUser = [u \in Users |-> Absent]
  /\ byDevice = [d \in Devices |-> NoUser]
  /\ waiters = [u \in Users |-> {}]
  /\ now = 0
  /\ wait = [c \in Calls |-> Idle]

(* byDevice without the entry of the device the user has until now.        *)
dropDevice(u) ==
  IF byUser[u] # Absent /\ byUser[u].device # NoDevice
    THEN [byDevice EXCEPT ![byUser[u].device] = NoUser]
    ELSE byDevice

Provision(u, d) ==
  /\ byUser' = [byUser EXCEPT ![u] =
       IF @ = Absent
         THEN [device |-> d, contact |-> NoContact, expires |-> 0]
         ELSE [@ EXCEPT !.device = d]]
  /\ byDevice' = [dropDevice(u) EXCEPT ![d] = u]
  /\ UNCHANGED <<waiters, now, wait>>

Deprovision(u) ==
  /\ byDevice' = dropDevice(u)
  /\ byUser' = [byUser EXCEPT ![u] = Absent]
  /\ UNCHANGED <<waiters, now, wait>>

(* Mutant of Register: the notifyLocked call is missing.                   *)
Register_NoNotify(u, contact, ttl) ==
  /\ byUser[u] # Absent
  /\ byUser' = [byUser EXCEPT ![u] =
       [device |-> @.device, contact |-> contact, expires |-> now + ttl]]
  /\ UNCHANGED <<byDevice, waiters, now, wait>>

(* A REGISTER for an unknown user is refused and changes nothing.          *)
Register(u, contact, ttl) ==
  /\ byUser[u] # Absent
  /\ byUser' = [byUser EXCEPT ![u] =
       [device |-> @.device, contact |-> contact, expires |-> now + ttl]]
  /\ waiters' = [waiters EXCEPT ![u] = {}]        \* notifyLocked
  /\ UNCHANGED <<byDevice, now, wait>>

Unregister(u) ==
  /\ byUser[u] # Absent
  /\ byUser' = [byUser EXCEPT ![u] =
       [device |-> @.device, contact |-> NoContact, expires |-> 0]]
  /\ UNCHANGED <<byDevice, waiters, now, wait>>

(* The check and, when it fails, the append to waiters: one critical       *)
(* section in both WaitRegistered and WaitRouteChange.                     *)
checkOrPark(c, k, u, route) ==
  IF Satisfies(u, route)
    THEN /\ wait' = [wait EXCEPT ![c] = Returned(LiveContact(u))]
         /\ UNCHANGED waiters
    ELSE /\ wait' = [wait EXCEPT ![c] = Blocked(k, u, route)]
         /\ waiters' = [waiters EXCEPT ![u] = @ \cup {c}]

WaitRegistered(c, u) ==
  /\ wait[c].pc # "blocked"
  /\ checkOrPark(c, "registered", u, NoContact)
  /\ UNCHANGED <<byUser, byDevice, now>>

WaitRouteChange(c, u, route) ==
  /\ wait[c].pc # "blocked"
  /\ checkOrPark(c, "routeChange", u, route)
  /\ UNCHANGED <<byUser, byDevice, now>>

(* The channel of a blocked call has been closed.                          *)
Woken(c) == wait[c].pc = "blocked" /\ c \notin waiters[wait[c].user]

(* WaitRegistered looks the user up once: the registration that closed the *)
(* channel may be gone again.  WaitRouteChange goes round its loop.        *)
Wake(c) ==
  /\ Woken(c)
  /\ LET w == wait[c] IN
       IF w.kind = "registered"
         THEN /\ wait' = [wait EXCEPT ![c] = Returned(
                    IF LiveContact(w.user) = NoContact
                      THEN "ErrUnknownUser" ELSE LiveContact(w.user))]
              /\ UNCHANGED waiters
         ELSE checkOrPark(c, "routeChange", w.user, w.route)
  /\ UNCHANGED <<byUser, byDevice, now>>

(* Mutant of GiveUp: dropWaiterLocked is missing.                          *)
GiveUp_Kept(c) ==
  /\ wait[c].pc = "blocked"
  /\ wait' = [wait EXCEPT ![c] = Returned("ctx.Err")]
  /\ UNCHANGED <<byUser, byDevice, waiters, now>>

(* ctx.Done: select may pick it although the channel is closed as well.    *)
GiveUp(c) ==
  /\ wait[c].pc = "blocked"
  /\ waiters' = [waiters EXCEPT ![wait[c].user] = @ \ {c}]   \* dropWaiterLocked
  /\ wait' = [wait EXCEPT ![c] = Returned("ctx.Err")]
  /\ UNCHANGED <<byUser, byDevice, now>>

Tick ==
  /\ now < MaxNow
  /\ now' = now + 1
  /\ UNCHANGED <<byUser, byDevice, waiters, wait>>

Next ==
  \/ \E u \in Users, d \in Devices : Provision(u, d)
  \/ \E u \in Users : Deprovision(u) \/ Unregister(u)
  \/ \E u \in Users, k \in Contacts, ttl \in TTLs : Register(u, k, ttl)
  \/ \E c \in Calls, u \in Users : WaitRegistered(c, u)
  \/ \E c \in Calls, u \in Users, r \in Contacts : WaitRouteChange(c, u, r)
  \/ \E c \in Calls : Wake(c) \/ GiveUp(c)
  \/ Tick

(* A goroutine whose channel is closed is runnable and is scheduled.       *)
Fairness == \A c \in Calls : WF_vars(Wake(c))

Spec == Init /\ [][Next]_vars /\ Fairness

-----------------------------------------------------------------------------
(* Type invariant of the registry's maps and of the waiting calls.         *)
TypeOK ==
  /\ byUser \in [Users -> Endpoint \cup {Absent}]
  /\ byDevice \in [Devices -> Users \cup {NoUser}]
  /\ waiters \in [Users -> SUBSET Calls]
  /\ now \in Nat
  /\ wait \in [Calls -> WaitStates]

(* Whatever order devices are provisioned, moved between users and         *)
(* removed in, an entry of the device index leads to an existing endpoint  *)
(* that is woken via that very device: LookupDevice dereferences           *)
(* byUser[user] without a nil check.                                       *)
DeviceIndexed ==
  \A d \in Devices : byDevice[d] # NoUser =>
    /\ byUser[byDevice[d]] # Absent
    /\ byUser[byDevice[d]].device = d

(* No lost wake-up: a call still parked on an open channel is one whose    *)
(* user really has no live contact it could use, whichever way the check,  *)
(* the registrations and the expiries interleaved.                         *)
NoLostWakeup ==
  \A c \in Calls :
    wait[c].pc = "blocked" /\ c \in waiters[wait[c].user]
      => ~Satisfies(wait[c].user, wait[c].route)

(* No channel is left behind: every open channel belongs to a call blocked *)
(* on that very user, so a call that gave up or moved on has been dropped  *)
(* and close is never sent to a channel nobody reads.                      *)
NoWaiterLeak ==
  \A u \in Users : \A c \in waiters[u] :
    wait[c].pc = "blocked" /\ wait[c].user = u

(* The registry's bookkeeping, whatever races: the index leads to the       *)
(* device it names, nobody sleeps through a registration, and nobody who    *)
(* has gone is left on a list.                                             *)
RegistrySound == TypeOK /\ DeviceIndexed /\ NoLostWakeup /\ NoWaiterLeak

(* A call waiting for a user that is reachable returns, unless the user    *)
(* stops being reachable first: the woken app's INVITE proceeds.           *)
WaitEnds ==
  \A c \in Calls, u \in Users :
    (wait[c].pc = "blocked" /\ wait[c].user = u /\ Satisfies(u, wait[c].route))
      ~> (wait[c].pc # "blocked" \/ LiveContact(u) = NoContact
            \/ ~Satisfies(u, wait[c].route))
=============================================================================
