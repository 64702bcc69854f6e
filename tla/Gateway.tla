------------------------------ MODULE Gateway ------------------------------
(***************************************************************************)
(* The wake gateway (server/internal/gateway/gateway.go): one connection   *)
(* per device and client kind, the wakes and cancels it remembers for      *)
(* clients that connect late, and the goroutines that race over them:      *)
(*   - HandleConn, one per connection, from hello to detach;               *)
(*   - the call that wakes, cancels or forgets;                            *)
(*   - the admin hook that changes a device's credential or seat and then  *)
(*     closes its connections.                                             *)
(* A step ends where the code releases the gateway's mutex or writes a     *)
(* frame: a list copied under the lock is used later, frame by frame.      *)
(*                                                                         *)
(* Time is abstract: a remembered wake or cancel may expire at any moment. *)
(* Its entry then goes, since every reader skips and prunes an expired one *)
(* (an ack of it would still be forwarded to the call).  A connection is   *)
(* used once.                                                              *)
(***************************************************************************)
EXTENDS Integers, FiniteSets

CONSTANTS Devices, Calls, Conns,
          NoConn,
          Scenarios   \* the bounds considered, each a record of Bounds

ASSUME GatewayAssumption ==
  /\ NoConn \notin Conns
  /\ \A b \in Scenarios : b.creds \in Nat /\ b.seats \in BOOLEAN /\ b.wakes \in Nat

Kinds == {"app", "extension"}

VARIABLES
  scenario,   \* the bounds of this behaviour
  sessions,   \* Gateway.sessions: device -> kind -> attached connection
  pending,    \* Gateway.pending: device -> calls with a remembered wake
  cancelled,  \* Gateway.cancelled: device -> calls with a remembered cancel
  conn,       \* each connection's HandleConn: where it is, who it is for
  open,       \* connections whose socket this side has not closed
  sentWakes,  \* session.sentWakes: connection -> calls
  last,       \* the last frame about a call written to a connection
  failing,    \* superseded connections whose asynchronous fail is to come
  presence,   \* what the last presence event said of a device and kind
  call,       \* each call's use of the gateway
  hook,       \* the admin hook at work on a device
  cred, seat  \* external: the device store's credential and licence seat

gwVars == <<sessions, pending, cancelled, conn, open, sentWakes, last, failing, presence>>
vars == <<scenario, sessions, pending, cancelled, conn, open, sentWakes, last,
          failing, presence, call, hook, cred, seat>>

MaxCred == scenario.creds      \* how often a device's credential is rotated
SeatsMayGo == scenario.seats   \* whether a device may lose its licence seat
MaxWakes == scenario.wakes     \* how often one call wakes its device

(* Where a connection's handler is: it is in the session table, unless     *)
(* superseded, from attach until detach.                                   *)
AttachedPCs == {"attached", "welcoming", "wakes", "cancels", "up", "closing"}
PCs == AttachedPCs \cup {"idle", "authenticated", "licensed", "detached", "gone"}

(* A connection whose handler has replayed everything it had to.           *)
Up(c) == conn[c].pc = "up" /\ c \in open

snapshotLocked(d) == {sessions[d][k] : k \in Kinds} \ {NoConn}

-----------------------------------------------------------------------------
(* Frames.  A write to a closed connection fails and leaves no trace.      *)
send(c, k, frame) ==
  last' = IF c \in open THEN [last EXCEPT ![c][k] = frame] ELSE last

(* sendWake: once per call and connection, whatever came after the wake.   *)
sendWake(c, k) ==
  IF k \in sentWakes[c]
    THEN UNCHANGED <<sentWakes, last>>
    ELSE /\ sentWakes' = [sentWakes EXCEPT ![c] = @ \cup {k}]
         /\ send(c, k, "wake")

(* sendWake reports success to Wake when the frame was not refused.        *)
delivers(c, k) == k \in sentWakes[c] \/ c \in open

(* A loop over a copied list: its body for each entry, then what follows.  *)
After(todo, body, done) == IF todo = {} THEN done ELSE body

goto(c, pc, todo) == conn' = [conn EXCEPT ![c].pc = pc, ![c].todo = todo]

(* Once the cancels are replayed the session is up: its loops are started. *)
gotoLoop(c, todo) == goto(c, After(todo, "cancels", "up"), todo)

-----------------------------------------------------------------------------
Init ==
  /\ scenario \in Scenarios
  /\ sessions = [d \in Devices |-> [k \in Kinds |-> NoConn]]
  /\ pending = [d \in Devices |-> {}]
  /\ cancelled = [d \in Devices |-> {}]
  /\ conn \in [Conns -> {[pc |-> "idle", dev |-> d, kind |-> k, token |-> 0,
                          todo |-> {}] : d \in Devices, k \in Kinds}]
  /\ open = Conns
  /\ sentWakes = [c \in Conns |-> {}]
  /\ last = [c \in Conns |-> [k \in Calls |-> "none"]]
  /\ failing = {}
  /\ presence = [d \in Devices |-> [k \in Kinds |-> FALSE]]
  /\ call \in [Calls -> {[pc |-> "idle", dev |-> d, todo |-> {}, wakes |-> 0,
                          reached |-> {}] : d \in Devices}]
  /\ hook = [d \in Devices |-> [pc |-> "idle", todo |-> {}]]
  /\ cred = [d \in Devices |-> 0]
  /\ seat = [d \in Devices |-> TRUE]

-----------------------------------------------------------------------------
(* HandleConn.  A hello carries a token the device was given at some time; *)
(* one that is not the current credential is refused and the connection    *)
(* closed, and so is one whose device holds no seat.                       *)
Hello(c, token) ==
  /\ conn[c].pc = "idle"
  /\ token <= cred[conn[c].dev]
  /\ conn' = [conn EXCEPT ![c].pc = IF token = cred[conn[c].dev]      \* Authenticate
                                      THEN "authenticated" ELSE "gone",
                          ![c].token = token]
  /\ open' = IF token = cred[conn[c].dev] THEN open ELSE open \ {c}
  /\ UNCHANGED <<scenario, sessions, pending, cancelled, sentWakes, last, failing,
                 presence, call, hook, cred, seat>>

Licensed(c) ==
  /\ conn[c].pc = "authenticated"
  /\ IF seat[conn[c].dev]
       THEN goto(c, "licensed", {}) /\ UNCHANGED open
       ELSE goto(c, "gone", {}) /\ open' = open \ {c}
  /\ UNCHANGED <<scenario, sessions, pending, cancelled, sentWakes, last, failing,
                 presence, call, hook, cred, seat>>

(* Mutant of attach: the replaced connection is not failed.                *)
attach_KeepsOld(c) ==
  /\ conn[c].pc = "licensed"
  /\ sessions' = [sessions EXCEPT ![conn[c].dev][conn[c].kind] = c]
  /\ goto(c, "attached", {})
  /\ UNCHANGED <<scenario, pending, cancelled, open, sentWakes, last, failing, presence,
                 call, hook, cred, seat>>

(* attach: the table entry under the lock, the superseded connection's     *)
(* fail in a goroutine of its own.                                         *)
attach(c) ==
  /\ conn[c].pc = "licensed"
  /\ LET d == conn[c].dev
         k == conn[c].kind
     IN  /\ failing' = failing \cup ({sessions[d][k]} \ {NoConn})
         /\ sessions' = [sessions EXCEPT ![d][k] = c]
  /\ goto(c, "attached", {})
  /\ UNCHANGED <<scenario, pending, cancelled, open, sentWakes, last, presence, call,
                 hook, cred, seat>>

(* emitPresence, outside the lock, after attach and after detach.          *)
emitOnline(c) ==
  /\ conn[c].pc = "attached"
  /\ presence' = [presence EXCEPT ![conn[c].dev][conn[c].kind] = TRUE]
  /\ goto(c, "welcoming", {})
  /\ UNCHANGED <<scenario, sessions, pending, cancelled, open, sentWakes, last, failing,
                 call, hook, cred, seat>>

(* Mutant of pendingFor: nothing is replayed.                              *)
pendingFor_None(c) ==
  /\ conn[c].pc = "welcoming"
  /\ goto(c, IF c \in open THEN "wakes" ELSE "closing", {})
  /\ UNCHANGED <<scenario, sessions, pending, cancelled, open, sentWakes, last, failing,
                 presence, call, hook, cred, seat>>

(* The welcome is written (or fails on a closed socket and the handler     *)
(* returns), then pendingFor copies the wakes to replay.                   *)
pendingFor(c) ==
  /\ conn[c].pc = "welcoming"
  /\ IF c \in open THEN goto(c, "wakes", pending[conn[c].dev])
                    ELSE goto(c, "closing", {})
  /\ UNCHANGED <<scenario, sessions, pending, cancelled, open, sentWakes, last, failing, presence,
                 call, hook, cred, seat>>

replayWake(c, k) ==
  /\ conn[c].pc = "wakes"
  /\ k \in conn[c].todo
  /\ sendWake(c, k)
  /\ goto(c, "wakes", conn[c].todo \ {k})
  /\ UNCHANGED <<scenario, sessions, pending, cancelled, open, failing, presence, call,
                 hook, cred, seat>>

cancelsFor(c) ==
  /\ conn[c].pc = "wakes"
  /\ conn[c].todo = {}
  /\ gotoLoop(c, cancelled[conn[c].dev])
  /\ UNCHANGED <<scenario, sessions, pending, cancelled, open, sentWakes, last, failing, presence,
                 call, hook, cred, seat>>

replayCancel(c, k) ==
  /\ conn[c].pc = "cancels"
  /\ k \in conn[c].todo
  /\ send(c, k, "cancel")
  /\ gotoLoop(c, conn[c].todo \ {k})
  /\ UNCHANGED <<scenario, sessions, pending, cancelled, open, sentWakes, failing,
                 presence, call, hook, cred, seat>>

(* A wake_ack other than will_answer settles the wake: it is no longer     *)
(* replayed.  For a wake that is not pending the client is told so.        *)
handleAck(c, k) ==
  /\ Up(c)
  /\ k \in pending[conn[c].dev]
  /\ pending' = [pending EXCEPT ![conn[c].dev] = @ \ {k}]
  /\ UNCHANGED <<scenario, sessions, cancelled, conn, open, sentWakes, last, failing,
                 presence, call, hook, cred, seat>>

(* The client goes away, or is idle for three heartbeats and failed.       *)
ConnLost(c) ==
  /\ conn[c].pc \in AttachedPCs
  /\ c \in open
  /\ open' = open \ {c}
  /\ UNCHANGED <<scenario, sessions, pending, cancelled, conn, sentWakes, last, failing,
                 presence, call, hook, cred, seat>>

(* The read loop ends on a closed socket.                                  *)
ReadError(c) ==
  /\ conn[c].pc = "up"
  /\ c \notin open
  /\ goto(c, "closing", {})
  /\ UNCHANGED <<scenario, sessions, pending, cancelled, open, sentWakes, last, failing,
                 presence, call, hook, cred, seat>>

(* Mutant of detach: the entry is removed whoever owns it.                 *)
detach_Any(c) ==
  /\ conn[c].pc = "closing"
  /\ sessions' = [sessions EXCEPT ![conn[c].dev][conn[c].kind] = NoConn]
  /\ goto(c, "detached", {})
  /\ UNCHANGED <<scenario, pending, cancelled, open, sentWakes, last, failing, presence,
                 call, hook, cred, seat>>

(* detach: only the session that still owns the entry removes it, and only *)
(* that one reports the device offline.                                    *)
detach(c) ==
  /\ conn[c].pc = "closing"
  /\ LET d == conn[c].dev
         k == conn[c].kind
     IN  IF sessions[d][k] = c
           THEN /\ sessions' = [sessions EXCEPT ![d][k] = NoConn]
                /\ goto(c, "detached", {})
           ELSE /\ UNCHANGED sessions
                /\ goto(c, "gone", {})
  /\ UNCHANGED <<scenario, pending, cancelled, open, sentWakes, last, failing, presence,
                 call, hook, cred, seat>>

emitOffline(c) ==
  /\ conn[c].pc = "detached"
  /\ presence' = [presence EXCEPT ![conn[c].dev][conn[c].kind] = FALSE]
  /\ goto(c, "gone", {})
  /\ UNCHANGED <<scenario, sessions, pending, cancelled, open, sentWakes, last, failing,
                 call, hook, cred, seat>>

(* go old.fail(superseded).                                                *)
failSuperseded(c) ==
  /\ c \in failing
  /\ failing' = failing \ {c}
  /\ open' = open \ {c}
  /\ UNCHANGED <<scenario, sessions, pending, cancelled, conn, sentWakes, last, presence,
                 call, hook, cred, seat>>

-----------------------------------------------------------------------------
(* The call's side.  Each list of targets is copied under the lock.        *)
Wake(k) ==
  /\ call[k].pc \in {"idle", "cancelled"}
  /\ call[k].wakes < MaxWakes
  /\ LET d == call[k].dev IN
       /\ cancelled' = [cancelled EXCEPT ![d] = @ \ {k}]
       /\ pending' = [pending EXCEPT ![d] = @ \cup {k}]
       /\ call' = [call EXCEPT ![k] = [@ EXCEPT !.todo = snapshotLocked(d),
                     !.pc = After(snapshotLocked(d), "waking", "ringing"),
                     !.wakes = call[k].wakes + 1, !.reached = {}]]
  /\ UNCHANGED <<scenario, sessions, conn, open, sentWakes, last, failing, presence,
                 hook, cred, seat>>

WakeSend(k, c) ==
  /\ call[k].pc = "waking"
  /\ c \in call[k].todo
  /\ call' = [call EXCEPT ![k] = [@ EXCEPT !.todo = call[k].todo \ {c},
                !.pc = After(call[k].todo \ {c}, "waking", "ringing"),
                !.reached = IF delivers(c, k) THEN call[k].reached \cup {c} ELSE call[k].reached]]
  /\ sendWake(c, k)
  /\ UNCHANGED <<scenario, sessions, pending, cancelled, conn, open, failing, presence,
                 hook, cred, seat>>

CancelWake(k) ==
  /\ call[k].pc = "ringing"
  /\ LET d == call[k].dev IN
       /\ pending' = [pending EXCEPT ![d] = @ \ {k}]
       /\ cancelled' = [cancelled EXCEPT ![d] = @ \cup {k}]
       /\ call' = [call EXCEPT ![k] = [@ EXCEPT !.todo = snapshotLocked(d),
                     !.pc = After(snapshotLocked(d), "cancelling", "cancelled"),
                     !.reached = {}]]
  /\ UNCHANGED <<scenario, sessions, conn, open, sentWakes, last, failing, presence,
                 hook, cred, seat>>

CancelSend(k, c) ==
  /\ call[k].pc = "cancelling"
  /\ c \in call[k].todo
  /\ call' = [call EXCEPT ![k].todo = @ \ {c},
                ![k].pc = After(call[k].todo \ {c}, "cancelling", "cancelled")]
  /\ send(c, k, "cancel")
  /\ UNCHANGED <<scenario, sessions, pending, cancelled, conn, open, sentWakes, failing,
                 presence, hook, cred, seat>>

(* The call was answered or has ended: nobody is told.                     *)
ForgetWake(k) ==
  /\ call[k].pc = "ringing"
  /\ pending' = [pending EXCEPT ![call[k].dev] = @ \ {k}]
  /\ call' = [call EXCEPT ![k] = [@ EXCEPT !.pc = "forgotten", !.reached = {}]]
  /\ UNCHANGED <<scenario, sessions, cancelled, conn, open, sentWakes, last, failing,
                 presence, hook, cred, seat>>

Expire(d, k) ==
  /\ k \in pending[d] \cup cancelled[d]
  /\ pending' = [pending EXCEPT ![d] = @ \ {k}]
  /\ cancelled' = [cancelled EXCEPT ![d] = @ \ {k}]
  /\ UNCHANGED <<scenario, sessions, conn, open, sentWakes, last, failing, presence,
                 call, hook, cred, seat>>

-----------------------------------------------------------------------------
(* The store's write and then the hook: a claim rotates the credential and *)
(* calls Disconnect, a lost seat calls DisconnectWith.                     *)
RotateCredential(d) ==
  /\ hook[d].pc = "idle"
  /\ cred[d] < MaxCred
  /\ cred' = [cred EXCEPT ![d] = @ + 1]
  /\ hook' = [hook EXCEPT ![d].pc = "disconnect"]
  /\ UNCHANGED <<scenario, gwVars, call, seat>>

LoseSeat(d) ==
  /\ hook[d].pc = "idle"
  /\ SeatsMayGo /\ seat[d]
  /\ seat' = [seat EXCEPT ![d] = FALSE]
  /\ hook' = [hook EXCEPT ![d].pc = "disconnect"]
  /\ UNCHANGED <<scenario, gwVars, call, cred>>

DisconnectWith(d) ==
  /\ hook[d].pc = "disconnect"
  /\ hook' = [hook EXCEPT ![d] = [pc |-> After(snapshotLocked(d), "failing", "idle"),
                                  todo |-> snapshotLocked(d)]]
  /\ UNCHANGED <<scenario, gwVars, call, cred, seat>>

DisconnectFail(d, c) ==
  /\ hook[d].pc = "failing"
  /\ c \in hook[d].todo
  /\ open' = open \ {c}
  /\ hook' = [hook EXCEPT ![d].todo = @ \ {c},
                ![d].pc = After(hook[d].todo \ {c}, "failing", "idle")]
  /\ UNCHANGED <<scenario, sessions, pending, cancelled, conn, sentWakes, last, failing,
                 presence, call, cred, seat>>

-----------------------------------------------------------------------------
HandleConn(c) ==
  \/ \E token \in 0..MaxCred : Hello(c, token)
  \/ Licensed(c) \/ attach(c) \/ emitOnline(c) \/ pendingFor(c)
  \/ \E k \in Calls : replayWake(c, k) \/ replayCancel(c, k) \/ handleAck(c, k)
  \/ cancelsFor(c) \/ ReadError(c) \/ detach(c) \/ emitOffline(c)

CallStep(k) ==
  \/ Wake(k) \/ CancelWake(k) \/ ForgetWake(k)
  \/ \E c \in Conns : WakeSend(k, c) \/ CancelSend(k, c)

HookStep(d) ==
  \/ RotateCredential(d) \/ LoseSeat(d) \/ DisconnectWith(d)
  \/ \E c \in Conns : DisconnectFail(d, c)

Next ==
  \/ \E c \in Conns : HandleConn(c) \/ ConnLost(c) \/ failSuperseded(c)
  \/ \E k \in Calls : CallStep(k)
  \/ \E d \in Devices : HookStep(d)
  \/ \E d \in Devices, k \in Calls : Expire(d, k)

(* Goroutines are scheduled, and a handler whose socket is closed returns. *)
Fairness ==
  /\ \A c \in Conns : WF_vars(attach(c)) /\ WF_vars(emitOnline(c))
       /\ WF_vars(pendingFor(c)) /\ WF_vars(\E k \in Calls : replayWake(c, k))
       /\ WF_vars(cancelsFor(c)) /\ WF_vars(\E k \in Calls : replayCancel(c, k))
       /\ WF_vars(ReadError(c)) /\ WF_vars(detach(c))
       /\ WF_vars(emitOffline(c)) /\ WF_vars(failSuperseded(c))
  /\ \A d \in Devices : WF_vars(DisconnectWith(d))
       /\ WF_vars(\E c \in Conns : DisconnectFail(d, c))

Spec == Init /\ [][Next]_vars /\ Fairness

-----------------------------------------------------------------------------
(* Type invariant of the gateway's tables and of its goroutines.           *)
TypeOK ==
  /\ scenario \in Scenarios
  /\ sessions \in [Devices -> [Kinds -> Conns \cup {NoConn}]]
  /\ pending \in [Devices -> SUBSET Calls]
  /\ cancelled \in [Devices -> SUBSET Calls]
  /\ conn \in [Conns -> [pc : PCs, dev : Devices, kind : Kinds,
                         token : 0..MaxCred, todo : SUBSET Calls]]
  /\ open \subseteq Conns
  /\ sentWakes \in [Conns -> SUBSET Calls]
  /\ last \in [Conns -> [Calls -> {"none", "wake", "cancel"}]]
  /\ failing \subseteq Conns
  /\ presence \in [Devices -> [Kinds -> BOOLEAN]]
  /\ call \in [Calls -> [pc : {"idle", "waking", "ringing", "cancelling",
                               "cancelled", "forgotten"},
                         dev : Devices, todo : SUBSET Conns,
                         wakes : 0..MaxWakes, reached : SUBSET Conns]]
  /\ hook \in [Devices -> [pc : {"idle", "disconnect", "failing"},
                           todo : SUBSET Conns]]
  /\ cred \in [Devices -> 0..MaxCred]
  /\ seat \in [Devices -> BOOLEAN]

(* The table and the handlers agree: an entry is a connection of that very *)
(* device and kind whose handler has not detached, and a handler in its    *)
(* attached phase that is not in the table has been replaced, so it is     *)
(* closed or its fail is on the way.  detach's identity check is what      *)
(* keeps an old connection's end from removing the new one.                *)
TableSound ==
  /\ \A d \in Devices, k \in Kinds : sessions[d][k] # NoConn =>
       LET c == sessions[d][k] IN
         conn[c].pc \in AttachedPCs /\ conn[c].dev = d /\ conn[c].kind = k
  /\ \A c \in Conns :
       conn[c].pc \in AttachedPCs /\ sessions[conn[c].dev][conn[c].kind] # c
         => c \in failing \/ c \notin open

(* A client that is up has been told of every wake still in force for its  *)
(* device, whichever of Wake and its own connecting came first.            *)
WakeReachesAll ==
  \A c \in Conns, k \in Calls :
    /\ Up(c)
    /\ call[k].dev = conn[c].dev
    /\ call[k].pc = "ringing"
    /\ k \in pending[conn[c].dev]
    /\ sessions[conn[c].dev][conn[c].kind] = c
    => k \in sentWakes[c]

(* A client that is up is not left ringing for a cancelled call: once      *)
(* CancelWake has returned, and while the cancel is remembered, the last   *)
(* it heard of the call is the cancel, even if the wake was replayed to it *)
(* after the cancel was first sent, and even if it never saw the wake.     *)
CancelReachesAll ==
  \A c \in Conns, k \in Calls :
    /\ Up(c)
    /\ call[k].dev = conn[c].dev
    /\ call[k].pc = "cancelled"
    /\ k \in cancelled[conn[c].dev]
    /\ sessions[conn[c].dev][conn[c].kind] = c
    => last[c][k] = "cancel"

(* A client that is up knows of every call what the gateway still          *)
(* remembers: the wakes in force and the cancels, in whatever order the     *)
(* calls and its own connecting came.                                      *)
ReachesAll == WakeReachesAll /\ CancelReachesAll

(* A connection that has been replaced by a newer one of its kind is       *)
(* closed and its handler returns: attach fails the old session in a       *)
(* goroutine of its own, and the closed socket ends the read loop.         *)
ReplacedEnds ==
  \A c \in Conns :
    (conn[c].pc \in AttachedPCs /\ sessions[conn[c].dev][conn[c].kind] # c)
      ~> conn[c].pc = "gone"

(* "whatever holds the old token must reconnect with the new one or stop": *)
(* once the hook of a rotation has run, every session that is up and not   *)
(* about to be failed holds the current credential.                        *)
CredentialEnforced ==
  \A c \in Conns :
    Up(c) /\ hook[conn[c].dev].pc = "idle" /\ c \notin failing
      => conn[c].token = cred[conn[c].dev]

(* "from here a reconnect must not replay a call that is finished": once   *)
(* a call is forgotten no connection is sent its wake.                     *)
ForgottenNotRung ==
  [][\A c \in Conns, k \in Calls :
       call[k].pc = "forgotten" => ~(last[c][k] # "wake" /\ last'[c][k] = "wake")]_vars

(* "a fresh wake supersedes an earlier cancel of the same call": when Wake *)
(* returns, every connection it counts as reached and that is still open   *)
(* last heard the wake.                                                    *)
FreshWakeDelivered ==
  \A k \in Calls : call[k].pc = "ringing" =>
    \A c \in call[k].reached : Up(c) => last[c][k] = "wake"

(* "the newer session owns presence": with no event on the way, the last   *)
(* presence event of a device and kind says whether it has a session.      *)
PresenceTruthful ==
  \A d \in Devices, k \in Kinds :
    (\A c \in Conns : conn[c].dev = d /\ conn[c].kind = k
        => conn[c].pc \notin {"attached", "detached"})
      => (presence[d][k] <=> sessions[d][k] # NoConn)
=============================================================================
