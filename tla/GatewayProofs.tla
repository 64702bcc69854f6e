--------------------------- MODULE GatewayProofs ---------------------------
(***************************************************************************)
(* Proofs about the wake gateway: its session table and its handlers       *)
(* agree, and a client that is up has heard of every wake and cancel that  *)
(* the gateway still remembers.                                            *)
(***************************************************************************)
EXTENDS Gateway, TLAPS

ConnStates == [pc : PCs, dev : Devices, kind : Kinds, token : 0..MaxCred, todo : SUBSET Calls]
CallPCs == {"idle", "waking", "ringing", "cancelling", "cancelled", "forgotten"}
CallStates == [pc : CallPCs, dev : Devices, todo : SUBSET Conns, wakes : 0..MaxWakes,
               reached : SUBSET Conns]
HookStates == [pc : {"idle", "disconnect", "failing"}, todo : SUBSET Conns]

(* Where a handler or a call moves to, and what it keeps. *)
Moves(c, pc, todo) ==
  /\ conn' \in [Conns -> ConnStates]
  /\ \A e \in Conns \ {c} : conn'[e] = conn[e]
  /\ conn'[c].pc = pc /\ conn'[c].todo = todo
  /\ conn'[c].dev = conn[c].dev /\ conn'[c].kind = conn[c].kind

CallMoves(k, pc, todo) ==
  /\ call' \in [Calls -> CallStates]
  /\ \A j \in Calls \ {k} : call'[j] = call[j]
  /\ call'[k].pc = pc /\ call'[k].todo = todo /\ call'[k].dev = call[k].dev

(* The records goto, Hello and the steps of a call write. *)
Advanced(e, pc, todo) == [e EXCEPT !.pc = pc, !.todo = todo]
Greeted(e, pc, token) == [e EXCEPT !.pc = pc, !.token = token]
Woken(e, pc, todo, n) == [e EXCEPT !.todo = todo, !.pc = pc, !.wakes = n, !.reached = {}]
Sending(e, pc, todo, r) == [e EXCEPT !.todo = todo, !.pc = pc, !.reached = r]
Cancelling(e, pc, todo) == [e EXCEPT !.todo = todo, !.pc = pc]
Forgotten(e) == [e EXCEPT !.pc = "forgotten", !.reached = {}]

(* The fields of a session's record after a step of its handler.           *)
LEMMA ConnFields ==
  ASSUME NEW e \in ConnStates, NEW pc \in PCs, NEW todo \in SUBSET Calls
  PROVE  LET f == Advanced(e, pc, todo) IN
         f \in ConnStates /\ f.pc = pc /\ f.todo = todo /\ f.dev = e.dev /\ f.kind = e.kind
BY DEF ConnStates, Advanced

(* The fields of a session's record after its hello.                       *)
LEMMA HelloFields ==
  ASSUME NEW e \in ConnStates, NEW pc \in PCs, NEW token \in 0..MaxCred
  PROVE  LET f == Greeted(e, pc, token) IN
         f \in ConnStates /\ f.pc = pc /\ f.todo = e.todo /\ f.dev = e.dev /\ f.kind = e.kind
BY DEF ConnStates, Greeted

(* The fields of a call's record after Wake has looked at the sessions.    *)
LEMMA WokenFields ==
  ASSUME NEW e \in CallStates, NEW pc \in CallPCs, NEW todo \in SUBSET Conns, NEW n \in 0..MaxWakes
  PROVE  LET f == Woken(e, pc, todo, n) IN
         f \in CallStates /\ f.pc = pc /\ f.todo = todo /\ f.dev = e.dev
BY DEF CallStates, Woken

(* The fields of a call's record after one wake was sent.                  *)
LEMMA SendingFields ==
  ASSUME NEW e \in CallStates, NEW pc \in CallPCs, NEW todo \in SUBSET Conns, NEW r \in SUBSET Conns
  PROVE  LET f == Sending(e, pc, todo, r) IN
         f \in CallStates /\ f.pc = pc /\ f.todo = todo /\ f.dev = e.dev
BY DEF CallStates, Sending

(* The fields of a call's record while its wakes are cancelled.            *)
LEMMA CancellingFields ==
  ASSUME NEW e \in CallStates, NEW pc \in CallPCs, NEW todo \in SUBSET Conns
  PROVE  LET f == Cancelling(e, pc, todo) IN
         f \in CallStates /\ f.pc = pc /\ f.todo = todo /\ f.dev = e.dev
BY DEF CallStates, Cancelling

(* The fields of a call's record after ForgetWake.                         *)
LEMMA ForgottenFields ==
  ASSUME NEW e \in CallStates
  PROVE  LET f == Forgotten(e) IN
         f \in CallStates /\ f.pc = "forgotten" /\ f.todo = e.todo /\ f.dev = e.dev
BY DEF CallStates, Forgotten, CallPCs

(* A handler's goto moves its own session and no other.                    *)
LEMMA Goto ==
  ASSUME conn \in [Conns -> ConnStates], UNCHANGED scenario,
         NEW c \in Conns, NEW pc \in PCs, NEW todo \in SUBSET Calls, goto(c, pc, todo)
  PROVE  Moves(c, pc, todo)
<1> DEFINE f == Advanced(conn[c], pc, todo)
<1>1. f \in ConnStates /\ f.pc = pc /\ f.todo = todo /\ f.dev = conn[c].dev /\ f.kind = conn[c].kind
  <2>1. conn[c] \in ConnStates
    OBVIOUS
  <2> QED BY <2>1, ConnFields
<1>2. conn' = [conn EXCEPT ![c] = f]
  BY DEF goto, Advanced
<1>3. ConnStates' = ConnStates
  BY DEF ConnStates, MaxCred
<1> HIDE DEF f
<1>4. conn'[c] = f /\ \A e \in Conns \ {c} : conn'[e] = conn[e]
  BY <1>2
<1>5. conn' \in [Conns -> ConnStates]
  BY <1>1, <1>2
<1> QED BY <1>1, <1>4, <1>5 DEF Moves

(* A hello moves its own session: on with the current token, off           *)
(* otherwise.                                                              *)
LEMMA HelloMoves ==
  ASSUME TypeOK, NEW c \in Conns, NEW token \in 0..MaxCred, Hello(c, token)
  PROVE  /\ conn[c].pc = "idle"
         /\ \/ Moves(c, "authenticated", conn[c].todo) /\ open' = open
            \/ Moves(c, "gone", conn[c].todo) /\ open' = open \ {c}
<1> DEFINE pc == IF token = cred[conn[c].dev] THEN "authenticated" ELSE "gone"
           f == Greeted(conn[c], pc, token)
<1>0. conn \in [Conns -> ConnStates] /\ conn[c] \in ConnStates
  BY DEF TypeOK, ConnStates
<1>a. pc \in PCs
  BY DEF PCs
<1> HIDE DEF pc
<1>1. f \in ConnStates /\ f.pc = pc /\ f.todo = conn[c].todo /\ f.dev = conn[c].dev /\ f.kind = conn[c].kind
  BY <1>0, <1>a, HelloFields
<1>2. conn' = [conn EXCEPT ![c] = f]
  BY DEF Hello, Greeted, pc
<1>3. ConnStates' = ConnStates
  BY DEF ConnStates, MaxCred, Hello
<1> HIDE DEF f
<1>4. conn'[c] = f /\ \A e \in Conns \ {c} : conn'[e] = conn[e]
  BY <1>0, <1>2
<1>5. conn' \in [Conns -> ConnStates]
  BY <1>0, <1>1, <1>2
<1>6. Moves(c, pc, conn[c].todo)
  BY <1>1, <1>4, <1>5 DEF Moves
<1> QED BY <1>6 DEF pc, Hello

(* What each step of a handler does to its own state. *)
LEMMA HandlerMoves ==
  ASSUME TypeOK, NEW c \in Conns
  PROVE  /\ Licensed(c) => \/ Moves(c, "licensed", {}) /\ open' = open
                           \/ Moves(c, "gone", {}) /\ open' = open \ {c}
         /\ attach(c) => Moves(c, "attached", {})
         /\ emitOnline(c) => Moves(c, "welcoming", {})
         /\ pendingFor(c) => \/ c \in open /\ Moves(c, "wakes", pending[conn[c].dev])
                             \/ c \notin open /\ Moves(c, "closing", {})
         /\ cancelsFor(c) => IF cancelled[conn[c].dev] = {}
                             THEN Moves(c, "up", cancelled[conn[c].dev])
                             ELSE Moves(c, "cancels", cancelled[conn[c].dev])
         /\ ReadError(c) => Moves(c, "closing", {})
         /\ detach(c) => IF sessions[conn[c].dev][conn[c].kind] = c
                         THEN Moves(c, "detached", {}) ELSE Moves(c, "gone", {})
         /\ emitOffline(c) => Moves(c, "gone", {})
         /\ \A k \in Calls :
              /\ replayWake(c, k) => Moves(c, "wakes", conn[c].todo \ {k})
              /\ replayCancel(c, k) => IF conn[c].todo \ {k} = {}
                                       THEN Moves(c, "up", conn[c].todo \ {k})
                                       ELSE Moves(c, "cancels", conn[c].todo \ {k})
<1>0. conn \in [Conns -> ConnStates]
  BY DEF TypeOK, ConnStates
<1>1. conn[c].dev \in Devices /\ conn[c].todo \in SUBSET Calls
  BY <1>0 DEF ConnStates
<1>2. pending[conn[c].dev] \in SUBSET Calls /\ cancelled[conn[c].dev] \in SUBSET Calls
  BY <1>1 DEF TypeOK
<1>3. \A pc \in PCs, todo \in SUBSET Calls : UNCHANGED scenario /\ goto(c, pc, todo) => Moves(c, pc, todo)
  BY <1>0, Goto
<1>4. \A pc \in {"licensed", "gone", "attached", "welcoming", "wakes", "closing", "up", "cancels", "detached"} : pc \in PCs
  BY DEF PCs, AttachedPCs
<1>5. {} \in SUBSET Calls /\ \A k \in Calls : conn[c].todo \ {k} \in SUBSET Calls
  BY <1>1
<1>6. Licensed(c) => \/ Moves(c, "licensed", {}) /\ open' = open
                     \/ Moves(c, "gone", {}) /\ open' = open \ {c}
  BY <1>3, <1>4, <1>5 DEF Licensed
<1>7. attach(c) => Moves(c, "attached", {})
  BY <1>3, <1>4, <1>5 DEF attach
<1>8. emitOnline(c) => Moves(c, "welcoming", {})
  BY <1>3, <1>4, <1>5 DEF emitOnline
<1>9. pendingFor(c) => \/ c \in open /\ Moves(c, "wakes", pending[conn[c].dev])
                       \/ c \notin open /\ Moves(c, "closing", {})
  BY <1>2, <1>3, <1>4, <1>5 DEF pendingFor
<1>10. cancelsFor(c) => IF cancelled[conn[c].dev] = {}
                        THEN Moves(c, "up", cancelled[conn[c].dev])
                        ELSE Moves(c, "cancels", cancelled[conn[c].dev])
  BY <1>2, <1>3, <1>4 DEF cancelsFor, gotoLoop, After
<1>11. ReadError(c) => Moves(c, "closing", {})
  BY <1>3, <1>4, <1>5 DEF ReadError
<1>12. detach(c) => IF sessions[conn[c].dev][conn[c].kind] = c
                    THEN Moves(c, "detached", {}) ELSE Moves(c, "gone", {})
  BY <1>3, <1>4, <1>5 DEF detach
<1>13. emitOffline(c) => Moves(c, "gone", {})
  BY <1>3, <1>4, <1>5 DEF emitOffline
<1>14. ASSUME NEW k \in Calls
       PROVE  /\ replayWake(c, k) => Moves(c, "wakes", conn[c].todo \ {k})
              /\ replayCancel(c, k) => IF conn[c].todo \ {k} = {}
                                       THEN Moves(c, "up", conn[c].todo \ {k})
                                       ELSE Moves(c, "cancels", conn[c].todo \ {k})
  BY <1>3, <1>4, <1>5 DEF replayWake, replayCancel, gotoLoop, After
<1> QED BY <1>6, <1>7, <1>8, <1>9, <1>10, <1>11, <1>12, <1>13, <1>14

(* A call whose record is replaced by a typed one moves as that record says. *)
LEMMA CallGoto ==
  ASSUME call \in [Calls -> CallStates], UNCHANGED scenario, NEW k \in Calls,
         NEW f \in CallStates, f.dev = call[k].dev, call' = [call EXCEPT ![k] = f]
  PROVE  CallMoves(k, f.pc, f.todo)
<1>1. CallStates' = CallStates
  BY DEF CallStates, MaxWakes
<1> QED BY <1>1 DEF CallMoves

(* Wake, CancelWake, ForgetWake and their sends move their own call.       *)
LEMMA CallStepMoves ==
  ASSUME TypeOK, GatewayAssumption, NEW k \in Calls
  PROVE  /\ Wake(k) => CallMoves(k, After(snapshotLocked(call[k].dev), "waking", "ringing"), snapshotLocked(call[k].dev))
         /\ CancelWake(k) => CallMoves(k, After(snapshotLocked(call[k].dev), "cancelling", "cancelled"),
                                       snapshotLocked(call[k].dev))
         /\ ForgetWake(k) => CallMoves(k, "forgotten", call[k].todo)
         /\ \A c \in Conns :
              /\ WakeSend(k, c) => CallMoves(k, After(call[k].todo \ {c}, "waking", "ringing"), call[k].todo \ {c})
              /\ CancelSend(k, c) => CallMoves(k, After(call[k].todo \ {c}, "cancelling", "cancelled"), call[k].todo \ {c})
<1> DEFINE snap == snapshotLocked(call[k].dev)
<1>1. call \in [Calls -> CallStates] /\ call[k] \in CallStates
  BY DEF TypeOK, CallStates, CallPCs
<1>2. /\ call[k].dev \in Devices /\ call[k].todo \in SUBSET Conns
      /\ call[k].wakes \in 0..MaxWakes /\ call[k].reached \in SUBSET Conns
  BY <1>1 DEF CallStates
<1>3. snap \in SUBSET Conns
  BY <1>2 DEF TypeOK, snapshotLocked
<1>4. /\ \A todo : /\ After(todo, "waking", "ringing") \in CallPCs
                   /\ After(todo, "cancelling", "cancelled") \in CallPCs
  BY DEF After, CallPCs
<1>5. \A f \in CallStates : UNCHANGED scenario /\ f.dev = call[k].dev /\ call' = [call EXCEPT ![k] = f]
                            => CallMoves(k, f.pc, f.todo)
  BY <1>1, CallGoto
<1>6. Wake(k) => CallMoves(k, After(snap, "waking", "ringing"), snap)
  <2> SUFFICES ASSUME Wake(k) PROVE CallMoves(k, After(snap, "waking", "ringing"), snap)
    OBVIOUS
  <2> DEFINE f == Woken(call[k], After(snap, "waking", "ringing"), snap, call[k].wakes + 1)
  <2>1. call' = [call EXCEPT ![k] = f]
    BY <1>1 DEF Wake, Woken
  <2>2. MaxWakes \in Nat /\ call[k].wakes < MaxWakes
    BY DEF Wake, TypeOK, MaxWakes, GatewayAssumption
  <2>3. call[k].wakes + 1 \in 0..MaxWakes
    BY <1>2, <2>2
  <2>4. f \in CallStates /\ f.pc = After(snap, "waking", "ringing") /\ f.todo = snap /\ f.dev = call[k].dev
    BY <1>1, <1>3, <1>4, <2>3, WokenFields
  <2>5. UNCHANGED scenario
    BY DEF Wake
  <2> HIDE DEF f
  <2> QED BY <1>5, <2>1, <2>4, <2>5
<1>7. CancelWake(k) => CallMoves(k, After(snap, "cancelling", "cancelled"), snap)
  <2> SUFFICES ASSUME CancelWake(k) PROVE CallMoves(k, After(snap, "cancelling", "cancelled"), snap)
    OBVIOUS
  <2> DEFINE f == Sending(call[k], After(snap, "cancelling", "cancelled"), snap, {})
  <2>1. call' = [call EXCEPT ![k] = f]
    BY <1>1 DEF CancelWake, Sending
  <2>4. f \in CallStates /\ f.pc = After(snap, "cancelling", "cancelled") /\ f.todo = snap /\ f.dev = call[k].dev
    BY <1>1, <1>2, <1>3, <1>4, SendingFields
  <2>5. UNCHANGED scenario
    BY DEF CancelWake
  <2> HIDE DEF f
  <2> QED BY <1>5, <2>1, <2>4, <2>5
<1>8. ForgetWake(k) => CallMoves(k, "forgotten", call[k].todo)
  <2> SUFFICES ASSUME ForgetWake(k) PROVE CallMoves(k, "forgotten", call[k].todo)
    OBVIOUS
  <2> DEFINE f == Forgotten(call[k])
  <2>1. call' = [call EXCEPT ![k] = f]
    BY <1>1 DEF ForgetWake, Forgotten
  <2>4. f \in CallStates /\ f.pc = "forgotten" /\ f.todo = call[k].todo /\ f.dev = call[k].dev
    BY <1>1, <1>2, <1>4, ForgottenFields
  <2>5. UNCHANGED scenario
    BY DEF ForgetWake
  <2> HIDE DEF f
  <2> QED BY <1>5, <2>1, <2>4, <2>5
<1>9. ASSUME NEW c \in Conns, WakeSend(k, c)
      PROVE CallMoves(k, After(call[k].todo \ {c}, "waking", "ringing"), call[k].todo \ {c})
  <2> DEFINE r == IF delivers(c, k) THEN call[k].reached \cup {c} ELSE call[k].reached
             f == Sending(call[k], After(call[k].todo \ {c}, "waking", "ringing"), call[k].todo \ {c}, r)
  <2>1. call' = [call EXCEPT ![k] = f]
    BY <1>1, <1>9 DEF WakeSend, Sending
  <2>2. r \in SUBSET Conns
    BY <1>2
  <2> HIDE DEF r
  <2>4. f \in CallStates /\ f.pc = After(call[k].todo \ {c}, "waking", "ringing") /\ f.todo = call[k].todo \ {c} /\ f.dev = call[k].dev
    BY <1>1, <1>2, <1>4, <2>2, SendingFields
  <2>5. UNCHANGED scenario
    BY <1>9 DEF WakeSend
  <2> HIDE DEF f
  <2> QED BY <1>5, <2>1, <2>4, <2>5
<1>10. ASSUME NEW c \in Conns, CancelSend(k, c)
       PROVE CallMoves(k, After(call[k].todo \ {c}, "cancelling", "cancelled"), call[k].todo \ {c})
  <2> DEFINE f == Cancelling(call[k], After(call[k].todo \ {c}, "cancelling", "cancelled"), call[k].todo \ {c})
  <2>1. call' = [call EXCEPT ![k] = f]
    BY <1>1, <1>10 DEF CancelSend, Cancelling
  <2>4. f \in CallStates /\ f.pc = After(call[k].todo \ {c}, "cancelling", "cancelled") /\ f.todo = call[k].todo \ {c} /\ f.dev = call[k].dev
    BY <1>1, <1>2, <1>4, CancellingFields
  <2>5. UNCHANGED scenario
    BY <1>10 DEF CancelSend
  <2> HIDE DEF f
  <2> QED BY <1>5, <2>1, <2>4, <2>5
<1> QED BY <1>6, <1>7, <1>8, <1>9, <1>10

(* A frame written, or refused, leaves the records typed. *)
LEMMA SendTypes ==
  ASSUME TypeOK, NEW c \in Conns, NEW k \in Calls
  PROVE  /\ \A frame \in {"wake", "cancel"} :
              send(c, k, frame) => last' \in [Conns -> [Calls -> {"none", "wake", "cancel"}]]
         /\ sendWake(c, k) => /\ last' \in [Conns -> [Calls -> {"none", "wake", "cancel"}]]
                              /\ sentWakes' \in [Conns -> SUBSET Calls]
<1>1. ASSUME NEW frame \in {"wake", "cancel"}, send(c, k, frame)
      PROVE  last' \in [Conns -> [Calls -> {"none", "wake", "cancel"}]]
  BY <1>1 DEF send, TypeOK
<1>2. ASSUME sendWake(c, k)
      PROVE  last' \in [Conns -> [Calls -> {"none", "wake", "cancel"}]] /\ sentWakes' \in [Conns -> SUBSET Calls]
  <2>1. CASE k \in sentWakes[c]
    BY <1>2, <2>1 DEF sendWake, TypeOK
  <2>2. CASE k \notin sentWakes[c]
    <3>1. send(c, k, "wake") /\ sentWakes' = [sentWakes EXCEPT ![c] = @ \cup {k}]
      BY <1>2, <2>2 DEF sendWake
    <3>2. sentWakes' \in [Conns -> SUBSET Calls]
      BY <3>1 DEF TypeOK
    <3> QED BY <1>1, <3>1, <3>2
  <2> QED BY <2>1, <2>2
<1> QED BY <1>1, <1>2

(* Every step keeps the types.                                             *)
LEMMA TypeStep == GatewayAssumption /\ TypeOK /\ [Next]_vars => TypeOK'
<1> SUFFICES ASSUME GatewayAssumption, TypeOK, [Next]_vars PROVE TypeOK'
  OBVIOUS
<1>0. conn \in [Conns -> ConnStates] /\ call \in [Calls -> CallStates] /\ hook \in [Devices -> HookStates]
  BY DEF TypeOK, ConnStates, CallStates, CallPCs, HookStates
<1>a. \A c \in Conns : conn[c].dev \in Devices /\ conn[c].kind \in Kinds
  BY <1>0 DEF ConnStates
<1>b. \A k \in Calls : call[k].dev \in Devices
  BY <1>0 DEF CallStates
<1>c. ASSUME UNCHANGED scenario, conn' \in [Conns -> ConnStates], NEW c \in Conns
      PROVE  conn' \in [Conns -> [pc : PCs, dev : Devices, kind : Kinds,
                         token : 0..MaxCred', todo : SUBSET Calls]]
  BY <1>c DEF ConnStates, MaxCred
<1>d. ASSUME UNCHANGED scenario, call' \in [Calls -> CallStates]
      PROVE  call' \in [Calls -> [pc : CallPCs, dev : Devices, todo : SUBSET Conns,
                         wakes : 0..MaxWakes', reached : SUBSET Conns]]
  BY <1>d DEF CallStates, MaxWakes
<1>e. UNCHANGED scenario => MaxCred' = MaxCred /\ MaxWakes' = MaxWakes
  BY DEF MaxCred, MaxWakes
<1>f. ASSUME NEW c \in Conns, NEW pc, NEW todo, Moves(c, pc, todo), UNCHANGED scenario
      PROVE  conn' \in [Conns -> [pc : PCs, dev : Devices, kind : Kinds,
                         token : 0..MaxCred', todo : SUBSET Calls]]
  BY <1>c, <1>f DEF Moves
<1>g. ASSUME NEW k \in Calls, NEW pc, NEW todo, CallMoves(k, pc, todo), UNCHANGED scenario
      PROVE  call' \in [Calls -> [pc : CallPCs, dev : Devices, todo : SUBSET Conns,
                         wakes : 0..MaxWakes', reached : SUBSET Conns]]
  BY <1>d, <1>g DEF CallMoves
<1>1. ASSUME NEW c \in Conns, NEW token \in 0..MaxCred, Hello(c, token) PROVE TypeOK'
  <2>1. UNCHANGED <<scenario, sessions, pending, cancelled, sentWakes, last, failing, presence, call, hook, cred, seat>>
    BY <1>1 DEF Hello
  <2> QED BY <1>1, <1>e, <1>f, <2>1, HelloMoves DEF TypeOK
<1>2. ASSUME NEW c \in Conns, Licensed(c) PROVE TypeOK'
  <2>1. UNCHANGED <<scenario, sessions, pending, cancelled, sentWakes, last, failing, presence, call, hook, cred, seat>>
    BY <1>2 DEF Licensed
  <2> QED BY <1>2, <1>e, <1>f, <2>1, HandlerMoves DEF TypeOK
<1>3. ASSUME NEW c \in Conns, attach(c) PROVE TypeOK'
  <2>1. UNCHANGED <<scenario, pending, cancelled, open, sentWakes, last, presence, call, hook, cred, seat>>
    BY <1>3 DEF attach
  <2>2. sessions' \in [Devices -> [Kinds -> Conns \cup {NoConn}]] /\ failing' \subseteq Conns
    BY <1>3, <1>a DEF attach, TypeOK
  <2> QED BY <1>3, <1>e, <1>f, <2>1, <2>2, HandlerMoves DEF TypeOK
<1>4. ASSUME NEW c \in Conns, emitOnline(c) \/ emitOffline(c) PROVE TypeOK'
  <2>1. UNCHANGED <<scenario, sessions, pending, cancelled, open, sentWakes, last, failing, call, hook, cred, seat>>
    BY <1>4 DEF emitOnline, emitOffline
  <2>2. presence' \in [Devices -> [Kinds -> BOOLEAN]]
    <3>1. PICK b \in BOOLEAN : presence' = [presence EXCEPT ![conn[c].dev][conn[c].kind] = b]
      BY <1>4, Zenon DEF emitOnline, emitOffline
    <3>2. conn[c].dev \in Devices /\ conn[c].kind \in Kinds /\ presence \in [Devices -> [Kinds -> BOOLEAN]]
      BY <1>a DEF TypeOK
    <3> QED BY <3>1, <3>2
  <2> QED BY <1>4, <1>e, <1>f, <2>1, <2>2, HandlerMoves DEF TypeOK
<1>5. ASSUME NEW c \in Conns, pendingFor(c) \/ cancelsFor(c) \/ ReadError(c) PROVE TypeOK'
  <2>1. UNCHANGED <<scenario, sessions, pending, cancelled, open, sentWakes, last, failing, presence, call, hook, cred, seat>>
    BY <1>5 DEF pendingFor, cancelsFor, ReadError
  <2> QED BY <1>5, <1>e, <1>f, <2>1, HandlerMoves DEF TypeOK
<1>6. ASSUME NEW c \in Conns, NEW k \in Calls, replayWake(c, k) PROVE TypeOK'
  <2>1. UNCHANGED <<scenario, sessions, pending, cancelled, open, failing, presence, call, hook, cred, seat>> /\ sendWake(c, k)
    BY <1>6 DEF replayWake
  <2>2. conn' \in [Conns -> [pc : PCs, dev : Devices, kind : Kinds, token : 0..MaxCred', todo : SUBSET Calls]]
    <3>1. Moves(c, "wakes", conn[c].todo \ {k})
      BY <1>6, HandlerMoves
    <3> QED BY <1>f, <2>1, <3>1
  <2>3. last' \in [Conns -> [Calls -> {"none", "wake", "cancel"}]] /\ sentWakes' \in [Conns -> SUBSET Calls]
    BY <2>1, SendTypes
  <2> QED BY <1>e, <2>1, <2>2, <2>3 DEF TypeOK
<1>7. ASSUME NEW c \in Conns, NEW k \in Calls, replayCancel(c, k) PROVE TypeOK'
  <2>1. UNCHANGED <<scenario, sessions, pending, cancelled, open, sentWakes, failing, presence, call, hook, cred, seat>>
        /\ send(c, k, "cancel")
    BY <1>7 DEF replayCancel
  <2>2. conn' \in [Conns -> [pc : PCs, dev : Devices, kind : Kinds, token : 0..MaxCred', todo : SUBSET Calls]]
    <3>1. \E pc : Moves(c, pc, conn[c].todo \ {k})
      BY <1>7, HandlerMoves
    <3> QED BY <1>f, <2>1, <3>1
  <2>3. last' \in [Conns -> [Calls -> {"none", "wake", "cancel"}]]
    BY <2>1, SendTypes
  <2> QED BY <1>e, <2>1, <2>2, <2>3 DEF TypeOK
<1>8. ASSUME NEW c \in Conns, NEW k \in Calls, handleAck(c, k) PROVE TypeOK'
  BY <1>8, <1>a, <1>e DEF handleAck, TypeOK
<1>9. ASSUME NEW c \in Conns, detach(c) PROVE TypeOK'
  <2>1. UNCHANGED <<scenario, pending, cancelled, open, sentWakes, last, failing, presence, call, hook, cred, seat>>
    BY <1>9 DEF detach
  <2>2. sessions' \in [Devices -> [Kinds -> Conns \cup {NoConn}]]
    <3>1. sessions' = sessions \/ sessions' = [sessions EXCEPT ![conn[c].dev][conn[c].kind] = NoConn]
      BY <1>9 DEF detach
    <3>2. conn[c].dev \in Devices /\ conn[c].kind \in Kinds
      BY <1>a
    <3>3. sessions \in [Devices -> [Kinds -> Conns \cup {NoConn}]]
      BY DEF TypeOK
    <3>4. CASE sessions' = [sessions EXCEPT ![conn[c].dev][conn[c].kind] = NoConn]
      BY <3>2, <3>3, <3>4
    <3> QED BY <3>1, <3>3, <3>4
  <2> QED BY <1>9, <1>e, <1>f, <2>1, <2>2, HandlerMoves DEF TypeOK
<1>10. ASSUME NEW c \in Conns, ConnLost(c) \/ failSuperseded(c) PROVE TypeOK'
  BY <1>10, <1>e DEF ConnLost, failSuperseded, TypeOK
<1>11. ASSUME NEW k \in Calls, Wake(k) \/ CancelWake(k) \/ ForgetWake(k) PROVE TypeOK'
  <2>1. UNCHANGED <<scenario, sessions, conn, open, sentWakes, last, failing, presence, hook, cred, seat>>
    BY <1>11 DEF Wake, CancelWake, ForgetWake
  <2>2. pending' \in [Devices -> SUBSET Calls] /\ cancelled' \in [Devices -> SUBSET Calls]
    <3>1. call[k].dev \in Devices
      BY <1>b
    <3>2. \/ pending' = [pending EXCEPT ![call[k].dev] = @ \cup {k}]
          \/ pending' = [pending EXCEPT ![call[k].dev] = @ \ {k}]
      BY <1>11 DEF Wake, CancelWake, ForgetWake
    <3>3. \/ cancelled' = cancelled
          \/ cancelled' = [cancelled EXCEPT ![call[k].dev] = @ \cup {k}]
          \/ cancelled' = [cancelled EXCEPT ![call[k].dev] = @ \ {k}]
      BY <1>11 DEF Wake, CancelWake, ForgetWake
    <3>0. pending \in [Devices -> SUBSET Calls] /\ cancelled \in [Devices -> SUBSET Calls]
      BY DEF TypeOK
    <3>6. ASSUME NEW f \in [Devices -> SUBSET Calls], NEW d \in Devices
          PROVE  /\ [f EXCEPT ![d] = @ \cup {k}] \in [Devices -> SUBSET Calls]
                 /\ [f EXCEPT ![d] = @ \ {k}] \in [Devices -> SUBSET Calls]
      OBVIOUS
    <3>4. pending' \in [Devices -> SUBSET Calls]
      BY <3>0, <3>1, <3>2, <3>6
    <3>5. cancelled' \in [Devices -> SUBSET Calls]
      BY <3>0, <3>1, <3>3, <3>6
    <3> QED BY <3>4, <3>5
  <2> QED BY <1>11, <1>e, <1>g, <2>1, <2>2, CallStepMoves DEF TypeOK, CallPCs
<1>12. ASSUME NEW k \in Calls, NEW c \in Conns, WakeSend(k, c) PROVE TypeOK'
  <2>1. UNCHANGED <<scenario, sessions, pending, cancelled, conn, open, failing, presence, hook, cred, seat>> /\ sendWake(c, k)
    BY <1>12 DEF WakeSend
  <2> QED BY <1>12, <1>e, <1>g, <2>1, CallStepMoves, SendTypes DEF TypeOK, CallPCs
<1>13. ASSUME NEW k \in Calls, NEW c \in Conns, CancelSend(k, c) PROVE TypeOK'
  <2>1. UNCHANGED <<scenario, sessions, pending, cancelled, conn, open, sentWakes, failing, presence, hook, cred, seat>>
        /\ send(c, k, "cancel")
    BY <1>13 DEF CancelSend
  <2> QED BY <1>13, <1>e, <1>g, <2>1, CallStepMoves, SendTypes DEF TypeOK, CallPCs
<1>14. ASSUME NEW d \in Devices, NEW k \in Calls, Expire(d, k) PROVE TypeOK'
  BY <1>14, <1>e DEF Expire, TypeOK
<1>15. ASSUME NEW d \in Devices, RotateCredential(d) \/ LoseSeat(d) PROVE TypeOK'
  <2>1. UNCHANGED <<scenario, gwVars, call>>
    BY <1>15 DEF RotateCredential, LoseSeat
  <2>2. hook' \in [Devices -> HookStates]
    BY <1>0, <1>15 DEF RotateCredential, LoseSeat, HookStates
  <2>3. cred' \in [Devices -> 0..MaxCred]
    <3>1. MaxCred \in Nat
      BY DEF MaxCred, TypeOK, GatewayAssumption
    <3>2. cred[d] \in 0..MaxCred /\ (cred[d] < MaxCred => cred[d] + 1 \in 0..MaxCred)
      BY <3>1 DEF TypeOK
    <3> QED BY <1>15, <3>2 DEF RotateCredential, LoseSeat, TypeOK
  <2>4. seat' \in [Devices -> BOOLEAN]
    BY <1>15 DEF RotateCredential, LoseSeat, TypeOK
  <2> QED BY <1>e, <2>1, <2>2, <2>3, <2>4 DEF TypeOK, gwVars, HookStates
<1>16. ASSUME NEW d \in Devices, DisconnectWith(d) PROVE TypeOK'
  <2>1. UNCHANGED <<scenario, gwVars, call, cred, seat>>
    BY <1>16 DEF DisconnectWith
  <2>2. snapshotLocked(d) \in SUBSET Conns
    BY DEF snapshotLocked, TypeOK
  <2>3. hook' \in [Devices -> HookStates]
    BY <1>0, <1>16, <2>2 DEF DisconnectWith, After, HookStates
  <2> QED BY <1>e, <2>1, <2>3 DEF TypeOK, gwVars, HookStates
<1>17. ASSUME NEW d \in Devices, NEW c \in Conns, DisconnectFail(d, c) PROVE TypeOK'
  <2>1. UNCHANGED <<scenario, sessions, pending, cancelled, conn, sentWakes, last, failing, presence, call, cred, seat>>
        /\ open' \subseteq open
    BY <1>17 DEF DisconnectFail
  <2>2. hook' \in [Devices -> HookStates]
    BY <1>0, <1>17 DEF DisconnectFail, After, HookStates
  <2> QED BY <1>e, <2>1, <2>2 DEF TypeOK, HookStates
<1>18. CASE UNCHANGED vars
  BY <1>18, <1>e DEF vars, TypeOK
<1> QED
  BY <1>1, <1>2, <1>3, <1>4, <1>5, <1>6, <1>7, <1>8, <1>9, <1>10, <1>11, <1>12, <1>13, <1>14,
     <1>15, <1>16, <1>17, <1>18
  DEF Next, HandleConn, CallStep, HookStep

-----------------------------------------------------------------------------
(* What the gateway still owes a client that is in the table and open: a   *)
(* wake in force has been sent on its connection, or its handler is to     *)
(* read or to replay it, or the call is to send it; a cancel in force was  *)
(* the last it heard, or is as surely to come.                             *)
Owed(c, k) ==
  sessions[conn[c].dev][conn[c].kind] = c /\ call[k].dev = conn[c].dev /\ c \in open =>
    /\ k \in pending[conn[c].dev] /\ call[k].pc \in {"waking", "ringing"} =>
         \/ k \in sentWakes[c]
         \/ conn[c].pc \in {"attached", "welcoming"}
         \/ conn[c].pc = "wakes" /\ k \in conn[c].todo
         \/ call[k].pc = "waking" /\ c \in call[k].todo
    /\ k \in cancelled[conn[c].dev] /\ call[k].pc \in {"cancelling", "cancelled"} =>
         \/ last[c][k] = "cancel"
         \/ conn[c].pc \in {"attached", "welcoming", "wakes"}
         \/ conn[c].pc = "cancels" /\ k \in conn[c].todo
         \/ call[k].pc = "cancelling" /\ c \in call[k].todo

AllOwed == \A c \in Conns, k \in Calls : Owed(c, k)

GatewayInv == TypeOK /\ TableSound /\ AllOwed

(* A step that leaves the table alone, closes connections at most, and      *)
(* moves no handler into or out of its attached phase keeps the table       *)
(* sound.                                                                  *)
LEMMA TableFrame ==
  ASSUME TypeOK, TableSound, UNCHANGED sessions, open' \subseteq open,
         \A c \in Conns : c \in failing => c \in failing' \/ c \notin open',
         \A c \in Conns : /\ conn'[c].dev = conn[c].dev /\ conn'[c].kind = conn[c].kind
                          /\ conn'[c].pc \in AttachedPCs <=> conn[c].pc \in AttachedPCs
  PROVE  TableSound'
<1>1. \A d \in Devices, k \in Kinds : sessions[d][k] \in Conns \cup {NoConn}
  BY DEF TypeOK
<1> QED BY <1>1 DEF TableSound

(* Every step keeps the session table sound.                               *)
LEMMA TableStep == GatewayAssumption /\ TypeOK /\ TableSound /\ [Next]_vars => TableSound'
<1> SUFFICES ASSUME GatewayAssumption, TypeOK, TableSound, [Next]_vars PROVE TableSound'
  OBVIOUS
<1>0. /\ \A c \in Conns : conn[c].dev \in Devices /\ conn[c].kind \in Kinds
      /\ sessions \in [Devices -> [Kinds -> Conns \cup {NoConn}]]
      /\ NoConn \notin Conns
  BY DEF TypeOK, GatewayAssumption
<1>1. ASSUME NEW c \in Conns, NEW pc, NEW todo, Moves(c, pc, todo),
             pc \in AttachedPCs <=> conn[c].pc \in AttachedPCs,
             UNCHANGED <<sessions, failing>>, open' \subseteq open
      PROVE  TableSound'
  <2>1. \A e \in Conns : /\ conn'[e].dev = conn[e].dev /\ conn'[e].kind = conn[e].kind
                         /\ conn'[e].pc \in AttachedPCs <=> conn[e].pc \in AttachedPCs
    BY <1>1 DEF Moves
  <2> QED BY <1>1, <2>1, TableFrame
<1>2. ASSUME NEW c \in Conns, NEW token \in 0..MaxCred, Hello(c, token) PROVE TableSound'
  <2>1. UNCHANGED <<sessions, failing>>
    BY <1>2 DEF Hello
  <2> QED BY <1>1, <1>2, <2>1, HelloMoves DEF AttachedPCs
<1>3. ASSUME NEW c \in Conns, Licensed(c) PROVE TableSound'
  <2>1. UNCHANGED <<sessions, failing>> /\ conn[c].pc = "authenticated"
    BY <1>3 DEF Licensed
  <2> QED BY <1>1, <1>3, <2>1, HandlerMoves DEF AttachedPCs
<1>4. ASSUME NEW c \in Conns, attach(c) PROVE TableSound'
  <2> DEFINE d == conn[c].dev
             k == conn[c].kind
  <2>1. /\ conn[c].pc = "licensed" /\ UNCHANGED open
        /\ failing' = failing \cup ({sessions[d][k]} \ {NoConn})
        /\ sessions' = [sessions EXCEPT ![d][k] = c]
    BY <1>4 DEF attach
  <2>2. Moves(c, "attached", {})
    BY <1>4, HandlerMoves
  <2>3. /\ \A e \in Conns \ {c} : conn'[e] = conn[e]
        /\ conn'[c].pc \in AttachedPCs /\ conn'[c].dev = d /\ conn'[c].kind = k
    BY <2>2 DEF Moves, AttachedPCs
  <2>4. conn[c].pc \notin AttachedPCs /\ d \in Devices /\ k \in Kinds
    BY <1>0, <2>1 DEF AttachedPCs
  <2>5. /\ sessions'[d][k] = c
        /\ \A f \in Devices, j \in Kinds : f # d \/ j # k => sessions'[f][j] = sessions[f][j]
    BY <1>0, <2>1, <2>4
  <2>6. ASSUME NEW f \in Devices, NEW j \in Kinds, sessions'[f][j] # NoConn
        PROVE  LET e == sessions'[f][j] IN
               conn'[e].pc \in AttachedPCs /\ conn'[e].dev = f /\ conn'[e].kind = j
    <3>1. CASE f = d /\ j = k
      BY <2>3, <2>5, <3>1
    <3>2. CASE f # d \/ j # k
      BY <1>0, <2>3, <2>4, <2>5, <2>6, <3>2 DEF TableSound
    <3> QED BY <3>1, <3>2
  <2>7. ASSUME NEW e \in Conns, conn'[e].pc \in AttachedPCs,
               sessions'[conn'[e].dev][conn'[e].kind] # e
        PROVE  e \in failing' \/ e \notin open'
    <3>1. e # c /\ conn'[e] = conn[e]
      BY <2>3, <2>5, <2>7
    <3>2. conn[e].dev \in Devices /\ conn[e].kind \in Kinds
      BY <1>0
    <3>3. CASE sessions[conn[e].dev][conn[e].kind] = e
      BY <1>0, <2>1, <2>5, <2>7, <3>1, <3>2, <3>3
    <3>4. CASE sessions[conn[e].dev][conn[e].kind] # e
      BY <2>1, <2>7, <3>1, <3>4 DEF TableSound
    <3> QED BY <3>3, <3>4
  <2> QED BY <2>6, <2>7 DEF TableSound
<1>5. ASSUME NEW c \in Conns, detach(c) PROVE TableSound'
  <2> DEFINE d == conn[c].dev
             k == conn[c].kind
  <2>1. conn[c].pc = "closing" /\ UNCHANGED <<open, failing>> /\ d \in Devices /\ k \in Kinds
    BY <1>0, <1>5 DEF detach
  <2>2. /\ \A e \in Conns \ {c} : conn'[e] = conn[e]
        /\ conn'[c].pc \notin AttachedPCs /\ conn'[c].dev = d /\ conn'[c].kind = k
    BY <1>5, HandlerMoves DEF Moves, AttachedPCs
  <2>3. CASE sessions[d][k] = c
    <3>1. sessions' = [sessions EXCEPT ![d][k] = NoConn]
      BY <1>5, <2>3 DEF detach
    <3>2. /\ sessions'[d][k] = NoConn
          /\ \A f \in Devices, j \in Kinds : f # d \/ j # k => sessions'[f][j] = sessions[f][j]
      BY <1>0, <2>1, <3>1
    <3>3. ASSUME NEW f \in Devices, NEW j \in Kinds, sessions'[f][j] # NoConn
          PROVE  LET e == sessions'[f][j] IN
                 conn'[e].pc \in AttachedPCs /\ conn'[e].dev = f /\ conn'[e].kind = j
      BY <1>0, <2>1, <2>2, <3>2, <3>3 DEF TableSound
    <3>4. ASSUME NEW e \in Conns, conn'[e].pc \in AttachedPCs,
                 sessions'[conn'[e].dev][conn'[e].kind] # e
          PROVE  e \in failing' \/ e \notin open'
      <4>1. e # c /\ conn'[e] = conn[e]
        BY <2>2, <3>4
      <4>2. sessions[conn[e].dev][conn[e].kind] # e
        BY <1>0, <2>3, <3>2, <3>4, <4>1
      <4> QED BY <2>1, <3>4, <4>1, <4>2 DEF TableSound
    <3> QED BY <3>3, <3>4 DEF TableSound
  <2>4. CASE sessions[d][k] # c
    <3>1. sessions' = sessions
      BY <1>5, <2>4 DEF detach
    <3>2. ASSUME NEW f \in Devices, NEW j \in Kinds, sessions'[f][j] # NoConn
          PROVE  LET e == sessions'[f][j] IN
                 conn'[e].pc \in AttachedPCs /\ conn'[e].dev = f /\ conn'[e].kind = j
      BY <1>0, <2>2, <2>4, <3>1, <3>2 DEF TableSound
    <3>3. \A e \in Conns : conn'[e].pc \in AttachedPCs => conn'[e] = conn[e]
      BY <2>2
    <3> QED BY <2>1, <3>1, <3>2, <3>3 DEF TableSound
  <2> QED BY <2>3, <2>4
<1>6. ASSUME NEW c \in Conns, emitOnline(c) \/ emitOffline(c) \/ pendingFor(c) \/ cancelsFor(c) \/ ReadError(c)
      PROVE TableSound'
  <2>1. UNCHANGED <<sessions, failing, open>>
    BY <1>6 DEF emitOnline, emitOffline, pendingFor, cancelsFor, ReadError
  <2>2. \/ \E pc \in {"welcoming", "wakes", "cancels", "up", "closing"} : \E todo :
             Moves(c, pc, todo) /\ conn[c].pc \in {"attached", "welcoming", "wakes", "up"}
        \/ Moves(c, "gone", {}) /\ conn[c].pc = "detached"
    BY <1>6, HandlerMoves DEF emitOnline, emitOffline, pendingFor, cancelsFor, ReadError
  <2> QED BY <1>1, <2>1, <2>2 DEF AttachedPCs
<1>7. ASSUME NEW c \in Conns, NEW k \in Calls, replayWake(c, k) \/ replayCancel(c, k) PROVE TableSound'
  <2>1. UNCHANGED <<sessions, failing, open>> /\ conn[c].pc \in {"wakes", "cancels"}
    BY <1>7 DEF replayWake, replayCancel
  <2>2. \E pc \in {"wakes", "cancels", "up"} : \E todo : Moves(c, pc, todo)
    BY <1>7, HandlerMoves
  <2> QED BY <1>1, <2>1, <2>2 DEF AttachedPCs
<1>8. ASSUME UNCHANGED <<sessions, conn>>, open' \subseteq open,
             \A c \in Conns : c \in failing => c \in failing' \/ c \notin open'
      PROVE  TableSound'
  BY <1>8, TableFrame
<1>9. ASSUME NEW c \in Conns, ConnLost(c) \/ failSuperseded(c) \/ (\E k \in Calls : handleAck(c, k)) PROVE TableSound'
  <2>1. UNCHANGED <<sessions, conn>> /\ open' \subseteq open /\ \A e \in Conns : e \in failing => e \in failing' \/ e \notin open'
    BY <1>9 DEF ConnLost, failSuperseded, handleAck
  <2> QED BY <1>8, <2>1
<1>10. CASE UNCHANGED <<sessions, conn, failing>> /\ open' \subseteq open
  BY <1>8, <1>10
<1>11. ASSUME NEW k \in Calls, CallStep(k) PROVE UNCHANGED <<sessions, conn, failing>> /\ open' \subseteq open
  BY <1>11 DEF CallStep, Wake, CancelWake, ForgetWake, WakeSend, CancelSend
<1>12. ASSUME NEW d \in Devices, HookStep(d) PROVE UNCHANGED <<sessions, conn, failing>> /\ open' \subseteq open
  BY <1>12 DEF HookStep, RotateCredential, LoseSeat, DisconnectWith, DisconnectFail, gwVars
<1>13. ASSUME NEW d \in Devices, NEW k \in Calls, Expire(d, k) PROVE UNCHANGED <<sessions, conn, failing>> /\ open' \subseteq open
  BY <1>13 DEF Expire
<1>14. CASE UNCHANGED vars
  BY <1>10, <1>14 DEF vars
<1> QED
  BY <1>2, <1>3, <1>4, <1>5, <1>6, <1>7, <1>9, <1>10, <1>11, <1>12, <1>13, <1>14 DEF Next, HandleConn

(* A step that moves neither the handler nor the call, takes nothing sent   *)
(* back and remembers nothing more, owes no more.                          *)
LEMMA OwedFrame ==
  ASSUME NEW c \in Conns, NEW k \in Calls, Owed(c, k), conn'[c] = conn[c], call'[k] = call[k],
         sessions'[conn[c].dev][conn[c].kind] = c => sessions[conn[c].dev][conn[c].kind] = c,
         c \in open' => c \in open,
         k \in pending'[conn[c].dev] => k \in pending[conn[c].dev],
         k \in cancelled'[conn[c].dev] => k \in cancelled[conn[c].dev],
         k \in sentWakes[c] => k \in sentWakes'[c],
         last'[c][k] = last[c][k]
  PROVE  Owed(c, k)'
BY DEF Owed

(* What a frame does to the records of the connections and calls. *)
LEMMA SendEffect ==
  ASSUME TypeOK, NEW c \in Conns, NEW k \in Calls
  PROVE  /\ \A frame \in {"wake", "cancel"} : send(c, k, frame) =>
              /\ \A e \in Conns, j \in Calls : e # c \/ j # k => last'[e][j] = last[e][j]
              /\ c \in open => last'[c][k] = frame
         /\ sendWake(c, k) =>
              /\ \A e \in Conns, j \in Calls : e # c \/ j # k => last'[e][j] = last[e][j]
              /\ \A e \in Conns, j \in Calls : j \in sentWakes[e] => j \in sentWakes'[e]
              /\ k \in sentWakes'[c]
<1>0. last \in [Conns -> [Calls -> {"none", "wake", "cancel"}]] /\ sentWakes \in [Conns -> SUBSET Calls]
  BY DEF TypeOK
<1>1. ASSUME NEW frame \in {"wake", "cancel"}, send(c, k, frame)
      PROVE  /\ \A e \in Conns, j \in Calls : e # c \/ j # k => last'[e][j] = last[e][j]
             /\ c \in open => last'[c][k] = frame
  BY <1>0, <1>1 DEF send
<1>2. ASSUME sendWake(c, k)
      PROVE  /\ \A e \in Conns, j \in Calls : e # c \/ j # k => last'[e][j] = last[e][j]
             /\ \A e \in Conns, j \in Calls : j \in sentWakes[e] => j \in sentWakes'[e]
             /\ k \in sentWakes'[c]
  <2>1. CASE k \in sentWakes[c]
    BY <1>2, <2>1 DEF sendWake
  <2>2. CASE k \notin sentWakes[c]
    <3>1. send(c, k, "wake") /\ sentWakes' = [sentWakes EXCEPT ![c] = @ \cup {k}]
      BY <1>2, <2>2 DEF sendWake
    <3>2. /\ \A e \in Conns, j \in Calls : j \in sentWakes[e] => j \in sentWakes'[e]
          /\ k \in sentWakes'[c]
      BY <1>0, <3>1
    <3> QED BY <1>1, <3>1, <3>2
  <2> QED BY <2>1, <2>2
<1> QED BY <1>1, <1>2

(* An attached connection is in the snapshot of its device. *)
LEMMA InSnapshot ==
  ASSUME TypeOK, GatewayAssumption, NEW c \in Conns, sessions[conn[c].dev][conn[c].kind] = c
  PROVE  c \in snapshotLocked(conn[c].dev)
<1>1. conn[c].kind \in Kinds
  BY DEF TypeOK
<1> QED BY <1>1 DEF snapshotLocked, GatewayAssumption

(* The steps of a handler keep what is owed. *)
LEMMA HandlerOwed ==
  ASSUME GatewayAssumption, GatewayInv, NEW c \in Conns, HandleConn(c)
  PROVE  AllOwed'
<1>0. TypeOK /\ TableSound /\ AllOwed
  BY DEF GatewayInv
<1>a. /\ \A e \in Conns : conn[e].dev \in Devices /\ conn[e].kind \in Kinds
      /\ sessions \in [Devices -> [Kinds -> Conns \cup {NoConn}]]
      /\ NoConn \notin Conns
  BY <1>0 DEF TypeOK, GatewayAssumption
<1>b. sessions[conn[c].dev][conn[c].kind] = c => conn[c].pc \in AttachedPCs
  BY <1>0, <1>a DEF TableSound
(* The other handlers, and this one when the table or its socket says so.  *)
<1>c. ASSUME NEW pc, NEW todo, Moves(c, pc, todo),
             UNCHANGED <<pending, cancelled, call>>, open' \subseteq open,
             \A e \in Conns \ {c} : sessions'[conn[e].dev][conn[e].kind] = e => sessions[conn[e].dev][conn[e].kind] = e,
             \A e \in Conns, k \in Calls : k \in sentWakes[e] => k \in sentWakes'[e],
             \A e \in Conns \ {c}, k \in Calls : last'[e][k] = last[e][k],
             \A k \in Calls : Owed(c, k)'
      PROVE  AllOwed'
  <2>1. ASSUME NEW e \in Conns, NEW k \in Calls PROVE Owed(e, k)'
    <3>1. CASE e = c
      BY <1>c, <3>1
    <3>2. CASE e # c
      <4>1. conn'[e] = conn[e] /\ Owed(e, k) /\ call'[k] = call[k]
        BY <1>0, <1>c, <3>2 DEF Moves, AllOwed
      <4> QED BY <1>c, <3>2, <4>1, OwedFrame
    <3> QED BY <3>1, <3>2
  <2> QED BY <2>1 DEF AllOwed
<1>d. ASSUME NEW pc, NEW todo, Moves(c, pc, todo),
             UNCHANGED <<sessions, pending, cancelled, call, sentWakes, last>>, open' \subseteq open,
             \A k \in Calls : Owed(c, k)'
      PROVE  AllOwed'
  BY <1>c, <1>d
<1>1. ASSUME NEW token \in 0..MaxCred, Hello(c, token) PROVE AllOwed'
  <2>1. UNCHANGED <<sessions, pending, cancelled, call, sentWakes, last>> /\ conn[c].pc = "idle"
    BY <1>1 DEF Hello
  <2>2. sessions[conn[c].dev][conn[c].kind] # c
    BY <1>b, <2>1 DEF AttachedPCs
  <2>3. PICK pc, todo : Moves(c, pc, todo) /\ open' \subseteq open
    BY <1>0, <1>1, HelloMoves
  <2>4. \A k \in Calls : Owed(c, k)'
    BY <2>1, <2>2, <2>3 DEF Owed, Moves
  <2> QED BY <1>d, <2>1, <2>3, <2>4
<1>2. CASE Licensed(c) \/ emitOffline(c)
  <2>1. UNCHANGED <<sessions, pending, cancelled, call, sentWakes, last>> /\ conn[c].pc \in {"authenticated", "detached"}
    BY <1>2 DEF Licensed, emitOffline
  <2>2. sessions[conn[c].dev][conn[c].kind] # c
    BY <1>b, <2>1 DEF AttachedPCs
  <2>3. PICK pc, todo : Moves(c, pc, todo) /\ open' \subseteq open
    BY <1>0, <1>2, HandlerMoves DEF emitOffline
  <2>4. \A k \in Calls : Owed(c, k)'
    BY <2>1, <2>2, <2>3 DEF Owed, Moves
  <2> QED BY <1>d, <2>1, <2>3, <2>4
<1>3. CASE attach(c)
  <2> DEFINE d == conn[c].dev
             k == conn[c].kind
  <2>1. UNCHANGED <<pending, cancelled, open, sentWakes, last, call>> /\ sessions' = [sessions EXCEPT ![d][k] = c]
    BY <1>3 DEF attach
  <2>2. Moves(c, "attached", {})
    BY <1>0, <1>3, HandlerMoves
  <2>3. \A e \in Conns \ {c} : sessions'[conn[e].dev][conn[e].kind] = e => sessions[conn[e].dev][conn[e].kind] = e
    BY <1>a, <2>1
  <2>4. \A j \in Calls : Owed(c, j)'
    BY <2>2 DEF Owed, Moves
  <2> QED BY <1>c, <2>1, <2>2, <2>3, <2>4
<1>4. CASE emitOnline(c)
  <2>1. UNCHANGED <<sessions, pending, cancelled, open, call, sentWakes, last>>
    BY <1>4 DEF emitOnline
  <2>2. Moves(c, "welcoming", {})
    BY <1>0, <1>4, HandlerMoves
  <2>3. \A k \in Calls : Owed(c, k)'
    BY <2>2 DEF Owed, Moves
  <2> QED BY <1>d, <2>1, <2>2, <2>3
<1>5. CASE pendingFor(c)
  <2>1. UNCHANGED <<sessions, pending, cancelled, open, call, sentWakes, last>>
    BY <1>5 DEF pendingFor
  <2>2. CASE c \in open /\ Moves(c, "wakes", pending[conn[c].dev])
    <3>1. \A k \in Calls : Owed(c, k)'
      BY <2>1, <2>2 DEF Owed, Moves
    <3> QED BY <1>d, <2>1, <2>2, <3>1
  <2>3. CASE c \notin open /\ Moves(c, "closing", {})
    <3>1. \A k \in Calls : Owed(c, k)'
      BY <2>1, <2>3 DEF Owed, Moves
    <3> QED BY <1>d, <2>1, <2>3, <3>1
  <2> QED BY <1>0, <1>5, <2>2, <2>3, HandlerMoves
<1>6. CASE cancelsFor(c)
  <2>1. /\ UNCHANGED <<sessions, pending, cancelled, open, call, sentWakes, last>>
        /\ conn[c].pc = "wakes" /\ conn[c].todo = {}
    BY <1>6 DEF cancelsFor
  <2>2. CASE cancelled[conn[c].dev] = {} /\ Moves(c, "up", cancelled[conn[c].dev])
    <3>1. ASSUME NEW k \in Calls PROVE Owed(c, k)'
      <4>1. Owed(c, k)
        BY <1>0 DEF AllOwed
      <4> QED BY <2>1, <2>2, <4>1 DEF Owed, Moves
    <3> QED BY <1>d, <2>1, <2>2, <3>1
  <2>3. CASE Moves(c, "cancels", cancelled[conn[c].dev])
    <3>1. ASSUME NEW k \in Calls PROVE Owed(c, k)'
      <4>1. Owed(c, k)
        BY <1>0 DEF AllOwed
      <4> QED BY <2>1, <2>3, <4>1 DEF Owed, Moves
    <3> QED BY <1>d, <2>1, <2>3, <3>1
  <2> QED BY <1>0, <1>6, <2>2, <2>3, HandlerMoves
<1>7. CASE ReadError(c)
  <2>1. UNCHANGED <<sessions, pending, cancelled, open, call, sentWakes, last>> /\ c \notin open
    BY <1>7 DEF ReadError
  <2>2. Moves(c, "closing", {})
    BY <1>0, <1>7, HandlerMoves
  <2>3. \A k \in Calls : Owed(c, k)'
    BY <2>1, <2>2 DEF Owed, Moves
  <2> QED BY <1>d, <2>1, <2>2, <2>3
<1>8. ASSUME NEW k \in Calls, replayWake(c, k) PROVE AllOwed'
  <2>1. UNCHANGED <<sessions, pending, cancelled, open, call>> /\ conn[c].pc = "wakes" /\ sendWake(c, k)
    BY <1>8 DEF replayWake
  <2>2. Moves(c, "wakes", conn[c].todo \ {k})
    BY <1>0, <1>8, HandlerMoves
  <2>3. /\ \A e \in Conns, j \in Calls : e # c \/ j # k => last'[e][j] = last[e][j]
        /\ \A e \in Conns, j \in Calls : j \in sentWakes[e] => j \in sentWakes'[e]
        /\ k \in sentWakes'[c]
    BY <1>0, <2>1, SendEffect
  <2>4. ASSUME NEW j \in Calls PROVE Owed(c, j)'
    <3>1. Owed(c, j)
      BY <1>0 DEF AllOwed
    <3> QED BY <2>1, <2>2, <2>3, <3>1 DEF Owed, Moves
  <2> QED BY <1>c, <2>1, <2>2, <2>3, <2>4
<1>9. ASSUME NEW k \in Calls, replayCancel(c, k) PROVE AllOwed'
  <2>1. UNCHANGED <<sessions, pending, cancelled, open, sentWakes, call>> /\ conn[c].pc = "cancels" /\ send(c, k, "cancel")
    BY <1>9 DEF replayCancel
  <2>3. /\ \A e \in Conns, j \in Calls : e # c \/ j # k => last'[e][j] = last[e][j]
        /\ c \in open => last'[c][k] = "cancel"
    BY <1>0, <2>1, SendEffect
  <2>4. CASE conn[c].todo \ {k} = {} /\ Moves(c, "up", conn[c].todo \ {k})
    <3>1. ASSUME NEW j \in Calls PROVE Owed(c, j)'
      <4>1. Owed(c, j) /\ (j \in conn[c].todo => j = k)
        BY <1>0, <2>4 DEF AllOwed
      <4> QED BY <2>1, <2>3, <2>4, <4>1 DEF Owed, Moves
    <3> QED BY <1>c, <2>1, <2>3, <2>4, <3>1
  <2>5. CASE Moves(c, "cancels", conn[c].todo \ {k})
    <3>1. ASSUME NEW j \in Calls PROVE Owed(c, j)'
      <4>1. Owed(c, j)
        BY <1>0 DEF AllOwed
      <4> QED BY <2>1, <2>3, <2>5, <4>1 DEF Owed, Moves
    <3> QED BY <1>c, <2>1, <2>3, <2>5, <3>1
  <2> QED BY <1>0, <1>9, <2>4, <2>5, HandlerMoves
<1>10. ASSUME NEW k \in Calls, handleAck(c, k) PROVE AllOwed'
  <2>1. /\ UNCHANGED <<sessions, cancelled, conn, open, sentWakes, last, call>>
        /\ \A d \in Devices : pending'[d] \subseteq pending[d]
    BY <1>0, <1>10 DEF handleAck, TypeOK
  <2> QED BY <1>0, <1>a, <2>1, OwedFrame DEF AllOwed
<1>11. CASE detach(c)
  <2> DEFINE d == conn[c].dev
             k == conn[c].kind
  <2>1. UNCHANGED <<pending, cancelled, open, sentWakes, last, call>>
    BY <1>11 DEF detach
  <2>2. PICK pc : Moves(c, pc, {})
    BY <1>0, <1>11, HandlerMoves
  <2>3. \/ sessions' = [sessions EXCEPT ![d][k] = NoConn]
        \/ sessions' = sessions /\ sessions[d][k] # c
    BY <1>11 DEF detach
  <2>4. /\ sessions'[d][k] # c
        /\ \A e \in Conns : sessions'[conn[e].dev][conn[e].kind] = e => sessions[conn[e].dev][conn[e].kind] = e
    BY <1>a, <2>3
  <2>5. \A j \in Calls : Owed(c, j)'
    BY <2>2, <2>4 DEF Owed, Moves
  <2> QED BY <1>c, <2>1, <2>2, <2>4, <2>5
<1> QED
  BY <1>1, <1>2, <1>3, <1>4, <1>5, <1>6, <1>7, <1>8, <1>9, <1>10, <1>11 DEF HandleConn

(* The steps of a call keep what is owed: it copies the table before it     *)
(* sends, and a connection that is not in the copy reads what the call      *)
(* remembered when it attached.                                            *)
LEMMA CallOwed ==
  ASSUME GatewayAssumption, GatewayInv, NEW k \in Calls, CallStep(k)
  PROVE  AllOwed'
<1>0. TypeOK /\ TableSound /\ AllOwed
  BY DEF GatewayInv
<1>a. /\ \A e \in Conns : conn[e].dev \in Devices
      /\ pending \in [Devices -> SUBSET Calls] /\ cancelled \in [Devices -> SUBSET Calls]
      /\ call[k].dev \in Devices
  BY <1>0 DEF TypeOK
(* The other calls. *)
<1>b. ASSUME NEW pc, NEW todo, CallMoves(k, pc, todo), UNCHANGED <<sessions, conn, open>>,
             \A d \in Devices, j \in Calls \ {k} : /\ j \in pending'[d] => j \in pending[d]
                                                   /\ j \in cancelled'[d] => j \in cancelled[d],
             \A e \in Conns, j \in Calls : j \in sentWakes[e] => j \in sentWakes'[e],
             \A e \in Conns, j \in Calls \ {k} : last'[e][j] = last[e][j],
             \A e \in Conns : Owed(e, k)'
      PROVE  AllOwed'
  <2>1. ASSUME NEW e \in Conns, NEW j \in Calls PROVE Owed(e, j)'
    <3>1. CASE j = k
      BY <1>b, <3>1
    <3>2. CASE j # k
      <4>1. call'[j] = call[j] /\ Owed(e, j) /\ conn[e].dev \in Devices
        BY <1>0, <1>a, <1>b, <3>2 DEF CallMoves, AllOwed
      <4>2. /\ j \in pending'[conn[e].dev] => j \in pending[conn[e].dev]
            /\ j \in cancelled'[conn[e].dev] => j \in cancelled[conn[e].dev]
        BY <1>b, <3>2, <4>1
      <4>3. conn' = conn /\ sessions' = sessions /\ open' = open /\ last'[e][j] = last[e][j]
        BY <1>b, <3>2
      <4>4. j \in sentWakes[e] => j \in sentWakes'[e]
        BY <1>b
      <4> QED BY <4>1, <4>2, <4>3, <4>4, OwedFrame
    <3> QED BY <3>1, <3>2
  <2> QED BY <2>1 DEF AllOwed
<1>1. CASE Wake(k)
  <2> DEFINE snap == snapshotLocked(call[k].dev)
  <2>1. /\ UNCHANGED <<sessions, conn, open, sentWakes, last>>
        /\ cancelled' = [cancelled EXCEPT ![call[k].dev] = @ \ {k}]
        /\ pending' = [pending EXCEPT ![call[k].dev] = @ \cup {k}]
    BY <1>1 DEF Wake
  <2>2. CallMoves(k, After(snap, "waking", "ringing"), snap)
    BY <1>0, <1>1, CallStepMoves
  <2>3. \A d \in Devices, j \in Calls \ {k} : /\ j \in pending'[d] => j \in pending[d]
                                              /\ j \in cancelled'[d] => j \in cancelled[d]
    BY <1>a, <2>1
  <2>4. ASSUME NEW e \in Conns PROVE Owed(e, k)'
    <3>1. sessions[conn[e].dev][conn[e].kind] = e /\ call[k].dev = conn[e].dev => e \in snap
      BY <1>0, InSnapshot
    <3>2. e \in snap => call'[k].pc = "waking"
      BY <2>2 DEF CallMoves, After
    <3>3. call'[k].todo = snap /\ call'[k].dev = call[k].dev /\ call'[k].pc \in {"waking", "ringing"}
      BY <2>2 DEF CallMoves, After
    <3> QED BY <2>1, <3>1, <3>2, <3>3 DEF Owed
  <2> QED BY <1>b, <2>1, <2>2, <2>3, <2>4
<1>2. CASE CancelWake(k)
  <2> DEFINE snap == snapshotLocked(call[k].dev)
  <2>1. /\ UNCHANGED <<sessions, conn, open, sentWakes, last>>
        /\ pending' = [pending EXCEPT ![call[k].dev] = @ \ {k}]
        /\ cancelled' = [cancelled EXCEPT ![call[k].dev] = @ \cup {k}]
    BY <1>2 DEF CancelWake
  <2>2. CallMoves(k, After(snap, "cancelling", "cancelled"), snap)
    BY <1>0, <1>2, CallStepMoves
  <2>3. \A d \in Devices, j \in Calls \ {k} : /\ j \in pending'[d] => j \in pending[d]
                                              /\ j \in cancelled'[d] => j \in cancelled[d]
    BY <1>a, <2>1
  <2>4. ASSUME NEW e \in Conns PROVE Owed(e, k)'
    <3>1. sessions[conn[e].dev][conn[e].kind] = e /\ call[k].dev = conn[e].dev => e \in snap
      BY <1>0, InSnapshot
    <3>2. e \in snap => call'[k].pc = "cancelling"
      BY <2>2 DEF CallMoves, After
    <3>3. call'[k].todo = snap /\ call'[k].dev = call[k].dev /\ call'[k].pc \in {"cancelling", "cancelled"}
      BY <2>2 DEF CallMoves, After
    <3> QED BY <2>1, <3>1, <3>2, <3>3 DEF Owed
  <2> QED BY <1>b, <2>1, <2>2, <2>3, <2>4
<1>3. CASE ForgetWake(k)
  <2>1. /\ UNCHANGED <<sessions, conn, open, sentWakes, last, cancelled>>
        /\ pending' = [pending EXCEPT ![call[k].dev] = @ \ {k}]
    BY <1>3 DEF ForgetWake
  <2>2. CallMoves(k, "forgotten", call[k].todo)
    BY <1>0, <1>3, CallStepMoves
  <2>3. \A d \in Devices, j \in Calls \ {k} : j \in pending'[d] => j \in pending[d]
    BY <1>a, <2>1
  <2>4. \A e \in Conns : Owed(e, k)'
    BY <2>2 DEF Owed, CallMoves
  <2> QED BY <1>b, <2>1, <2>2, <2>3, <2>4
<1>4. ASSUME NEW c \in Conns, WakeSend(k, c) PROVE AllOwed'
  <2> DEFINE rest == call[k].todo \ {c}
  <2>1. /\ UNCHANGED <<sessions, pending, cancelled, conn, open>> /\ sendWake(c, k)
        /\ call[k].pc = "waking"
    BY <1>4 DEF WakeSend
  <2>2. CallMoves(k, After(rest, "waking", "ringing"), rest)
    BY <1>0, <1>4, CallStepMoves
  <2>3. /\ \A e \in Conns, j \in Calls : e # c \/ j # k => last'[e][j] = last[e][j]
        /\ \A e \in Conns, j \in Calls : j \in sentWakes[e] => j \in sentWakes'[e]
        /\ k \in sentWakes'[c]
    BY <1>0, <2>1, SendEffect
  <2>4. ASSUME NEW e \in Conns PROVE Owed(e, k)'
    <3>1. call'[k].todo = rest /\ call'[k].dev = call[k].dev /\ call'[k].pc \in {"waking", "ringing"}
      BY <2>2 DEF CallMoves, After
    <3>2. e \in call[k].todo /\ e # c => e \in rest /\ call'[k].pc = "waking"
      BY <2>2 DEF CallMoves, After
    <3>3. Owed(e, k)
      BY <1>0 DEF AllOwed
    <3>4. CASE e = c
      BY <2>1, <2>3, <3>1, <3>4 DEF Owed
    <3>5. CASE e # c
      BY <2>1, <2>3, <3>1, <3>2, <3>3, <3>5 DEF Owed
    <3> QED BY <3>4, <3>5
  <2> QED BY <1>b, <2>1, <2>2, <2>3, <2>4
<1>5. ASSUME NEW c \in Conns, CancelSend(k, c) PROVE AllOwed'
  <2> DEFINE rest == call[k].todo \ {c}
  <2>1. /\ UNCHANGED <<sessions, pending, cancelled, conn, open, sentWakes>> /\ send(c, k, "cancel")
        /\ call[k].pc = "cancelling"
    BY <1>5 DEF CancelSend
  <2>2. CallMoves(k, After(rest, "cancelling", "cancelled"), rest)
    BY <1>0, <1>5, CallStepMoves
  <2>3. /\ \A e \in Conns, j \in Calls : e # c \/ j # k => last'[e][j] = last[e][j]
        /\ c \in open => last'[c][k] = "cancel"
    BY <1>0, <2>1, SendEffect
  <2>4. ASSUME NEW e \in Conns PROVE Owed(e, k)'
    <3>1. call'[k].todo = rest /\ call'[k].dev = call[k].dev /\ call'[k].pc \in {"cancelling", "cancelled"}
      BY <2>2 DEF CallMoves, After
    <3>2. e \in call[k].todo /\ e # c => e \in rest /\ call'[k].pc = "cancelling"
      BY <2>2 DEF CallMoves, After
    <3>3. Owed(e, k)
      BY <1>0 DEF AllOwed
    <3>4. CASE e = c
      BY <2>1, <2>3, <3>1, <3>4 DEF Owed
    <3>5. CASE e # c
      BY <2>1, <2>3, <3>1, <3>2, <3>3, <3>5 DEF Owed
    <3> QED BY <3>4, <3>5
  <2> QED BY <1>b, <2>1, <2>2, <2>3, <2>4
<1> QED BY <1>1, <1>2, <1>3, <1>4, <1>5 DEF CallStep

(* Every step keeps what each session is still owed.                       *)
LEMMA OwedStep == GatewayAssumption /\ GatewayInv /\ [Next]_vars => AllOwed'
<1> SUFFICES ASSUME GatewayAssumption, GatewayInv, [Next]_vars PROVE AllOwed'
  OBVIOUS
<1>0. TypeOK /\ AllOwed
  BY DEF GatewayInv
<1>1. ASSUME UNCHANGED <<sessions, conn, sentWakes, last, call>>, open' \subseteq open,
             \A d \in Devices : pending'[d] \subseteq pending[d] /\ cancelled'[d] \subseteq cancelled[d]
      PROVE  AllOwed'
  <2>1. \A e \in Conns : conn[e].dev \in Devices
    BY <1>0 DEF TypeOK
  <2> QED BY <1>0, <1>1, <2>1, OwedFrame DEF AllOwed
<1>2. ASSUME NEW c \in Conns, ConnLost(c) \/ failSuperseded(c) PROVE AllOwed'
  BY <1>1, <1>2 DEF ConnLost, failSuperseded
<1>3. ASSUME NEW d \in Devices, HookStep(d) PROVE AllOwed'
  BY <1>1, <1>3 DEF HookStep, RotateCredential, LoseSeat, DisconnectWith, DisconnectFail, gwVars
<1>4. ASSUME NEW d \in Devices, NEW k \in Calls, Expire(d, k) PROVE AllOwed'
  <2>1. UNCHANGED <<sessions, conn, sentWakes, last, call, open>>
    BY <1>4 DEF Expire
  <2>2. \A e \in Devices : pending'[e] \subseteq pending[e] /\ cancelled'[e] \subseteq cancelled[e]
    BY <1>0, <1>4 DEF Expire, TypeOK
  <2> QED BY <1>1, <2>1, <2>2
<1>5. CASE UNCHANGED vars
  BY <1>1, <1>5 DEF vars
<1> QED
  BY <1>2, <1>3, <1>4, <1>5, HandlerOwed, CallOwed DEF Next

(* The tables and the handlers start empty. *)
LEMMA GatewayInit == GatewayAssumption /\ Init => GatewayInv
<1> SUFFICES ASSUME GatewayAssumption, Init PROVE GatewayInv
  OBVIOUS
<1>1. MaxCred \in Nat /\ MaxWakes \in Nat
  BY DEF Init, MaxCred, MaxWakes, GatewayAssumption
<1>2. \A c \in Conns : conn[c].pc = "idle" /\ conn[c].dev \in Devices /\ conn[c].kind \in Kinds
  BY DEF Init
<1>3. \A c \in Conns : sessions[conn[c].dev][conn[c].kind] = NoConn
  BY <1>2 DEF Init
<1>4. TypeOK
  <2>1. conn \in [Conns -> ConnStates]
    <3>1. \A d \in Devices, k \in Kinds :
            [pc |-> "idle", dev |-> d, kind |-> k, token |-> 0, todo |-> {}] \in ConnStates
      BY <1>1 DEF ConnStates, PCs
    <3>2. {[pc |-> "idle", dev |-> d, kind |-> k, token |-> 0, todo |-> {}] : d \in Devices, k \in Kinds} \subseteq ConnStates
      BY <3>1
    <3> QED BY <3>2 DEF Init
  <2>2. call \in [Calls -> CallStates]
    <3>1. \A d \in Devices :
            [pc |-> "idle", dev |-> d, todo |-> {}, wakes |-> 0, reached |-> {}] \in CallStates
      BY <1>1 DEF CallStates, CallPCs
    <3>2. {[pc |-> "idle", dev |-> d, todo |-> {}, wakes |-> 0, reached |-> {}] : d \in Devices} \subseteq CallStates
      BY <3>1
    <3> DEFINE Start == {[pc |-> "idle", dev |-> d, todo |-> {}, wakes |-> 0, reached |-> {}] : d \in Devices}
    <3>3. call \in [Calls -> Start]
      BY DEF Init
    <3> HIDE DEF Start
    <3>4. Start \subseteq CallStates
      BY <3>2 DEF Start
    <3> QED BY <3>3, <3>4
  <2>3. hook \in [Devices -> HookStates]
    BY DEF Init, HookStates
  <2>4. cred \in [Devices -> 0..MaxCred]
    BY <1>1 DEF Init
  <2>5. presence \in [Devices -> [Kinds -> BOOLEAN]] /\ seat \in [Devices -> BOOLEAN]
    BY DEF Init
  <2>6. /\ scenario \in Scenarios
        /\ sessions \in [Devices -> [Kinds -> Conns \cup {NoConn}]]
        /\ pending \in [Devices -> SUBSET Calls] /\ cancelled \in [Devices -> SUBSET Calls]
        /\ open \subseteq Conns /\ failing \subseteq Conns
        /\ sentWakes \in [Conns -> SUBSET Calls]
        /\ last \in [Conns -> [Calls -> {"none", "wake", "cancel"}]]
    BY DEF Init
  <2> QED BY <2>1, <2>2, <2>3, <2>4, <2>5, <2>6 DEF TypeOK, ConnStates, CallStates, CallPCs, HookStates
<1>5. TableSound
  BY <1>2 DEF TableSound, AttachedPCs, Init
<1>6. AllOwed
  BY <1>3 DEF AllOwed, Owed, GatewayAssumption
<1> QED BY <1>4, <1>5, <1>6 DEF GatewayInv

(* The gateway's invariant holds of every run.                             *)
LEMMA GatewayInductive == Spec => []GatewayInv
<1>1. GatewayInv /\ [Next]_vars => GatewayInv'
  BY TypeStep, TableStep, OwedStep, GatewayAssumption DEF GatewayInv
<1>2. Init => GatewayInv
  BY GatewayInit, GatewayAssumption
<1> QED BY <1>1, <1>2, PTL DEF Spec

(* An entry of the session table is a connection of that device and kind    *)
(* whose handler has not detached, and an attached handler that is not in    *)
(* the table is closed or about to be failed, for any number of devices,     *)
(* connections and calls and however attach, detach and fail interleave.     *)
THEOREM GatewayTableSound == Spec => []TableSound
<1>1. GatewayInv => TableSound
  BY DEF GatewayInv
<1> QED BY <1>1, GatewayInductive, PTL

(* A client that is up has been sent every wake in force for its device,     *)
(* and the last it heard of a cancelled call is the cancel, whichever of     *)
(* Wake, CancelWake and its own connecting came first.                       *)
THEOREM GatewayReachesAll == Spec => []ReachesAll
<1>1. GatewayInv => ReachesAll
  <2> SUFFICES ASSUME GatewayInv PROVE ReachesAll
    OBVIOUS
  <2>1. \A c \in Conns, k \in Calls : Owed(c, k)
    BY DEF GatewayInv, AllOwed
  <2>2. WakeReachesAll
    BY <2>1 DEF WakeReachesAll, Owed, Up
  <2>3. CancelReachesAll
    BY <2>1 DEF CancelReachesAll, Owed, Up
  <2> QED BY <2>2, <2>3 DEF ReachesAll
<1> QED BY <1>1, GatewayInductive, PTL
=============================================================================
