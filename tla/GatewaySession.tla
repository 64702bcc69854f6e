--------------------------- MODULE GatewaySession ---------------------------
(***************************************************************************)
(* The phone's side of the signalling connection: GatewaySession (the      *)
(* keeper, any thread under its lock), its Swift Tasks (backoff, attempt   *)
(* deadline, waiting grace), the LANSocketTransport on its serial queue    *)
(* with the SessionMachine inside, and the event stream between the two,   *)
(* which the keeper's pump drains in order.                                *)
(*                                                                         *)
(* A Task is its own actor: it sleeps, finds it has not been cancelled,    *)
(* takes the lock to decide, and only then, unlocked, calls the transport. *)
(* Cancelling a task that has passed the check has no effect on it.        *)
(*                                                                         *)
(* External: the network, the server and the host.  What the network and   *)
(* the server do to a connection beyond carrying its handshake is a mishap, *)
(* and so is an answer slower than the timer that waits for it.  Mishaps   *)
(* and the host's calls come at any point, MaxOutside of them in all.      *)
(***************************************************************************)
EXTENDS Integers, Sequences, FiniteSets, SequencesExt

CONSTANTS
  Calls,       \* calls whose wake the server replays to every new session
  LastDelay,   \* index of the longest delay of the ReconnectPolicy
  MaxTasks,    \* bound: Tasks alive at once
  MaxOps,      \* bound: blocks waiting on the transport's queue
  MaxEvents,   \* bound: events waiting in the transport's stream
  MaxOutside   \* bound: calls of the host and mishaps

ASSUME GatewaySessionBounds ==
  /\ LastDelay \in Nat
  /\ {MaxTasks, MaxOps, MaxEvents, MaxOutside} \subseteq Nat \ {0}

VARIABLES
  wanted, active, connected, refused,  \* the keeper's flags
  attempt,     \* ReconnectPolicy.attempt, saturated at LastDelay
  task,        \* the Tasks alive
  handle,      \* reconnect, attemptTask and waitingGraceTask
  pump,        \* what the pump still has to do for the event it took
  host,        \* what the host's call still has to do
  ops,         \* the transport's queue
  stream,      \* transport.events
  conn,        \* the connection
  machine,     \* SessionMachine.state
  watch,       \* livenessTimer is set
  late,        \* a send on a torn-down connection has yet to report its error
  seen,        \* SessionMachine.seenWakes
  rung,        \* how often each call's wake was handed to the app
  outside      \* calls of the host and mishaps so far

keeperVars == <<wanted, active, connected, refused, attempt>>
taskVars == <<task, handle>>
wireVars == <<conn, machine, watch, late, seen>>
vars == <<wanted, active, connected, refused, attempt, task, handle, pump, host,
          ops, stream, conn, machine, watch, late, seen, rung, outside>>

Kinds == {"backoff", "deadline", "grace"}
Ids == 1..MaxTasks
None == 0
NoTask == [kind |-> "none", pc |-> "none", delay |-> 0]
Task == [kind : Kinds, pc : {"sleep", "open", "arm", "close"},
         delay : 0..LastDelay] \cup {NoTask}
Idle == [pc |-> "idle", delay |-> 0]

TypeOK ==
  /\ {wanted, active, connected, refused, watch, late} \subseteq BOOLEAN
  /\ attempt \in 0..LastDelay
  /\ task \in [Ids -> Task]
  /\ handle \in [Kinds -> Ids \cup {None}]
  /\ pump \in [pc : {"idle", "schedule", "grace"}, delay : 0..LastDelay]
  /\ host \in {"idle", "open", "arm", "close"}
  /\ ops \in Seq({"open", "close", "check"}) /\ Len(ops) <= MaxOps
  /\ stream \in Seq({"waiting", "connected", "refusal", "disconnected"})
  /\ Len(stream) <= MaxEvents
  /\ conn \in {"none", "preparing", "ready", "dead", "silent"}
  /\ machine \in {"idle", "awaiting", "live", "closed"}
  /\ seen \subseteq Calls /\ rung \in [Calls -> 0..2]
  /\ outside \in 0..MaxOutside

Init ==
  /\ wanted = FALSE /\ active = TRUE /\ connected = FALSE /\ refused = FALSE
  /\ attempt = 0
  /\ task = [i \in Ids |-> NoTask] /\ handle = [k \in Kinds |-> None]
  /\ pump = Idle /\ host = "idle"
  /\ ops = <<>> /\ stream = <<>>
  /\ conn = "none" /\ machine = "idle" /\ watch = FALSE /\ late = FALSE
  /\ seen = {} /\ rung = [c \in Calls |-> 0]
  /\ outside = 0

---------------------------------------------------------------------------
(* Tasks.                                                                  *)

Sleeping(i) == task[i].pc = "sleep"
Pending(k) == {i \in Ids : task[i].kind = k}

\* The tasks left when the tasks held for the kinds ks are cancelled: a
\* sleeping one returns at once, one past its check goes on.
Cancelled(ks) ==
  [i \in Ids |-> IF Sleeping(i) /\ \E k \in ks : handle[k] = i THEN NoTask ELSE task[i]]

\* The handles with those of the kinds ks forgotten.
Released(ks) == [k \in Kinds |-> IF k \in ks THEN None ELSE handle[k]]

\* Start a sleeping Task of kind k in the tasks ts, and keep it in handle.
Start(k, d, ts, hs) ==
  \E i \in {j \in Ids : ts[j] = NoTask} :
    /\ \A j \in Ids : j < i => ts[j] # NoTask
    /\ task' = [ts EXCEPT ![i] = [kind |-> k, pc |-> "sleep", delay |-> d]]
    /\ handle' = [hs EXCEPT ![k] = i]

Finish(i) ==
  /\ task' = [task EXCEPT ![i] = NoTask]
  /\ handle' = [k \in Kinds |-> IF handle[k] = i THEN None ELSE handle[k]]

Enqueue(op) ==
  /\ Len(ops) < MaxOps
  /\ ops' = Append(ops, op)

---------------------------------------------------------------------------
(* The transport, on its queue.                                            *)

\* The phone has work it does at once: a block on the queue, an event in the
\* stream, a thread between two of its statements, a backoff of no time.
Busy ==
  \/ ops # <<>> \/ stream # <<>> \/ late
  \/ pump # Idle \/ host # "idle"
  \/ \E i \in Ids : \/ task[i].pc \in {"open", "arm", "close"}
                    \/ task[i].kind = "backoff" /\ task[i].delay = 0

Handshaking == conn \in {"preparing", "ready"} /\ machine # "live"

Mishap ==
  /\ outside < MaxOutside
  /\ outside' = outside + 1

\* Emit the events es.
Emit(es) ==
  /\ Len(stream) + Len(es) <= MaxEvents
  /\ stream' = stream \o es

\* A connection is cancelled: a send it had not processed may still report
\* its error (one such report is outstanding at most).
Unsent == conn # "none" /\ machine # "idle" /\ ~late
Cancel ==
  \/ UNCHANGED <<late, outside>>
  \/ Unsent /\ Mishap /\ late' = TRUE

\* teardown: the timer goes, the connection is cancelled and forgotten, its
\* handlers first.
Teardown ==
  /\ watch' = FALSE
  /\ conn' = "none"
  /\ Cancel

\* SessionMachine.didClose: one disconnected for each connection at most.
Dropped == IF machine = "closed" THEN <<>> ELSE <<"disconnected">>

\* close: didClose, then teardown.
Close ==
  /\ Emit(Dropped)
  /\ machine' = "closed"
  /\ Teardown
  /\ UNCHANGED <<seen, rung>>

\* open: a connection there is closed and reported; the session machine, and
\* with it the wakes it has seen, is replaced.
Open ==
  /\ ops # <<>> /\ Head(ops) = "open"
  /\ ops' = Tail(ops)
  /\ Emit(IF conn # "none" THEN Dropped ELSE <<>>)
  /\ watch' = FALSE
  /\ Cancel
  /\ machine' = "idle" /\ seen' = {}
  /\ conn' = "preparing"
  /\ UNCHANGED <<keeperVars, taskVars, pump, host, rung>>

\* disconnect's block.
CloseOp ==
  /\ ops # <<>> /\ Head(ops) = "close"
  /\ ops' = Tail(ops)
  /\ Close
  /\ UNCHANGED <<keeperVars, taskVars, pump, host>>

\* Mutant of EvaluateLiveness: silence is never too long.
EvaluateLiveness_NoLimit ==
  /\ watch' = (watch \/ machine = "live")
  /\ UNCHANGED <<stream, conn, machine, late, seen, rung, outside>>

\* evaluateLiveness: a live session that has been silent for three intervals
\* is dropped, any other live one is looked at again later.
EvaluateLiveness ==
  IF machine = "live" /\ conn = "silent"
  THEN Close
  ELSE /\ watch' = (watch \/ machine = "live")
       /\ UNCHANGED <<stream, conn, machine, late, seen, rung, outside>>

CheckOp ==
  /\ ops # <<>> /\ Head(ops) = "check"
  /\ ops' = Tail(ops)
  /\ EvaluateLiveness
  /\ UNCHANGED <<keeperVars, taskVars, pump, host>>

\* The liveness timer; it fires once and is set again by evaluateLiveness.
LivenessTimer ==
  /\ watch
  /\ EvaluateLiveness
  /\ UNCHANGED <<keeperVars, taskVars, pump, host, ops>>

\* stateUpdateHandler .ready: the hello goes out.
Ready ==
  /\ conn = "preparing"
  /\ conn' = "ready" /\ machine' = "awaiting"
  /\ UNCHANGED <<keeperVars, taskVars, pump, host, ops, stream, watch, late, seen, rung, outside>>

\* Mutant of Failed: the connection is closed without a drop.
Failed_Silently ==
  /\ conn # "none" /\ Mishap
  /\ machine' = "closed" /\ watch' = FALSE /\ conn' = "none"
  /\ UNCHANGED <<keeperVars, taskVars, pump, host, ops, stream, late, seen, rung>>

\* .failed, the end of the stream, a bad frame, a failed send, a fatal error
\* that is not a refusal: the machine reports the drop, the connection goes.
Failed ==
  /\ conn # "none" /\ Mishap
  /\ Emit(Dropped)
  /\ machine' = "closed" /\ watch' = FALSE /\ conn' = "none"
  /\ UNCHANGED late \/ (Unsent /\ late' = TRUE)
  /\ UNCHANGED <<keeperVars, taskVars, pump, host, ops, seen, rung>>

\* .waiting, or a path that is no longer viable: reported, not torn down.
PathWaits ==
  /\ conn # "none" /\ Mishap
  /\ Emit(<<"waiting">>)
  /\ UNCHANGED <<keeperVars, taskVars, pump, host, ops, wireVars, rung>>

\* The completion of a send on a connection already torn down: it is applied
\* to whatever connection there is now.
LateWrite ==
  /\ late
  /\ Emit(Dropped)
  /\ machine' = "closed"
  /\ watch' = FALSE /\ conn' = "none" /\ late' = FALSE
  /\ UNCHANGED <<keeperVars, taskVars, pump, host, ops, seen, rung, outside>>

\* received: a welcome whose licence holds.  One that overtakes the phone's
\* own work is a mishap.
Welcome ==
  /\ conn = "ready" /\ machine = "awaiting"
  /\ IF Busy THEN Mishap ELSE UNCHANGED outside
  /\ Emit(<<"connected">>)
  /\ machine' = "live" /\ watch' = TRUE
  /\ UNCHANGED <<keeperVars, taskVars, pump, host, ops, conn, late, seen, rung>>

\* received: a welcome without a valid licence, or a fatal unauthorized,
\* unsupported_version or superseded.
Refusal ==
  /\ conn = "ready" /\ machine \in {"awaiting", "live"} /\ Mishap
  /\ Emit(<<"refusal", "disconnected">>)
  /\ machine' = "closed" /\ watch' = FALSE /\ conn' = "none"
  /\ UNCHANGED late \/ (Unsent /\ late' = TRUE)
  /\ UNCHANGED <<keeperVars, taskVars, pump, host, ops, seen, rung>>

\* received: a wake in force.  One already seen is dropped.
Wake(c) ==
  /\ conn = "ready" /\ machine = "live"
  /\ rung[c] < 2
  /\ seen' = seen \cup {c}
  /\ rung' = IF c \in seen THEN rung ELSE [rung EXCEPT ![c] = @ + 1]
  /\ UNCHANGED <<keeperVars, taskVars, pump, host, ops, stream, conn, machine,
                 watch, late, outside>>

\* External: the path goes away and TCP does not notice.
PathLost ==
  /\ conn \in {"preparing", "ready"} /\ Mishap
  /\ conn' = "dead"
  /\ UNCHANGED <<keeperVars, taskVars, pump, host, ops, stream, machine, watch,
                 late, seen, rung>>

\* External: three heartbeat intervals have passed on a dead path.
Silence ==
  /\ conn = "dead"
  /\ conn' = "silent"
  /\ UNCHANGED <<keeperVars, taskVars, pump, host, ops, stream, machine, watch,
                 late, seen, rung, outside>>

---------------------------------------------------------------------------
(* The keeper: the host's calls.                                           *)

HostCalls ==
  /\ host = "idle" /\ outside < MaxOutside
  /\ outside' = outside + 1

\* connect: the flags under the lock, then an attempt.
Connect ==
  /\ HostCalls
  /\ wanted' = TRUE /\ refused' = FALSE
  /\ task' = Cancelled({"backoff"}) /\ handle' = Released({"backoff"})
  /\ host' = "open"
  /\ UNCHANGED <<active, connected, attempt, pump, ops, stream, wireVars, rung>>

\* disconnect: every timer is cancelled, then the transport is closed.
Disconnect ==
  /\ HostCalls
  /\ wanted' = FALSE
  /\ task' = Cancelled(Kinds) /\ handle' = Released(Kinds)
  /\ host' = "close"
  /\ UNCHANGED <<active, connected, refused, attempt, pump, ops, stream, wireVars, rung>>

\* setActive: to the foreground with a wanted session down, a fresh attempt.
SetActive(b) ==
  /\ HostCalls
  /\ active' = b
  /\ task' = Cancelled({"backoff"}) /\ handle' = Released({"backoff"})
  /\ LET now == b /\ wanted /\ ~connected IN
       /\ refused' = (refused /\ ~now)
       /\ attempt' = IF now THEN 0 ELSE attempt
       /\ host' = IF now THEN "open" ELSE "idle"
  /\ UNCHANGED <<wanted, connected, pump, ops, stream, wireVars, rung>>

\* checkLiveness.
CheckLiveness ==
  /\ HostCalls
  /\ Enqueue("check")
  /\ UNCHANGED <<keeperVars, taskVars, pump, host, stream, wireVars, rung>>

\* The rest of the host's call, unlocked: attempt's inner.connect and then its
\* deadline, or inner.disconnect.
HostOpen ==
  /\ host = "open" /\ Enqueue("open")
  /\ host' = "arm"
  /\ UNCHANGED <<keeperVars, taskVars, pump, stream, wireVars, rung, outside>>

\* Mutant of HostArm: the attempt gets no deadline.
HostArm_NoDeadline ==
  /\ host = "arm" /\ host' = "idle"
  /\ UNCHANGED <<keeperVars, taskVars, pump, ops, stream, wireVars, rung, outside>>

HostArm ==
  /\ host = "arm"
  /\ Start("deadline", 0, Cancelled({"deadline"}), handle)
  /\ host' = "idle"
  /\ UNCHANGED <<keeperVars, pump, ops, stream, wireVars, rung, outside>>

HostClose ==
  /\ host = "close" /\ Enqueue("close")
  /\ host' = "idle"
  /\ UNCHANGED <<keeperVars, taskVars, pump, stream, wireVars, rung, outside>>

---------------------------------------------------------------------------
(* The keeper: its pump and its tasks.                                     *)

\* nextDelay: the attempt counted, up to the last delay.
NextAttempt == IF attempt < LastDelay THEN attempt + 1 ELSE attempt

\* forward: the locked part.
Forward ==
  /\ pump = Idle /\ stream # <<>>
  /\ stream' = Tail(stream)
  /\ CASE Head(stream) = "connected" ->
            /\ connected' = TRUE /\ attempt' = 0
            /\ task' = Cancelled({"grace", "deadline"}) /\ handle' = Released({"grace", "deadline"})
            /\ UNCHANGED <<refused, pump>>
       [] Head(stream) = "refusal" ->
            /\ refused' = TRUE
            /\ UNCHANGED <<connected, attempt, taskVars, pump>>
       [] Head(stream) = "disconnected" ->
            /\ connected' = FALSE
            /\ task' = Cancelled({"grace", "deadline"}) /\ handle' = Released({"grace", "deadline"})
            /\ IF wanted /\ active /\ ~refused
               THEN pump' = [pc |-> "schedule", delay |-> attempt] /\ attempt' = NextAttempt
               ELSE UNCHANGED <<pump, attempt>>
            /\ UNCHANGED refused
       [] OTHER ->
            /\ pump' = IF wanted /\ active /\ ~connected /\ handle["grace"] = None
                       THEN [pc |-> "grace", delay |-> 0] ELSE Idle
            /\ UNCHANGED <<connected, refused, attempt, taskVars>>
  /\ UNCHANGED <<wanted, active, host, ops, wireVars, rung, outside>>

\* schedule: the backoff's Task.  The one it replaces is not cancelled.
Schedule ==
  /\ pump.pc = "schedule"
  /\ Start("backoff", pump.delay, task, handle)
  /\ pump' = Idle
  /\ UNCHANGED <<keeperVars, host, ops, stream, wireVars, rung, outside>>

StartWaitingGrace ==
  /\ pump.pc = "grace"
  /\ Start("grace", 0, task, handle)
  /\ pump' = Idle
  /\ UNCHANGED <<keeperVars, host, ops, stream, wireVars, rung, outside>>

\* A task's sleep ends.  The deadline or the longest backoff ending before a
\* handshake or the phone's own work is a mishap.
Elapses(i) ==
  /\ task[i].pc = "sleep"
  /\ IF (Busy \/ Handshaking) /\ (task[i].kind = "deadline" \/ task[i].delay = LastDelay)
     THEN Mishap ELSE UNCHANGED outside

\* The backoff's task, not cancelled, decides under the lock to attempt.
BackoffFires(i) ==
  /\ task[i].kind = "backoff" /\ Elapses(i)
  /\ IF wanted /\ active /\ ~connected
     THEN task' = [task EXCEPT ![i].pc = "open"] /\ UNCHANGED handle
     ELSE Finish(i)
  /\ UNCHANGED <<keeperVars, pump, host, ops, stream, wireVars, rung>>

\* The deadline's and the grace's task forget the handle of their kind,
\* whichever task it names, and decide whether to abandon the attempt.
AbandonFires(i) ==
  /\ task[i].kind \in {"deadline", "grace"} /\ Elapses(i)
  /\ handle' = Released({task[i].kind})
  /\ task' = IF wanted /\ active /\ ~connected
             THEN [task EXCEPT ![i].pc = "close"] ELSE [task EXCEPT ![i] = NoTask]
  /\ UNCHANGED <<keeperVars, pump, host, ops, stream, wireVars, rung>>

TaskOpens(i) ==
  /\ task[i].pc = "open" /\ Enqueue("open")
  /\ task' = [task EXCEPT ![i].pc = "arm"]
  /\ UNCHANGED <<keeperVars, handle, pump, host, stream, wireVars, rung, outside>>

TaskArms(i) ==
  /\ task[i].pc = "arm"
  /\ LET ts == Cancelled({"deadline"})
         hs == [k \in Kinds |-> IF handle[k] = i THEN None ELSE handle[k]]
     IN  Start("deadline", 0, [j \in Ids |-> IF j = i THEN NoTask ELSE ts[j]], hs)
  /\ UNCHANGED <<keeperVars, pump, host, ops, stream, wireVars, rung, outside>>

TaskCloses(i) ==
  /\ task[i].pc = "close" /\ Enqueue("close")
  /\ Finish(i)
  /\ UNCHANGED <<keeperVars, pump, host, stream, wireVars, rung, outside>>

---------------------------------------------------------------------------
HostNext ==
  \/ Connect \/ Disconnect \/ CheckLiveness
  \/ \E b \in BOOLEAN : SetActive(b)
HostStep == HostOpen \/ HostArm \/ HostClose
PumpStep == Forward \/ Schedule \/ StartWaitingGrace
TaskStep(i) ==
  \/ BackoffFires(i) \/ AbandonFires(i)
  \/ TaskOpens(i) \/ TaskArms(i) \/ TaskCloses(i)
QueueStep == Open \/ CloseOp \/ CheckOp

Next ==
  \/ HostNext \/ HostStep \/ PumpStep \/ QueueStep
  \/ \E i \in Ids : TaskStep(i)
  \/ LivenessTimer \/ Ready \/ Welcome \/ Refusal \/ Failed \/ PathWaits \/ LateWrite
  \/ \E c \in Calls : Wake(c)
  \/ PathLost \/ Silence

Spec == Init /\ [][Next]_vars

\* The executors run what is queued on them, timers fire, and a network
\* without mishaps carries the handshake.
FairSpec ==
  /\ Spec
  /\ WF_vars(HostStep) /\ WF_vars(PumpStep) /\ WF_vars(QueueStep)
  /\ \A i \in Ids : WF_vars(TaskStep(i))
  /\ WF_vars(LivenessTimer) /\ WF_vars(LateWrite) /\ WF_vars(Silence)
  /\ WF_vars(Ready) /\ WF_vars(Welcome)

---------------------------------------------------------------------------
(* Properties.                                                             *)

\* Nothing is on its way anywhere: every thread is between two events.
Quiet ==
  /\ pump = Idle /\ host = "idle" /\ ops = <<>> /\ stream = <<>> /\ ~late
  /\ \A i \in Ids : task[i].pc \in {"none", "sleep"}

\* A session that is wanted, in the foreground and not refused, and that is
\* down, has a timer that will act on it, whichever of connect, setActive,
\* schedule and forward last touched the three handles: it never sits
\* disconnected with nothing to wake it.
NeverWedged ==
  Quiet /\ wanted /\ active /\ ~refused /\ ~connected => \E i \in Ids : task[i] # NoTask

\* What the keeper believes is what the transport has, or the news is on its
\* way: believed up, the session is live or its drop is in the stream; believed
\* down, it is not live unless its welcome is in the stream.  The silence of a
\* live session is watched.
BeliefTrue ==
  /\ connected => machine = "live" \/ "disconnected" \in ToSet(stream)
  /\ ~connected => machine # "live" \/ "connected" \in ToSet(stream)
  /\ machine = "live" => watch /\ conn # "none"

\* A session that stays wanted and in the foreground is up, over a connection
\* that works, and stays up in the end, whatever the mishaps were, unless the
\* server refused it.
Recovers ==
  <>[](wanted /\ active /\ ~refused)
    => <>[](connected /\ machine = "live" /\ conn = "ready")

\* A call's wake is handed to the app once, replays included: "call_ids already
\* surfaced, so a replayed wake after reconnect does not ring twice".  It does
\* not hold: open replaces the machine that holds seenWakes.
RingsOnce == \A c \in Calls : rung[c] <= 1

\* "disconnect() stops everything": a host that has disconnected has no
\* connection.  It does not hold: a backoff's task that had decided to attempt
\* calls the transport after disconnect has closed it.
StaysDown == Quiet /\ ~wanted => conn = "none"

\* "the backoff stops" when the server refuses.  It does not hold: a backoff
\* already sleeping is not cancelled and does not look at refused.
RefusedRests == Quiet /\ refused => Pending("backoff") = {}

\* A session that is up is not marked refused, or its next drop would not be
\* retried.  It does not hold: connect and setActive clear the mark before the
\* pump has forwarded the refusal of the attempt before.
UpNotRefused == Quiet /\ connected => ~refused
=============================================================================
