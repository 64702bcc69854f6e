----------------------------- MODULE CallSetup -----------------------------
(***************************************************************************)
(* One incoming call on the app-leg SIP server (server/internal/b2bua,     *)
(* b2bua.go: serveDialog, wakeAndWaitFrom, bridge, HandleWakeAck), from    *)
(* the INVITE to its last response: routing, the wake, the wait for the    *)
(* callee's registration, the callee's INVITE with its retargets and       *)
(* redials, and the answer.                                                *)
(*                                                                         *)
(* Around it: the caller (may hang up), the ring timer, the callee's phone *)
(* (registers, moves, declines, filters, answers) and the gateway, which   *)
(* here is the wake it remembers and the wake_ack on its way.  The SIP     *)
(* stack is modelled by how bridge uses it: an INVITE returns with 200,    *)
(* with a refusal, or with an error once it is cancelled or times out.     *)
(***************************************************************************)
EXTENDS Naturals, Sequences

CONSTANTS
  Targets,        \* where the router may send the call: "app", "trunk", "unknown"
  MaxRoutes,      \* bound: how often the callee registers from a new address
  maxRetargets,   \* how often one call follows a moving callee
  MayHangUp       \* the caller may give up

ASSUME SetupAssumption ==
  /\ Targets \subseteq {"app", "trunk", "unknown"}
  /\ MaxRoutes \in Nat \ {0}
  /\ maxRetargets \in Nat \ {0}
  /\ MayHangUp \in BOOLEAN

VARIABLES
  pc,          \* where serveDialog is
  target,      \* d.Target
  reg,         \* the callee's registered route, 0 when there is none
  route,       \* ep.Contact: the route this call dials
  moved,       \* bridge: the route the callee was seen to register from
  attempts,    \* INVITEs abandoned and dialled again
  callerGone,  \* in.Context() has ended
  timedOut,    \* the ring timer has fired
  waiting,     \* Server.waiting[callID]: which callback a wake_ack finds
  cause,       \* context.Cause(wctx) of the wait
  answered,    \* bridge: the route has responded
  abandoned,   \* bridge: why the INVITE was given up
  cancelled,   \* bridge: inviteCtx has been cancelled
  grace,       \* bridge: a refusal on the wake, held back for declineGrace
  rang,        \* the caller has been told 180
  finals,      \* the final responses sent to the caller
  pending,     \* the gateway's pending wake for this call
  rings,       \* the callee's phone is ringing for this call
  said,        \* what the phone's owner, or its Focus filter, has decided
  ack,         \* the wake_ack on its way to the server
  heard        \* history: the answer the server got while it waited for a registration

call == <<pc, target, route, attempts, finals, rang>>
bridging == <<answered, abandoned, cancelled, grace, moved>>
phone == <<rings, said, ack, heard>>
vars == <<call, bridging, phone, reg, callerGone, timedOut, waiting, cause, pending>>

ctxDone == callerGone \/ timedOut

Places == {"resolve", "flow", "wake", "woke", "wait", "through", "dial", "invite",
           "busyThrough", "answer", "bridged", "returned", "closed"}
Codes == {200, 403, 404, 480, 486, 488, 503}
Reasons == {"none", "ctx", "retarget", "declined", "busy", "unresponsive"}
Refusals == {"none", "declined", "busy"}

CallType ==
  /\ pc \in Places
  /\ target \in Targets
  /\ route \in 0..MaxRoutes
  /\ attempts \in 0..maxRetargets
  /\ finals \in Seq(Codes)
  /\ rang \in BOOLEAN

BridgeType ==
  /\ answered \in BOOLEAN
  /\ abandoned \in Reasons
  /\ cancelled \in BOOLEAN
  /\ grace \in Refusals
  /\ moved \in 0..MaxRoutes

PhoneType ==
  /\ rings \in BOOLEAN
  /\ said \in {"none", "decline", "busy", "answer"}
  /\ ack \in Refusals
  /\ heard \in Refusals

TypeOK ==
  /\ CallType
  /\ BridgeType
  /\ PhoneType
  /\ reg \in 0..MaxRoutes
  /\ callerGone \in BOOLEAN
  /\ timedOut \in BOOLEAN
  /\ waiting \in {"none", "wait", "bridge"}
  /\ cause \in Refusals
  /\ pending \in BOOLEAN

-----------------------------------------------------------------------------
(* Respond: a final response; a caller that is gone was answered 487 by    *)
(* the stack.                                                              *)
Respond(code) == finals' = IF callerGone THEN finals ELSE Append(finals, code)

(* waker.CancelWake, as far as this call goes: nothing is pending and the  *)
(* phone stops.                                                            *)
CancelWake == pending' = FALSE /\ rings' = FALSE /\ UNCHANGED <<said, ack, heard>>

ForgetWake == pending' = FALSE /\ UNCHANGED phone

(* serveDialog after a bridge that failed: the wake, if one was sent, is   *)
(* cancelled.                                                              *)
StopRinging ==
  \/ target = "app" /\ CancelWake
  \/ target # "app" /\ UNCHANGED <<pending, phone>>

(* waker.Wake: remembered, and rung unless the device is not connected.    *)
Wake(online) ==
  /\ pending' = TRUE
  /\ rings' = online
  /\ UNCHANGED <<said, ack, heard>>

(* No such destination, or no trunk to reach it by.                        *)
Unroutable(code) ==
  /\ pc = "resolve"
  /\ target = IF code = 404 THEN "unknown" ELSE "trunk"
  /\ Respond(code)
  /\ pc' = "returned"
  /\ UNCHANGED <<target, route, attempts, rang, bridging, phone, reg, callerGone,
                 timedOut, waiting, cause, pending>>

(* Resolve: the router reads the registration.                             *)
Resolve ==
  /\ pc = "resolve"
  /\ target # "unknown"
  /\ route' = IF target = "app" THEN reg ELSE 0
  /\ pc' = IF target = "trunk" THEN "dial" ELSE IF reg = 0 THEN "wake" ELSE "flow"
  /\ UNCHANGED <<target, attempts, finals, rang, bridging, phone, reg, callerGone,
                 timedOut, waiting, cause, pending>>

(* The flow of the route read is gone: the user is unregistered and woken. *)
FlowGone ==
  /\ pc = "flow"
  /\ reg' = 0                                            \* reg.Unregister(ep.User)
  /\ pc' = "wake"
  /\ UNCHANGED <<target, route, attempts, finals, rang, bridging, phone, callerGone,
                 timedOut, waiting, cause, pending>>

(* Registered: the wake goes out as well if the device can be woken, and   *)
(* the INVITE at once.                                                     *)
FlowAlive ==
  /\ pc = "flow"
  /\ \/ \E online \in BOOLEAN : Wake(online)
     \/ UNCHANGED <<pending, phone>>
  /\ pc' = "dial"
  /\ UNCHANGED <<target, route, attempts, finals, rang, bridging, reg, callerGone,
                 timedOut, waiting, cause>>

(* wakeAndWaitFrom: nobody to wake, 480 at once.                           *)
WakeUndeliverable ==
  /\ pc = "wake"
  /\ CancelWake
  /\ Respond(480)
  /\ pc' = "returned"
  /\ UNCHANGED <<target, route, attempts, rang, bridging, reg, callerGone, timedOut,
                 waiting, cause>>

(* The wake was written: the caller hears ringing.                         *)
WakeDelivered ==
  /\ pc = "wake"
  /\ Wake(TRUE)
  /\ rang' = TRUE
  /\ pc' = "woke"
  /\ UNCHANGED <<target, route, attempts, finals, bridging, reg, callerGone, timedOut,
                 waiting, cause>>

(* trackWait: from here a decline or busy wake_ack finds the call.         *)
TrackWait ==
  /\ pc = "woke"
  /\ waiting' = "wait"
  /\ pc' = "wait"
  /\ UNCHANGED <<target, route, attempts, finals, rang, bridging, phone, reg, callerGone,
                 timedOut, cause, pending>>

(* WaitRegistered returns the registration, or an error when wctx ends.    *)
WaitRegistered ==
  /\ pc = "wait"
  /\ reg # 0
  /\ route' = reg
  /\ waiting' = "none"
  /\ pc' = "dial"
  /\ UNCHANGED <<target, attempts, finals, rang, bridging, phone, reg, callerGone,
                 timedOut, cause, pending>>

WaitDeclined ==
  /\ pc = "wait"
  /\ cause = "declined"
  /\ Respond(486)
  /\ waiting' = "none"
  /\ pc' = "returned"
  /\ UNCHANGED <<target, route, attempts, rang, bridging, phone, reg, callerGone,
                 timedOut, cause, pending>>

(* Filtered by the device: rung through to the timeout, then 480.          *)
WaitBusy ==
  /\ pc = "wait"
  /\ cause = "busy"
  /\ pc' = "through"
  /\ UNCHANGED <<target, route, attempts, finals, rang, bridging, phone, reg, callerGone,
                 timedOut, waiting, cause, pending>>

(* Mutant of Through: only the caller giving up ends it.                   *)
MutThroughNoTimer ==
  /\ pc = "through"
  /\ callerGone
  /\ waiting' = "none"
  /\ pc' = "returned"
  /\ UNCHANGED <<target, route, attempts, finals, rang, bridging, phone, reg, callerGone,
                 timedOut, cause, pending>>

Through ==
  /\ pc = "through"
  /\ ctxDone
  /\ Respond(480)
  /\ waiting' = "none"
  /\ pc' = "returned"
  /\ UNCHANGED <<target, route, attempts, rang, bridging, phone, reg, callerGone,
                 timedOut, cause, pending>>

(* Mutant of WaitTimedOut: the wake is left standing.                      *)
MutWaitNoCancel ==
  /\ pc = "wait"
  /\ ctxDone
  /\ cause = "none"
  /\ Respond(480)
  /\ waiting' = "none"
  /\ pc' = "returned"
  /\ UNCHANGED <<target, route, attempts, rang, bridging, phone, pending, reg, callerGone,
                 timedOut, cause>>

WaitTimedOut ==
  /\ pc = "wait"
  /\ ctxDone
  /\ cause = "none"
  /\ CancelWake
  /\ Respond(480)
  /\ waiting' = "none"
  /\ pc' = "returned"
  /\ UNCHANGED <<target, route, attempts, rang, bridging, reg, callerGone, timedOut, cause>>

-----------------------------------------------------------------------------
(* bridge.                                                                 *)

(* The callee's INVITE goes out, its watchers and its callback installed.  *)
Dial ==
  /\ pc = "dial"
  /\ waiting' = IF target = "app" THEN "bridge" ELSE waiting
  /\ answered' = FALSE
  /\ abandoned' = "none"
  /\ cancelled' = FALSE
  /\ grace' = "none"
  /\ pc' = "invite"
  /\ UNCHANGED <<target, route, moved, attempts, finals, rang, phone, reg, callerGone, timedOut,
                 cause, pending>>

(* calleeInvite: in lines mode a caller without a line is refused.         *)
NoLine ==
  /\ pc = "dial"
  /\ target = "trunk"
  /\ Respond(403)
  /\ pc' = "returned"
  /\ UNCHANGED <<target, route, attempts, rang, bridging, phone, reg, callerGone,
                 timedOut, waiting, cause, pending>>

(* An 18x from the callee's route: the caller hears ringing, once.         *)
Provisional ==
  /\ pc = "invite"
  /\ ~cancelled
  /\ target = "app" => route = reg /\ said = "none"
  /\ answered' = TRUE
  /\ rang' = TRUE
  /\ rings' = (target = "app")
  /\ UNCHANGED <<pc, target, route, attempts, finals, abandoned, cancelled, grace, moved, said,
                 ack, heard, reg, callerGone, timedOut, waiting, cause, pending>>

(* abandon: the first reason is kept and the INVITE's context cancelled.   *)
abandon(reason) ==
  /\ abandoned' = IF abandoned = "none" THEN reason ELSE abandoned
  /\ cancelled' = TRUE
  /\ UNCHANGED <<call, answered, phone, reg, callerGone, timedOut, waiting, cause, pending>>

(* context.AfterFunc(ctx): the caller gave up or the ring timer fired.     *)
AbandonCtx ==
  /\ pc = "invite"
  /\ target = "app"
  /\ ctxDone
  /\ ~cancelled
  /\ abandon("ctx")
  /\ UNCHANGED <<grace, moved>>

(* WaitRouteChange: the callee registered from elsewhere.                  *)
AbandonRetarget ==
  /\ pc = "invite"
  /\ target = "app"
  /\ reg \notin {0, route}
  /\ ~cancelled
  /\ abandon("retarget")
  /\ moved' = reg
  /\ UNCHANGED grace

(* declineGrace has passed and the phone's own final has not come.         *)
AbandonGrace ==
  /\ pc = "invite"
  /\ grace # "none"
  /\ abandon(grace)
  /\ grace' = "none"
  /\ UNCHANGED moved

(* The trunk's connection delivered nothing for trunkResponseTimeout.      *)
TrunkSilent ==
  /\ pc = "invite"
  /\ target = "trunk"
  /\ ~answered
  /\ ~cancelled
  /\ abandon("unresponsive")
  /\ UNCHANGED <<grace, moved>>

(* out.Invite has failed, with a response callerStatus turns into code.    *)

(* A decline is answered 486, and without a reason of its own the caller   *)
(* gets code; serveDialog then cancels the wake.                           *)
GiveUp(code) ==
  /\ abandoned \in {"none", "ctx", "declined"}
  /\ Respond(IF abandoned = "declined" THEN 486 ELSE code)
  /\ pc' = "returned"
  /\ StopRinging
  /\ waiting' = "none"
  /\ UNCHANGED <<target, route, attempts, rang, bridging, reg, callerGone, timedOut, cause>>

(* Mutant of RingOn: a device that filtered the call ends it at once.      *)
MutBusyEndsCall ==
  /\ abandoned = "busy"
  /\ Respond(486)
  /\ pc' = "returned"
  /\ CancelWake
  /\ waiting' = "none"
  /\ UNCHANGED <<target, route, attempts, rang, bridging, reg, callerGone, timedOut, cause>>

(* errWakeBusy: the caller keeps its ringing.                              *)
RingOn ==
  /\ abandoned = "busy"
  /\ pc' = "busyThrough"
  /\ UNCHANGED <<target, route, attempts, finals, rang, bridging, phone, reg, callerGone,
                 timedOut, waiting, cause, pending>>

(* Mutant of MayRetarget: one retarget too many.                           *)
MutMayRetarget == attempts <= maxRetargets /\ ~ctxDone

MayRetarget == attempts < maxRetargets /\ ~ctxDone

(* errRetarget: dial where the callee is now, or stop following it.        *)
Retarget ==
  /\ abandoned = "retarget"
  /\ IF MayRetarget
     THEN /\ route' = moved
          /\ attempts' = attempts + 1
          /\ pc' = "dial"
          /\ UNCHANGED <<pending, phone>>
     ELSE /\ pc' = "returned"
          /\ CancelWake
          /\ UNCHANGED <<route, attempts>>
  /\ waiting' = "none"
  /\ UNCHANGED <<target, finals, rang, bridging, reg, callerGone, timedOut, cause>>

(* Mutant of Redial: bridge answers the caller before the redial.          *)
MutRedialAnswered ==
  /\ abandoned = "unresponsive"
  /\ Respond(480)
  /\ IF attempts = 0 /\ ~ctxDone
     THEN pc' = "dial" /\ attempts' = 1
     ELSE pc' = "returned" /\ UNCHANGED attempts
  /\ UNCHANGED <<target, route, rang, bridging, phone, reg, callerGone, timedOut,
                 waiting, cause, pending>>

(* errTrunkUnresponsive: once more on a fresh connection, then 480.        *)
Redial ==
  /\ abandoned = "unresponsive"
  /\ IF attempts = 0 /\ ~ctxDone
     THEN pc' = "dial" /\ attempts' = 1 /\ UNCHANGED finals
     ELSE pc' = "returned" /\ Respond(480) /\ UNCHANGED attempts
  /\ UNCHANGED <<target, route, rang, bridging, phone, reg, callerGone, timedOut,
                 waiting, cause, pending>>

InviteFailed(code) == GiveUp(code) \/ RingOn \/ Retarget \/ Redial

(* The phone refuses: 486 on the INVITE (baresip's reject or hang-up).     *)
Refused ==
  /\ pc = "invite"
  /\ target = "app" => said \in {"decline", "busy"} /\ route = reg
  /\ InviteFailed(486)

(* The INVITE ends without a refusal: cancelled, timed out (Timer B).      *)
NotAnswered ==
  /\ pc = "invite"
  /\ InviteFailed(480)

(* bridge after errWakeBusy: ring to the timeout, then 480; serveDialog    *)
(* then cancels the wake.                                                  *)
BusyThrough ==
  /\ pc = "busyThrough"
  /\ ctxDone
  /\ Respond(480)
  /\ CancelWake
  /\ waiting' = "none"
  /\ pc' = "returned"
  /\ UNCHANGED <<target, route, attempts, rang, bridging, reg, callerGone, timedOut, cause>>

(* 200 from the callee.                                                    *)
Accepted ==
  /\ pc = "invite"
  /\ target = "app" => said = "answer" /\ route = reg
  /\ pc' = "answer"
  /\ UNCHANGED <<target, route, attempts, finals, rang, bridging, phone, reg, callerGone,
                 timedOut, waiting, cause, pending>>

(* bridge returns an error after the callee's 200: it is hung up and, if   *)
(* it was woken, its wake cancelled.                                       *)
AnswerFailed ==
  /\ pc = "answer"
  /\ pc' = "returned"
  /\ waiting' = "none"
  /\ StopRinging
  /\ UNCHANGED <<target, route, attempts, rang, bridging, reg, callerGone, timedOut, cause>>

(* requireTrunkSRTP: a trunk that would carry the call in the clear.       *)
NotSecure == AnswerFailed /\ target = "trunk" /\ Respond(488)

(* AnswerOptions fails: the caller has gone.                               *)
CallerLost == AnswerFailed /\ callerGone /\ UNCHANGED finals

(* Answered, and then the caller's leg is not secure, the callee's ACK     *)
(* fails (the ring timer) or the relay does not start: both are hung up.   *)
AnsweredInVain == AnswerFailed /\ ~callerGone /\ Respond(200)

(* The caller is answered with the callee's codec and the call bridged.    *)
Answer ==
  /\ pc = "answer"
  /\ ~callerGone
  /\ Respond(200)
  /\ pc' = "bridged"
  /\ UNCHANGED <<target, route, attempts, rang, bridging, phone, reg, callerGone, timedOut,
                 waiting, cause, pending>>

(* The call is over: bridge returns nil and the wake is forgotten.         *)
CallOver ==
  /\ pc = "bridged"
  /\ IF target = "app" THEN ForgetWake ELSE UNCHANGED <<pending, phone>>
  /\ waiting' = "none"
  /\ pc' = "returned"
  /\ UNCHANGED <<target, route, attempts, finals, rang, bridging, reg, callerGone,
                 timedOut, cause>>

(* diago's handler: a call that served without a final response gets 480.  *)
Close ==
  /\ pc = "returned"
  /\ finals' = IF finals = <<>> /\ ~callerGone THEN <<480>> ELSE finals
  /\ pc' = "closed"
  /\ UNCHANGED <<target, route, attempts, rang, bridging, phone, reg, callerGone,
                 timedOut, waiting, cause, pending>>

-----------------------------------------------------------------------------
(* gateway.handleAck and HandleWakeAck: a decline or busy for a pending    *)
(* wake ends it, and the callback found in waiting, if any, is called: the *)
(* wait is cancelled with that cause, or bridge starts declineGrace (and   *)
(* for a busy records why).                                                *)
HandleWakeAck ==
  /\ ack # "none"
  /\ ack' = "none"
  /\ pending' = FALSE
  /\ cause' = IF pending /\ waiting = "wait" /\ cause = "none" /\ ~ctxDone THEN ack ELSE cause
  /\ grace' = IF pending /\ waiting = "bridge" THEN ack ELSE grace
  /\ abandoned' = IF pending /\ waiting = "bridge" /\ ack = "busy" /\ abandoned = "none"
                  THEN "busy" ELSE abandoned
  /\ heard' = IF pending /\ pc \in {"woke", "wait"} /\ ~ctxDone THEN ack ELSE heard
  /\ UNCHANGED <<call, answered, cancelled, moved, reg, callerGone, timedOut, waiting, rings, said>>

(* The phone, the caller and the ring timer.                               *)
Surroundings == <<call, bridging, waiting, cause, pending>>

Register ==
  /\ target = "app"
  /\ reg < MaxRoutes
  /\ reg' = reg + 1
  /\ UNCHANGED <<Surroundings, phone, callerGone, timedOut>>

(* The owner declines, or Focus filters the call: the wake is answered on  *)
(* the gateway, an INVITE on its own leg.                                  *)
Decide(decision) ==
  /\ rings
  /\ said = "none"
  /\ said' = decision
  /\ rings' = FALSE
  /\ ack' = CASE decision = "decline" -> "declined"
              [] decision = "busy" -> "busy"
              [] decision = "answer" -> "none"
  /\ UNCHANGED <<Surroundings, heard, reg, callerGone, timedOut>>

CallerHangsUp ==
  /\ MayHangUp
  /\ ~callerGone
  /\ finals = <<>>
  /\ callerGone' = TRUE
  /\ UNCHANGED <<Surroundings, phone, reg, timedOut>>

RingTimeout ==
  /\ ~timedOut
  /\ pc \notin {"resolve", "bridged", "returned", "closed"}
  /\ timedOut' = TRUE
  /\ UNCHANGED <<Surroundings, phone, reg, callerGone>>

Init ==
  /\ pc = "resolve"
  /\ target \in Targets
  /\ reg \in {0, 1}
  /\ target # "app" => reg = 0
  /\ route = 0 /\ attempts = 0 /\ finals = <<>> /\ rang = FALSE
  /\ callerGone = FALSE /\ timedOut = FALSE
  /\ waiting = "none" /\ cause = "none"
  /\ answered = FALSE /\ abandoned = "none" /\ cancelled = FALSE /\ grace = "none"
  /\ moved = 0 /\ heard = "none"
  /\ pending = FALSE /\ rings = FALSE /\ said = "none" /\ ack = "none"

(* What the server's goroutines and the SIP stack do by themselves.        *)
Server ==
  \/ \E code \in {404, 503} : Unroutable(code)
  \/ Resolve
  \/ FlowGone
  \/ FlowAlive
  \/ WakeUndeliverable
  \/ WakeDelivered
  \/ TrackWait
  \/ WaitRegistered
  \/ WaitDeclined
  \/ WaitBusy
  \/ Through
  \/ WaitTimedOut
  \/ Dial
  \/ NoLine
  \/ AbandonCtx
  \/ AbandonRetarget
  \/ AbandonGrace
  \/ TrunkSilent
  \/ BusyThrough
  \/ Answer
  \/ CallerLost
  \/ Close

Next ==
  \/ Server
  \/ HandleWakeAck
  \/ Provisional
  \/ Refused
  \/ NotAnswered
  \/ Accepted
  \/ NotSecure
  \/ AnsweredInVain
  \/ CallOver
  \/ Register
  \/ \E decision \in {"decline", "busy", "answer"} : Decide(decision)
  \/ CallerHangsUp
  \/ RingTimeout
  \/ pc = "closed" /\ UNCHANGED vars

Spec == Init /\ [][Next]_vars

(* The server's goroutines run, the ring timer fires, and an INVITE that   *)
(* was cancelled returns.                                                  *)
Fairness ==
  /\ WF_vars(Server)
  /\ WF_vars(RingTimeout)
  /\ WF_vars(cancelled /\ NotAnswered)
  /\ WF_vars(timedOut /\ NotAnswered)

FairSpec == Spec /\ Fairness

-----------------------------------------------------------------------------
(* The caller gets one final response and no more, whichever of the        *)
(* decline, the timeout, the refusal, the redial and the handler's own     *)
(* last word comes first; and 200 is it exactly when the call is bridged.  *)
OneFinal ==
  /\ Len(finals) <= 1
  /\ pc = "bridged" => finals = <<200>>
  /\ pc = "closed" /\ ~callerGone => Len(finals) = 1

(* When the handler returns, no wake is left to replay to a reconnecting   *)
(* client and no phone is left ringing for the call.                       *)
NoGhostRing == pc \in {"returned", "closed"} /\ target = "app" => ~pending /\ ~rings

(* A phone that filtered the call (Focus) never makes the caller's call    *)
(* end before the ring timer: once the server knows, on the wake or on the *)
(* INVITE, only the timeout or the caller ends it.                         *)
BusyKnown == \/ pc = "through"
             \/ pc = "wait" /\ cause = "busy"
             \/ pc \in {"invite", "busyThrough"} /\ abandoned = "busy"
BusyKept == [][BusyKnown /\ finals' # finals => ctxDone]_vars

(* serveDialog unregisters only the route whose connection it found gone:  *)
(* "The registration was bound to a connection that no longer exists".     *)
DeadFlowOnly == [][reg' = 0 /\ reg # 0 => reg = route]_vars

(* "A wake_ack of decline/busy ends that call's wait for a registration at *)
(* once (the caller gets 486) instead of at the ring timeout": a call      *)
(* whose decline the server got, before the timer, while it waited for the *)
(* phone to register is not answered 480.                                  *)
DeclineHeard == heard = "declined" => finals # <<480>>

(* "the caller's response is decided by errWakeBusy (ring through to 480   *)
(* at the timeout), not by the app's simultaneous 486": a call the phone   *)
(* filtered is never answered 486.                                         *)
BusyRingsThrough == said = "busy" => finals # <<486>>

(* A call that is not bridged ends: every wait has the ring timer behind   *)
(* it.                                                                     *)
CallEnds == <>(pc \in {"bridged", "closed"})
=============================================================================
