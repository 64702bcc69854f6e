-------------------------- MODULE CallSetupProofs --------------------------
(* Proofs that an incoming call gets one final response and leaves no      *)
(* phone ringing, however far the callee may move and however often the    *)
(* call follows it; and, below, that the leg of a call hears one stream,   *)
(* whatever is relayed to it or played on it.                              *)
EXTENDS CallSetup, MediaPump, TLAPS

(* Where the caller has had no final response yet.                         *)
Unanswered == {"resolve", "flow", "wake", "woke", "wait", "through", "dial", "invite",
               "busyThrough", "answer"}

(* The response so far, place by place.                                    *)
FinalInv ==
  /\ pc \in Unanswered => finals = <<>>
  /\ pc = "bridged" => finals = <<200>>
  /\ pc = "returned" => Len(finals) <= 1
  /\ pc = "closed" => Len(finals) <= 1 /\ (~callerGone => Len(finals) = 1)

(* Why no wake is left: nothing is pending before the wake, an answer to   *)
(* it has stopped both the ringing and the wake, and only a trunk call is  *)
(* redialled.                                                              *)
RingInv ==
  /\ pc \in {"resolve", "flow", "wake"} => ~pending /\ ~rings
  /\ said # "none" => ~rings
  /\ ack # "none" => said # "none"
  /\ cause # "none" => ~pending /\ said # "none"
  /\ pc \in {"resolve", "flow", "wake"} => said = "none"
  /\ pc = "through" => cause = "busy"
  /\ pc \in {"answer", "bridged"} /\ target = "app" => said # "none"
  /\ abandoned = "unresponsive" => target = "trunk"
  /\ NoGhostRing

(* A response is one of the codes the server sends.                        *)
LEMMA RespondType ==
  ASSUME finals \in Seq(Codes), NEW code \in Codes, Respond(code)
  PROVE  finals' \in Seq(Codes)
BY DEF Respond

(* Which handler ends an INVITE that failed.                               *)
LEMMA FailedCases ==
  Refused \/ NotAnswered
    => (\E code \in {480, 486} : GiveUp(code)) \/ RingOn \/ Retarget \/ Redial
BY DEF Refused, NotAnswered, InviteFailed

(* Each step keeps the call's place, its route and its responses typed.    *)
LEMMA CallPart == TypeOK /\ [Next]_vars => CallType'
<1> SUFFICES ASSUME TypeOK, [Next]_vars PROVE CallType'
  OBVIOUS
<1> USE SetupAssumption DEF TypeOK, CallType, Places
<1>1. ASSUME NEW code \in {404, 503}, Unroutable(code) PROVE CallType'
  BY <1>1, RespondType DEF Unroutable, Codes
<1>2. CASE Resolve \/ FlowGone \/ FlowAlive
  BY <1>2 DEF Resolve, FlowGone, FlowAlive
<1>3. CASE WakeDelivered \/ TrackWait \/ WaitRegistered \/ WaitBusy
  BY <1>3 DEF WakeDelivered, TrackWait, WaitRegistered, WaitBusy
<1>4. CASE WakeUndeliverable \/ WaitDeclined \/ Through \/ WaitTimedOut
  BY <1>4, RespondType DEF WakeUndeliverable, WaitDeclined, Through, WaitTimedOut, Codes
<1>5. CASE Dial \/ Provisional \/ Accepted \/ CallOver
  BY <1>5 DEF Dial, Provisional, Accepted, CallOver
<1>6. CASE AbandonCtx \/ AbandonRetarget \/ AbandonGrace \/ TrunkSilent
  BY <1>6 DEF AbandonCtx, AbandonRetarget, AbandonGrace, TrunkSilent, abandon, call
<1>7. ASSUME NEW code \in {480, 486}, GiveUp(code) PROVE CallType'
  BY <1>7, RespondType DEF GiveUp, Codes
<1>8. CASE RingOn
  BY <1>8 DEF RingOn
<1>9. CASE Retarget
  <2>1. CASE MayRetarget
    <3>1. attempts' \in 0..maxRetargets
      BY <1>9, <2>1 DEF Retarget, MayRetarget
    <3>2. route' \in 0..MaxRoutes /\ pc' = "dial"
      BY <1>9, <2>1 DEF Retarget, BridgeType
    <3> QED BY <1>9, <3>1, <3>2 DEF Retarget
  <2>2. CASE ~MayRetarget
    BY <1>9, <2>2 DEF Retarget
  <2> QED BY <2>1, <2>2
<1>10. CASE Redial
  BY <1>10, RespondType DEF Redial, Codes
<1>11. CASE NoLine \/ BusyThrough \/ Answer
  BY <1>11, RespondType DEF NoLine, BusyThrough, Answer, Codes
<1>12. CASE NotSecure \/ CallerLost \/ AnsweredInVain
  BY <1>12, RespondType DEF NotSecure, CallerLost, AnsweredInVain, AnswerFailed, Codes
<1>13. CASE Close
  <2>1. <<480>> \in Seq(Codes)
    BY DEF Codes
  <2> QED BY <1>13, <2>1 DEF Close
<1>14. ASSUME UNCHANGED call PROVE CallType'
  BY <1>14 DEF call
<1> QED
  BY <1>1, <1>2, <1>3, <1>4, <1>5, <1>6, <1>7, <1>8, <1>9, <1>10, <1>11, <1>12, <1>13,
     <1>14, FailedCases
  DEF Next, Server, HandleWakeAck, Register, Decide, CallerHangsUp, RingTimeout,
      Surroundings, vars

(* Each step keeps what bridge remembers typed.                            *)
LEMMA BridgePart == TypeOK /\ [Next]_vars => BridgeType'
<1> SUFFICES ASSUME TypeOK, [Next]_vars PROVE BridgeType'
  OBVIOUS
<1> USE DEF TypeOK, BridgeType, Reasons, Refusals
<1>1. CASE Dial \/ Provisional
  BY <1>1 DEF Dial, Provisional
<1>2. CASE AbandonCtx \/ AbandonRetarget \/ TrunkSilent
  BY <1>2 DEF AbandonCtx, AbandonRetarget, TrunkSilent, abandon
<1>3. CASE AbandonGrace
  BY <1>3 DEF AbandonGrace, abandon
<1>4. CASE HandleWakeAck
  BY <1>4 DEF HandleWakeAck, PhoneType
<1>5. ASSUME UNCHANGED bridging PROVE BridgeType'
  BY <1>5 DEF bridging
<1> QED
  BY <1>1, <1>2, <1>3, <1>4, <1>5, FailedCases
  DEF Next, Server, Unroutable, Resolve, FlowGone, FlowAlive, WakeUndeliverable,
      WakeDelivered, TrackWait, WaitRegistered, WaitDeclined, WaitBusy, Through,
      WaitTimedOut, NoLine, GiveUp, RingOn, Retarget, Redial, BusyThrough, Accepted,
      NotSecure, CallerLost, AnsweredInVain, AnswerFailed, Answer, CallOver, Close,
      Register, Decide, CallerHangsUp, RingTimeout, Surroundings, vars

(* CancelWake and ForgetWake, on whichever leg, leave the phone typed.     *)
LEMMA StopRingingType ==
  ASSUME PhoneType, pending \in BOOLEAN,
         StopRinging \/ CancelWake \/ ForgetWake \/ (\E online \in BOOLEAN : Wake(online))
           \/ UNCHANGED <<pending, phone>>
  PROVE  PhoneType' /\ pending' \in BOOLEAN
BY DEF PhoneType, StopRinging, CancelWake, ForgetWake, Wake, phone

(* Each step keeps the phone, and the wake the gateway remembers, typed.   *)
LEMMA PhonePart == TypeOK /\ [Next]_vars => PhoneType' /\ pending' \in BOOLEAN
<1> SUFFICES ASSUME TypeOK, [Next]_vars PROVE PhoneType' /\ pending' \in BOOLEAN
  OBVIOUS
<1>1. CASE Provisional
  BY <1>1 DEF Provisional, TypeOK, PhoneType
<1>2. CASE HandleWakeAck
  BY <1>2 DEF HandleWakeAck, TypeOK, PhoneType, Refusals
<1>3. ASSUME NEW decision \in {"decline", "busy", "answer"}, Decide(decision)
      PROVE  PhoneType' /\ pending' \in BOOLEAN
  BY <1>3 DEF Decide, Surroundings, TypeOK, PhoneType, Refusals
<1>4. CASE WakeUndeliverable \/ WaitTimedOut \/ BusyThrough \/ FlowAlive \/ WakeDelivered
  BY <1>4, StopRingingType
  DEF WakeUndeliverable, WaitTimedOut, BusyThrough, FlowAlive, WakeDelivered, TypeOK
<1>5. CASE NotSecure \/ CallerLost \/ AnsweredInVain \/ CallOver
  BY <1>5, StopRingingType
  DEF NotSecure, CallerLost, AnsweredInVain, AnswerFailed, CallOver, TypeOK
<1>6. ASSUME NEW code \in {480, 486}, GiveUp(code) PROVE PhoneType' /\ pending' \in BOOLEAN
  BY <1>6, StopRingingType DEF GiveUp, TypeOK
<1>7. CASE Retarget
  BY <1>7, StopRingingType DEF Retarget, TypeOK
<1>8. ASSUME UNCHANGED <<pending, phone>> PROVE PhoneType' /\ pending' \in BOOLEAN
  BY <1>8, StopRingingType DEF TypeOK
<1> QED
  BY <1>1, <1>2, <1>3, <1>4, <1>5, <1>6, <1>7, <1>8, FailedCases
  DEF Next, Server, Unroutable, Resolve, FlowGone, TrackWait, WaitRegistered, WaitDeclined,
      WaitBusy, Through, Dial, NoLine, AbandonCtx, AbandonRetarget, AbandonGrace,
      TrunkSilent, abandon, RingOn, Redial, Accepted, Answer, Close, Register,
      CallerHangsUp, RingTimeout, Surroundings, vars

(* Each step keeps the contexts, the registration and the wait typed.      *)
LEMMA WaitPart ==
  TypeOK /\ [Next]_vars
    => /\ reg' \in 0..MaxRoutes
       /\ callerGone' \in BOOLEAN
       /\ timedOut' \in BOOLEAN
       /\ waiting' \in {"none", "wait", "bridge"}
       /\ cause' \in Refusals
<1> SUFFICES ASSUME TypeOK, [Next]_vars
             PROVE  /\ reg' \in 0..MaxRoutes
                    /\ callerGone' \in BOOLEAN
                    /\ timedOut' \in BOOLEAN
                    /\ waiting' \in {"none", "wait", "bridge"}
                    /\ cause' \in Refusals
  OBVIOUS
<1>1. CASE Register
  BY <1>1, SetupAssumption DEF Register, Surroundings, TypeOK
<1>2. CASE ~Register
  <2>1. /\ reg' \in {0, reg}
        /\ callerGone' \in {TRUE, callerGone}
        /\ timedOut' \in {TRUE, timedOut}
        /\ waiting' \in {"none", "wait", "bridge", waiting}
        /\ cause' \in {cause, ack}
    <3> USE <1>2, FailedCases
        DEF Next, Server, Unroutable, Resolve, FlowGone, FlowAlive, WakeUndeliverable,
            WakeDelivered, TrackWait, WaitRegistered, WaitDeclined, WaitBusy, Through,
            WaitTimedOut, Dial, NoLine, Provisional, AbandonCtx, AbandonRetarget,
            AbandonGrace, TrunkSilent, abandon, GiveUp, RingOn, Retarget, Redial,
            BusyThrough, Accepted, NotSecure, CallerLost, AnsweredInVain, AnswerFailed,
            Answer, CallOver, Close, HandleWakeAck, Decide, CallerHangsUp, RingTimeout,
            Surroundings, vars
    <3>1. reg' \in {0, reg}
      OBVIOUS
    <3>2. callerGone' \in {TRUE, callerGone} /\ timedOut' \in {TRUE, timedOut}
      OBVIOUS
    <3>3. waiting' \in {"none", "wait", "bridge", waiting}
      OBVIOUS
    <3>4. cause' \in {cause, ack}
      OBVIOUS
    <3> QED BY <3>1, <3>2, <3>3, <3>4
  <2>2. reg \in 0..MaxRoutes /\ 0 \in 0..MaxRoutes
    BY SetupAssumption DEF TypeOK
  <2>3. /\ callerGone \in BOOLEAN /\ timedOut \in BOOLEAN
        /\ waiting \in {"none", "wait", "bridge"} /\ cause \in Refusals /\ ack \in Refusals
    BY DEF TypeOK, PhoneType
  <2> QED BY <2>1, <2>2, <2>3
<1> QED BY <1>1, <1>2

(* The initial state is typed.                                             *)
LEMMA CallInit == Init => TypeOK /\ FinalInv /\ RingInv
<1> SUFFICES ASSUME Init PROVE TypeOK /\ FinalInv /\ RingInv
  OBVIOUS
<1>1. finals \in Seq(Codes)
  BY DEF Init
<1>2. reg \in 0..MaxRoutes
  BY SetupAssumption DEF Init
<1>3. TypeOK
  <2>0. 0 \in 0..MaxRoutes /\ 0 \in 0..maxRetargets
    BY SetupAssumption
  <2>1. CallType
    BY <1>1, <2>0 DEF Init, CallType, Places
  <2>2. BridgeType
    BY <2>0 DEF Init, BridgeType, Reasons, Refusals
  <2>3. PhoneType
    BY DEF Init, PhoneType, Refusals
  <2> QED BY <1>2, <2>1, <2>2, <2>3 DEF Init, TypeOK, Refusals
<1>4. FinalInv
  BY DEF Init, FinalInv, Unanswered
<1>5. RingInv
  BY DEF Init, RingInv, NoGhostRing
<1> QED BY <1>3, <1>4, <1>5

(* A caller with no final response gets at most one.                       *)
LEMMA RespondOnce ==
  ASSUME finals = <<>>, NEW code, Respond(code) PROVE Len(finals') <= 1
BY DEF Respond

(* Each step keeps the count of final responses.                           *)
LEMMA FinalStep == TypeOK /\ FinalInv /\ [Next]_vars => FinalInv'
<1> SUFFICES ASSUME TypeOK, FinalInv, [Next]_vars PROVE FinalInv'
  OBVIOUS
<1> USE DEF FinalInv, Unanswered
<1>1. ASSUME NEW code \in {404, 503}, Unroutable(code) PROVE FinalInv'
  BY <1>1, RespondOnce DEF Unroutable
<1>2. CASE Resolve \/ FlowGone \/ FlowAlive
  BY <1>2 DEF Resolve, FlowGone, FlowAlive
<1>3. CASE WakeDelivered \/ TrackWait \/ WaitRegistered \/ WaitBusy
  BY <1>3 DEF WakeDelivered, TrackWait, WaitRegistered, WaitBusy
<1>4. CASE WakeUndeliverable \/ WaitDeclined \/ Through \/ WaitTimedOut
  BY <1>4, RespondOnce DEF WakeUndeliverable, WaitDeclined, Through, WaitTimedOut
<1>5. CASE Dial \/ Provisional \/ Accepted
  BY <1>5 DEF Dial, Provisional, Accepted
<1>6. CASE AbandonCtx \/ AbandonRetarget \/ AbandonGrace \/ TrunkSilent
  BY <1>6 DEF AbandonCtx, AbandonRetarget, AbandonGrace, TrunkSilent, abandon, call
<1>7. CASE Refused \/ NotAnswered
  <2>1. pc = "invite"
    BY <1>7 DEF Refused, NotAnswered
  <2>2. ASSUME NEW code \in {480, 486}, GiveUp(code) PROVE FinalInv'
    BY <2>1, <2>2, RespondOnce DEF GiveUp
  <2>3. CASE RingOn
    BY <2>1, <2>3 DEF RingOn
  <2>4. CASE Retarget
    BY <2>1, <2>4 DEF Retarget
  <2>5. CASE Redial
    BY <2>1, <2>5, RespondOnce DEF Redial
  <2> QED BY <1>7, <2>2, <2>3, <2>4, <2>5, FailedCases
<1>8. CASE NoLine \/ BusyThrough
  BY <1>8, RespondOnce DEF NoLine, BusyThrough
<1>9. CASE Answer
  BY <1>9 DEF Answer, Respond
<1>10. CASE NotSecure \/ CallerLost \/ AnsweredInVain
  BY <1>10, RespondOnce DEF NotSecure, CallerLost, AnsweredInVain, AnswerFailed
<1>11. CASE CallOver
  BY <1>11 DEF CallOver
<1>12. CASE Close
  <2>1. finals \in Seq(Codes)
    BY DEF TypeOK, CallType
  <2>2. Len(<<480>>) = 1
    OBVIOUS
  <2>3. finals = <<>> \/ Len(finals) > 0
    BY <2>1
  <2>4. Len(finals) <= 1 /\ Len(finals) \in Nat
    BY <1>12, <2>1 DEF Close
  <2> QED BY <1>12, <2>2, <2>3, <2>4 DEF Close
<1>13. CASE CallerHangsUp
  BY <1>13 DEF CallerHangsUp, Surroundings, call
<1>14. ASSUME UNCHANGED <<call, callerGone>> PROVE FinalInv'
  BY <1>14 DEF call
<1> QED
  BY <1>1, <1>2, <1>3, <1>4, <1>5, <1>6, <1>7, <1>8, <1>9, <1>10, <1>11, <1>12, <1>13, <1>14
  DEF Next, Server, HandleWakeAck, Register, Decide, RingTimeout, Surroundings, vars

(* Each step keeps what makes the wakes and the ringing end.               *)
LEMMA RingStep == TypeOK /\ RingInv /\ [Next]_vars => RingInv'
<1> SUFFICES ASSUME TypeOK, RingInv, [Next]_vars PROVE RingInv'
  OBVIOUS
<1> USE DEF RingInv, NoGhostRing
<1>1. ASSUME NEW code \in {404, 503}, Unroutable(code) PROVE RingInv'
  BY <1>1 DEF Unroutable, bridging, phone
<1>2. CASE Resolve \/ FlowGone
  BY <1>2 DEF Resolve, FlowGone, bridging, phone
<1>3. CASE FlowAlive \/ WakeDelivered
  BY <1>3 DEF FlowAlive, WakeDelivered, Wake, bridging, phone
<1>4. CASE TrackWait \/ WaitRegistered \/ WaitBusy
  BY <1>4 DEF TrackWait, WaitRegistered, WaitBusy, bridging, phone
<1>5. CASE WakeUndeliverable \/ WaitTimedOut \/ BusyThrough
  BY <1>5 DEF WakeUndeliverable, WaitTimedOut, BusyThrough, CancelWake, bridging
<1>6. CASE WaitDeclined \/ Through
  BY <1>6 DEF WaitDeclined, Through, bridging, phone
<1>7. CASE Dial \/ NoLine
  BY <1>7 DEF Dial, NoLine, bridging, phone
<1>8. CASE Provisional
  BY <1>8 DEF Provisional
<1>9. CASE AbandonCtx \/ AbandonRetarget \/ TrunkSilent
  BY <1>9 DEF AbandonCtx, AbandonRetarget, TrunkSilent, abandon, call, phone
<1>10. CASE AbandonGrace
  BY <1>10 DEF AbandonGrace, abandon, call, phone, TypeOK, BridgeType, Refusals
<1>11. CASE Refused \/ NotAnswered
  <2>1. pc = "invite"
    BY <1>11 DEF Refused, NotAnswered
  <2>2. ASSUME NEW code \in {480, 486}, GiveUp(code) PROVE RingInv'
    BY <2>1, <2>2 DEF GiveUp, StopRinging, CancelWake, bridging, phone
  <2>3. CASE RingOn
    BY <2>1, <2>3 DEF RingOn, bridging, phone
  <2>4. CASE Retarget
    BY <2>1, <2>4 DEF Retarget, CancelWake, bridging, phone
  <2>5. CASE Redial
    BY <2>1, <2>5 DEF Redial, bridging, phone
  <2> QED BY <1>11, <2>2, <2>3, <2>4, <2>5, FailedCases
<1>12. CASE NotSecure \/ CallerLost \/ AnsweredInVain
  BY <1>12 DEF NotSecure, CallerLost, AnsweredInVain, AnswerFailed, StopRinging,
               CancelWake, bridging, phone
<1>13. CASE Accepted \/ Answer \/ Close
  BY <1>13 DEF Accepted, Answer, Close, bridging, phone
<1>14. CASE CallOver
  BY <1>14 DEF CallOver, ForgetWake, bridging, phone
<1>15. CASE HandleWakeAck
  BY <1>15 DEF HandleWakeAck, call, TypeOK, PhoneType, Refusals
<1>16. ASSUME NEW decision \in {"decline", "busy", "answer"}, Decide(decision)
       PROVE  RingInv'
  BY <1>16 DEF Decide, Surroundings, call, bridging
<1>17. ASSUME UNCHANGED <<Surroundings, phone>> PROVE RingInv'
  BY <1>17 DEF Surroundings, call, bridging, phone
<1> QED
  BY <1>1, <1>2, <1>3, <1>4, <1>5, <1>6, <1>7, <1>8, <1>9, <1>10, <1>11, <1>12, <1>13,
     <1>14, <1>15, <1>16, <1>17
  DEF Next, Server, Register, CallerHangsUp, RingTimeout, vars, Surroundings

(* The call's inductive invariant.                                         *)
LEMMA CallInv == Spec => [](TypeOK /\ FinalInv /\ RingInv)
<1>1. TypeOK /\ [Next]_vars => TypeOK'
  BY CallPart, BridgePart, PhonePart, WaitPart DEF TypeOK
<1> QED BY <1>1, CallInit, FinalStep, RingStep, PTL DEF Spec

(* Every place, route, response and context has its type, for any number   *)
(* of routes and retargets: above all, a call never follows a moving       *)
(* callee more than maxRetargets times.                                    *)
THEOREM CallTypeOK == Spec => []TypeOK
BY CallInv, PTL

(* The caller gets one final response and no more, whatever serveDialog,   *)
(* wakeAndWaitFrom, bridge and the closing of the dialog race to send.     *)
THEOREM CallOneFinal == Spec => []OneFinal
<1>1. TypeOK /\ FinalInv => OneFinal
  <2> SUFFICES ASSUME TypeOK, FinalInv PROVE OneFinal
    OBVIOUS
  <2>1. CASE pc \in Unanswered
    BY <2>1 DEF FinalInv, Unanswered, OneFinal
  <2>2. CASE pc \in {"bridged", "returned", "closed"}
    <3>1. pc = "bridged" => finals = <<200>> /\ Len(<<200>>) <= 1
      BY DEF FinalInv
    <3>2. pc = "returned" => Len(finals) <= 1
      BY DEF FinalInv
    <3>3. pc = "closed" => Len(finals) <= 1 /\ (~callerGone => Len(finals) = 1)
      BY DEF FinalInv
    <3> QED BY <2>2, <3>1, <3>2, <3>3 DEF OneFinal
  <2> QED BY <2>1, <2>2 DEF TypeOK, CallType, Places, Unanswered
<1> QED BY <1>1, CallInv, PTL

(* When serveDialog returns, no wake is pending and no phone rings for the *)
(* call.                                                                   *)
THEOREM CallNoGhostRing == Spec => []NoGhostRing
<1>1. RingInv => NoGhostRing
  BY DEF RingInv
<1> QED BY <1>1, CallInv, PTL

(* A filtered call ends only by the ring timer or the caller.              *)
THEOREM CallBusyKept == Spec => BusyKept
<1>1. TypeOK /\ [Next]_vars => [BusyKnown /\ finals' # finals => ctxDone]_vars
  <2> SUFFICES ASSUME TypeOK, [Next]_vars, BusyKnown, finals' # finals PROVE ctxDone
    OBVIOUS
  <2>1. CASE WaitDeclined \/ Through \/ WaitTimedOut \/ BusyThrough
    BY <2>1 DEF WaitDeclined, Through, WaitTimedOut, BusyThrough, BusyKnown
  <2>2. CASE Refused \/ NotAnswered
    BY <2>2, FailedCases
    DEF Refused, NotAnswered, GiveUp, RingOn, Retarget, Redial, BusyKnown
  <2>3. CASE UNCHANGED finals
    BY <2>3
  <2> QED
    BY <2>1, <2>2, <2>3
    DEF Next, Server, Unroutable, Resolve, FlowGone, FlowAlive, WakeUndeliverable,
        WakeDelivered, TrackWait, WaitRegistered, WaitBusy, Dial, NoLine, Provisional,
        AbandonCtx, AbandonRetarget, AbandonGrace, TrunkSilent, abandon, Accepted,
        NotSecure, CallerLost, AnsweredInVain, AnswerFailed, Answer, CallOver, Close,
        HandleWakeAck, Register, Decide, CallerHangsUp, RingTimeout, Surroundings, call,
        vars, BusyKnown
<1> QED BY <1>1, CallInv, PTL DEF Spec, BusyKept

-----------------------------------------------------------------------------
(* One RTP stream.                                                         *)

Nums == 0..(NumMod - 1)

PumpState ==
  [haveSrc : BOOLEAN, srcSSRC : Int, tsOffset : Int, seqOffset : Nums, wroteAny : BOOLEAN,
   lastOut : Int, lastSeq : Nums, localWrote : BOOLEAN, expectSeq : Nums, lastTs : Int,
   gap : Int, lag : Int]

Packet == [seq : Nums, ts : Int, ssrc : Int]

PumpTypes ==
  /\ cur \in Pumps
  /\ pump \in [Pumps -> PumpState]
  /\ relay \in [Pumps -> [pc : {"off", "read", "check", "forward"}, pkt : Packet]]
  /\ src \in [Pumps -> [seq : Nums, ts : Int, ssrc : Int, hole : BOOLEAN]]
  /\ play \in [Players -> [pc : {"idle", "new", "on", "off"}, pump : {0} \cup Pumps,
                           done : BOOLEAN, spent : BOOLEAN]]
  /\ \A k \in Players : play[k].pc \in {"new", "on"} => play[k].pump \in Pumps
  /\ holder \in {0} \cup Players
  /\ pos \in Int
  /\ wire \in [any : BOOLEAN, top : Nums, topTs : Int]
  /\ sent \in [kind : {"none", "new", "late"}, seq : Int, ts : Int, skip : Int, gap : Int]
  /\ ghost \in [crossed : Nat, failed : Nat, stuck : Nat]

(* The pump that feeds the leg knows the highest number the leg was sent.  *)
Wired ==
  ghost.crossed = 0 =>
    /\ pump[cur].wroteAny <=> wire.any
    /\ wire.any => pump[cur].lastSeq = wire.top

(* The numbers between the highest sent and the one the next packet of the *)
(* source is to have: the packets whose writes failed.                     *)
Owed(q) == (q.expectSeq + q.seqOffset - q.lastSeq - 1) % NumMod

Followed ==
  ghost.crossed = 0 /\ pump[cur].haveSrc /\ ~pump[cur].localWrote =>
    /\ pump[cur].wroteAny => Owed(pump[cur]) < NumMod \div 2
    /\ ghost.failed = 0 => pump[cur].wroteAny /\ Owed(pump[cur]) = 0

StreamInv == PumpTypes /\ Wired /\ Followed /\ StreamCarriesOn

(* The packet the relay is about to send as the next of its stream is less *)
(* than half the numbers ahead of the highest sent: beyond that int16      *)
(* takes it for an old one, here as in the packets' receivers.             *)
NumbersNear ==
  LET q == pump[cur]
      k == relay[cur].pkt
      d == SeqDiff(k.seq, q.expectSeq)
  IN  relay[cur].pc = "forward" /\ q.wroteAny /\ ~NewStream(q, k) /\ d >= 0
        => Owed(q) + d + 1 < NumMod \div 2

-----------------------------------------------------------------------------
(* Arithmetic modulo M.                                                    *)

LEMMA DivMod ==
  ASSUME NEW M \in Nat \ {0}, NEW x \in Int
  PROVE  /\ x % M \in 0..(M - 1) /\ x \div M \in Int
         /\ x = M * (x \div M) + (x % M)
BY SMTT(30)

(* A multiple of M smaller than M is none.                                 *)
LEMMA NoMultiple ==
  ASSUME NEW M \in Nat \ {0}, NEW k \in Int, NEW r \in Int, -M < r, r < M, M * k = r
  PROVE  k = 0
<1>1. CASE k >= 1
  <2>1. M * k >= M
    BY <1>1, SMTT(30)
  <2> QED BY <2>1
<1>2. CASE k <= -1
  <2>1. M * k <= -M
    BY <1>2, SMTT(30)
  <2> QED BY <2>1
<1> QED BY <1>1, <1>2

(* The remainder is the one number below M that differs by a multiple.     *)
LEMMA ModIs ==
  ASSUME NEW M \in Nat \ {0}, NEW x \in Int, NEW k \in Int, NEW r \in 0..(M - 1), x = M * k + r
  PROVE  x % M = r
<1> DEFINE m == x % M
           j == x \div M
<1>1. m \in 0..(M - 1) /\ j \in Int /\ x = M * j + m
  BY DivMod
<1> HIDE DEF m, j
<1>2. M * (k - j) = m - r
  BY <1>1, SMTT(30)
<1>3. k - j \in Int /\ m - r \in Int /\ -M < m - r /\ m - r < M
  BY <1>1
<1>4. k - j = 0
  BY <1>2, <1>3, NoMultiple
<1>5. M * 0 = m - r
  BY <1>2, <1>4
<1>6. M * 0 = 0
  OBVIOUS
<1> QED BY <1>1, <1>5, <1>6 DEF m

(* Remainders may be taken early or late.                                  *)
LEMMA ModSum ==
  ASSUME NEW M \in Nat \ {0}, NEW x \in Int, NEW y \in Int
  PROVE  /\ ((x % M) + y) % M = (x + y) % M
         /\ (y + (x % M)) % M = (y + x) % M
         /\ (y - (x % M)) % M = (y - x) % M
<1> DEFINE m == x % M
           j == x \div M
<1>1. m \in 0..(M - 1) /\ j \in Int /\ x = M * j + m
  BY DivMod
<1> HIDE DEF m, j
<1>2. ASSUME NEW a \in Int, NEW b \in Int, NEW i \in Int, b = a + M * i PROVE b % M = a % M
  <2> DEFINE c == a % M
             l == a \div M
  <2>1. c \in 0..(M - 1) /\ l \in Int /\ a = M * l + c
    BY DivMod
  <2> HIDE DEF c, l
  <2>2. b = M * (l + i) + c /\ l + i \in Int
    BY <1>2, <2>1, SMTT(30)
  <2>3. b % M = c
    BY <2>1, <2>2, ModIs
  <2> QED BY <2>3 DEF c
<1>3. /\ m + y \in Int /\ x + y = (m + y) + M * j
      /\ y + m \in Int /\ y + x = (y + m) + M * j
      /\ y - x \in Int /\ y - m = (y - x) + M * j
      /\ x + y \in Int /\ y + x \in Int /\ y - m \in Int
  BY <1>1, SMTT(30)
<1>4. (x + y) % M = (m + y) % M /\ (y + x) % M = (y + m) % M /\ (y - m) % M = (y - x) % M
  BY <1>1, <1>2, <1>3
<1> QED BY <1>4 DEF m

(* A number below M is its own remainder.                                  *)
LEMMA ModSmall ==
  ASSUME NEW M \in Nat \ {0}, NEW x \in Int
  PROVE  /\ 0 <= x /\ x < M => x % M = x
         /\ -M <= x /\ x < 0 => x % M = x + M
<1>1. M * 0 = 0 /\ M * (-1) = -M
  BY SMTT(30)
<1>2. ASSUME 0 <= x, x < M PROVE x % M = x
  <2>1. x \in 0..(M - 1) /\ x = M * 0 + x
    BY <1>1, <1>2
  <2> QED BY <2>1, ModIs
<1>3. ASSUME -M <= x, x < 0 PROVE x % M = x + M
  <2>1. x + M \in 0..(M - 1) /\ x = M * (-1) + (x + M) /\ -1 \in Int
    BY <1>1, <1>3
  <2> QED BY <2>1, ModIs
<1> QED BY <1>2, <1>3

LEMMA MediaConstants ==
  /\ NumMod \in Nat \ {0} /\ NumMod \div 2 \in Nat /\ 2 <= NumMod \div 2
  /\ 2 * (NumMod \div 2) <= NumMod /\ TsMod \in Nat \ {0}
  /\ Reorder \in Nat /\ Reorder <= NumMod \div 2 /\ Starts \subseteq Nums
  /\ Nums \subseteq Int
BY MediaAssumption DEF Nums

LEMMA Signed ==
  ASSUME NEW x \in Int, NEW y \in Int, NEW m \in Nat \ {0}
  PROVE  SignedDiff(x, y, m) \in Int
<1> DEFINE d == (x - y) % m
<1>1. d \in Int
  <2>1. x - y \in Int
    OBVIOUS
  <2> QED BY <2>1, DivMod
<1> HIDE DEF d
<1>2. SignedDiff(x, y, m) = IF d < m \div 2 THEN d ELSE d - m
  BY DEF SignedDiff, d
<1> QED BY <1>1, <1>2

(* Numbers e apart, and less than half of them, are e apart to int16.      *)
LEMMA SeqDiffIs ==
  ASSUME NEW x \in Nums, NEW e \in Int, -(NumMod \div 2) <= e, e < NumMod \div 2
  PROVE  (x + e) % NumMod \in Nums /\ SeqDiff((x + e) % NumMod, x) = e
<1> DEFINE M == NumMod
           h == NumMod \div 2
           n == (x + e) % M
<1>1. M \in Nat \ {0} /\ h \in Nat /\ 2 * h <= M /\ x \in Int /\ Nums = 0..(M - 1)
  BY MediaConstants DEF Nums
<1> HIDE DEF M
<1>2. n \in Nums /\ n \in Int
  <2>1. x + e \in Int
    BY <1>1
  <2> DEFINE y == x + e
  <2> HIDE DEF y
  <2>2. y % M \in 0..(M - 1)
    BY <1>1, <2>1, DivMod DEF y
  <2>3. \A v \in 0..(M - 1) : v \in Int
    BY <1>1
  <2> QED BY <1>1, <2>2, <2>3 DEF y
<1>3. (n - x) % M = ((x + e) - x) % M
  <2>1. x + e \in Int /\ -x \in Int
    BY <1>1
  <2>2. (n + (-x)) % M = ((x + e) + (-x)) % M
    BY <1>1, <2>1, ModSum
  <2>3. n + (-x) = n - x /\ (x + e) + (-x) = (x + e) - x
    BY <1>1, <1>2
  <2> QED BY <2>2, <2>3
<1>4. (x + e) - x = e
  BY <1>1
<1> HIDE DEF n
<1>5. SeqDiff(n, x) = IF e % M < h THEN e % M ELSE (e % M) - M
  BY <1>3, <1>4 DEF SeqDiff, SignedDiff, M
<1> HIDE DEF h
<1>6. -h <= e /\ e < h
  BY DEF h
<1>7. CASE 0 <= e
  <2>1. e % M = e
    BY <1>1, <1>6, <1>7, ModSmall
  <2> QED BY <1>2, <1>5, <1>6, <2>1 DEF n, M
<1>8. CASE e < 0
  <2>0. -M <= e
    BY <1>1, <1>6
  <2>1. e % M = e + M
    BY <1>1, <1>8, <2>0, ModSmall
  <2>2. ~(e + M < h) /\ (e + M) - M = e
    BY <1>1, <1>6
  <2> QED BY <1>2, <1>5, <2>1, <2>2 DEF n, M
<1> QED BY <1>7, <1>8

(* Sums of remainders.                                                     *)
LEMMA ModEqual ==
  ASSUME NEW M \in Nat \ {0}, NEW x \in Int, NEW y \in Int, NEW z \in Int
  PROVE  /\ x % M = y % M => (x + z) % M = (y + z) % M
         /\ (x - M) % M = x % M
         /\ x % M \in 0..(M - 1) /\ x % M \in Int
<1>1. ((x % M) + z) % M = (x + z) % M /\ ((y % M) + z) % M = (y + z) % M
  BY ModSum
<1>2. (x - M) % M = x % M
  <2>0. M \in Int
    OBVIOUS
  <2>1. M \in Int /\ (x - (M % M)) % M = (x - M) % M
    BY <2>0, ModSum
  <2>2. M % M = 0
    <3>1. M * 1 = M /\ M = M * 1 + 0 /\ 0 \in 0..(M - 1) /\ 1 \in Int
      BY SMTT(30)
    <3> QED BY <2>1, <3>1, ModIs
  <2>3. x - 0 = x
    OBVIOUS
  <2> QED BY <2>1, <2>2, <2>3
<1>3. x % M \in 0..(M - 1) /\ x % M \in Int
  <2>1. x % M \in 0..(M - 1)
    BY DivMod
  <2>2. \A v \in 0..(M - 1) : v \in Int
    OBVIOUS
  <2> QED BY <2>1, <2>2
<1> QED BY <1>1, <1>2, <1>3

-----------------------------------------------------------------------------
(* Numbers of packets.                                                     *)

(* A source mapped from s onto x.                                          *)
LEMMA RebasedTo ==
  ASSUME NEW s \in Nums, NEW x \in Int
  PROVE  /\ (x - s) % NumMod \in Nums
         /\ (s + ((x - s) % NumMod)) % NumMod = x % NumMod
<1> DEFINE M == NumMod
<1>1. M \in Nat \ {0} /\ s \in Int /\ x - s \in Int /\ Nums = 0..(M - 1)
  BY MediaConstants DEF Nums
<1> HIDE DEF M
<1>2. (x - s) % M \in Nums
  BY <1>1, ModEqual
<1>3. (s + ((x - s) % M)) % M = (s + (x - s)) % M
  <2> DEFINE y == x - s
  <2>1. y \in Int
    BY <1>1
  <2> HIDE DEF y
  <2>2. (s + (y % M)) % M = (s + y) % M
    BY <1>1, <2>1, ModSum
  <2> QED BY <2>2 DEF y
<1>4. s + (x - s) = x
  BY <1>1
<1> QED BY <1>2, <1>3, <1>4 DEF M

(* SeqDiff is the distance, up to a turn of the numbers.                   *)
LEMMA SeqDiffMod ==
  ASSUME NEW s \in Nums, NEW x \in Nums
  PROVE  /\ SeqDiff(s, x) \in Int /\ SeqDiff(s, x) < NumMod \div 2
         /\ \A y \in Int : (y + SeqDiff(s, x)) % NumMod = (y + (s - x)) % NumMod
         /\ \A y \in Int : (y - SeqDiff(s, x)) % NumMod = (y - (s - x)) % NumMod
<1> DEFINE M == NumMod
           h == NumMod \div 2
           D == (s - x) % M
           d == SeqDiff(s, x)
<1>1. M \in Nat \ {0} /\ s \in Int /\ x \in Int /\ s - x \in Int /\ h \in Nat /\ 2 <= h /\ 2 * h <= M
  BY MediaConstants DEF Nums
<1>2. d = IF D < h THEN D ELSE D - M
  BY DEF SeqDiff, SignedDiff
<1> HIDE DEF M, h, d
<1>3. D \in 0..(M - 1) /\ D \in Int
  BY <1>1, ModEqual
<1>4. ASSUME NEW y \in Int
      PROVE  (y + D) % M = (y + (s - x)) % M /\ (y - D) % M = (y - (s - x)) % M
  <2> DEFINE z == s - x
  <2>1. z \in Int
    BY <1>1
  <2> HIDE DEF z
  <2>2. (y + (z % M)) % M = (y + z) % M /\ (y - (z % M)) % M = (y - z) % M
    BY <1>1, <2>1, ModSum
  <2> QED BY <2>2 DEF z
<1> HIDE DEF D
<1>5. d \in Int /\ d < h
  BY <1>1, <1>2, <1>3
<1>6. ASSUME NEW y \in Int
      PROVE  (y + d) % M = (y + D) % M /\ (y - d) % M = (y - D) % M
  <2>1. CASE d = D
    BY <2>1
  <2>2. CASE d = D - M
    <3>1. y + d = (y + D) - M /\ y - D = (y - d) - M /\ y + D \in Int /\ y - d \in Int
      BY <1>1, <1>3, <1>5, <2>2
    <3>2. ((y + D) - M) % M = (y + D) % M /\ ((y - d) - M) % M = (y - d) % M
      BY <1>1, <3>1, ModEqual
    <3> QED BY <3>1, <3>2
  <2> QED BY <1>2, <2>1, <2>2
<1> QED BY <1>4, <1>5, <1>6 DEF d, h, M

(* The number of a packet of a stream that goes on.                        *)
LEMMA CarriedTo ==
  ASSUME NEW s \in Nums, NEW e0 \in Nums, NEW off \in Nums, NEW last \in Nums
  PROVE  LET owed == (e0 + off - last - 1) % NumMod
             e == 1 + owed + SeqDiff(s, e0)
         IN  owed \in Nums /\ e \in Int /\ (s + off) % NumMod = (last + e) % NumMod
<1> DEFINE M == NumMod
           d == SeqDiff(s, e0)
           w == e0 + off - last - 1
           owed == w % M
<1>1. /\ M \in Nat \ {0} /\ s \in Int /\ e0 \in Int /\ off \in Int /\ last \in Int
      /\ Nums = 0..(M - 1)
  BY MediaConstants DEF Nums
<1>2. /\ d \in Int /\ \A y \in Int : (y + d) % M = (y + (s - e0)) % M
  BY SeqDiffMod
<1> HIDE DEF M, d
<1>3. w \in Int
  BY <1>1
<1>4. owed \in Nums /\ owed \in Int
  BY <1>1, <1>3, ModEqual
<1>5. ((last + 1 + d) + owed) % M = ((last + 1 + d) + w) % M
  <2>1. last + 1 + d \in Int
    BY <1>1, <1>2
  <2> QED BY <1>1, <1>3, <2>1, ModSum
<1>6. (last + 1 + d) + w = (e0 + off) + d /\ e0 + off \in Int
  BY <1>1, <1>2
<1>7. ((e0 + off) + d) % M = ((e0 + off) + (s - e0)) % M
  BY <1>2, <1>6
<1>8. (e0 + off) + (s - e0) = s + off
  BY <1>1
<1> HIDE DEF w, owed
<1>9. (last + 1 + d) + owed = last + (1 + owed + d) /\ 1 + owed + d \in Int
  BY <1>1, <1>2, <1>4
<1>10. (s + off) % M = (last + (1 + owed + d)) % M
  BY <1>5, <1>6, <1>7, <1>8, <1>9
<1> QED BY <1>4, <1>9, <1>10 DEF owed, w, d, M

(* What is owed once the packet s has been numbered with off.              *)
LEMMA OwedAfter ==
  ASSUME NEW s \in Nums, NEW e0 \in Nums, NEW off \in Nums, NEW last \in Nums
  PROVE  /\ (((s + 1) % NumMod) + off - ((s + off) % NumMod) - 1) % NumMod = 0
         /\ -(NumMod \div 2) <= SeqDiff(s, e0) /\ SeqDiff(s, e0) < 0 =>
              (e0 + off - ((s + off) % NumMod) - 1) % NumMod = -1 - SeqDiff(s, e0)
         /\ \A e \in Nums : (s + off) % NumMod = (last + e) % NumMod =>
              (((s + 1) % NumMod) + off - last - 1) % NumMod = e
<1> DEFINE M == NumMod
           h == NumMod \div 2
           d == SeqDiff(s, e0)
           n == (s + off) % M
           u == (s + 1) % M
<1>1. /\ M \in Nat \ {0} /\ s \in Int /\ e0 \in Int /\ off \in Int /\ last \in Int
      /\ Nums = 0..(M - 1) /\ h \in Nat /\ 2 * h <= M
  BY MediaConstants DEF Nums
<1>2. /\ d \in Int /\ \A y \in Int : (y - d) % M = (y - (s - e0)) % M
  BY SeqDiffMod
<1> HIDE DEF M, d, h
<1>3. s + off \in Int /\ s + 1 \in Int /\ n \in Int /\ u \in Int
  <2>1. s + off \in Int /\ s + 1 \in Int
    BY <1>1
  <2> QED BY <1>1, <2>1, ModEqual
<1>4. \A y \in Int : (y - n) % M = (y - (s + off)) % M
  BY <1>1, <1>3, ModSum
<1>5. \A y \in Int : (y + u) % M = (y + (s + 1)) % M
  BY <1>1, <1>3, ModSum
<1> HIDE DEF n, u
<1>6. (u + off - n - 1) % M = 0
  <2>1. u + off - n - 1 = (u + off - 1) - n /\ u + off - 1 \in Int
    BY <1>1, <1>3
  <2>2. ((u + off - 1) - n) % M = ((u + off - 1) - (s + off)) % M
    BY <1>4, <2>1
  <2>3. (u + off - 1) - (s + off) = (-1 - s) + u /\ -1 - s \in Int
    BY <1>1, <1>3
  <2>4. ((-1 - s) + u) % M = ((-1 - s) + (s + 1)) % M
    BY <1>5, <2>3
  <2>5. (-1 - s) + (s + 1) = 0
    BY <1>1
  <2>6. 0 % M = 0
    BY <1>1, ModSmall
  <2> QED BY <2>1, <2>2, <2>3, <2>4, <2>5, <2>6
<1>7. ASSUME -h <= d, d < 0 PROVE (e0 + off - n - 1) % M = -1 - d
  <2>1. e0 + off - n - 1 = (e0 + off - 1) - n /\ e0 + off - 1 \in Int
    BY <1>1, <1>3
  <2>2. ((e0 + off - 1) - n) % M = ((e0 + off - 1) - (s + off)) % M
    BY <1>4, <2>1
  <2>3. (e0 + off - 1) - (s + off) = -1 - (s - e0)
    BY <1>1
  <2>4. (-1 - d) % M = (-1 - (s - e0)) % M
    BY <1>2
  <2>5. -1 - d \in Int /\ 0 <= -1 - d /\ -1 - d < M
    BY <1>1, <1>2, <1>7
  <2>6. (-1 - d) % M = -1 - d
    BY <1>1, <2>5, ModSmall
  <2> QED BY <2>1, <2>2, <2>3, <2>4, <2>6
<1>8. ASSUME NEW e \in Nums, n = (last + e) % M PROVE (u + off - last - 1) % M = e
  <2>1. u + off - last - 1 = (off - last - 1) + u /\ off - last - 1 \in Int /\ e \in Int /\ 0 <= e /\ e < M
    BY <1>1, <1>3
  <2>2. ((off - last - 1) + u) % M = ((off - last - 1) + (s + 1)) % M
    BY <1>5, <2>1
  <2>3. (off - last - 1) + (s + 1) = (s + off) + (-last) /\ -last \in Int /\ last + e \in Int
    BY <1>1, <2>1
  <2>4. ((s + off) + (-last)) % M = ((last + e) + (-last)) % M
    <3> DEFINE a == s + off
               b == last + e
               c == -last
    <3>1. a \in Int /\ b \in Int /\ c \in Int /\ a % M = b % M
      BY <1>3, <1>8, <2>3 DEF n
    <3> HIDE DEF a, b, c
    <3>2. (a + c) % M = (b + c) % M
      <4>1. ((a % M) + c) % M = (a + c) % M
        BY <1>1, <3>1, ModSum
      <4>2. ((b % M) + c) % M = (b + c) % M
        BY <1>1, <3>1, ModSum
      <4> QED BY <3>1, <4>1, <4>2
    <3> QED BY <3>2 DEF a, b, c
  <2>5. (last + e) + (-last) = e
    BY <1>1, <2>1
  <2>6. e % M = e
    BY <1>1, <2>1, ModSmall
  <2> QED BY <2>1, <2>2, <2>3, <2>4, <2>5, <2>6
<1> QED BY <1>6, <1>7, <1>8 DEF d, h, n, u, M

-----------------------------------------------------------------------------
(* What a write does.                                                      *)

LEMMA EmitTypes ==
  ASSUME PumpTypes, NEW p \in Pumps, NEW n \in Nums, NEW t \in Int,
         NEW kind \in {"new", "late"}, NEW skip \in Int, NEW gap \in Int,
         Emit(p, n, t, kind, skip, gap)
  PROVE  /\ wire' \in [any : BOOLEAN, top : Nums, topTs : Int]
         /\ sent' \in [kind : {"none", "new", "late"}, seq : Int, ts : Int, skip : Int, gap : Int]
         /\ ghost' \in [crossed : Nat, failed : Nat, stuck : Nat]
<1> DEFINE ds == IF wire.any THEN SeqDiff(n, wire.top) ELSE 1 + skip
           dt == IF wire.any THEN TsDiff(t, wire.topTs) ELSE 1
<1>1. wire.top \in Nums /\ wire.topTs \in Int
  BY DEF PumpTypes
<1>2. n \in Int /\ wire.top \in Int /\ NumMod \in Nat \ {0} /\ TsMod \in Nat \ {0}
  BY <1>1, MediaConstants
<1>3. ds \in Int /\ dt \in Int
  <2>1. SeqDiff(n, wire.top) \in Int
    BY <1>2, Signed DEF SeqDiff
  <2>2. TsDiff(t, wire.topTs) \in Int
    BY <1>1, <1>2, Signed DEF TsDiff
  <2> QED BY <2>1, <2>2
<1>4. /\ sent' = [kind |-> kind, seq |-> ds, ts |-> dt, skip |-> skip, gap |-> gap]
      /\ wire' = [any |-> TRUE,
                  top |-> IF ds > 0 THEN n ELSE wire.top,
                  topTs |-> IF dt > 0 THEN t ELSE wire.topTs]
      /\ ghost' = [ghost EXCEPT
                     !.crossed = IF p = cur THEN @ ELSE @ + 1,
                     !.stuck = IF kind # "new" \/ dt > 0 \/ gap # 1 THEN 0 ELSE @ + 1]
  BY DEF Emit
<1> HIDE DEF ds, dt
<1>5. ghost' \in [crossed : Nat, failed : Nat, stuck : Nat]
  <2> DEFINE c == IF p = cur THEN ghost.crossed ELSE ghost.crossed + 1
             u == IF kind # "new" \/ dt > 0 \/ gap # 1 THEN 0 ELSE ghost.stuck + 1
  <2>1. c \in Nat /\ u \in Nat
    BY DEF PumpTypes
  <2>2. ghost' = [ghost EXCEPT !.crossed = c, !.stuck = u]
    BY <1>4
  <2> HIDE DEF c, u
  <2> QED BY <2>1, <2>2 DEF PumpTypes
<1> QED BY <1>1, <1>3, <1>4, <1>5

(* A write of the current pump.                                            *)
LEMMA EmitHere ==
  ASSUME PumpTypes, Wired, ghost.crossed = 0, NEW n \in Nums, NEW t \in Int,
         NEW kind \in {"new", "late"}, NEW skip \in Nat, NEW gap \in Int, NEW ds \in Int,
         Emit(cur, n, t, kind, skip, gap),
         ds = IF pump[cur].wroteAny THEN SeqDiff(n, pump[cur].lastSeq) ELSE 1 + skip
  PROVE  /\ ghost'.crossed = 0 /\ ghost'.failed = ghost.failed
         /\ sent'.kind = kind /\ sent'.seq = ds /\ sent'.skip = skip
         /\ wire'.any
         /\ wire'.top = IF ~pump[cur].wroteAny \/ ds > 0 THEN n ELSE pump[cur].lastSeq
<1> DEFINE dt == IF wire.any THEN TsDiff(t, wire.topTs) ELSE 1
           es == IF wire.any THEN SeqDiff(n, wire.top) ELSE 1 + skip
<1>1. /\ pump[cur].wroteAny <=> wire.any
      /\ wire.any => pump[cur].lastSeq = wire.top
  BY DEF Wired
<1>2. es = ds
  BY <1>1
<1>3. /\ sent' = [kind |-> kind, seq |-> es, ts |-> dt, skip |-> skip, gap |-> gap]
      /\ wire' = [any |-> TRUE,
                  top |-> IF es > 0 THEN n ELSE wire.top,
                  topTs |-> IF dt > 0 THEN t ELSE wire.topTs]
      /\ ghost' = [ghost EXCEPT
                     !.crossed = IF cur = cur THEN @ ELSE @ + 1,
                     !.stuck = IF kind # "new" \/ dt > 0 \/ gap # 1 THEN 0 ELSE @ + 1]
  BY DEF Emit
<1> HIDE DEF dt, es
<1>4. ghost'.crossed = 0 /\ ghost'.failed = ghost.failed
  BY <1>3 DEF PumpTypes
<1>5. ~pump[cur].wroteAny => ds > 0
  OBVIOUS
<1> QED BY <1>1, <1>2, <1>3, <1>4, <1>5

(* A write of the replaced pump crosses the swap, for good.                *)
LEMMA EmitCrossed ==
  ASSUME PumpTypes, NEW p \in Pumps, p # cur \/ ghost.crossed # 0,
         NEW n, NEW t, NEW kind, NEW skip, NEW gap, Emit(p, n, t, kind, skip, gap)
  PROVE  ghost'.crossed # 0
<1>1. ghost.crossed \in Nat
  BY DEF PumpTypes
<1>2. ghost'.crossed = IF p = cur THEN ghost.crossed ELSE ghost.crossed + 1
  BY DEF Emit, PumpTypes
<1> QED BY <1>1, <1>2

LEMMA CrossedKept ==
  ASSUME ghost'.crossed # 0
  PROVE  Wired' /\ Followed' /\ StreamCarriesOn'
BY DEF Wired, Followed, StreamCarriesOn

LEMMA FailedWrite ==
  ASSUME PumpTypes, WriteFails
  PROVE  /\ ghost' \in [crossed : Nat, failed : Nat, stuck : Nat]
         /\ ghost'.crossed = ghost.crossed /\ ghost'.failed = 1
         /\ wire' = wire /\ sent' = sent
BY DEF PumpTypes, WriteFails

-----------------------------------------------------------------------------
(* The numbers forward gives.                                              *)

LEMMA Rebased ==
  ASSUME NEW q \in PumpState, NEW s \in Nums, NEW off \in rebaseSeq(q, s)
  PROVE  /\ off \in Nums /\ (s + off) % NumMod \in Nums
         /\ q.wroteAny => /\ (s + off) % NumMod = (q.lastSeq + 1) % NumMod
                          /\ SeqDiff((s + off) % NumMod, q.lastSeq) = 1
<1>1. q.lastSeq \in Nums /\ q.lastSeq + 1 \in Int /\ s \in Int
  <2>1. q.lastSeq \in Nums
    BY DEF PumpState
  <2>2. q.lastSeq \in Int /\ s \in Int
    BY <2>1, MediaConstants
  <2> QED BY <2>1, <2>2
<1>2. PICK x \in (IF q.wroteAny THEN {q.lastSeq + 1} ELSE Starts) : off = (x - s) % NumMod
  BY DEF rebaseSeq
<1>3. x \in Int
  BY <1>1, <1>2, MediaConstants
<1>4. off \in Nums /\ (s + off) % NumMod = x % NumMod
  BY <1>2, <1>3, RebasedTo
<1>5. x % NumMod \in Nums
  BY <1>3, ModEqual, MediaConstants DEF Nums
<1>6. ASSUME q.wroteAny
      PROVE  /\ (s + off) % NumMod = (q.lastSeq + 1) % NumMod
             /\ SeqDiff((s + off) % NumMod, q.lastSeq) = 1
  <2>1. x = q.lastSeq + 1
    BY <1>2, <1>6
  <2>2. -(NumMod \div 2) <= 1 /\ 1 < NumMod \div 2 /\ 1 \in Int
    BY MediaConstants
  <2>3. SeqDiff((q.lastSeq + 1) % NumMod, q.lastSeq) = 1
    BY <1>1, <2>2, SeqDiffIs
  <2> QED BY <1>4, <2>1, <2>3
<1> QED BY <1>4, <1>5, <1>6

(* A packet of a stream that goes on, as far ahead as e.                   *)
LEMMA Carried ==
  ASSUME NEW q \in PumpState, NEW s \in Nums, NEW d \in Int, d = SeqDiff(s, q.expectSeq),
         NEW e \in Int, e = 1 + Owed(q) + d
  PROVE  /\ Owed(q) \in Nums
         /\ (s + q.seqOffset) % NumMod \in Nums
         /\ (s + q.seqOffset) % NumMod = (q.lastSeq + e) % NumMod
         /\ -(NumMod \div 2) <= e /\ e < NumMod \div 2 =>
               SeqDiff((s + q.seqOffset) % NumMod, q.lastSeq) = e
<1>1. q.expectSeq \in Nums /\ q.seqOffset \in Nums /\ q.lastSeq \in Nums
  BY DEF PumpState
<1>2. Owed(q) \in Nums /\ (s + q.seqOffset) % NumMod = (q.lastSeq + e) % NumMod
  BY <1>1, CarriedTo DEF Owed
<1>3. (s + q.seqOffset) % NumMod \in Nums
  <2>0. s \in Int /\ q.seqOffset \in Int
    BY <1>1, MediaConstants
  <2>1. s + q.seqOffset \in Int
    BY <2>0
  <2> QED BY <2>1, ModEqual, MediaConstants DEF Nums
<1>4. -(NumMod \div 2) <= e /\ e < NumMod \div 2 => SeqDiff((q.lastSeq + e) % NumMod, q.lastSeq) = e
  BY <1>1, SeqDiffIs
<1> QED BY <1>2, <1>3, <1>4

-----------------------------------------------------------------------------
(* forward, in the terms of the proof.                                     *)

Restarts(q, k) == NewStream(q, k) \/ Renumbered(q, k)
IsLate(q, k) == ~Restarts(q, k) /\ SeqDiff(k.seq, q.expectSeq) < 0
Skipped(q, k) == IF Restarts(q, k) \/ IsLate(q, k) THEN 0 ELSE SeqDiff(k.seq, q.expectSeq)

(* The pump r once the packet k has been numbered with off.                *)
Follows(q, k, off, r) ==
  /\ r \in PumpState
  /\ r.haveSrc /\ ~r.localWrote
  /\ r.seqOffset = off /\ r.lastSeq = q.lastSeq /\ r.wroteAny = q.wroteAny
  /\ r.expectSeq = IF IsLate(q, k) THEN q.expectSeq ELSE (k.seq + 1) % NumMod

LEMMA OffsetTypes ==
  ASSUME NEW q \in PumpState, NEW k \in Packet
  PROVE  /\ Lag(q, k) \in Int
         /\ \A new : TsOffset(q, k, new) \in Int
         /\ \A x \in Int : x % TsMod \in Int
         /\ (k.seq + 1) % NumMod \in Nums
<1>1. /\ k.ts \in Int /\ q.lastTs \in Int /\ q.gap \in Int /\ q.lag \in Int
      /\ q.lastOut \in Int /\ q.tsOffset \in Int /\ k.seq \in Nums
  BY DEF PumpState, Packet
<1>2. TsMod \in Nat \ {0} /\ NumMod \in Nat \ {0} /\ k.seq \in Int
  BY <1>1, MediaConstants
<1>3. Elapsed(q, k) \in Int
  BY <1>1, <1>2, Signed DEF Elapsed, TsDiff
<1>4. Parted(q, k) \in Int
  BY <1>1, <1>3 DEF Parted
<1>5. Lag(q, k) \in Int
  BY <1>1, <1>4 DEF Lag
<1>6. ASSUME NEW new PROVE TsOffset(q, k, new) \in Int
  BY <1>1 DEF TsOffset, InitTimestamp
<1>7. \A x \in Int : x % TsMod \in Int
  BY <1>2, ModEqual
<1>8. (k.seq + 1) % NumMod \in Nums
  <2>1. k.seq + 1 \in Int
    BY <1>2
  <2> QED BY <1>2, <2>1, ModEqual DEF Nums
<1> QED BY <1>5, <1>6, <1>7, <1>8

LEMMA ForwardIs ==
  ASSUME PumpTypes, NEW p \in Pumps, forward(p), NEW q, NEW k, q = pump[p], k = relay[p].pkt
  PROVE  /\ q \in PumpState /\ k \in Packet /\ pos' \in Int /\ relay[p].pc = "forward"
         /\ relay' = [relay EXCEPT ![p] = [pc |-> "read", pkt |-> Nil]]
         /\ UNCHANGED <<cur, holder, src, play>>
         /\ \E off \in (IF Restarts(q, k) THEN rebaseSeq(q, k.seq) ELSE {q.seqOffset}) :
              \E r, w :
                /\ Follows(q, k, off, r)
                /\ w \in Int
                /\ \/ /\ Emit(p, (k.seq + off) % NumMod, pos', IF IsLate(q, k) THEN "late" ELSE "new",
                              Skipped(q, k), q.gap)
                      /\ pump' = [pump EXCEPT ![p] = Wrote(r, (k.seq + off) % NumMod, w)]
                   \/ /\ WriteFails
                      /\ pump' = [pump EXCEPT ![p] = r]
<1> DEFINE new == NewStream(q, k)
           d == SeqDiff(k.seq, q.expectSeq)
           renum == ~new /\ Renumbered(q, k)
           late == ~new /\ d < 0 /\ ~renum
           lag == IF new THEN 0 ELSE Lag(q, k)
           tsOff == TsOffset(q, k, new)
           want == (k.ts + tsOff) % TsMod
           at == IF q.wroteAny THEN q.lastOut ELSE InitTimestamp
           offs == IF new \/ renum THEN rebaseSeq(q, k.seq) ELSE {q.seqOffset}
           n(off) == (k.seq + off) % NumMod
           q2(off) == [q EXCEPT !.haveSrc = TRUE, !.srcSSRC = k.ssrc, !.localWrote = FALSE,
                                !.tsOffset = tsOff % TsMod, !.seqOffset = off,
                                !.expectSeq = IF late THEN @ ELSE (k.seq + 1) % NumMod,
                                !.lastTs = k.ts, !.gap = 0,
                                !.lag = lag]
<1>1. q \in PumpState /\ k \in Packet
  BY DEF PumpTypes
<1>2. /\ relay[p].pc = "forward"
      /\ relay' = [relay EXCEPT ![p] = [pc |-> "read", pkt |-> Nil]]
      /\ pos' = (pos + want - at) % TsMod
      /\ UNCHANGED <<cur, holder, src, play>>
      /\ \E off \in offs :
           \/ /\ Emit(p, n(off), pos', IF late THEN "late" ELSE "new",
                      IF new \/ renum \/ late THEN 0 ELSE d, q.gap)
              /\ pump' = [pump EXCEPT ![p] = Wrote(q2(off), n(off), want)]
           \/ /\ WriteFails
              /\ pump' = [pump EXCEPT ![p] = q2(off)]
  BY DEF forward, callVars
<1>3. /\ q.seqOffset \in Nums /\ q.expectSeq \in Nums /\ q.lastOut \in Int /\ k.ts \in Int
      /\ k.ssrc \in Int /\ k.seq \in Nums
  BY <1>1 DEF PumpState, Packet
<1>4. tsOff \in Int /\ lag \in Int /\ \A x \in Int : x % TsMod \in Int
  BY <1>1, OffsetTypes
<1>5. (k.seq + 1) % NumMod \in Nums
  BY <1>1, OffsetTypes
<1>6. (new \/ renum) = Restarts(q, k) /\ late = IsLate(q, k)
  BY DEF Restarts, IsLate
<1> HIDE DEF new, d, renum, late, lag, tsOff
<1>7. want \in Int /\ at \in Int /\ tsOff % TsMod \in Int
  BY <1>3, <1>4 DEF InitTimestamp
<1> HIDE DEF want, at
<1>8. pos' \in Int
  <2>1. pos + want - at \in Int
    BY <1>7 DEF PumpTypes
  <2> QED BY <1>2, <1>4, <2>1
<1>9. ASSUME NEW off \in offs PROVE Follows(q, k, off, q2(off))
  <2>1. off \in Nums
    BY <1>1, <1>3, Rebased
  <2> DEFINE x == IF late THEN q.expectSeq ELSE (k.seq + 1) % NumMod
             o == tsOff % TsMod
  <2>2. x \in Nums /\ o \in Int
    BY <1>3, <1>5, <1>7
  <2>3. x = IF IsLate(q, k) THEN q.expectSeq ELSE (k.seq + 1) % NumMod
    BY <1>6
  <2>4. q2(off) = [q EXCEPT !.haveSrc = TRUE, !.srcSSRC = k.ssrc, !.localWrote = FALSE,
                            !.tsOffset = o, !.seqOffset = off, !.expectSeq = x,
                            !.lastTs = k.ts, !.gap = 0, !.lag = lag]
    OBVIOUS
  <2> DEFINE r == q2(off)
  <2> HIDE DEF x, o, q2, r, Restarts, IsLate
  <2>5. r = [q EXCEPT !.haveSrc = TRUE, !.srcSSRC = k.ssrc, !.localWrote = FALSE,
                            !.tsOffset = o, !.seqOffset = off, !.expectSeq = x,
                            !.lastTs = k.ts, !.gap = 0, !.lag = lag]
    BY <2>4 DEF r
  <2>6. r \in PumpState
    <3>1. r = [haveSrc |-> TRUE, srcSSRC |-> k.ssrc, tsOffset |-> o, seqOffset |-> off,
               wroteAny |-> q.wroteAny, lastOut |-> q.lastOut, lastSeq |-> q.lastSeq,
               localWrote |-> FALSE, expectSeq |-> x, lastTs |-> k.ts, gap |-> 0, lag |-> lag]
      BY <1>1, <2>5 DEF PumpState
    <3>2. q.wroteAny \in BOOLEAN /\ q.lastOut \in Int /\ q.lastSeq \in Nums
      BY <1>1 DEF PumpState
    <3> QED BY <1>3, <1>4, <2>1, <2>2, <3>1, <3>2 DEF PumpState
  <2>7. /\ r.haveSrc /\ ~r.localWrote /\ r.seqOffset = off /\ r.lastSeq = q.lastSeq
        /\ r.wroteAny = q.wroteAny /\ r.expectSeq = x
    BY <1>1, <2>5 DEF PumpState
  <2>8. Follows(q, k, off, r)
    BY <2>3, <2>6, <2>7 DEF Follows
  <2> QED BY <2>8 DEF r
<1>10. PICK off \in offs :
         \/ /\ Emit(p, n(off), pos', IF late THEN "late" ELSE "new",
                    IF new \/ renum \/ late THEN 0 ELSE d, q.gap)
            /\ pump' = [pump EXCEPT ![p] = Wrote(q2(off), n(off), want)]
         \/ /\ WriteFails
            /\ pump' = [pump EXCEPT ![p] = q2(off)]
  BY <1>2
<1>11. (IF late THEN "late" ELSE "new") = (IF IsLate(q, k) THEN "late" ELSE "new")
  BY <1>6
<1>12. (IF new \/ renum \/ late THEN 0 ELSE d) = Skipped(q, k)
  BY <1>6 DEF Skipped, d
<1>13. offs = IF Restarts(q, k) THEN rebaseSeq(q, k.seq) ELSE {q.seqOffset}
  BY <1>6
<1>14. Follows(q, k, off, q2(off))
  BY <1>9
<1> DEFINE r == q2(off)
           kind == IF IsLate(q, k) THEN "late" ELSE "new"
<1>15. \/ /\ Emit(p, (k.seq + off) % NumMod, pos', kind, Skipped(q, k), q.gap)
          /\ pump' = [pump EXCEPT ![p] = Wrote(r, (k.seq + off) % NumMod, want)]
       \/ /\ WriteFails
          /\ pump' = [pump EXCEPT ![p] = r]
  BY <1>10, <1>11, <1>12
<1>16. off \in (IF Restarts(q, k) THEN rebaseSeq(q, k.seq) ELSE {q.seqOffset})
  BY <1>13
<1>17. Follows(q, k, off, r)
  BY <1>14
<1> HIDE DEF q2, offs, r, kind
<1>18. \E x, w :
         /\ Follows(q, k, off, x)
         /\ w \in Int
         /\ \/ /\ Emit(p, (k.seq + off) % NumMod, pos', kind, Skipped(q, k), q.gap)
               /\ pump' = [pump EXCEPT ![p] = Wrote(x, (k.seq + off) % NumMod, w)]
            \/ /\ WriteFails
               /\ pump' = [pump EXCEPT ![p] = x]
  BY <1>7, <1>15, <1>17
<1> QED BY <1>1, <1>2, <1>8, <1>16, <1>18 DEF kind

LEMMA WroteIs ==
  ASSUME NEW r \in PumpState, NEW n \in Nums, NEW w \in Int
  PROVE  LET x == Wrote(r, n, w)
         IN  /\ x \in PumpState /\ x.wroteAny
             /\ x.haveSrc = r.haveSrc /\ x.localWrote = r.localWrote
             /\ x.seqOffset = r.seqOffset /\ x.expectSeq = r.expectSeq
             /\ x.lastSeq = IF ~r.wroteAny \/ SeqDiff(n, r.lastSeq) > 0 THEN n ELSE r.lastSeq
<1> DEFINE l == IF ~r.wroteAny \/ SeqDiff(n, r.lastSeq) > 0 THEN n ELSE r.lastSeq
           x == Wrote(r, n, w)
<1>1. l \in Nums
  BY DEF PumpState
<1>2. x = [r EXCEPT !.lastSeq = l, !.lastOut = w, !.wroteAny = TRUE]
  BY DEF Wrote
<1> HIDE DEF l, x
<1>3. x = [haveSrc |-> r.haveSrc, srcSSRC |-> r.srcSSRC, tsOffset |-> r.tsOffset, seqOffset |-> r.seqOffset,
           wroteAny |-> TRUE, lastOut |-> w, lastSeq |-> l,
           localWrote |-> r.localWrote, expectSeq |-> r.expectSeq, lastTs |-> r.lastTs, gap |-> r.gap,
           lag |-> r.lag]
  BY <1>2 DEF PumpState
<1>4. x \in PumpState
  <2>1. /\ r.haveSrc \in BOOLEAN /\ r.srcSSRC \in Int /\ r.tsOffset \in Int /\ r.seqOffset \in Nums
        /\ r.localWrote \in BOOLEAN /\ r.expectSeq \in Nums /\ r.lastTs \in Int /\ r.gap \in Int
        /\ r.lag \in Int
    BY DEF PumpState
  <2> QED BY <1>1, <1>3, <2>1 DEF PumpState
<1>5. /\ x.wroteAny /\ x.haveSrc = r.haveSrc /\ x.localWrote = r.localWrote
      /\ x.seqOffset = r.seqOffset /\ x.expectSeq = r.expectSeq /\ x.lastSeq = l
  BY <1>3
<1> QED BY <1>4, <1>5 DEF x, l

(* What is owed after the packet of each kind, written or not.             *)
LEMMA OwedRestart ==
  ASSUME NEW q \in PumpState, NEW k \in Packet, NEW off \in rebaseSeq(q, k.seq), NEW r,
         Restarts(q, k), Follows(q, k, off, r)
  PROVE  LET n == (k.seq + off) % NumMod
         IN  /\ n \in Nums
             /\ q.wroteAny => SeqDiff(n, q.lastSeq) = 1 /\ Owed(r) < NumMod \div 2
             /\ \A x \in PumpState : x.expectSeq = r.expectSeq /\ x.seqOffset = off /\ x.lastSeq = n
                   => Owed(x) = 0
<1> DEFINE n == (k.seq + off) % NumMod
<1>1. k.seq \in Nums /\ q.expectSeq \in Nums /\ q.lastSeq \in Nums
  BY DEF Packet, PumpState
<1>2. /\ off \in Nums /\ n \in Nums
      /\ q.wroteAny => n = (q.lastSeq + 1) % NumMod /\ SeqDiff(n, q.lastSeq) = 1
  BY <1>1, Rebased
<1>3. r.expectSeq = (k.seq + 1) % NumMod /\ r.seqOffset = off /\ r.lastSeq = q.lastSeq
  BY DEF Follows, IsLate
<1>4. (((k.seq + 1) % NumMod) + off - n - 1) % NumMod = 0
  BY <1>1, <1>2, OwedAfter
<1>5. ASSUME q.wroteAny PROVE Owed(r) < NumMod \div 2
  <2>1. 1 \in Nums /\ 1 < NumMod \div 2
    BY MediaConstants DEF Nums
  <2>2. \A e \in Nums : n = (q.lastSeq + e) % NumMod =>
              (((k.seq + 1) % NumMod) + off - q.lastSeq - 1) % NumMod = e
    BY <1>1, <1>2, OwedAfter
  <2>3. (((k.seq + 1) % NumMod) + off - q.lastSeq - 1) % NumMod = 1
    BY <1>2, <1>5, <2>1, <2>2
  <2> QED BY <1>3, <2>1, <2>3 DEF Owed
<1> HIDE DEF n
<1>6. ASSUME NEW x \in PumpState, x.expectSeq = r.expectSeq, x.seqOffset = off, x.lastSeq = n
      PROVE  Owed(x) = 0
  BY <1>3, <1>4, <1>6 DEF Owed
<1> QED BY <1>2, <1>5, <1>6 DEF n

LEMMA OwedGoesOn ==
  ASSUME NEW q \in PumpState, NEW k \in Packet, NEW r, ~Restarts(q, k), ~IsLate(q, k),
         Follows(q, k, q.seqOffset, r), q.wroteAny => 1 + Owed(q) + SeqDiff(k.seq, q.expectSeq) < NumMod \div 2
  PROVE  LET n == (k.seq + q.seqOffset) % NumMod
             d == SeqDiff(k.seq, q.expectSeq)
         IN  /\ n \in Nums /\ d \in Nat /\ Owed(q) \in Nat
             /\ q.wroteAny => SeqDiff(n, q.lastSeq) = 1 + Owed(q) + d /\ Owed(r) < NumMod \div 2
             /\ \A x \in PumpState : x.expectSeq = r.expectSeq /\ x.seqOffset = q.seqOffset /\ x.lastSeq = n
                   => Owed(x) = 0
<1> DEFINE n == (k.seq + q.seqOffset) % NumMod
           d == SeqDiff(k.seq, q.expectSeq)
           e == 1 + Owed(q) + d
           h == NumMod \div 2
<1>1. k.seq \in Nums /\ q.expectSeq \in Nums /\ q.lastSeq \in Nums /\ q.seqOffset \in Nums
  BY DEF Packet, PumpState
<1>2. d \in Int
  BY <1>1, SeqDiffMod
<1>3. d >= 0
  BY <1>2 DEF IsLate
<1>4. Owed(q) \in Nums
  BY <1>1, CarriedTo DEF Owed
<1>5. Owed(q) \in Nat
  BY <1>4, MediaConstants DEF Nums
<1>6. e \in Int /\ h \in Nat /\ 2 * h <= NumMod /\ NumMod \in Nat \ {0}
  BY <1>2, <1>5, MediaConstants
<1>7. /\ n \in Nums /\ n = (q.lastSeq + e) % NumMod
      /\ -h <= e /\ e < h => SeqDiff(n, q.lastSeq) = e
  BY <1>1, <1>2, <1>6, Carried
<1>8. r.expectSeq = (k.seq + 1) % NumMod /\ r.seqOffset = q.seqOffset /\ r.lastSeq = q.lastSeq
  BY DEF Follows
<1>9. (((k.seq + 1) % NumMod) + q.seqOffset - n - 1) % NumMod = 0
  BY <1>1, OwedAfter
<1>10. ASSUME q.wroteAny PROVE SeqDiff(n, q.lastSeq) = e /\ Owed(r) < h
  <2>1. e < h
    BY <1>10
  <2>2. -h <= e /\ e \in Nums
    <3> HIDE DEF d, h
    <3>1. 0 <= e
      BY <1>2, <1>3, <1>5
    <3> HIDE DEF e
    <3> QED BY <1>6, <2>1, <3>1 DEF Nums
  <2>3. \A y \in Nums : n = (q.lastSeq + y) % NumMod =>
              (((k.seq + 1) % NumMod) + q.seqOffset - q.lastSeq - 1) % NumMod = y
    BY <1>1, OwedAfter
  <2> HIDE DEF n, e, h
  <2>4. (((k.seq + 1) % NumMod) + q.seqOffset - q.lastSeq - 1) % NumMod = e
    BY <1>7, <2>2, <2>3
  <2>5. Owed(r) = e
    BY <1>8, <2>4 DEF Owed
  <2> QED BY <1>7, <2>1, <2>2, <2>5
<1> HIDE DEF n
<1>11. ASSUME NEW x \in PumpState, x.expectSeq = r.expectSeq, x.seqOffset = q.seqOffset, x.lastSeq = n
       PROVE  Owed(x) = 0
  BY <1>8, <1>9, <1>11 DEF Owed
<1>12. d \in Nat
  BY <1>2, <1>3
<1> QED BY <1>5, <1>7, <1>10, <1>11, <1>12 DEF n

LEMMA OwedLate ==
  ASSUME NEW q \in PumpState, NEW k \in Packet, NEW r, IsLate(q, k),
         Follows(q, k, q.seqOffset, r), q.wroteAny => Owed(q) < NumMod \div 2
  PROVE  LET n == (k.seq + q.seqOffset) % NumMod
         IN  /\ n \in Nums
             /\ Owed(r) = Owed(q)
             /\ q.wroteAny => SeqDiff(n, q.lastSeq) \in Int
             /\ q.wroteAny /\ Owed(q) = 0 => ~(SeqDiff(n, q.lastSeq) > 0)
             /\ \A x \in PumpState : x.expectSeq = q.expectSeq /\ x.seqOffset = q.seqOffset /\ x.lastSeq = n
                   => Owed(x) < NumMod \div 2
<1> DEFINE n == (k.seq + q.seqOffset) % NumMod
           d == SeqDiff(k.seq, q.expectSeq)
           e == 1 + Owed(q) + d
           h == NumMod \div 2
<1>1. k.seq \in Nums /\ q.expectSeq \in Nums /\ q.lastSeq \in Nums /\ q.seqOffset \in Nums
  BY DEF Packet, PumpState
<1>2. d \in Int /\ h \in Nat /\ 2 * h <= NumMod /\ NumMod \in Nat \ {0} /\ Reorder \in Nat /\ Reorder <= h
  BY <1>1, SeqDiffMod, MediaConstants
<1>3. d < 0 /\ ~(d <= -Reorder)
  BY DEF IsLate, Restarts, Renumbered
<1>4. Owed(q) \in Nums
  BY <1>1, CarriedTo DEF Owed
<1>5. Owed(q) \in Nat
  BY <1>4, MediaConstants DEF Nums
<1>6. e \in Int
  BY <1>2, <1>5
<1>7. /\ n \in Nums
      /\ -h <= e /\ e < h => SeqDiff(n, q.lastSeq) = e
  BY <1>1, <1>2, <1>6, Carried
<1>8. Owed(r) = Owed(q)
  BY DEF Owed, Follows
<1>9. ASSUME q.wroteAny PROVE SeqDiff(n, q.lastSeq) = e
  <2>1. Owed(q) < h
    BY <1>9
  <2> HIDE DEF d, h, n
  <2>2. -h <= e /\ e < h
    BY <1>2, <1>3, <1>5, <2>1
  <2> QED BY <1>7, <2>2
<1>10. -h <= d
  BY <1>2, <1>3
<1>11. (q.expectSeq + q.seqOffset - n - 1) % NumMod = -1 - d
  BY <1>1, <1>3, <1>10, OwedAfter
<1> HIDE DEF n, d, h
<1>12. -1 - d < h
  BY <1>2, <1>3
<1>13. ASSUME NEW x \in PumpState, x.expectSeq = q.expectSeq, x.seqOffset = q.seqOffset, x.lastSeq = n
       PROVE  Owed(x) < h
  BY <1>11, <1>12, <1>13 DEF Owed
<1>14. Owed(q) = 0 => ~(e > 0)
  BY <1>2, <1>3
<1> HIDE DEF e
<1> QED BY <1>6, <1>7, <1>8, <1>9, <1>13, <1>14 DEF n, h

LEMMA NumberTypes ==
  ASSUME NEW q \in PumpState, NEW k \in Packet,
         NEW off \in (IF Restarts(q, k) THEN rebaseSeq(q, k.seq) ELSE {q.seqOffset})
  PROVE  (k.seq + off) % NumMod \in Nums /\ Skipped(q, k) \in Nat /\ q.gap \in Int
<1>1. k.seq \in Nums /\ q.expectSeq \in Nums /\ q.seqOffset \in Nums /\ q.gap \in Int
  BY DEF Packet, PumpState
<1>2. off \in Nums
  BY <1>1, Rebased
<1>3. k.seq \in Int /\ off \in Int /\ NumMod \in Nat \ {0}
  BY <1>1, <1>2, MediaConstants
<1>4. k.seq + off \in Int
  BY <1>3
<1>5. (k.seq + off) % NumMod \in Nums
  BY <1>3, <1>4, ModEqual DEF Nums
<1>6. Skipped(q, k) \in Nat
  <2>1. SeqDiff(k.seq, q.expectSeq) \in Int
    BY <1>1, SeqDiffMod
  <2> QED BY <2>1 DEF Skipped, IsLate
<1> QED BY <1>1, <1>5, <1>6

LEMMA ForwardTypes ==
  ASSUME PumpTypes, NEW p \in Pumps, forward(p)
  PROVE  PumpTypes'
<1> DEFINE q == pump[p]
           k == relay[p].pkt
           offs == IF Restarts(q, k) THEN rebaseSeq(q, k.seq) ELSE {q.seqOffset}
           n(off) == (k.seq + off) % NumMod
<1>1. /\ q \in PumpState /\ k \in Packet /\ pos' \in Int
      /\ relay' = [relay EXCEPT ![p] = [pc |-> "read", pkt |-> Nil]]
      /\ UNCHANGED <<cur, holder, src, play>>
  BY ForwardIs
<1>2. PICK off \in offs :
         \E r, w :
           /\ Follows(q, k, off, r)
           /\ w \in Int
           /\ \/ /\ Emit(p, n(off), pos', IF IsLate(q, k) THEN "late" ELSE "new", Skipped(q, k), q.gap)
                 /\ pump' = [pump EXCEPT ![p] = Wrote(r, n(off), w)]
              \/ /\ WriteFails
                 /\ pump' = [pump EXCEPT ![p] = r]
  BY ForwardIs
<1>3. PICK r, w :
         /\ Follows(q, k, off, r)
         /\ w \in Int
         /\ \/ /\ Emit(p, n(off), pos', IF IsLate(q, k) THEN "late" ELSE "new", Skipped(q, k), q.gap)
               /\ pump' = [pump EXCEPT ![p] = Wrote(r, n(off), w)]
            \/ /\ WriteFails
               /\ pump' = [pump EXCEPT ![p] = r]
  BY <1>2
<1>4. n(off) \in Nums /\ Skipped(q, k) \in Int /\ q.gap \in Int
  <2> HIDE DEF q, k
  <2>1. (k.seq + off) % NumMod \in Nums /\ Skipped(q, k) \in Nat /\ q.gap \in Int
    BY <1>1, NumberTypes
  <2> QED BY <2>1
<1>5. r \in PumpState /\ Wrote(r, n(off), w) \in PumpState
  <2>1. r \in PumpState
    BY <1>3 DEF Follows
  <2> QED BY <1>3, <1>4, <2>1, WroteIs
<1> DEFINE kind == IF IsLate(q, k) THEN "late" ELSE "new"
           m == n(off)
<1>6. kind \in {"new", "late"}
  OBVIOUS
<1>7. /\ wire' \in [any : BOOLEAN, top : Nums, topTs : Int]
      /\ sent' \in [kind : {"none", "new", "late"}, seq : Int, ts : Int, skip : Int, gap : Int]
      /\ ghost' \in [crossed : Nat, failed : Nat, stuck : Nat]
  <2>1. CASE Emit(p, m, pos', kind, Skipped(q, k), q.gap)
    <3> HIDE DEF m, kind, q, k
    <3>1. m \in Nums
      BY <1>4 DEF m
    <3> QED BY <1>1, <1>4, <1>6, <2>1, <3>1, EmitTypes
  <2>2. CASE WriteFails
    BY <2>2, FailedWrite DEF PumpTypes
  <2> QED BY <1>3, <2>1, <2>2
<1>8. pump' \in [Pumps -> PumpState]
  <2>1. \A x \in PumpState : [pump EXCEPT ![p] = x] \in [Pumps -> PumpState]
    BY DEF PumpTypes
  <2> HIDE DEF q, k, n
  <2> QED BY <1>3, <1>5, <2>1
<1>9. relay' \in [Pumps -> [pc : {"off", "read", "check", "forward"}, pkt : Packet]]
  <2>1. Nil \in Packet
    BY MediaConstants DEF Nil, Packet, Nums
  <2> DEFINE z == [pc |-> "read", pkt |-> Nil]
  <2>2. z \in [pc : {"off", "read", "check", "forward"}, pkt : Packet]
    BY <2>1
  <2>3. relay' = [relay EXCEPT ![p] = z]
    BY <1>1
  <2> HIDE DEF z
  <2> QED BY <2>2, <2>3 DEF PumpTypes
<1> HIDE DEF q, k, n
<1> QED BY <1>1, <1>7, <1>8, <1>9 DEF PumpTypes

(* A write that fails leaves the leg where it was.                         *)
LEMMA FailKept ==
  ASSUME StreamInv, WriteFails, cur' = cur,
         pump'[cur].wroteAny = pump[cur].wroteAny, pump'[cur].lastSeq = pump[cur].lastSeq,
         ghost.crossed = 0 /\ pump'[cur].haveSrc /\ ~pump'[cur].localWrote /\ pump'[cur].wroteAny
           => Owed(pump'[cur]) < NumMod \div 2
  PROVE  Wired' /\ Followed' /\ StreamCarriesOn'
<1>1. ghost'.crossed = ghost.crossed /\ ghost'.failed = 1 /\ wire' = wire /\ sent' = sent
  BY FailedWrite DEF StreamInv
<1>2. Wired'
  BY <1>1 DEF StreamInv, Wired
<1>3. Followed'
  BY <1>1 DEF Followed, Owed
<1>4. StreamCarriesOn'
  BY <1>1 DEF StreamInv, StreamCarriesOn
<1> QED BY <1>2, <1>3, <1>4

(* A write of the current pump that gives the leg the number its source    *)
(* is to be at.                                                            *)
LEMMA WriteKept ==
  ASSUME StreamInv, ghost.crossed = 0, NEW n \in Nums, NEW kind \in {"new", "late"},
         NEW skip \in Nat, NEW gap \in Int, NEW ds \in Int, pos' \in Int,
         Emit(cur, n, pos', kind, skip, gap),
         ds = IF pump[cur].wroteAny THEN SeqDiff(n, pump[cur].lastSeq) ELSE 1 + skip,
         cur' = cur, NEW x, x = pump'[cur],
         x.wroteAny,
         x.lastSeq = IF ~pump[cur].wroteAny \/ ds > 0 THEN n ELSE pump[cur].lastSeq,
         x.haveSrc /\ ~x.localWrote =>
           Owed(x) < NumMod \div 2 /\ (ghost.failed = 0 => Owed(x) = 0),
         kind = "new" => ds >= 1 + skip /\ (ghost.failed = 0 => ds = 1 + skip)
  PROVE  Wired' /\ Followed' /\ StreamCarriesOn'
<1>1. /\ ghost'.crossed = 0 /\ ghost'.failed = ghost.failed
      /\ sent'.kind = kind /\ sent'.seq = ds /\ sent'.skip = skip
      /\ wire'.any
      /\ wire'.top = IF ~pump[cur].wroteAny \/ ds > 0 THEN n ELSE pump[cur].lastSeq
  BY EmitHere DEF StreamInv
<1>2. Wired'
  BY <1>1 DEF Wired
<1>3. Followed'
  BY <1>1 DEF Followed, Owed
<1>4. StreamCarriesOn'
  BY <1>1 DEF StreamCarriesOn
<1> QED BY <1>2, <1>3, <1>4

LEMMA ForwardKept ==
  ASSUME StreamInv, NumbersNear, NEW p \in Pumps, forward(p)
  PROVE  Wired' /\ Followed' /\ StreamCarriesOn'
<1> DEFINE q == pump[p]
           k == relay[p].pkt
           kind == IF IsLate(q, k) THEN "late" ELSE "new"
           h == NumMod \div 2
<1>0. PumpTypes
  BY DEF StreamInv
<1>1. /\ q \in PumpState /\ k \in Packet /\ pos' \in Int /\ cur' = cur /\ cur \in Pumps
      /\ relay[p].pc = "forward" /\ pump \in [Pumps -> PumpState]
  BY <1>0, ForwardIs DEF PumpTypes
<1>2. PICK off \in (IF Restarts(q, k) THEN rebaseSeq(q, k.seq) ELSE {q.seqOffset}) :
         \E r, w :
           /\ Follows(q, k, off, r)
           /\ w \in Int
           /\ \/ /\ Emit(p, (k.seq + off) % NumMod, pos', kind, Skipped(q, k), q.gap)
                 /\ pump' = [pump EXCEPT ![p] = Wrote(r, (k.seq + off) % NumMod, w)]
              \/ /\ WriteFails
                 /\ pump' = [pump EXCEPT ![p] = r]
  BY <1>0, ForwardIs
<1>3. PICK r, w :
           /\ Follows(q, k, off, r)
           /\ w \in Int
           /\ \/ /\ Emit(p, (k.seq + off) % NumMod, pos', kind, Skipped(q, k), q.gap)
                 /\ pump' = [pump EXCEPT ![p] = Wrote(r, (k.seq + off) % NumMod, w)]
              \/ /\ WriteFails
                 /\ pump' = [pump EXCEPT ![p] = r]
  BY <1>2
<1> DEFINE n == (k.seq + off) % NumMod
           x == Wrote(r, n, w)
           skip == Skipped(q, k)
<1>4. CASE p # cur
  <2>1. CASE WriteFails /\ pump' = [pump EXCEPT ![p] = r]
    <3>1. pump'[cur] = pump[cur]
      BY <1>1, <1>4, <2>1
    <3>2. ghost.crossed = 0 /\ pump[cur].haveSrc /\ ~pump[cur].localWrote /\ pump[cur].wroteAny
            => Owed(pump[cur]) < NumMod \div 2
      BY DEF StreamInv, Followed
    <3> QED BY <1>1, <2>1, <3>1, <3>2, FailKept
  <2>2. CASE Emit(p, n, pos', kind, skip, q.gap)
    <3>1. ghost'.crossed # 0
      BY <1>0, <1>4, <2>2, EmitCrossed
    <3> QED BY <3>1, CrossedKept
  <2> QED BY <1>3, <2>1, <2>2
<1>5. CASE p = cur /\ ghost.crossed # 0
  <2>1. CASE WriteFails
    <3>1. ghost'.crossed # 0
      BY <1>0, <1>5, <2>1, FailedWrite
    <3> QED BY <3>1, CrossedKept
  <2>2. CASE Emit(p, n, pos', kind, skip, q.gap)
    <3>1. ghost'.crossed # 0
      BY <1>0, <1>5, <2>2, EmitCrossed
    <3> QED BY <3>1, CrossedKept
  <2> QED BY <1>3, <2>1, <2>2
<1>6. CASE p = cur /\ ghost.crossed = 0
  <2>1. r \in PumpState /\ Follows(q, k, off, r) /\ w \in Int
    BY <1>3 DEF Follows
  <2>2. n \in Nums /\ skip \in Nat /\ q.gap \in Int
    <3> HIDE DEF q, k
    <3> QED BY <1>1, NumberTypes
  <2>3. /\ r.haveSrc /\ ~r.localWrote /\ r.seqOffset = off /\ r.lastSeq = q.lastSeq
        /\ r.wroteAny = q.wroteAny
    BY <2>1 DEF Follows
  <2>4. /\ x \in PumpState /\ x.wroteAny /\ x.haveSrc = r.haveSrc /\ x.localWrote = r.localWrote
        /\ x.seqOffset = r.seqOffset /\ x.expectSeq = r.expectSeq
        /\ x.lastSeq = IF ~r.wroteAny \/ SeqDiff(n, r.lastSeq) > 0 THEN n ELSE r.lastSeq
    <3> HIDE DEF n
    <3> QED BY <2>1, <2>2, WroteIs
  <2>5. /\ q.haveSrc /\ ~q.localWrote /\ q.wroteAny => Owed(q) < h
        /\ q.haveSrc /\ ~q.localWrote /\ ghost.failed = 0 => q.wroteAny /\ Owed(q) = 0
    BY <1>6 DEF StreamInv, Followed
  <2>6. ~Restarts(q, k) => q.haveSrc /\ ~q.localWrote
    BY DEF Restarts, NewStream
  <2>7. ~Restarts(q, k) /\ ~IsLate(q, k) /\ q.wroteAny
          => 1 + Owed(q) + SeqDiff(k.seq, q.expectSeq) < h
    <3> SUFFICES ASSUME ~Restarts(q, k), ~IsLate(q, k), q.wroteAny
                 PROVE  1 + Owed(q) + SeqDiff(k.seq, q.expectSeq) < h
      OBVIOUS
    <3>1. q.expectSeq \in Nums /\ k.seq \in Nums /\ q.seqOffset \in Nums /\ q.lastSeq \in Nums
      BY <1>1 DEF PumpState, Packet
    <3>2. SeqDiff(k.seq, q.expectSeq) \in Int /\ Owed(q) \in Nums
      BY <3>1, SeqDiffMod, CarriedTo DEF Owed
    <3>3. SeqDiff(k.seq, q.expectSeq) >= 0 /\ ~NewStream(q, k)
      BY <3>2 DEF IsLate, Restarts
    <3>4. Owed(q) + SeqDiff(k.seq, q.expectSeq) + 1 < h
      BY <1>1, <1>6, <3>3 DEF NumbersNear
    <3>5. Owed(q) \in Int
      BY <3>2, MediaConstants
    <3> DEFINE d == SeqDiff(k.seq, q.expectSeq)
               o == Owed(q)
    <3> HIDE DEF d, o, h
    <3>6. d \in Int /\ o \in Int /\ o + d + 1 < h
      BY <3>2, <3>4, <3>5 DEF d, o
    <3>7. 1 + o + d < h
      BY <3>6, MediaConstants DEF h
    <3> QED BY <3>7 DEF d, o
  (* What the packet is to the numbers of the leg.                         *)
  <2> DEFINE ds == IF q.wroteAny THEN SeqDiff(n, q.lastSeq) ELSE 1 + skip
  <2>8. /\ ds \in Int
        /\ kind = "new" => ds >= 1 + skip /\ (ghost.failed = 0 => ds = 1 + skip)
        /\ q.wroteAny => Owed(r) < h
        /\ x.lastSeq = (IF ~q.wroteAny \/ ds > 0 THEN n ELSE q.lastSeq)
             => Owed(x) < h /\ (ghost.failed = 0 => Owed(x) = 0)
    <3> HIDE DEF x
    <3>0. 0 < h
      BY MediaConstants
    <3>1. CASE Restarts(q, k)
      <4>1. skip = 0
        BY <3>1 DEF Skipped
      <4>2. off \in rebaseSeq(q, k.seq)
        BY <3>1
      <4>3. /\ q.wroteAny => SeqDiff(n, q.lastSeq) = 1 /\ Owed(r) < h
            /\ \A y \in PumpState : y.expectSeq = r.expectSeq /\ y.seqOffset = off /\ y.lastSeq = n
                  => Owed(y) = 0
        <5> HIDE DEF q, k
        <5> QED BY <1>1, <2>1, <3>1, <4>2, OwedRestart
      <4> HIDE DEF n, q, k, h, skip
      <4>4. ds = 1
        BY <4>1, <4>3
      <4>5. x.lastSeq = (IF ~q.wroteAny \/ ds > 0 THEN n ELSE q.lastSeq) => Owed(x) = 0
        BY <2>3, <2>4, <4>3, <4>4
      <4> QED BY <3>0, <4>1, <4>3, <4>4, <4>5
    <3>2. CASE ~Restarts(q, k) /\ ~IsLate(q, k)
      <4>1. skip = SeqDiff(k.seq, q.expectSeq)
        BY <3>2 DEF Skipped
      <4>2. off = q.seqOffset
        BY <3>2
      <4>3. /\ Owed(q) \in Nat
            /\ q.wroteAny => SeqDiff(n, q.lastSeq) = 1 + Owed(q) + skip /\ Owed(r) < h
            /\ \A y \in PumpState : y.expectSeq = r.expectSeq /\ y.seqOffset = off /\ y.lastSeq = n
                  => Owed(y) = 0
        <5> HIDE DEF q, k
        <5>1. Follows(q, k, q.seqOffset, r)
          BY <2>1, <4>2
        <5> QED BY <1>1, <2>7, <3>2, <4>1, <4>2, <5>1, OwedGoesOn
      <4>4. ghost.failed = 0 => q.wroteAny /\ Owed(q) = 0
        BY <2>5, <2>6, <3>2
      <4> HIDE DEF n, q, k, h, skip
      <4>5. ds \in Int /\ ds > 0 /\ ds >= 1 + skip /\ (ghost.failed = 0 => ds = 1 + skip)
        BY <2>2, <4>3, <4>4
      <4>6. x.lastSeq = (IF ~q.wroteAny \/ ds > 0 THEN n ELSE q.lastSeq) => Owed(x) = 0
        BY <2>3, <2>4, <4>3, <4>5
      <4> QED BY <3>0, <4>3, <4>5, <4>6
    <3>3. CASE IsLate(q, k)
      <4>1. skip = 0 /\ kind = "late"
        BY <3>3 DEF Skipped
      <4>2. off = q.seqOffset /\ ~Restarts(q, k)
        BY <3>3 DEF IsLate
      <4>3. r.expectSeq = q.expectSeq
        BY <2>1, <3>3 DEF Follows
      <4>4. q.wroteAny => Owed(q) < h
        BY <2>5, <2>6, <4>2
      <4>5. /\ Owed(r) = Owed(q)
            /\ q.wroteAny => SeqDiff(n, q.lastSeq) \in Int
            /\ q.wroteAny /\ Owed(q) = 0 => ~(SeqDiff(n, q.lastSeq) > 0)
            /\ \A y \in PumpState : y.expectSeq = q.expectSeq /\ y.seqOffset = off /\ y.lastSeq = n
                  => Owed(y) < h
        <5> HIDE DEF q, k
        <5>1. Follows(q, k, q.seqOffset, r)
          BY <2>1, <4>2
        <5> QED BY <1>1, <3>3, <4>2, <4>4, <5>1, OwedLate
      <4>6. ghost.failed = 0 => q.wroteAny /\ Owed(q) = 0
        BY <2>5, <2>6, <4>2
      <4> HIDE DEF n, q, k, h, skip, kind
      <4>7. ds \in Int
        BY <2>2, <4>5
      <4>8. ASSUME x.lastSeq = IF ~q.wroteAny \/ ds > 0 THEN n ELSE q.lastSeq
            PROVE  Owed(x) < h /\ (ghost.failed = 0 => Owed(x) = 0)
        <5>1. CASE ~q.wroteAny \/ ds > 0
          <6>1. Owed(x) < h
            BY <2>3, <2>4, <4>3, <4>5, <4>8, <5>1
          <6>2. ghost.failed # 0
            BY <4>5, <4>6, <5>1
          <6> QED BY <6>1, <6>2
        <5>2. CASE ~(~q.wroteAny \/ ds > 0)
          <6>1. x.lastSeq = q.lastSeq
            BY <4>8, <5>2
          <6>2. Owed(x) = Owed(q)
            BY <2>3, <2>4, <4>2, <4>3, <6>1 DEF Owed
          <6> QED BY <4>4, <4>6, <5>2, <6>2
        <5> QED BY <5>1, <5>2
      <4> QED BY <4>1, <4>4, <4>5, <4>7, <4>8
    <3> QED BY <3>1, <3>2, <3>3
  <2>9. CASE WriteFails /\ pump' = [pump EXCEPT ![p] = r]
    <3>1. pump'[cur] = r
      BY <1>1, <1>6, <2>9
    <3>2. pump[cur] = q
      BY <1>6
    <3> HIDE DEF q, h
    <3>3. pump'[cur].wroteAny => Owed(pump'[cur]) < NumMod \div 2
      BY <2>3, <2>8, <3>1 DEF h
    <3> QED BY <1>1, <2>3, <2>9, <3>1, <3>2, <3>3, FailKept
  <2>10. CASE Emit(p, n, pos', kind, skip, q.gap) /\ pump' = [pump EXCEPT ![p] = x]
    <3>1. x = pump'[cur]
      BY <1>1, <1>6, <2>10
    <3>2. pump[cur] = q
      BY <1>6
    <3>3. kind \in {"new", "late"}
      OBVIOUS
    <3>4. Emit(cur, n, pos', kind, skip, q.gap)
      BY <1>6, <2>10
    <3> HIDE DEF q, k, x, n, kind, skip, h
    <3>5. ds = IF pump[cur].wroteAny THEN SeqDiff(n, pump[cur].lastSeq) ELSE 1 + skip
      BY <3>2
    <3>6. x.lastSeq = IF ~pump[cur].wroteAny \/ ds > 0 THEN n ELSE pump[cur].lastSeq
      BY <2>3, <2>4, <3>2
    <3>7. /\ ds \in Int /\ x.wroteAny
          /\ kind = "new" => ds >= 1 + skip /\ (ghost.failed = 0 => ds = 1 + skip)
          /\ x.haveSrc /\ ~x.localWrote =>
                Owed(x) < NumMod \div 2 /\ (ghost.failed = 0 => Owed(x) = 0)
      BY <2>4, <2>8, <3>2, <3>6 DEF h
    <3> HIDE DEF ds
    <3> QED BY <1>1, <1>6, <2>2, <3>1, <3>3, <3>4, <3>5, <3>6, <3>7, WriteKept
  <2> QED BY <1>3, <2>9, <2>10
<1> QED BY <1>4, <1>5, <1>6

-----------------------------------------------------------------------------
(* The other steps.                                                        *)

(* Nothing the leg is told of changes, in the pump that feeds it neither.  *)
LEMMA QuietKept ==
  ASSUME StreamInv, UNCHANGED <<cur, wire, sent, ghost>>,
         \/ pump' = pump
         \/ \E g : pump' = [pump EXCEPT ![cur].gap = g]
  PROVE  Wired' /\ Followed' /\ StreamCarriesOn'
<1>1. pump \in [Pumps -> PumpState] /\ cur \in Pumps
  BY DEF StreamInv, PumpTypes
<1>2. pump[cur] \in PumpState
  BY <1>1
<1>3. /\ pump'[cur].wroteAny = pump[cur].wroteAny /\ pump'[cur].lastSeq = pump[cur].lastSeq
      /\ pump'[cur].haveSrc = pump[cur].haveSrc /\ pump'[cur].localWrote = pump[cur].localWrote
      /\ pump'[cur].expectSeq = pump[cur].expectSeq /\ pump'[cur].seqOffset = pump[cur].seqOffset
  <2>1. CASE pump' = pump
    BY <2>1
  <2>2. ASSUME NEW g, pump' = [pump EXCEPT ![cur].gap = g] PROVE <1>3!:
    <3>1. pump'[cur] = [pump[cur] EXCEPT !.gap = g]
      BY <1>1, <2>2
    <3> QED BY <1>2, <3>1 DEF PumpState
  <2> QED BY <2>1, <2>2
<1>4. Wired'
  BY <1>3 DEF StreamInv, Wired
<1>5. Owed(pump'[cur]) = Owed(pump[cur])
  BY <1>3 DEF Owed
<1>6. Followed'
  <2>1. Owed(pump[cur])' = Owed(pump'[cur])
    BY DEF Owed
  <2> QED BY <1>3, <1>5, <2>1 DEF StreamInv, Followed
<1>7. StreamCarriesOn'
  BY DEF StreamInv, StreamCarriesOn
<1> QED BY <1>4, <1>6, <1>7

LEMMA ReadKept ==
  ASSUME StreamInv, NEW p \in Pumps, Read(p)
  PROVE  StreamInv'
<1>0. PumpTypes
  BY DEF StreamInv
<1>1. PICK a \in Arrivals :
        LET k == Following(src[p], a)
        IN  /\ src' = [src EXCEPT ![p] =
                          IF a.seq < 0 THEN [@ EXCEPT !.hole = FALSE]
                          ELSE [seq |-> k.seq, ts |-> k.ts, ssrc |-> k.ssrc, hole |-> a.seq = 2]]
            /\ relay' = [relay EXCEPT ![p] = [pc |-> "check", pkt |-> k]]
            /\ pump' = [pump EXCEPT ![p].gap = @ + a.gap]
  BY DEF Read
<1>2. p = cur /\ UNCHANGED <<cur, holder, pos, wire, sent, ghost, play>>
  BY DEF Read, callVars
<1>3. a.seq \in Int /\ a.ts \in Int /\ a.gap \in Int /\ a.ssrc \in Int
  BY MediaAssumption
<1> DEFINE k == Following(src[p], a)
           s == IF a.seq < 0 THEN [src[p] EXCEPT !.hole = FALSE]
                ELSE [seq |-> k.seq, ts |-> k.ts, ssrc |-> k.ssrc, hole |-> a.seq = 2]
           Src == [seq : Nums, ts : Int, ssrc : Int, hole : BOOLEAN]
<1>4. k \in Packet
  <2>1. src[p].seq \in Nums /\ src[p].ts \in Int /\ src[p].ssrc \in Int
    BY <1>0 DEF PumpTypes
  <2>2. src[p].seq + a.seq \in Int /\ src[p].ts + a.ts \in Int /\ src[p].ssrc + a.ssrc \in Int
    <3>1. src[p].seq \in Int
      BY <2>1, MediaConstants
    <3> QED BY <1>3, <2>1, <3>1
  <2>3. /\ (src[p].seq + a.seq) % NumMod \in Nums /\ (src[p].ts + a.ts) % TsMod \in Int
        /\ (src[p].ssrc + a.ssrc) % 2 \in Int
    <3>1. NumMod \in Nat \ {0} /\ TsMod \in Nat \ {0} /\ 2 \in Nat \ {0}
      BY MediaConstants
    <3> QED BY <2>2, <3>1, ModEqual DEF Nums
  <2> QED BY <2>3 DEF Following, Packet
<1>5. k.seq \in Nums /\ k.ts \in Int /\ k.ssrc \in Int
  BY <1>4 DEF Packet
<1>6. src[p] \in Src
  BY <1>0 DEF PumpTypes
<1>7. src' = [src EXCEPT ![p] = s]
  BY <1>1
<1> HIDE DEF k
<1>8. s \in Src
  BY <1>3, <1>5, <1>6
<1>9. src' \in [Pumps -> Src]
  <2> HIDE DEF s
  <2> QED BY <1>0, <1>7, <1>8 DEF PumpTypes
<1>10. relay' \in [Pumps -> [pc : {"off", "read", "check", "forward"}, pkt : Packet]]
  <2> DEFINE z == [pc |-> "check", pkt |-> k]
  <2>1. z \in [pc : {"off", "read", "check", "forward"}, pkt : Packet]
    BY <1>4
  <2>2. relay' = [relay EXCEPT ![p] = z]
    BY <1>1 DEF k
  <2> HIDE DEF z
  <2> QED BY <1>0, <2>1, <2>2 DEF PumpTypes
<1>11. pump' \in [Pumps -> PumpState]
  <2>1. pump \in [Pumps -> PumpState] /\ pump[p] \in PumpState /\ pump[p].gap \in Int
    BY <1>0 DEF PumpTypes, PumpState
  <2> DEFINE g == pump[p].gap + a.gap
             z == [pump[p] EXCEPT !.gap = g]
  <2>2. g \in Int
    BY <1>3, <2>1
  <2>3. pump' = [pump EXCEPT ![p] = z]
    BY <1>1, <2>1
  <2> HIDE DEF g
  <2>4. z \in PumpState
    BY <2>1, <2>2 DEF PumpState
  <2> HIDE DEF z
  <2> QED BY <2>1, <2>3, <2>4
<1>12. PumpTypes'
  BY <1>0, <1>2, <1>9, <1>10, <1>11 DEF PumpTypes
<1>13. \E g : pump' = [pump EXCEPT ![cur].gap = g]
  BY <1>1, <1>2
<1> QED BY <1>2, <1>12, <1>13, QuietKept DEF StreamInv

LEMMA RelayKept ==
  ASSUME StreamInv, NEW p \in Pumps, CheckLocal(p) \/ RunEnds(p)
  PROVE  StreamInv'
<1>0. PumpTypes
  BY DEF StreamInv
<1>1. UNCHANGED <<cur, holder, pump, pos, wire, sent, ghost, src, play>>
  BY DEF CheckLocal, RunEnds, callVars, writeVars
<1> DEFINE Relay == [pc : {"off", "read", "check", "forward"}, pkt : Packet]
<1>2. Nil \in Packet
  BY MediaConstants DEF Nil, Packet, Nums
<1>3. \E z \in Relay : relay' = [relay EXCEPT ![p] = z]
  <2>1. relay[p] \in Relay
    BY <1>0 DEF PumpTypes
  <2>2. CASE CheckLocal(p)
    <3> DEFINE z == IF local[p] THEN [pc |-> "read", pkt |-> Nil] ELSE [relay[p] EXCEPT !.pc = "forward"]
    <3>1. z \in Relay
      BY <1>2, <2>1
    <3>2. relay' = [relay EXCEPT ![p] = z]
      BY <2>2 DEF CheckLocal
    <3> HIDE DEF z
    <3> QED BY <3>1, <3>2
  <2>3. CASE RunEnds(p)
    <3> DEFINE z == [pc |-> "off", pkt |-> Nil]
    <3>1. z \in Relay
      BY <1>2
    <3>2. relay' = [relay EXCEPT ![p] = z]
      BY <2>3 DEF RunEnds
    <3> HIDE DEF z
    <3> QED BY <3>1, <3>2
  <2> QED BY <2>2, <2>3
<1>4. relay' \in [Pumps -> Relay]
  <2> HIDE DEF Relay
  <2>1. relay \in [Pumps -> Relay]
    BY <1>0 DEF PumpTypes, Relay
  <2> QED BY <1>3, <2>1
<1>5. PumpTypes'
  BY <1>0, <1>1, <1>4 DEF PumpTypes
<1> QED BY <1>1, <1>5, QuietKept DEF StreamInv

PlayerState ==
  {y \in [pc : {"idle", "new", "on", "off"}, pump : {0} \cup Pumps, done : BOOLEAN, spent : BOOLEAN] :
     y.pc \in {"new", "on"} => y.pump \in Pumps}

LEMMA PlayersAre ==
  /\ PumpTypes => play \in [Players -> PlayerState]
  /\ play' \in [Players -> PlayerState] =>
       /\ play' \in [Players -> [pc : {"idle", "new", "on", "off"}, pump : {0} \cup Pumps,
                                 done : BOOLEAN, spent : BOOLEAN]]
       /\ \A k \in Players : play'[k].pc \in {"new", "on"} => play'[k].pump \in Pumps
<1>1. ASSUME PumpTypes PROVE play \in [Players -> PlayerState]
  BY <1>1 DEF PumpTypes, PlayerState
<1>2. ASSUME play' \in [Players -> PlayerState]
      PROVE  /\ play' \in [Players -> [pc : {"idle", "new", "on", "off"}, pump : {0} \cup Pumps,
                                       done : BOOLEAN, spent : BOOLEAN]]
             /\ \A k \in Players : play'[k].pc \in {"new", "on"} => play'[k].pump \in Pumps
  BY <1>2 DEF PlayerState
<1> QED BY <1>1, <1>2

LEMMA CancelledTypes ==
  ASSUME PumpTypes
  PROVE  Cancelled(holder) \in [Players -> PlayerState]
<1>1. play \in [Players -> PlayerState] /\ holder \in {0} \cup Players
  BY PlayersAre DEF PumpTypes
<1>2. CASE holder = 0
  BY <1>1, <1>2 DEF Cancelled
<1>3. CASE holder # 0
  <2> DEFINE z == [play[holder] EXCEPT !.done = TRUE]
  <2>1. holder \in Players /\ play[holder] \in PlayerState
    BY <1>1, <1>3
  <2>2. z \in PlayerState
    BY <2>1 DEF PlayerState
  <2>3. Cancelled(holder) = [play EXCEPT ![holder] = z]
    BY <1>1, <1>3 DEF Cancelled
  <2> HIDE DEF z
  <2> QED BY <1>1, <2>1, <2>2, <2>3
<1> QED BY <1>2, <1>3

(* The players' own steps but the tick, and the call's but the swap.       *)
LEMMA PlayerKept ==
  ASSUME StreamInv,
         \/ \E k \in Players : playLocked(k) \/ PlayStart(k) \/ PlayEnd(k)
         \/ Release
  PROVE  StreamInv'
<1>0. PumpTypes /\ play \in [Players -> PlayerState] /\ Cancelled(holder) \in [Players -> PlayerState]
  BY PlayersAre, CancelledTypes DEF StreamInv
<1>1. UNCHANGED <<cur, pump, pos, wire, sent, ghost, src, relay>>
  BY DEF playLocked, PlayStart, PlayEnd, Release, callVars, writeVars
<1>2. play' \in [Players -> PlayerState] /\ holder' \in {0} \cup Players
  <2>1. ASSUME NEW k \in Players, playLocked(k)
        PROVE  play' \in [Players -> PlayerState] /\ holder' \in {0} \cup Players
    <3> DEFINE z == [pc |-> "new", pump |-> cur, done |-> FALSE, spent |-> FALSE]
    <3>1. z \in PlayerState
      BY <1>0 DEF PlayerState, PumpTypes
    <3>2. play' = [Cancelled(holder) EXCEPT ![k] = z] /\ holder' = k
      BY <2>1 DEF playLocked
    <3> HIDE DEF z
    <3> QED BY <1>0, <3>1, <3>2
  <2>2. ASSUME NEW k \in Players, PlayStart(k)
        PROVE  play' \in [Players -> PlayerState] /\ holder' \in {0} \cup Players
    <3> DEFINE z == [play[k] EXCEPT !.pc = "on"]
    <3>1. play[k] \in PlayerState /\ play[k].pc = "new"
      BY <1>0, <2>2 DEF PlayStart
    <3>2. z \in PlayerState
      BY <3>1 DEF PlayerState
    <3>3. play' = [play EXCEPT ![k] = z] /\ holder' = holder
      BY <1>0, <2>2 DEF PlayStart, callVars
    <3> HIDE DEF z
    <3> QED BY <1>0, <3>2, <3>3 DEF PumpTypes
  <2>3. ASSUME NEW k \in Players, PlayEnd(k)
        PROVE  play' \in [Players -> PlayerState] /\ holder' \in {0} \cup Players
    <3> DEFINE z == [play[k] EXCEPT !.pc = "off"]
    <3>1. play[k] \in PlayerState
      BY <1>0
    <3>2. z \in PlayerState
      BY <3>1 DEF PlayerState
    <3>3. play' = [play EXCEPT ![k] = z] /\ holder' = holder
      BY <1>0, <2>3 DEF PlayEnd, callVars
    <3> HIDE DEF z
    <3> QED BY <1>0, <3>2, <3>3 DEF PumpTypes
  <2>4. CASE Release
    BY <1>0, <2>4 DEF Release
  <2> QED BY <2>1, <2>2, <2>3, <2>4
<1>3. PumpTypes'
  BY <1>0, <1>1, <1>2, PlayersAre DEF PumpTypes
<1> QED BY <1>1, <1>3, QuietKept DEF StreamInv

LEMMA PumpStamped ==
  ASSUME NEW q \in PumpState, NEW n \in Nums, NEW w \in Int
  PROVE  /\ LET x == [q EXCEPT !.lastSeq = n, !.lastOut = w, !.wroteAny = TRUE]
            IN  x \in PumpState /\ x.wroteAny = TRUE /\ x.haveSrc = q.haveSrc /\ x.lastSeq = n
         /\ LET x == [q EXCEPT !.lastSeq = n, !.lastOut = w, !.wroteAny = TRUE, !.localWrote = TRUE]
            IN  x \in PumpState /\ x.wroteAny /\ x.localWrote /\ x.lastSeq = n
BY DEF PumpState

(* The tick of a player: a frame of our own, numbered after the highest.   *)
LEMMA TickKept ==
  ASSUME StreamInv, NEW k \in Players, PlayTick(k)
  PROVE  StreamInv'
<1> DEFINE p == play[k].pump
           q == pump[p]
           want == IF q.wroteAny THEN (q.lastOut + 1) % TsMod ELSE InitTimestamp
           at == IF q.wroteAny THEN q.lastOut ELSE InitTimestamp
           x(n) == [q EXCEPT !.lastSeq = n, !.lastOut = want, !.wroteAny = TRUE, !.localWrote = TRUE]
<1>0. PumpTypes /\ play \in [Players -> PlayerState]
  BY PlayersAre DEF StreamInv
<1>1. /\ play[k].pc = "on" /\ play' = [play EXCEPT ![k].spent = play[k].done]
      /\ pos' = (pos + want - at) % TsMod
      /\ UNCHANGED <<cur, holder, relay, src>>
      /\ \E n \in (IF q.wroteAny THEN {(q.lastSeq + 1) % NumMod} ELSE Starts) :
           \/ Emit(p, n, pos', "new", 0, q.gap) /\ pump' = [pump EXCEPT ![p] = x(n)]
           \/ WriteFails /\ UNCHANGED pump
  BY DEF PlayTick, callVars
<1>2. p \in Pumps /\ cur \in Pumps /\ pump \in [Pumps -> PumpState]
  BY <1>0, <1>1 DEF PumpTypes
<1>3. q \in PumpState /\ q.lastSeq \in Nums /\ q.lastOut \in Int /\ q.gap \in Int
  BY <1>2 DEF PumpState
<1>4. \A y \in Int : y % TsMod \in Int
  BY ModEqual, MediaConstants
<1>5. want \in Int /\ at \in Int
  BY <1>3, <1>4 DEF InitTimestamp
<1>6. play' \in [Players -> PlayerState]
  <2> DEFINE z == [play[k] EXCEPT !.spent = play[k].done]
  <2>1. z \in PlayerState
    BY <1>0 DEF PlayerState
  <2>2. play' = [play EXCEPT ![k] = z]
    BY <1>0, <1>1
  <2> HIDE DEF z
  <2> QED BY <1>0, <2>1, <2>2
<1>7. PICK n \in (IF q.wroteAny THEN {(q.lastSeq + 1) % NumMod} ELSE Starts) :
           \/ Emit(p, n, pos', "new", 0, q.gap) /\ pump' = [pump EXCEPT ![p] = x(n)]
           \/ WriteFails /\ UNCHANGED pump
  BY <1>1
<1> HIDE DEF want, at
<1>8. pos' \in Int
  <2>1. pos + want - at \in Int
    BY <1>0, <1>5 DEF PumpTypes
  <2> QED BY <1>1, <1>4, <2>1
<1> DEFINE ds == IF q.wroteAny THEN SeqDiff(n, q.lastSeq) ELSE 1 + 0
           y == x(n)
<1>9. n \in Nums /\ ds = 1
  <2>1. CASE q.wroteAny
    <3>1. -(NumMod \div 2) <= 1 /\ 1 < NumMod \div 2 /\ 1 \in Int
      BY MediaConstants
    <3>2. (q.lastSeq + 1) % NumMod \in Nums /\ SeqDiff((q.lastSeq + 1) % NumMod, q.lastSeq) = 1
      BY <1>3, <3>1, SeqDiffIs
    <3> QED BY <1>7, <2>1, <3>2
  <2>2. CASE ~q.wroteAny
    BY <1>7, <2>2, MediaConstants
  <2> QED BY <2>1, <2>2
<1>10. /\ y \in PumpState /\ y.wroteAny /\ y.localWrote /\ y.lastSeq = n
  <2> HIDE DEF q
  <2> QED BY <1>3, <1>5, <1>9, PumpStamped
<1>11. CASE WriteFails /\ UNCHANGED pump
  <2>1. ghost.crossed = 0 /\ pump[cur].haveSrc /\ ~pump[cur].localWrote /\ pump[cur].wroteAny
          => Owed(pump[cur]) < NumMod \div 2
    BY DEF StreamInv, Followed
  <2>2. Wired' /\ Followed' /\ StreamCarriesOn'
    BY <1>1, <1>11, <2>1, FailKept
  <2>3. /\ ghost' \in [crossed : Nat, failed : Nat, stuck : Nat]
        /\ wire' = wire /\ sent' = sent
    BY <1>0, <1>11, FailedWrite
  <2>4. PumpTypes'
    BY <1>0, <1>1, <1>6, <1>8, <1>11, <2>3, PlayersAre DEF PumpTypes
  <2> QED BY <2>2, <2>4 DEF StreamInv
<1>12. CASE Emit(p, n, pos', "new", 0, q.gap) /\ pump' = [pump EXCEPT ![p] = y]
  <2> HIDE DEF y, ds
  <2>1. /\ wire' \in [any : BOOLEAN, top : Nums, topTs : Int]
        /\ sent' \in [kind : {"none", "new", "late"}, seq : Int, ts : Int, skip : Int, gap : Int]
        /\ ghost' \in [crossed : Nat, failed : Nat, stuck : Nat]
    <3> HIDE DEF p, q
    <3> QED BY <1>0, <1>2, <1>3, <1>8, <1>9, <1>12, EmitTypes
  <2>2. pump' \in [Pumps -> PumpState]
    BY <1>2, <1>10, <1>12
  <2>3. PumpTypes'
    BY <1>0, <1>1, <1>6, <1>8, <2>1, <2>2, PlayersAre DEF PumpTypes
  <2>4. CASE p # cur \/ ghost.crossed # 0
    <3>1. ghost'.crossed # 0
      <4> HIDE DEF p, q
      <4> QED BY <1>0, <1>2, <1>12, <2>4, EmitCrossed
    <3> QED BY <2>3, <3>1, CrossedKept DEF StreamInv
  <2>5. CASE p = cur /\ ghost.crossed = 0
    <3>1. y = pump'[cur] /\ q = pump[cur] /\ Emit(cur, n, pos', "new", 0, q.gap) /\ cur' = cur
      BY <1>1, <1>2, <1>12, <2>5
    <3> HIDE DEF p, q
    <3>2. /\ ds = IF pump[cur].wroteAny THEN SeqDiff(n, pump[cur].lastSeq) ELSE 1 + 0
          /\ ds \in Int /\ ds >= 1 + 0 /\ ds = 1 + 0 /\ ds > 0 /\ 0 \in Nat
      BY <1>9, <3>1 DEF ds
    <3>3. y.lastSeq = IF ~pump[cur].wroteAny \/ ds > 0 THEN n ELSE pump[cur].lastSeq
      BY <1>10, <3>2
    <3>4. y.haveSrc /\ ~y.localWrote =>
            Owed(y) < NumMod \div 2 /\ (ghost.failed = 0 => Owed(y) = 0)
      BY <1>10
    <3>5. Wired' /\ Followed' /\ StreamCarriesOn'
      BY <1>3, <1>8, <1>9, <1>10, <2>5, <3>1, <3>2, <3>3, <3>4, WriteKept
    <3> QED BY <2>3, <3>5 DEF StreamInv
  <2> QED BY <2>4, <2>5
<1> QED BY <1>7, <1>11, <1>12

(* The swap: the new pump starts from the highest number of the old one.   *)
LEMMA SwapKept ==
  ASSUME StreamInv, startLocked
  PROVE  StreamInv'
<1>0. PumpTypes /\ Cancelled(holder) \in [Players -> PlayerState]
  BY CancelledTypes DEF StreamInv
<1> DEFINE y == inheritTimeline(NewPump, pump[1])
           q == pump[1]
<1>1. /\ cur = 1 /\ cur' = 2 /\ play' = Cancelled(holder) /\ holder' = 0
      /\ pump' = [pump EXCEPT ![2] = y]
      /\ relay' = [relay EXCEPT ![2].pc = "read"]
      /\ UNCHANGED <<pos, wire, sent, ghost, src>>
  BY DEF startLocked
<1>2. /\ 1 \in Pumps /\ 2 \in Pumps /\ q \in PumpState /\ pump \in [Pumps -> PumpState]
      /\ relay \in [Pumps -> [pc : {"off", "read", "check", "forward"}, pkt : Packet]]
  BY <1>0 DEF PumpTypes, Pumps
<1>3. NewPump \in PumpState
  BY MediaConstants DEF NewPump, PumpState, Nums
<1>4. /\ y \in PumpState /\ y.haveSrc = FALSE
      /\ y.wroteAny = q.wroteAny
      /\ q.wroteAny => y.lastSeq = q.lastSeq
  <2> HIDE DEF q
  <2>1. CASE q.wroteAny
    <3>1. y = [NewPump EXCEPT !.lastSeq = q.lastSeq, !.lastOut = q.lastOut, !.wroteAny = TRUE]
      BY <2>1 DEF inheritTimeline, q
    <3>2. q.lastSeq \in Nums /\ q.lastOut \in Int
      BY <1>2 DEF PumpState
    <3>3. y \in PumpState /\ y.wroteAny = TRUE /\ y.haveSrc = NewPump.haveSrc /\ y.lastSeq = q.lastSeq
      <4> DEFINE l == q.lastSeq
                 o == q.lastOut
                 z == [NewPump EXCEPT !.lastSeq = l, !.lastOut = o, !.wroteAny = TRUE]
      <4> HIDE DEF l, o, y
      <4>1. z \in PumpState /\ z.wroteAny = TRUE /\ z.haveSrc = NewPump.haveSrc /\ z.lastSeq = l
        <5>1. l \in Nums /\ o \in Int
          BY <3>2 DEF l, o
        <5>2. \A b \in PumpState :
                LET x == [b EXCEPT !.lastSeq = l, !.lastOut = o, !.wroteAny = TRUE]
                IN  x \in PumpState /\ x.wroteAny = TRUE /\ x.haveSrc = b.haveSrc /\ x.lastSeq = l
          BY <5>1 DEF PumpState
        <5> QED BY <1>3, <5>2
      <4>2. y = z
        BY <3>1 DEF l, o
      <4> HIDE DEF z
      <4> QED BY <4>1, <4>2 DEF l
    <3>4. NewPump.haveSrc = FALSE
      BY DEF NewPump
    <3>5. q.wroteAny = TRUE
      BY <1>2, <2>1 DEF PumpState
    <3> HIDE DEF y
    <3> QED BY <3>3, <3>4, <3>5
  <2>2. CASE ~q.wroteAny
    <3>1. y = NewPump
      BY <2>2 DEF inheritTimeline, q
    <3>2. q.wroteAny = FALSE
      BY <1>2, <2>2 DEF PumpState
    <3> HIDE DEF y
    <3>3. y.haveSrc = FALSE /\ y.wroteAny = FALSE
      BY <3>1 DEF NewPump
    <3> QED BY <1>3, <2>2, <3>1, <3>2, <3>3
  <2> QED BY <2>1, <2>2
<1>5. pump' \in [Pumps -> PumpState] /\ pump'[2] = y
  <2> HIDE DEF y
  <2> QED BY <1>1, <1>2, <1>4
<1>6. relay' \in [Pumps -> [pc : {"off", "read", "check", "forward"}, pkt : Packet]]
  <2> DEFINE z == [relay[2] EXCEPT !.pc = "read"]
  <2>1. z \in [pc : {"off", "read", "check", "forward"}, pkt : Packet]
    BY <1>2
  <2>2. relay' = [relay EXCEPT ![2] = z]
    BY <1>1, <1>2
  <2> HIDE DEF z
  <2> QED BY <1>2, <2>1, <2>2
<1>7. PumpTypes'
  BY <1>0, <1>1, <1>2, <1>5, <1>6, PlayersAre DEF PumpTypes
<1>8. pump'[cur'] = y /\ pump[cur] = q
  BY <1>1, <1>5
<1> HIDE DEF y, q
<1>9. Wired'
  BY <1>1, <1>4, <1>8 DEF StreamInv, Wired
<1>10. Followed'
  BY <1>4, <1>8 DEF Followed
<1>11. StreamCarriesOn'
  BY <1>1 DEF StreamInv, StreamCarriesOn
<1> QED BY <1>7, <1>9, <1>10, <1>11 DEF StreamInv

(* Every behaviour whose sources lose or skip less than half the numbers   *)
(* at once sends the leg one stream: a new packet is numbered after the    *)
(* highest sent, plus what its source lost, whatever pump relays it.       *)
THEOREM StreamHasCarriedOn == PumpSpec /\ []NumbersNear => []StreamCarriesOn
<1>1. PumpInit => StreamInv
  <2> SUFFICES ASSUME PumpInit PROVE StreamInv
    OBVIOUS
  <2>1. NewPump \in PumpState /\ Nil \in Packet /\ 0 \in Nums /\ NumMod - 2 \in Nums /\ TsMod - 2 \in Int
    BY MediaConstants DEF NewPump, PumpState, Nil, Packet, Nums
  <2>2. pump \in [Pumps -> PumpState]
    BY <2>1 DEF PumpInit
  <2>3. relay \in [Pumps -> [pc : {"off", "read", "check", "forward"}, pkt : Packet]]
    BY <2>1 DEF PumpInit
  <2>4. src \in [Pumps -> [seq : Nums, ts : Int, ssrc : Int, hole : BOOLEAN]]
    BY <2>1 DEF PumpInit
  <2>5. PumpTypes
    BY <2>1, <2>2, <2>3, <2>4 DEF PumpInit, PumpTypes, Pumps, InitTimestamp
  <2>6. pump[cur] = NewPump
    BY DEF PumpInit, Pumps
  <2>7. ~NewPump.wroteAny /\ ~NewPump.haveSrc
    BY DEF NewPump
  <2>8. Wired
    BY <2>6, <2>7 DEF PumpInit, Wired
  <2>9. Followed
    BY <2>6, <2>7 DEF Followed
  <2>10. StreamCarriesOn
    BY DEF PumpInit, StreamCarriesOn
  <2> QED BY <2>5, <2>8, <2>9, <2>10 DEF StreamInv
<1>2. StreamInv /\ NumbersNear /\ [PumpNext]_pumpVars => StreamInv'
  <2> SUFFICES ASSUME StreamInv, NumbersNear, [PumpNext]_pumpVars PROVE StreamInv'
    OBVIOUS
  <2>1. ASSUME NEW p \in Pumps, Read(p) PROVE StreamInv'
    BY <2>1, ReadKept
  <2>2. ASSUME NEW p \in Pumps, CheckLocal(p) \/ RunEnds(p) PROVE StreamInv'
    BY <2>2, RelayKept
  <2>3. ASSUME NEW p \in Pumps, forward(p) PROVE StreamInv'
    BY <2>3, ForwardTypes, ForwardKept DEF StreamInv
  <2>4. ASSUME NEW k \in Players, PlayTick(k) PROVE StreamInv'
    BY <2>4, TickKept
  <2>5. ASSUME \/ \E k \in Players : playLocked(k) \/ PlayStart(k) \/ PlayEnd(k)
               \/ Release
        PROVE  StreamInv'
    BY <2>5, PlayerKept
  <2>6. CASE startLocked
    BY <2>6, SwapKept
  <2>7. CASE UNCHANGED pumpVars
    <3>1. UNCHANGED <<cur, holder, pump, pos, wire, sent, ghost, relay, src, play>>
      BY <2>7 DEF pumpVars, callVars, writeVars
    <3>2. PumpTypes'
      BY <3>1 DEF StreamInv, PumpTypes
    <3> QED BY <3>1, <3>2, QuietKept DEF StreamInv
  <2> QED BY <2>1, <2>2, <2>3, <2>4, <2>5, <2>6, <2>7 DEF PumpNext
<1>3. StreamInv => StreamCarriesOn
  BY DEF StreamInv
<1> QED BY <1>1, <1>2, <1>3, PTL DEF PumpSpec
=============================================================================
