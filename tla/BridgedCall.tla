---------------------------- MODULE BridgedCall ----------------------------
(***************************************************************************)
(* A bridged call (server/internal/b2bua/transfer.go): its two legs, the   *)
(* goroutine that waits for one of them to end, the transfers that replace *)
(* a leg underneath it, the hold music, and the qualifier that ends a call *)
(* whose party has vanished.                                               *)
(*                                                                         *)
(* Legs 1 and 2 are the caller and the callee; transfer t dials leg 2 + t. *)
(* A REFER runs transfer() in a goroutine of its own.  A step ends where   *)
(* the code releases the call's mutex, sends or awaits a message, or       *)
(* blocks.  Durations are abstract, but for one fact: a party has to be    *)
(* silent for PeerTimeout (60 s), which is longer than a transfer lasts    *)
(* (RingTimeout, 30 s), so a party that has just asked for a transfer is   *)
(* not found gone before the transfer is over.                             *)
(*                                                                         *)
(* External (sipgo): a dialog ends on a BYE, or when our BYE is answered;  *)
(* a BYE to a party that has vanished changes nothing.                     *)
(***************************************************************************)
EXTENDS Naturals, FiniteSets

CONSTANTS
  MaxTransfers,  \* bound: REFERs in the life of the call
  Targets,       \* where a Refer-To may route: "unknown", "echo", "trunk", "local"
  TrunkLegs,     \* which of the legs 1 and 2 are on the PBX trunk
  Holders,       \* bound: the legs whose party may press hold
  Overlap        \* whether a REFER may arrive while a transfer is in progress

ASSUME BridgedAssumption ==
  /\ MaxTransfers \in Nat
  /\ Targets \subseteq {"unknown", "echo", "trunk", "local"}
  /\ TrunkLegs \subseteq {1, 2}
  /\ Holders \subseteq Nat
  /\ Overlap \in BOOLEAN

Transfers == 1..MaxTransfers
Legs == 1..(2 + MaxTransfers)
NewLeg(t) == 2 + t

VARIABLES
  a, b,       \* bridgedCall.a and b; b is 0 on echo
  up,         \* legs whose dialog has not ended
  left,       \* some party has hung up
  silent,     \* legs whose party has vanished
  held,       \* legs negotiated into hold by their party
  heldBy,     \* bridgedCall.heldBy, 0 for nil
  player,     \* the leg the hold player writes to, 0 when holdStop is nil
  swapped,    \* the token in bridgedCall.swapped
  gone,       \* bridgedCall.gone is closed
  offload,    \* bridgedCall.offload: the transfer that made it, 0 for nil
  closed,     \* transfers whose offload channel is closed
  offloaded,  \* bridgedCall.offloaded
  handing,    \* bridgedCall.handing: the transfer that made it, 0 for nil
  releasing,  \* referrers whose release runs in a goroutine of its own
  wakes,      \* external: transfers whose wake the gateway remembers
  woken,      \* bridgedCall.woken
  w,          \* wait(): where it is, the legs it watches, why it woke
  tr,         \* the transfers
  unwatched,  \* transfers in progress that wait() does not know of
  panicked    \* a closed channel was closed again: the server is gone

partyVars == <<left, silent>>
legVars == <<a, b, up, partyVars>>
holdVars == <<held, heldBy, player>>
offVars == <<offload, closed, offloaded, panicked>>
loopVars == <<swapped, gone, handing, unwatched>>
wakeVars == <<wakes, woken>>
vars == <<legVars, holdVars, offVars, loopVars, wakeVars, releasing, w, tr>>

InFlight(t) == tr[t].pc \notin {"idle", "done"}

(* Between making bridgedCall.handing and closing it.                      *)
Handing(t) ==
  tr[t].pc \in {"destination", "waking", "inviting", "answered", "echo", "bridged",
                "busy", "failed", "handed"}

Trunk(l) == IF l <= 2 THEN l \in TrunkLegs ELSE tr[l - 2].target = "trunk"

Other(l) == IF l = b THEN a ELSE b

(* Hang up the legs ls: a party that has vanished does not answer.         *)
HungUp(ls) == up' = up \ (ls \ silent)

-----------------------------------------------------------------------------
(* Hold music (the caller holds the mutex).                                *)

stopHoldLocked == player' = 0 /\ heldBy' = 0

(* playLocked(from): stop what plays, then play to the party opposite, if  *)
(* there is one; by is who is then held responsible.                       *)
playLocked(from, by) ==
  /\ player' = Other(from)
  /\ heldBy' = IF Other(from) = 0 THEN 0 ELSE by

setHeld(l, on) ==
  CASE on /\ heldBy # l -> playLocked(l, l)
    [] ~on /\ heldBy = l -> stopHoldLocked
    [] OTHER -> UNCHANGED <<heldBy, player>>

(* A re-INVITE into or out of hold.  Only the legs of the original call    *)
(* were given the hook that reports it.                                    *)
Hold(l) ==
  /\ l \in Holders
  /\ l \in up \ silent
  /\ held' = IF l \in held THEN held \ {l} ELSE held \cup {l}
  /\ IF l <= 2 THEN setHeld(l, l \notin held) ELSE UNCHANGED <<heldBy, player>>
  /\ UNCHANGED <<legVars, offVars, loopVars, wakeVars, releasing, w, tr>>

-----------------------------------------------------------------------------
(* The parties.                                                            *)

Bye(l) ==
  /\ l \in up \ silent
  /\ up' = up \ {l}
  /\ left' = TRUE
  /\ UNCHANGED <<a, b, silent, holdVars, offVars, loopVars, wakeVars, releasing, w, tr>>

(* Bound: one party of the call vanishes.                                  *)
Vanish(l) ==
  /\ silent = {}
  /\ l \in up
  /\ silent' = silent \cup {l}
  /\ UNCHANGED <<a, b, up, left, holdVars, offVars, loopVars, wakeVars, releasing, w, tr>>

(* Mutant of qualifyLegs: only the caller is asked.                        *)
qualifyLegs_Caller(l) ==
  /\ w.pc # "ended"
  /\ ~gone
  /\ l = a /\ l \in silent
  /\ \A t \in Transfers : InFlight(t) => l # tr[t].from
  /\ gone' = TRUE
  /\ UNCHANGED <<legVars, holdVars, offVars, swapped, handing, unwatched, wakeVars,
                 releasing, w, tr>>

(* qualifyLegs: a party of the call answers none of the OPTIONS of a whole *)
(* PeerTimeout.  It runs until wait returns.                               *)
qualifyLegs(l) ==
  /\ w.pc # "ended"
  /\ ~gone
  /\ l \in {a, b} \cap silent
  /\ \A t \in Transfers : InFlight(t) => l # tr[t].from
  /\ gone' = TRUE
  /\ UNCHANGED <<legVars, holdVars, offVars, swapped, handing, unwatched, wakeVars,
                 releasing, w, tr>>

-----------------------------------------------------------------------------
(* wait().                                                                 *)

Watch ==
  /\ w.pc = "watch"
  /\ w' = [w EXCEPT !.pc = "select", !.a = a, !.b = b]
  /\ UNCHANGED <<legVars, holdVars, offVars, loopVars, wakeVars, releasing, tr>>

Select(why) ==
  /\ w.pc = "select"
  /\ \/ why = "a" /\ w.a \notin up
     \/ why = "b" /\ w.b # 0 /\ w.b \notin up
     \/ why = "gone" /\ gone
  /\ w' = [w EXCEPT !.pc = "offload", !.why = why]
  /\ UNCHANGED <<legVars, holdVars, offVars, loopVars, wakeVars, releasing, tr>>

Swapped ==
  /\ w.pc = "select"
  /\ swapped
  /\ swapped' = FALSE
  /\ w' = [w EXCEPT !.pc = "watch"]
  /\ UNCHANGED <<legVars, holdVars, offVars, gone, handing, unwatched, wakeVars, releasing, tr>>

(* awaitOffload: nothing to wait for, or wait until the channel is closed. *)
awaitOffload ==
  /\ \/ /\ w.pc = "offload"
        /\ w' = IF offload = 0 THEN [w EXCEPT !.pc = "handover"]
                ELSE [w EXCEPT !.pc = "offloadWait", !.ch = offload]
     \/ /\ w.pc = "offloadWait"
        /\ w.ch \in closed
        /\ w' = [w EXCEPT !.pc = IF offloaded THEN "end" ELSE "handover", !.ch = 0]
  /\ UNCHANGED <<legVars, holdVars, offVars, loopVars, wakeVars, releasing, tr>>

(* Mutant of awaitHandover: the transfer is not waited for.                *)
awaitHandover_Never ==
  /\ w.pc = "handover"
  /\ w' = [w EXCEPT !.pc = "hang"]
  /\ UNCHANGED <<legVars, holdVars, offVars, loopVars, wakeVars, releasing, tr>>

(* awaitHandover: nothing to wait for, or wait until the channel is closed *)
(* and forget it: the one of that moment, whichever transfer made it.      *)
awaitHandover ==
  /\ \/ /\ w.pc = "handover"
        /\ w' = IF handing = 0 THEN [w EXCEPT !.pc = "hang"]
                ELSE [w EXCEPT !.pc = "handoverWait", !.ch = handing]
        /\ UNCHANGED <<handing, unwatched>>
     \/ /\ w.pc = "handoverWait"
        /\ tr[w.ch].pc \in {"restore", "done"}
        /\ w' = [w EXCEPT !.pc = "watch", !.ch = 0]
        /\ handing' = 0
        /\ unwatched' = unwatched \cup {t \in Transfers : t = handing /\ Handing(t)}
  /\ UNCHANGED <<legVars, holdVars, offVars, swapped, gone, wakeVars, releasing, tr>>

(* The other leg of the two it watched is hung up, both when one is gone.  *)
HangUp ==
  /\ w.pc = "hang"
  /\ HungUp(CASE w.why = "a" -> {w.b} [] w.why = "b" -> {w.a} [] OTHER -> {w.a, w.b})
  /\ w' = [w EXCEPT !.pc = "end"]
  /\ UNCHANGED <<a, b, partyVars, holdVars, offVars, loopVars, wakeVars, releasing, tr>>

(* Mutant of EndCall: the wakes of a transfer are not forgotten.           *)
EndCall_KeepsWakes ==
  /\ w.pc = "end"
  /\ w' = [w EXCEPT !.pc = "ended"]
  /\ UNCHANGED <<legVars, holdVars, offVars, loopVars, wakeVars, releasing, tr>>

(* The end: the pumps are cancelled (the player is not) and the wakes of   *)
(* the devices a transfer woke are forgotten.                              *)
EndCall ==
  /\ w.pc = "end"
  /\ w' = [w EXCEPT !.pc = "ended"]
  /\ wakes' = wakes \ woken
  /\ UNCHANGED <<legVars, holdVars, offVars, loopVars, woken, releasing, tr>>

-----------------------------------------------------------------------------
(* transfer().                                                             *)

goto(t, pc) == tr' = [tr EXCEPT ![t].pc = pc]

shouldOffload(other, target) == Trunk(other) /\ target = "trunk"

(* The REFER of the party on leg f, read up to the routing decision.       *)
Refer(t, f, target) ==
  /\ tr[t].pc = "idle"
  /\ \A u \in 1..(t - 1) : tr[u].pc # "idle"
  /\ Overlap \/ (releasing = {} /\ \A u \in Transfers : ~InFlight(u))
  /\ f \in up \ silent
  /\ tr' = [tr EXCEPT ![t] =
       [@ EXCEPT !.from = f, !.other = Other(f), !.target = target,
                 !.pc = CASE Other(f) = 0 -> "done"
                          [] Other(f) # 0 /\ shouldOffload(Other(f), target) -> "refer"
                          [] OTHER -> "dial"]]
  /\ UNCHANGED <<legVars, holdVars, offVars, loopVars, wakeVars, releasing, w>>

(* offloadToPBX: our own REFER is accepted (beginOffload), or is refused   *)
(* or fails.                                                               *)
OffloadRefer(t) ==
  /\ tr[t].pc = "refer"
  /\ \/ tr[t].other \in up \ silent /\ offload' = t /\ goto(t, "offloading")
     \/ UNCHANGED offload /\ goto(t, "dial")
  /\ UNCHANGED <<legVars, holdVars, closed, offloaded, panicked, loopVars, wakeVars,
                 releasing, w>>

(* The PBX reports success, or has already ended its leg.                  *)
OffloadDone(t) ==
  /\ tr[t].pc = "offloading"
  /\ tr[t].other \notin silent
  /\ goto(t, "finishing")
  /\ UNCHANGED <<legVars, holdVars, offVars, loopVars, wakeVars, releasing, w>>

(* endOffload closes the channel of that moment, whichever attempt made    *)
(* it; closing it twice is a panic.                                        *)
endOffload(succeeded) ==
  /\ offloaded' = succeeded
  /\ closed' = closed \cup {offload}
  /\ panicked' = (offload \in closed)
  /\ UNCHANGED offload

(* It reports a failure, or nothing: endOffload(false), and dial.          *)
OffloadFailed(t) ==
  /\ tr[t].pc = "offloading"
  /\ endOffload(FALSE)
  /\ goto(t, "dial")
  /\ UNCHANGED <<legVars, holdVars, loopVars, wakeVars, releasing, w>>

(* finishOffload: the referrer is released, then the remaining leg, and    *)
(* only then is wait let go.                                               *)
finishOffload(t) ==
  /\ \/ /\ tr[t].pc = "finishing"
        /\ HungUp({tr[t].from})
        /\ goto(t, "remaining")
        /\ UNCHANGED offVars
     \/ /\ tr[t].pc = "remaining"
        /\ HungUp({tr[t].other})
        /\ endOffload(TRUE)
        /\ goto(t, "done")
  /\ UNCHANGED <<a, b, partyVars, holdVars, loopVars, wakeVars, releasing, w>>

(* Music for the party that waits, and handing for wait().                 *)
Dial(t) ==
  /\ tr[t].pc = "dial"
  /\ playLocked(tr[t].from, 0)
  /\ handing' = t
  /\ tr' = [tr EXCEPT ![t].orig = <<a, b>>,
                      ![t].pc = CASE tr[t].target = "unknown" -> "failed"
                                  [] tr[t].target = "echo" -> "echo"
                                  [] tr[t].target = "trunk" -> "inviting"
                                  [] OTHER -> "destination"]
  /\ unwatched' = IF w.pc \in {"hang", "end", "ended"} THEN unwatched \cup {t} ELSE unwatched
  /\ UNCHANGED <<legVars, held, offVars, swapped, gone, wakeVars, releasing, w>>

(* transferDestination: a registered user is dialled, another is woken.    *)
transferDestination(t) ==
  /\ tr[t].pc = "destination"
  /\ \/ goto(t, "inviting") /\ UNCHANGED wakes
     \/ goto(t, "waking") /\ wakes' = wakes \cup {t}
  /\ UNCHANGED <<legVars, holdVars, offVars, loopVars, woken, releasing, w>>

(* The wake brings a registration, and is remembered for the end; or it    *)
(* does not, and is settled or cancelled there and then.                   *)
Woken(t) ==
  /\ tr[t].pc = "waking"
  /\ \/ goto(t, "inviting") /\ woken' = woken \cup {t} /\ UNCHANGED wakes
     \/ goto(t, "failed") /\ wakes' = wakes \ {t} /\ UNCHANGED woken
  /\ UNCHANGED <<legVars, holdVars, offVars, loopVars, releasing, w>>

(* The first 18x hands the call over: ring-back for the party that waits,  *)
(* and the referrer is released beside the dialling.                       *)
TargetRings(t) ==
  /\ tr[t].pc = "inviting"
  /\ ~tr[t].released
  /\ tr' = [tr EXCEPT ![t].released = TRUE]
  /\ playLocked(tr[t].from, 0)
  /\ releasing' = releasing \cup {tr[t].from}
  /\ UNCHANGED <<legVars, held, offVars, loopVars, wakeVars, w>>

(* Mutant of InviteFails: a refusal is treated as a failure after ringing. *)
InviteFails_Busy(t) ==
  /\ tr[t].pc = "inviting"
  /\ goto(t, "busy")
  /\ playLocked(tr[t].from, 0)
  /\ UNCHANGED <<legVars, held, offVars, loopVars, wakeVars, releasing, w>>

(* A refusal, the ring timeout, the remaining party's end, or no line to   *)
(* dial from: before the target rang the call stays where it is, after it  *)
(* the busy tone is heard.                                                 *)
InviteFails(t) ==
  /\ tr[t].pc = "inviting"
  /\ IF tr[t].released
       THEN goto(t, "busy") /\ playLocked(tr[t].from, 0)
       ELSE goto(t, "failed") /\ UNCHANGED <<heldBy, player>>
  /\ UNCHANGED <<legVars, held, offVars, loopVars, wakeVars, releasing, w>>

(* After the busy tone the remaining party is let go.                      *)
BusyEnds(t) ==
  /\ tr[t].pc = "busy"
  /\ stopHoldLocked
  /\ HungUp({tr[t].other})
  /\ goto(t, "handed")
  /\ UNCHANGED <<a, b, partyVars, held, offVars, loopVars, wakeVars, releasing, w>>

TargetAnswers(t) ==
  /\ tr[t].pc = "inviting"
  /\ up' = up \cup {NewLeg(t)}
  /\ goto(t, "answered")
  /\ UNCHANGED <<a, b, partyVars, holdVars, offVars, loopVars, wakeVars, releasing, w>>

(* The ACK fails (which ends the dialog), or the remaining party will not  *)
(* move to the target's codec and the target is hung up.                   *)
NotBridged(t) ==
  /\ tr[t].pc = "answered"
  /\ HungUp({NewLeg(t)})
  /\ goto(t, "failed")
  /\ UNCHANGED <<a, b, partyVars, holdVars, offVars, loopVars, wakeVars, releasing, w>>

(* The legs are swapped, the pumps restarted (and the music with them) and *)
(* wait told; then a referrer that was not released yet is.                *)
Swap(t) ==
  /\ tr[t].pc \in {"answered", "echo"}
  /\ a' = IF tr[t].from = a THEN tr[t].other ELSE a
  /\ b' = IF tr[t].pc = "echo" THEN 0 ELSE NewLeg(t)
  /\ stopHoldLocked
  /\ swapped' = TRUE
  /\ goto(t, IF tr[t].released THEN "handed" ELSE "bridged")
  /\ UNCHANGED <<up, partyVars, held, offVars, gone, handing, unwatched, wakeVars, releasing, w>>

(* releaseReferrer: the final NOTIFY, then its BYE or ours.                *)
ReleaseBridged(t) ==
  /\ tr[t].pc = "bridged"
  /\ HungUp({tr[t].from})
  /\ goto(t, "handed")
  /\ UNCHANGED <<a, b, partyVars, holdVars, offVars, loopVars, wakeVars, releasing, w>>

releaseReferrer(l) ==
  /\ l \in releasing
  /\ releasing' = releasing \ {l}
  /\ HungUp({l})
  /\ UNCHANGED <<a, b, partyVars, holdVars, offVars, loopVars, wakeVars, w, tr>>

(* The deferred function: handing is closed; nothing more to do for a      *)
(* transfer that happened.                                                 *)
Decided(t) ==
  /\ tr[t].pc \in {"failed", "handed"}
  /\ goto(t, IF tr[t].pc = "handed" THEN "done" ELSE "restore")
  /\ UNCHANGED <<legVars, holdVars, offVars, loopVars, wakeVars, releasing, w>>

(* One that did not happen takes its music back, and a referrer that was   *)
(* never released and is holding has its hold music again.                 *)
Restore(t) ==
  /\ tr[t].pc = "restore"
  /\ goto(t, "done")
  /\ CASE tr[t].orig # <<a, b>> -> UNCHANGED <<heldBy, player>>
       [] tr[t].orig = <<a, b>> /\ ~tr[t].released /\ tr[t].from \in held ->
            playLocked(tr[t].from, tr[t].from)
       [] OTHER -> stopHoldLocked
  /\ UNCHANGED <<legVars, held, offVars, loopVars, wakeVars, releasing, w>>

-----------------------------------------------------------------------------
Init ==
  /\ a = 1 /\ b = 2 /\ up = {1, 2} /\ left = FALSE /\ silent = {}
  /\ held = {} /\ heldBy = 0 /\ player = 0
  /\ swapped = FALSE /\ gone = FALSE /\ handing = 0 /\ unwatched = {}
  /\ offload = 0 /\ closed = {} /\ offloaded = FALSE /\ panicked = FALSE
  /\ releasing = {} /\ wakes = {} /\ woken = {}
  /\ w = [pc |-> "watch", a |-> 1, b |-> 2, why |-> "a", ch |-> 0]
  /\ tr = [t \in Transfers |-> [pc |-> "idle", from |-> 0, other |-> 0, target |-> "unknown",
                                orig |-> <<1, 2>>, released |-> FALSE]]

wait ==
  Watch \/ Swapped \/ (\E why \in {"a", "b", "gone"} : Select(why))
    \/ awaitOffload \/ awaitHandover \/ HangUp \/ EndCall

transfer(t) ==
  \/ OffloadRefer(t) \/ OffloadDone(t) \/ OffloadFailed(t) \/ finishOffload(t)
  \/ Dial(t) \/ transferDestination(t) \/ Woken(t) \/ TargetRings(t) \/ InviteFails(t)
  \/ BusyEnds(t) \/ TargetAnswers(t) \/ NotBridged(t) \/ Swap(t) \/ ReleaseBridged(t)
  \/ Decided(t) \/ Restore(t)

Settled ==
  /\ w.pc = "ended"
  /\ releasing = {}
  /\ \A t \in Transfers : ~InFlight(t)

Step ==
  \/ wait
  \/ \E t \in Transfers : transfer(t)
  \/ \E t \in Transfers, f \in Legs, target \in Targets : Refer(t, f, target)
  \/ \E l \in Legs : Hold(l) \/ Bye(l) \/ Vanish(l) \/ qualifyLegs(l) \/ releaseReferrer(l)

Next ==
  \/ ~panicked /\ Step
  \/ (Settled \/ panicked) /\ UNCHANGED vars

(* Goroutines are scheduled; a transfer's steps are bounded by the ring    *)
(* timeout, the REFER outcome timeout and the BYE grace; the qualifier     *)
(* asks on a ticker.                                                       *)
Fairness ==
  /\ WF_vars(~panicked /\ wait)
  /\ \A t \in Transfers : WF_vars(~panicked /\ transfer(t))
  /\ \A l \in Legs :
       WF_vars(~panicked /\ releaseReferrer(l)) /\ WF_vars(~panicked /\ qualifyLegs(l))

Spec == Init /\ [][Next]_vars /\ Fairness

-----------------------------------------------------------------------------
(* Type invariant of the call, its wait loop and its transfers.            *)
TypeOK ==
  /\ a \in Legs /\ b \in {0} \cup Legs
  /\ up \subseteq Legs /\ left \in BOOLEAN /\ silent \subseteq Legs
  /\ held \subseteq Legs /\ heldBy \in {0} \cup Legs /\ player \in {0} \cup Legs
  /\ swapped \in BOOLEAN /\ gone \in BOOLEAN /\ offloaded \in BOOLEAN /\ panicked \in BOOLEAN
  /\ offload \in {0} \cup Transfers /\ handing \in {0} \cup Transfers
  /\ closed \subseteq Transfers
  /\ releasing \subseteq Legs
  /\ wakes \subseteq Transfers /\ woken \subseteq Transfers /\ unwatched \subseteq Transfers
  /\ w \in [pc : {"watch", "select", "offload", "offloadWait", "handover", "handoverWait",
                  "hang", "end", "ended"},
            a : Legs, b : {0} \cup Legs, why : {"a", "b", "gone"}, ch : {0} \cup Transfers]
  /\ tr \in [Transfers ->
       [pc : {"idle", "refer", "offloading", "finishing", "remaining", "dial", "destination",
              "waking", "inviting", "answered", "echo", "bridged", "busy", "failed", "handed",
              "restore", "done"},
        from : {0} \cup Legs, other : {0} \cup Legs,
        target : {"unknown", "echo", "trunk", "local"},
        orig : Legs \X ({0} \cup Legs), released : BOOLEAN]]

(* When the call is over nobody is left on a line with nothing behind it,  *)
(* and no phone is left to be rung for it: every leg has ended, but one    *)
(* whose party had vanished, and every wake of a transfer is forgotten,    *)
(* whatever the parties, the target and the PBX did and in whichever       *)
(* order, unless a transfer began after wait had made up its mind.         *)
NoOrphan == Settled /\ unwatched = {} => up \subseteq silent /\ wakes = {}

(* "Before this point a refusal still belongs to the referrer, who keeps   *)
(* the call": as long as nobody has hung up or vanished, no target has     *)
(* rung or taken a party's place and the PBX has moved nobody, both        *)
(* parties are still in the call, however many transfers were refused.     *)
RefusalKeepsCall ==
  /\ ~left /\ silent = {} /\ a = 1 /\ b = 2 /\ ~offloaded
  /\ \A t \in Transfers : ~tr[t].released /\ tr[t].pc # "remaining"
  => {1, 2} \subseteq up

(* While a call is up, what plays to a party plays for a reason: a hold    *)
(* that stands or a transfer in progress; and a hold on record is heard.   *)
MusicOwned ==
  w.pc \notin {"end", "ended"} =>
    /\ player # 0 => heldBy # 0 \/ \E t \in Transfers : Handing(t) \/ tr[t].pc = "restore"
    /\ heldBy # 0 => player # 0

(* What a transfer, refused or under way, leaves of the call it is made in. *)
CallIntact == TypeOK /\ RefusalKeepsCall /\ MusicOwned

(* A call does not outlive its parties: once a party of the call has hung  *)
(* up or vanished, the call ends or goes on between others.                *)
CallOver ==
  \A l \in Legs : (l \in {a, b} /\ (l \notin up \/ l \in silent))
                     ~> (w.pc = "ended" \/ l \notin {a, b})

(* "while one is in flight, block until it is decided rather than tearing  *)
(* the call down under it": wait does not pass awaitHandover with a        *)
(* transfer in progress.                                                   *)
HandoverAwaited ==
  [][w.pc = "handover" /\ w'.pc = "hang" => \A t \in Transfers : ~Handing(t)]_vars

(* "offload is non-nil while the PBX is completing a transfer for us and   *)
(* closed when that attempt is over": wait is not let go by one attempt's  *)
(* end while the attempt it waits for goes on, and no channel is closed    *)
(* twice.                                                                  *)
OffloadOver ==
  /\ ~panicked
  /\ \A t \in closed : tr[t].pc \notin {"offloading", "finishing", "remaining"}

(* Hold music plays while a party holds; a call that is over plays none.   *)
MusicStops == Settled => player = 0
=============================================================================
