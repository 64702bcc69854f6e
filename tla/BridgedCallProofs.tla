------------------------- MODULE BridgedCallProofs -------------------------
(***************************************************************************)
(* Theorems about a bridged call and its transfers, for any number of      *)
(* transfers, routing of their targets, trunk legs and holders, as long as *)
(* no REFER arrives while a transfer is in progress (~Overlap).            *)
(***************************************************************************)
EXTENDS BridgedCall, TLAPS

-----------------------------------------------------------------------------
(* The invariant.                                                          *)

(* Where a transfer is: nobody has been dialled yet (Early), nobody has    *)
(* answered yet (Before), its music may play (Ringing), it is about the    *)
(* two parties of the call as they are (Attached).  And where wait is once *)
(* it has a reason to end the call (Deciding).                             *)
Early == {"refer", "offloading", "finishing", "remaining", "dial", "destination", "waking"}
Before == Early \cup {"idle", "inviting"}
Ringing == {"destination", "waking", "inviting", "answered", "echo", "busy", "failed", "restore"}
Attached == Early \cup Ringing
Deciding == {"offload", "offloadWait", "handover", "handoverWait", "hang"}

(* Transfers follow each other: no REFER is taken during one.              *)
OneAtATime == \A t, u \in Transfers : InFlight(t) /\ InFlight(u) => t = u

(* A transfer in hand is one of the two parties of the call handing over   *)
(* the other.                                                              *)
Parties ==
  /\ a # b /\ (b = 2 => a = 1)
  /\ \A t \in Transfers :
       /\ tr[t].pc \in Attached => /\ {tr[t].from, tr[t].other} = {a, b}
                                   /\ tr[t].from # tr[t].other /\ tr[t].from # 0 /\ tr[t].other # 0
       /\ tr[t].pc \in Ringing => tr[t].orig = <<a, b>>
       /\ tr[t].pc = "bridged" => b # 2

(* The leg a transfer is to dial is nobody's yet.                          *)
Fresh ==
  \A t \in Transfers :
    /\ tr[t].pc \in Before => NewLeg(t) \notin up
    /\ tr[t].pc \in Before \cup {"answered"} => NewLeg(t) \notin {a, b, w.a, w.b}

(* A leg that is up is a party of the call, or is about to become one, or  *)
(* is about to be released.                                                *)
Accounted ==
  \A l \in up \ silent :
    \/ l \in {a, b} \cup releasing
    \/ \E t \in Transfers : \/ tr[t].pc = "bridged" /\ l = tr[t].from
                            \/ tr[t].pc = "answered" /\ l = NewLeg(t)

(* What has been done for the referrer of a transfer.                      *)
ReferrerKept ==
  /\ \A t \in Transfers :
       /\ tr[t].pc \in Early \cup {"idle"} => ~tr[t].released
       /\ tr[t].pc = "busy" => tr[t].released
       /\ InFlight(t) /\ tr[t].released
            => tr[t].from \in releasing \cup silent \/ tr[t].from \notin up
       /\ tr[t].pc \in Early => releasing = {}
       /\ tr[t].pc = "remaining" => tr[t].from \in silent \/ tr[t].from \notin up
  /\ releasing # {} => \E t \in Transfers : tr[t].released

(* The channel of an offload in progress is open, and an offload that      *)
(* succeeded leaves nothing to do.                                         *)
OffloadKept ==
  /\ ~panicked
  /\ \A t \in Transfers :
       /\ tr[t].pc \in {"idle", "refer"} => t \notin closed
       /\ tr[t].pc \in {"offloading", "finishing", "remaining"} => offload = t /\ t \notin closed
  /\ offloaded => up \subseteq silent /\ releasing = {} /\ \A t \in Transfers : ~InFlight(t)

(* Why wait is making up its mind.                                         *)
WhyKnown ==
  w.pc \in Deciding => /\ w.why = "a" => w.a \notin up
                       /\ w.why = "b" => w.b \notin up

(* As long as no transfer has escaped wait, it holds on to the one in      *)
(* progress, hangs up the legs of the call as they are, and at the end has *)
(* hung up both and forgotten every wake.                                  *)
NoneEscapes ==
  \A t \in Transfers \ unwatched :
    Handing(t) => handing = t /\ w.pc \notin {"hang", "end", "ended"}

LegsKnown ==
  unwatched = {} =>
    /\ w.pc \in {"select", "offload", "offloadWait", "handover"} /\ handing = 0
         => w.a = a /\ w.b = b
    /\ w.pc = "hang" => w.a = a /\ w.b = b

OverMeans ==
  unwatched = {} => /\ w.pc \in {"end", "ended"} => {a, b} \cap up \subseteq silent
                    /\ w.pc = "ended" => wakes = {}

WakesKnown == \A t \in Transfers : t \in wakes \ woken => tr[t].pc = "waking"

(* As long as nobody has left and nothing has been handed over, wait has   *)
(* no reason to stir.                                                      *)
Undisturbed ==
  /\ ~left /\ silent = {} /\ a = 1 /\ b = 2 /\ ~offloaded
  /\ \A t \in Transfers : ~tr[t].released /\ tr[t].pc # "remaining"
  => /\ {1, 2} \subseteq up /\ ~gone
     /\ w.pc \in {"watch", "select"} /\ w.a = 1 /\ w.b = 2

(* A hold on record is heard, and music with no hold on record is the      *)
(* music of a transfer.                                                    *)
MusicKept ==
  /\ heldBy # 0 => player # 0
  /\ player # 0 /\ heldBy = 0 => \E t \in Transfers : tr[t].pc \in Ringing

CallInv ==
  /\ TypeOK /\ OneAtATime /\ Parties /\ Fresh /\ Accounted /\ ReferrerKept
  /\ OffloadKept /\ WhyKnown /\ NoneEscapes /\ LegsKnown /\ OverMeans /\ WakesKnown
  /\ Undisturbed /\ MusicKept

-----------------------------------------------------------------------------
(* Lemmas about the steps.                                                 *)

Pcs == {"idle", "refer", "offloading", "finishing", "remaining", "dial", "destination",
        "waking", "inviting", "answered", "echo", "bridged", "busy", "failed", "handed",
        "restore", "done"}
TrRecs == [pc : Pcs, from : {0} \cup Legs, other : {0} \cup Legs,
           target : {"unknown", "echo", "trunk", "local"},
           orig : Legs \X ({0} \cup Legs), released : BOOLEAN]

WRecs == [pc : {"watch", "select", "offload", "offloadWait", "handover", "handoverWait",
                "hang", "end", "ended"},
          a : Legs, b : {0} \cup Legs, why : {"a", "b", "gone"}, ch : {0} \cup Transfers]

(* Transfer t has moved to p, and nothing else of the transfers changed.   *)
Moved(t, p) ==
  /\ tr' \in [Transfers -> TrRecs]
  /\ tr'[t].pc = p
  /\ \A u \in Transfers : u # t => tr'[u] = tr[u]
  /\ \A u \in Transfers : /\ tr'[u].from = tr[u].from /\ tr'[u].other = tr[u].other
                          /\ tr'[u].target = tr[u].target /\ tr'[u].orig = tr[u].orig
                          /\ tr'[u].released = tr[u].released

(* What goto leaves of the transfers.                                      *)
LEMMA GotoFacts ==
  ASSUME TypeOK, NEW t \in Transfers, NEW p \in Pcs, goto(t, p)
  PROVE  Moved(t, p)
<1> DEFINE r == [tr[t] EXCEPT !.pc = p]
<1>1. tr \in [Transfers -> TrRecs]
  BY DEF TypeOK, TrRecs, Pcs
<1>2. tr' = [tr EXCEPT ![t] = r]
  BY DEF goto
<1>3. /\ r \in TrRecs /\ r.pc = p /\ r.from = tr[t].from /\ r.other = tr[t].other
      /\ r.target = tr[t].target /\ r.orig = tr[t].orig /\ r.released = tr[t].released
  BY <1>1 DEF TrRecs
<1> HIDE DEF r
<1> QED
  BY <1>1, <1>2, <1>3 DEF Moved

(* The leg a transfer dials is a leg of its own.                           *)
LEMMA NewLegFacts ==
  ASSUME NEW t \in Transfers
  PROVE  /\ NewLeg(t) \in Legs /\ NewLeg(t) \notin {0, 1, 2}
         /\ \A u \in Transfers : NewLeg(u) = NewLeg(t) => u = t
BY BridgedAssumption DEF NewLeg, Legs, Transfers

(* Zero is not a leg; the parties of the call are.                         *)
LEMMA LegFacts == 0 \notin Legs /\ 1 \in Legs /\ 2 \in Legs /\ 0 \notin Transfers
BY BridgedAssumption DEF Legs, Transfers

(* OffloadRefer keeps the invariant.                                       *)
LEMMA OffloadReferKeeps ==
  ASSUME CallInv, NEW t \in Transfers, OffloadRefer(t)
  PROVE  CallInv'
<1>1. /\ tr[t].pc = "refer"
      /\ UNCHANGED <<legVars, holdVars, closed, offloaded, panicked, loopVars, wakeVars, releasing, w>>
  BY DEF OffloadRefer
<1>2. PICK p \in {"offloading", "dial"} :
        /\ Moved(t, p)
        /\ IF p = "dial" THEN offload' = offload
           ELSE offload' = t
  BY GotoFacts DEF CallInv, OffloadRefer, Pcs
<1> USE <1>1, <1>2
       DEF legVars, partyVars, holdVars, offVars, loopVars, wakeVars, Moved, CallInv
<1>a. TypeOK'
  BY DEF TypeOK, TrRecs, Pcs, WRecs
<1>b. OneAtATime'
  BY DEF OneAtATime, InFlight
<1>c. Parties'
  BY DEF Parties, Attached, Early, Ringing
<1>d. Fresh'
  BY DEF Fresh, Before, Early
<1>e. Accounted'
  BY DEF Accounted
<1>f. ReferrerKept'
  BY DEF ReferrerKept, Early, InFlight
<1>g. OffloadKept'
  BY DEF OffloadKept, OneAtATime, InFlight
<1>h. WhyKnown'
  BY DEF WhyKnown, Deciding
<1>i. NoneEscapes'
  BY DEF NoneEscapes, Handing
<1>j. LegsKnown'
  BY DEF LegsKnown
<1>k. OverMeans'
  BY DEF OverMeans
<1>l. WakesKnown'
  BY DEF WakesKnown
<1>m. Undisturbed'
  BY DEF Undisturbed
<1>n. MusicKept'
  BY DEF MusicKept, Ringing
<1> QED
  BY <1>a, <1>b, <1>c, <1>d, <1>e, <1>f, <1>g, <1>h, <1>i, <1>j, <1>k, <1>l, <1>m, <1>n DEF CallInv

(* OffloadDone keeps the invariant.                                        *)
LEMMA OffloadDoneKeeps ==
  ASSUME CallInv, NEW t \in Transfers, OffloadDone(t)
  PROVE  CallInv'
<1>1. /\ tr[t].pc = "offloading"
      /\ UNCHANGED <<legVars, holdVars, offVars, loopVars, wakeVars, releasing, w>>
  BY DEF OffloadDone
<1>2. Moved(t, "finishing")
  BY GotoFacts DEF CallInv, OffloadDone, Pcs
<1> USE <1>1, <1>2
       DEF legVars, partyVars, holdVars, offVars, loopVars, wakeVars, Moved, CallInv
<1>a. TypeOK'
  BY DEF TypeOK, TrRecs, Pcs, WRecs
<1>b. OneAtATime'
  BY DEF OneAtATime, InFlight
<1>c. Parties'
  BY DEF Parties, Attached, Early, Ringing
<1>d. Fresh'
  BY DEF Fresh, Before, Early
<1>e. Accounted'
  BY DEF Accounted
<1>f. ReferrerKept'
  BY DEF ReferrerKept, Early, InFlight
<1>g. OffloadKept'
  BY DEF OffloadKept, OneAtATime, InFlight
<1>h. WhyKnown'
  BY DEF WhyKnown, Deciding
<1>i. NoneEscapes'
  BY DEF NoneEscapes, Handing
<1>j. LegsKnown'
  BY DEF LegsKnown
<1>k. OverMeans'
  BY DEF OverMeans
<1>l. WakesKnown'
  BY DEF WakesKnown
<1>m. Undisturbed'
  BY DEF Undisturbed
<1>n. MusicKept'
  BY DEF MusicKept, Ringing
<1> QED
  BY <1>a, <1>b, <1>c, <1>d, <1>e, <1>f, <1>g, <1>h, <1>i, <1>j, <1>k, <1>l, <1>m, <1>n DEF CallInv

(* OffloadFailed keeps the invariant: the channel it closes is its own.    *)
LEMMA OffloadFailedKeeps ==
  ASSUME CallInv, NEW t \in Transfers, OffloadFailed(t)
  PROVE  CallInv'
<1>1. /\ tr[t].pc = "offloading"
      /\ UNCHANGED <<legVars, holdVars, loopVars, wakeVars, releasing, w>>
  BY DEF OffloadFailed
<1>2. Moved(t, "dial")
  BY GotoFacts DEF CallInv, OffloadFailed, Pcs
<1>3. offload = t /\ t \notin closed
  BY <1>1 DEF CallInv, OffloadKept
<1>4. offload' = offload /\ offloaded' \in BOOLEAN /\ ~offloaded' /\ closed' = closed \cup {t}
  BY <1>3 DEF OffloadFailed, endOffload
<1>5. ~panicked' /\ panicked' \in BOOLEAN
  <2>1. panicked' = (offload \in closed)
    BY DEF OffloadFailed, endOffload
  <2>2. (offload \in closed) \in BOOLEAN
    OBVIOUS
  <2>3. ~(offload \in closed)
    BY <1>3
  <2> QED
    BY <2>1, <2>2, <2>3
<1> USE <1>1, <1>2, <1>3, <1>4, <1>5
       DEF legVars, partyVars, holdVars, offVars, loopVars, wakeVars, Moved, CallInv
<1>a. TypeOK'
  BY DEF TypeOK, TrRecs, Pcs, WRecs
<1>b. OneAtATime'
  BY DEF OneAtATime, InFlight
<1>c. Parties'
  BY DEF Parties, Attached, Early, Ringing
<1>d. Fresh'
  BY DEF Fresh, Before, Early
<1>e. Accounted'
  BY DEF Accounted
<1>f. ReferrerKept'
  BY DEF ReferrerKept, Early, InFlight
<1>g. OffloadKept'
  BY DEF OffloadKept, OneAtATime, InFlight
<1>h. WhyKnown'
  BY DEF WhyKnown, Deciding
<1>i. NoneEscapes'
  BY DEF NoneEscapes, Handing
<1>j. LegsKnown'
  BY DEF LegsKnown
<1>k. OverMeans'
  BY DEF OverMeans
<1>l. WakesKnown'
  BY DEF WakesKnown
<1>m. Undisturbed'
  BY DEF Undisturbed, OffloadKept, InFlight
<1>n. MusicKept'
  BY DEF MusicKept, Ringing
<1> QED
  BY <1>a, <1>b, <1>c, <1>d, <1>e, <1>f, <1>g, <1>h, <1>i, <1>j, <1>k, <1>l, <1>m, <1>n DEF CallInv

(* finishOffload keeps the invariant while it releases the referrer.       *)
LEMMA FinishReferrerKeeps ==
  ASSUME CallInv, NEW t \in Transfers, tr[t].pc = "finishing", finishOffload(t)
  PROVE  CallInv'
<1>1. UNCHANGED <<a, b, partyVars, holdVars, offVars, loopVars, wakeVars, releasing, w>>
  BY DEF finishOffload
<1>2. Moved(t, "remaining")
  BY GotoFacts DEF CallInv, finishOffload, Pcs
<1>3. up' = up \ ({tr[t].from} \ silent)
  BY DEF finishOffload, HungUp
<1> USE <1>1, <1>2, <1>3
       DEF legVars, partyVars, holdVars, offVars, loopVars, wakeVars, Moved, CallInv
<1>a. TypeOK'
  BY DEF TypeOK, TrRecs, Pcs, WRecs
<1>b. OneAtATime'
  BY DEF OneAtATime, InFlight
<1>c. Parties'
  BY DEF Parties, Attached, Early, Ringing
<1>d. Fresh'
  BY DEF Fresh, Before, Early
<1>e. Accounted'
  BY DEF Accounted
<1>f. ReferrerKept'
  BY DEF ReferrerKept, Early, InFlight
<1>g. OffloadKept'
  BY DEF OffloadKept, OneAtATime, InFlight
<1>h. WhyKnown'
  BY DEF WhyKnown, Deciding
<1>i. NoneEscapes'
  BY DEF NoneEscapes, Handing
<1>j. LegsKnown'
  BY DEF LegsKnown
<1>k. OverMeans'
  BY DEF OverMeans
<1>l. WakesKnown'
  BY DEF WakesKnown
<1>m. Undisturbed'
  BY DEF Undisturbed
<1>n. MusicKept'
  BY DEF MusicKept, Ringing
<1> QED
  BY <1>a, <1>b, <1>c, <1>d, <1>e, <1>f, <1>g, <1>h, <1>i, <1>j, <1>k, <1>l, <1>m, <1>n DEF CallInv

(* finishOffload keeps the invariant when it lets wait go: nobody is left  *)
(* on the call.                                                            *)
LEMMA FinishRemainingKeeps ==
  ASSUME CallInv, NEW t \in Transfers, tr[t].pc = "remaining", finishOffload(t)
  PROVE  CallInv'
<1>1. UNCHANGED <<a, b, partyVars, holdVars, loopVars, wakeVars, releasing, w>>
  BY DEF finishOffload
<1>2. Moved(t, "done")
  BY GotoFacts DEF CallInv, finishOffload, Pcs
<1>3. up' = up \ ({tr[t].other} \ silent)
  BY DEF finishOffload, HungUp
<1>4. offload = t /\ t \notin closed
  BY DEF CallInv, OffloadKept
<1>5. offload' = offload /\ offloaded' = TRUE /\ closed' = closed \cup {t}
  BY <1>4 DEF finishOffload, endOffload
<1>6. ~panicked' /\ panicked' \in BOOLEAN
  <2>1. panicked' = (offload \in closed)
    BY DEF finishOffload, endOffload
  <2>2. (offload \in closed) \in BOOLEAN
    OBVIOUS
  <2>3. ~(offload \in closed)
    BY <1>4
  <2> QED
    BY <2>1, <2>2, <2>3
<1> USE <1>1, <1>2, <1>3, <1>4, <1>5, <1>6
       DEF legVars, partyVars, holdVars, offVars, loopVars, wakeVars, Moved, CallInv
<1>a. TypeOK'
  BY DEF TypeOK, TrRecs, Pcs, WRecs
<1>b. OneAtATime'
  BY DEF OneAtATime, InFlight
<1>c. Parties'
  BY DEF Parties, Attached, Early, Ringing
<1>d. Fresh'
  BY DEF Fresh, Before, Early
<1>e. Accounted'
  BY DEF Accounted
<1>f. ReferrerKept'
  BY DEF ReferrerKept, Early, InFlight
<1>g. OffloadKept'
  <2>1. /\ releasing = {} /\ {a, b} = {tr[t].from, tr[t].other}
        /\ tr[t].from \in silent \/ tr[t].from \notin up
    BY DEF ReferrerKept, Parties, Attached, Early
  <2>2. \A u \in Transfers : u # t => ~InFlight(u)
    BY DEF OneAtATime, InFlight
  <2>3. \A u \in Transfers : ~InFlight(u)'
    BY <2>2 DEF InFlight
  <2>4. up \ silent \subseteq {a, b}
    BY <2>1, <2>2 DEF Accounted, InFlight
  <2>5. up' \subseteq silent'
    BY <2>1, <2>4
  <2> QED
    BY <2>1, <2>3, <2>5 DEF OffloadKept, InFlight
<1>h. WhyKnown'
  BY DEF WhyKnown, Deciding
<1>i. NoneEscapes'
  BY DEF NoneEscapes, Handing
<1>j. LegsKnown'
  BY DEF LegsKnown
<1>k. OverMeans'
  BY DEF OverMeans
<1>l. WakesKnown'
  BY DEF WakesKnown
<1>m. Undisturbed'
  BY DEF Undisturbed
<1>n. MusicKept'
  BY DEF MusicKept, Ringing
<1> QED
  BY <1>a, <1>b, <1>c, <1>d, <1>e, <1>f, <1>g, <1>h, <1>i, <1>j, <1>k, <1>l, <1>m, <1>n DEF CallInv

(* transferDestination keeps the invariant.                                *)
LEMMA TransferDestinationKeeps ==
  ASSUME CallInv, NEW t \in Transfers, transferDestination(t)
  PROVE  CallInv'
<1>1. /\ tr[t].pc = "destination"
      /\ UNCHANGED <<legVars, holdVars, offVars, loopVars, woken, releasing, w>>
  BY DEF transferDestination
<1>2. PICK p \in {"inviting", "waking"} :
        /\ Moved(t, p)
        /\ IF p = "inviting" THEN wakes' = wakes
           ELSE wakes' = wakes \cup {t}
  BY GotoFacts DEF CallInv, transferDestination, Pcs
<1> USE <1>1, <1>2
       DEF legVars, partyVars, holdVars, offVars, loopVars, wakeVars, Moved, CallInv
<1>a. TypeOK'
  BY DEF TypeOK, TrRecs, Pcs, WRecs
<1>b. OneAtATime'
  BY DEF OneAtATime, InFlight
<1>c. Parties'
  BY DEF Parties, Attached, Early, Ringing
<1>d. Fresh'
  BY DEF Fresh, Before, Early
<1>e. Accounted'
  BY DEF Accounted
<1>f. ReferrerKept'
  BY DEF ReferrerKept, Early, InFlight
<1>g. OffloadKept'
  BY DEF OffloadKept, OneAtATime, InFlight
<1>h. WhyKnown'
  BY DEF WhyKnown, Deciding
<1>i. NoneEscapes'
  BY DEF NoneEscapes, Handing
<1>j. LegsKnown'
  BY DEF LegsKnown
<1>k. OverMeans'
  BY DEF OverMeans, NoneEscapes, Handing
<1>l. WakesKnown'
  BY DEF WakesKnown
<1>m. Undisturbed'
  BY DEF Undisturbed
<1>n. MusicKept'
  BY DEF MusicKept, Ringing
<1> QED
  BY <1>a, <1>b, <1>c, <1>d, <1>e, <1>f, <1>g, <1>h, <1>i, <1>j, <1>k, <1>l, <1>m, <1>n DEF CallInv

(* Woken keeps the invariant.                                              *)
LEMMA WokenKeeps ==
  ASSUME CallInv, NEW t \in Transfers, Woken(t)
  PROVE  CallInv'
<1>1. tr[t].pc = "waking" /\ UNCHANGED <<legVars, holdVars, offVars, loopVars, releasing, w>>
  BY DEF Woken
<1>2. PICK p \in {"inviting", "failed"} :
        /\ Moved(t, p)
        /\ IF p = "inviting" THEN wakes' = wakes /\ woken' = woken \cup {t}
           ELSE woken' = woken /\ wakes' = wakes \ {t}
  BY GotoFacts DEF CallInv, Woken, Pcs
<1> USE <1>1, <1>2
       DEF legVars, partyVars, holdVars, offVars, loopVars, wakeVars, Moved, CallInv
<1>a. TypeOK'
  BY DEF TypeOK, TrRecs, Pcs, WRecs
<1>b. OneAtATime'
  BY DEF OneAtATime, InFlight
<1>c. Parties'
  BY DEF Parties, Attached, Early, Ringing
<1>d. Fresh'
  BY DEF Fresh, Before, Early
<1>e. Accounted'
  BY DEF Accounted
<1>f. ReferrerKept'
  BY DEF ReferrerKept, Early, InFlight
<1>g. OffloadKept'
  BY DEF OffloadKept, OneAtATime, InFlight
<1>h. WhyKnown'
  BY DEF WhyKnown, Deciding
<1>i. NoneEscapes'
  BY DEF NoneEscapes, Handing
<1>j. LegsKnown'
  BY DEF LegsKnown
<1>k. OverMeans'
  BY DEF OverMeans
<1>l. WakesKnown'
  BY DEF WakesKnown
<1>m. Undisturbed'
  BY DEF Undisturbed
<1>n. MusicKept'
  BY DEF MusicKept, Ringing
<1> QED
  BY <1>a, <1>b, <1>c, <1>d, <1>e, <1>f, <1>g, <1>h, <1>i, <1>j, <1>k, <1>l, <1>m, <1>n DEF CallInv

(* BusyEnds keeps the invariant.                                           *)
LEMMA BusyEndsKeeps ==
  ASSUME CallInv, NEW t \in Transfers, BusyEnds(t)
  PROVE  CallInv'
<1>1. /\ tr[t].pc = "busy" /\ player' = 0 /\ heldBy' = 0
      /\ UNCHANGED <<a, b, partyVars, held, offVars, loopVars, wakeVars, releasing, w>>
  BY DEF BusyEnds, stopHoldLocked
<1>2. Moved(t, "handed")
  BY GotoFacts DEF CallInv, BusyEnds, Pcs
<1>3. up' = up \ ({tr[t].other} \ silent)
  BY DEF BusyEnds, HungUp
<1> USE <1>1, <1>2, <1>3
       DEF legVars, partyVars, holdVars, offVars, loopVars, wakeVars, Moved, CallInv
<1>a. TypeOK'
  BY DEF TypeOK, TrRecs, Pcs, WRecs
<1>b. OneAtATime'
  BY DEF OneAtATime, InFlight
<1>c. Parties'
  BY DEF Parties, Attached, Early, Ringing
<1>d. Fresh'
  BY DEF Fresh, Before, Early
<1>e. Accounted'
  BY DEF Accounted
<1>f. ReferrerKept'
  BY DEF ReferrerKept, Early, InFlight
<1>g. OffloadKept'
  BY DEF OffloadKept, OneAtATime, InFlight
<1>h. WhyKnown'
  BY DEF WhyKnown, Deciding
<1>i. NoneEscapes'
  BY DEF NoneEscapes, Handing
<1>j. LegsKnown'
  BY DEF LegsKnown
<1>k. OverMeans'
  BY DEF OverMeans
<1>l. WakesKnown'
  BY DEF WakesKnown
<1>m. Undisturbed'
  BY DEF Undisturbed, ReferrerKept
<1>n. MusicKept'
  BY DEF MusicKept, Ringing
<1> QED
  BY <1>a, <1>b, <1>c, <1>d, <1>e, <1>f, <1>g, <1>h, <1>i, <1>j, <1>k, <1>l, <1>m, <1>n DEF CallInv

(* TargetAnswers keeps the invariant: the leg that comes up is nobody's.   *)
LEMMA TargetAnswersKeeps ==
  ASSUME CallInv, NEW t \in Transfers, TargetAnswers(t)
  PROVE  CallInv'
<1>1. /\ tr[t].pc = "inviting" /\ up' = up \cup {NewLeg(t)}
      /\ UNCHANGED <<a, b, partyVars, holdVars, offVars, loopVars, wakeVars, releasing, w>>
  BY DEF TargetAnswers
<1>2. Moved(t, "answered")
  BY GotoFacts DEF CallInv, TargetAnswers, Pcs
<1> USE <1>1, <1>2
       DEF legVars, partyVars, holdVars, offVars, loopVars, wakeVars, Moved, CallInv
<1>a. TypeOK'
  BY NewLegFacts DEF TypeOK, TrRecs, Pcs, WRecs
<1>b. OneAtATime'
  BY DEF OneAtATime, InFlight
<1>c. Parties'
  BY DEF Parties, Attached, Early, Ringing
<1>d. Fresh'
  BY NewLegFacts DEF Fresh, Before, Early
<1>e. Accounted'
  BY DEF Accounted
<1>f. ReferrerKept'
  BY DEF ReferrerKept, Parties, Attached, Ringing, Early, Before, Fresh, InFlight, OneAtATime
<1>g. OffloadKept'
  BY DEF OffloadKept, OneAtATime, InFlight
<1>h. WhyKnown'
  BY DEF WhyKnown, Deciding, Fresh, Before
<1>i. NoneEscapes'
  BY DEF NoneEscapes, Handing
<1>j. LegsKnown'
  BY DEF LegsKnown
<1>k. OverMeans'
  BY DEF OverMeans, NoneEscapes, Handing
<1>l. WakesKnown'
  BY DEF WakesKnown
<1>m. Undisturbed'
  BY DEF Undisturbed
<1>n. MusicKept'
  BY DEF MusicKept, Ringing
<1> QED
  BY <1>a, <1>b, <1>c, <1>d, <1>e, <1>f, <1>g, <1>h, <1>i, <1>j, <1>k, <1>l, <1>m, <1>n DEF CallInv

(* NotBridged keeps the invariant.                                         *)
LEMMA NotBridgedKeeps ==
  ASSUME CallInv, NEW t \in Transfers, NotBridged(t)
  PROVE  CallInv'
<1>1. /\ tr[t].pc = "answered" /\ up' = up \ ({NewLeg(t)} \ silent)
      /\ UNCHANGED <<a, b, partyVars, holdVars, offVars, loopVars, wakeVars, releasing, w>>
  BY DEF NotBridged, HungUp
<1>2. Moved(t, "failed")
  BY GotoFacts DEF CallInv, NotBridged, Pcs
<1> USE <1>1, <1>2
       DEF legVars, partyVars, holdVars, offVars, loopVars, wakeVars, Moved, CallInv
<1>a. TypeOK'
  BY DEF TypeOK, TrRecs, Pcs, WRecs
<1>b. OneAtATime'
  BY DEF OneAtATime, InFlight
<1>c. Parties'
  BY DEF Parties, Attached, Early, Ringing
<1>d. Fresh'
  BY DEF Fresh, Before, Early
<1>e. Accounted'
  BY DEF Accounted
<1>f. ReferrerKept'
  BY DEF ReferrerKept, Early, InFlight
<1>g. OffloadKept'
  BY DEF OffloadKept, OneAtATime, InFlight
<1>h. WhyKnown'
  BY DEF WhyKnown, Deciding
<1>i. NoneEscapes'
  BY DEF NoneEscapes, Handing
<1>j. LegsKnown'
  BY DEF LegsKnown
<1>k. OverMeans'
  BY DEF OverMeans
<1>l. WakesKnown'
  BY DEF WakesKnown
<1>m. Undisturbed'
  BY NewLegFacts DEF Undisturbed
<1>n. MusicKept'
  BY DEF MusicKept, Ringing
<1> QED
  BY <1>a, <1>b, <1>c, <1>d, <1>e, <1>f, <1>g, <1>h, <1>i, <1>j, <1>k, <1>l, <1>m, <1>n DEF CallInv

(* ReleaseBridged keeps the invariant.                                     *)
LEMMA ReleaseBridgedKeeps ==
  ASSUME CallInv, NEW t \in Transfers, ReleaseBridged(t)
  PROVE  CallInv'
<1>1. /\ tr[t].pc = "bridged" /\ up' = up \ ({tr[t].from} \ silent)
      /\ UNCHANGED <<a, b, partyVars, holdVars, offVars, loopVars, wakeVars, releasing, w>>
  BY DEF ReleaseBridged, HungUp
<1>2. Moved(t, "handed")
  BY GotoFacts DEF CallInv, ReleaseBridged, Pcs
<1> USE <1>1, <1>2
       DEF legVars, partyVars, holdVars, offVars, loopVars, wakeVars, Moved, CallInv
<1>a. TypeOK'
  BY DEF TypeOK, TrRecs, Pcs, WRecs
<1>b. OneAtATime'
  BY DEF OneAtATime, InFlight
<1>c. Parties'
  BY DEF Parties, Attached, Early, Ringing
<1>d. Fresh'
  BY DEF Fresh, Before, Early
<1>e. Accounted'
  BY DEF Accounted
<1>f. ReferrerKept'
  BY DEF ReferrerKept, Early, InFlight
<1>g. OffloadKept'
  BY DEF OffloadKept, OneAtATime, InFlight
<1>h. WhyKnown'
  BY DEF WhyKnown, Deciding
<1>i. NoneEscapes'
  BY DEF NoneEscapes, Handing
<1>j. LegsKnown'
  BY DEF LegsKnown
<1>k. OverMeans'
  BY DEF OverMeans
<1>l. WakesKnown'
  BY DEF WakesKnown
<1>m. Undisturbed'
  BY DEF Undisturbed, Parties
<1>n. MusicKept'
  BY DEF MusicKept, Ringing
<1> QED
  BY <1>a, <1>b, <1>c, <1>d, <1>e, <1>f, <1>g, <1>h, <1>i, <1>j, <1>k, <1>l, <1>m, <1>n DEF CallInv

(* Decided keeps the invariant.                                            *)
LEMMA DecidedKeeps ==
  ASSUME CallInv, NEW t \in Transfers, Decided(t)
  PROVE  CallInv'
<1>1. /\ tr[t].pc \in {"failed", "handed"}
      /\ UNCHANGED <<legVars, holdVars, offVars, loopVars, wakeVars, releasing, w>>
  BY DEF Decided
<1>2. Moved(t, IF tr[t].pc = "handed" THEN "done" ELSE "restore")
  BY GotoFacts DEF CallInv, Decided, Pcs
<1> USE <1>1, <1>2
       DEF legVars, partyVars, holdVars, offVars, loopVars, wakeVars, Moved, CallInv
<1>a. TypeOK'
  BY DEF TypeOK, TrRecs, Pcs, WRecs
<1>b. OneAtATime'
  BY DEF OneAtATime, InFlight
<1>c. Parties'
  BY DEF Parties, Attached, Early, Ringing
<1>d. Fresh'
  BY DEF Fresh, Before, Early
<1>e. Accounted'
  BY DEF Accounted
<1>f. ReferrerKept'
  BY DEF ReferrerKept, Early, InFlight
<1>g. OffloadKept'
  BY DEF OffloadKept, OneAtATime, InFlight
<1>h. WhyKnown'
  BY DEF WhyKnown, Deciding
<1>i. NoneEscapes'
  BY DEF NoneEscapes, Handing
<1>j. LegsKnown'
  BY DEF LegsKnown
<1>k. OverMeans'
  BY DEF OverMeans
<1>l. WakesKnown'
  BY DEF WakesKnown
<1>m. Undisturbed'
  BY DEF Undisturbed
<1>n. MusicKept'
  BY DEF MusicKept, Ringing
<1> QED
  BY <1>a, <1>b, <1>c, <1>d, <1>e, <1>f, <1>g, <1>h, <1>i, <1>j, <1>k, <1>l, <1>m, <1>n DEF CallInv

(* The party opposite is a leg or nobody.                                  *)
LEMMA OtherFacts ==
  ASSUME TypeOK, NEW l
  PROVE  /\ Other(l) \in {0} \cup Legs
         /\ l = a /\ a # b => Other(l) = b
         /\ l = b => Other(l) = a
BY DEF TypeOK, Other

(* Dial keeps the invariant: wait can hold on to the transfer, or it has   *)
(* escaped.                                                                *)
LEMMA DialKeeps ==
  ASSUME CallInv, NEW t \in Transfers, Dial(t)
  PROVE  CallInv'
<1>1. /\ tr[t].pc = "dial"
      /\ UNCHANGED <<legVars, held, offVars, swapped, gone, wakeVars, releasing, w>>
  BY DEF Dial
<1>2. /\ tr' \in [Transfers -> TrRecs]
      /\ tr'[t].pc \in {"failed", "echo", "inviting", "destination"}
      /\ tr'[t].from = tr[t].from /\ tr'[t].other = tr[t].other
      /\ tr'[t].orig = <<a, b>> /\ tr'[t].released = tr[t].released
      /\ \A u \in Transfers : u # t => tr'[u] = tr[u]
  <2> DEFINE p == CASE tr[t].target = "unknown" -> "failed"
                    [] tr[t].target = "echo" -> "echo"
                    [] tr[t].target = "trunk" -> "inviting"
                    [] OTHER -> "destination"
             r == [tr[t] EXCEPT !.orig = <<a, b>>, !.pc = p]
  <2>1. tr \in [Transfers -> TrRecs] /\ <<a, b>> \in Legs \X ({0} \cup Legs)
    BY DEF CallInv, TypeOK, TrRecs, Pcs
  <2>2. tr' = [tr EXCEPT ![t] = r]
    BY DEF Dial
  <2>3. p \in {"failed", "echo", "inviting", "destination"}
    OBVIOUS
  <2> HIDE DEF p
  <2>4. /\ r \in TrRecs /\ r.pc = p /\ r.from = tr[t].from /\ r.other = tr[t].other
        /\ r.orig = <<a, b>> /\ r.released = tr[t].released
    BY <2>1, <2>3 DEF TrRecs, Pcs
  <2> HIDE DEF r
  <2> QED
    BY <2>1, <2>2, <2>3, <2>4
<1>3. /\ player' \in {0} \cup Legs /\ heldBy' = 0 /\ handing' = t
      /\ unwatched' = IF w.pc \in {"hang", "end", "ended"} THEN unwatched \cup {t} ELSE unwatched
  BY OtherFacts DEF Dial, playLocked, CallInv
<1> USE <1>1, <1>2, <1>3
       DEF legVars, partyVars, holdVars, offVars, loopVars, wakeVars, Moved, CallInv
<1>a. TypeOK'
  BY DEF TypeOK, TrRecs, Pcs, WRecs
<1>b. OneAtATime'
  BY DEF OneAtATime, InFlight
<1>c. Parties'
  BY DEF Parties, Attached, Early, Ringing
<1>d. Fresh'
  BY DEF Fresh, Before, Early
<1>e. Accounted'
  BY DEF Accounted
<1>f. ReferrerKept'
  BY DEF ReferrerKept, Early, InFlight
<1>g. OffloadKept'
  BY DEF OffloadKept, OneAtATime, InFlight
<1>h. WhyKnown'
  BY DEF WhyKnown, Deciding
<1>i. NoneEscapes'
  <2>1. \A u \in Transfers : u # t => ~Handing(u)'
    BY DEF OneAtATime, InFlight, Handing
  <2>2. t \notin unwatched' => w.pc \notin {"hang", "end", "ended"}
    OBVIOUS
  <2> QED
    BY <2>1, <2>2 DEF NoneEscapes
<1>j. LegsKnown'
  BY LegFacts DEF LegsKnown
<1>k. OverMeans'
  BY DEF OverMeans
<1>l. WakesKnown'
  BY DEF WakesKnown
<1>m. Undisturbed'
  BY DEF Undisturbed
<1>n. MusicKept'
  BY DEF MusicKept, Ringing
<1> QED
  BY <1>a, <1>b, <1>c, <1>d, <1>e, <1>f, <1>g, <1>h, <1>i, <1>j, <1>k, <1>l, <1>m, <1>n DEF CallInv

(* TargetRings keeps the invariant: the referrer is marked and its release *)
(* is under way.                                                           *)
LEMMA TargetRingsKeeps ==
  ASSUME CallInv, NEW t \in Transfers, TargetRings(t)
  PROVE  CallInv'
<1>1. tr[t].pc = "inviting" /\ UNCHANGED <<legVars, held, offVars, loopVars, wakeVars, w>>
  BY DEF TargetRings
<1>2. /\ tr' \in [Transfers -> TrRecs]
      /\ tr'[t].pc = "inviting" /\ tr'[t].released
      /\ tr'[t].from = tr[t].from /\ tr'[t].other = tr[t].other /\ tr'[t].orig = tr[t].orig
      /\ \A u \in Transfers : u # t => tr'[u] = tr[u]
  <2> DEFINE r == [tr[t] EXCEPT !.released = TRUE]
  <2>1. tr \in [Transfers -> TrRecs]
    BY DEF CallInv, TypeOK, TrRecs, Pcs
  <2>2. tr' = [tr EXCEPT ![t] = r]
    BY DEF TargetRings
  <2>3. /\ r \in TrRecs /\ r.pc = tr[t].pc /\ r.from = tr[t].from /\ r.other = tr[t].other
        /\ r.orig = tr[t].orig /\ r.released
    BY <2>1 DEF TrRecs, Pcs
  <2> HIDE DEF r
  <2> QED
    BY <1>1, <2>1, <2>2, <2>3
<1>3. /\ player' \in {0} \cup Legs /\ heldBy' = 0
      /\ releasing' = releasing \cup {tr[t].from} /\ tr[t].from \in Legs
  BY OtherFacts, <1>1 DEF TargetRings, playLocked, CallInv, TypeOK, Parties, Attached, Ringing
<1> USE <1>1, <1>2, <1>3
       DEF legVars, partyVars, holdVars, offVars, loopVars, wakeVars, Moved, CallInv
<1>a. TypeOK'
  BY DEF TypeOK, TrRecs, Pcs, WRecs
<1>b. OneAtATime'
  BY DEF OneAtATime, InFlight
<1>c. Parties'
  BY DEF Parties, Attached, Early, Ringing
<1>d. Fresh'
  BY DEF Fresh, Before, Early
<1>e. Accounted'
  BY DEF Accounted
<1>f. ReferrerKept'
  BY DEF ReferrerKept, Early, InFlight, OneAtATime
<1>g. OffloadKept'
  BY DEF OffloadKept, OneAtATime, InFlight
<1>h. WhyKnown'
  BY DEF WhyKnown, Deciding
<1>i. NoneEscapes'
  BY DEF NoneEscapes, Handing
<1>j. LegsKnown'
  BY DEF LegsKnown
<1>k. OverMeans'
  BY DEF OverMeans
<1>l. WakesKnown'
  BY DEF WakesKnown
<1>m. Undisturbed'
  BY DEF Undisturbed
<1>n. MusicKept'
  BY DEF MusicKept, Ringing
<1> QED
  BY <1>a, <1>b, <1>c, <1>d, <1>e, <1>f, <1>g, <1>h, <1>i, <1>j, <1>k, <1>l, <1>m, <1>n DEF CallInv

(* InviteFails keeps the invariant.                                        *)
LEMMA InviteFailsKeeps ==
  ASSUME CallInv, NEW t \in Transfers, InviteFails(t)
  PROVE  CallInv'
<1>1. /\ tr[t].pc = "inviting"
      /\ UNCHANGED <<legVars, held, offVars, loopVars, wakeVars, releasing, w>>
  BY DEF InviteFails
<1>2. PICK p \in {"busy", "failed"} :
        /\ Moved(t, p)
        /\ IF p = "busy" THEN tr[t].released /\ player' \in {0} \cup Legs /\ heldBy' = 0
                         ELSE UNCHANGED <<heldBy, player>>
  <2>1. CASE tr[t].released
    <3>1. goto(t, "busy") /\ playLocked(tr[t].from, 0)
      BY <2>1 DEF InviteFails
    <3> QED
      BY <2>1, <3>1, GotoFacts, OtherFacts DEF CallInv, Pcs, playLocked
  <2>2. CASE ~tr[t].released
    <3>1. goto(t, "failed") /\ UNCHANGED <<heldBy, player>>
      BY <2>2 DEF InviteFails
    <3> QED
      BY <3>1, GotoFacts DEF CallInv, Pcs
  <2> QED
    BY <2>1, <2>2
<1> USE <1>1, <1>2
       DEF legVars, partyVars, holdVars, offVars, loopVars, wakeVars, Moved, CallInv
<1>a. TypeOK'
  BY DEF TypeOK, TrRecs, Pcs, WRecs
<1>b. OneAtATime'
  BY DEF OneAtATime, InFlight
<1>c. Parties'
  BY DEF Parties, Attached, Early, Ringing
<1>d. Fresh'
  BY DEF Fresh, Before, Early
<1>e. Accounted'
  BY DEF Accounted
<1>f. ReferrerKept'
  BY DEF ReferrerKept, Early, InFlight
<1>g. OffloadKept'
  BY DEF OffloadKept, OneAtATime, InFlight
<1>h. WhyKnown'
  BY DEF WhyKnown, Deciding
<1>i. NoneEscapes'
  BY DEF NoneEscapes, Handing
<1>j. LegsKnown'
  BY DEF LegsKnown
<1>k. OverMeans'
  BY DEF OverMeans
<1>l. WakesKnown'
  BY DEF WakesKnown
<1>m. Undisturbed'
  BY DEF Undisturbed
<1>n. MusicKept'
  BY DEF MusicKept, Ringing
<1> QED
  BY <1>a, <1>b, <1>c, <1>d, <1>e, <1>f, <1>g, <1>h, <1>i, <1>j, <1>k, <1>l, <1>m, <1>n DEF CallInv

(* Swap keeps the invariant: the referrer that leaves the call is released *)
(* or about to be.                                                         *)
LEMMA SwapKeeps ==
  ASSUME CallInv, NEW t \in Transfers, Swap(t)
  PROVE  CallInv'
<1>1. /\ tr[t].pc \in {"answered", "echo"} /\ player' = 0 /\ heldBy' = 0 /\ swapped' = TRUE
      /\ UNCHANGED <<up, partyVars, held, offVars, gone, handing, unwatched, wakeVars, releasing, w>>
  BY DEF Swap, stopHoldLocked
<1>2. Moved(t, IF tr[t].released THEN "handed" ELSE "bridged")
  BY GotoFacts DEF CallInv, Swap, Pcs
<1>3. /\ a' = tr[t].other /\ a' \in {a, b} /\ a' \in Legs
      /\ {tr[t].from, tr[t].other} = {a, b}
      /\ b' = 0 \/ (tr[t].pc = "answered" /\ b' = NewLeg(t))
  <2>1. /\ {tr[t].from, tr[t].other} = {a, b} /\ tr[t].from # tr[t].other /\ tr[t].other # 0
        /\ tr[t].other \in {0} \cup Legs
    BY <1>1 DEF CallInv, Parties, Attached, Ringing, TypeOK
  <2>2. a' = IF tr[t].from = a THEN tr[t].other ELSE a
    BY DEF Swap
  <2>3. b' = IF tr[t].pc = "echo" THEN 0 ELSE NewLeg(t)
    BY DEF Swap
  <2> QED
    BY <1>1, <2>1, <2>2, <2>3
<1> USE <1>1, <1>2, <1>3
       DEF legVars, partyVars, holdVars, offVars, loopVars, wakeVars, Moved, CallInv
<1>a. TypeOK'
  BY NewLegFacts DEF TypeOK, TrRecs, Pcs, WRecs
<1>b. OneAtATime'
  BY DEF OneAtATime, InFlight
<1>c. Parties'
  BY NewLegFacts, LegFacts DEF Parties, Fresh, OneAtATime, InFlight, Attached, Early, Ringing
<1>d. Fresh'
  BY NewLegFacts, LegFacts DEF Fresh, Before, Early
<1>e. Accounted'
  <2> SUFFICES ASSUME NEW l \in up \ silent, l \notin {tr[t].other, b'} \cup releasing
               PROVE  tr'[t].pc = "bridged" /\ l = tr'[t].from
    BY DEF Accounted
  <2>1. \A u \in Transfers : u # t => ~InFlight(u)
    BY DEF OneAtATime, InFlight
  <2>2. l \in {a, b} \/ (tr[t].pc = "answered" /\ l = NewLeg(t))
    BY <2>1 DEF Accounted, InFlight
  <2>3. l = tr[t].from
    BY <2>2 DEF Swap
  <2>4. ~tr[t].released
    BY <2>3 DEF ReferrerKept, InFlight
  <2> QED
    BY <2>3, <2>4
<1>f. ReferrerKept'
  BY DEF ReferrerKept, Early, InFlight
<1>g. OffloadKept'
  BY DEF OffloadKept, OneAtATime, InFlight
<1>h. WhyKnown'
  BY DEF WhyKnown, Deciding
<1>i. NoneEscapes'
  BY DEF NoneEscapes, Handing
<1>j. LegsKnown'
  BY LegFacts DEF LegsKnown, NoneEscapes, Handing
<1>k. OverMeans'
  BY DEF OverMeans, NoneEscapes, Handing
<1>l. WakesKnown'
  BY DEF WakesKnown
<1>m. Undisturbed'
  BY NewLegFacts DEF Undisturbed
<1>n. MusicKept'
  BY DEF MusicKept, Ringing
<1> QED
  BY <1>a, <1>b, <1>c, <1>d, <1>e, <1>f, <1>g, <1>h, <1>i, <1>j, <1>k, <1>l, <1>m, <1>n DEF CallInv

(* Restore keeps the invariant: what plays after it is a hold on record.   *)
LEMMA RestoreKeeps ==
  ASSUME CallInv, NEW t \in Transfers, Restore(t)
  PROVE  CallInv'
<1>1. /\ tr[t].pc = "restore"
      /\ UNCHANGED <<legVars, held, offVars, loopVars, wakeVars, releasing, w>>
  BY DEF Restore
<1>2. Moved(t, "done")
  BY GotoFacts DEF CallInv, Restore, Pcs
<1>3. /\ tr[t].orig = <<a, b>> /\ tr[t].from \in Legs
  BY <1>1 DEF CallInv, Parties, Attached, Ringing, TypeOK
<1>4. /\ player' \in {0} \cup Legs /\ heldBy' \in {0} \cup Legs
      /\ player' # 0 <=> heldBy' # 0
  <2>1. CASE ~tr[t].released /\ tr[t].from \in held
    <3>1. playLocked(tr[t].from, tr[t].from)
      BY <2>1, <1>3 DEF Restore
    <3> QED
      BY <3>1, <1>3, OtherFacts, LegFacts DEF playLocked, CallInv
  <2>2. CASE ~(~tr[t].released /\ tr[t].from \in held)
    <3>1. stopHoldLocked
      BY <2>2, <1>3 DEF Restore
    <3> QED
      BY <3>1 DEF stopHoldLocked
  <2> QED
    BY <2>1, <2>2
<1> USE <1>1, <1>2, <1>3, <1>4
       DEF legVars, partyVars, holdVars, offVars, loopVars, wakeVars, Moved, CallInv
<1>a. TypeOK'
  BY DEF TypeOK, TrRecs, Pcs, WRecs
<1>b. OneAtATime'
  BY DEF OneAtATime, InFlight
<1>c. Parties'
  BY DEF Parties, Attached, Early, Ringing
<1>d. Fresh'
  BY DEF Fresh, Before, Early
<1>e. Accounted'
  BY DEF Accounted
<1>f. ReferrerKept'
  BY DEF ReferrerKept, Early, InFlight
<1>g. OffloadKept'
  BY DEF OffloadKept, OneAtATime, InFlight
<1>h. WhyKnown'
  BY DEF WhyKnown, Deciding
<1>i. NoneEscapes'
  BY DEF NoneEscapes, Handing
<1>j. LegsKnown'
  BY DEF LegsKnown
<1>k. OverMeans'
  BY DEF OverMeans
<1>l. WakesKnown'
  BY DEF WakesKnown
<1>m. Undisturbed'
  BY DEF Undisturbed
<1>n. MusicKept'
  BY DEF MusicKept, Ringing
<1> QED
  BY <1>a, <1>b, <1>c, <1>d, <1>e, <1>f, <1>g, <1>h, <1>i, <1>j, <1>k, <1>l, <1>m, <1>n DEF CallInv

(* Refer keeps the invariant: only a party of the call is there to ask.    *)
LEMMA ReferKeeps ==
  ASSUME CallInv, ~Overlap, NEW t \in Transfers, NEW f \in Legs, NEW target \in Targets,
         Refer(t, f, target)
  PROVE  CallInv'
<1>1. /\ tr[t].pc = "idle" /\ f \in up \ silent /\ releasing = {}
      /\ \A u \in Transfers : ~InFlight(u)
      /\ UNCHANGED <<legVars, holdVars, offVars, loopVars, wakeVars, releasing, w>>
  BY DEF Refer
<1>2. f \in {a, b}
  BY <1>1 DEF CallInv, Accounted, InFlight
<1>3. /\ Other(f) \in {0} \cup Legs /\ f # 0 /\ f # Other(f) /\ {f, Other(f)} = {a, b}
  BY <1>2, OtherFacts, LegFacts DEF CallInv, Parties
<1>4. /\ tr' \in [Transfers -> TrRecs]
      /\ tr'[t].pc \in {"done", "refer", "dial"} /\ tr'[t].released = tr[t].released
      /\ tr'[t].pc # "done" => Other(f) # 0
      /\ tr'[t].from = f /\ tr'[t].other = Other(f) /\ tr'[t].orig = tr[t].orig
      /\ \A u \in Transfers : u # t => tr'[u] = tr[u]
  <2> DEFINE p == CASE Other(f) = 0 -> "done"
                    [] Other(f) # 0 /\ shouldOffload(Other(f), target) -> "refer"
                    [] OTHER -> "dial"
             r == [tr[t] EXCEPT !.from = f, !.other = Other(f), !.target = target, !.pc = p]
  <2>1. tr \in [Transfers -> TrRecs] /\ target \in {"unknown", "echo", "trunk", "local"}
    BY BridgedAssumption DEF CallInv, TypeOK, TrRecs, Pcs
  <2>2. tr' = [tr EXCEPT ![t] = r]
    BY DEF Refer
  <2>3. p \in {"done", "refer", "dial"} /\ (p # "done" => Other(f) # 0)
    OBVIOUS
  <2> HIDE DEF p
  <2>4. /\ r \in TrRecs /\ r.pc = p /\ r.from = f /\ r.other = Other(f)
        /\ r.orig = tr[t].orig /\ r.released = tr[t].released
    BY <1>3, <2>1, <2>3 DEF TrRecs, Pcs
  <2> HIDE DEF r
  <2> QED
    BY <2>1, <2>2, <2>3, <2>4
<1> USE <1>1, <1>2, <1>3, <1>4
       DEF legVars, partyVars, holdVars, offVars, loopVars, wakeVars, Moved, CallInv
<1>a. TypeOK'
  BY DEF TypeOK, TrRecs, Pcs, WRecs
<1>b. OneAtATime'
  BY DEF OneAtATime, InFlight
<1>c. Parties'
  BY DEF Parties, Attached, Early, Ringing
<1>d. Fresh'
  BY DEF Fresh, Before, Early
<1>e. Accounted'
  BY DEF Accounted
<1>f. ReferrerKept'
  BY DEF ReferrerKept, Early, InFlight
<1>g. OffloadKept'
  BY DEF OffloadKept, OneAtATime, InFlight
<1>h. WhyKnown'
  BY DEF WhyKnown, Deciding
<1>i. NoneEscapes'
  BY DEF NoneEscapes, Handing
<1>j. LegsKnown'
  BY DEF LegsKnown
<1>k. OverMeans'
  BY DEF OverMeans
<1>l. WakesKnown'
  BY DEF WakesKnown
<1>m. Undisturbed'
  BY DEF Undisturbed
<1>n. MusicKept'
  BY DEF MusicKept, Ringing
<1> QED
  BY <1>a, <1>b, <1>c, <1>d, <1>e, <1>f, <1>g, <1>h, <1>i, <1>j, <1>k, <1>l, <1>m, <1>n DEF CallInv

(* Watch keeps the invariant: wait looks at the legs as they are.          *)
LEMMA WatchKeeps ==
  ASSUME CallInv, Watch
  PROVE  CallInv'
<1>1. /\ w.pc = "watch"
      /\ UNCHANGED <<legVars, holdVars, offVars, loopVars, wakeVars, releasing, tr>>
  BY DEF Watch
<1>2. w' \in WRecs /\ w'.pc = "select" /\ w'.a = a /\ w'.b = b /\ w'.why = w.why /\ w'.ch = w.ch
  BY DEF Watch, CallInv, TypeOK, WRecs
<1> USE <1>1, <1>2
       DEF legVars, partyVars, holdVars, offVars, loopVars, wakeVars, Moved, CallInv
<1>a. TypeOK'
  BY DEF TypeOK, TrRecs, Pcs, WRecs
<1>b. OneAtATime'
  BY DEF OneAtATime, InFlight
<1>c. Parties'
  BY DEF Parties, Attached, Early, Ringing
<1>d. Fresh'
  BY DEF Fresh, Before, Early
<1>e. Accounted'
  BY DEF Accounted
<1>f. ReferrerKept'
  BY DEF ReferrerKept, Early, InFlight
<1>g. OffloadKept'
  BY DEF OffloadKept, OneAtATime, InFlight
<1>h. WhyKnown'
  BY DEF WhyKnown, Deciding
<1>i. NoneEscapes'
  BY DEF NoneEscapes, Handing
<1>j. LegsKnown'
  BY DEF LegsKnown
<1>k. OverMeans'
  BY DEF OverMeans
<1>l. WakesKnown'
  BY DEF WakesKnown
<1>m. Undisturbed'
  BY DEF Undisturbed
<1>n. MusicKept'
  BY DEF MusicKept, Ringing
<1> QED
  BY <1>a, <1>b, <1>c, <1>d, <1>e, <1>f, <1>g, <1>h, <1>i, <1>j, <1>k, <1>l, <1>m, <1>n DEF CallInv

(* Select keeps the invariant.                                             *)
LEMMA SelectKeeps ==
  ASSUME CallInv, NEW why \in {"a", "b", "gone"}, Select(why)
  PROVE  CallInv'
<1>1. /\ w.pc = "select"
      /\ UNCHANGED <<legVars, holdVars, offVars, loopVars, wakeVars, releasing, tr>>
  BY DEF Select
<1>2. w' \in WRecs /\ w'.pc = "offload" /\ w'.a = w.a /\ w'.b = w.b /\ w'.why = why /\ w'.ch = w.ch
  BY DEF Select, CallInv, TypeOK, WRecs
<1>3. \/ why = "a" /\ w.a \notin up
      \/ why = "b" /\ w.b # 0 /\ w.b \notin up
      \/ why = "gone" /\ gone
  BY DEF Select
<1> USE <1>1, <1>2, <1>3
       DEF legVars, partyVars, holdVars, offVars, loopVars, wakeVars, Moved, CallInv
<1>a. TypeOK'
  BY DEF TypeOK, TrRecs, Pcs, WRecs
<1>b. OneAtATime'
  BY DEF OneAtATime, InFlight
<1>c. Parties'
  BY DEF Parties, Attached, Early, Ringing
<1>d. Fresh'
  BY DEF Fresh, Before, Early
<1>e. Accounted'
  BY DEF Accounted
<1>f. ReferrerKept'
  BY DEF ReferrerKept, Early, InFlight
<1>g. OffloadKept'
  BY DEF OffloadKept, OneAtATime, InFlight
<1>h. WhyKnown'
  BY DEF WhyKnown, Deciding
<1>i. NoneEscapes'
  BY DEF NoneEscapes, Handing
<1>j. LegsKnown'
  BY DEF LegsKnown
<1>k. OverMeans'
  BY DEF OverMeans
<1>l. WakesKnown'
  BY DEF WakesKnown
<1>m. Undisturbed'
  BY DEF Undisturbed
<1>n. MusicKept'
  BY DEF MusicKept, Ringing
<1> QED
  BY <1>a, <1>b, <1>c, <1>d, <1>e, <1>f, <1>g, <1>h, <1>i, <1>j, <1>k, <1>l, <1>m, <1>n DEF CallInv

(* Swapped keeps the invariant.                                            *)
LEMMA SwappedKeeps ==
  ASSUME CallInv, Swapped
  PROVE  CallInv'
<1>1. /\ w.pc = "select" /\ swapped' = FALSE
      /\ UNCHANGED <<legVars, holdVars, offVars, gone, handing, unwatched, wakeVars, releasing, tr>>
  BY DEF Swapped
<1>2. w' \in WRecs /\ w'.pc = "watch" /\ w'.a = w.a /\ w'.b = w.b /\ w'.why = w.why /\ w'.ch = w.ch
  BY DEF Swapped, CallInv, TypeOK, WRecs
<1> USE <1>1, <1>2
       DEF legVars, partyVars, holdVars, offVars, loopVars, wakeVars, Moved, CallInv
<1>a. TypeOK'
  BY DEF TypeOK, TrRecs, Pcs, WRecs
<1>b. OneAtATime'
  BY DEF OneAtATime, InFlight
<1>c. Parties'
  BY DEF Parties, Attached, Early, Ringing
<1>d. Fresh'
  BY DEF Fresh, Before, Early
<1>e. Accounted'
  BY DEF Accounted
<1>f. ReferrerKept'
  BY DEF ReferrerKept, Early, InFlight
<1>g. OffloadKept'
  BY DEF OffloadKept, OneAtATime, InFlight
<1>h. WhyKnown'
  BY DEF WhyKnown, Deciding
<1>i. NoneEscapes'
  BY DEF NoneEscapes, Handing
<1>j. LegsKnown'
  BY DEF LegsKnown
<1>k. OverMeans'
  BY DEF OverMeans
<1>l. WakesKnown'
  BY DEF WakesKnown
<1>m. Undisturbed'
  BY DEF Undisturbed
<1>n. MusicKept'
  BY DEF MusicKept, Ringing
<1> QED
  BY <1>a, <1>b, <1>c, <1>d, <1>e, <1>f, <1>g, <1>h, <1>i, <1>j, <1>k, <1>l, <1>m, <1>n DEF CallInv

(* awaitOffload keeps the invariant: an offload that succeeded has left    *)
(* nobody on the call.                                                     *)
LEMMA AwaitOffloadKeeps ==
  ASSUME CallInv, awaitOffload
  PROVE  CallInv'
<1>1. /\ w.pc \in {"offload", "offloadWait"}
      /\ UNCHANGED <<legVars, holdVars, offVars, loopVars, wakeVars, releasing, tr>>
  BY DEF awaitOffload
<1>2. /\ w' \in WRecs /\ w'.a = w.a /\ w'.b = w.b /\ w'.why = w.why
      /\ w'.pc \in {"offloadWait", "handover", "end"} /\ (w'.pc = "end" => offloaded)
  BY DEF awaitOffload, CallInv, TypeOK, WRecs
<1> USE <1>1, <1>2
       DEF legVars, partyVars, holdVars, offVars, loopVars, wakeVars, Moved, CallInv
<1>a. TypeOK'
  BY DEF TypeOK, TrRecs, Pcs, WRecs
<1>b. OneAtATime'
  BY DEF OneAtATime, InFlight
<1>c. Parties'
  BY DEF Parties, Attached, Early, Ringing
<1>d. Fresh'
  BY DEF Fresh, Before, Early
<1>e. Accounted'
  BY DEF Accounted
<1>f. ReferrerKept'
  BY DEF ReferrerKept, Early, InFlight
<1>g. OffloadKept'
  BY DEF OffloadKept, OneAtATime, InFlight
<1>h. WhyKnown'
  BY DEF WhyKnown, Deciding
<1>i. NoneEscapes'
  BY DEF NoneEscapes, Handing, OffloadKept, InFlight
<1>j. LegsKnown'
  BY DEF LegsKnown
<1>k. OverMeans'
  BY DEF OverMeans, OffloadKept
<1>l. WakesKnown'
  BY DEF WakesKnown
<1>m. Undisturbed'
  BY DEF Undisturbed
<1>n. MusicKept'
  BY DEF MusicKept, Ringing
<1> QED
  BY <1>a, <1>b, <1>c, <1>d, <1>e, <1>f, <1>g, <1>h, <1>i, <1>j, <1>k, <1>l, <1>m, <1>n DEF CallInv

(* awaitHandover keeps the invariant: it goes on to hang up only when it   *)
(* knows of no transfer.                                                   *)
LEMMA AwaitHandoverKeeps ==
  ASSUME CallInv, awaitHandover
  PROVE  CallInv'
<1>1. UNCHANGED <<legVars, holdVars, offVars, swapped, gone, wakeVars, releasing, tr>>
  BY DEF awaitHandover
<1>2. /\ w' \in WRecs /\ w'.a = w.a /\ w'.b = w.b /\ w'.why = w.why
      /\ \/ w.pc = "handover" /\ w'.pc = "hang" /\ handing = 0 /\ UNCHANGED <<handing, unwatched>>
         \/ w.pc = "handover" /\ w'.pc = "handoverWait" /\ UNCHANGED <<handing, unwatched>>
         \/ /\ w.pc = "handoverWait" /\ w'.pc = "watch" /\ handing' = 0
            /\ unwatched' = unwatched \cup {t \in Transfers : t = handing /\ Handing(t)}
  BY DEF awaitHandover, CallInv, TypeOK, WRecs
<1> USE <1>1, <1>2
       DEF legVars, partyVars, holdVars, offVars, loopVars, wakeVars, Moved, CallInv
<1>a. TypeOK'
  BY DEF TypeOK, TrRecs, Pcs, WRecs
<1>b. OneAtATime'
  BY DEF OneAtATime, InFlight
<1>c. Parties'
  BY DEF Parties, Attached, Early, Ringing
<1>d. Fresh'
  BY DEF Fresh, Before, Early
<1>e. Accounted'
  BY DEF Accounted
<1>f. ReferrerKept'
  BY DEF ReferrerKept, Early, InFlight
<1>g. OffloadKept'
  BY DEF OffloadKept, OneAtATime, InFlight
<1>h. WhyKnown'
  BY DEF WhyKnown, Deciding
<1>i. NoneEscapes'
  <2> SUFFICES ASSUME NEW t \in Transfers, t \notin unwatched', Handing(t)
               PROVE  handing' = t /\ w'.pc \notin {"hang", "end", "ended"}
    BY DEF NoneEscapes, Handing
  <2>1. handing = t /\ t # 0 /\ t \notin unwatched
    BY LegFacts DEF NoneEscapes
  <2> QED
    BY <2>1
<1>j. LegsKnown'
  BY DEF LegsKnown
<1>k. OverMeans'
  BY DEF OverMeans
<1>l. WakesKnown'
  BY DEF WakesKnown
<1>m. Undisturbed'
  BY DEF Undisturbed
<1>n. MusicKept'
  BY DEF MusicKept, Ringing
<1> QED
  BY <1>a, <1>b, <1>c, <1>d, <1>e, <1>f, <1>g, <1>h, <1>i, <1>j, <1>k, <1>l, <1>m, <1>n DEF CallInv

(* HangUp keeps the invariant: both legs of the call have ended.           *)
LEMMA HangUpKeeps ==
  ASSUME CallInv, HangUp
  PROVE  CallInv'
<1>1. /\ w.pc = "hang"
      /\ UNCHANGED <<a, b, partyVars, holdVars, offVars, loopVars, wakeVars, releasing, tr>>
  BY DEF HangUp
<1>2. w' \in WRecs /\ w'.pc = "end" /\ w'.a = w.a /\ w'.b = w.b /\ w'.why = w.why
  BY DEF HangUp, CallInv, TypeOK, WRecs
<1>3. /\ up' \subseteq up
      /\ {w.a, w.b} \cap up' \subseteq silent
  <2>1. w.why \in {"a", "b", "gone"}
    BY DEF CallInv, TypeOK
  <2>2. CASE w.why = "a"
    BY <1>1, <2>2 DEF HangUp, HungUp, CallInv, WhyKnown, Deciding
  <2>3. CASE w.why = "b"
    BY <1>1, <2>3 DEF HangUp, HungUp, CallInv, WhyKnown, Deciding
  <2>4. CASE w.why = "gone"
    BY <2>4 DEF HangUp, HungUp
  <2> QED
    BY <2>1, <2>2, <2>3, <2>4
<1> USE <1>1, <1>2, <1>3
       DEF legVars, partyVars, holdVars, offVars, loopVars, wakeVars, Moved, CallInv
<1>a. TypeOK'
  BY DEF TypeOK, TrRecs, Pcs, WRecs
<1>b. OneAtATime'
  BY DEF OneAtATime, InFlight
<1>c. Parties'
  BY DEF Parties, Attached, Early, Ringing
<1>d. Fresh'
  BY DEF Fresh, Before, Early
<1>e. Accounted'
  BY DEF Accounted
<1>f. ReferrerKept'
  BY DEF ReferrerKept, Early, InFlight
<1>g. OffloadKept'
  BY DEF OffloadKept, InFlight
<1>h. WhyKnown'
  BY DEF WhyKnown, Deciding
<1>i. NoneEscapes'
  BY DEF NoneEscapes, Handing
<1>j. LegsKnown'
  BY DEF LegsKnown
<1>k. OverMeans'
  BY DEF OverMeans, LegsKnown
<1>l. WakesKnown'
  BY DEF WakesKnown
<1>m. Undisturbed'
  BY DEF Undisturbed
<1>n. MusicKept'
  BY DEF MusicKept, Ringing
<1> QED
  BY <1>a, <1>b, <1>c, <1>d, <1>e, <1>f, <1>g, <1>h, <1>i, <1>j, <1>k, <1>l, <1>m, <1>n DEF CallInv

(* EndCall keeps the invariant: every wake is forgotten.                   *)
LEMMA EndCallKeeps ==
  ASSUME CallInv, EndCall
  PROVE  CallInv'
<1>1. /\ w.pc = "end" /\ wakes' = wakes \ woken
      /\ UNCHANGED <<legVars, holdVars, offVars, loopVars, woken, releasing, tr>>
  BY DEF EndCall
<1>2. w' \in WRecs /\ w'.pc = "ended" /\ w'.a = w.a /\ w'.b = w.b /\ w'.why = w.why
  BY DEF EndCall, CallInv, TypeOK, WRecs
<1> USE <1>1, <1>2
       DEF legVars, partyVars, holdVars, offVars, loopVars, wakeVars, Moved, CallInv
<1>a. TypeOK'
  BY DEF TypeOK, TrRecs, Pcs, WRecs
<1>b. OneAtATime'
  BY DEF OneAtATime, InFlight
<1>c. Parties'
  BY DEF Parties, Attached, Early, Ringing
<1>d. Fresh'
  BY DEF Fresh, Before, Early
<1>e. Accounted'
  BY DEF Accounted
<1>f. ReferrerKept'
  BY DEF ReferrerKept, Early, InFlight
<1>g. OffloadKept'
  BY DEF OffloadKept, OneAtATime, InFlight
<1>h. WhyKnown'
  BY DEF WhyKnown, Deciding
<1>i. NoneEscapes'
  BY DEF NoneEscapes, Handing
<1>j. LegsKnown'
  BY DEF LegsKnown
<1>k. OverMeans'
  <2>1. unwatched = {} => \A t \in Transfers : tr[t].pc # "waking"
    BY DEF NoneEscapes, Handing
  <2>2. unwatched = {} => wakes' = {}
    BY <2>1 DEF WakesKnown, TypeOK
  <2> QED
    BY <2>2 DEF OverMeans
<1>l. WakesKnown'
  BY DEF WakesKnown
<1>m. Undisturbed'
  BY DEF Undisturbed
<1>n. MusicKept'
  BY DEF MusicKept, Ringing
<1> QED
  BY <1>a, <1>b, <1>c, <1>d, <1>e, <1>f, <1>g, <1>h, <1>i, <1>j, <1>k, <1>l, <1>m, <1>n DEF CallInv

(* Hold keeps the invariant.                                               *)
LEMMA HoldKeeps ==
  ASSUME CallInv, NEW l \in Legs, Hold(l)
  PROVE  CallInv'
<1>1. /\ held' \subseteq Legs
      /\ UNCHANGED <<legVars, offVars, loopVars, wakeVars, releasing, w, tr>>
  BY DEF Hold, CallInv, TypeOK
<1>2. /\ player' \in {0} \cup Legs /\ heldBy' \in {0} \cup Legs
      /\ \/ UNCHANGED <<heldBy, player>>
         \/ player' # 0 <=> heldBy' # 0
  <2>1. CASE playLocked(l, l)
    BY <2>1, OtherFacts, LegFacts DEF playLocked, CallInv
  <2>2. CASE stopHoldLocked
    BY <2>2 DEF stopHoldLocked
  <2>3. CASE UNCHANGED <<heldBy, player>>
    BY <2>3 DEF CallInv, TypeOK
  <2>4. playLocked(l, l) \/ stopHoldLocked \/ UNCHANGED <<heldBy, player>>
    BY DEF Hold, setHeld
  <2> QED
    BY <2>1, <2>2, <2>3, <2>4
<1> USE <1>1, <1>2
       DEF legVars, partyVars, holdVars, offVars, loopVars, wakeVars, Moved, CallInv
<1>a. TypeOK'
  BY DEF TypeOK, TrRecs, Pcs, WRecs
<1>b. OneAtATime'
  BY DEF OneAtATime, InFlight
<1>c. Parties'
  BY DEF Parties, Attached, Early, Ringing
<1>d. Fresh'
  BY DEF Fresh, Before, Early
<1>e. Accounted'
  BY DEF Accounted
<1>f. ReferrerKept'
  BY DEF ReferrerKept, Early, InFlight
<1>g. OffloadKept'
  BY DEF OffloadKept, OneAtATime, InFlight
<1>h. WhyKnown'
  BY DEF WhyKnown, Deciding
<1>i. NoneEscapes'
  BY DEF NoneEscapes, Handing
<1>j. LegsKnown'
  BY DEF LegsKnown
<1>k. OverMeans'
  BY DEF OverMeans
<1>l. WakesKnown'
  BY DEF WakesKnown
<1>m. Undisturbed'
  BY DEF Undisturbed
<1>n. MusicKept'
  BY DEF MusicKept, Ringing
<1> QED
  BY <1>a, <1>b, <1>c, <1>d, <1>e, <1>f, <1>g, <1>h, <1>i, <1>j, <1>k, <1>l, <1>m, <1>n DEF CallInv

(* Bye keeps the invariant.                                                *)
LEMMA ByeKeeps ==
  ASSUME CallInv, NEW l \in Legs, Bye(l)
  PROVE  CallInv'
<1>1. /\ l \in up /\ up' = up \ {l} /\ left' = TRUE
      /\ UNCHANGED <<a, b, silent, holdVars, offVars, loopVars, wakeVars, releasing, w, tr>>
  BY DEF Bye
<1> USE <1>1
       DEF legVars, partyVars, holdVars, offVars, loopVars, wakeVars, Moved, CallInv
<1>a. TypeOK'
  BY DEF TypeOK, TrRecs, Pcs, WRecs
<1>b. OneAtATime'
  BY DEF OneAtATime, InFlight
<1>c. Parties'
  BY DEF Parties, Attached, Early, Ringing
<1>d. Fresh'
  BY DEF Fresh, Before, Early
<1>e. Accounted'
  BY DEF Accounted
<1>f. ReferrerKept'
  BY DEF ReferrerKept, Early, InFlight
<1>g. OffloadKept'
  BY DEF OffloadKept, InFlight
<1>h. WhyKnown'
  BY DEF WhyKnown, Deciding
<1>i. NoneEscapes'
  BY DEF NoneEscapes, Handing
<1>j. LegsKnown'
  BY DEF LegsKnown
<1>k. OverMeans'
  BY DEF OverMeans
<1>l. WakesKnown'
  BY DEF WakesKnown
<1>m. Undisturbed'
  BY DEF Undisturbed
<1>n. MusicKept'
  BY DEF MusicKept, Ringing
<1> QED
  BY <1>a, <1>b, <1>c, <1>d, <1>e, <1>f, <1>g, <1>h, <1>i, <1>j, <1>k, <1>l, <1>m, <1>n DEF CallInv

(* Vanish keeps the invariant.                                             *)
LEMMA VanishKeeps ==
  ASSUME CallInv, NEW l \in Legs, Vanish(l)
  PROVE  CallInv'
<1>1. /\ silent = {} /\ silent' = silent \cup {l}
      /\ UNCHANGED <<a, b, up, left, holdVars, offVars, loopVars, wakeVars, releasing, w, tr>>
  BY DEF Vanish
<1> USE <1>1
       DEF legVars, partyVars, holdVars, offVars, loopVars, wakeVars, Moved, CallInv
<1>a. TypeOK'
  BY DEF TypeOK, TrRecs, Pcs, WRecs
<1>b. OneAtATime'
  BY DEF OneAtATime, InFlight
<1>c. Parties'
  BY DEF Parties, Attached, Early, Ringing
<1>d. Fresh'
  BY DEF Fresh, Before, Early
<1>e. Accounted'
  BY DEF Accounted
<1>f. ReferrerKept'
  BY DEF ReferrerKept, Early, InFlight
<1>g. OffloadKept'
  BY DEF OffloadKept, InFlight
<1>h. WhyKnown'
  BY DEF WhyKnown, Deciding
<1>i. NoneEscapes'
  BY DEF NoneEscapes, Handing
<1>j. LegsKnown'
  BY DEF LegsKnown
<1>k. OverMeans'
  BY DEF OverMeans
<1>l. WakesKnown'
  BY DEF WakesKnown
<1>m. Undisturbed'
  BY DEF Undisturbed
<1>n. MusicKept'
  BY DEF MusicKept, Ringing
<1> QED
  BY <1>a, <1>b, <1>c, <1>d, <1>e, <1>f, <1>g, <1>h, <1>i, <1>j, <1>k, <1>l, <1>m, <1>n DEF CallInv

(* qualifyLegs keeps the invariant.                                        *)
LEMMA QualifyLegsKeeps ==
  ASSUME CallInv, NEW l \in Legs, qualifyLegs(l)
  PROVE  CallInv'
<1>1. /\ l \in silent /\ gone' = TRUE
      /\ UNCHANGED <<legVars, holdVars, offVars, swapped, handing, unwatched, wakeVars, releasing, w, tr>>
  BY DEF qualifyLegs
<1> USE <1>1
       DEF legVars, partyVars, holdVars, offVars, loopVars, wakeVars, Moved, CallInv
<1>a. TypeOK'
  BY DEF TypeOK, TrRecs, Pcs, WRecs
<1>b. OneAtATime'
  BY DEF OneAtATime, InFlight
<1>c. Parties'
  BY DEF Parties, Attached, Early, Ringing
<1>d. Fresh'
  BY DEF Fresh, Before, Early
<1>e. Accounted'
  BY DEF Accounted
<1>f. ReferrerKept'
  BY DEF ReferrerKept, Early, InFlight
<1>g. OffloadKept'
  BY DEF OffloadKept, InFlight
<1>h. WhyKnown'
  BY DEF WhyKnown, Deciding
<1>i. NoneEscapes'
  BY DEF NoneEscapes, Handing
<1>j. LegsKnown'
  BY DEF LegsKnown
<1>k. OverMeans'
  BY DEF OverMeans
<1>l. WakesKnown'
  BY DEF WakesKnown
<1>m. Undisturbed'
  BY DEF Undisturbed
<1>n. MusicKept'
  BY DEF MusicKept, Ringing
<1> QED
  BY <1>a, <1>b, <1>c, <1>d, <1>e, <1>f, <1>g, <1>h, <1>i, <1>j, <1>k, <1>l, <1>m, <1>n DEF CallInv

(* releaseReferrer keeps the invariant: the leg has ended or its party has *)
(* vanished.                                                               *)
LEMMA ReleaseReferrerKeeps ==
  ASSUME CallInv, NEW l \in Legs, releaseReferrer(l)
  PROVE  CallInv'
<1>1. /\ l \in releasing /\ releasing' = releasing \ {l} /\ up' = up \ ({l} \ silent)
      /\ UNCHANGED <<a, b, partyVars, holdVars, offVars, loopVars, wakeVars, w, tr>>
  BY DEF releaseReferrer, HungUp
<1> USE <1>1
       DEF legVars, partyVars, holdVars, offVars, loopVars, wakeVars, Moved, CallInv
<1>a. TypeOK'
  BY DEF TypeOK, TrRecs, Pcs, WRecs
<1>b. OneAtATime'
  BY DEF OneAtATime, InFlight
<1>c. Parties'
  BY DEF Parties, Attached, Early, Ringing
<1>d. Fresh'
  BY DEF Fresh, Before, Early
<1>e. Accounted'
  BY DEF Accounted
<1>f. ReferrerKept'
  BY DEF ReferrerKept, Early, InFlight
<1>g. OffloadKept'
  BY DEF OffloadKept, InFlight
<1>h. WhyKnown'
  BY DEF WhyKnown, Deciding
<1>i. NoneEscapes'
  BY DEF NoneEscapes, Handing
<1>j. LegsKnown'
  BY DEF LegsKnown
<1>k. OverMeans'
  BY DEF OverMeans
<1>l. WakesKnown'
  BY DEF WakesKnown
<1>m. Undisturbed'
  BY DEF Undisturbed, ReferrerKept
<1>n. MusicKept'
  BY DEF MusicKept, Ringing
<1> QED
  BY <1>a, <1>b, <1>c, <1>d, <1>e, <1>f, <1>g, <1>h, <1>i, <1>j, <1>k, <1>l, <1>m, <1>n DEF CallInv

-----------------------------------------------------------------------------
(* The invariant is inductive.                                             *)

(* A new call satisfies the invariant.                                     *)
LEMMA CallInit == Init => CallInv
<1> SUFFICES ASSUME Init PROVE CallInv
  OBVIOUS
<1> USE
       DEF Init
<1>1. \A t \in Transfers : tr[t].pc = "idle" /\ ~tr[t].released
  OBVIOUS
<1>2. TypeOK
  BY LegFacts DEF TypeOK
<1>3. OneAtATime /\ Accounted /\ ReferrerKept /\ OffloadKept
  BY <1>1 DEF OneAtATime, Accounted, ReferrerKept, OffloadKept, InFlight, Early
<1>4. Parties /\ Fresh
  BY <1>1, NewLegFacts DEF Parties, Fresh, Attached, Early, Ringing
<1>5. WhyKnown /\ NoneEscapes /\ LegsKnown /\ OverMeans /\ WakesKnown
  BY <1>1 DEF WhyKnown, Deciding, NoneEscapes, Handing, LegsKnown, OverMeans, WakesKnown
<1>6. Undisturbed /\ MusicKept
  BY <1>1 DEF Undisturbed, MusicKept
<1> QED
  BY <1>2, <1>3, <1>4, <1>5, <1>6 DEF CallInv

(* A step of wait keeps the invariant.                                     *)
LEMMA WaitStepKeeps ==
  ASSUME CallInv, wait
  PROVE  CallInv'
BY WatchKeeps, SwappedKeeps, SelectKeeps, AwaitOffloadKeeps, AwaitHandoverKeeps,
   HangUpKeeps, EndCallKeeps DEF wait

(* A step of a transfer keeps the invariant.                               *)
LEMMA TransferStepKeeps ==
  ASSUME CallInv, NEW t \in Transfers, transfer(t)
  PROVE  CallInv'
<1>1. CASE finishOffload(t)
  <2>1. tr[t].pc = "finishing" \/ tr[t].pc = "remaining"
    BY <1>1 DEF finishOffload
  <2> QED
    BY <1>1, <2>1, FinishReferrerKeeps, FinishRemainingKeeps
<1>2. CASE OffloadRefer(t) \/ OffloadDone(t) \/ OffloadFailed(t) \/ Dial(t)
  BY <1>2, OffloadReferKeeps, OffloadDoneKeeps, OffloadFailedKeeps, DialKeeps
<1>3. CASE transferDestination(t) \/ Woken(t) \/ TargetRings(t) \/ InviteFails(t) \/ BusyEnds(t)
  BY <1>3, TransferDestinationKeeps, WokenKeeps, TargetRingsKeeps, InviteFailsKeeps, BusyEndsKeeps
<1>4. CASE TargetAnswers(t) \/ NotBridged(t) \/ Swap(t) \/ ReleaseBridged(t)
  BY <1>4, TargetAnswersKeeps, NotBridgedKeeps, SwapKeeps, ReleaseBridgedKeeps
<1>5. CASE Decided(t) \/ Restore(t)
  BY <1>5, DecidedKeeps, RestoreKeeps
<1> QED
  BY <1>1, <1>2, <1>3, <1>4, <1>5 DEF transfer

(* Every step keeps the invariant, if no REFER arrives during a transfer.  *)
LEMMA CallStepKeeps ==
  ASSUME CallInv, ~Overlap, [Next]_vars
  PROVE  CallInv'
<1>1. CASE Step
  <2>1. CASE wait
    BY <2>1, WaitStepKeeps
  <2>2. CASE \E t \in Transfers : transfer(t)
    BY <2>2, TransferStepKeeps
  <2>3. CASE \E t \in Transfers, f \in Legs, target \in Targets : Refer(t, f, target)
    BY <2>3, ReferKeeps
  <2>4. CASE \E l \in Legs : Hold(l) \/ Bye(l) \/ Vanish(l) \/ qualifyLegs(l) \/ releaseReferrer(l)
    BY <2>4, HoldKeeps, ByeKeeps, VanishKeeps, QualifyLegsKeeps, ReleaseReferrerKeeps
  <2> QED
    BY <1>1, <2>1, <2>2, <2>3, <2>4 DEF Step
<1>2. CASE UNCHANGED vars
  <2>1. /\ UNCHANGED <<legVars, partyVars, holdVars, offVars, loopVars, wakeVars, releasing, w, tr>>
    BY <1>2 DEF vars, legVars
  <2> USE <2>1 DEF legVars, partyVars, holdVars, offVars, loopVars, wakeVars, CallInv
  <2>6. TypeOK'
    BY DEF TypeOK
  <2>2. OneAtATime' /\ Parties' /\ Fresh' /\ Accounted'
    BY DEF OneAtATime, InFlight, Parties, Fresh, Accounted
  <2>3. ReferrerKept' /\ OffloadKept'
    BY DEF ReferrerKept, OffloadKept, InFlight
  <2>4. WhyKnown' /\ NoneEscapes' /\ LegsKnown' /\ OverMeans' /\ WakesKnown'
    BY DEF WhyKnown, NoneEscapes, Handing, LegsKnown, OverMeans, WakesKnown
  <2>5. Undisturbed' /\ MusicKept'
    BY DEF Undisturbed, MusicKept
  <2> QED
    BY <2>2, <2>3, <2>4, <2>5, <2>6
<1> QED
  BY <1>1, <1>2 DEF Next

(* The invariant holds throughout every call.                              *)
LEMMA CallInvHolds ==
  ASSUME ~Overlap
  PROVE  Spec => []CallInv
<1>1. CallInv /\ [Next]_vars => CallInv'
  BY CallStepKeeps
<1> QED
  BY <1>1, CallInit, PTL DEF Spec

-----------------------------------------------------------------------------
(* The theorems.                                                           *)

(* No call leaves anybody on a line with nothing behind it, nor a phone to *)
(* be rung for it: whatever the parties, the targets and the PBX do, in    *)
(* any order and for any number of transfers, one after the other.         *)
THEOREM CallNoOrphan ==
  ASSUME ~Overlap
  PROVE  Spec => []NoOrphan
<1>1. ASSUME CallInv, Settled, unwatched = {}
      PROVE  up \subseteq silent /\ wakes = {}
  <2>1. up \ silent \subseteq {a, b}
    BY <1>1 DEF CallInv, Accounted, Settled, InFlight
  <2>2. {a, b} \cap up \subseteq silent /\ wakes = {}
    BY <1>1 DEF CallInv, OverMeans, Settled
  <2> QED
    BY <2>1, <2>2
<1>2. CallInv => NoOrphan
  BY <1>1 DEF NoOrphan
<1> QED
  BY <1>2, CallInvHolds, PTL

(* Types hold; a transfer that is refused leaves both parties in the call; *)
(* and what plays to a party plays for a hold or a transfer that stands.   *)
THEOREM CallStaysIntact ==
  ASSUME ~Overlap
  PROVE  Spec => []CallIntact
<1>1. ASSUME CallInv PROVE RefusalKeepsCall
  BY <1>1 DEF CallInv, Undisturbed, RefusalKeepsCall
<1>2. ASSUME CallInv PROVE MusicOwned
  BY <1>2 DEF CallInv, MusicKept, Ringing, MusicOwned, Handing
<1>3. CallInv => CallIntact
  BY <1>1, <1>2 DEF CallInv, CallIntact
<1> QED
  BY <1>3, CallInvHolds, PTL

(* An offload's channel is closed once, by the attempt that made it, and   *)
(* not before that attempt is over: what overlapping transfers break holds *)
(* for any number of transfers that follow each other.                     *)
THEOREM CallOffloadOver ==
  ASSUME ~Overlap
  PROVE  Spec => []OffloadOver
<1>1. ASSUME CallInv PROVE OffloadOver
  BY <1>1 DEF CallInv, TypeOK, OffloadKept, OffloadOver
<1>2. CallInv => OffloadOver
  BY <1>1
<1> QED
  BY <1>2, CallInvHolds, PTL

(* wait does not pass awaitHandover with a transfer in progress, other     *)
(* than one it has lost sight of.                                          *)
WatchedAwaited ==
  [][w.pc = "handover" /\ w'.pc = "hang"
       => \A t \in Transfers : Handing(t) => t \in unwatched]_vars

(* From handover to hang wait goes by awaitHandover, and with nothing to   *)
(* wait for.                                                               *)
LEMMA HangAfterHandover ==
  ASSUME TypeOK, [Next]_vars, w.pc = "handover", w'.pc = "hang"
  PROVE  handing = 0
<1>1. w \in WRecs
  BY DEF TypeOK, WRecs
<1>2. w' # w
  OBVIOUS
<1>3. CASE wait
  <2>1. awaitHandover
    BY <1>3, <1>1 DEF wait, Watch, Swapped, Select, awaitOffload, HangUp, EndCall, WRecs
  <2> QED
    BY <2>1, <1>1 DEF awaitHandover, WRecs
<1>4. ASSUME NEW t \in Transfers, transfer(t) PROVE w' = w
  BY <1>4 DEF transfer, OffloadRefer, OffloadDone, OffloadFailed, finishOffload, Dial,
       transferDestination, Woken, TargetRings, InviteFails, BusyEnds, TargetAnswers,
       NotBridged, Swap, ReleaseBridged, Decided, Restore
<1>5. ASSUME NEW t \in Transfers, NEW f \in Legs, NEW target \in Targets, Refer(t, f, target)
      PROVE  w' = w
  BY <1>5 DEF Refer
<1>6. ASSUME NEW l \in Legs, Hold(l) \/ Bye(l) \/ Vanish(l) \/ qualifyLegs(l) \/ releaseReferrer(l)
      PROVE  w' = w
  BY <1>6 DEF Hold, Bye, Vanish, qualifyLegs, releaseReferrer
<1>7. CASE UNCHANGED vars
  BY <1>2, <1>7 DEF vars
<1> QED
  BY <1>2, <1>3, <1>4, <1>5, <1>6, <1>7 DEF Next, Step

(* For any number of transfers, one after the other, wait hangs up under   *)
(* none that it knows of.                                                  *)
THEOREM CallWatchedAwaited ==
  ASSUME ~Overlap
  PROVE  Spec => WatchedAwaited
<1>1. ASSUME CallInv, [Next]_vars, w.pc = "handover", w'.pc = "hang",
             NEW t \in Transfers, Handing(t)
      PROVE  t \in unwatched
  BY <1>1, HangAfterHandover, LegFacts DEF CallInv, NoneEscapes
<1>2. CallInv /\ [Next]_vars
        => [w.pc = "handover" /\ w'.pc = "hang"
              => \A t \in Transfers : Handing(t) => t \in unwatched]_vars
  BY <1>1
<1> QED
  BY <1>2, CallInvHolds, PTL DEF Spec, WatchedAwaited

(* Of a single transfer wait loses sight only once it has decided to hang  *)
(* up.                                                                     *)
EscapedLate ==
  /\ unwatched # {} => w.pc \in {"hang", "end", "ended"}
  /\ w.pc = "handoverWait" => w.ch # 0

(* A single transfer does not escape before wait has decided to hang up.   *)
LEMMA EscapedLateKeeps ==
  ASSUME CallInv, EscapedLate, MaxTransfers = 1, [Next]_vars
  PROVE  EscapedLate'
<1>1. w \in WRecs /\ Transfers = {1}
  BY DEF CallInv, TypeOK, WRecs, Transfers
<1>2. CASE wait
  <2>1. CASE awaitHandover
    <3>1. CASE w.pc = "handover"
      BY <2>1, <3>1, <1>1 DEF awaitHandover, EscapedLate, WRecs
    <3>2. CASE w.pc = "handoverWait"
      <4>1. w.ch = 1 /\ ~Handing(1)
        BY <1>1, <2>1, <3>2 DEF EscapedLate, WRecs, awaitHandover, Handing
      <4>2. unwatched' = unwatched /\ unwatched = {} /\ w'.pc = "watch"
        BY <1>1, <2>1, <3>2, <4>1 DEF awaitHandover, EscapedLate, WRecs
      <4> QED
        BY <4>2 DEF EscapedLate
    <3> QED
      BY <2>1, <3>1, <3>2 DEF awaitHandover
  <2>2. CASE ~awaitHandover
    <3>1. unwatched' = unwatched
      BY <1>2, <2>2 DEF wait, Watch, Swapped, Select, awaitOffload, HangUp, EndCall, loopVars
    <3>2. /\ w.pc \in {"hang", "end", "ended"} => w'.pc \in {"hang", "end", "ended"}
          /\ w'.pc # "handoverWait"
      BY <1>1, <1>2, <2>2 DEF wait, Watch, Swapped, Select, awaitOffload, HangUp, EndCall, WRecs
    <3> QED
      BY <3>1, <3>2 DEF EscapedLate
  <2> QED
    BY <2>1, <2>2
<1>3. ASSUME NEW t \in Transfers, transfer(t) PROVE EscapedLate'
  <2>1. w' = w
    BY <1>3 DEF transfer, OffloadRefer, OffloadDone, OffloadFailed, finishOffload, Dial,
         transferDestination, Woken, TargetRings, InviteFails, BusyEnds, TargetAnswers,
         NotBridged, Swap, ReleaseBridged, Decided, Restore
  <2>2. unwatched' = unwatched \/ w.pc \in {"hang", "end", "ended"}
    <3>1. CASE Dial(t)
      BY <3>1 DEF Dial
    <3>2. CASE ~Dial(t)
      BY <1>3, <3>2 DEF transfer, OffloadRefer, OffloadDone, OffloadFailed, finishOffload, loopVars,
         transferDestination, Woken, TargetRings, InviteFails, BusyEnds, TargetAnswers,
         NotBridged, Swap, ReleaseBridged, Decided, Restore
    <3> QED
      BY <3>1, <3>2
  <2> QED
    BY <2>1, <2>2 DEF EscapedLate
<1>4. ASSUME NEW t \in Transfers, NEW f \in Legs, NEW target \in Targets, Refer(t, f, target)
      PROVE  EscapedLate'
  BY <1>4 DEF Refer, loopVars, EscapedLate
<1>5. ASSUME NEW l \in Legs, Hold(l) \/ Bye(l) \/ Vanish(l) \/ qualifyLegs(l) \/ releaseReferrer(l)
      PROVE  EscapedLate'
  BY <1>5 DEF Hold, Bye, Vanish, qualifyLegs, releaseReferrer, loopVars, EscapedLate
<1>6. CASE UNCHANGED vars
  BY <1>6 DEF vars, loopVars, EscapedLate
<1> QED
  BY <1>2, <1>3, <1>4, <1>5, <1>6 DEF Next, Step

(* "Block until it is decided rather than tearing the call down under it": *)
(* in a call with one transfer wait passes awaitHandover with none in      *)
(* progress.  A second transfer can escape it.                             *)
THEOREM CallHandoverAwaited ==
  ASSUME ~Overlap, MaxTransfers = 1
  PROVE  Spec => HandoverAwaited
<1>1. Init => EscapedLate
  BY DEF Init, EscapedLate
<1>2. CallInv /\ EscapedLate /\ [Next]_vars => EscapedLate'
  BY EscapedLateKeeps
<1>3. CallInv /\ EscapedLate /\ [Next]_vars
        => [w.pc = "handover" /\ w'.pc = "hang" => \A t \in Transfers : ~Handing(t)]_vars
  <2>1. ASSUME CallInv, EscapedLate, [Next]_vars, w.pc = "handover", w'.pc = "hang",
               NEW t \in Transfers
        PROVE  ~Handing(t)
    BY <2>1, HangAfterHandover, LegFacts DEF CallInv, NoneEscapes, EscapedLate
  <2> QED
    BY <2>1
<1> QED
  BY <1>1, <1>2, <1>3, CallInvHolds, PTL DEF Spec, HandoverAwaited

=============================================================================
