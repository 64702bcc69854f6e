----------------------------- MODULE MediaPump -----------------------------
(***************************************************************************)
(* One RTP stream towards one leg of a bridged call                        *)
(* (server/internal/b2bua/b2bua.go, type pump; transfer.go, startLocked):  *)
(* the relay goroutine of the pump that feeds it, the hold players that    *)
(* play on it, and the swap that replaces the pump when the party at the   *)
(* other end changes, while the leg keeps its stream.                      *)
(*                                                                         *)
(* A step ends where the code may be overtaken: at the read, at the test   *)
(* of localOnly, at the pump's mutex, at a wake-up of the player.  Time    *)
(* and timestamps count frames (20 ms, codec.SampleTimestamp() ticks), and *)
(* keep their wrap-around: sequence numbers are modulo NumMod (2^16),      *)
(* timestamps modulo TsMod (2^32).  Statistics and logging are left out.   *)
(***************************************************************************)
EXTENDS Integers

CONSTANTS
  NumMod, TsMod,   \* the widths of the two counters
  Reorder,         \* a step back of fewer numbers is a reordered packet (64)
  TimelineBreak,   \* pumpTimelineBreak, in frames
  FrozenBreak,     \* pumpFrozenBreak, in frames
  Starts,          \* what rand.Uint32 may give a stream's first number
  Arrivals,        \* what a source may send next, relative to its newest packet
  MaxArrivals,     \* bound: packets read in the life of the stream
  MaxPlays,        \* bound: players started
  MaxEvents,       \* bound: packets read, frames played, and changes of the call
  MayFail          \* whether a write to the socket may fail

ASSUME MediaAssumption ==
  /\ NumMod \in Nat /\ TsMod \in Nat \ {0}
  /\ {Reorder, TimelineBreak, FrozenBreak, MaxArrivals, MaxPlays, MaxEvents} \subseteq Nat
  /\ NumMod >= 4 /\ Reorder <= NumMod \div 2
  /\ Starts \subseteq 0..(NumMod - 1)
  /\ Arrivals \subseteq [seq : Int, ts : Int, gap : Nat, ssrc : {0, 1}]
  /\ MayFail \in BOOLEAN

Pumps == 1..2       \* the pump of the bridged call, and the one that replaces it
Players == 1..MaxPlays

VARIABLES
  cur,     \* the pump in bridgedCall.pumps that feeds the leg: the other's ctx is done
  pump,    \* the fields of each pump that forward and writeLocal use
  relay,   \* the goroutine of pump.run: where it is and the packet it holds
  src,     \* external: the newest packet each source has sent
  local,   \* pump.localOnly
  play,    \* the players: playHold's goroutines
  holder,  \* the player bridgedCall.holdStop cancels, 0 for nil
  pos,     \* external: RTPPacketWriter.nextTimestamp of the leg
  reads,   \* packets read so far
  events,  \* events so far, against MaxEvents
  wire,    \* what the leg has been sent: the highest number and its timestamp
  sent,    \* the last packet sent, against what went before it
  ghost    \* writes of a replaced pump, failed writes, on-time packets stuck on a timestamp

callVars == <<cur, holder>>
writeVars == <<pump, pos, wire, sent, ghost>>
pumpVars == <<callVars, writeVars, relay, src, local, play, reads, events>>

Event == events < MaxEvents /\ events' = events + 1

(* int16(x - y) and int32(x - y).                                          *)
SignedDiff(x, y, m) ==
  LET d == (x - y) % m IN IF d < m \div 2 THEN d ELSE d - m
SeqDiff(x, y) == SignedDiff(x, y, NumMod)
TsDiff(x, y) == SignedDiff(x, y, TsMod)

InitTimestamp == 0   \* the vendored writer never sets another

NewPump ==
  [haveSrc |-> FALSE, srcSSRC |-> 0, tsOffset |-> 0, seqOffset |-> 0,
   wroteAny |-> FALSE, lastOut |-> 0, lastSeq |-> 0, localWrote |-> FALSE,
   expectSeq |-> 0, lastTs |-> 0, gap |-> 0, lag |-> 0]

Nil == [seq |-> 0, ts |-> 0, ssrc |-> 0]

PumpInit ==
  /\ cur = 1
  /\ pump = [p \in Pumps |-> NewPump]
  /\ relay = [p \in Pumps |-> [pc |-> IF p = 1 THEN "read" ELSE "off", pkt |-> Nil]]
  /\ src = [p \in Pumps |-> [seq |-> NumMod - 2, ts |-> TsMod - 2, ssrc |-> 0, hole |-> FALSE]]
  /\ local = [p \in Pumps |-> FALSE]
  /\ play = [k \in Players |-> [pc |-> "idle", pump |-> 0, done |-> FALSE, spent |-> FALSE]]
  /\ holder = 0
  /\ pos = InitTimestamp
  /\ reads = 0
  /\ events = 0
  /\ wire = [any |-> FALSE, top |-> 0, topTs |-> 0]
  /\ sent = [kind |-> "none", seq |-> 0, ts |-> 0, skip |-> 0, gap |-> 0]
  /\ ghost = [crossed |-> 0, failed |-> 0, stuck |-> 0]

-----------------------------------------------------------------------------
(* What the leg sees.                                                      *)

(* The packet (n, t) leaves: kind "new" when it is beyond all its source    *)
(* has sent so far or our own, "late" when it is reordered; skip is what    *)
(* the source lost just before it, gap the time since the packet before.    *)
Emit(p, n, t, kind, skip, gap) ==
  LET ds == IF wire.any THEN SeqDiff(n, wire.top) ELSE 1 + skip
      dt == IF wire.any THEN TsDiff(t, wire.topTs) ELSE 1
  IN /\ sent' = [kind |-> kind, seq |-> ds, ts |-> dt, skip |-> skip, gap |-> gap]
     /\ wire' = [any |-> TRUE,
                 top |-> IF ds > 0 THEN n ELSE wire.top,
                 topTs |-> IF dt > 0 THEN t ELSE wire.topTs]
     /\ ghost' = [ghost EXCEPT
                    !.crossed = IF p = cur THEN @ ELSE @ + 1,
                    !.stuck = IF kind # "new" \/ dt > 0 \/ gap # 1 THEN 0 ELSE @ + 1]

WriteFails ==
  /\ MayFail
  /\ ghost.failed = 0     \* bound: one failed write
  /\ ghost' = [ghost EXCEPT !.failed = @ + 1]
  /\ UNCHANGED <<wire, sent>>

-----------------------------------------------------------------------------
(* forward: relay one packet.                                              *)

(* How far the source's timeline has parted from the arrivals.             *)
Elapsed(q, k) == TsDiff(k.ts, q.lastTs)
Parted(q, k) == Elapsed(q, k) - q.gap

(* Back while the number went on: never legitimate within one SSRC.        *)
WentBack(q, k) == Elapsed(q, k) < -1 /\ SeqDiff(k.seq + 1, q.expectSeq) > 0

Broken(q, k) ==
  \/ Parted(q, k) > TimelineBreak
  \/ Parted(q, k) < -TimelineBreak
  \/ WentBack(q, k)

(* Mutant of NewStream: music on the stream does not make the source new.  *)
NewStream_MusicForgotten(q, k) ==
  ~q.haveSrc \/ k.ssrc # q.srcSSRC \/ Broken(q, k)

NewStream(q, k) ==
  \/ ~q.haveSrc
  \/ k.ssrc # q.srcSSRC
  \/ q.localWrote
  \/ Broken(q, k)

(* Timeline the source has failed to produce while packets came on time.   *)
Lag(q, k) ==
  IF q.gap >= 2 THEN q.lag
  ELSE IF Parted(q, k) < 0 THEN q.lag - Parted(q, k)
  ELSE 0

(* rebaseSeq: the numbers a source that starts at n may be mapped from.    *)
rebaseSeq(q, n) ==
  {(s - n) % NumMod : s \in IF q.wroteAny THEN {q.lastSeq + 1} ELSE Starts}

Renumbered(q, k) == SeqDiff(k.seq, q.expectSeq) <= -Reorder

(* Mutant of TsOffset: a new stream is not carried on from the last sent.  *)
TsOffset_FromZero(q, k, new) ==
  IF new THEN InitTimestamp - k.ts ELSE q.tsOffset

TsOffset(q, k, new) ==
  IF new THEN (IF q.wroteAny THEN q.lastOut + 1 ELSE InitTimestamp) - k.ts
  ELSE IF Lag(q, k) > FrozenBreak THEN q.lastOut + 1 - k.ts
  ELSE q.tsOffset

(* The packet goes out as number n: lastSeq is the highest so far, lastOut *)
(* simply the last.                                                        *)
Wrote(q, n, want) ==
  [q EXCEPT !.lastSeq = IF ~q.wroteAny \/ SeqDiff(n, q.lastSeq) > 0 THEN n ELSE @,
            !.lastOut = want, !.wroteAny = TRUE]

forward(p) ==
  LET k == relay[p].pkt
      q == pump[p]
      new == NewStream(q, k)
      d == SeqDiff(k.seq, q.expectSeq)
      renum == ~new /\ Renumbered(q, k)
      late == ~new /\ d < 0 /\ ~renum
      lag == IF new THEN 0 ELSE Lag(q, k)
      tsOff == TsOffset(q, k, new)
      want == (k.ts + tsOff) % TsMod
      at == IF q.wroteAny THEN q.lastOut ELSE InitTimestamp
  IN /\ relay[p].pc = "forward"
     /\ relay' = [relay EXCEPT ![p] = [pc |-> "read", pkt |-> Nil]]
     /\ pos' = (pos + want - at) % TsMod
     /\ \E off \in IF new \/ renum THEN rebaseSeq(q, k.seq) ELSE {q.seqOffset} :
          LET n == (k.seq + off) % NumMod
              q2 == [q EXCEPT !.haveSrc = TRUE, !.srcSSRC = k.ssrc, !.localWrote = FALSE,
                              !.tsOffset = tsOff % TsMod, !.seqOffset = off,
                              !.expectSeq = IF late THEN @ ELSE (k.seq + 1) % NumMod,
                              !.lastTs = k.ts, !.gap = 0,
                              !.lag = lag]
          IN \/ /\ Emit(p, n, pos', IF late THEN "late" ELSE "new",
                        IF new \/ renum \/ late THEN 0 ELSE d, q.gap)
                /\ pump' = [pump EXCEPT ![p] = Wrote(q2, n, want)]
             \/ /\ WriteFails
                /\ pump' = [pump EXCEPT ![p] = q2]
     /\ UNCHANGED <<callVars, src, local, play, reads, events>>

-----------------------------------------------------------------------------
(* run: the relay goroutine.                                               *)

(* The packet that is a beyond the newest of source s.                     *)
Following(s, a) ==
  [seq |-> (s.seq + a.seq) % NumMod, ts |-> (s.ts + a.ts) % TsMod, ssrc |-> (s.ssrc + a.ssrc) % 2]

(* A packet arrives and the context is not done.  A late packet only fills *)
(* a hole.                                                                 *)
Read(p) ==
  /\ relay[p].pc = "read"
  /\ p = cur
  /\ reads < MaxArrivals
  /\ Event
  /\ \E a \in Arrivals :
       /\ a.seq < 0 => src[p].hole
       /\ LET k == Following(src[p], a)
          IN /\ src' = [src EXCEPT ![p] =
                          IF a.seq < 0 THEN [@ EXCEPT !.hole = FALSE]
                          ELSE [seq |-> k.seq, ts |-> k.ts, ssrc |-> k.ssrc, hole |-> a.seq = 2]]
             /\ relay' = [relay EXCEPT ![p] = [pc |-> "check", pkt |-> k]]
       /\ pump' = [pump EXCEPT ![p].gap = @ + a.gap]
  /\ reads' = reads + 1
  /\ UNCHANGED <<callVars, pos, wire, sent, ghost, local, play>>

(* Our own audio has the stream: the packet is dropped.                    *)
CheckLocal(p) ==
  /\ relay[p].pc = "check"
  /\ relay' = [relay EXCEPT ![p] = IF local[p] THEN [pc |-> "read", pkt |-> Nil]
                                   ELSE [@ EXCEPT !.pc = "forward"]]
  /\ UNCHANGED <<callVars, writeVars, src, local, play, reads, events>>

(* A replaced pump's goroutine ends at its next look at the context, and    *)
(* only there.  (The source of the current pump closes when the call ends,  *)
(* and the stream with it.)                                                 *)
RunEnds(p) ==
  /\ relay[p].pc = "read"
  /\ p # cur
  /\ relay' = [relay EXCEPT ![p] = [pc |-> "off", pkt |-> Nil]]
  /\ UNCHANGED <<callVars, writeVars, src, local, play, reads, events>>

-----------------------------------------------------------------------------
(* playHold: a player's goroutine.                                         *)

PlayStart(k) ==
  /\ play[k].pc = "new"
  /\ play' = [play EXCEPT ![k].pc = "on"]
  /\ local' = [local EXCEPT ![play[k].pump] = TRUE]
  /\ UNCHANGED <<callVars, writeVars, relay, src, reads, events>>

(* A tick writes a frame (writeLocal).  When the context is done too, the  *)
(* select may still take the tick that was waiting, once.                  *)
PlayTick(k) ==
  LET p == play[k].pump
      q == pump[p]
      want == IF q.wroteAny THEN (q.lastOut + 1) % TsMod ELSE InitTimestamp
      at == IF q.wroteAny THEN q.lastOut ELSE InitTimestamp
  IN /\ play[k].pc = "on"
     /\ ~play[k].spent
     /\ Event
     /\ play' = [play EXCEPT ![k].spent = play[k].done]
     /\ pos' = (pos + want - at) % TsMod
     /\ \E n \in IF q.wroteAny THEN {(q.lastSeq + 1) % NumMod} ELSE Starts :
          \/ /\ Emit(p, n, pos', "new", 0, q.gap)
             /\ pump' = [pump EXCEPT ![p] =
                           [q EXCEPT !.lastSeq = n, !.lastOut = want, !.wroteAny = TRUE, !.localWrote = TRUE]]
          \/ /\ WriteFails
             /\ UNCHANGED pump
     /\ UNCHANGED <<callVars, relay, src, local, reads>>

(* The deferred Store(false), whoever has taken the stream meanwhile.      *)
PlayEnd(k) ==
  /\ play[k].pc = "on"
  /\ play[k].done
  /\ play' = [play EXCEPT ![k].pc = "off"]
  /\ local' = [local EXCEPT ![play[k].pump] = FALSE]
  /\ UNCHANGED <<callVars, writeVars, relay, src, reads, events>>

-----------------------------------------------------------------------------
(* The call, under its own mutex.                                          *)

(* stopHoldLocked: the player is cancelled, not awaited.                   *)
Cancelled(k) == IF k = 0 THEN play ELSE [play EXCEPT ![k].done = TRUE]

(* playLocked: a hold or a transfer starts a player, in place of the one   *)
(* that may be playing.                                                    *)
playLocked(k) ==
  /\ play[k].pc = "idle"
  /\ Event
  /\ \A j \in 1..(k - 1) : play[j].pc # "idle"
  /\ play' = [Cancelled(holder) EXCEPT ![k] = [pc |-> "new", pump |-> cur, done |-> FALSE, spent |-> FALSE]]
  /\ holder' = k
  /\ UNCHANGED <<cur, writeVars, relay, src, local, reads>>

(* setHeld(_, FALSE).                                                      *)
Release ==
  /\ holder # 0
  /\ Event
  /\ play' = Cancelled(holder)
  /\ holder' = 0
  /\ UNCHANGED <<cur, writeVars, relay, src, local, reads>>

inheritTimeline(p, prev) ==
  IF prev.wroteAny
  THEN [p EXCEPT !.lastSeq = prev.lastSeq, !.lastOut = prev.lastOut, !.wroteAny = TRUE]
  ELSE p

(* startLocked: the pumps are cancelled and replaced, without waiting for  *)
(* a goroutine that is past its look at the context.                       *)
startLocked ==
  /\ cur = 1
  /\ Event
  /\ cur' = 2
  /\ play' = Cancelled(holder)
  /\ holder' = 0
  /\ pump' = [pump EXCEPT ![2] = inheritTimeline(NewPump, pump[1])]
  /\ relay' = [relay EXCEPT ![2].pc = "read"]
  /\ UNCHANGED <<pos, wire, sent, ghost, src, local, reads>>

PumpNext ==
  \/ \E p \in Pumps : Read(p) \/ CheckLocal(p) \/ forward(p) \/ RunEnds(p)
  \/ \E k \in Players : playLocked(k) \/ PlayStart(k) \/ PlayTick(k) \/ PlayEnd(k)
  \/ Release
  \/ startLocked

PumpSpec == PumpInit /\ [][PumpNext]_pumpVars

-----------------------------------------------------------------------------
(* The leg hears one stream.  Whatever loses, reorders, renumbers or        *)
(* restarts its source, whatever music plays in between and whichever pump  *)
(* feeds it, a new packet gets the number after the highest sent so far,    *)
(* plus what the source itself lost just before, and no write that failed   *)
(* can make it repeat one: to SRTP a repeat is a replay.  Not claimed once  *)
(* a write of the replaced pump has crossed the swap (crossed), which       *)
(* nothing in the code prevents; nor of a source that jumps half the        *)
(* numbers at once without a new SSRC, which int16 takes for an old packet. *)
StreamCarriesOn ==
  sent.kind = "new" /\ ghost.crossed = 0 =>
    /\ sent.seq >= 1 + sent.skip
    /\ ghost.failed = 0 => sent.seq = 1 + sent.skip

(* The leg's timeline never goes back by more than FrozenBreak, nor ahead   *)
(* by more than the time that passed plus TimelineBreak, where a source's   *)
(* clock jumps or stops (a desk phone's resume sent it 31 s back); and      *)
(* a source whose clock stops while its packets keep coming on time cannot  *)
(* hold the leg on one timestamp: the relay paces it after FrozenBreak (or  *)
(* one more, when a reordered packet came just before).  Not claimed of a   *)
(* source whose clock runs backwards while packets come two or more frames  *)
(* apart, which is followed; nor once a write has failed, see WriterInStep, *)
(* or crossed the swap.                                                     *)
TimelineKept ==
  ghost.failed = 0 /\ ghost.crossed = 0 =>
    /\ sent.kind = "new" => sent.ts >= -FrozenBreak /\ sent.ts <= 1 + sent.gap + TimelineBreak
    /\ ghost.stuck <= FrozenBreak + 1

(* localOnly is set while our own audio owns the stream, as its comment     *)
(* says, so that nothing is relayed into the music.                         *)
OwnsStream ==
  \A k \in Players : play[k].pc = "on" /\ ~play[k].done => local[play[k].pump]

(* The writer is where the pump believes it left it, so the next packet     *)
(* gets the timestamp it belongs at.                                        *)
WriterInStep == ghost.crossed = 0 /\ pump[cur].wroteAny => pos = pump[cur].lastOut
=============================================================================
