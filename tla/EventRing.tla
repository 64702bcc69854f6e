----------------------------- MODULE EventRing -----------------------------
(***************************************************************************)
(* The operational event ring (server/internal/events): the last events in   *)
(* a fixed buffer, appended to by emitters that never wait for its lock, and *)
(* read in pages by a client that polls with the seq it was last given.      *)
(* A reader holds the lock from Lock to its page; a restart empties it.      *)
(***************************************************************************)
EXTENDS Integers, Sequences

CONSTANTS
  RingSize,
  Limits,      \* page sizes asked for, after the default and the cap
  MaxSeq,      \* bound: events of one life of the server
  MaxLives     \* bound: lives

ASSUME RingAssumption == RingSize \in Nat \ {0} /\ Limits \subseteq Nat \ {0}

NoRead == [on |-> FALSE, limit |-> 0]
NoPage == [since |-> 0, seqs |-> <<>>, next |-> 0, truncated |-> FALSE, restarted |-> FALSE]

VARIABLES
  buf,         \* slot -> seq of the event it holds, 0 when none
  start, count, seq,
  dropped,     \* an event was dropped and counted
  reading,     \* the reader that holds the lock
  since,       \* the client's: the next of its last page
  sinceLife,   \* the life of the server that gave it
  life,
  page         \* the last page returned

ringVars == <<buf, start, count, seq, dropped, reading, since, sinceLife, life, page>>

RingInit ==
  /\ buf = [i \in 0..(RingSize - 1) |-> 0]
  /\ start = 0 /\ count = 0 /\ seq = 0
  /\ dropped = FALSE
  /\ reading = NoRead
  /\ since = 0 /\ sinceLife = 1 /\ life = 1
  /\ page = NoPage

(* Emit: TryLock, so an event that meets a reader is dropped and counted. *)
EmitDrops ==
  /\ reading.on
  /\ dropped' = TRUE
  /\ UNCHANGED <<buf, start, count, seq, reading, since, sinceLife, life, page>>

(* Mutant of EmitEvent: the oldest slot is not advanced past. *)
EmitEvent_StartStays ==
  /\ ~reading.on /\ seq < MaxSeq
  /\ seq' = seq + 1
  /\ \/ /\ count < RingSize
        /\ buf' = [buf EXCEPT ![(start + count) % RingSize] = seq + 1]
        /\ count' = count + 1
        /\ UNCHANGED start
     \/ /\ count >= RingSize
        /\ buf' = [buf EXCEPT ![start] = seq + 1]
        /\ UNCHANGED <<start, count>>
  /\ UNCHANGED <<dropped, reading, since, sinceLife, life, page>>

EmitEvent ==
  /\ ~reading.on /\ seq < MaxSeq
  /\ seq' = seq + 1
  /\ \/ /\ count < RingSize
        /\ buf' = [buf EXCEPT ![(start + count) % RingSize] = seq + 1]
        /\ count' = count + 1
        /\ UNCHANGED start
     \/ /\ count >= RingSize
        /\ buf' = [buf EXCEPT ![start] = seq + 1]
        /\ start' = (start + 1) % RingSize
        /\ UNCHANGED count
  /\ UNCHANGED <<dropped, reading, since, sinceLife, life, page>>

Lock ==
  /\ ~reading.on
  /\ \E l \in Limits : reading' = [on |-> TRUE, limit |-> l]
  /\ UNCHANGED <<buf, start, count, seq, dropped, since, sinceLife, life, page>>

-----------------------------------------------------------------------------
(* Since, under the lock: the page after seq s, at most limit events.        *)
Oldest == buf[start]
Skip(s) == IF s >= Oldest THEN s - Oldest + 1 ELSE 0
Avail(s, limit) == LET n == count - Skip(s) IN IF n > limit THEN limit ELSE n

Slots(s, limit) ==
  IF count = 0 \/ Avail(s, limit) <= 0 THEN <<>>
  ELSE [i \in 1..Avail(s, limit) |-> buf[(start + Skip(s) + i - 1) % RingSize]]

Truncated(s) == count > 0 /\ s # 0 /\ s + 1 < Oldest

Since(s, limit) ==
  LET seqs == Slots(s, limit) IN
  [since |-> s, seqs |-> seqs, truncated |-> Truncated(s),
   next |-> IF seqs = <<>> THEN seq ELSE seqs[Len(seqs)],
   restarted |-> sinceLife # life]

Poll ==
  /\ reading.on
  /\ page' = Since(since, reading.limit)
  /\ since' = page'.next
  /\ sinceLife' = life
  /\ reading' = NoRead
  /\ UNCHANGED <<buf, start, count, seq, dropped, life>>

RingRestart ==
  /\ life < MaxLives
  /\ life' = life + 1
  /\ buf' = [i \in 0..(RingSize - 1) |-> 0]
  /\ start' = 0 /\ count' = 0 /\ seq' = 0 /\ dropped' = FALSE
  /\ reading' = NoRead
  /\ UNCHANGED <<since, sinceLife, page>>

RingNext == EmitDrops \/ EmitEvent \/ Lock \/ Poll \/ RingRestart

RingSpec == RingInit /\ [][RingNext]_ringVars

-----------------------------------------------------------------------------
(* A client that polls with the seq it was given misses nothing silently:     *)
(* its page is a run of consecutive events in order, it starts right after     *)
(* what the client had unless the page says that events were lost or the        *)
(* client asked from the start, and an empty page means that there was nothing. *)
NoSilentGap ==
  ~page.restarted =>
    /\ \A i \in 2..Len(page.seqs) : page.seqs[i] = page.seqs[i - 1] + 1
    /\ page.seqs # <<>> /\ page.since # 0 /\ ~page.truncated => page.seqs[1] = page.since + 1
    /\ page.truncated => page.seqs # <<>> /\ page.seqs[1] > page.since + 1
    /\ page.seqs = <<>> => page.next = page.since

(* What the comment on Since says of a restart: the client resyncs. *)
RestartNoticed ==
  page.restarted /\ page.seqs # <<>> /\ page.since # 0 =>
    page.truncated \/ page.next < page.since
=============================================================================
