----------------------------- MODULE AdminDoor -----------------------------
(***************************************************************************)
(* The admin API's front door (server/internal/admin): the connection limit  *)
(* of the listener, the two token buckets of the rate limiter, the bearer    *)
(* guard and the cap on handlers in flight, in the order of Chain; and the   *)
(* sliding window that limits enrolment claims (enroll/handler.go).          *)
(*                                                                         *)
(* Time is a clock of ticks; the rates are tokens a tick.  Each request      *)
(* comes on a connection of its own.                                        *)
(***************************************************************************)
EXTENDS Integers, Sequences, FiniteSets, FiniteSetsExt, SequencesExt

CONSTANTS
  Visits,
  Sources,
  MaxConnections, MaxInflight,
  PerRate, PerCap, GlobalRate, GlobalCap,
  IdleTicks,     \* a source idle for longer is swept (a minute)
  ClaimLimit, ClaimWindow,
  MaxTime        \* bound: the clock

(* A bucket left alone for the sweep's minute would have filled up anyway. *)
ASSUME DoorAssumption ==
  /\ IsFiniteSet(Visits)
  /\ {MaxConnections, MaxInflight, PerRate, PerCap, GlobalRate, GlobalCap,
      IdleTicks, ClaimLimit, ClaimWindow, MaxTime} \subseteq Nat
  /\ PerRate * IdleTicks >= PerCap

VARIABLES
  time,
  bucket,      \* source -> [tokens, last], over the sources the limiter knows
  global,
  swept,
  ideal,       \* source -> the bucket it would have, were none ever swept
  visit,       \* request -> [pc, src]
  connSlots,   \* tokens in the listener's semaphore
  handlers,    \* tokens in the in-flight semaphore
  attempts,    \* source -> the claims the window remembers, by number
  claimed      \* source -> times of all claims let through

doorVars == <<time, bucket, global, swept, ideal, visit, connSlots, handlers, attempts, claimed>>

Full(cap, t) == [tokens |-> cap, last |-> t]

DoorInit ==
  /\ time = 0
  /\ bucket = [s \in {} |-> Full(PerCap, 0)]
  /\ global = Full(GlobalCap, 0)
  /\ swept = -1
  /\ ideal = [s \in Sources |-> Full(PerCap, 0)]
  /\ visit = [r \in Visits |-> [pc |-> "outside", src |-> "none"]]
  /\ connSlots = 0 /\ handlers = 0
  /\ attempts = [s \in Sources |-> {}]
  /\ claimed = [s \in Sources |-> <<>>]

Ticks ==
  /\ time < MaxTime
  /\ time' = time + 1
  /\ UNCHANGED <<bucket, global, swept, ideal, visit, connSlots, handlers, attempts, claimed>>

-----------------------------------------------------------------------------
(* The listener: a slot is taken before Accept and given back by the first   *)
(* Close of the connection.                                                 *)
Accept(r) ==
  /\ visit[r].pc = "outside" /\ connSlots < MaxConnections
  /\ connSlots' = connSlots + 1
  /\ \E s \in Sources : visit' = [visit EXCEPT ![r] = [pc |-> "accepted", src |-> s]]
  /\ UNCHANGED <<time, bucket, global, swept, ideal, handlers, attempts, claimed>>

(* The server and the TLS layer both close the connection, and only the      *)
(* first gives the slot back; then the next request may come.                *)
CloseConn(r) ==
  /\ visit[r].pc = "answered"
  /\ visit' = [visit EXCEPT ![r].pc = "closed"]
  /\ connSlots' = connSlots - 1
  /\ UNCHANGED <<time, bucket, global, swept, ideal, handlers, attempts, claimed>>

CloseAgain(r) ==
  /\ visit[r].pc = "closed"
  /\ visit' = [visit EXCEPT ![r] = [pc |-> "outside", src |-> "none"]]
  /\ UNCHANGED <<time, bucket, global, swept, ideal, connSlots, handlers, attempts, claimed>>

-----------------------------------------------------------------------------
(* The rate limiter: both buckets are refilled and both must have a token.   *)
refill(b, rate, cap) ==
  [tokens |-> IF time > b.last THEN Min({cap, b.tokens + rate * (time - b.last)}) ELSE b.tokens,
   last |-> time]

Taken(b) == [b EXCEPT !.tokens = @ - 1]

(* Mutant of Remaining: the sweep forgets a source after one idle tick. *)
Remaining_TooFew(s) == {x \in DOMAIN bucket : time - bucket[x].last < 1}

(* sweepLocked, when a source the limiter does not know arrives: the sources *)
(* it keeps, all of them if it swept less than a second (a tick) ago.        *)
Remaining(s) ==
  IF time - swept < 1 THEN DOMAIN bucket
  ELSE {x \in DOMAIN bucket : time - bucket[x].last <= IdleTicks}

KnownSource(s) ==
  IF s \in DOMAIN bucket THEN bucket
  ELSE [x \in Remaining(s) \cup {s} |-> IF x = s THEN Full(PerCap, time) ELSE bucket[x]]

(* Allow, and the answer: 429, or on to the bearer guard. *)
RateLimit(r) ==
  LET s == visit[r].src
      known == KnownSource(s)
      b == refill(known[s], PerRate, PerCap)
      g == refill(global, GlobalRate, GlobalCap)
      i == refill(ideal[s], PerRate, PerCap)
      allowed == b.tokens >= 1 /\ g.tokens >= 1
  IN
  /\ visit[r].pc = "accepted"
  /\ swept' = IF s \notin DOMAIN bucket /\ time - swept >= 1 THEN time ELSE swept
  /\ bucket' = [known EXCEPT ![s] = IF allowed THEN Taken(b) ELSE b]
  /\ global' = IF allowed THEN Taken(g) ELSE g
  /\ ideal' = [ideal EXCEPT ![s] = IF allowed THEN Taken(i) ELSE i]
  /\ visit' = [visit EXCEPT ![r].pc = IF allowed THEN "allowed" ELSE "answered"]
  /\ UNCHANGED <<time, connSlots, handlers, attempts, claimed>>

(* The bearer guard: 401, or on to the in-flight cap, which has a slot free   *)
(* or keeps the request waiting.                                            *)
Bearer(r) ==
  /\ visit[r].pc = "allowed"
  /\ \/ /\ visit' = [visit EXCEPT ![r].pc = "answered"]
        /\ UNCHANGED handlers
     \/ /\ handlers < MaxInflight
        /\ handlers' = handlers + 1
        /\ visit' = [visit EXCEPT ![r].pc = "running"]
     \/ /\ handlers >= MaxInflight
        /\ visit' = [visit EXCEPT ![r].pc = "queued"]
        /\ UNCHANGED handlers
  /\ UNCHANGED <<time, bucket, global, swept, ideal, connSlots, attempts, claimed>>

(* A slot comes free in time; or it does not (503 busy, or the client left). *)
GetsSlot(r) ==
  /\ visit[r].pc = "queued" /\ handlers < MaxInflight
  /\ handlers' = handlers + 1
  /\ visit' = [visit EXCEPT ![r].pc = "running"]
  /\ UNCHANGED <<time, bucket, global, swept, ideal, connSlots, attempts, claimed>>

Busy(r) ==
  /\ visit[r].pc = "queued"
  /\ visit' = [visit EXCEPT ![r].pc = "answered"]
  /\ UNCHANGED <<time, bucket, global, swept, ideal, connSlots, handlers, attempts, claimed>>

Finish(r) ==
  /\ visit[r].pc = "running"
  /\ handlers' = handlers - 1
  /\ visit' = [visit EXCEPT ![r].pc = "answered"]
  /\ UNCHANGED <<time, bucket, global, swept, ideal, connSlots, attempts, claimed>>

-----------------------------------------------------------------------------
(* The claim limiter: what is older than the window is forgotten first.       *)
Remembered(s) == {c \in attempts[s] : time - claimed[s][c] < ClaimWindow}

ClaimAttempt(s) ==
  LET keep == Remembered(s) IN
  /\ Len(claimed[s]) < ClaimLimit + 2
  /\ IF Cardinality(keep) >= ClaimLimit
     THEN attempts' = [attempts EXCEPT ![s] = keep] /\ UNCHANGED claimed
     ELSE /\ attempts' = [attempts EXCEPT ![s] = keep \cup {Len(claimed[s]) + 1}]
          /\ claimed' = [claimed EXCEPT ![s] = Append(@, time)]
  /\ UNCHANGED <<time, bucket, global, swept, ideal, visit, connSlots, handlers>>

DoorNext ==
  \/ Ticks
  \/ \E r \in Visits :
       \/ Accept(r) \/ CloseConn(r) \/ CloseAgain(r) \/ RateLimit(r)
       \/ Bearer(r) \/ GetsSlot(r) \/ Busy(r) \/ Finish(r)

(* The device listener's claims, which share nothing with the admin door. *)
ClaimsNext == Ticks \/ \E s \in Sources : ClaimAttempt(s)

DoorSpec == DoorInit /\ [][DoorNext \/ ClaimsNext]_doorVars

-----------------------------------------------------------------------------
Now(b) == refill(b, PerRate, PerCap).tokens

(* Sweeping idle sources gives nobody a token: what a source may still send   *)
(* is what it might if its bucket had never been dropped and made anew; and   *)
(* no window of the claim limiter's length has let more claims through than   *)
(* the limit.                                                               *)
AllowanceKept ==
  /\ \A s \in Sources : (IF s \in DOMAIN bucket THEN Now(bucket[s]) ELSE PerCap) <= Now(ideal[s])
  /\ \A s \in Sources : \A i, j \in 1..Len(claimed[s]) :
       i <= j /\ claimed[s][j] - claimed[s][i] < ClaimWindow => j - i + 1 <= ClaimLimit

(* Whatever way a request ends (refused, limited, busy, gone, served), its     *)
(* connection and handler slots come back exactly once: the semaphores count   *)
(* the connections open and the handlers running, and never more than allowed. *)
SlotsReturned ==
  /\ connSlots = Cardinality({r \in Visits : visit[r].pc \notin {"outside", "closed"}})
  /\ handlers = Cardinality({r \in Visits : visit[r].pc = "running"})
  /\ connSlots <= MaxConnections /\ handlers <= MaxInflight

(* The door's limits hold in every interleaving of requests, refusals,       *)
(* closings and sweeps: neither allowances nor slots are made or lost.       *)
DoorSound == AllowanceKept /\ SlotsReturned
=============================================================================
