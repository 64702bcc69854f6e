--------------------------- MODULE AdminSideProofs ---------------------------
(***************************************************************************)
(* Theorems about the parts of the server an administrator works with: the *)
(* licence and the seats it tells the store, the event ring's pages, the   *)
(* web console's forms, the shared directory, the admin API's front door,  *)
(* and the hooks that follow the store.  Each part has its own inductive   *)
(* invariant.                                                              *)
(***************************************************************************)
EXTENDS Licence, EventRing, AdminConsole, Directory, AdminDoor, AdminHooks,
        FiniteSetTheorems, SequenceTheorems, TLAPS

-----------------------------------------------------------------------------
(* The licence.                                                            *)

ThreadState ==
  [pc : {"idle", "store", "fire", "deliver"}, now : Nat, tok : {NoToken} \cup Tokens, seats : Nat]

LicTypes ==
  /\ clock \in Nat
  /\ {token, licFile} \subseteq {NoToken} \cup Tokens
  /\ thread \in [Threads -> ThreadState]

(* A server that is not running holds no token and has no thread at work.  *)
StoppedIdle == ~running => token = NoToken /\ \A t \in Threads : thread[t].pc = "idle"

(* The token in use is the file's and is good here, and so is one waiting  *)
(* to be stored: the install id does not change under a running server.    *)
TokenGood == token # NoToken => token = licFile /\ verify(token)

WaitingGood == \A t \in Threads : thread[t].pc = "store" => verify(thread[t].tok)

(* The count is worth the token, or the install that changed the token has *)
(* still to compute it.                                                    *)
CountWorth ==
  \/ lastSeats \in {0, token.seats}
  \/ \E i \in Installers : thread[i].pc = "fire"

(* With every delivery in order, the count last computed is the one told,  *)
(* or it waits for delivery behind all the others.                         *)
LastDelivered ==
  ~crossed =>
    \/ Undelivered = {} /\ told = lastSeats
    \/ \E n \in Undelivered : /\ thread[n].seats = lastSeats
                              /\ Undelivered \ {n} \subseteq ahead[n]

LicInv ==
  /\ LicTypes /\ StoppedIdle /\ TokenGood /\ WaitingGood /\ CountWorth /\ LastDelivered
  /\ ahead \in [Threads -> SUBSET Threads]

(* The absent licence is a licence worth nothing.                          *)
LEMMA NoTokenTyped ==
  NoToken \in [ok : BOOLEAN, seats : Nat, until : Nat, install : Nat]
BY DEF NoToken

(* What a licence is worth is nothing or its seats.                        *)
LEMMA SeatsAtWorth ==
  ASSUME NEW tok \in {NoToken} \cup Tokens, NEW now
  PROVE  seatsAt(tok, now) \in {0, tok.seats} /\ seatsAt(tok, now) \in Nat
<1>1. tok.seats \in Nat
  BY NoTokenTyped, LicenceAssumption
<1> QED BY <1>1 DEF seatsAt

(* A thread that is done is idle.                                          *)
LEMMA DoneTyped == Done \in ThreadState /\ Done.pc = "idle"
BY NoTokenTyped DEF Done, ThreadState

(* One thread moves: what the others, and the counts undelivered, keep.    *)
LEMMA ThreadMoves ==
  ASSUME NEW t \in Threads, NEW r \in ThreadState, thread \in [Threads -> ThreadState],
         thread' = [thread EXCEPT ![t] = r]
  PROVE  /\ thread' \in [Threads -> ThreadState]
         /\ thread'[t] = r
         /\ \A u \in Threads \ {t} : thread'[u] = thread[u]
OBVIOUS

(* A step in which no thread starts or ends waiting to deliver, and which  *)
(* leaves the counts alone, keeps the order of deliveries.                 *)
LEMMA DeliveryFrame ==
  ASSUME LicInv, UNCHANGED <<lastSeats, told, ahead, crossed>>,
         NEW t \in Threads, thread[t].pc # "deliver", thread'[t].pc # "deliver",
         \A u \in Threads \ {t} : thread'[u] = thread[u]
  PROVE  LastDelivered'
<1>1. Undelivered' = Undelivered /\ t \notin Undelivered
  BY DEF Undelivered
<1>2. \A u \in Undelivered : thread'[u] = thread[u]
  BY <1>1 DEF Undelivered
<1> QED BY <1>1, <1>2 DEF LicInv, LastDelivered

(* The licence's invariant holds before the server starts.                 *)
LEMMA LicInvInit == LicInit => LicInv
<1> SUFFICES ASSUME LicInit PROVE LicInv
  OBVIOUS
<1>1. \A t \in Threads : thread[t] = Done
  BY DEF LicInit
<1>2. LicTypes /\ StoppedIdle /\ TokenGood
  BY <1>1, DoneTyped DEF LicInit, LicTypes, StoppedIdle, TokenGood
<1>3. WaitingGood /\ CountWorth /\ Undelivered = {}
  BY <1>1, DoneTyped DEF LicInit, WaitingGood, CountWorth, Undelivered
<1> QED BY <1>2, <1>3 DEF LicInv, LicInit, LastDelivered

(* Installs, ticks, deliveries, days passing and restarts keep it.         *)
LEMMA LicInvNext ==
  ASSUME LicInv, [LicNext]_licVars
  PROVE  LicInv'
<1>t. /\ clock \in Nat
      /\ token \in {NoToken} \cup Tokens /\ licFile \in {NoToken} \cup Tokens
      /\ thread \in [Threads -> ThreadState]
      /\ ahead \in [Threads -> SUBSET Threads]
  BY DEF LicInv, LicTypes
<1>k. StoppedIdle /\ TokenGood /\ WaitingGood /\ CountWorth /\ LastDelivered
  BY DEF LicInv
<1>p. Installers \subseteq Threads /\ "tick" \in Threads
  BY DEF Threads
<1>1. CASE MintInstallId \/ RemoveInstallId
  <2>1. /\ ~running
        /\ UNCHANGED <<clock, licFile, token, lastSeats, told, running, thread, ahead, crossed>>
    BY <1>1 DEF MintInstallId, RemoveInstallId
  <2>2. token = NoToken /\ \A t \in Threads : thread[t].pc = "idle"
    BY <1>k, <2>1 DEF StoppedIdle
  <2> QED
    BY <1>t, <1>k, <2>1, <2>2 DEF LicInv, LicTypes, StoppedIdle, TokenGood, WaitingGood,
       CountWorth, LastDelivered, Undelivered
<1>2. CASE OpenLicence
  <2>1. /\ ~running
        /\ running'
        /\ token' = IF verify(licFile) THEN licFile ELSE NoToken
        /\ lastSeats' = seatsAt(token', clock)
        /\ told' = seatsAt(token', clock)
        /\ UNCHANGED <<clock, installId, licFile, thread, ahead, crossed>>
    BY <1>2 DEF OpenLicence
  <2>2. \A t \in Threads : thread[t].pc = "idle"
    BY <1>k, <2>1 DEF StoppedIdle
  <2>3. Undelivered' = {}
    BY <2>1, <2>2 DEF Undelivered
  <2>4. token' \in {NoToken} \cup Tokens
    BY <1>t, <2>1
  <2>5. LicTypes' /\ TokenGood'
    BY <1>t, <2>1, <2>4 DEF LicTypes, TokenGood, verify
  <2>6. CountWorth'
    BY <2>1, <2>4, SeatsAtWorth DEF CountWorth
  <2> QED
    BY <1>t, <2>1, <2>2, <2>3, <2>5, <2>6 DEF LicInv, StoppedIdle, WaitingGood, LastDelivered
<1>3. ASSUME NEW i \in Installers, NEW tok \in Tokens, Install(i, tok)
      PROVE  LicInv'
  <2> DEFINE r == [Done EXCEPT !.pc = "store", !.now = clock, !.tok = tok]
  <2>1. /\ running
        /\ thread[i].pc = "idle"
        /\ verify(tok)
        /\ thread' = [thread EXCEPT ![i] = r]
        /\ UNCHANGED <<clock, installId, licFile, token, lastSeats, told, running, ahead, crossed>>
    BY <1>3 DEF Install
  <2>2. r \in ThreadState /\ r.pc = "store" /\ r.tok = tok
    BY <1>t, DoneTyped DEF ThreadState
  <2> HIDE DEF r
  <2>3. /\ thread' \in [Threads -> ThreadState]
        /\ thread'[i] = r
        /\ \A u \in Threads \ {i} : thread'[u] = thread[u]
    BY <1>p, <1>t, <2>1, <2>2, ThreadMoves
  <2>4. LastDelivered'
    BY <1>p, <2>1, <2>2, <2>3, DeliveryFrame
  <2>5. WaitingGood'
    BY <1>k, <2>1, <2>2, <2>3 DEF WaitingGood, verify
  <2>6. CountWorth'
    BY <1>k, <1>p, <2>1, <2>3 DEF CountWorth
  <2> QED BY <1>t, <1>k, <2>1, <2>3, <2>4, <2>5, <2>6 DEF LicInv, LicTypes, StoppedIdle, TokenGood, verify
<1>4. ASSUME NEW i \in Installers, Store(i)
      PROVE  LicInv'
  <2>1. /\ thread[i].pc = "store"
        /\ UNCHANGED <<clock, installId, lastSeats, told, running, ahead, crossed>>
    BY <1>4 DEF Store
  <2>r. running /\ verify(thread[i].tok) /\ thread[i] \in ThreadState
    BY <1>k, <1>p, <1>t, <2>1 DEF StoppedIdle, WaitingGood
  <2>2. CASE thread' = [thread EXCEPT ![i] = Done] /\ UNCHANGED <<licFile, token>>
    <3>1. /\ thread' \in [Threads -> ThreadState]
          /\ thread'[i] = Done
          /\ \A u \in Threads \ {i} : thread'[u] = thread[u]
      BY <1>p, <1>t, <2>2, DoneTyped, ThreadMoves
    <3>2. LastDelivered'
      BY <1>p, <2>1, <3>1, DoneTyped, DeliveryFrame
    <3>3. WaitingGood'
      BY <1>k, <2>1, <3>1, DoneTyped DEF WaitingGood, verify
    <3>4. CountWorth'
      BY <1>k, <1>p, <2>1, <2>2, <3>1 DEF CountWorth
    <3> QED
      BY <1>t, <1>k, <2>1, <2>r, <2>2, <3>1, <3>2, <3>3, <3>4 DEF LicInv, LicTypes, StoppedIdle, TokenGood, verify
  <2>3. CASE /\ licFile' = thread[i].tok /\ token' = thread[i].tok
             /\ thread' = [thread EXCEPT ![i].pc = "fire"]
    <3> DEFINE r == [thread[i] EXCEPT !.pc = "fire"]
    <3>0. r \in ThreadState /\ r.pc = "fire" /\ thread[i].tok \in {NoToken} \cup Tokens
      BY <2>r DEF ThreadState
    <3>1. thread' = [thread EXCEPT ![i] = r]
      BY <1>t, <1>p, <2>3
    <3> HIDE DEF r
    <3>2. /\ thread' \in [Threads -> ThreadState]
          /\ thread'[i] = r
          /\ \A u \in Threads \ {i} : thread'[u] = thread[u]
      BY <1>p, <1>t, <3>0, <3>1, ThreadMoves
    <3>3. LastDelivered'
      BY <1>p, <2>1, <3>0, <3>2, DeliveryFrame
    <3>4. WaitingGood'
      BY <1>k, <2>1, <3>0, <3>2 DEF WaitingGood, verify
    <3>5. CountWorth'
      BY <3>0, <3>2 DEF CountWorth
    <3>6. TokenGood'
      BY <2>1, <2>r, <2>3 DEF TokenGood, verify
    <3> QED
      BY <1>t, <2>1, <2>r, <2>3, <3>0, <3>2, <3>3, <3>4, <3>5, <3>6 DEF LicInv, LicTypes, StoppedIdle
  <2> QED BY <1>4, <2>2, <2>3 DEF Store
<1>5. CASE tick
  <2> DEFINE r == [Done EXCEPT !.pc = "fire", !.now = clock]
  <2>1. /\ running
        /\ thread["tick"].pc = "idle"
        /\ thread' = [thread EXCEPT !["tick"] = r]
        /\ UNCHANGED <<clock, installId, licFile, token, lastSeats, told, running, ahead, crossed>>
    BY <1>5 DEF tick
  <2>2. r \in ThreadState /\ r.pc = "fire"
    BY <1>t, DoneTyped DEF ThreadState
  <2> HIDE DEF r
  <2>3. /\ thread' \in [Threads -> ThreadState]
        /\ thread'["tick"] = r
        /\ \A u \in Threads \ {"tick"} : thread'[u] = thread[u]
    BY <1>p, <1>t, <2>1, <2>2, ThreadMoves
  <2>4. LastDelivered'
    BY <1>p, <2>1, <2>2, <2>3, DeliveryFrame
  <2>5. WaitingGood'
    BY <1>k, <2>1, <2>2, <2>3 DEF WaitingGood, verify
  <2>6. CountWorth'
    BY <1>k, <1>p, <2>1, <2>2, <2>3 DEF CountWorth
  <2> QED BY <1>t, <1>k, <2>1, <2>3, <2>4, <2>5, <2>6 DEF LicInv, LicTypes, StoppedIdle, TokenGood, verify
<1>6. ASSUME NEW t \in Threads, fire(t)
      PROVE  LicInv'
  <2> DEFINE s == seatsAt(token, thread[t].now)
             r == IF s = lastSeats THEN Done ELSE [thread[t] EXCEPT !.pc = "deliver", !.seats = s]
  <2>1. /\ thread[t].pc = "fire"
        /\ lastSeats' = s
        /\ ahead' = IF s = lastSeats THEN ahead ELSE [ahead EXCEPT ![t] = Undelivered]
        /\ thread' = [thread EXCEPT ![t] = r]
        /\ UNCHANGED <<clock, installId, licFile, token, told, running, crossed>>
    BY <1>6, <1>t DEF fire
  <2>2. s \in {0, token.seats} /\ s \in Nat
    BY <1>t, SeatsAtWorth
  <2>3. thread[t] \in ThreadState /\ running
    BY <1>k, <1>t, <2>1 DEF StoppedIdle
  <2>4. r \in ThreadState /\ (s = lastSeats => r.pc = "idle")
        /\ (s # lastSeats => r.pc = "deliver" /\ r.seats = s)
    BY <2>2, <2>3, DoneTyped DEF ThreadState
  <2> HIDE DEF r, s
  <2>5. /\ thread' \in [Threads -> ThreadState]
        /\ thread'[t] = r
        /\ \A u \in Threads \ {t} : thread'[u] = thread[u]
    BY <1>t, <2>1, <2>4, ThreadMoves
  <2>6. LastDelivered' /\ ahead' \in [Threads -> SUBSET Threads]
    <3>1. CASE s = lastSeats
      BY <1>t, <2>1, <2>4, <2>5, <3>1, DeliveryFrame
    <3>2. CASE s # lastSeats
      <4>1. ahead' = [ahead EXCEPT ![t] = Undelivered] /\ Undelivered \subseteq Threads
        BY <2>1, <3>2 DEF Undelivered
      <4>2. ahead'[t] = Undelivered /\ ahead' \in [Threads -> SUBSET Threads]
        BY <1>t, <4>1
      <4>3. Undelivered' \subseteq Undelivered \cup {t} /\ t \in Undelivered'
        BY <2>4, <2>5, <3>2 DEF Undelivered
      <4>4. thread'[t].seats = lastSeats'
        BY <2>1, <2>4, <2>5, <3>2
      <4> QED BY <4>2, <4>3, <4>4 DEF LastDelivered
    <3> QED BY <3>1, <3>2
  <2>7. WaitingGood'
    BY <1>k, <2>1, <2>4, <2>5 DEF WaitingGood, verify
  <2>8. CountWorth'
    BY <2>1, <2>2 DEF CountWorth
  <2> QED BY <1>t, <1>k, <2>1, <2>3, <2>5, <2>6, <2>7, <2>8 DEF LicInv, LicTypes, StoppedIdle, TokenGood, verify
<1>7. ASSUME NEW t \in Threads, Deliver(t)
      PROVE  LicInv'
  <2>1. /\ thread[t].pc = "deliver"
        /\ told' = thread[t].seats
        /\ crossed' = (crossed \/ ahead[t] # {})
        /\ ahead' = [u \in Threads |-> ahead[u] \ {t}]
        /\ thread' = [thread EXCEPT ![t] = Done]
        /\ UNCHANGED <<clock, installId, licFile, token, lastSeats, running>>
    BY <1>7 DEF Deliver
  <2>2. /\ thread' \in [Threads -> ThreadState]
        /\ thread'[t] = Done
        /\ \A u \in Threads \ {t} : thread'[u] = thread[u]
    BY <1>t, <2>1, DoneTyped, ThreadMoves
  <2>3. ahead' \in [Threads -> SUBSET Threads]
    BY <1>t, <2>1
  <2>4. LastDelivered'
    <3> SUFFICES ASSUME ~crossed'
                 PROVE  \/ Undelivered' = {} /\ told' = lastSeats'
                        \/ \E n \in Undelivered' : /\ thread'[n].seats = lastSeats'
                                                   /\ Undelivered' \ {n} \subseteq ahead'[n]
      BY DEF LastDelivered
    <3>1. ~crossed /\ ahead[t] = {} /\ t \in Undelivered
      BY <2>1 DEF Undelivered
    <3>2. PICK n \in Undelivered : /\ thread[n].seats = lastSeats
                                   /\ Undelivered \ {n} \subseteq ahead[n]
      BY <1>k, <3>1 DEF LastDelivered
    <3>3. Undelivered' = Undelivered \ {t}
      BY <2>2, DoneTyped DEF Undelivered
    <3>4. CASE n = t
      BY <2>1, <3>1, <3>2, <3>3, <3>4
    <3>5. CASE n # t
      <4>1. n \in Threads /\ n \in Undelivered'
        BY <3>3, <3>5 DEF Undelivered
      <4>2. ahead'[n] = ahead[n] \ {t} /\ thread'[n] = thread[n]
        BY <2>1, <2>2, <3>5, <4>1
      <4> QED BY <2>1, <3>2, <3>3, <4>1, <4>2
    <3> QED BY <3>4, <3>5
  <2>5. WaitingGood'
    BY <1>k, <2>1, <2>2, DoneTyped DEF WaitingGood, verify
  <2>6. CountWorth'
    BY <1>k, <1>p, <2>1, <2>2 DEF CountWorth
  <2>7. StoppedIdle'
    BY <1>k, <2>1 DEF StoppedIdle
  <2> QED BY <1>t, <1>k, <2>1, <2>2, <2>3, <2>4, <2>5, <2>6, <2>7 DEF LicInv, LicTypes, TokenGood, verify
<1>8. CASE Day
  <2>1. clock' \in Nat
        /\ UNCHANGED <<installId, licFile, token, lastSeats, told, running, thread, ahead, crossed>>
    BY <1>8, <1>t DEF Day
  <2> QED BY <1>t, <1>k, <2>1 DEF LicInv, LicTypes, StoppedIdle, TokenGood, WaitingGood, verify,
                                 CountWorth, LastDelivered, Undelivered
<1>9. CASE StopServer
  <2>1. /\ ~running'
        /\ token' = NoToken /\ lastSeats' = 0 /\ told' = 0
        /\ thread' = [t \in Threads |-> Done]
        /\ ahead' = [t \in Threads |-> {}]
        /\ UNCHANGED <<clock, licFile>>
    BY <1>9 DEF StopServer
  <2>2. \A t \in Threads : thread'[t].pc = "idle"
    BY <2>1, DoneTyped
  <2>3. LicTypes' /\ ahead' \in [Threads -> SUBSET Threads]
    BY <1>t, <2>1, DoneTyped DEF LicTypes
  <2>4. StoppedIdle' /\ TokenGood' /\ WaitingGood' /\ CountWorth'
    BY <2>1, <2>2 DEF StoppedIdle, TokenGood, WaitingGood, CountWorth
  <2>5. LastDelivered'
    BY <2>1, <2>2 DEF LastDelivered, Undelivered
  <2> QED BY <2>3, <2>4, <2>5 DEF LicInv
<1>10. CASE UNCHANGED licVars
  BY <1>t, <1>k, <1>10 DEF licVars, LicInv, LicTypes, StoppedIdle, TokenGood, WaitingGood, verify,
                          CountWorth, LastDelivered, Undelivered
<1> QED
  BY <1>1, <1>2, <1>3, <1>4, <1>5, <1>6, <1>7, <1>8, <1>9, <1>10 DEF LicNext

(* Whatever the installs, ticks, expiries and restarts, once nothing is    *)
(* under way and no delivery was overtaken, the store has been told the    *)
(* count last computed, it is nothing or what the token in the file is     *)
(* worth, and that token is good for this installation.                    *)
THEOREM LicenceSeatsTold == LicSpec => []SeatsTold
<1>1. LicInv /\ [LicNext]_licVars => LicInv'
  BY LicInvNext
<1>2. LicInv => SeatsTold
  <2> SUFFICES ASSUME LicInv, Settled, ~crossed
               PROVE  /\ told = lastSeats
                      /\ lastSeats \in {0, token.seats}
                      /\ token # NoToken => token = licFile /\ verify(token)
    BY DEF SeatsTold
  <2>1. \A t \in Threads : thread[t].pc = "idle"
    BY DEF Settled
  <2>2. Undelivered = {}
    BY <2>1 DEF Undelivered
  <2>3. \A i \in Installers : thread[i].pc # "fire"
    BY <2>1 DEF Threads
  <2> QED BY <2>2, <2>3 DEF LicInv, TokenGood, CountWorth, LastDelivered
<1> QED BY <1>1, <1>2, LicInvInit, PTL DEF LicSpec

-----------------------------------------------------------------------------
(* The event ring.                                                         *)

RingTypes ==
  /\ buf \in [0..(RingSize - 1) -> Nat]
  /\ start \in 0..(RingSize - 1)
  /\ count \in 0..RingSize
  /\ seq \in Nat /\ since \in Nat
  /\ life \in Nat /\ sinceLife \in Nat
  /\ reading.on => reading.limit \in Limits

(* Until it is full the ring starts at slot 0 and holds every event; then  *)
(* it holds the last count of them, in order from start.                   *)
RingHolds ==
  /\ count < RingSize => start = 0 /\ seq = count
  /\ count <= seq
  /\ \A j \in 0..(count - 1) : buf[(start + j) % RingSize] = seq - count + 1 + j

(* A client's place is no later than the life that gave it has come.       *)
CursorSound == sinceLife <= life /\ (sinceLife = life => since <= seq)

RingInv == RingTypes /\ RingHolds /\ CursorSound /\ NoSilentGap

(* The slot j places after start, around the end of the buffer at most     *)
(* once.                                                                   *)
LEMMA SlotWraps ==
  ASSUME NEW a \in 0..(RingSize - 1), NEW j \in 0..(RingSize - 1)
  PROVE  (a + j) % RingSize = IF a + j < RingSize THEN a + j ELSE a + j - RingSize
<1>0. RingSize \in Nat \ {0}
  BY RingAssumption
<1>1. CASE a + j < RingSize
  BY <1>0, <1>1
<1>2. CASE a + j >= RingSize
  <2>1. a + j \in RingSize..(2 * RingSize - 1)
    BY <1>0, <1>2
  <2> QED BY <1>0, <1>2, <2>1
<1> QED BY <1>0, <1>1, <1>2

(* A function on 1..n is a sequence of length n.                           *)
LEMMA ListLength ==
  ASSUME NEW n \in Nat, NEW s \in [1..n -> Nat]
  PROVE  Len(s) = n /\ (n > 0 => s # <<>>)
<1>1. s \in Seq(Nat)
  BY SeqDef
<1>2. Len(s) \in Nat /\ DOMAIN s = 1..Len(s)
  BY <1>1, LenProperties
<1>3. 1..Len(s) = 1..n
  BY <1>2
<1>4. Len(s) = n
  BY <1>2, <1>3
<1>5. n > 0 => s # <<>>
  BY <1>4
<1> QED BY <1>4, <1>5

(* What a page holds, for a client at any place s: nothing, when there is  *)
(* nothing after s, or consecutive events from the first one after s that  *)
(* is still there.                                                         *)
LEMMA PageHolds ==
  ASSUME RingTypes, RingHolds, NEW s \in Nat, NEW limit \in Limits
  PROVE  /\ Slots(s, limit) = <<>> => count = 0 \/ s >= seq
         /\ Slots(s, limit) # <<>> =>
              /\ count > 0
              /\ Oldest = seq - count + 1
              /\ Len(Slots(s, limit)) \in Nat \ {0}
              /\ seq - count + Skip(s) + Len(Slots(s, limit)) <= seq
              /\ Skip(s) \in Nat
              /\ Skip(s) = IF s >= Oldest THEN s - Oldest + 1 ELSE 0
              /\ \A i \in 1..Len(Slots(s, limit)) :
                   Slots(s, limit)[i] = seq - count + Skip(s) + i
         /\ Truncated(s) => Slots(s, limit) # <<>>
<1>t. /\ RingSize \in Nat \ {0}
      /\ limit \in Nat \ {0}
      /\ buf \in [0..(RingSize - 1) -> Nat]
      /\ start \in 0..(RingSize - 1)
      /\ count \in 0..RingSize
      /\ seq \in Nat
      /\ count <= seq
  BY RingAssumption DEF RingTypes, RingHolds
<1>h. \A j \in 0..(count - 1) : buf[(start + j) % RingSize] = seq - count + 1 + j
  BY DEF RingHolds
<1>1. CASE count = 0
  <2>1. Slots(s, limit) = <<>> /\ ~Truncated(s)
    BY <1>1 DEF Slots, Truncated
  <2> QED BY <1>1, <2>1
<1>2. CASE count > 0
  <2>1. start % RingSize = start
    BY <1>t
  <2>2. buf[(start + 0) % RingSize] = seq - count + 1 + 0
    BY <1>t, <1>h, <1>2
  <2>o. Oldest = seq - count + 1
    BY <1>t, <2>1, <2>2 DEF Oldest
  <2>k. Skip(s) \in Nat /\ Skip(s) = IF s >= Oldest THEN s - Oldest + 1 ELSE 0
    BY <1>t, <2>o DEF Skip
  <2> DEFINE A == Avail(s, limit)
  <2>a. A = IF count - Skip(s) > limit THEN limit ELSE count - Skip(s)
    BY DEF Avail
  <2>3. A \in Int /\ A + Skip(s) <= count
    BY <1>t, <2>k, <2>a
  <2>4. CASE A <= 0
    <3>1. Slots(s, limit) = <<>>
      BY <2>4 DEF Slots
    <3>2. count - Skip(s) <= 0
      BY <1>t, <2>4, <2>a, <2>k
    <3>3. s >= seq
      BY <1>t, <1>2, <2>o, <2>k, <3>2
    <3>4. ~Truncated(s)
      BY <1>t, <1>2, <2>o, <2>k, <3>2 DEF Truncated
    <3> QED BY <3>1, <3>3, <3>4
  <2>5. CASE A > 0
    <3> DEFINE L == [i \in 1..A |-> buf[(start + Skip(s) + i - 1) % RingSize]]
    <3>1. Slots(s, limit) = L
      BY <1>2, <2>3, <2>5 DEF Slots
    <3>2. ASSUME NEW i \in 1..A
          PROVE  L[i] = seq - count + Skip(s) + i /\ L[i] \in Nat
      <4>1. Skip(s) + i - 1 \in 0..(count - 1)
        BY <1>t, <2>3, <2>k
      <4>2. buf[(start + (Skip(s) + i - 1)) % RingSize] = seq - count + 1 + (Skip(s) + i - 1)
        BY <1>h, <4>1
      <4>3. start + (Skip(s) + i - 1) = start + Skip(s) + i - 1
        BY <1>t, <2>k, <2>3
      <4>4. L[i] = seq - count + 1 + (Skip(s) + i - 1)
        BY <4>2, <4>3
      <4> HIDE DEF A, L
      <4>5. i \in Nat
        BY <2>3
      <4> QED BY <1>t, <2>k, <4>4, <4>5
    <3> HIDE DEF A
    <3>3. A \in Nat /\ L \in [1..A -> Nat]
      BY <2>3, <2>5, <3>2
    <3> HIDE DEF L
    <3>4. Len(L) = A /\ L # <<>>
      BY <2>5, <3>3, ListLength
    <3>5. seq - count + Skip(s) + A <= seq
      BY <1>t, <2>k, <2>3
    <3> QED BY <1>2, <2>o, <2>k, <2>5, <3>1, <3>2, <3>3, <3>4, <3>5
  <2> QED BY <2>3, <2>4, <2>5
<1> QED BY <1>t, <1>1, <1>2

(* An event emitted into the ring is the last it holds.                    *)
LEMMA EmitHolds ==
  ASSUME RingTypes, RingHolds, EmitEvent
  PROVE  /\ RingHolds'
         /\ buf' \in [0..(RingSize - 1) -> Nat]
         /\ start' \in 0..(RingSize - 1)
         /\ count' \in 0..RingSize
         /\ seq' = seq + 1
<1>t. /\ RingSize \in Nat \ {0}
      /\ buf \in [0..(RingSize - 1) -> Nat]
      /\ start \in 0..(RingSize - 1)
      /\ count \in 0..RingSize
      /\ seq \in Nat
      /\ count <= seq
      /\ count < RingSize => start = 0 /\ seq = count
  BY RingAssumption DEF RingTypes, RingHolds
<1>h. \A j \in 0..(count - 1) : buf[(start + j) % RingSize] = seq - count + 1 + j
  BY DEF RingHolds
<1>s. seq' = seq + 1
  BY DEF EmitEvent
<1>1. CASE count < RingSize
  <2>1. /\ start = 0 /\ seq = count
        /\ buf' = [buf EXCEPT ![(start + count) % RingSize] = seq + 1]
        /\ count' = count + 1
        /\ start' = start
    BY <1>1, <1>t DEF EmitEvent
  <2>w. ASSUME NEW j \in 0..count
        PROVE  (start + j) % RingSize = j
    <3>1. j \in 0..(RingSize - 1) /\ start + j = j
      BY <1>1, <1>t, <2>1
    <3>2. j % RingSize = j
      BY <1>t, <3>1
    <3> QED BY <3>1, <3>2
  <2>2. (start + count) % RingSize = count
    <3>1. count \in 0..count
      BY <1>t
    <3> QED BY <2>w, <3>1
  <2>3. buf' \in [0..(RingSize - 1) -> Nat] /\ buf'[count] = seq + 1
        /\ \A i \in 0..(RingSize - 1) : i # count => buf'[i] = buf[i]
    BY <1>1, <1>t, <2>1, <2>2
  <2>4. ASSUME NEW j \in 0..count
        PROVE  buf'[(start' + j) % RingSize] = seq' - count' + 1 + j
    <3>1. (start + j) % RingSize = j
      BY <2>w
    <3>2. CASE j = count
      BY <1>t, <1>s, <2>1, <2>3, <3>1, <3>2
    <3>3. CASE j # count
      <4>1. buf[(start + j) % RingSize] = seq - count + 1 + j
        <5>1. j \in 0..(count - 1)
          BY <1>t, <3>3
        <5> QED BY <1>h, <5>1
      <4>2. buf'[j] = buf[j]
        BY <1>1, <1>t, <2>3, <3>3
      <4> QED BY <1>t, <1>s, <2>1, <3>1, <4>1, <4>2
    <3> QED BY <3>2, <3>3
  <2>5. count' - 1 = count /\ count' <= seq'
    BY <1>t, <1>s, <2>1
  <2>6. RingHolds'
    BY <1>s, <2>1, <2>4, <2>5 DEF RingHolds
  <2> QED BY <1>1, <1>s, <1>t, <2>1, <2>3, <2>6
<1>2. CASE count >= RingSize
  <2>1. /\ count = RingSize
        /\ buf' = [buf EXCEPT ![start] = seq + 1]
        /\ start' = (start + 1) % RingSize
        /\ count' = count
    BY <1>2, <1>t DEF EmitEvent
  <2>2. start' = IF start + 1 < RingSize THEN start + 1 ELSE 0
    <3>1. CASE RingSize = 1
      BY <1>t, <2>1, <3>1
    <3>2. CASE RingSize > 1
      <4>1. 1 \in 0..(RingSize - 1)
        BY <1>t, <3>2
      <4>2. (start + 1) % RingSize =
              IF start + 1 < RingSize THEN start + 1 ELSE start + 1 - RingSize
        BY <1>t, <4>1, SlotWraps
      <4> QED BY <1>t, <2>1, <4>2
    <3> QED BY <1>t, <3>1, <3>2
  <2>3. buf' \in [0..(RingSize - 1) -> Nat] /\ buf'[start] = seq + 1
        /\ \A i \in 0..(RingSize - 1) : i # start => buf'[i] = buf[i]
    BY <1>t, <2>1
  <2>s. start' \in 0..(RingSize - 1)
    BY <1>t, <2>2
  <2>4. ASSUME NEW j \in 0..(RingSize - 1)
        PROVE  buf'[(start' + j) % RingSize] = seq' - count' + 1 + j
    <3>1. (start' + j) % RingSize = IF start' + j < RingSize THEN start' + j ELSE start' + j - RingSize
      BY <2>s, SlotWraps
    <3>2. CASE j = RingSize - 1
      <4>1. (start' + j) % RingSize = start
        BY <1>t, <2>2, <3>1, <3>2
      <4> QED BY <1>t, <1>s, <2>1, <2>3, <3>2, <4>1
    <3>3. CASE j # RingSize - 1
      <4>0. j + 1 \in 0..(RingSize - 1)
        BY <1>t, <3>3
      <4>1. (start + (j + 1)) % RingSize =
              IF start + (j + 1) < RingSize THEN start + (j + 1) ELSE start + (j + 1) - RingSize
        BY <1>t, <4>0, SlotWraps
      <4>2. (start' + j) % RingSize = (start + (j + 1)) % RingSize
        BY <1>t, <2>2, <3>1, <4>0, <4>1
      <4>3. (start' + j) % RingSize \in 0..(RingSize - 1) /\ (start' + j) % RingSize # start
        BY <1>t, <4>0, <4>1, <4>2
      <4>4. buf[(start + (j + 1)) % RingSize] = seq - count + 1 + (j + 1)
        BY <1>h, <2>1, <4>0
      <4> QED BY <1>t, <1>s, <2>1, <2>3, <4>2, <4>3, <4>4
    <3> QED BY <3>2, <3>3
  <2>5. RingHolds'
    BY <1>t, <1>s, <2>1, <2>4 DEF RingHolds
  <2> QED BY <1>s, <1>t, <2>1, <2>3, <2>s, <2>5
<1> QED BY <1>t, <1>1, <1>2

(* A page leaves no silent gap, and its next is a place of this life.      *)
LEMMA PollPage ==
  ASSUME RingTypes, RingHolds, CursorSound, Poll
  PROVE  NoSilentGap' /\ since' \in Nat /\ since' <= seq
<1>t. /\ since \in Nat /\ seq \in Nat /\ count \in 0..RingSize /\ count <= seq
      /\ RingSize \in Nat \ {0}
      /\ reading.limit \in Limits
      /\ count < RingSize => seq = count
  BY RingAssumption DEF RingTypes, RingHolds, Poll
<1> DEFINE L == Slots(since, reading.limit)
<1>1. /\ page' = [since |-> since, seqs |-> L, truncated |-> Truncated(since),
                  next |-> IF L = <<>> THEN seq ELSE L[Len(L)],
                  restarted |-> sinceLife # life]
      /\ since' = page'.next
  BY DEF Poll, Since
<1>2. /\ page'.since = since
      /\ page'.seqs = L
      /\ page'.truncated = Truncated(since)
      /\ page'.next = IF L = <<>> THEN seq ELSE L[Len(L)]
      /\ page'.restarted = (sinceLife # life)
  BY <1>1
<1>3. /\ L = <<>> => count = 0 \/ since >= seq
      /\ L # <<>> =>
           /\ count > 0
           /\ Oldest = seq - count + 1
           /\ Len(L) \in Nat \ {0}
           /\ seq - count + Skip(since) + Len(L) <= seq
           /\ Skip(since) \in Nat
           /\ Skip(since) = IF since >= Oldest THEN since - Oldest + 1 ELSE 0
           /\ \A i \in 1..Len(L) : L[i] = seq - count + Skip(since) + i
      /\ Truncated(since) => L # <<>>
  BY <1>t, PageHolds
<1> HIDE DEF L
<1>4. since' \in Nat /\ since' <= seq
  <2>1. CASE L = <<>>
    BY <1>t, <1>1, <1>2, <2>1
  <2>2. CASE L # <<>>
    <3>1. L[Len(L)] = seq - count + Skip(since) + Len(L)
      BY <1>3, <2>2
    <3> QED BY <1>t, <1>1, <1>2, <1>3, <2>2, <3>1
  <2> QED BY <2>1, <2>2
<1>5. ASSUME sinceLife = life
      PROVE  /\ \A i \in 2..Len(L) : L[i] = L[i - 1] + 1
             /\ L # <<>> /\ since # 0 /\ ~Truncated(since) => L[1] = since + 1
             /\ Truncated(since) => L # <<>> /\ L[1] > since + 1
             /\ L = <<>> => page'.next = since
  <2>0. since <= seq
    BY <1>5 DEF CursorSound
  <2>1. CASE L = <<>>
    <3>1. Len(L) = 0
      BY <2>1
    <3>2. page'.next = since
      BY <1>2, <1>3, <1>t, <2>0, <2>1
    <3> QED BY <1>3, <2>1, <3>1, <3>2
  <2>2. CASE L # <<>>
    <3>1. \A i \in 2..Len(L) : L[i] = L[i - 1] + 1
      <4> SUFFICES ASSUME NEW i \in 2..Len(L) PROVE L[i] = L[i - 1] + 1
        OBVIOUS
      <4>1. i \in 1..Len(L) /\ i - 1 \in 1..Len(L)
        BY <1>3, <2>2
      <4>2. L[i] = seq - count + Skip(since) + i
        BY <1>3, <2>2, <4>1
      <4>3. L[i - 1] = seq - count + Skip(since) + (i - 1)
        BY <1>3, <2>2, <4>1
      <4> QED BY <1>3, <1>t, <2>2, <4>2, <4>3
    <3>2. L[1] = seq - count + Skip(since) + 1
      BY <1>3, <2>2
    <3>3. since # 0 /\ ~Truncated(since) => L[1] = since + 1
      BY <1>3, <1>t, <2>2, <3>2 DEF Truncated
    <3>4. Truncated(since) => L[1] > since + 1
      BY <1>3, <1>t, <2>2, <3>2 DEF Truncated
    <3> QED BY <2>2, <3>1, <3>3, <3>4
  <2> QED BY <2>1, <2>2
<1>6. NoSilentGap'
  BY <1>2, <1>5 DEF NoSilentGap
<1> QED BY <1>4, <1>6

(* Emits, polls and restarts keep the ring's invariant.                    *)
LEMMA RingInvNext ==
  ASSUME RingInv, [RingNext]_ringVars
  PROVE  RingInv'
<1>k. RingTypes /\ RingHolds /\ CursorSound /\ NoSilentGap
  BY DEF RingInv
<1>1. CASE EmitDrops
  BY <1>1, <1>k DEF EmitDrops, RingInv, RingTypes, RingHolds, CursorSound, NoSilentGap
<1>2. CASE EmitEvent
  <2>1. UNCHANGED <<reading, since, sinceLife, life, page>>
    BY <1>2 DEF EmitEvent
  <2>2. RingHolds' /\ RingTypes' /\ CursorSound'
    BY <1>2, <1>k, <2>1, EmitHolds DEF RingTypes, CursorSound
  <2>3. NoSilentGap'
    BY <1>k, <2>1 DEF NoSilentGap
  <2> QED BY <2>2, <2>3 DEF RingInv
<1>3. CASE Lock
  <2>1. /\ reading'.limit \in Limits
        /\ UNCHANGED <<buf, start, count, seq, since, sinceLife, life, page>>
    BY <1>3 DEF Lock
  <2> QED BY <1>k, <2>1 DEF RingInv, RingTypes, RingHolds, CursorSound, NoSilentGap
<1>4. CASE Poll
  <2>1. /\ sinceLife' = life /\ reading' = NoRead
        /\ UNCHANGED <<buf, start, count, seq, life>>
    BY <1>4 DEF Poll
  <2>2. NoSilentGap' /\ since' \in Nat /\ since' <= seq
    BY <1>4, <1>k, PollPage
  <2>3. reading'.on = FALSE
    BY <2>1 DEF NoRead
  <2> QED BY <1>k, <2>1, <2>2, <2>3 DEF RingInv, RingTypes, RingHolds, CursorSound
<1>5. CASE RingRestart
  <2>1. /\ life' = life + 1
        /\ buf' = [i \in 0..(RingSize - 1) |-> 0]
        /\ start' = 0 /\ count' = 0 /\ seq' = 0
        /\ reading' = NoRead
        /\ UNCHANGED <<since, sinceLife, page>>
    BY <1>5 DEF RingRestart
  <2>2. reading'.on = FALSE
    BY <2>1 DEF NoRead
  <2>3. RingTypes'
    BY <1>k, <2>1, <2>2, RingAssumption DEF RingTypes
  <2>4. RingHolds' /\ CursorSound'
    BY <1>k, <2>1, RingAssumption DEF RingTypes, RingHolds, CursorSound
  <2>5. NoSilentGap'
    BY <1>k, <2>1 DEF NoSilentGap
  <2> QED BY <2>3, <2>4, <2>5 DEF RingInv
<1>6. CASE UNCHANGED ringVars
  BY <1>6, <1>k DEF ringVars, RingInv, RingTypes, RingHolds, CursorSound, NoSilentGap
<1> QED BY <1>1, <1>2, <1>3, <1>4, <1>5, <1>6 DEF RingNext

(* For every ring and page size, a client that polls with the seq it was   *)
(* given misses no event silently: the ring's slots, taken round the end   *)
(* of the buffer, always hold the last events in order.                    *)
THEOREM RingNoSilentGap == RingSpec => []NoSilentGap
<1>1. RingInit => RingInv
  <2> SUFFICES ASSUME RingInit PROVE RingInv
    OBVIOUS
  <2>1. RingTypes /\ RingHolds /\ CursorSound
    BY RingAssumption DEF RingInit, RingTypes, RingHolds, CursorSound, NoRead
  <2>2. NoSilentGap
    <3>1. page.seqs = <<>> /\ page.next = page.since /\ page.truncated = FALSE
      BY DEF RingInit, NoPage
    <3>2. Len(page.seqs) = 0
      BY <3>1
    <3> QED BY <3>1, <3>2 DEF NoSilentGap
  <2> QED BY <2>1, <2>2 DEF RingInv
<1>2. RingInv /\ [RingNext]_ringVars => RingInv'
  BY RingInvNext
<1>3. RingInv => NoSilentGap
  BY DEF RingInv
<1> QED BY <1>1, <1>2, <1>3, PTL DEF RingSpec

-----------------------------------------------------------------------------
(* The web console.                                                        *)

Entries == [key : Nat \ {0}, what : {"form", "code"}, press : Presses, match : Nat]
Calls == [st : {"sent", "done", "mismatch"}, press : Presses, match : Nat]
Pages == [kind : {"page"}, version : Nat \ {0}, csrf : Nat, readOnly : BOOLEAN]
CodePages == [kind : {"code"}, key : Nat \ {0}]
Told == {"nothing yet", "saved", "refused", "changed by someone else", "nothing was changed"}

ConsoleTypes ==
  /\ resource \in Nat \ {0} /\ lastFetch \in Nat /\ keys \in Nat /\ logins \in Nat
  /\ presses \in 0..MaxPresses
  /\ cookie \in [Operators -> Nat] /\ resume \in [Operators -> Nat]
  /\ stash \subseteq Entries
  /\ orphans \subseteq {c \in Calls : c.st = "sent"}
  /\ call \in [Operators -> Calls \cup {Idle}]
  /\ screen \in [Operators -> Pages \cup CodePages \cup {NoScreen, LoginScreen}]
  /\ form \in [Presses -> [what : Forms \cup {"none"}, seen : Nat]]
  /\ applied \in [Presses -> Nat]
  /\ shown \in [Presses -> Nat]
  /\ heard \in [Presses -> Told]

(* The keys: each is given out once, a login page's for a form and a code  *)
(* page's for a code.                                                      *)
KeysSound ==
  /\ \A p \in stash : p.key <= keys
  /\ \A p, q \in stash : p.key = q.key => p = q
  /\ \A o \in Operators : resume[o] <= keys
  /\ \A o \in Operators : screen[o].kind = "code" => screen[o].key <= keys
  /\ \A o \in Operators, p \in stash : p.key = resume[o] => p.what = "form"
  /\ \A o \in Operators, p \in stash :
       screen[o].kind = "code" /\ p.key = screen[o].key => p.what = "code"

(* Where a press can be on its way to the call server: stashed behind a    *)
(* login, in a call, or in a request the console gave up on.               *)
Waiting == {p \in stash : p.what = "form"}
Codes == {p \in stash : p.what = "code"}
Calling == {o \in Operators : call[o] # Idle}

(* It is in one place at most.                                             *)
OnePlace ==
  /\ \A p, q \in Waiting : p.press = q.press => p = q
  /\ \A o, q \in Calling : call[o].press = call[q].press => o = q
  /\ \A c, d \in orphans : c.press = d.press => c = d
  /\ \A p \in Waiting, o \in Calling : p.press # call[o].press
  /\ \A p \in Waiting, c \in orphans : p.press # c.press
  /\ \A o \in Calling, c \in orphans : call[o].press # c.press

(* A press not yet made is nowhere.                                        *)
Unpressed ==
  /\ \A p \in stash : p.press <= presses
  /\ \A o \in Calling : call[o].press <= presses
  /\ \A c \in orphans : c.press <= presses
  /\ \A n \in Presses : n > presses =>
       applied[n] = 0 /\ shown[n] = 0 /\ heard[n] = "nothing yet"

(* While it is on its way it has not been executed, and its operator has   *)
(* not been told of it, unless to have given up.                           *)
OnItsWay ==
  /\ \A p \in Waiting : applied[p.press] = 0 /\ heard[p.press] = "nothing yet"
  /\ \A o \in Calling : /\ heard[call[o].press] = "nothing yet"
                        /\ call[o].st = "done" => applied[call[o].press] = 1
                        /\ call[o].st # "done" => applied[call[o].press] = 0
  /\ \A c \in orphans : /\ applied[c.press] = 0
                        /\ heard[c.press] \in {"nothing yet", "nothing was changed"}

(* A code is kept for a press that was answered and not shown.             *)
CodesKept ==
  /\ \A p \in Codes : heard[p.press] = "saved" /\ shown[p.press] = 0
  /\ \A p, q \in Codes : p.press = q.press => p = q
  /\ \A n \in Presses : shown[n] # 0 => heard[n] = "saved"

(* A save carries the version its page showed.                             *)
Carries(c) == form[c.press].what = "save" => c.match = form[c.press].seen /\ c.match # NoIfMatch

VersionsCarried ==
  /\ \A p \in Waiting : Carries(p)
  /\ \A o \in Calling : Carries(call[o])
  /\ \A c \in orphans : Carries(c)

ConsoleInv ==
  /\ ConsoleTypes /\ KeysSound /\ OnePlace /\ Unpressed /\ OnItsWay /\ CodesKept
  /\ VersionsCarried /\ OnceAsTold /\ NeverBlind

(* A call that is not idle is one of the three kinds, and is of its place. *)
LEMMA CallShape ==
  ASSUME ConsoleTypes, NEW o \in Operators
  PROVE  /\ call[o] # Idle => call[o] \in Calls /\ call[o].st # "idle"
         /\ call[o].st # "idle" => call[o] # Idle
         /\ o \in Calling <=> call[o] # Idle
BY DEF ConsoleTypes, Calls, Idle, Calling

(* A screen that is a page, or shows a code, is a record of that kind.     *)
LEMMA ScreenShape ==
  ASSUME ConsoleTypes, NEW o \in Operators
  PROVE  /\ screen[o].kind = "page" => screen[o] \in Pages
         /\ screen[o].kind = "code" => screen[o] \in CodePages
BY DEF ConsoleTypes, Pages, CodePages, NoScreen, LoginScreen

(* Forms, calls and requests that only go away, with nothing executed,     *)
(* told or pressed, disturb nothing.                                       *)
LEMMA QuietFrame ==
  ASSUME ConsoleInv, stash' \subseteq stash, orphans' \subseteq orphans,
         \A o \in Operators : call'[o] = call[o] \/ call'[o] = Idle,
         UNCHANGED <<presses, form, applied, shown, heard, blind>>
  PROVE  /\ OnePlace' /\ Unpressed' /\ OnItsWay' /\ CodesKept'
         /\ VersionsCarried' /\ OnceAsTold' /\ NeverBlind'
<1>1. Waiting' \subseteq Waiting /\ Codes' \subseteq Codes
  BY DEF Waiting, Codes
<1>2. \A o \in Calling' : o \in Calling /\ call'[o] = call[o]
  BY DEF Calling
<1>3. OnePlace'
  BY <1>1, <1>2 DEF ConsoleInv, OnePlace
<1>4. Unpressed'
  BY <1>2 DEF ConsoleInv, Unpressed
<1>5. OnItsWay'
  <2>1. \A p \in Waiting' : applied'[p.press] = 0 /\ heard'[p.press] = "nothing yet"
    BY <1>1, <1>2 DEF ConsoleInv, OnItsWay
  <2>2. \A q \in Calling' : /\ heard'[call'[q].press] = "nothing yet"
                            /\ call'[q].st = "done" => applied'[call'[q].press] = 1
                            /\ call'[q].st # "done" => applied'[call'[q].press] = 0
    <3> SUFFICES ASSUME NEW q \in Calling'
                 PROVE  /\ heard[call[q].press] = "nothing yet"
                        /\ call[q].st = "done" => applied[call[q].press] = 1
                        /\ call[q].st # "done" => applied[call[q].press] = 0
      BY <1>2
    <3> QED BY <1>2 DEF ConsoleInv, OnItsWay
  <2>3. \A c \in orphans' : /\ applied'[c.press] = 0
                            /\ heard'[c.press] \in {"nothing yet", "nothing was changed"}
    BY <1>1, <1>2 DEF ConsoleInv, OnItsWay
  <2> QED BY <2>1, <2>2, <2>3 DEF OnItsWay
<1>6. CodesKept'
  BY <1>1 DEF ConsoleInv, CodesKept
<1>7. VersionsCarried'
  BY <1>1, <1>2 DEF ConsoleInv, VersionsCarried, Carries
<1> QED
  BY <1>3, <1>4, <1>5, <1>6, <1>7 DEF ConsoleInv, OnceAsTold, NeverBlind

(* No new key, and no screen or login page with a key it did not have.     *)
LEMMA KeysFrame ==
  ASSUME ConsoleInv, stash' \subseteq stash, keys' = keys,
         \A o \in Operators : resume'[o] = resume[o] \/ resume'[o] = NoKey,
         \A o \in Operators : screen'[o] = screen[o] \/ screen'[o].kind # "code"
  PROVE  KeysSound'
<1>1. \A p \in stash : p.key # 0 /\ p.key \in Nat
  BY DEF ConsoleInv, ConsoleTypes, Entries
<1>2. KeysSound /\ keys \in Nat
  BY DEF ConsoleInv, ConsoleTypes
<1>3. /\ \A p \in stash' : p.key <= keys'
      /\ \A p, q \in stash' : p.key = q.key => p = q
  BY <1>2 DEF KeysSound
<1>4. \A o \in Operators : resume'[o] <= keys'
  BY <1>2 DEF KeysSound, NoKey
<1>5. \A o \in Operators : screen'[o].kind = "code" => screen'[o].key <= keys'
  BY <1>2 DEF KeysSound
<1>6. \A o \in Operators, p \in stash' : p.key = resume'[o] => p.what = "form"
  BY <1>1, <1>2 DEF KeysSound, NoKey
<1>7. \A o \in Operators, p \in stash' :
        screen'[o].kind = "code" /\ p.key = screen'[o].key => p.what = "code"
  BY <1>2 DEF KeysSound
<1> QED BY <1>3, <1>4, <1>5, <1>6, <1>7 DEF KeysSound

(* The screens a page may be replaced by.                                  *)
LEMMA PlainScreens ==
  /\ NoScreen.kind # "code" /\ LoginScreen.kind # "code"
  /\ \A p \in Pages : p.kind # "code"
BY DEF NoScreen, LoginScreen, Pages

(* A login, which may resume the form it interrupted, keeps the invariant. *)
LEMMA LoginKeeps ==
  ASSUME ConsoleInv, NEW o \in Operators, Login(o)
  PROVE  ConsoleInv'
<1>t. ConsoleTypes /\ KeysSound /\ OnePlace /\ Unpressed /\ OnItsWay /\ CodesKept /\ VersionsCarried
  BY DEF ConsoleInv
<1>1. /\ call[o] = Idle
      /\ logins' = logins + 1
      /\ cookie' = [cookie EXCEPT ![o] = logins + 1]
      /\ screen' = [screen EXCEPT ![o] = NoScreen]
      /\ UNCHANGED <<server, ledger, keys, lastFetch, resume, orphans, shown>>
  BY DEF Login
<1>2. /\ screen' \in [Operators -> Pages \cup CodePages \cup {NoScreen, LoginScreen}]
      /\ cookie' \in [Operators -> Nat]
      /\ logins' \in Nat
      /\ \A q \in Operators : screen'[q] = screen[q] \/ screen'[q].kind # "code"
  BY <1>t, <1>1, PlainScreens DEF ConsoleTypes
<1>3. CASE UNCHANGED <<stash, call>>
  <2>1. ConsoleTypes'
    BY <1>t, <1>1, <1>2, <1>3 DEF ConsoleTypes, server, ledger
  <2>2. KeysSound'
    BY <1>1, <1>2, <1>3, KeysFrame
  <2> QED BY <1>1, <1>3, <2>1, <2>2, QuietFrame DEF ConsoleInv, server, ledger
<1>4. CASE \E p \in Kept(resume[o]) :
             /\ stash' = Take(resume[o])
             /\ call' = [call EXCEPT ![o] = [st |-> "sent", press |-> p.press, match |-> p.match]]
  <2>1. PICK p \in Kept(resume[o]) :
          /\ stash' = Take(resume[o])
          /\ call' = [call EXCEPT ![o] = [st |-> "sent", press |-> p.press, match |-> p.match]]
    BY <1>4
  <2> DEFINE r == [st |-> "sent", press |-> p.press, match |-> p.match]
  <2>2. p \in stash /\ p.key = resume[o] /\ stash' \subseteq stash /\ p \notin stash'
    BY <2>1 DEF Kept, Take
  <2>3. p \in Waiting /\ p \in Entries
    BY <1>t, <2>2 DEF KeysSound, Waiting, ConsoleTypes
  <2>4. r \in Calls /\ r.st = "sent" /\ r.press = p.press /\ r.match = p.match /\ r # Idle
    BY <2>3 DEF Entries, Calls, Idle
  <2>5. /\ call' \in [Operators -> Calls \cup {Idle}]
        /\ call'[o] = r
        /\ \A q \in Operators \ {o} : call'[q] = call[q]
    BY <1>t, <2>1, <2>4 DEF ConsoleTypes
  <2> HIDE DEF r
  <2>6. /\ \A q \in Calling' : q = o \/ (q \in Calling /\ call'[q] = call[q])
        /\ o \notin Calling
    BY <1>1, <2>5 DEF Calling
  <2>7. Waiting' \subseteq Waiting \ {p} /\ Codes' \subseteq Codes
    BY <2>2 DEF Waiting, Codes
  <2>u. UNCHANGED <<resource, applied, blind, presses, form, heard, keys, lastFetch, resume, orphans, shown>>
    BY <1>1 DEF server, ledger
  <2>8. ConsoleTypes'
    BY <1>t, <1>2, <2>2, <2>5, <2>u DEF ConsoleTypes
  <2>9. KeysSound'
    BY <1>2, <2>2, <2>u, KeysFrame
  <2>10. OnePlace'
    BY <1>t, <2>3, <2>4, <2>5, <2>6, <2>7, <2>u DEF OnePlace
  <2>11. Unpressed'
    BY <1>t, <2>2, <2>4, <2>5, <2>6, <2>u DEF Unpressed
  <2>12. OnItsWay'
    <3>1. \A w \in Waiting' : applied'[w.press] = 0 /\ heard'[w.press] = "nothing yet"
      BY <1>t, <2>3, <2>4, <2>5, <2>6, <2>7, <2>u DEF OnItsWay
    <3>2. \A q \in Calling' : /\ heard'[call'[q].press] = "nothing yet"
                              /\ call'[q].st = "done" => applied'[call'[q].press] = 1
                              /\ call'[q].st # "done" => applied'[call'[q].press] = 0
      <4> TAKE q \in Calling'
      <4>1. CASE q = o
        BY <1>t, <2>3, <2>4, <2>5, <2>u, <4>1 DEF OnItsWay
      <4>2. CASE q # o
        <5>1. q \in Calling /\ call'[q] = call[q]
          BY <2>6, <4>2
        <5>2. /\ heard[call[q].press] = "nothing yet"
              /\ call[q].st = "done" => applied[call[q].press] = 1
              /\ call[q].st # "done" => applied[call[q].press] = 0
          BY <1>t, <5>1 DEF OnItsWay
        <5> QED BY <1>t, <2>6, <2>u, <5>1, <5>2
      <4> QED BY <4>1, <4>2
    <3>3. \A c \in orphans' : /\ applied'[c.press] = 0
                              /\ heard'[c.press] \in {"nothing yet", "nothing was changed"}
      BY <1>t, <2>3, <2>4, <2>5, <2>6, <2>7, <2>u DEF OnItsWay
    <3> QED BY <3>1, <3>2, <3>3 DEF OnItsWay
  <2>13. CodesKept'
    BY <1>t, <2>7, <2>u DEF CodesKept
  <2>14. VersionsCarried'
    BY <1>t, <2>3, <2>4, <2>5, <2>6, <2>7, <2>u DEF VersionsCarried, Carries
  <2> QED
    BY <2>8, <2>9, <2>10, <2>11, <2>12, <2>13, <2>14, <2>u DEF ConsoleInv, OnceAsTold, NeverBlind
<1> QED BY <1>3, <1>4 DEF Login

(* A step that changes only screens, sessions and login pages, or drops a  *)
(* form or a request.                                                      *)
LEMMA QuietKeeps ==
  ASSUME ConsoleInv,
         \/ \E o \in Operators : SessionEnds(o) \/ OpenPage(o)
         \/ StashExpires \/ OrphanLost \/ ChangedElsewhere \/ UNCHANGED consoleVars
  PROVE  ConsoleInv'
<1>t. ConsoleTypes
  BY DEF ConsoleInv
<1>1. ASSUME NEW o \in Operators, OpenPage(o)
      PROVE  ConsoleInv'
  <2>1. /\ resume' = [resume EXCEPT ![o] = NoKey]
        /\ UNCHANGED <<server, ledger, cookie, sessions, logins, stash, keys, call, orphans, shown>>
    BY <1>1 DEF OpenPage
  <2>2. \E s \in Pages \cup {NoScreen, LoginScreen} :
          screen' = [screen EXCEPT ![o] = s] /\ lastFetch' \in {lastFetch, resource}
    <3>1. CASE screen' = [screen EXCEPT ![o] = LoginScreen] /\ UNCHANGED lastFetch
      BY <3>1
    <3>2. CASE \E answered \in BOOLEAN : fetched(o, answered)
      <4>1. PICK answered \in BOOLEAN : fetched(o, answered)
        BY <3>2
      <4>2. Page(o, resource, FALSE) \in Pages
        BY <1>t DEF Page, Pages, ConsoleTypes
      <4>3. lastFetch # 0 => Page(o, lastFetch, TRUE) \in Pages
        BY <1>t DEF Page, Pages, ConsoleTypes
      <4>4. CASE answered
        BY <4>1, <4>2, <4>4 DEF fetched
      <4>5. CASE ~answered
        BY <4>1, <4>3, <4>5 DEF fetched
      <4> QED BY <4>4, <4>5
    <3> QED BY <1>1, <3>1, <3>2 DEF OpenPage
  <2>3. PICK s \in Pages \cup {NoScreen, LoginScreen} :
          screen' = [screen EXCEPT ![o] = s] /\ lastFetch' \in {lastFetch, resource}
    BY <2>2
  <2>4. /\ screen' \in [Operators -> Pages \cup CodePages \cup {NoScreen, LoginScreen}]
        /\ \A q \in Operators : screen'[q] = screen[q] \/ screen'[q].kind # "code"
    BY <1>t, <2>3, PlainScreens DEF ConsoleTypes
  <2>5. /\ resume' \in [Operators -> Nat]
        /\ \A q \in Operators : resume'[q] = resume[q] \/ resume'[q] = NoKey
    BY <1>t, <2>1 DEF ConsoleTypes, NoKey
  <2>6. KeysSound'
    BY <2>1, <2>4, <2>5, KeysFrame
  <2>7. ConsoleTypes'
    BY <1>t, <2>1, <2>3, <2>4, <2>5 DEF ConsoleTypes, server, ledger
  <2> QED BY <2>1, <2>6, <2>7, QuietFrame DEF ConsoleInv, server, ledger
<1>2. ASSUME stash' \subseteq stash, orphans' \subseteq orphans,
             resource' \in {resource, resource + 1},
             UNCHANGED <<applied, blind, ledger, cookie, logins, keys, lastFetch, screen,
                         resume, call, shown>>
      PROVE  ConsoleInv'
  <2>1. KeysSound'
    BY <1>2, KeysFrame
  <2>2. ConsoleTypes'
    BY <1>t, <1>2 DEF ConsoleTypes, ledger
  <2> QED BY <1>2, <2>1, <2>2, QuietFrame DEF ConsoleInv, ledger
<1>3. ASSUME NEW o \in Operators, SessionEnds(o)
      PROVE  ConsoleInv'
  BY <1>2, <1>3 DEF SessionEnds, server
<1>4. CASE StashExpires
  BY <1>2, <1>4 DEF StashExpires, server
<1>5. CASE OrphanLost
  BY <1>2, <1>5 DEF OrphanLost, server
<1>6. CASE ChangedElsewhere
  BY <1>2, <1>6 DEF ChangedElsewhere
<1>7. CASE UNCHANGED consoleVars
  BY <1>2, <1>7 DEF consoleVars, ledger
<1> QED BY <1>1, <1>3, <1>4, <1>5, <1>6, <1>7

(* A press is new: nothing has happened to it.                             *)
LEMMA SubmitKeeps ==
  ASSUME ConsoleInv, NEW o \in Operators, Submit(o)
  PROVE  ConsoleInv'
<1>t. ConsoleTypes /\ KeysSound /\ OnePlace /\ Unpressed /\ OnItsWay /\ CodesKept /\ VersionsCarried
      /\ OnceAsTold
  BY DEF ConsoleInv
<1> DEFINE n == presses + 1
<1>1. /\ call[o] = Idle
      /\ screen[o].kind = "page"
      /\ presses < MaxPresses
      /\ presses' = n
      /\ UNCHANGED <<server, cookie, sessions, logins, lastFetch, orphans, shown>>
  BY DEF Submit
<1>2. PICK what \in Forms :
        /\ form' = [form EXCEPT ![n] = [what |-> what, seen |-> screen[o].version]]
        /\ \/ /\ keys' = keys + 1
              /\ stash' = stash \cup {[key |-> keys + 1, what |-> "form", press |-> n, match |-> Match(o, what)]}
              /\ resume' = [resume EXCEPT ![o] = keys + 1]
              /\ screen' = [screen EXCEPT ![o] = LoginScreen]
              /\ UNCHANGED <<call, heard>>
           \/ /\ heard' = [heard EXCEPT ![n] = "refused"]
              /\ screen' = [screen EXCEPT ![o] = NoScreen]
              /\ UNCHANGED <<keys, stash, resume, call>>
           \/ /\ call' = [call EXCEPT ![o] = [st |-> "sent", press |-> n, match |-> Match(o, what)]]
              /\ UNCHANGED <<keys, stash, resume, screen, heard>>
  BY DEF Submit
<1>3. /\ presses \in Nat /\ n \in Presses /\ n \in Nat /\ n > presses
      /\ n \in 0..MaxPresses
  BY <1>t, <1>1, ConsoleAssumption DEF ConsoleTypes, Presses
<1>4. screen[o].version \in Nat \ {0}
  BY <1>t, <1>1, ScreenShape DEF Pages
<1>5. /\ Match(o, what) \in Nat
      /\ what = "save" => Match(o, what) = screen[o].version
  BY <1>4 DEF Match, NoIfMatch
<1>6. /\ form' \in [Presses -> [what : Forms \cup {"none"}, seen : Nat]]
      /\ form'[n] = [what |-> what, seen |-> screen[o].version]
      /\ \A m \in Presses \ {n} : form'[m] = form[m]
  BY <1>t, <1>2, <1>3, <1>4 DEF ConsoleTypes
<1>f. form'[n].what = what /\ form'[n].seen = screen[o].version
  BY <1>6
<1>7. applied[n] = 0 /\ shown[n] = 0 /\ heard[n] = "nothing yet"
  BY <1>t, <1>3 DEF Unpressed
<1>8. /\ \A p \in stash : p.press \in Presses \ {n} /\ p.press < n
      /\ \A q \in Calling : call[q].press \in Presses \ {n} /\ call[q].press < n
      /\ \A c \in orphans : c.press \in Presses \ {n} /\ c.press < n
  <2>1. \A p \in stash : p.press \in Presses /\ p.press \in Nat
    BY <1>t DEF ConsoleTypes, Entries, Presses
  <2>2. \A q \in Calling : call[q].press \in Presses /\ call[q].press \in Nat
    BY <1>t, CallShape DEF Calling, Calls, Presses
  <2>3. \A c \in orphans : c.press \in Presses /\ c.press \in Nat
    BY <1>t DEF ConsoleTypes, Calls, Presses
  <2> HIDE DEF n
  <2>4. \A m \in Nat : m <= presses => m < n /\ m # n
    BY <1>3
  <2>5. /\ \A p \in stash : p.press <= presses
        /\ \A q \in Calling : call[q].press <= presses
        /\ \A c \in orphans : c.press <= presses
    BY <1>t DEF Unpressed
  <2> QED BY <2>1, <2>2, <2>3, <2>4, <2>5
<1> HIDE DEF n
<1>u. UNCHANGED <<resource, applied, blind, cookie, logins, lastFetch, orphans, shown>>
  BY <1>1 DEF server
<1>9. \A m \in Presses : m > n => m > presses
  BY <1>3 DEF Presses
<1>10. CASE /\ keys' = keys + 1
            /\ stash' = stash \cup {[key |-> keys + 1, what |-> "form", press |-> n, match |-> Match(o, what)]}
            /\ resume' = [resume EXCEPT ![o] = keys + 1]
            /\ screen' = [screen EXCEPT ![o] = LoginScreen]
            /\ UNCHANGED <<call, heard>>
  <2> DEFINE e == [key |-> keys + 1, what |-> "form", press |-> n, match |-> Match(o, what)]
  <2>0. keys \in Nat
    BY <1>t DEF ConsoleTypes
  <2>1. /\ e \in Entries
        /\ e.key = keys + 1 /\ e.what = "form" /\ e.press = n /\ e.match = Match(o, what)
    BY <1>3, <1>5, <2>0 DEF Entries
  <2>2. stash' = stash \cup {e}
    BY <1>10
  <2> HIDE DEF e
  <2>3. /\ screen' \in [Operators -> Pages \cup CodePages \cup {NoScreen, LoginScreen}]
        /\ screen'[o] = LoginScreen
        /\ \A q \in Operators \ {o} : screen'[q] = screen[q]
    BY <1>t, <1>10 DEF ConsoleTypes
  <2>4. /\ resume' \in [Operators -> Nat]
        /\ resume'[o] = keys + 1
        /\ \A q \in Operators \ {o} : resume'[q] = resume[q]
    BY <1>t, <1>10 DEF ConsoleTypes
  <2>5. ConsoleTypes'
    BY <1>t, <1>1, <1>3, <1>6, <1>10, <1>u, <2>0, <2>1, <2>2, <2>3, <2>4 DEF ConsoleTypes
  <2>6. KeysSound'
    <3>1. \A p \in stash : p.key \in Nat /\ p.key <= keys
      BY <1>t DEF ConsoleTypes, Entries, KeysSound
    <3>2. \A q \in Operators : resume[q] \in Nat /\ resume[q] <= keys
      BY <1>t DEF ConsoleTypes, KeysSound
    <3>3. \A q \in Operators : screen'[q].kind = "code" =>
            q # o /\ screen'[q] = screen[q] /\ screen[q].key \in Nat /\ screen[q].key <= keys
      BY <1>t, <2>3, PlainScreens, ScreenShape DEF KeysSound, CodePages
    <3>4. /\ \A p \in stash' : p.key <= keys'
          /\ \A p, q \in stash' : p.key = q.key => p = q
      BY <1>t, <1>10, <2>0, <2>1, <2>2, <3>1 DEF KeysSound
    <3>5. \A q \in Operators : resume'[q] <= keys'
      BY <1>10, <2>0, <2>4, <3>2
    <3>6. \A q \in Operators : screen'[q].kind = "code" => screen'[q].key <= keys'
      BY <1>10, <2>0, <3>3
    <3>7. \A q \in Operators, p \in stash' : p.key = resume'[q] => p.what = "form"
      BY <1>t, <2>0, <2>1, <2>2, <2>4, <3>1, <3>2 DEF KeysSound
    <3>8. \A q \in Operators, p \in stash' :
            screen'[q].kind = "code" /\ p.key = screen'[q].key => p.what = "code"
      BY <1>t, <2>0, <2>1, <2>2, <3>3 DEF KeysSound
    <3> QED BY <3>4, <3>5, <3>6, <3>7, <3>8 DEF KeysSound
  <2>7. Waiting' = Waiting \cup {e} /\ Codes' = Codes /\ Calling' = Calling
    BY <1>10, <2>1, <2>2 DEF Waiting, Codes, Calling
  <2>8. OnePlace'
    BY <1>t, <1>8, <1>10, <1>u, <2>1, <2>7 DEF OnePlace, Waiting
  <2>9. Unpressed'
    <3>1. \A p \in stash' : p.press <= presses'
      BY <1>1, <1>3, <1>8, <2>1, <2>2 DEF Presses
    <3>2. \A q \in Calling' : call'[q].press <= presses'
      BY <1>1, <1>3, <1>8, <1>10, <2>7 DEF Presses
    <3>3. \A c \in orphans' : c.press <= presses'
      BY <1>1, <1>3, <1>8, <1>u DEF Presses
    <3> QED BY <1>t, <1>1, <1>9, <1>10, <1>u, <3>1, <3>2, <3>3 DEF Unpressed
  <2>10. OnItsWay'
    BY <1>t, <1>7, <1>10, <1>u, <2>1, <2>7 DEF OnItsWay
  <2>11. CodesKept'
    BY <1>t, <1>10, <1>u, <2>7 DEF CodesKept
  <2>12. VersionsCarried'
    BY <1>t, <1>4, <1>5, <1>6, <1>f, <1>8, <1>10, <1>u, <2>1, <2>7
       DEF VersionsCarried, Carries, Waiting, NoIfMatch
  <2> QED
    BY <1>10, <1>u, <2>5, <2>6, <2>8, <2>9, <2>10, <2>11, <2>12 DEF ConsoleInv, OnceAsTold, NeverBlind
<1>11. CASE /\ heard' = [heard EXCEPT ![n] = "refused"]
            /\ screen' = [screen EXCEPT ![o] = NoScreen]
            /\ UNCHANGED <<keys, stash, resume, call>>
  <2>1. /\ heard' \in [Presses -> Told]
        /\ heard'[n] = "refused"
        /\ \A m \in Presses \ {n} : heard'[m] = heard[m]
    BY <1>t, <1>3, <1>11 DEF ConsoleTypes, Told
  <2>2. /\ screen' \in [Operators -> Pages \cup CodePages \cup {NoScreen, LoginScreen}]
        /\ \A q \in Operators : screen'[q] = screen[q] \/ screen'[q].kind # "code"
    BY <1>t, <1>11, PlainScreens DEF ConsoleTypes
  <2>3. ConsoleTypes'
    BY <1>t, <1>1, <1>3, <1>6, <1>11, <1>u, <2>1, <2>2 DEF ConsoleTypes
  <2>4. KeysSound'
    BY <1>11, <2>2, KeysFrame
  <2>5. Waiting' = Waiting /\ Codes' = Codes /\ Calling' = Calling
    BY <1>11 DEF Waiting, Codes, Calling
  <2>6. OnePlace'
    BY <1>t, <1>11, <1>u, <2>5 DEF OnePlace
  <2>7. Unpressed'
    <3>1. \A p \in stash' : p.press <= presses'
      BY <1>1, <1>3, <1>8, <1>11 DEF Presses
    <3>2. \A q \in Calling' : call'[q].press <= presses'
      BY <1>1, <1>3, <1>8, <1>11, <2>5 DEF Presses
    <3>3. \A c \in orphans' : c.press <= presses'
      BY <1>1, <1>3, <1>8, <1>u DEF Presses
    <3>4. \A m \in Presses : m > n => m # n
      BY <1>3 DEF Presses
    <3> QED BY <1>t, <1>1, <1>9, <1>u, <2>1, <3>1, <3>2, <3>3, <3>4 DEF Unpressed
  <2>8. OnItsWay'
    BY <1>t, <1>8, <1>11, <1>u, <2>1, <2>5 DEF OnItsWay, Waiting
  <2>9. CodesKept'
    BY <1>t, <1>7, <1>8, <1>11, <1>u, <2>1, <2>5 DEF CodesKept, Codes
  <2>10. VersionsCarried'
    BY <1>t, <1>6, <1>8, <1>11, <1>u, <2>5 DEF VersionsCarried, Carries, Waiting
  <2>11. OnceAsTold'
    BY <1>t, <1>7, <1>u, <2>1 DEF OnceAsTold
  <2> QED
    BY <1>u, <2>3, <2>4, <2>6, <2>7, <2>8, <2>9, <2>10, <2>11 DEF ConsoleInv, NeverBlind
<1>12. CASE /\ call' = [call EXCEPT ![o] = [st |-> "sent", press |-> n, match |-> Match(o, what)]]
            /\ UNCHANGED <<keys, stash, resume, screen, heard>>
  <2> DEFINE r == [st |-> "sent", press |-> n, match |-> Match(o, what)]
  <2>1. r \in Calls /\ r.st = "sent" /\ r.press = n /\ r.match = Match(o, what) /\ r # Idle
    BY <1>3, <1>5 DEF Calls, Idle
  <2>2. /\ call' \in [Operators -> Calls \cup {Idle}]
        /\ call'[o] = r
        /\ \A q \in Operators \ {o} : call'[q] = call[q]
    BY <1>t, <1>12, <2>1 DEF ConsoleTypes
  <2> HIDE DEF r
  <2>3. /\ \A q \in Calling' : q = o \/ (q \in Calling /\ call'[q] = call[q])
        /\ Waiting' = Waiting /\ Codes' = Codes
    BY <1>12, <2>2 DEF Calling, Waiting, Codes
  <2>4. ConsoleTypes'
    BY <1>t, <1>1, <1>3, <1>6, <1>12, <1>u, <2>2 DEF ConsoleTypes
  <2>5. KeysSound'
    BY <1>12, KeysFrame
  <2>6. OnePlace'
    BY <1>t, <1>8, <1>u, <2>1, <2>2, <2>3 DEF OnePlace, Waiting
  <2>7. Unpressed'
    <3>1. \A p \in stash' : p.press <= presses'
      BY <1>1, <1>3, <1>8, <1>12 DEF Presses
    <3>2. \A q \in Calling' : call'[q].press <= presses'
      BY <1>1, <1>3, <1>8, <2>1, <2>2, <2>3 DEF Presses
    <3>3. \A c \in orphans' : c.press <= presses'
      BY <1>1, <1>3, <1>8, <1>u DEF Presses
    <3> QED BY <1>t, <1>1, <1>9, <1>12, <1>u, <3>1, <3>2, <3>3 DEF Unpressed
  <2>8. OnItsWay'
    <3>1. \A p \in Waiting' : applied'[p.press] = 0 /\ heard'[p.press] = "nothing yet"
      BY <1>t, <1>7, <1>12, <1>u, <2>1, <2>2, <2>3 DEF OnItsWay
    <3>2. \A q \in Calling' : /\ heard'[call'[q].press] = "nothing yet"
                              /\ call'[q].st = "done" => applied'[call'[q].press] = 1
                              /\ call'[q].st # "done" => applied'[call'[q].press] = 0
      <4> TAKE q \in Calling'
      <4>1. CASE q = o
        BY <1>7, <1>12, <1>u, <2>1, <2>2, <4>1 DEF OnItsWay
      <4>2. CASE q # o
        <5>1. q \in Calling /\ call'[q] = call[q]
          BY <2>3, <4>2
        <5>2. /\ heard[call[q].press] = "nothing yet"
              /\ call[q].st = "done" => applied[call[q].press] = 1
              /\ call[q].st # "done" => applied[call[q].press] = 0
          BY <1>t, <5>1 DEF OnItsWay
        <5> QED BY <1>t, <1>12, <1>u, <2>3, <5>1, <5>2
      <4> QED BY <4>1, <4>2
    <3>3. \A c \in orphans' : /\ applied'[c.press] = 0
                              /\ heard'[c.press] \in {"nothing yet", "nothing was changed"}
      BY <1>t, <1>7, <1>12, <1>u, <2>1, <2>2, <2>3 DEF OnItsWay
    <3> QED BY <3>1, <3>2, <3>3 DEF OnItsWay
  <2>9. CodesKept'
    BY <1>t, <1>12, <1>u, <2>3 DEF CodesKept
  <2>10. VersionsCarried'
    BY <1>t, <1>4, <1>5, <1>6, <1>f, <1>8, <1>u, <2>1, <2>2, <2>3
       DEF VersionsCarried, Carries, Waiting, NoIfMatch
  <2> QED
    BY <1>12, <1>u, <2>4, <2>5, <2>6, <2>7, <2>8, <2>9, <2>10 DEF ConsoleInv, OnceAsTold, NeverBlind
<1> QED BY <1>2, <1>10, <1>11, <1>12

(* Presses are counted.                                                    *)
LEMMA PressNumbers ==
  ASSUME ConsoleTypes
  PROVE  presses \in Nat /\ Presses \subseteq Nat
BY ConsoleAssumption DEF ConsoleTypes, Presses

(* What is told of one press leaves the others on their way as they were.  *)
LEMMA OnWayFrame ==
  ASSUME OnItsWay, NEW n \in Presses,
         Waiting' \subseteq Waiting, orphans' \subseteq orphans,
         \A p \in Waiting' : p.press \in Presses \ {n},
         \A c \in orphans' : c.press \in Presses \ {n},
         \A q \in Calling' : q \in Calling /\ call'[q] = call[q] /\ call[q].press \in Presses \ {n},
         \A m \in Presses \ {n} : heard'[m] = heard[m] /\ applied'[m] = applied[m]
  PROVE  OnItsWay'
<1>1. \A p \in Waiting' : applied'[p.press] = 0 /\ heard'[p.press] = "nothing yet"
  BY DEF OnItsWay
<1>2. \A c \in orphans' : /\ applied'[c.press] = 0
                          /\ heard'[c.press] \in {"nothing yet", "nothing was changed"}
  BY DEF OnItsWay
<1>3. ASSUME NEW q \in Calling'
      PROVE  /\ heard'[call'[q].press] = "nothing yet"
             /\ call'[q].st = "done" => applied'[call'[q].press] = 1
             /\ call'[q].st # "done" => applied'[call'[q].press] = 0
  <2>1. q \in Calling /\ call'[q] = call[q] /\ call[q].press \in Presses \ {n}
    OBVIOUS
  <2>2. /\ heard[call[q].press] = "nothing yet"
        /\ call[q].st = "done" => applied[call[q].press] = 1
        /\ call[q].st # "done" => applied[call[q].press] = 0
    BY <2>1 DEF OnItsWay
  <2>3. /\ heard'[call[q].press] = heard[call[q].press]
        /\ applied'[call[q].press] = applied[call[q].press]
    BY <2>1
  <2> QED BY <2>1, <2>2, <2>3
<1> QED BY <1>1, <1>2, <1>3 DEF OnItsWay

(* Executing a request that carries its version executes its press once    *)
(* and replaces nothing its operator was not shown.                        *)
LEMMA ExecuteOnce ==
  ASSUME ConsoleInv, NEW c, c.press \in Presses, Carries(c), applied[c.press] = 0, Execute(c)
  PROVE  /\ applied' \in [Presses -> Nat]
         /\ applied'[c.press] = 1
         /\ \A m \in Presses \ {c.press} : applied'[m] = applied[m]
         /\ resource' \in Nat \ {0}
         /\ NeverBlind'
<1>t. applied \in [Presses -> Nat] /\ resource \in Nat \ {0} /\ ~blind
  BY DEF ConsoleInv, ConsoleTypes, NeverBlind
<1>1. /\ c.match \in {NoIfMatch, resource}
      /\ applied' = [applied EXCEPT ![c.press] = applied[c.press] + 1]
      /\ resource' \in {resource, resource + 1}
      /\ blind' = (blind \/ (form[c.press].what = "save" /\ form[c.press].seen # resource))
  BY DEF Execute, VersionMatches
<1>2. ~(form[c.press].what = "save" /\ form[c.press].seen # resource)
  BY <1>1 DEF Carries
<1>3. NeverBlind'
  BY <1>t, <1>1, <1>2, Zenon DEF NeverBlind
<1>4. /\ applied' \in [Presses -> Nat]
      /\ applied'[c.press] = 1
      /\ \A m \in Presses \ {c.press} : applied'[m] = applied[m]
  BY <1>t, <1>1
<1>5. resource' \in Nat \ {0}
  BY <1>t, <1>1
<1> QED BY <1>3, <1>4, <1>5

(* A request executed by the admin API keeps the invariant.                *)
LEMMA ExecutedKeeps ==
  ASSUME ConsoleInv, NEW o \in Operators, Executed(o)
  PROVE  ConsoleInv'
<1>t. ConsoleTypes /\ KeysSound /\ OnePlace /\ Unpressed /\ OnItsWay /\ CodesKept /\ VersionsCarried
      /\ OnceAsTold
  BY DEF ConsoleInv
<1>1. /\ call[o].st = "sent"
      /\ UNCHANGED <<ledger, cookie, sessions, logins, stash, keys, lastFetch, screen, resume,
                     orphans, shown>>
  BY DEF Executed
<1>2. call[o] \in Calls /\ o \in Calling
  BY <1>t, <1>1, CallShape
<1> DEFINE n == call[o].press
<1>3. n \in Presses /\ applied[n] = 0 /\ heard[n] = "nothing yet" /\ Carries(call[o])
  BY <1>t, <1>1, <1>2 DEF Calls, OnItsWay, VersionsCarried
<1>4. ASSUME NEW x \in {"done", "mismatch"}, call' = [call EXCEPT ![o].st = x]
      PROVE  /\ call' \in [Operators -> Calls \cup {Idle}]
             /\ call'[o].st = x /\ call'[o].press = n /\ call'[o].match = call[o].match
             /\ \A q \in Operators \ {o} : call'[q] = call[q]
             /\ Calling' = Calling
  <2>1. [call[o] EXCEPT !.st = x] \in Calls
    BY <1>2 DEF Calls
  <2>2. /\ call' \in [Operators -> Calls \cup {Idle}]
        /\ call'[o] = [call[o] EXCEPT !.st = x]
        /\ \A q \in Operators \ {o} : call'[q] = call[q]
    BY <1>t, <1>4, <2>1 DEF ConsoleTypes
  <2>3. call'[o].st = x /\ call'[o].press = n /\ call'[o].match = call[o].match
    BY <1>2, <2>2 DEF Calls
  <2>4. call'[o] # Idle
    BY <2>3 DEF Idle
  <2> QED BY <1>2, <2>2, <2>3, <2>4 DEF Calling
<1> HIDE DEF n
<1>u. UNCHANGED <<presses, form, heard, cookie, logins, stash, keys, lastFetch, screen, resume,
                  orphans, shown>>
  BY <1>1 DEF ledger
<1>5. Waiting' = Waiting /\ Codes' = Codes
  BY <1>u DEF Waiting, Codes
<1>6. KeysSound'
  BY <1>u, KeysFrame
<1>7. ASSUME /\ \/ call' = [call EXCEPT ![o].st = "done"] /\ applied'[n] = 1
                \/ call' = [call EXCEPT ![o].st = "mismatch"] /\ applied'[n] = 0,
             applied' \in [Presses -> Nat],
             \A m \in Presses \ {n} : applied'[m] = applied[m],
             resource' \in Nat \ {0},
             NeverBlind'
      PROVE  ConsoleInv'
  <2>1. /\ call' \in [Operators -> Calls \cup {Idle}]
        /\ call'[o].press = n /\ call'[o].match = call[o].match
        /\ \A q \in Operators \ {o} : call'[q] = call[q]
        /\ Calling' = Calling
    BY <1>4, <1>7
  <2>2. /\ call'[o].st = "done" => applied'[n] = 1
        /\ call'[o].st # "done" => applied'[n] = 0
    BY <1>4, <1>7
  <2>p. /\ \A p \in stash : p.press \in Presses
        /\ \A c \in orphans : c.press \in Presses
        /\ \A q \in Calling : call[q].press \in Presses
    BY <1>t, CallShape DEF ConsoleTypes, Entries, Calls, Calling
  <2>q. \A q \in Calling : call'[q].press = call[q].press
    BY <1>2, <2>1 DEF n, Calling
  <2>3. ConsoleTypes'
    BY <1>t, <1>7, <1>u, <2>1 DEF ConsoleTypes
  <2>4. OnePlace'
    BY <1>t, <1>5, <1>u, <2>1, <2>q DEF OnePlace
  <2>5. Unpressed'
    <3>1. n <= presses
      BY <1>t, <1>2 DEF Unpressed, n
    <3>2. \A m \in Presses : m > presses => m # n
      <4>1. presses \in Nat /\ Presses \subseteq Nat
        BY <1>t, PressNumbers
      <4>2. n \in Nat
        BY <1>3, <4>1
      <4> SUFFICES ASSUME NEW m \in Nat, m > presses PROVE m # n
        BY <4>1
      <4> QED BY <3>1, <4>1, <4>2
    <3> QED BY <1>t, <1>7, <1>u, <2>1, <2>q, <3>2 DEF Unpressed
  <2>6. OnItsWay'
    <3>1. \A p \in Waiting' : applied'[p.press] = 0 /\ heard'[p.press] = "nothing yet"
      BY <1>t, <1>2, <1>5, <1>7, <1>u, <2>p DEF OnItsWay, OnePlace, Waiting, n
    <3>2. \A c \in orphans' : /\ applied'[c.press] = 0
                              /\ heard'[c.press] \in {"nothing yet", "nothing was changed"}
      BY <1>t, <1>2, <1>7, <1>u, <2>p DEF OnItsWay, OnePlace, n
    <3>3. ASSUME NEW q \in Calling'
          PROVE  /\ heard'[call'[q].press] = "nothing yet"
                 /\ call'[q].st = "done" => applied'[call'[q].press] = 1
                 /\ call'[q].st # "done" => applied'[call'[q].press] = 0
      <4>1. CASE q = o
        BY <1>3, <1>u, <2>1, <2>2, <4>1
      <4>2. CASE q # o
        <5>1. q \in Calling /\ call'[q] = call[q] /\ call[q].press # n
          BY <1>t, <1>2, <2>1, <4>2 DEF OnePlace, n, Calling
        <5>2. /\ heard[call[q].press] = "nothing yet"
              /\ call[q].st = "done" => applied[call[q].press] = 1
              /\ call[q].st # "done" => applied[call[q].press] = 0
          BY <1>t, <5>1 DEF OnItsWay
        <5>3. applied'[call[q].press] = applied[call[q].press]
          BY <1>7, <2>p, <5>1
        <5> QED BY <1>u, <5>1, <5>2, <5>3
      <4> QED BY <4>1, <4>2
    <3> QED BY <3>1, <3>2, <3>3 DEF OnItsWay
  <2>7. CodesKept'
    BY <1>t, <1>5, <1>u DEF CodesKept
  <2>8. VersionsCarried'
    <3>1. \A p \in Waiting' : Carries(p)'
      BY <1>t, <1>5, <1>u DEF VersionsCarried, Carries
    <3>2. \A c \in orphans' : Carries(c)'
      BY <1>t, <1>u DEF VersionsCarried, Carries
    <3>3. ASSUME NEW q \in Calling' PROVE Carries(call[q])'
      <4>1. q \in Calling /\ Carries(call[q])
        BY <1>t, <2>1 DEF VersionsCarried
      <4>2. call'[q].press = call[q].press /\ call'[q].match = call[q].match
        BY <2>1, <2>q, <4>1 DEF Calling
      <4> QED BY <1>u, <4>1, <4>2 DEF Carries
    <3> QED BY <3>1, <3>2, <3>3 DEF VersionsCarried
  <2>9. OnceAsTold'
    <3> SUFFICES ASSUME NEW m \in Presses
                 PROVE  /\ applied'[m] <= 1 /\ shown'[m] <= 1
                        /\ heard'[m] = "saved" => applied'[m] = 1
                        /\ heard'[m] \in {"refused", "changed by someone else"} => applied'[m] = 0
      BY DEF OnceAsTold
    <3>1. CASE m = n
      <4>1. applied'[n] = 1 \/ applied'[n] = 0
        BY <1>7
      <4>2. heard'[n] = "nothing yet" /\ shown'[n] <= 1
        BY <1>t, <1>3, <1>u DEF OnceAsTold
      <4>3. applied'[n] <= 1
        BY <4>1
      <4> QED BY <3>1, <4>2, <4>3
    <3>2. CASE m # n
      BY <1>t, <1>7, <1>u, <3>2 DEF OnceAsTold
    <3> QED BY <3>1, <3>2
  <2> QED BY <1>6, <1>7, <2>3, <2>4, <2>5, <2>6, <2>7, <2>8, <2>9 DEF ConsoleInv
<1>8. CASE Execute(call[o]) /\ call' = [call EXCEPT ![o].st = "done"]
  <2>1. /\ applied' \in [Presses -> Nat]
        /\ applied'[n] = 1
        /\ \A m \in Presses \ {n} : applied'[m] = applied[m]
        /\ resource' \in Nat \ {0}
        /\ NeverBlind'
    BY <1>3, <1>8, ExecuteOnce DEF n
  <2> QED BY <1>7, <1>8, <2>1
<1>9. CASE call' = [call EXCEPT ![o].st = "mismatch"] /\ UNCHANGED server
  <2>1. /\ applied' \in [Presses -> Nat]
        /\ applied'[n] = 0
        /\ \A m \in Presses \ {n} : applied'[m] = applied[m]
        /\ resource' \in Nat \ {0}
        /\ NeverBlind'
    BY <1>t, <1>3, <1>9 DEF server, ConsoleTypes, ConsoleInv, NeverBlind
  <2> QED BY <1>7, <1>9, <2>1
<1> QED BY <1>8, <1>9 DEF Executed

(* An answer, or giving up, ends the call of o: what its press is told     *)
(* touches no other press.                                                 *)
LEMMA CallEnds ==
  ASSUME ConsoleInv, NEW o \in Calling, NEW y \in Told,
         call' = [call EXCEPT ![o] = Idle],
         heard' = [heard EXCEPT ![call[o].press] = y],
         UNCHANGED <<presses, form, applied, shown>>
  PROVE  /\ o \in Operators /\ call[o] \in Calls /\ call[o].press \in Presses
         /\ call' \in [Operators -> Calls \cup {Idle}]
         /\ Calling' = Calling \ {o}
         /\ \A q \in Calling' : call'[q] = call[q] /\ call[q].press # call[o].press
         /\ heard' \in [Presses -> Told]
         /\ heard'[call[o].press] = y
         /\ \A m \in Presses \ {call[o].press} : heard'[m] = heard[m]
         /\ shown[call[o].press] = 0
         /\ \A n \in Presses : n > presses => heard'[n] = heard[n]
<1>t. ConsoleTypes /\ OnePlace /\ Unpressed /\ OnItsWay /\ CodesKept
  BY DEF ConsoleInv
<1>1. o \in Operators /\ call[o] \in Calls
  BY <1>t, CallShape DEF Calling
<1>2. call[o].press \in Presses /\ call[o].press <= presses /\ heard[call[o].press] = "nothing yet"
  BY <1>t, <1>1 DEF Calls, Unpressed, OnItsWay
<1>3. /\ call' \in [Operators -> Calls \cup {Idle}]
      /\ call'[o] = Idle
      /\ \A q \in Operators \ {o} : call'[q] = call[q]
  BY <1>t, <1>1 DEF ConsoleTypes
<1>4. /\ Calling' = Calling \ {o}
      /\ \A q \in Calling' : q \in Calling /\ q # o /\ call'[q] = call[q]
  BY <1>3 DEF Calling
<1>5. \A q \in Calling' : call'[q] = call[q] /\ call[q].press # call[o].press
  BY <1>t, <1>4 DEF OnePlace
<1>6. /\ heard' \in [Presses -> Told]
      /\ heard'[call[o].press] = y
      /\ \A m \in Presses \ {call[o].press} : heard'[m] = heard[m]
  BY <1>t, <1>2 DEF ConsoleTypes
<1>7. shown[call[o].press] = 0
  BY <1>t, <1>2 DEF CodesKept
<1>8. \A n \in Presses : n > presses => n # call[o].press
  <2>1. presses \in Nat /\ Presses \subseteq Nat
    BY <1>t, PressNumbers
  <2>2. call[o].press \in Nat /\ call[o].press <= presses
    BY <1>2, <2>1
  <2> SUFFICES ASSUME NEW n \in Nat, n > presses PROVE n # call[o].press
    BY <2>1
  <2> QED BY <2>1, <2>2
<1> QED BY <1>1, <1>2, <1>3, <1>4, <1>5, <1>6, <1>7, <1>8

(* A request answered in time keeps the invariant.                         *)
LEMMA CallAnsweredKeeps ==
  ASSUME ConsoleInv, NEW o \in Operators, CallAnswered(o)
  PROVE  ConsoleInv'
<1>t. ConsoleTypes /\ KeysSound /\ OnePlace /\ Unpressed /\ OnItsWay /\ CodesKept /\ VersionsCarried
      /\ OnceAsTold
  BY DEF ConsoleInv
<1> DEFINE n == call[o].press
           y == IF call[o].st = "done" THEN "saved" ELSE "changed by someone else"
<1>1. /\ call[o].st \in {"done", "mismatch"}
      /\ call' = [call EXCEPT ![o] = Idle]
      /\ heard' = [heard EXCEPT ![n] = y]
      /\ UNCHANGED <<server, presses, form, cookie, sessions, logins, lastFetch, resume, orphans, shown>>
  BY DEF CallAnswered
<1>2. o \in Calling
  BY <1>t, <1>1, CallShape
<1>y. y \in Told
  BY DEF Told
<1>u. UNCHANGED <<resource, applied, blind, presses, form, cookie, logins, lastFetch, resume, orphans, shown>>
  BY <1>1 DEF server
<1>3. /\ n \in Presses
      /\ call' \in [Operators -> Calls \cup {Idle}]
      /\ Calling' = Calling \ {o}
      /\ \A q \in Calling' : call'[q] = call[q] /\ call[q].press # n
      /\ heard' \in [Presses -> Told]
      /\ heard'[n] = y
      /\ \A m \in Presses \ {n} : heard'[m] = heard[m]
      /\ shown[n] = 0
      /\ \A m \in Presses : m > presses => heard'[m] = heard[m]
  <2> HIDE DEF y
  <2> QED BY <1>1, <1>2, <1>u, <1>y, CallEnds
<1>4. /\ heard[n] = "nothing yet"
      /\ call[o].st = "done" => applied[n] = 1
      /\ call[o].st # "done" => applied[n] = 0
      /\ n <= presses
  BY <1>t, <1>2 DEF OnItsWay, Unpressed
<1>p. /\ \A p \in stash : p.press \in Presses
      /\ \A c \in orphans : c.press \in Presses
      /\ \A q \in Calling : call[q].press \in Presses
  BY <1>t, CallShape DEF ConsoleTypes, Entries, Calls, Calling
<1>n. /\ \A p \in Waiting : p.press # n
      /\ \A c \in orphans : c.press # n
      /\ \A p \in Codes : p.press # n
  BY <1>t, <1>2, <1>4 DEF OnePlace, CodesKept
<1>z. /\ call[o].st = "done" => y = "saved"
      /\ call[o].st # "done" => y = "changed by someone else"
  OBVIOUS
<1>w. \A q \in Calling' : q \in Calling /\ call'[q] = call[q] /\ call[q].press \in Presses \ {n}
  BY <1>3, <1>p
<1> HIDE DEF n, y
<1>5. OnceAsTold'
  <2> SUFFICES ASSUME NEW m \in Presses
               PROVE  /\ applied[m] <= 1 /\ shown[m] <= 1
                      /\ heard'[m] = "saved" => applied[m] = 1
                      /\ heard'[m] \in {"refused", "changed by someone else"} => applied[m] = 0
    BY <1>u DEF OnceAsTold
  <2>1. CASE m # n
    BY <1>t, <1>3, <2>1 DEF OnceAsTold
  <2>2. CASE m = n
    BY <1>t, <1>1, <1>3, <1>4, <1>z, <2>2 DEF OnceAsTold
  <2> QED BY <2>1, <2>2
<1>6. CASE /\ call[o].st = "done"
           /\ keys' = keys + 1
           /\ stash' = stash \cup {[key |-> keys + 1, what |-> "code", press |-> n, match |-> NoIfMatch]}
           /\ screen' = [screen EXCEPT ![o] = [kind |-> "code", key |-> keys + 1]]
  <2> DEFINE e == [key |-> keys + 1, what |-> "code", press |-> n, match |-> NoIfMatch]
             v == [kind |-> "code", key |-> keys + 1]
  <2>0. keys \in Nat
    BY <1>t DEF ConsoleTypes
  <2>1. e \in Entries /\ e.key = keys + 1 /\ e.what = "code" /\ e.press = n
    BY <1>3, <2>0 DEF Entries, NoIfMatch
  <2>2. v \in CodePages /\ v.kind = "code" /\ v.key = keys + 1
    BY <2>0 DEF CodePages
  <2>3. stash' = stash \cup {e} /\ screen' = [screen EXCEPT ![o] = v]
    BY <1>6
  <2> HIDE DEF e, v
  <2>4. /\ screen' \in [Operators -> Pages \cup CodePages \cup {NoScreen, LoginScreen}]
        /\ screen'[o] = v
        /\ \A q \in Operators \ {o} : screen'[q] = screen[q]
    BY <1>t, <2>2, <2>3 DEF ConsoleTypes
  <2>5. Waiting' = Waiting /\ Codes' = Codes \cup {e}
    BY <2>1, <2>3 DEF Waiting, Codes
  <2>6. ConsoleTypes'
    BY <1>t, <1>3, <1>6, <1>u, <2>0, <2>1, <2>3, <2>4 DEF ConsoleTypes
  <2>7. KeysSound'
    <3>1. \A p \in stash : p.key \in Nat /\ p.key <= keys
      BY <1>t DEF ConsoleTypes, Entries, KeysSound
    <3>2. \A q \in Operators : resume'[q] \in Nat /\ resume'[q] = resume[q] /\ resume[q] <= keys
      BY <1>t, <1>u DEF ConsoleTypes, KeysSound
    <3>3. \A q \in Operators \ {o} : screen'[q].kind = "code" =>
            screen'[q] = screen[q] /\ screen[q].key \in Nat /\ screen[q].key <= keys
      BY <1>t, <2>4, ScreenShape DEF KeysSound, CodePages
    <3>4. /\ \A p \in stash' : p.key <= keys'
          /\ \A p, q \in stash' : p.key = q.key => p = q
      BY <1>t, <1>6, <2>0, <2>1, <2>3, <3>1 DEF KeysSound
    <3>5. \A q \in Operators : resume'[q] <= keys'
      BY <1>6, <2>0, <3>2
    <3>6. \A q \in Operators : screen'[q].kind = "code" => screen'[q].key <= keys'
      BY <1>6, <2>0, <2>2, <2>4, <3>3
    <3>7. \A q \in Operators, p \in stash' : p.key = resume'[q] => p.what = "form"
      BY <1>t, <2>0, <2>1, <2>3, <3>2 DEF KeysSound
    <3>8. \A q \in Operators, p \in stash' :
            screen'[q].kind = "code" /\ p.key = screen'[q].key => p.what = "code"
      BY <1>t, <2>0, <2>1, <2>2, <2>3, <2>4, <3>1, <3>3 DEF KeysSound
    <3> QED BY <3>4, <3>5, <3>6, <3>7, <3>8 DEF KeysSound
  <2>8. OnePlace'
    BY <1>t, <1>u, <1>w, <2>5 DEF OnePlace
  <2>9. Unpressed'
    BY <1>t, <1>3, <1>4, <1>u, <2>1, <2>3 DEF Unpressed
  <2>10. OnItsWay'
    BY <1>t, <1>3, <1>n, <1>p, <1>u, <1>w, <2>5, OnWayFrame DEF Waiting
  <2>11. CodesKept'
    <3>1. heard'[n] = "saved"
      BY <1>3, <1>6, <1>z
    <3>2. \A p \in Codes : heard'[p.press] = "saved" /\ shown'[p.press] = 0
      BY <1>t, <1>3, <1>n, <1>p, <1>u DEF CodesKept, Codes
    <3>3. \A p, q \in Codes' : p.press = q.press => p = q
      BY <1>t, <1>n, <2>1, <2>5 DEF CodesKept
    <3>4. \A m \in Presses : shown'[m] # 0 => heard'[m] = "saved"
      BY <1>t, <1>3, <1>u DEF CodesKept
    <3> QED BY <1>3, <1>u, <2>1, <2>5, <3>1, <3>2, <3>3, <3>4 DEF CodesKept
  <2>12. VersionsCarried'
    BY <1>t, <1>3, <1>u, <2>5 DEF VersionsCarried, Carries
  <2> QED
    BY <1>5, <1>u, <2>6, <2>7, <2>8, <2>9, <2>10, <2>11, <2>12 DEF ConsoleInv, NeverBlind
<1>7. CASE screen' = [screen EXCEPT ![o] = NoScreen] /\ UNCHANGED <<keys, stash>>
  <2>1. /\ screen' \in [Operators -> Pages \cup CodePages \cup {NoScreen, LoginScreen}]
        /\ \A q \in Operators : screen'[q] = screen[q] \/ screen'[q].kind # "code"
    BY <1>t, <1>7, PlainScreens DEF ConsoleTypes
  <2>2. Waiting' = Waiting /\ Codes' = Codes
    BY <1>7 DEF Waiting, Codes
  <2>3. ConsoleTypes'
    BY <1>t, <1>3, <1>7, <1>u, <2>1 DEF ConsoleTypes
  <2>4. KeysSound'
    BY <1>7, <1>u, <2>1, KeysFrame
  <2>5. OnePlace'
    BY <1>t, <1>u, <1>w, <2>2 DEF OnePlace
  <2>6. Unpressed'
    BY <1>t, <1>3, <1>7, <1>u DEF Unpressed
  <2>7. OnItsWay'
    BY <1>t, <1>3, <1>n, <1>p, <1>u, <1>w, <2>2, OnWayFrame DEF Waiting
  <2>8. CodesKept'
    BY <1>t, <1>3, <1>n, <1>p, <1>u, <2>2 DEF CodesKept, Codes
  <2>9. VersionsCarried'
    BY <1>t, <1>3, <1>u, <2>2 DEF VersionsCarried, Carries
  <2> QED
    BY <1>5, <1>u, <2>3, <2>4, <2>5, <2>6, <2>7, <2>8, <2>9 DEF ConsoleInv, NeverBlind
<1> QED BY <1>6, <1>7 DEF CallAnswered, n

(* A request the console gives up on keeps the invariant.                  *)
LEMMA TimesOutKeeps ==
  ASSUME ConsoleInv, NEW o \in Operators, TimesOut(o)
  PROVE  ConsoleInv'
<1>t. ConsoleTypes /\ KeysSound /\ OnePlace /\ Unpressed /\ OnItsWay /\ CodesKept /\ VersionsCarried
      /\ OnceAsTold
  BY DEF ConsoleInv
<1> DEFINE n == call[o].press
<1>1. /\ call[o].st # "idle"
      /\ heard' = [heard EXCEPT ![n] = "nothing was changed"]
      /\ orphans' = IF call[o].st = "sent" THEN orphans \cup {call[o]} ELSE orphans
      /\ call' = [call EXCEPT ![o] = Idle]
      /\ screen' = [screen EXCEPT ![o] = NoScreen]
      /\ UNCHANGED <<server, presses, form, cookie, sessions, logins, stash, keys, lastFetch, resume, shown>>
  BY DEF TimesOut
<1>2. o \in Calling
  BY <1>t, <1>1, CallShape
<1>u. UNCHANGED <<resource, applied, blind, presses, form, cookie, logins, stash, keys, lastFetch, resume, shown>>
  BY <1>1 DEF server
<1>y. "nothing was changed" \in Told
  BY DEF Told
<1>3. /\ call[o] \in Calls
      /\ n \in Presses
      /\ call' \in [Operators -> Calls \cup {Idle}]
      /\ Calling' = Calling \ {o}
      /\ \A q \in Calling' : call'[q] = call[q] /\ call[q].press # n
      /\ heard' \in [Presses -> Told]
      /\ heard'[n] = "nothing was changed"
      /\ \A m \in Presses \ {n} : heard'[m] = heard[m]
      /\ shown[n] = 0
      /\ \A m \in Presses : m > presses => heard'[m] = heard[m]
  BY <1>1, <1>2, <1>u, <1>y, CallEnds
<1>4. heard[n] = "nothing yet" /\ n <= presses /\ (call[o].st # "done" => applied[n] = 0)
      /\ Carries(call[o])
  BY <1>t, <1>2 DEF OnItsWay, Unpressed, VersionsCarried
<1>p. /\ \A p \in stash : p.press \in Presses
      /\ \A c \in orphans : c.press \in Presses
      /\ \A q \in Calling : call[q].press \in Presses
  BY <1>t, CallShape DEF ConsoleTypes, Entries, Calls, Calling
<1>n. /\ \A p \in Waiting : p.press # n
      /\ \A c \in orphans : c.press # n
      /\ \A p \in Codes : p.press # n
  BY <1>t, <1>2, <1>4 DEF OnePlace, CodesKept
<1>w. \A q \in Calling' : q \in Calling /\ call'[q] = call[q] /\ call[q].press \in Presses \ {n}
  BY <1>3, <1>p
<1>o. \A c \in orphans' : c \in orphans \/ (c = call[o] /\ c.press = n /\ c.st = "sent")
  BY <1>1
<1> HIDE DEF n
<1>5. /\ screen' \in [Operators -> Pages \cup CodePages \cup {NoScreen, LoginScreen}]
      /\ \A q \in Operators : screen'[q] = screen[q] \/ screen'[q].kind # "code"
  BY <1>t, <1>1, PlainScreens DEF ConsoleTypes
<1>6. Waiting' = Waiting /\ Codes' = Codes
  BY <1>u DEF Waiting, Codes
<1>7. orphans' \subseteq {c \in Calls : c.st = "sent"}
  BY <1>t, <1>3, <1>o DEF ConsoleTypes
<1>8. ConsoleTypes'
  BY <1>t, <1>3, <1>5, <1>7, <1>u DEF ConsoleTypes
<1>9. KeysSound'
  BY <1>5, <1>u, KeysFrame
<1>10. OnePlace'
  BY <1>t, <1>6, <1>n, <1>o, <1>w DEF OnePlace
<1>11. Unpressed'
  BY <1>t, <1>3, <1>4, <1>o, <1>u, <1>w DEF Unpressed
<1>12. OnItsWay'
  <2>1. \A p \in Waiting' : applied'[p.press] = 0 /\ heard'[p.press] = "nothing yet"
    BY <1>t, <1>3, <1>6, <1>n, <1>p, <1>u DEF OnItsWay, Waiting
  <2>2. ASSUME NEW c \in orphans'
        PROVE  /\ applied'[c.press] = 0
               /\ heard'[c.press] \in {"nothing yet", "nothing was changed"}
    <3>1. CASE c \in orphans
      BY <1>t, <1>3, <1>n, <1>p, <1>u, <3>1 DEF OnItsWay
    <3>2. CASE c = call[o] /\ c.press = n /\ c.st = "sent"
      BY <1>3, <1>4, <1>u, <3>2
    <3> QED BY <1>o, <3>1, <3>2
  <2>3. ASSUME NEW q \in Calling'
        PROVE  /\ heard'[call'[q].press] = "nothing yet"
               /\ call'[q].st = "done" => applied'[call'[q].press] = 1
               /\ call'[q].st # "done" => applied'[call'[q].press] = 0
    <3>1. q \in Calling /\ call'[q] = call[q] /\ call[q].press \in Presses \ {n}
      BY <1>w
    <3>2. /\ heard[call[q].press] = "nothing yet"
          /\ call[q].st = "done" => applied[call[q].press] = 1
          /\ call[q].st # "done" => applied[call[q].press] = 0
      BY <1>t, <3>1 DEF OnItsWay
    <3>3. heard'[call[q].press] = heard[call[q].press]
      BY <1>3, <3>1
    <3> QED BY <1>u, <3>1, <3>2, <3>3
  <2> QED BY <2>1, <2>2, <2>3 DEF OnItsWay
<1>13. CodesKept'
  BY <1>t, <1>3, <1>6, <1>n, <1>p, <1>u DEF CodesKept, Codes
<1>14. VersionsCarried'
  BY <1>t, <1>4, <1>6, <1>o, <1>u, <1>w DEF VersionsCarried, Carries
<1>15. OnceAsTold'
  <2> SUFFICES ASSUME NEW m \in Presses
               PROVE  /\ applied[m] <= 1 /\ shown[m] <= 1
                      /\ heard'[m] = "saved" => applied[m] = 1
                      /\ heard'[m] \in {"refused", "changed by someone else"} => applied[m] = 0
    BY <1>u DEF OnceAsTold
  <2>1. CASE m # n
    BY <1>t, <1>3, <2>1 DEF OnceAsTold
  <2>2. CASE m = n
    BY <1>t, <1>3, <2>2 DEF OnceAsTold
  <2> QED BY <2>1, <2>2
<1> QED
  BY <1>8, <1>9, <1>10, <1>11, <1>12, <1>13, <1>14, <1>15, <1>u DEF ConsoleInv, NeverBlind

(* A request executed after the console gave up on it keeps the invariant. *)
LEMMA OrphanExecutedKeeps ==
  ASSUME ConsoleInv, OrphanExecuted
  PROVE  ConsoleInv'
<1>t. ConsoleTypes /\ KeysSound /\ OnePlace /\ Unpressed /\ OnItsWay /\ CodesKept /\ VersionsCarried
      /\ OnceAsTold
  BY DEF ConsoleInv
<1>1. PICK c \in orphans : Execute(c) /\ orphans' = orphans \ {c}
  BY DEF OrphanExecuted
<1>u. UNCHANGED <<presses, form, heard, cookie, logins, stash, keys, lastFetch, screen, resume, call, shown>>
  BY DEF OrphanExecuted, ledger
<1> DEFINE n == c.press
<1>2. n \in Presses /\ n <= presses /\ applied[n] = 0 /\ Carries(c)
      /\ heard[n] \in {"nothing yet", "nothing was changed"}
  BY <1>t DEF ConsoleTypes, Calls, Unpressed, OnItsWay, VersionsCarried
<1>3. /\ applied' \in [Presses -> Nat]
      /\ applied'[n] = 1
      /\ \A m \in Presses \ {n} : applied'[m] = applied[m]
      /\ resource' \in Nat \ {0}
      /\ NeverBlind'
  BY <1>1, <1>2, ExecuteOnce
<1>p. /\ \A p \in stash : p.press \in Presses
      /\ \A d \in orphans : d.press \in Presses
      /\ \A q \in Calling : call[q].press \in Presses
  BY <1>t, CallShape DEF ConsoleTypes, Entries, Calls, Calling
<1>4. Waiting' = Waiting /\ Codes' = Codes /\ Calling' = Calling
  BY <1>u DEF Waiting, Codes, Calling
<1>n. /\ \A p \in Waiting : p.press \in Presses \ {n}
      /\ \A d \in orphans' : d.press \in Presses \ {n}
      /\ \A q \in Calling : call[q].press \in Presses \ {n}
  BY <1>t, <1>1, <1>p DEF OnePlace, Waiting
<1> HIDE DEF n
<1>5. ConsoleTypes'
  BY <1>t, <1>1, <1>3, <1>u DEF ConsoleTypes
<1>6. KeysSound'
  BY <1>u, KeysFrame
<1>7. OnePlace'
  BY <1>t, <1>1, <1>4, <1>u DEF OnePlace
<1>8. Unpressed'
  <2>1. presses \in Nat /\ Presses \subseteq Nat
    BY <1>t, PressNumbers
  <2>2. n \in Nat /\ n <= presses
    <3>1. n \in Presses /\ n <= presses
      BY <1>2
    <3> QED BY <2>1, <3>1
  <2>3. \A m \in Nat : m > presses => m # n
    BY <2>1, <2>2
  <2>4. \A m \in Presses : m > presses => applied'[m] = applied[m]
    BY <1>3, <2>1, <2>3
  <2> QED BY <1>t, <1>1, <1>4, <1>u, <2>4 DEF Unpressed
<1>9. OnItsWay'
  BY <1>t, <1>1, <1>2, <1>3, <1>4, <1>n, <1>u, OnWayFrame
<1>10. CodesKept'
  BY <1>t, <1>4, <1>u DEF CodesKept
<1>11. VersionsCarried'
  BY <1>t, <1>1, <1>4, <1>u DEF VersionsCarried, Carries
<1>12. OnceAsTold'
  <2> SUFFICES ASSUME NEW m \in Presses
               PROVE  /\ applied'[m] <= 1 /\ shown[m] <= 1
                      /\ heard[m] = "saved" => applied'[m] = 1
                      /\ heard[m] \in {"refused", "changed by someone else"} => applied'[m] = 0
    BY <1>u DEF OnceAsTold
  <2>1. CASE m # n
    BY <1>t, <1>3, <2>1 DEF OnceAsTold
  <2>2. CASE m = n
    <3>1. applied'[m] = 1
      BY <1>3, <2>2
    <3>2. heard[m] \in {"nothing yet", "nothing was changed"}
      BY <1>2, <2>2
    <3>3. shown[m] <= 1
      BY <1>t DEF OnceAsTold
    <3>4. applied'[m] <= 1
      BY <3>1
    <3>5. heard[m] \notin {"refused", "changed by someone else"}
      BY <3>2
    <3> QED BY <3>1, <3>3, <3>4, <3>5
  <2> QED BY <2>1, <2>2
<1> QED
  BY <1>3, <1>5, <1>6, <1>7, <1>8, <1>9, <1>10, <1>11, <1>12 DEF ConsoleInv

(* A code shown once, and taken from the stash, keeps the invariant.       *)
LEMMA ShowCodeKeeps ==
  ASSUME ConsoleInv, NEW o \in Operators, ShowCode(o)
  PROVE  ConsoleInv'
<1>t. ConsoleTypes /\ KeysSound /\ OnePlace /\ Unpressed /\ OnItsWay /\ CodesKept /\ VersionsCarried
      /\ OnceAsTold
  BY DEF ConsoleInv
<1>1. PICK p \in Kept(screen[o].key) :
        /\ shown' = [shown EXCEPT ![p.press] = shown[p.press] + 1]
        /\ stash' = Take(screen[o].key)
  BY DEF ShowCode
<1>u. /\ screen[o].kind = "code"
      /\ UNCHANGED <<resource, applied, blind, presses, form, heard, cookie, logins, keys, lastFetch,
                     screen, resume, call, orphans>>
  BY DEF ShowCode, server, ledger
<1>2. p \in stash /\ p.key = screen[o].key /\ stash' \subseteq stash /\ p \notin stash'
  BY <1>1 DEF Kept, Take
<1>3. p \in Codes /\ p.press \in Presses /\ p.press <= presses
  BY <1>t, <1>2, <1>u DEF KeysSound, Codes, ConsoleTypes, Entries, Unpressed
<1> DEFINE n == p.press
<1>4. shown[n] = 0 /\ heard[n] = "saved"
  BY <1>t, <1>3 DEF CodesKept
<1>5. /\ shown' \in [Presses -> Nat]
      /\ shown'[n] = 1
      /\ \A m \in Presses \ {n} : shown'[m] = shown[m]
  BY <1>t, <1>1, <1>3, <1>4 DEF ConsoleTypes
<1>6. Waiting' \subseteq Waiting /\ Codes' \subseteq Codes \ {p} /\ Calling' = Calling
  BY <1>2, <1>u DEF Waiting, Codes, Calling
<1>7. ConsoleTypes'
  BY <1>t, <1>2, <1>5, <1>u DEF ConsoleTypes
<1>8. KeysSound'
  BY <1>2, <1>u, KeysFrame
<1>9. OnePlace'
  BY <1>t, <1>6, <1>u DEF OnePlace
<1>10. Unpressed'
  <2> HIDE DEF n
  <2>1. presses \in Nat /\ Presses \subseteq Nat
    BY <1>t, PressNumbers
  <2>2. n \in Nat /\ n <= presses
    BY <1>3, <2>1 DEF n
  <2>3. \A m \in Nat : m > presses => m # n
    BY <2>1, <2>2
  <2>4. \A m \in Presses : m > presses => shown'[m] = shown[m]
    BY <1>5, <2>1, <2>3
  <2> QED BY <1>t, <1>2, <1>6, <1>u, <2>4 DEF Unpressed
<1>11. OnItsWay'
  <2>1. \A q \in Calling' : /\ heard'[call'[q].press] = "nothing yet"
                            /\ call'[q].st = "done" => applied'[call'[q].press] = 1
                            /\ call'[q].st # "done" => applied'[call'[q].press] = 0
    <3> SUFFICES ASSUME NEW q \in Calling
                 PROVE  /\ heard[call[q].press] = "nothing yet"
                        /\ call[q].st = "done" => applied[call[q].press] = 1
                        /\ call[q].st # "done" => applied[call[q].press] = 0
      BY <1>6, <1>u
    <3> QED BY <1>t DEF OnItsWay
  <2> QED BY <1>t, <1>6, <1>u, <2>1 DEF OnItsWay
<1>12. CodesKept'
  <2>1. \A x \in Codes' : x.press \in Presses \ {n} /\ x \in Codes
    BY <1>t, <1>3, <1>6 DEF CodesKept, Codes, ConsoleTypes, Entries
  <2> HIDE DEF n
  <2>2. \A x \in Codes' : heard'[x.press] = "saved" /\ shown'[x.press] = 0
    BY <1>t, <1>5, <1>u, <2>1 DEF CodesKept
  <2>3. \A m \in Presses : shown'[m] # 0 => heard'[m] = "saved"
    BY <1>t, <1>4, <1>5, <1>u DEF CodesKept
  <2> QED BY <1>t, <2>1, <2>2, <2>3 DEF CodesKept
<1>13. VersionsCarried'
  BY <1>t, <1>6, <1>u DEF VersionsCarried, Carries
<1>14. OnceAsTold'
  <2> HIDE DEF n
  <2> SUFFICES ASSUME NEW m \in Presses
               PROVE  shown'[m] <= 1
    BY <1>t, <1>u DEF OnceAsTold
  <2>1. CASE m # n
    BY <1>t, <1>5, <2>1 DEF OnceAsTold
  <2>2. CASE m = n
    BY <1>5, <2>2
  <2> QED BY <2>1, <2>2
<1> QED
  BY <1>7, <1>8, <1>9, <1>10, <1>11, <1>12, <1>13, <1>14, <1>u DEF ConsoleInv, NeverBlind

(* A restart of the console, which loses the stash, keeps the invariant.   *)
LEMMA RestartKeeps ==
  ASSUME ConsoleInv, ConsoleRestarts
  PROVE  ConsoleInv'
<1>t. ConsoleTypes /\ KeysSound /\ OnePlace /\ Unpressed /\ OnItsWay /\ CodesKept /\ VersionsCarried
      /\ OnceAsTold
  BY DEF ConsoleInv
<1>1. /\ stash' = {} /\ lastFetch' = 0
      /\ orphans' = orphans \cup {call[o] : o \in {p \in Operators : call[p].st = "sent"}}
      /\ call' = [o \in Operators |-> Idle]
      /\ UNCHANGED <<resource, applied, blind, presses, form, heard, cookie, logins, keys, screen,
                     resume, shown>>
  BY DEF ConsoleRestarts, server, ledger
<1>2. Waiting' = {} /\ Codes' = {} /\ Calling' = {}
  BY <1>1 DEF Waiting, Codes, Calling
<1>3. \A c \in orphans' : c \in orphans \/ \E o \in Calling : c = call[o] /\ c.st = "sent"
  BY <1>1, <1>t, CallShape
<1>4. orphans' \subseteq {c \in Calls : c.st = "sent"}
  BY <1>t, <1>3, CallShape DEF ConsoleTypes, Calling
<1>5. ConsoleTypes'
  BY <1>t, <1>1, <1>4 DEF ConsoleTypes
<1>6. KeysSound'
  BY <1>1, KeysFrame
<1>7. OnePlace'
  BY <1>t, <1>2, <1>3 DEF OnePlace
<1>8. Unpressed'
  BY <1>t, <1>1, <1>2, <1>3 DEF Unpressed
<1>9. OnItsWay'
  <2>1. ASSUME NEW c \in orphans'
        PROVE  applied[c.press] = 0 /\ heard[c.press] \in {"nothing yet", "nothing was changed"}
    <3>1. CASE c \in orphans
      BY <1>t, <3>1 DEF OnItsWay
    <3>2. CASE \E o \in Calling : c = call[o] /\ c.st = "sent"
      BY <1>t, <3>2 DEF OnItsWay
    <3> QED BY <1>3, <3>1, <3>2
  <2> QED BY <1>1, <1>2, <2>1 DEF OnItsWay
<1>10. CodesKept'
  BY <1>t, <1>1, <1>2 DEF CodesKept
<1>11. VersionsCarried'
  BY <1>t, <1>1, <1>2, <1>3 DEF VersionsCarried, Carries
<1> QED
  BY <1>1, <1>5, <1>6, <1>7, <1>8, <1>9, <1>10, <1>11 DEF ConsoleInv, OnceAsTold, NeverBlind

(* The console's invariant holds before anyone logs in.                    *)
LEMMA ConsoleInvInit == ConsoleInit => ConsoleInv
<1> SUFFICES ASSUME ConsoleInit PROVE ConsoleInv
  OBVIOUS
<1>1. /\ Waiting = {} /\ Codes = {} /\ Calling = {} /\ stash = {} /\ orphans = {}
      /\ \A o \in Operators : screen[o] = NoScreen /\ resume[o] = 0 /\ call[o] = Idle
      /\ \A n \in Presses : applied[n] = 0 /\ shown[n] = 0 /\ heard[n] = "nothing yet"
  BY DEF ConsoleInit, Waiting, Codes, Calling, NoKey
<1>2. ConsoleTypes
  <2>1. /\ resource \in Nat \ {0} /\ lastFetch \in Nat /\ keys \in Nat /\ logins \in Nat
        /\ presses \in 0..MaxPresses
    <3>1. resource = 1 /\ lastFetch = 0 /\ keys = 0 /\ logins = 0 /\ presses = 0
      BY Zenon DEF ConsoleInit
    <3> QED BY <3>1, ConsoleAssumption
  <2>2. stash \subseteq Entries /\ orphans \subseteq {c \in Calls : c.st = "sent"}
    BY <1>1
  <2>3. cookie \in [Operators -> Nat] /\ resume \in [Operators -> Nat]
    BY DEF ConsoleInit, NoSession, NoKey
  <2>4. /\ call \in [Operators -> Calls \cup {Idle}]
        /\ screen \in [Operators -> Pages \cup CodePages \cup {NoScreen, LoginScreen}]
    BY DEF ConsoleInit
  <2>5. form \in [Presses -> [what : Forms \cup {"none"}, seen : Nat]]
    BY DEF ConsoleInit
  <2>6. applied \in [Presses -> Nat] /\ shown \in [Presses -> Nat]
    BY DEF ConsoleInit
  <2>7. heard \in [Presses -> Told]
    BY DEF ConsoleInit, Told
  <2> QED BY <2>1, <2>2, <2>3, <2>4, <2>5, <2>6, <2>7 DEF ConsoleTypes
<1>3. KeysSound
  <2>1. \A o \in Operators : resume[o] <= keys
    <3>1. keys = 0
      BY Zenon DEF ConsoleInit
    <3>2. \A o \in Operators : resume[o] = 0
      BY <1>1
    <3> QED BY <3>1, <3>2
  <2>2. \A o \in Operators : screen[o].kind # "code"
    BY <1>1, PlainScreens
  <2> QED BY <1>1, <2>1, <2>2 DEF KeysSound
<1>4. OnePlace /\ Unpressed /\ OnItsWay /\ CodesKept /\ VersionsCarried
  BY <1>1 DEF OnePlace, Unpressed, OnItsWay, CodesKept, VersionsCarried
<1>5. OnceAsTold
  <2> SUFFICES ASSUME NEW n \in Presses
               PROVE  /\ applied[n] <= 1 /\ shown[n] <= 1
                      /\ heard[n] = "saved" => applied[n] = 1
                      /\ heard[n] \in {"refused", "changed by someone else"} => applied[n] = 0
    BY DEF OnceAsTold
  <2>1. applied[n] = 0 /\ shown[n] = 0 /\ heard[n] = "nothing yet"
    BY <1>1
  <2>2. applied[n] <= 1 /\ shown[n] <= 1
    <3>1. applied[n] = 0 /\ shown[n] = 0
      BY <2>1
    <3> QED BY <3>1
  <2> QED BY <2>1, <2>2
<1>6. NeverBlind
  BY DEF ConsoleInit, NeverBlind
<1> QED BY <1>2, <1>3, <1>4, <1>5, <1>6 DEF ConsoleInv

(* A press is in one place at most on its way to the call server, through  *)
(* every login, replay, lost answer and restart of the console.            *)
THEOREM ConsoleInductive == ConsoleSpec => []ConsoleInv
<1>1. ConsoleInv /\ [ConsoleNext]_consoleVars => ConsoleInv'
  BY LoginKeeps, QuietKeeps, SubmitKeeps, ExecutedKeeps, CallAnsweredKeeps, TimesOutKeeps,
     OrphanExecutedKeeps, ShowCodeKeeps, RestartKeeps DEF ConsoleNext
<1> QED BY <1>1, ConsoleInvInit, PTL DEF ConsoleSpec

(* So one press is executed at most once, its code displayed at most once, *)
(* and what the operator was told of an answered press is what happened.   *)
THEOREM ConsoleOnceAsTold == ConsoleSpec => []OnceAsTold
<1>1. ConsoleInv => OnceAsTold
  BY DEF ConsoleInv
<1> QED BY <1>1, ConsoleInductive, PTL

(* And no save replaces a version its operator was not shown.              *)
THEOREM ConsoleNeverBlind == ConsoleSpec => []NeverBlind
<1>1. ConsoleInv => NeverBlind
  BY DEF ConsoleInv
<1> QED BY <1>1, ConsoleInductive, PTL

-----------------------------------------------------------------------------
(* The shared directory and a phone's copy of it, for any contacts, syncs, *)
(* writes, crashes and failed saves.  Two invariants: the copies are       *)
(* snapshots (SnapInv), and a phone with a session catches up or has       *)
(* something to learn from (CaughtInv, which rests on the first).          *)

Views == [Ids -> Contact]
Books == [version : Nat, contacts : Views]
Ghosts == [back : SUBSET Int, torn : BOOLEAN, reused : BOOLEAN, taken : BOOLEAN, early : BOOLEAN,
           failed : BOOLEAN, undone : BOOLEAN, blind : BOOLEAN, unstarred : BOOLEAN]
TaskState == [pc : {"idle", "ask", "answer"}, base : Books, got : Dirs]

DirTypes ==
  /\ mem \in Dirs /\ file \in Dirs
  /\ writer \in [on : BOOLEAN, backup : Dirs, by : {"none", "admin", "device", "server"}]
  /\ phase \in {"down", "migrate", "serve"}
  /\ legacy \in Nat
  /\ seen \in [version : Int, view : Views]
  /\ book \in Books
  /\ task \in [Tasks -> TaskState]
  /\ hist \in [0..MaxVersion -> Views]
  /\ dirGhost \in Ghosts
  /\ writes \in Nat

LinkTypes ==
  /\ link \in {"off", "down", "attached", "reading", "live"}
  /\ welcome \in Nat
  /\ inbox \in Seq(Nat \cup {Changed})

(* The directory in force: memory, or the file of a server that is down.   *)
Dir == IF phase = "down" THEN file ELSE mem

(* The versions the phone holds, and the ones a sync holds.                *)
Cursors == {book.version} \cup {task[t].base.version : t \in Tasks}
                          \cup {task[t].got.version : t \in Tasks}

(* A write in hand is memory being ahead of the file; the backup is the    *)
(* file.                                                                   *)
TwoSteps ==
  /\ writer.on => phase # "down" /\ writer.backup = file /\ mem.version > file.version
  /\ ~writer.on /\ phase # "down" => mem = file
  /\ phase = "migrate" => legacy # 0
  /\ \A t \in Tasks : task[t].pc = "idle" => task[t] = NoTask

(* Versions stay in bounds: one write, one version.                        *)
Bounded ==
  /\ {mem.version, file.version} \subseteq {v \in Nat : v + MaxWrites <= MaxVersion + writes}
  /\ Cursors \cup {seen.version} \subseteq {v \in Int : v <= MaxVersion}
  /\ writes <= MaxWrites

AllSane == Sane(mem) /\ Sane(file) /\ \A t \in Tasks : Sane(task[t].got)

(* A version that was read is one the directory has, or was taken back.    *)
ReadOrBack == \A v \in Cursors \cup {seen.version} : v <= Dir.version \/ v \in dirGhost.back

(* What is written down of a version is what the directory in force, and   *)
(* the one on file, hold.                                                  *)
HistTrue ==
  /\ hist[0] = NoBook.contacts
  /\ hist[mem.version] = View(mem)
  /\ hist[file.version] = View(file)

SeenTrue == seen.version >= 0 /\ ~dirGhost.reused => seen.view = hist[seen.version]

(* A directory x was reached from what h says version v held: what x says has not *)
(* changed since v is as it was at v.                                      *)
SinceIn(h, v, x) ==
  v <= x.version => \A i \in Ids : x.contacts[i].ver <= v => View(x)[i] = h[v][i]

(* The phone's copies are what their versions held, and the directory was  *)
(* reached from there.                                                     *)
CopiesTrue ==
  /\ book.contacts = hist[book.version]
  /\ \A t \in Tasks : /\ task[t].base.contacts = hist[task[t].base.version]
                      /\ View(task[t].got) = hist[task[t].got.version]
                      /\ SinceIn(hist, task[t].base.version, task[t].got)
  /\ \A v \in Cursors : SinceIn(hist, v, mem) /\ SinceIn(hist, v, file)

SnapInv ==
  /\ DirTypes /\ TwoSteps /\ Bounded /\ AllSane /\ ReadOrBack /\ HistTrue /\ SeenTrue
  /\ ~dirGhost.torn => CopiesTrue
  /\ NothingOverwritten

(* The welcome being made is of a version no older than the file.          *)
WelcomeRead ==
  /\ link = "reading" /\ ~dirGhost.early => welcome >= file.version
  /\ link = "reading" /\ ~dirGhost.taken => welcome <= Dir.version

ToldOf(v) == \E k \in 1..Len(inbox) : inbox[k] = Changed \/ inbox[k] >= v

(* A phone with a session that is behind the file has something to learn   *)
(* it from.                                                                *)
NotBehind ==
  link = "live" /\ ~dirGhost.failed /\ ~dirGhost.undone /\ ~dirGhost.early =>
    \/ book.version >= file.version
    \/ ToldOf(file.version)
    \/ \E t \in Tasks : \/ task[t].pc = "ask"
                        \/ task[t].pc = "answer" /\ task[t].got.version >= file.version

(* And one that is ahead of it, to unlearn it from.                        *)
NotAhead ==
  ~dirGhost.taken =>
    /\ \A t \in Tasks : task[t].got.version <= Dir.version
    /\ \A k \in 1..Len(inbox) : inbox[k] <= Dir.version
    /\ link = "live" /\ ~dirGhost.failed =>
         \/ book.version <= Dir.version
         \/ inbox # <<>>
         \/ \E t \in Tasks : task[t].pc # "idle"

CaughtInv == LinkTypes /\ WelcomeRead /\ NotBehind /\ NotAhead

-----------------------------------------------------------------------------
(* What the store's mutations do to a directory.                           *)

(* The empty directory, the empty book and the idle sync.                  *)
LEMMA EmptyDir ==
  /\ NoContact \in Contact
  /\ Empty \in Dirs /\ Sane(Empty) /\ Empty.version = 0 /\ View(Empty) = NoBook.contacts
  /\ \A i \in Ids : Empty.contacts[i].del
  /\ NoBook \in Books /\ NoBook.version = 0 /\ \A i \in Ids : NoBook.contacts[i] = NoContact
  /\ NoTask \in TaskState /\ NoTask.base = NoBook /\ NoTask.got = Empty /\ NoTask.pc = "idle"
<1>1. NoContact \in Contact
  BY DirAssumption
<1>2. /\ Empty \in Dirs /\ Empty.version = 0
      /\ \A i \in Ids : Empty.contacts[i].del /\ Empty.contacts[i].ver = 0
  BY <1>1 DEF Empty, Dirs, Entry
<1>3. Sane(Empty)
  BY <1>2 DEF Sane
<1>4. NoBook \in Books /\ NoBook.version = 0 /\ NoBook.contacts = [i \in Ids |-> NoContact]
  BY <1>1 DEF NoBook, Books, Views
<1>5. View(Empty) = NoBook.contacts
  BY <1>2, <1>4 DEF View, Live
<1>6. NoTask \in TaskState /\ NoTask.base = NoBook /\ NoTask.got = Empty /\ NoTask.pc = "idle"
  BY <1>2, <1>4 DEF NoTask, TaskState
<1> QED BY <1>1, <1>2, <1>3, <1>4, <1>5, <1>6

(* What a phone shows of a directory: the contacts not deleted.            *)
LEMMA ViewTyped ==
  ASSUME NEW st \in Dirs
  PROVE  /\ View(st) \in Views
         /\ \A i \in Ids : View(st)[i] = IF st.contacts[i].del THEN NoContact ELSE st.contacts[i].d
BY EmptyDir DEF View, Views, Live, Dirs, Entry

(* A write: one version more, borne by every contact it touches.           *)
Rewrites(st, x) ==
  /\ x \in Dirs /\ Sane(x) /\ x.version = st.version + 1
  /\ \A i \in Ids : x.contacts[i] = st.contacts[i] \/ x.contacts[i].ver = x.version

(* A store of the next version, whose changed entries carry it, is a       *)
(* rewrite.                                                                *)
LEMMA RewritesWhen ==
  ASSUME NEW st \in Dirs, Sane(st), NEW x, NEW f,
         x = [version |-> st.version + 1, contacts |-> f],
         f \in [Ids -> Entry],
         \A i \in Ids : \/ f[i] = st.contacts[i]
                        \/ /\ f[i].ver = st.version + 1
                           /\ f[i].del \/ f[i].d.uri # "none"
  PROVE  Rewrites(st, x)
<1>1. st.version \in Nat /\ st.contacts \in [Ids -> Entry]
  BY DEF Dirs
<1>2. x \in Dirs /\ x.version = st.version + 1 /\ x.contacts = f
  BY <1>1 DEF Dirs
<1>3. \A i \in Ids : st.contacts[i].ver \in Nat /\ f[i].ver \in Nat
  BY <1>1 DEF Entry
<1>4. ASSUME NEW i \in Ids
      PROVE  /\ f[i].ver <= st.version + 1
             /\ f[i].ver = 0 => f[i].del
             /\ f[i].del \/ f[i].d.uri # "none"
  <2>1. CASE f[i] = st.contacts[i]
    <3>1. /\ st.contacts[i].ver <= st.version
          /\ st.contacts[i].ver = 0 => st.contacts[i].del
          /\ st.contacts[i].del \/ st.contacts[i].d.uri # "none"
      BY DEF Sane
    <3>2. f[i].ver <= st.version + 1
      BY <1>1, <1>3, <2>1, <3>1
    <3> QED BY <2>1, <3>1, <3>2
  <2>2. CASE f[i].ver = st.version + 1 /\ (f[i].del \/ f[i].d.uri # "none")
    <3>1. f[i].ver <= st.version + 1 /\ f[i].ver # 0
      BY <1>1, <2>2
    <3> QED BY <2>2, <3>1
  <2> QED BY <2>1, <2>2
<1>5. Sane(x)
  BY <1>2, <1>4 DEF Sane
<1> QED BY <1>2, <1>5 DEF Rewrites

(* A deletion leaves an entry that says so, at its version.                *)
LEMMA TombstoneOf ==
  ASSUME NEW c \in Entry, NEW v \in Nat
  PROVE  /\ Tombstone(c, v) \in Entry /\ Tombstone(c, v).ver = v /\ Tombstone(c, v).del
BY DEF Tombstone, Entry

(* A stored contact is live at its version.                                *)
LEMMA StoredIs ==
  ASSUME NEW d \in Contact, NEW v \in Nat
  PROVE  /\ Stored(d, v) \in Entry /\ Stored(d, v).ver = v /\ ~Stored(d, v).del
         /\ Stored(d, v).d = d
BY DEF Stored, Entry

(* Upsert rewrites the directory: one version more, on what it changed.    *)
LEMMA UpsertRewrites ==
  ASSUME NEW st \in Dirs, Sane(st), NEW d \in Contact, d.uri # "none",
         NEW id \in Ids \cup {NoId}, NEW x \in Upserts(st, d, id)
  PROVE  Rewrites(st, x)
<1> DEFINE v == st.version + 1
<1>1. v \in Nat /\ st.contacts \in [Ids -> Entry]
  BY DEF Dirs
<1>s. st = [version |-> st.version, contacts |-> st.contacts]
  BY DEF Dirs
<1>2. CASE id = NoId
  <2>1. PICK i \in Targets(st, d.uri) : x = upsertLocked(st, d, i, v)
    BY <1>2 DEF Upserts
  <2>2. i \in Ids
    BY <2>1 DEF Targets, Matches, Fresh
  <2> DEFINE f == [j \in Ids |-> IF j = i THEN Stored(d, v)
                                 ELSE IF j \in Matches(st, d.uri) THEN Tombstone(st.contacts[j], v)
                                 ELSE st.contacts[j]]
  <2>3. x = [version |-> v, contacts |-> f]
    BY <1>s, <2>1 DEF upsertLocked
  <2>4. f \in [Ids -> Entry] /\ \A j \in Ids : \/ f[j] = st.contacts[j]
                                              \/ (f[j].ver = v /\ (f[j].del \/ f[j].d.uri # "none"))
    <3> SUFFICES ASSUME NEW j \in Ids
                 PROVE  /\ f[j] \in Entry
                        /\ f[j] = st.contacts[j]
                           \/ (f[j].ver = v /\ (f[j].del \/ f[j].d.uri # "none"))
      OBVIOUS
    <3>1. \/ f[j] = Stored(d, v) \/ f[j] = Tombstone(st.contacts[j], v)
          \/ f[j] = st.contacts[j]
      OBVIOUS
    <3> HIDE DEF f, v
    <3> QED BY <1>1, <3>1, StoredIs, TombstoneOf
  <2> QED BY <2>3, <2>4, RewritesWhen
<1>3. CASE id # NoId
  <2>1. id \in Ids /\ x = UpsertById(st, d, id, v)
    BY <1>3 DEF Upserts
  <2> DEFINE f == [st.contacts EXCEPT ![id] = Stored(d, v)]
  <2>3. x = [version |-> v, contacts |-> f]
    BY <1>s, <2>1 DEF UpsertById
  <2>4. f \in [Ids -> Entry] /\ \A j \in Ids : \/ f[j] = st.contacts[j]
                                              \/ (f[j].ver = v /\ (f[j].del \/ f[j].d.uri # "none"))
    BY <1>1, <2>1, StoredIs
  <2> QED BY <2>3, <2>4, RewritesWhen
<1> QED BY <1>2, <1>3

(* Delete rewrites the directory.                                          *)
LEMMA RemovedRewrites ==
  ASSUME NEW st \in Dirs, Sane(st), NEW i \in Ids
  PROVE  Rewrites(st, Removed(st, i))
<1> DEFINE v == st.version + 1
<1> DEFINE f == [st.contacts EXCEPT ![i] = Tombstone(st.contacts[i], v)]
<1>1. v \in Nat /\ st.contacts \in [Ids -> Entry]
      /\ st = [version |-> st.version, contacts |-> st.contacts]
  BY DEF Dirs
<1>2. Removed(st, i) = [version |-> v, contacts |-> f]
  <2>1. Removed(st, i) = [st EXCEPT !.version = v, !.contacts = f]
    BY <1>1 DEF Removed
  <2> HIDE DEF f, v
  <2> QED BY <1>1, <2>1
<1>3. f \in [Ids -> Entry] /\ \A j \in Ids : \/ f[j] = st.contacts[j]
                                            \/ (f[j].ver = v /\ (f[j].del \/ f[j].d.uri # "none"))
  BY <1>1, TombstoneOf
<1> QED BY <1>2, <1>3, RewritesWhen

(* Replace rewrites the directory, or changes nothing.                     *)
LEMMA ReplaceRewrites ==
  ASSUME NEW st \in Dirs, Sane(st), NEW ds \in SUBSET Drafts,
         NEW x \in Replaces(st, ds), x # st
  PROVE  Rewrites(st, x)
<1> DEFINE v == st.version + 1
<1>1. v \in Nat /\ st.contacts \in [Ids -> Entry]
  BY DEF Dirs
<1>2. PICK into \in [ds -> Ids] : x = replaceLocked(st, ds, into)
  BY DEF Replaces
<1> DEFINE new == {d \in ds : ~Same(st, d)}
           kept == {d.uri : d \in ds}
           pick(j) == CHOOSE d \in new : into[d] = j
           f == [j \in Ids |->
                  IF \E d \in new : into[d] = j THEN Stored(pick(j), v)
                  ELSE IF Live(st, j) /\ (\/ st.contacts[j].d.uri \notin kept
                                          \/ \E d \in new : d.uri = st.contacts[j].d.uri)
                  THEN Tombstone(st.contacts[j], v)
                  ELSE st.contacts[j]]
<1>3. x = [version |-> v, contacts |-> f]
  BY <1>2 DEF replaceLocked
<1>4. ASSUME NEW j \in Ids
      PROVE  /\ f[j] \in Entry
             /\ f[j] = st.contacts[j] \/ (f[j].ver = v /\ (f[j].del \/ f[j].d.uri # "none"))
  <2>1. CASE \E d \in new : into[d] = j
    <3>1. pick(j) \in new
      BY <2>1
    <3>2. pick(j) \in Contact /\ pick(j).uri # "none"
      BY <3>1, DirAssumption
    <3>3. f[j] = Stored(pick(j), v)
      BY <2>1
    <3> HIDE DEF pick, f
    <3> QED BY <1>1, <3>2, <3>3, StoredIs
  <2>2. CASE ~\E d \in new : into[d] = j
    <3>1. f[j] = Tombstone(st.contacts[j], v) \/ f[j] = st.contacts[j]
      BY <2>2
    <3> HIDE DEF f
    <3> QED BY <1>1, <3>1, TombstoneOf
  <2> QED BY <2>1, <2>2
<1>5. f \in [Ids -> Entry]
  BY <1>4
<1> HIDE DEF f
<1> QED BY <1>3, <1>4, <1>5, RewritesWhen

-----------------------------------------------------------------------------
(* Steps that write nothing new.                                           *)

(* The versions in use are versions the history knows.                     *)
LEMMA InHistory ==
  ASSUME DirTypes, Bounded
  PROVE  /\ mem.version \in 0..MaxVersion /\ file.version \in 0..MaxVersion
         /\ 0 \in 0..MaxVersion
         /\ Cursors \subseteq 0..MaxVersion
         /\ seen.version \in Int /\ seen.version <= MaxVersion
<1>0. MaxVersion \in Nat /\ MaxWrites \in Nat
  BY DirAssumption
<1>1. /\ mem.version \in Nat /\ file.version \in Nat /\ writes \in Nat
      /\ seen.version \in Int /\ book.version \in Nat
      /\ \A t \in Tasks : task[t].base.version \in Nat /\ task[t].got.version \in Nat
  BY DEF DirTypes, Dirs, Books, TaskState
<1>2. /\ mem.version + MaxWrites <= MaxVersion + writes
      /\ file.version + MaxWrites <= MaxVersion + writes
      /\ writes <= MaxWrites
  BY DEF Bounded
<1>3. mem.version <= MaxVersion /\ file.version <= MaxVersion
  BY <1>0, <1>1, <1>2
<1>4. \A v \in Cursors \cup {seen.version} : v <= MaxVersion
  BY DEF Bounded
<1>5. \A v \in Cursors : v \in Nat
  BY <1>1 DEF Cursors
<1> QED BY <1>0, <1>1, <1>3, <1>4, <1>5

(* Every directory was reached from nothing, and nothing from nothing only.*)
LEMMA SinceZero ==
  ASSUME NEW h, h[0] = NoBook.contacts, NEW x \in Dirs, Sane(x)
  PROVE  SinceIn(h, 0, x)
<1> SUFFICES ASSUME NEW i \in Ids, x.contacts[i].ver <= 0
             PROVE  View(x)[i] = h[0][i]
  BY DEF SinceIn
<1>1. x.contacts[i].ver \in Nat
  BY DEF Dirs, Entry
<1>2. x.contacts[i].ver = 0
  BY <1>1
<1>3. x.contacts[i].del
  BY <1>2 DEF Sane
<1> QED BY <1>3, ViewTyped, EmptyDir

(* The empty directory has nothing that is not newer.                      *)
LEMMA SinceEmpty ==
  ASSUME NEW h, h[0] = NoBook.contacts, NEW v \in Nat
  PROVE  SinceIn(h, v, Empty)
<1>1. CASE v = 0
  BY <1>1, SinceZero, EmptyDir
<1>2. CASE v # 0
  <2>1. ~(v <= Empty.version)
    BY <1>2, EmptyDir
  <2> QED BY <2>1 DEF SinceIn
<1> QED BY <1>1, <1>2

(* A step that moves memory and file among the versions written down, and  *)
(* tasks back to an empty answer, keeps the invariant.                     *)
LEMMA SnapFrame ==
  ASSUME SnapInv, DirTypes', TwoSteps',
         mem' \in {mem, file, Empty}, file' \in {mem, file, Empty},
         hist' = hist, seen' = seen, writes' = writes, book' = book,
         \A t \in Tasks : \/ task'[t].base = task[t].base /\ task'[t].got = task[t].got
                          \/ task'[t].base \in {book, NoBook} /\ task'[t].got = Empty,
         \A v \in Int : v <= Dir.version \/ v \in dirGhost.back
                          => v <= Dir'.version \/ v \in dirGhost'.back,
         dirGhost'.torn = dirGhost.torn, dirGhost'.reused = dirGhost.reused,
         dirGhost'.blind = dirGhost.blind, dirGhost'.unstarred = dirGhost.unstarred
  PROVE  SnapInv'
<1>t. /\ DirTypes /\ TwoSteps /\ Bounded /\ AllSane /\ ReadOrBack /\ HistTrue /\ SeenTrue
      /\ ~dirGhost.torn => CopiesTrue
      /\ NothingOverwritten
  BY DEF SnapInv
<1>h. /\ mem.version \in 0..MaxVersion /\ file.version \in 0..MaxVersion
      /\ 0 \in 0..MaxVersion /\ MaxVersion \in Nat
      /\ Cursors \subseteq 0..MaxVersion
      /\ mem \in Dirs /\ file \in Dirs
      /\ Dir' \in Dirs
  BY <1>t, InHistory, DirAssumption DEF DirTypes, Dir
<1>s. seen.version \in Int
  BY <1>t, InHistory
<1>z. hist[0] = NoBook.contacts
  BY <1>t DEF HistTrue
<1>1. Cursors' \subseteq Cursors \cup {0}
  <2> SUFFICES ASSUME NEW t \in Tasks
               PROVE  /\ task'[t].base.version \in Cursors \cup {0}
                      /\ task'[t].got.version \in Cursors \cup {0}
    BY DEF Cursors
  <2> QED BY EmptyDir DEF Cursors
<1>2. Bounded'
  <2>1. /\ mem.version + MaxWrites <= MaxVersion + writes
        /\ file.version + MaxWrites <= MaxVersion + writes
        /\ writes <= MaxWrites /\ writes \in Nat /\ MaxWrites \in Nat
    BY <1>t, DirAssumption DEF Bounded, DirTypes
  <2>2. CASE MaxWrites <= MaxVersion + writes
    <3>1. \A st \in {mem, file, Empty} : st.version \in Nat /\ st.version + MaxWrites <= MaxVersion + writes
      BY <1>h, <2>1, <2>2, EmptyDir
    <3>2. \A v \in Cursors \cup {0} \cup {seen.version} : v \in Int /\ v <= MaxVersion
      <4>1. seen.version \in Int /\ seen.version <= MaxVersion
        BY <1>t, InHistory
      <4> QED BY <1>h, <4>1
    <3> QED BY <1>1, <2>1, <3>1, <3>2 DEF Bounded
  <2>3. MaxWrites <= MaxVersion + writes
    BY <1>h, <2>1
  <2> QED BY <2>2, <2>3
<1>3. AllSane'
  BY <1>t, EmptyDir DEF AllSane
<1>4. ReadOrBack'
  <2> SUFFICES ASSUME NEW v \in Cursors \cup {0} \cup {seen.version}
               PROVE  v <= Dir'.version \/ v \in dirGhost'.back
    BY <1>1 DEF ReadOrBack
  <2>1. CASE v = 0
    <3>1. Dir'.version \in Nat
      BY <1>h DEF Dirs
    <3> QED BY <2>1, <3>1
  <2>2. CASE v \in Cursors \cup {seen.version}
    <3>1. v \in Int
      BY <1>h, <1>s, <2>2
    <3> QED BY <1>t, <2>2, <3>1 DEF ReadOrBack
  <2> QED BY <2>1, <2>2
<1>5. HistTrue'
  BY <1>t, <1>z, EmptyDir DEF HistTrue
<1>6. SeenTrue'
  BY <1>t DEF SeenTrue
<1>7. ASSUME ~dirGhost.torn PROVE CopiesTrue'
  <2>1. CopiesTrue
    BY <1>t, <1>7
  <2>2. book'.contacts = hist'[book'.version]
    BY <2>1 DEF CopiesTrue
  <2>3. ASSUME NEW t \in Tasks
        PROVE  /\ task'[t].base.contacts = hist'[task'[t].base.version]
               /\ View(task'[t].got) = hist'[task'[t].got.version]
               /\ SinceIn(hist', task'[t].base.version, task'[t].got)
    <3>1. CASE task'[t].base = task[t].base /\ task'[t].got = task[t].got
      BY <2>1, <3>1 DEF CopiesTrue
    <3>2. CASE task'[t].base \in {book, NoBook} /\ task'[t].got = Empty
      <4>1. book.version \in Nat /\ NoBook.version \in Nat
        BY <1>t, EmptyDir DEF DirTypes, Books
      <4>2. SinceIn(hist, task'[t].base.version, Empty)
        BY <1>z, <3>2, <4>1, SinceEmpty
      <4> QED BY <1>z, <2>1, <3>2, <4>2, EmptyDir DEF CopiesTrue
    <3> QED BY <3>1, <3>2
  <2>4. ASSUME NEW v \in Cursors', NEW x \in {mem, file, Empty}
        PROVE  SinceIn(hist, v, x)
    <3>1. CASE x = Empty
      BY <1>1, <1>h, <1>z, <3>1, SinceEmpty
    <3>2. CASE x \in {mem, file} /\ v = 0
      BY <1>h, <1>t, <1>z, <3>2, SinceZero DEF AllSane
    <3>3. CASE x \in {mem, file} /\ v \in Cursors
      BY <2>1, <3>3 DEF CopiesTrue
    <3> QED BY <1>1, <3>1, <3>2, <3>3
  <2>5. \A v \in Cursors' : SinceIn(hist', v, mem') /\ SinceIn(hist', v, file')
    BY <2>4
  <2> QED BY <2>2, <2>3, <2>5 DEF CopiesTrue
<1>8. NothingOverwritten'
  BY <1>t DEF NothingOverwritten
<1> QED BY <1>2, <1>3, <1>4, <1>5, <1>6, <1>7, <1>8 DEF SnapInv

(* The ghosts of the snapshots.                                            *)
SameGhosts ==
  /\ dirGhost'.torn = dirGhost.torn /\ dirGhost'.reused = dirGhost.reused
  /\ dirGhost'.blind = dirGhost.blind /\ dirGhost'.unstarred = dirGhost.unstarred

(* A save that failed, a purge and a crash take back what is above the     *)
(* directory they leave.                                                   *)
LEMMA TakenBack ==
  ASSUME DirTypes, NEW v \in Nat, NEW c \in BOOLEAN,
         dirGhost' = [dirGhost EXCEPT !.back = Back(v), !.taken = c]
  PROVE  /\ dirGhost' \in Ghosts /\ SameGhosts /\ dirGhost'.taken = c
         /\ dirGhost'.early = dirGhost.early /\ dirGhost'.failed = dirGhost.failed
         /\ dirGhost'.undone = dirGhost.undone
         /\ \A u \in Int : u <= mem.version \/ u \in dirGhost.back => u <= v \/ u \in dirGhost'.back
<1>1. dirGhost \in Ghosts /\ dirGhost.back \in SUBSET Int /\ mem.version \in Nat
  BY DEF DirTypes, Ghosts, Dirs
<1>2. Back(v) \in SUBSET Int
  BY <1>1 DEF Back
<1>3. /\ dirGhost' \in Ghosts /\ dirGhost'.back = Back(v) /\ dirGhost'.taken = c
      /\ dirGhost'.early = dirGhost.early /\ dirGhost'.failed = dirGhost.failed
      /\ dirGhost'.undone = dirGhost.undone /\ SameGhosts
  BY <1>1, <1>2 DEF SameGhosts, Ghosts
<1>4. ASSUME NEW u \in Int, u <= mem.version \/ u \in dirGhost.back
      PROVE  u <= v \/ u \in Back(v)
  <2>1. CASE u \in dirGhost.back
    BY <2>1 DEF Back
  <2>2. CASE u <= mem.version /\ ~(u <= v)
    <3>1. u \in (v + 1)..mem.version
      BY <1>1, <2>2
    <3> QED BY <3>1 DEF Back
  <2> QED BY <1>4, <2>1, <2>2
<1> QED BY <1>3, <1>4

(* A failed save takes memory back to the file and keeps the invariant.    *)
LEMMA SaveFailsKeeps ==
  ASSUME SnapInv, SaveFails
  PROVE  SnapInv'
<1>t. DirTypes /\ TwoSteps
  BY DEF SnapInv
<1>1. /\ writer.on /\ writer.backup = file /\ phase # "down"
      /\ mem' = file /\ file' = file /\ writer' = NoWrite
      /\ phase' = IF writer.by = "server" THEN "down" ELSE phase
      /\ UNCHANGED <<legacy, seen, book, task, hist, writes>>
  BY <1>t DEF SaveFails, appVars, TwoSteps
<1>2. dirGhost' = [dirGhost EXCEPT !.back = Back(file.version), !.taken = TRUE]
  <2>1. dirGhost' = [dirGhost EXCEPT !.taken = TRUE, !.back = Back(file.version)]
    BY <1>1 DEF SaveFails
  <2> QED BY <1>t, <2>1 DEF DirTypes, Ghosts
<1>3. file.version \in Nat /\ NoWrite \in [on : BOOLEAN, backup : Dirs, by : {"none", "admin", "device", "server"}]
      /\ ~NoWrite.on
  BY <1>t, EmptyDir DEF DirTypes, Dirs, NoWrite
<1>4. /\ dirGhost' \in Ghosts /\ SameGhosts
      /\ \A u \in Int : u <= mem.version \/ u \in dirGhost.back => u <= file.version \/ u \in dirGhost'.back
  BY <1>t, <1>2, <1>3, TakenBack
<1>5. DirTypes'
  BY <1>t, <1>1, <1>3, <1>4 DEF DirTypes
<1>6. TwoSteps'
  BY <1>t, <1>1, <1>3 DEF TwoSteps
<1>7. Dir = mem /\ Dir' = file
  BY <1>1 DEF Dir
<1> QED BY <1>1, <1>4, <1>5, <1>6, <1>7, SnapFrame DEF SameGhosts

(* The purge of a device's directory keeps the invariant.                  *)
LEMMA PurgeKeeps ==
  ASSUME SnapInv, Purge
  PROVE  SnapInv'
<1>t. DirTypes /\ TwoSteps
  BY DEF SnapInv
<1>1. /\ ~writer.on /\ phase = "serve"
      /\ mem' = Empty /\ file' = Empty
      /\ UNCHANGED <<writer, phase, legacy, seen, book, task, hist, writes>>
  BY <1>t DEF Purge, Serving, appVars
<1>2. dirGhost' = [dirGhost EXCEPT !.back = Back(0), !.taken = dirGhost.taken \/ ReadBeyond(0)]
  BY DEF Purge
<1>3. (dirGhost.taken \/ ReadBeyond(0)) \in BOOLEAN
  BY Zenon
<1>4. /\ dirGhost' \in Ghosts /\ SameGhosts
      /\ \A u \in Int : u <= mem.version \/ u \in dirGhost.back => u <= 0 \/ u \in dirGhost'.back
  BY <1>t, <1>2, <1>3, TakenBack
<1>5. DirTypes'
  BY <1>t, <1>1, <1>4, EmptyDir DEF DirTypes
<1>6. TwoSteps'
  BY <1>t, <1>1 DEF TwoSteps
<1>7. Dir = mem /\ Dir' = Empty /\ Empty.version = 0
  BY <1>1, EmptyDir DEF Dir
<1> QED BY <1>1, <1>4, <1>5, <1>6, <1>7, SnapFrame DEF SameGhosts

(* A crash, before or after the rename, keeps the invariant.               *)
LEMMA CrashKeeps ==
  ASSUME SnapInv, Crash
  PROVE  SnapInv'
<1>t. DirTypes /\ TwoSteps
  BY DEF SnapInv
<1>1. /\ phase # "down" /\ phase' = "down" /\ writer' = NoWrite /\ mem' = Empty
      /\ file' \in {file, mem}
      /\ UNCHANGED <<legacy, seen, book, task, hist, writes>>
  BY DEF Crash, appVars
<1>2. dirGhost' = [dirGhost EXCEPT !.back = Back(file'.version),
                                   !.taken = dirGhost.taken \/ ReadBeyond(file'.version)]
  BY DEF Crash
<1>3. /\ (dirGhost.taken \/ ReadBeyond(file'.version)) \in BOOLEAN
      /\ NoWrite \in [on : BOOLEAN, backup : Dirs, by : {"none", "admin", "device", "server"}]
      /\ ~NoWrite.on
  BY EmptyDir, Zenon DEF NoWrite
<1>4. file' \in Dirs /\ file'.version \in Nat
  BY <1>t, <1>1 DEF DirTypes, Dirs
<1>5. /\ dirGhost' \in Ghosts /\ SameGhosts
      /\ \A u \in Int : u <= mem.version \/ u \in dirGhost.back => u <= file'.version \/ u \in dirGhost'.back
  BY <1>t, <1>2, <1>3, <1>4, TakenBack
<1>6. DirTypes'
  BY <1>t, <1>1, <1>3, <1>4, <1>5, EmptyDir DEF DirTypes
<1>7. TwoSteps'
  BY <1>t, <1>1, <1>3 DEF TwoSteps
<1>8. Dir = mem /\ Dir' = file'
  BY <1>1 DEF Dir
<1> QED BY <1>1, <1>5, <1>6, <1>7, <1>8, SnapFrame DEF SameGhosts

(* Opening the file keeps the invariant.                                   *)
LEMMA OpenKeeps ==
  ASSUME SnapInv, Open
  PROVE  SnapInv'
<1>t. DirTypes /\ TwoSteps
  BY DEF SnapInv
<1>1. /\ phase = "down" /\ mem' = file
      /\ phase' = (IF legacy = 0 THEN "serve" ELSE "migrate")
      /\ legacy' = (IF legacy = 0 THEN 0 ELSE 1)
      /\ UNCHANGED <<file, writer, seen, book, task, hist, dirGhost, writes>>
  BY DEF Open, appVars
<1>2. DirTypes' /\ TwoSteps' /\ Dir = file /\ Dir' = file
  BY <1>t, <1>1 DEF DirTypes, TwoSteps, Dir
<1> QED BY <1>1, <1>2, SnapFrame

(* The link's own steps.                                                   *)
LEMMA LinkKeeps ==
  ASSUME SnapInv, UNCHANGED <<serverVars, seen, appVars, hist, dirGhost, writes>>
  PROVE  SnapInv'
BY DEF SnapInv, serverVars, appVars, DirTypes, TwoSteps, Bounded, AllSane, ReadOrBack, HistTrue,
       SeenTrue, CopiesTrue, NothingOverwritten, Dir, Cursors

-----------------------------------------------------------------------------
(* The phone's steps.                                                      *)

AskFrom(b) == [pc |-> "ask", base |-> b, got |-> Empty]

(* A sync that asks starts from the book it was given.                     *)
LEMMA AskTyped ==
  ASSUME NEW b \in Books
  PROVE  /\ AskFrom(b) \in TaskState /\ AskFrom(b).pc = "ask"
         /\ AskFrom(b).base = b /\ AskFrom(b).got = Empty
BY EmptyDir DEF AskFrom, TaskState

(* A sync that is begun, begun again from nothing, or given up.            *)
LEMMA TaskKeeps ==
  ASSUME SnapInv, NEW t \in Tasks, NEW b \in {book, NoBook},
         task' = [task EXCEPT ![t] = AskFrom(b)] \/ task' = [task EXCEPT ![t] = NoTask],
         UNCHANGED <<serverVars, seen, book, hist, writes>>,
         dirGhost' \in Ghosts, dirGhost'.back = dirGhost.back, SameGhosts
  PROVE  SnapInv'
<1>t. DirTypes /\ TwoSteps
  BY DEF SnapInv
<1>1. UNCHANGED <<mem, file, writer, phase, legacy>>
  BY DEF serverVars
<1>2. b \in Books
  BY <1>t, EmptyDir DEF DirTypes
<1>3. /\ task' \in [Tasks -> TaskState]
      /\ task'[t] \in {AskFrom(b), NoTask}
      /\ \A u \in Tasks \ {t} : task'[u] = task[u]
  BY <1>t, <1>2, AskTyped, EmptyDir DEF DirTypes
<1>4. DirTypes'
  BY <1>t, <1>1, <1>3 DEF DirTypes
<1>5. TwoSteps'
  BY <1>t, <1>1, <1>2, <1>3, AskTyped DEF TwoSteps
<1>6. \A u \in Tasks : \/ task'[u].base = task[u].base /\ task'[u].got = task[u].got
                       \/ task'[u].base \in {book, NoBook} /\ task'[u].got = Empty
  BY <1>2, <1>3, AskTyped, EmptyDir
<1>7. Dir' = Dir
  BY <1>1 DEF Dir
<1> QED BY <1>1, <1>4, <1>5, <1>6, <1>7, SnapFrame DEF SameGhosts

(* An event the app reads keeps the invariant.                             *)
LEMMA HandleEventKeeps ==
  ASSUME SnapInv, HandleEvent
  PROVE  SnapInv'
<1>1. CASE UNCHANGED task
  BY <1>1, LinkKeeps DEF HandleEvent, appVars
<1>2. CASE task' = [task EXCEPT !["events"] = AskFrom(book)]
  <2>1. UNCHANGED <<serverVars, seen, book, hist, dirGhost, writes>> /\ "events" \in Tasks
    BY DEF HandleEvent, Tasks
  <2>2. dirGhost' \in Ghosts /\ dirGhost'.back = dirGhost.back /\ SameGhosts
    BY <2>1 DEF SameGhosts, SnapInv, DirTypes
  <2> QED BY <1>2, <2>1, <2>2, TaskKeeps
<1> QED BY <1>1, <1>2 DEF HandleEvent, AskFrom

(* A sync that fails keeps the invariant.                                  *)
LEMMA SyncFailsKeeps ==
  ASSUME SnapInv, NEW t \in Tasks, SyncFails(t)
  PROVE  SnapInv'
<1>1. dirGhost \in Ghosts
  BY DEF SnapInv, DirTypes
<1>2. dirGhost' = [dirGhost EXCEPT !.failed = TRUE]
  BY DEF SyncFails
<1>3. dirGhost' \in Ghosts /\ dirGhost'.back = dirGhost.back /\ SameGhosts
  BY <1>1, <1>2 DEF Ghosts, SameGhosts
<1>4. task' = [task EXCEPT ![t] = NoTask] /\ UNCHANGED <<serverVars, seen, book, hist, writes>>
  BY DEF SyncFails
<1> QED BY <1>3, <1>4, TaskKeeps

(* The server's answer to a sync is a directory reached from the base of   *)
(* it.                                                                     *)
LEMMA ChangesKeeps ==
  ASSUME SnapInv, NEW t \in Tasks, Changes(t)
  PROVE  SnapInv'
<1>t. /\ DirTypes /\ TwoSteps /\ Bounded /\ AllSane /\ ReadOrBack /\ HistTrue /\ SeenTrue
      /\ ~dirGhost.torn => CopiesTrue
      /\ NothingOverwritten
  BY DEF SnapInv
<1>1. /\ UNCHANGED <<mem, file, writer, phase, legacy, seen, book, hist, dirGhost, writes>>
      /\ phase = "serve" /\ task[t].pc = "ask"
  BY DEF Changes, serverVars
<1> DEFINE r == [task[t] EXCEPT !.pc = "answer", !.got = mem]
<1>2. /\ r \in TaskState /\ r.pc = "answer" /\ r.got = mem /\ r.base = task[t].base
  BY <1>t DEF DirTypes, TaskState
<1>3. task' = [task EXCEPT ![t] = r]
  BY DEF Changes
<1> HIDE DEF r
<1>4. /\ task' \in [Tasks -> TaskState] /\ task'[t] = r
      /\ \A u \in Tasks \ {t} : task'[u] = task[u]
  BY <1>t, <1>2, <1>3 DEF DirTypes
<1>5. DirTypes'
  BY <1>t, <1>1, <1>4 DEF DirTypes
<1>6. TwoSteps'
  BY <1>t, <1>1, <1>2, <1>4 DEF TwoSteps
<1>7. Cursors' \subseteq Cursors \cup {mem.version}
  <2> SUFFICES ASSUME NEW u \in Tasks
               PROVE  /\ task'[u].base.version \in Cursors \cup {mem.version}
                      /\ task'[u].got.version \in Cursors \cup {mem.version}
    BY <1>1 DEF Cursors
  <2> QED BY <1>2, <1>4 DEF Cursors
<1>8. Dir = mem /\ Dir' = mem /\ mem.version \in Int /\ mem.version <= MaxVersion
  BY <1>t, <1>1, InHistory DEF Dir
<1>9. Bounded'
  BY <1>t, <1>1, <1>7, <1>8 DEF Bounded
<1>10. AllSane'
  BY <1>t, <1>1, <1>2, <1>4 DEF AllSane
<1>11. ReadOrBack'
  BY <1>t, <1>1, <1>7, <1>8 DEF ReadOrBack
<1>12. HistTrue' /\ SeenTrue' /\ NothingOverwritten'
  BY <1>t, <1>1 DEF HistTrue, SeenTrue, NothingOverwritten
<1>13. ASSUME ~dirGhost.torn PROVE CopiesTrue'
  <2>1. CopiesTrue
    BY <1>t, <1>13
  <2>2. book'.contacts = hist'[book'.version]
    BY <1>1, <2>1 DEF CopiesTrue
  <2>3. ASSUME NEW u \in Tasks
        PROVE  /\ task'[u].base.contacts = hist'[task'[u].base.version]
               /\ View(task'[u].got) = hist'[task'[u].got.version]
               /\ SinceIn(hist', task'[u].base.version, task'[u].got)
    <3>1. CASE u # t
      BY <1>1, <1>4, <2>1, <3>1 DEF CopiesTrue
    <3>2. CASE u = t
      <4>1. SinceIn(hist, task[t].base.version, mem)
        BY <2>1 DEF CopiesTrue, Cursors
      <4> QED BY <1>1, <1>2, <1>4, <1>t, <2>1, <3>2, <4>1 DEF CopiesTrue, HistTrue
    <3> QED BY <3>1, <3>2
  <2>4. SinceIn(hist, mem.version, mem)
    BY <1>t DEF SinceIn, HistTrue
  <2>5. SinceIn(hist, mem.version, file)
    <3>1. CASE writer.on
      <4>1. ~(mem.version <= file.version)
        BY <1>t, <3>1, InHistory DEF TwoSteps
      <4> QED BY <4>1 DEF SinceIn
    <3>2. CASE ~writer.on
      BY <1>t, <1>1, <2>4, <3>2 DEF TwoSteps
    <3> QED BY <3>1, <3>2
  <2>6. \A v \in Cursors' : SinceIn(hist, v, mem) /\ SinceIn(hist, v, file)
    BY <1>7, <2>1, <2>4, <2>5 DEF CopiesTrue
  <2> QED BY <1>1, <2>2, <2>3, <2>6 DEF CopiesTrue
<1> QED BY <1>1, <1>5, <1>6, <1>9, <1>10, <1>11, <1>12, <1>13 DEF SnapInv

(* A delta applied to the copy it was asked for gives the whole directory. *)
LEMMA ApplyIsSnapshot ==
  ASSUME NEW b \in Books, NEW st \in Dirs, Sane(st), st.version >= b.version,
         NEW h, h[0] = NoBook.contacts, b.contacts = h[b.version], SinceIn(h, b.version, st)
  PROVE  apply(b, st) = [version |-> st.version, contacts |-> View(st)]
<1>1. b.version \in Nat /\ st.version \in Nat /\ b.version <= st.version
      /\ \A i \in Ids : st.contacts[i].ver \in Nat
  BY DEF Books, Dirs, Entry
<1>2. (IF st.version > b.version THEN st.version ELSE b.version) = st.version
  BY <1>1
<1> DEFINE f == [i \in Ids |-> IF i \notin Delta(st, b.version) THEN b.contacts[i]
                               ELSE IF Live(st, i) THEN st.contacts[i].d ELSE NoContact]
<1>3. ASSUME NEW i \in Ids
      PROVE  f[i] = View(st)[i]
  <2>1. CASE i \in Delta(st, b.version)
    BY <2>1, ViewTyped DEF Live
  <2>2. CASE i \notin Delta(st, b.version) /\ st.contacts[i].ver <= b.version
    <3>1. View(st)[i] = h[b.version][i]
      BY <1>1, <2>2 DEF SinceIn
    <3> QED BY <2>2, <3>1
  <2>3. CASE b.version = 0 /\ st.contacts[i].del /\ i \notin Delta(st, b.version)
    BY <2>3, ViewTyped, EmptyDir
  <2> QED BY <1>1, <2>1, <2>2, <2>3 DEF Delta
<1>4. f = View(st)
  BY <1>3 DEF View
<1> QED BY <1>2, <1>4 DEF apply

(* The answer applied to the book keeps the invariant.                     *)
LEMMA SyncKeeps ==
  ASSUME SnapInv, NEW t \in Tasks, sync(t)
  PROVE  SnapInv'
<1>t. /\ DirTypes /\ TwoSteps /\ Bounded /\ AllSane /\ ReadOrBack /\ HistTrue /\ SeenTrue
      /\ ~dirGhost.torn => CopiesTrue
      /\ NothingOverwritten
  BY DEF SnapInv
<1> DEFINE b == task[t].base
           st == task[t].got
<1>b. b \in Books /\ st \in Dirs /\ Sane(st) /\ b.version \in Nat /\ st.version \in Nat
  BY <1>t DEF DirTypes, TaskState, AllSane, Books, Dirs
<1>u. UNCHANGED <<serverVars, seen, hist, writes>> /\ task[t].pc = "answer"
  BY DEF sync
<1>1. CASE st.version < b.version
  <2>1. task' = [task EXCEPT ![t] = AskFrom(NoBook)] /\ UNCHANGED <<book, dirGhost>>
    BY <1>1 DEF sync, AskFrom
  <2>2. dirGhost' \in Ghosts /\ dirGhost'.back = dirGhost.back /\ SameGhosts
    BY <1>t, <2>1 DEF DirTypes, SameGhosts
  <2> QED BY <1>u, <2>1, <2>2, TaskKeeps
<1>2. CASE ~(st.version < b.version)
  <2>1. /\ task' = [task EXCEPT ![t] = NoTask]
        /\ book' = apply(b, st)
        /\ dirGhost' = [dirGhost EXCEPT !.undone = @ \/ st.version < book.version]
    BY <1>2 DEF sync
  <2>2. dirGhost' \in Ghosts /\ dirGhost'.back = dirGhost.back /\ SameGhosts
    BY <1>t, <2>1 DEF DirTypes, Ghosts, SameGhosts
  <2>u. UNCHANGED <<mem, file, writer, phase, legacy, seen, hist, writes>>
    BY <1>u DEF serverVars
  <2>3. /\ task' \in [Tasks -> TaskState] /\ task'[t] = NoTask
        /\ \A u \in Tasks \ {t} : task'[u] = task[u]
    BY <1>t, <2>1, EmptyDir DEF DirTypes
  <2>4. book'.version = st.version /\ book' \in Books
    <3>1. book'.version = st.version
      BY <1>2, <1>b, <2>1 DEF apply
    <3> DEFINE f == [i \in Ids |-> IF i \notin Delta(st, b.version) THEN b.contacts[i]
                                   ELSE IF Live(st, i) THEN st.contacts[i].d ELSE NoContact]
    <3>2. f \in Views
      BY <1>b, EmptyDir DEF Views, Books, Dirs, Entry
    <3>3. book' = [version |-> book'.version, contacts |-> f]
      BY <2>1 DEF apply
    <3> HIDE DEF f
    <3> QED BY <1>b, <3>1, <3>2, <3>3 DEF Books
  <2>5. DirTypes'
    BY <1>t, <2>u, <2>2, <2>3, <2>4 DEF DirTypes
  <2>6. TwoSteps'
    BY <1>t, <2>u, <2>3, EmptyDir DEF TwoSteps
  <2>7. Cursors' \subseteq Cursors \cup {0}
    <3>1. st.version \in Cursors
      BY DEF Cursors
    <3> HIDE DEF st
    <3>2. ASSUME NEW u \in Tasks
          PROVE  /\ task'[u].base.version \in Cursors \cup {0}
                 /\ task'[u].got.version \in Cursors \cup {0}
      BY <2>3, EmptyDir DEF Cursors
    <3> QED BY <2>4, <3>1, <3>2 DEF Cursors
  <2>8. Bounded'
    BY <1>t, <2>u, <2>7, DirAssumption DEF Bounded
  <2>9. AllSane'
    BY <1>t, <2>u, <2>3, EmptyDir DEF AllSane
  <2>10. ReadOrBack'
    <3>1. Dir' = Dir /\ Dir.version \in Nat
      BY <1>t, <2>u DEF Dir, DirTypes, Dirs
    <3> QED BY <1>t, <2>2, <2>7, <2>u, <3>1 DEF ReadOrBack
  <2>11. HistTrue' /\ SeenTrue' /\ NothingOverwritten'
    BY <1>t, <2>2, <2>u DEF HistTrue, SeenTrue, NothingOverwritten, SameGhosts
  <2>12. ASSUME ~dirGhost.torn PROVE CopiesTrue'
    <3>1. CopiesTrue /\ hist[0] = NoBook.contacts
      BY <1>t, <2>12 DEF HistTrue
    <3>2. apply(b, st) = [version |-> st.version, contacts |-> View(st)]
      <4>1. b.contacts = hist[b.version] /\ SinceIn(hist, b.version, st)
        BY <3>1 DEF CopiesTrue
      <4>2. st.version >= b.version
        BY <1>2, <1>b
      <4> HIDE DEF b, st
      <4> QED BY <1>b, <3>1, <4>1, <4>2, ApplyIsSnapshot
    <3>3. book'.contacts = hist'[book'.version]
      <4>1. View(st) = hist[st.version]
        BY <3>1 DEF CopiesTrue
      <4> HIDE DEF b, st
      <4> QED BY <2>1, <2>u, <3>2, <4>1
    <3>4. ASSUME NEW u \in Tasks
          PROVE  /\ task'[u].base.contacts = hist'[task'[u].base.version]
                 /\ View(task'[u].got) = hist'[task'[u].got.version]
                 /\ SinceIn(hist', task'[u].base.version, task'[u].got)
      <4>1. CASE u # t
        BY <2>u, <2>3, <3>1, <4>1 DEF CopiesTrue
      <4>2. CASE u = t
        <5>1. SinceIn(hist, 0, Empty)
          BY <3>1, SinceEmpty
        <5> QED BY <2>u, <2>3, <3>1, <4>2, <5>1, EmptyDir
      <4> QED BY <4>1, <4>2
    <3>5. SinceIn(hist, 0, mem) /\ SinceIn(hist, 0, file)
      BY <1>t, <3>1, SinceZero DEF AllSane, DirTypes
    <3>6. \A v \in Cursors' : SinceIn(hist', v, mem') /\ SinceIn(hist', v, file')
      BY <2>u, <2>7, <3>1, <3>5 DEF CopiesTrue
    <3> QED BY <3>3, <3>4, <3>6 DEF CopiesTrue
  <2> QED BY <2>2, <2>5, <2>6, <2>8, <2>9, <2>10, <2>11, <2>12 DEF SnapInv, SameGhosts
<1> QED BY <1>1, <1>2

(* A write that reached the file keeps the invariant.                      *)
LEMMA SavedKeeps ==
  ASSUME SnapInv, Saved
  PROVE  SnapInv'
<1>t. DirTypes /\ TwoSteps
  BY DEF SnapInv
<1>1. /\ writer.on /\ file' = mem /\ writer' = NoWrite
      /\ UNCHANGED <<mem, phase, seen, book, hist, writes>>
      /\ legacy' = IF writer.by = "server" THEN legacy + 1 ELSE legacy
      /\ task' = task \/ task' = [task EXCEPT !["user"] = AskFrom(book)]
  BY DEF Saved, AskFrom
<1>2. /\ dirGhost' = [dirGhost EXCEPT !.early = dirGhost.early \/ link = "reading"]
      /\ dirGhost \in Ghosts
  BY <1>t DEF Saved, DirTypes
<1>3. dirGhost' \in Ghosts /\ dirGhost'.back = dirGhost.back /\ SameGhosts
  BY <1>2 DEF Ghosts, SameGhosts
<1>4. NoWrite \in [on : BOOLEAN, backup : Dirs, by : {"none", "admin", "device", "server"}]
      /\ ~NoWrite.on
  BY EmptyDir DEF NoWrite
<1>5. book \in Books /\ "user" \in Tasks
  BY <1>t DEF DirTypes, Tasks
<1>6. /\ task' \in [Tasks -> TaskState]
      /\ \A u \in Tasks : task'[u] = task[u] \/ task'[u] = AskFrom(book)
  BY <1>t, <1>1, <1>5, AskTyped DEF DirTypes
<1>7. legacy' \in Nat /\ (legacy # 0 => legacy' # 0)
  BY <1>t, <1>1 DEF DirTypes
<1>8. DirTypes'
  BY <1>t, <1>1, <1>3, <1>4, <1>6, <1>7 DEF DirTypes
<1>9. TwoSteps'
  BY <1>t, <1>1, <1>4, <1>5, <1>6, <1>7, AskTyped DEF TwoSteps
<1>10. \A u \in Tasks : \/ task'[u].base = task[u].base /\ task'[u].got = task[u].got
                        \/ task'[u].base \in {book, NoBook} /\ task'[u].got = Empty
  BY <1>5, <1>6, AskTyped
<1>11. Dir = mem /\ Dir' = mem
  BY <1>t, <1>1 DEF Dir, TwoSteps
<1> QED BY <1>1, <1>3, <1>8, <1>9, <1>10, <1>11, SnapFrame DEF SameGhosts

-----------------------------------------------------------------------------
(* The admin's reads.                                                      *)

(* A read by the admin, and a write refused for its version, keep the      *)
(* invariant.                                                              *)
LEMMA SeenKeeps ==
  ASSUME SnapInv, PreconditionFailed \/ Contacts
  PROVE  SnapInv'
<1>t. /\ DirTypes /\ TwoSteps /\ Bounded /\ AllSane /\ ReadOrBack /\ HistTrue /\ SeenTrue
      /\ ~dirGhost.torn => CopiesTrue
      /\ NothingOverwritten
  BY DEF SnapInv
<1>u. UNCHANGED <<mem, file, writer, phase, legacy, book, task, hist, dirGhost, writes>>
  BY DEF PreconditionFailed, Contacts, serverVars, appVars
<1>1. /\ seen' \in [version : Int, view : Views]
      /\ seen'.version <= Dir.version /\ seen'.version <= MaxVersion
      /\ seen'.version >= 0 => seen'.view = hist[seen'.version]
  <2>1. CASE PreconditionFailed
    <3>1. seen' = NotSeen /\ NotSeen.version = -1 /\ NotSeen \in [version : Int, view : Views]
      BY <2>1, EmptyDir DEF PreconditionFailed, NotSeen, NoMatch, Books
    <3>2. Dir.version \in Nat /\ MaxVersion \in Nat
      BY <1>t, DirAssumption DEF Dir, DirTypes, Dirs
    <3> QED BY <3>1, <3>2
  <2>2. CASE Contacts
    <3>1. seen' = [version |-> mem.version, view |-> View(mem)] /\ Dir = mem
      BY <2>2 DEF Contacts, Dir
    <3>2. View(mem) \in Views /\ mem.version \in Int /\ mem.version <= MaxVersion
      BY <1>t, ViewTyped, InHistory DEF DirTypes
    <3> QED BY <1>t, <3>1, <3>2 DEF HistTrue
  <2> QED BY <2>1, <2>2
<1>2. Cursors' = Cursors /\ Dir' = Dir
  BY <1>u DEF Cursors, Dir
<1>3. DirTypes'
  BY <1>t, <1>u, <1>1 DEF DirTypes
<1>4. TwoSteps' /\ AllSane' /\ HistTrue' /\ NothingOverwritten'
  BY <1>t, <1>u DEF TwoSteps, AllSane, HistTrue, NothingOverwritten
<1>5. Bounded'
  BY <1>t, <1>u, <1>1, <1>2 DEF Bounded
<1>6. ReadOrBack'
  BY <1>t, <1>u, <1>1, <1>2 DEF ReadOrBack
<1>7. SeenTrue'
  BY <1>u, <1>1 DEF SeenTrue
<1>8. ~dirGhost.torn => CopiesTrue'
  BY <1>t, <1>u, <1>2 DEF CopiesTrue
<1> QED BY <1>u, <1>3, <1>4, <1>5, <1>6, <1>7, <1>8 DEF SnapInv

-----------------------------------------------------------------------------
(* The writes.                                                             *)

(* A migration takes this star away.                                       *)
Unstars(st) ==
  \E i, j \in Ids : /\ View(mem)[i].star /\ ~View(st)[j].star
                    /\ Matches(mem, View(mem)[i].uri) = {i}
                    /\ View(mem)[i].uri = View(st)[j].uri

(* A rewrite of the directory, begun in memory, keeps the invariant.       *)
LEMMA MutateKeeps ==
  ASSUME SnapInv, NEW st, Rewrites(mem, st), NEW by \in {"admin", "device", "server"},
         NEW matched \in BOOLEAN, matched => seen.version = mem.version,
         by = "server" => ~Unstars(st),
         phase # "down", ~writer.on, Mutate(st, by, matched),
         UNCHANGED <<file, phase, legacy, seen, book, task>>
  PROVE  SnapInv'
<1>t. /\ DirTypes /\ TwoSteps /\ Bounded /\ AllSane /\ ReadOrBack /\ HistTrue /\ SeenTrue
      /\ ~dirGhost.torn => CopiesTrue
      /\ NothingOverwritten
  BY DEF SnapInv
<1> DEFINE v == mem.version + 1
<1>r. /\ st \in Dirs /\ Sane(st) /\ st.version = v
      /\ \A i \in Ids : st.contacts[i] = mem.contacts[i] \/ st.contacts[i].ver = v
  BY DEF Rewrites
<1>m. mem = file /\ Dir = mem /\ Dir' = st /\ mem' = st
  BY <1>t DEF TwoSteps, Dir, Mutate
<1>w. /\ writes < MaxWrites /\ writes' = writes + 1
      /\ writer' = [on |-> TRUE, backup |-> mem, by |-> by]
      /\ hist' = [hist EXCEPT ![v] = View(st)]
  BY <1>r DEF Mutate
<1>b. /\ mem.version + MaxWrites <= MaxVersion + writes
      /\ writes \in Nat /\ MaxWrites \in Nat /\ MaxVersion \in Nat /\ mem.version \in Nat
  BY <1>t, DirAssumption DEF Bounded, DirTypes, Dirs
<1>v. v \in 1..MaxVersion /\ v + MaxWrites <= MaxVersion + writes' /\ v \in Nat
  BY <1>b, <1>w
<1>g. /\ dirGhost' \in Ghosts
      /\ dirGhost'.back = dirGhost.back \ {v}
      /\ dirGhost'.torn = (dirGhost.torn \/ (v \in dirGhost.back /\ Held(v)))
      /\ dirGhost'.reused = (dirGhost.reused \/ (v \in dirGhost.back /\ seen.version = v))
      /\ dirGhost'.blind = (dirGhost.blind \/ (matched /\ seen.view # View(mem)))
      /\ dirGhost'.unstarred = (dirGhost.unstarred \/ (by = "server" /\ Unstars(st)))
  <2>1. dirGhost \in Ghosts
    BY <1>t DEF DirTypes
  <2>2. dirGhost' = [dirGhost EXCEPT
           !.back = dirGhost.back \ {v},
           !.torn = dirGhost.torn \/ (v \in dirGhost.back /\ Held(v)),
           !.reused = dirGhost.reused \/ (v \in dirGhost.back /\ seen.version = v),
           !.blind = dirGhost.blind \/ (matched /\ seen.view # View(mem)),
           !.unstarred = dirGhost.unstarred \/ (by = "server" /\ Unstars(st))]
    BY <1>r DEF Mutate, Unstars
  <2> HIDE DEF v
  <2> QED BY <2>1, <2>2 DEF Ghosts
<1>c. Cursors' = Cursors /\ Cursors \subseteq 0..MaxVersion
  BY <1>t, InHistory DEF Cursors
<1>h. /\ hist' \in [0..MaxVersion -> Views] /\ hist'[v] = View(st)
      /\ \A u \in (0..MaxVersion) \ {v} : hist'[u] = hist[u]
  <2>1. View(st) \in Views /\ v \in 0..MaxVersion /\ hist \in [0..MaxVersion -> Views]
    BY <1>r, <1>t, <1>v, ViewTyped DEF DirTypes
  <2> HIDE DEF v
  <2> QED BY <1>w, <2>1
<1> HIDE DEF v
<1>lt. mem.version < v /\ mem.version \in (0..MaxVersion) \ {v} /\ 0 \in (0..MaxVersion) \ {v}
  BY <1>b, <1>v DEF v
<1>1. DirTypes'
  BY <1>t, <1>r, <1>m, <1>w, <1>b, <1>g, <1>h DEF DirTypes
<1>2. TwoSteps'
  BY <1>t, <1>r, <1>m, <1>w, <1>b, <1>lt DEF TwoSteps
<1>3. Bounded'
  <2>1. writes' <= MaxWrites /\ mem.version + MaxWrites <= MaxVersion + writes'
    BY <1>b, <1>w
  <2> QED BY <1>t, <1>r, <1>m, <1>b, <1>c, <1>v, <2>1 DEF Bounded
<1>4. AllSane'
  BY <1>t, <1>r, <1>m DEF AllSane
<1>5. ReadOrBack'
  <2> SUFFICES ASSUME NEW u \in Cursors \cup {seen.version}
               PROVE  u <= v \/ u \in dirGhost'.back
    BY <1>c, <1>m, <1>r DEF ReadOrBack
  <2>1. u \in Int
    BY <1>t, <1>c, InHistory
  <2>2. CASE u <= mem.version
    BY <1>b, <1>lt, <1>v, <2>1, <2>2
  <2>3. CASE u \in dirGhost.back
    <3>1. CASE u = v
      BY <1>v, <3>1
    <3>2. CASE u # v
      BY <1>g, <2>3, <3>2
    <3> QED BY <3>1, <3>2
  <2> QED BY <1>t, <1>m, <2>2, <2>3 DEF ReadOrBack
<1>6. HistTrue'
  BY <1>t, <1>r, <1>m, <1>h, <1>lt DEF HistTrue
(* A cursor at the version now given out had read it before it was taken back. *)
<1>7. ASSUME NEW u \in Cursors \cup {seen.version}, u = v
      PROVE  v \in dirGhost.back
  <2>1. ~(u <= mem.version)
    BY <1>7, <1>b, <1>lt, <1>v
  <2> QED BY <1>7, <1>t, <1>m, <2>1 DEF ReadOrBack
<1>8. SeenTrue'
  <2> SUFFICES ASSUME seen.version >= 0, ~dirGhost'.reused
               PROVE  seen.view = hist'[seen.version]
    BY DEF SeenTrue
  <2>1. ~dirGhost.reused /\ seen.version # v
    BY <1>g, <1>7
  <2>2. seen.version \in (0..MaxVersion) \ {v}
    BY <1>t, <2>1, InHistory
  <2> QED BY <1>t, <1>h, <2>1, <2>2 DEF SeenTrue
<1>9. NothingOverwritten'
  <2>1. ~dirGhost'.unstarred
    BY <1>t, <1>g DEF NothingOverwritten
  <2>2. ASSUME dirGhost'.blind, ~dirGhost'.reused PROVE FALSE
    <3>1. ~dirGhost.reused /\ ~dirGhost.blind
      BY <1>t, <1>g, <2>2 DEF NothingOverwritten
    <3>2. seen.version = mem.version /\ seen.view # View(mem)
      BY <1>g, <2>2, <3>1
    <3>3. seen.version >= 0
      BY <1>b, <3>2
    <3>4. seen.view = hist[mem.version]
      BY <1>t, <3>1, <3>2, <3>3 DEF SeenTrue
    <3> QED BY <1>t, <3>2, <3>4 DEF HistTrue
  <2> QED BY <2>1, <2>2 DEF NothingOverwritten
<1>10. ASSUME ~dirGhost'.torn PROVE CopiesTrue'
  <2>1. CopiesTrue
    BY <1>t, <1>g, <1>10
  <2>2. v \notin Cursors
    <3> SUFFICES ASSUME v \in Cursors PROVE FALSE
      OBVIOUS
    <3>1. v \in dirGhost.back
      BY <1>7
    <3>2. Held(v)
      <4>1. CASE v = book.version
        BY <4>1 DEF Held
      <4>2. CASE v # book.version
        <5>1. PICK t \in Tasks : v \in {task[t].base.version, task[t].got.version}
          BY <4>2 DEF Cursors
        <5>2. task[t].pc # "idle"
          <6>1. v # 0
            BY <1>v
          <6> QED BY <1>t, <5>1, <6>1, EmptyDir DEF TwoSteps
        <5> QED BY <5>1, <5>2 DEF Held
      <4> QED BY <4>1, <4>2
    <3> QED BY <1>g, <1>10, <3>1, <3>2
  <2>3. \A u \in Cursors : hist'[u] = hist[u]
    BY <1>c, <1>h, <2>2
  <2>4. ASSUME NEW u \in Cursors, NEW x, SinceIn(hist, u, x)
        PROVE  SinceIn(hist', u, x)
    BY <2>3, <2>4 DEF SinceIn
  <2>5. book'.contacts = hist'[book'.version]
    BY <2>1, <2>3 DEF CopiesTrue, Cursors
  <2>6. ASSUME NEW t \in Tasks
        PROVE  /\ task'[t].base.contacts = hist'[task'[t].base.version]
               /\ View(task'[t].got) = hist'[task'[t].got.version]
               /\ SinceIn(hist', task'[t].base.version, task'[t].got)
    <3>1. task[t].base.version \in Cursors /\ task[t].got.version \in Cursors
      BY DEF Cursors
    <3>2. /\ task[t].base.contacts = hist[task[t].base.version]
          /\ View(task[t].got) = hist[task[t].got.version]
          /\ SinceIn(hist, task[t].base.version, task[t].got)
      BY <2>1 DEF CopiesTrue
    <3> QED BY <2>3, <2>4, <3>1, <3>2
  <2>7. ASSUME NEW u \in Cursors
        PROVE  SinceIn(hist', u, st) /\ SinceIn(hist', u, file)
    <3>1. SinceIn(hist, u, mem) /\ SinceIn(hist', u, file)
      BY <2>1, <2>4 DEF CopiesTrue
    <3>2. ASSUME u <= v, NEW i \in Ids, st.contacts[i].ver <= u
          PROVE  View(st)[i] = hist'[u][i]
      <4>1. u \in Nat /\ u # v
        BY <1>c, <2>2
      <4>2. st.contacts[i].ver # v /\ u <= mem.version
        <5>1. v = mem.version + 1
          BY DEF v
        <5>2. u < v
          BY <1>v, <3>2, <4>1
        <5>3. u <= mem.version
          BY <1>b, <4>1, <5>1, <5>2
        <5>4. st.contacts[i].ver # v
          BY <1>v, <3>2, <4>1, <5>2
        <5> QED BY <5>3, <5>4
      <4>3. st.contacts[i] = mem.contacts[i]
        BY <1>r, <4>2
      <4>4. View(st)[i] = View(mem)[i]
        BY <1>r, <1>t, <4>3, ViewTyped DEF DirTypes
      <4>5. View(mem)[i] = hist[u][i]
        BY <3>1, <3>2, <4>2, <4>3 DEF SinceIn
      <4> QED BY <2>3, <4>4, <4>5
    <3>3. SinceIn(hist', u, st)
      BY <1>r, <3>2 DEF SinceIn
    <3> QED BY <3>1, <3>3
  <2> QED BY <1>c, <1>m, <2>5, <2>6, <2>7 DEF CopiesTrue
<1> QED BY <1>1, <1>2, <1>3, <1>4, <1>5, <1>6, <1>8, <1>9, <1>10 DEF SnapInv

(* The If-Match a write carries is one the admin read.                     *)
LEMMA MatchRead ==
  ASSUME NEW by, NEW m \in MayMatch(by), checkAll(m)
  PROVE  m \in BOOLEAN /\ (m => seen.version = mem.version)
BY DEF MayMatch, checkAll

(* So does an upsert by the admin or a phone.                              *)
LEMMA UpsertKeeps ==
  ASSUME SnapInv, NEW by \in {"admin", "device"}, Upsert(by)
  PROVE  SnapInv'
<1>1. PICK d \in Drafts, id \in Ids \cup {NoId}, m \in MayMatch(by) :
        checkAll(m) /\ \E st \in Upserts(mem, d, id) : Mutate(st, by, m)
  BY DEF Upsert
<1>2. PICK st \in Upserts(mem, d, id) : Mutate(st, by, m)
  BY <1>1
<1>3. Rewrites(mem, st)
  BY UpsertRewrites, DirAssumption DEF SnapInv, DirTypes, AllSane
<1>4. phase # "down" /\ ~writer.on /\ UNCHANGED <<file, phase, legacy, seen, book, task>>
  BY DEF Upsert, Serving, appVars
<1> QED BY <1>1, <1>2, <1>3, <1>4, MatchRead, MutateKeeps

(* So does a deletion.                                                     *)
LEMMA DeleteKeeps ==
  ASSUME SnapInv, NEW by \in {"admin", "device"}, Delete(by)
  PROVE  SnapInv'
<1>1. PICK i \in Ids, m \in MayMatch(by) : checkAll(m) /\ Mutate(Removed(mem, i), by, m)
  BY DEF Delete
<1>2. Rewrites(mem, Removed(mem, i))
  BY RemovedRewrites DEF SnapInv, DirTypes, AllSane
<1>3. phase # "down" /\ ~writer.on /\ UNCHANGED <<file, phase, legacy, seen, book, task>>
  BY DEF Delete, Serving, appVars
<1> QED BY <1>1, <1>2, <1>3, MatchRead, MutateKeeps

(* So does a replacement of the whole list.                                *)
LEMMA ReplaceKeeps ==
  ASSUME SnapInv, Replace
  PROVE  SnapInv'
<1>1. PICK ds \in SUBSET Drafts, m \in MayMatch("admin") :
        checkAll(m) /\ \E st \in Replaces(mem, ds) : st # mem /\ Mutate(st, "admin", m)
  BY DEF Replace
<1>2. PICK st \in Replaces(mem, ds) : st # mem /\ Mutate(st, "admin", m)
  BY <1>1
<1>3. Rewrites(mem, st)
  BY <1>2, ReplaceRewrites DEF SnapInv, DirTypes, AllSane
<1>4. phase # "down" /\ ~writer.on /\ UNCHANGED <<file, phase, legacy, seen, book, task>>
  BY DEF Replace, Serving, appVars
<1> QED BY <1>1, <1>2, <1>3, <1>4, MatchRead, MutateKeeps

(* The contact a migration writes keeps the star of the one it replaces.   *)
LEMMA MigrationKeepsStars ==
  ASSUME mem \in Dirs, Sane(mem), NEW d \in Contact, d.uri # "none",
         d.star = favourite(d.uri), NEW st \in Upserts(mem, d, NoId)
  PROVE  ~Unstars(st)
<1> SUFFICES ASSUME NEW i \in Ids, NEW j \in Ids,
                    View(mem)[i].star, ~View(st)[j].star,
                    Matches(mem, View(mem)[i].uri) = {i}, View(mem)[i].uri = View(st)[j].uri
             PROVE  FALSE
  BY DEF Unstars
<1> DEFINE v == mem.version + 1
<1>1. PICK k \in Targets(mem, d.uri) : st = upsertLocked(mem, d, k, v)
  BY DEF Upserts
<1>2. st \in Dirs /\ v \in Nat /\ mem.contacts \in [Ids -> Entry] /\ k \in Ids
  BY <1>1, UpsertRewrites DEF Rewrites, Dirs, Targets, Matches, Fresh
<1>3. st.contacts[j] = IF j = k THEN Stored(d, v)
                       ELSE IF j \in Matches(mem, d.uri) THEN Tombstone(mem.contacts[j], v)
                       ELSE mem.contacts[j]
  <2>1. mem = [version |-> mem.version, contacts |-> mem.contacts]
    BY DEF Dirs
  <2> HIDE DEF v
  <2> QED BY <1>1, <2>1 DEF upsertLocked
<1>4. /\ View(mem)[i] = IF mem.contacts[i].del THEN NoContact ELSE mem.contacts[i].d
      /\ View(mem)[j] = IF mem.contacts[j].del THEN NoContact ELSE mem.contacts[j].d
      /\ View(st)[j] = IF st.contacts[j].del THEN NoContact ELSE st.contacts[j].d
  BY <1>2, ViewTyped
<1>5. ~NoContact.star /\ NoContact.uri = "none"
  BY DEF NoContact
<1>6. ~mem.contacts[i].del /\ View(mem)[i] = mem.contacts[i].d /\ mem.contacts[i].d.star
  BY <1>4, <1>5
<1>7. mem.contacts[i].d.uri # "none"
  BY <1>6 DEF Sane
<1>8. ~st.contacts[j].del /\ View(st)[j] = st.contacts[j].d
  BY <1>4, <1>5, <1>6, <1>7
<1>9. CASE j = k
  <2>1. st.contacts[j].d = d
    BY <1>2, <1>3, <1>9, StoredIs
  <2>2. d.uri = mem.contacts[i].d.uri /\ ~d.star
    BY <1>6, <1>8, <2>1
  <2>3. Matches(mem, d.uri) = {i}
    BY <1>6, <2>2
  <2>4. favourite(d.uri)
    BY <1>6, <2>3 DEF favourite
  <2> QED BY <2>2, <2>4
<1>10. CASE j # k
  <2>1. st.contacts[j] = mem.contacts[j]
    <3> HIDE DEF v
    <3> QED BY <1>2, <1>3, <1>8, <1>10, TombstoneOf
  <2>2. j \in Matches(mem, mem.contacts[i].d.uri)
    BY <1>6, <1>8, <2>1 DEF Matches, Live
  <2>3. j = i
    BY <1>6, <2>2
  <2> QED BY <1>6, <1>8, <2>1, <2>3
<1> QED BY <1>9, <1>10

(* So does the migration of the favourites kept on the phone records.      *)
LEMMA MigrateKeeps ==
  ASSUME SnapInv, Migrate
  PROVE  SnapInv'
<1>t. DirTypes /\ TwoSteps /\ AllSane
  BY DEF SnapInv
<1>1. phase = "migrate" /\ ~writer.on /\ legacy \in Nat \ {0}
      /\ UNCHANGED <<file, seen, book, task>>
  BY <1>t DEF Migrate, TwoSteps, DirTypes, appVars
<1>2. CASE legacy <= Len(Legacy)
  <2> DEFINE l == Legacy[legacy]
             d == [l EXCEPT !.star = favourite(l.uri)]
  <2>1. l \in Contact /\ l.uri # "none"
    BY <1>1, <1>2, DirAssumption
  <2>2. d \in Contact /\ d.uri = l.uri /\ d.star = favourite(l.uri)
    <3>1. favourite(l.uri) \in BOOLEAN
      BY DEF favourite
    <3> HIDE DEF l
    <3> QED BY <2>1, <3>1 DEF Contact
  <2>3. PICK st \in Upserts(mem, d, NoId) : Mutate(st, "server", FALSE)
    BY <1>2 DEF Migrate
  <2>4. UNCHANGED <<phase, legacy>>
    BY <1>2 DEF Migrate
  <2> HIDE DEF d, l
  <2>5. Rewrites(mem, st)
    BY <1>t, <2>1, <2>2, UpsertRewrites DEF AllSane, DirTypes
  <2>6. ~Unstars(st)
    BY <1>t, <2>1, <2>2, MigrationKeepsStars DEF AllSane, DirTypes
  <2> QED BY <1>1, <2>3, <2>4, <2>5, <2>6, MutateKeeps
<1>3. CASE ~(legacy <= Len(Legacy))
  <2>1. phase' = "serve" /\ legacy' = 0 /\ UNCHANGED <<mem, writer, hist, dirGhost, writes>>
    BY <1>3 DEF Migrate
  <2>2. DirTypes' /\ TwoSteps' /\ Dir' = Dir
    BY <1>t, <1>1, <2>1 DEF DirTypes, TwoSteps, Dir
  <2> QED BY <1>1, <2>1, <2>2, SnapFrame
<1> QED BY <1>2, <1>3

(* The invariant of the copies holds at first.                             *)
LEMMA SnapInit == DirInit => SnapInv
<1> SUFFICES ASSUME DirInit PROVE SnapInv
  OBVIOUS
<1>1. /\ mem = Empty /\ file \in Files /\ writer = NoWrite /\ phase = "down" /\ legacy \in {0, 1}
      /\ seen \in {NotSeen, NoReader} /\ book = [version |-> file.version, contacts |-> View(file)]
      /\ task = [t \in Tasks |-> NoTask] /\ writes = 0
      /\ hist = [v \in 0..MaxVersion |-> IF v = file.version THEN View(file) ELSE NoBook.contacts]
  BY DEF DirInit
<1>2. /\ dirGhost.back = {} /\ ~dirGhost.torn /\ ~dirGhost.blind /\ ~dirGhost.unstarred
      /\ dirGhost \in Ghosts
  BY DEF DirInit, Ghosts
<1>3. /\ file \in Dirs /\ Sane(file) /\ file.version + MaxWrites <= MaxVersion
      /\ MaxWrites \in Nat /\ MaxVersion \in Nat /\ file.version \in Nat
  BY <1>1, DirAssumption DEF Dirs
<1>4. /\ View(file) \in Views /\ book \in Books /\ book.version = file.version
      /\ book.contacts = View(file)
      /\ NoBook.contacts \in Views
  BY <1>1, <1>3, ViewTyped, EmptyDir DEF Books
<1>5. /\ NoWrite \in [on : BOOLEAN, backup : Dirs, by : {"none", "admin", "device", "server"}]
      /\ ~NoWrite.on
  BY EmptyDir DEF NoWrite
<1>6. seen \in [version : Int, view : Views] /\ seen.version \in {-1, -2}
  BY <1>1, <1>4 DEF NotSeen, NoReader, NoMatch
<1>7. \A t \in Tasks : task[t] = NoTask
  BY <1>1
<1>8. file.version \in 0..MaxVersion /\ 0 \in 0..MaxVersion
  BY <1>3
<1>9. hist \in [0..MaxVersion -> Views] /\ hist[file.version] = View(file)
  BY <1>1, <1>4, <1>8
<1>10. hist[0] = NoBook.contacts
  <2>1. CASE file.version # 0
    BY <1>1, <1>8, <2>1
  <2>2. CASE file.version = 0
    <3>1. ASSUME NEW i \in Ids PROVE View(file)[i] = NoContact
      <4>1. file.contacts[i].ver \in Nat /\ file.contacts[i].ver <= 0
        BY <1>3, <2>2 DEF Sane, Dirs, Entry
      <4>2. file.contacts[i].del
        BY <1>3, <4>1 DEF Sane
      <4> QED BY <1>3, <4>2, ViewTyped
    <3>2. View(file) = NoBook.contacts
      BY <3>1 DEF View, NoBook
    <3> QED BY <1>9, <2>2, <3>2
  <2> QED BY <2>1, <2>2
<1>11. DirTypes
  BY <1>1, <1>2, <1>3, <1>4, <1>5, <1>6, <1>9, EmptyDir DEF DirTypes
<1>12. TwoSteps
  BY <1>1, <1>5, <1>7 DEF TwoSteps
<1>13. Cursors \subseteq {0, file.version}
  BY <1>4, <1>7, EmptyDir DEF Cursors
<1>14. Bounded
  <2>1. /\ Empty.version = 0 /\ file.version <= MaxVersion
        /\ file.version + MaxWrites <= MaxVersion + 0 /\ 0 + MaxWrites <= MaxVersion + 0
        /\ seen.version <= MaxVersion /\ seen.version \in Int
    BY <1>3, <1>6, EmptyDir
  <2>2. writes = 0 /\ mem = Empty
    BY <1>1
  <2>3. \A v \in {mem.version, file.version} : v \in Nat /\ v + MaxWrites <= MaxVersion + writes
    BY <1>3, <2>1, <2>2
  <2>4. \A v \in {0, file.version, seen.version} : v \in Int /\ v <= MaxVersion
    BY <1>3, <2>1
  <2>5. writes <= MaxWrites
    BY <1>3, <2>2
  <2> QED BY <1>13, <2>3, <2>4, <2>5 DEF Bounded
<1>15. AllSane
  BY <1>1, <1>3, <1>7, EmptyDir DEF AllSane
<1>16. ReadOrBack
  <2>1. Dir = file /\ seen.version <= file.version
    BY <1>1, <1>3, <1>6 DEF Dir
  <2> QED BY <1>3, <1>13, <2>1 DEF ReadOrBack
<1>17. HistTrue /\ SeenTrue
  BY <1>1, <1>6, <1>9, <1>10, EmptyDir DEF HistTrue, SeenTrue
<1>18. CopiesTrue
  <2>1. SinceIn(hist, 0, Empty) /\ SinceIn(hist, file.version, Empty) /\ SinceIn(hist, 0, file)
    BY <1>3, <1>10, SinceEmpty, SinceZero
  <2>2. SinceIn(hist, file.version, file)
    BY <1>9 DEF SinceIn
  <2> QED BY <1>1, <1>4, <1>7, <1>9, <1>10, <1>13, <2>1, <2>2, EmptyDir DEF CopiesTrue
<1> QED BY <1>2, <1>11, <1>12, <1>14, <1>15, <1>16, <1>17, <1>18 DEF SnapInv, NothingOverwritten

(* Every step of the server, the link and the app keeps it.                *)
LEMMA SnapNext == SnapInv /\ [DirNext]_dirVars => SnapInv'
<1> SUFFICES ASSUME SnapInv, [DirNext]_dirVars PROVE SnapInv'
  OBVIOUS
<1>1. CASE DirNext
  <2>1. CASE attach \/ Version \/ SendWelcome \/ LinkDown
    <3>1. UNCHANGED <<serverVars, seen, appVars, hist, dirGhost, writes>>
      BY <2>1 DEF attach, Version, SendWelcome, LinkDown
    <3> QED BY <3>1, LinkKeeps
  <2> QED
    BY <1>1, <2>1, UpsertKeeps, DeleteKeeps, ReplaceKeeps, SeenKeeps, SavedKeeps, SaveFailsKeeps,
       PurgeKeeps, CrashKeeps, OpenKeeps, MigrateKeeps, HandleEventKeeps, ChangesKeeps, SyncKeeps,
       SyncFailsKeeps DEF DirNext
<1>2. CASE UNCHANGED dirVars
  BY <1>2, LinkKeeps DEF dirVars
<1> QED BY <1>1, <1>2

(* In every run, with crashes and failed saves: memory and file are one    *)
(* write apart, every version the phone holds has the contents that were   *)
(* written at that version, and what a directory says has not changed      *)
(* since is as it was.                                                     *)
THEOREM DirectorySnapInv == DirSpec => []SnapInv
BY SnapInit, SnapNext, PTL DEF DirSpec

(* The phone's book is what the directory held at the book's version, as   *)
(* long as no version the phone has read was given out a second time.      *)
THEOREM DirectoryBookIsSnapshot == DirSpec => []BookIsSnapshot
<1>1. SnapInv => BookIsSnapshot
  BY DEF SnapInv, BookIsSnapshot, CopiesTrue
<1> QED BY <1>1, DirectorySnapInv, PTL

(* No write goes over what its writer did not know, for every sequence of  *)
(* writes, failed saves, crashes and migrations begun again.               *)
THEOREM DirectoryNothingOverwritten == DirSpec => []NothingOverwritten
<1>1. SnapInv => NothingOverwritten
  BY DEF SnapInv
<1> QED BY <1>1, DirectorySnapInv, PTL

-----------------------------------------------------------------------------
(* The phone catches up.                                                   *)

(* The versions are numbers, and the file's is the smallest in force.      *)
LEMMA Versions ==
  ASSUME SnapInv
  PROVE  /\ mem.version \in Nat /\ file.version \in Nat /\ Dir.version \in Nat
         /\ file.version <= Dir.version /\ (phase # "down" => Dir = mem)
         /\ book.version \in Nat /\ dirGhost \in Ghosts /\ task \in [Tasks -> TaskState]
         /\ \A t \in Tasks : /\ task[t].got.version \in Nat /\ task[t].base.version \in Nat
                             /\ task[t].pc = "idle" => task[t].got.version = 0
<1>1. DirTypes /\ TwoSteps
  BY DEF SnapInv
<1>2. mem.version \in Nat /\ file.version \in Nat /\ book.version \in Nat
      /\ dirGhost \in Ghosts /\ task \in [Tasks -> TaskState]
  BY <1>1 DEF DirTypes, Dirs, Books
<1>3. \A t \in Tasks : task[t].got.version \in Nat /\ task[t].base.version \in Nat
  BY <1>1 DEF DirTypes, TaskState, Dirs, Books
<1>4. \A t \in Tasks : task[t].pc = "idle" => task[t].got.version = 0
  BY <1>1, EmptyDir DEF TwoSteps
<1>5. file.version <= Dir.version
  <2>1. CASE phase = "down"
    BY <1>2, <2>1 DEF Dir
  <2>2. CASE phase # "down" /\ writer.on
    BY <1>1, <1>2, <2>2 DEF Dir, TwoSteps
  <2>3. CASE phase # "down" /\ ~writer.on
    BY <1>1, <1>2, <2>3 DEF Dir, TwoSteps
  <2> QED BY <2>1, <2>2, <2>3
<1> QED BY <1>2, <1>3, <1>4, <1>5 DEF Dir

LateGhosts ==
  dirGhost'.early = dirGhost.early /\ dirGhost'.failed = dirGhost.failed
  /\ dirGhost'.undone = dirGhost.undone

(* Steps of the store that leave the file alone.                           *)
LEMMA StoreCatches ==
  ASSUME SnapInv, SnapInv', CaughtInv,
         UNCHANGED <<link, welcome, inbox, book, task, file>>, LateGhosts,
         ~dirGhost'.taken => ~dirGhost.taken /\ Dir.version <= Dir'.version
  PROVE  CaughtInv'
<1>1. LinkTypes /\ WelcomeRead /\ NotBehind /\ NotAhead
  BY DEF CaughtInv
<1>2. LinkTypes' /\ NotBehind'
  BY <1>1 DEF LinkTypes, NotBehind, LateGhosts, ToldOf
<1>3. Dir.version \in Nat /\ Dir'.version \in Nat /\ book.version \in Nat /\ welcome \in Nat
      /\ inbox \in Seq(Int)
      /\ \A t \in Tasks : task[t].got.version \in Nat
  BY <1>1, Versions DEF LinkTypes, Changed, SnapInv, DirTypes, Dir, Dirs
<1>4. \A n \in Int : ~dirGhost'.taken /\ n <= Dir.version => n <= Dir'.version
  BY <1>3
<1>5. \A k \in 1..Len(inbox) : inbox[k] \in Int
  BY <1>3
<1>6. WelcomeRead'
  BY <1>1, <1>3, <1>4 DEF WelcomeRead, LateGhosts
<1>7. NotAhead'
  <2> SUFFICES ASSUME ~dirGhost'.taken
               PROVE  /\ \A t \in Tasks : task[t].got.version <= Dir'.version
                      /\ \A k \in 1..Len(inbox) : inbox[k] <= Dir'.version
                      /\ link = "live" /\ ~dirGhost.failed =>
                           \/ book.version <= Dir'.version
                           \/ inbox # <<>>
                           \/ \E t \in Tasks : task[t].pc # "idle"
    BY DEF NotAhead, LateGhosts
  <2>1. /\ \A t \in Tasks : task[t].got.version <= Dir.version
        /\ \A k \in 1..Len(inbox) : inbox[k] <= Dir.version
        /\ link = "live" /\ ~dirGhost.failed =>
             \/ book.version <= Dir.version
             \/ inbox # <<>>
             \/ \E t \in Tasks : task[t].pc # "idle"
    BY <1>1 DEF NotAhead
  <2> QED BY <1>3, <1>4, <1>5, <2>1
<1> QED BY <1>2, <1>6, <1>7 DEF CaughtInv

(* The session is gone, and with it what it had told.                      *)
LEMMA HangupCatches ==
  ASSUME SnapInv, SnapInv', CaughtInv, Hangup, UNCHANGED <<book, task>>,
         ~dirGhost'.taken => \A t \in Tasks : task[t].got.version <= Dir'.version
  PROVE  CaughtInv'
<1>1. link' \in {"off", "down"} /\ welcome' = 0 /\ inbox' = <<>> /\ Len(inbox') = 0
  BY DEF Hangup, CaughtInv, LinkTypes
<1>2. LinkTypes'
  BY <1>1 DEF LinkTypes
<1>3. WelcomeRead' /\ NotBehind'
  BY <1>1 DEF WelcomeRead, NotBehind
<1>4. NotAhead'
  BY <1>1 DEF NotAhead
<1> QED BY <1>2, <1>3, <1>4 DEF CaughtInv

(* A write begun in memory leaves the file, and so the phone, where it     *)
(* was.                                                                    *)
LEMMA MutateCatches ==
  ASSUME SnapInv, SnapInv', CaughtInv, NEW st, Rewrites(mem, st), NEW by, NEW m,
         Mutate(st, by, m), phase # "down", UNCHANGED <<file, phase, link, welcome, inbox, book, task>>
  PROVE  CaughtInv'
<1>1. LateGhosts /\ dirGhost'.taken = dirGhost.taken
  BY Versions DEF Mutate, LateGhosts, Ghosts
<1>2. mem' = st /\ st.version = mem.version + 1 /\ mem.version \in Nat
  BY Versions DEF Mutate, Rewrites
<1>3. Dir.version <= Dir'.version
  BY <1>2 DEF Dir
<1> QED BY <1>1, <1>3, StoreCatches

(* So do an upsert, a deletion, a replacement and the migration.           *)
LEMMA WriteCatches ==
  ASSUME SnapInv, SnapInv', CaughtInv,
         (\E by \in {"admin", "device"} : Upsert(by) \/ Delete(by)) \/ Replace \/ Migrate
  PROVE  CaughtInv'
<1>t. mem \in Dirs /\ Sane(mem) /\ TwoSteps /\ DirTypes
  BY DEF SnapInv, DirTypes, AllSane
<1>1. CASE \E by \in {"admin", "device"} : Upsert(by)
  <2>1. PICK by \in {"admin", "device"} : Upsert(by)
    BY <1>1
  <2>2. PICK d \in Drafts, id \in Ids \cup {NoId}, m \in MayMatch(by) :
          \E st \in Upserts(mem, d, id) : Mutate(st, by, m)
    BY <2>1 DEF Upsert
  <2>3. PICK st \in Upserts(mem, d, id) : Mutate(st, by, m)
    BY <2>2
  <2>4. Rewrites(mem, st)
    BY <1>t, UpsertRewrites, DirAssumption
  <2> QED BY <2>1, <2>3, <2>4, MutateCatches DEF Upsert, Serving, linkVars, appVars
<1>2. CASE \E by \in {"admin", "device"} : Delete(by)
  <2>1. PICK by \in {"admin", "device"} : Delete(by)
    BY <1>2
  <2>2. PICK i \in Ids, m \in MayMatch(by) : Mutate(Removed(mem, i), by, m)
    BY <2>1 DEF Delete
  <2>3. Rewrites(mem, Removed(mem, i))
    BY <1>t, RemovedRewrites
  <2> QED BY <2>1, <2>2, <2>3, MutateCatches DEF Delete, Serving, linkVars, appVars
<1>3. CASE Replace
  <2>1. PICK ds \in SUBSET Drafts, m \in MayMatch("admin") :
          \E st \in Replaces(mem, ds) : st # mem /\ Mutate(st, "admin", m)
    BY <1>3 DEF Replace
  <2>2. PICK st \in Replaces(mem, ds) : st # mem /\ Mutate(st, "admin", m)
    BY <2>1
  <2>3. Rewrites(mem, st)
    BY <1>t, <2>2, ReplaceRewrites
  <2> QED BY <1>3, <2>2, <2>3, MutateCatches DEF Replace, Serving, linkVars, appVars
<1>4. CASE Migrate
  <2>1. phase = "migrate" /\ legacy \in Nat \ {0} /\ UNCHANGED <<file, link, welcome, inbox, book, task>>
    BY <1>4, <1>t DEF Migrate, TwoSteps, DirTypes, linkVars, appVars
  <2>2. CASE legacy <= Len(Legacy)
    <3> DEFINE l == Legacy[legacy]
               d == [l EXCEPT !.star = favourite(l.uri)]
    <3>1. l \in Contact /\ l.uri # "none"
      BY <2>1, <2>2, DirAssumption
    <3>2. d \in Contact /\ d.uri = l.uri
      <4>1. favourite(l.uri) \in BOOLEAN
        BY DEF favourite
      <4> HIDE DEF l
      <4> QED BY <3>1, <4>1 DEF Contact
    <3>3. (\E st \in Upserts(mem, d, NoId) : Mutate(st, "server", FALSE)) /\ UNCHANGED phase
      BY <1>4, <2>2 DEF Migrate
    <3> HIDE DEF d, l
    <3>4. PICK st \in Upserts(mem, d, NoId) : Mutate(st, "server", FALSE)
      BY <3>3
    <3>5. Rewrites(mem, st)
      BY <1>t, <3>1, <3>2, UpsertRewrites
    <3> QED BY <2>1, <3>3, <3>4, <3>5, MutateCatches
  <2>3. CASE ~(legacy <= Len(Legacy))
    <3>1. phase' = "serve" /\ UNCHANGED <<mem, dirGhost>>
      BY <1>4, <2>3 DEF Migrate
    <3>2. Dir' = Dir /\ Dir.version <= Dir.version
      BY <2>1, <3>1, Versions DEF Dir
    <3> QED BY <2>1, <3>1, <3>2, StoreCatches DEF LateGhosts
  <2> QED BY <2>2, <2>3
<1> QED BY <1>1, <1>2, <1>3, <1>4

(* A failed save, a purge, a crash and a lost link: the link is down, or   *)
(* what is taken back is noted.                                            *)
LEMMA FaultCatches ==
  ASSUME SnapInv, SnapInv', CaughtInv, SaveFails \/ Purge \/ Crash \/ LinkDown
  PROVE  CaughtInv'
<1>t. DirTypes /\ TwoSteps /\ dirGhost \in Ghosts /\ dirGhost.back \in SUBSET Int /\ mem.version \in Nat
  BY DEF SnapInv, DirTypes, Ghosts, Dirs
<1>1. CASE SaveFails
  <2>1. dirGhost'.taken /\ LateGhosts
    BY <1>1, <1>t DEF SaveFails, LateGhosts, Ghosts
  <2> QED BY <1>1, <2>1, StoreCatches DEF SaveFails, linkVars, appVars
<1>2. ASSUME NEW v \in Nat,
             dirGhost' = [dirGhost EXCEPT !.back = Back(v), !.taken = dirGhost.taken \/ ReadBeyond(v)],
             ~dirGhost'.taken
      PROVE  \A t \in Tasks : task[t].got.version <= v
  <2>1. (dirGhost.taken \/ ReadBeyond(v)) \in BOOLEAN
    BY Zenon
  <2>2. dirGhost'.taken = (dirGhost.taken \/ ReadBeyond(v))
    BY <1>t, <1>2, <2>1, TakenBack
  <2>3. ~ReadBeyond(v)
    BY <1>2, <2>2
  <2> SUFFICES ASSUME NEW t \in Tasks PROVE task[t].got.version <= v
    OBVIOUS
  <2>4. task[t].got.version \in Nat /\ (task[t].pc = "idle" => task[t].got.version = 0)
    BY Versions
  <2>5. task[t].pc # "idle" => ~(task[t].got.version > v)
    BY <2>3 DEF ReadBeyond
  <2> QED BY <2>4, <2>5
<1>3. CASE Purge
  <2>1. Hangup /\ UNCHANGED <<book, task>> /\ phase' = "serve" /\ mem' = Empty
    BY <1>3 DEF Purge, appVars, Serving
  <2>2. Dir'.version = 0
    BY <2>1, EmptyDir DEF Dir
  <2>3. dirGhost' = [dirGhost EXCEPT !.back = Back(0), !.taken = dirGhost.taken \/ ReadBeyond(0)]
    BY <1>3 DEF Purge
  <2>4. ~dirGhost'.taken => \A t \in Tasks : task[t].got.version <= 0
    BY <1>2, <2>3
  <2> QED BY <2>1, <2>2, <2>4, HangupCatches
<1>4. CASE Crash
  <2>1. Hangup /\ UNCHANGED <<book, task>> /\ phase' = "down"
    BY <1>4 DEF Crash, appVars
  <2>2. Dir' = file' /\ file'.version \in Nat
    BY <2>1 DEF Dir, SnapInv, DirTypes, Dirs
  <2>3. dirGhost' = [dirGhost EXCEPT !.back = Back(file'.version),
                                     !.taken = dirGhost.taken \/ ReadBeyond(file'.version)]
    BY <1>4 DEF Crash
  <2> QED BY <1>2, <2>1, <2>2, <2>3, HangupCatches
<1>5. CASE LinkDown
  <2>1. Hangup /\ UNCHANGED <<book, task, dirGhost, mem, file, phase>>
    BY <1>5 DEF LinkDown, appVars, serverVars
  <2> QED BY <2>1, HangupCatches DEF CaughtInv, NotAhead, Dir
<1> QED BY <1>1, <1>3, <1>4, <1>5

(* Steps that touch neither the link nor the versions.                     *)
LEMMA QuietCatches ==
  ASSUME SnapInv, SnapInv', CaughtInv, Open \/ PreconditionFailed \/ Contacts \/ UNCHANGED dirVars
  PROVE  CaughtInv'
<1>1. UNCHANGED <<link, welcome, inbox, book, task, file, dirGhost>>
  BY DEF Open, PreconditionFailed, Contacts, dirVars, serverVars, linkVars, appVars
<1>2. Dir' = Dir
  <2>1. CASE Open
    BY <2>1 DEF Open, Dir
  <2>2. CASE PreconditionFailed \/ Contacts \/ UNCHANGED dirVars
    BY <2>2 DEF PreconditionFailed, Contacts, dirVars, serverVars, Dir
  <2> QED BY <2>1, <2>2
<1> QED BY <1>1, <1>2, Versions, StoreCatches DEF LateGhosts

(* attach, Version and SendWelcome: the welcome is read after the session  *)
(* can be told of a change.                                                *)
LEMMA LinkCatches ==
  ASSUME SnapInv, SnapInv', CaughtInv, attach \/ Version \/ SendWelcome
  PROVE  CaughtInv'
<1>t. LinkTypes /\ WelcomeRead /\ NotBehind /\ NotAhead
  BY DEF CaughtInv
<1>u. UNCHANGED <<mem, file, phase, book, task, dirGhost>> /\ Dir' = Dir
  BY DEF attach, Version, SendWelcome, serverVars, appVars, Dir
<1>v. mem.version \in Nat /\ file.version \in Nat /\ file.version <= Dir.version /\ Dir.version \in Nat
  BY Versions
<1>1. CASE attach
  <2>1. link' = "attached" /\ UNCHANGED <<welcome, inbox>>
    BY <1>1 DEF attach
  <2> QED BY <1>t, <1>u, <2>1 DEF CaughtInv, LinkTypes, WelcomeRead, NotBehind, NotAhead
<1>2. CASE Version
  <2>1. link' = "reading" /\ welcome' = mem.version /\ UNCHANGED inbox /\ Dir = mem
    BY <1>2, Versions DEF Version
  <2>2. WelcomeRead'
    BY <1>u, <1>v, <2>1 DEF WelcomeRead
  <2>3. LinkTypes' /\ NotBehind' /\ NotAhead'
    BY <1>t, <1>u, <1>v, <2>1 DEF LinkTypes, NotBehind, NotAhead
  <2> QED BY <2>2, <2>3 DEF CaughtInv
<1>3. CASE SendWelcome
  <2>1. link = "reading" /\ link' = "live" /\ welcome' = 0 /\ inbox' = <<welcome>>
    BY <1>3 DEF SendWelcome
  <2>2. welcome \in Nat /\ Len(inbox') = 1 /\ inbox'[1] = welcome /\ inbox' # <<>>
    BY <1>t, <2>1 DEF LinkTypes
  <2>3. LinkTypes' /\ WelcomeRead'
    BY <2>1, <2>2 DEF LinkTypes, WelcomeRead
  <2>4. NotBehind'
    <3>1. ~dirGhost.early => welcome >= file.version
      BY <1>t, <2>1 DEF WelcomeRead
    <3>2. ~dirGhost.early => \E k \in 1..Len(inbox') : inbox'[k] = Changed \/ inbox'[k] >= file.version
      BY <2>2, <3>1
    <3> QED BY <1>u, <3>2 DEF NotBehind, ToldOf
  <2>5. NotAhead'
    <3>1. ~dirGhost.taken => welcome <= Dir.version
      BY <1>t, <2>1 DEF WelcomeRead
    <3>2. ~dirGhost.taken => \A k \in 1..Len(inbox') : inbox'[k] <= Dir.version
      BY <2>2, <3>1
    <3> QED BY <1>t, <1>u, <2>2, <3>2 DEF NotAhead
  <2> QED BY <2>3, <2>4, <2>5 DEF CaughtInv
<1> QED BY <1>1, <1>2, <1>3

(* A write that reached the file is told to the phone that is attached.    *)
LEMMA SavedCatches ==
  ASSUME SnapInv, SnapInv', CaughtInv, Saved
  PROVE  CaughtInv'
<1>t. LinkTypes /\ WelcomeRead /\ NotBehind /\ NotAhead
  BY DEF CaughtInv
<1>1. /\ UNCHANGED <<mem, phase, link, welcome, book>>
      /\ inbox' = IF link = "live" THEN Append(inbox, Changed) ELSE inbox
      /\ task' = task \/ task' = [task EXCEPT !["user"] = AskFrom(book)]
      /\ dirGhost' = [dirGhost EXCEPT !.early = dirGhost.early \/ link = "reading"]
      /\ writer.on
  BY DEF Saved, AskFrom
<1>2. /\ dirGhost'.early = (dirGhost.early \/ link = "reading")
      /\ dirGhost'.failed = dirGhost.failed /\ dirGhost'.undone = dirGhost.undone
      /\ dirGhost'.taken = dirGhost.taken
  <2>1. dirGhost \in Ghosts
    BY Versions
  <2> QED BY <1>1, <2>1 DEF Ghosts
<1>3. Dir' = Dir /\ Dir.version \in Nat
  BY <1>1, Versions DEF Dir, SnapInv, TwoSteps
<1>4. inbox \in Seq(Nat \cup {Changed}) /\ Changed = -1
  BY <1>t DEF LinkTypes, Changed
<1>5. LinkTypes'
  BY <1>t, <1>1, <1>4 DEF LinkTypes
<1>6. WelcomeRead'
  BY <1>t, <1>1, <1>2, <1>3 DEF WelcomeRead
<1>7. NotBehind'
  <2>1. CASE link = "live"
    <3>1. inbox' = Append(inbox, Changed)
      BY <1>1, <2>1
    <3>2. Len(inbox') = Len(inbox) + 1 /\ inbox'[Len(inbox) + 1] = Changed /\ Len(inbox) \in Nat
      BY <1>4, <3>1
    <3>3. Len(inbox) + 1 \in 1..Len(inbox')
      BY <3>2
    <3> QED BY <3>2, <3>3 DEF NotBehind, ToldOf
  <2>2. CASE link # "live"
    BY <1>1, <2>2 DEF NotBehind
  <2> QED BY <2>1, <2>2
<1>8. NotAhead'
  <2> SUFFICES ASSUME ~dirGhost.taken
               PROVE  /\ \A t \in Tasks : task'[t].got.version <= Dir.version
                      /\ \A k \in 1..Len(inbox') : inbox'[k] <= Dir.version
                      /\ link = "live" => inbox' # <<>>
    BY <1>1, <1>2, <1>3 DEF NotAhead
  <2>1. /\ \A t \in Tasks : task[t].got.version <= Dir.version
        /\ \A k \in 1..Len(inbox) : inbox[k] <= Dir.version
    BY <1>t DEF NotAhead
  <2>2. ASSUME NEW t \in Tasks PROVE task'[t].got.version <= Dir.version
    <3>1. book \in Books /\ task \in [Tasks -> TaskState]
      BY DEF SnapInv, DirTypes
    <3>2. task'[t] = task[t] \/ task'[t] = AskFrom(book)
      BY <1>1, <3>1
    <3>3. AskFrom(book).got.version = 0
      BY <3>1, AskTyped, EmptyDir
    <3> QED BY <1>3, <2>1, <3>2, <3>3
  <2>3. CASE link = "live"
    <3>1. inbox' = Append(inbox, Changed)
      BY <1>1, <2>3
    <3>2. Len(inbox') = Len(inbox) + 1 /\ inbox'[Len(inbox) + 1] = Changed /\ Len(inbox) \in Nat
          /\ \A k \in 1..Len(inbox) : inbox'[k] = inbox[k]
      BY <1>4, <3>1
    <3>3. ASSUME NEW k \in 1..Len(inbox') PROVE inbox'[k] <= Dir.version
      <4>1. CASE k \in 1..Len(inbox)
        BY <2>1, <3>2, <4>1
      <4>2. CASE k = Len(inbox) + 1
        BY <1>3, <1>4, <3>2, <4>2
      <4> QED BY <3>2, <4>1, <4>2
    <3>4. inbox' # <<>>
      BY <3>2
    <3> QED BY <2>2, <3>3, <3>4
  <2>4. CASE link # "live"
    BY <1>1, <2>1, <2>2, <2>4
  <2> QED BY <2>3, <2>4
<1> QED BY <1>5, <1>6, <1>7, <1>8 DEF CaughtInv

(* The app asks when it is told of a version it does not have.             *)
LEMMA HandleCatches ==
  ASSUME SnapInv, SnapInv', CaughtInv, HandleEvent
  PROVE  CaughtInv'
<1>t. LinkTypes /\ WelcomeRead /\ NotBehind /\ NotAhead
  BY DEF CaughtInv
<1>1. /\ UNCHANGED <<mem, file, phase, link, welcome, book, dirGhost>> /\ Dir' = Dir
      /\ inbox # <<>> /\ inbox' = Tail(inbox)
      /\ task' = IF Stale(Head(inbox)) THEN [task EXCEPT !["events"] = AskFrom(book)] ELSE task
  BY DEF HandleEvent, serverVars, Dir, AskFrom
<1>v. Dir.version \in Nat /\ book.version \in Nat /\ task \in [Tasks -> TaskState] /\ book \in Books
  BY Versions DEF SnapInv, DirTypes
<1>2. /\ inbox \in Seq(Nat \cup {Changed}) /\ Changed = -1
  BY <1>t DEF LinkTypes, Changed
<1>3. /\ Len(inbox) \in Nat \ {0} /\ Len(inbox') = Len(inbox) - 1 /\ Head(inbox) = inbox[1]
      /\ \A k \in 1..Len(inbox') : inbox'[k] = inbox[k + 1]
      /\ inbox' \in Seq(Nat \cup {Changed}) /\ inbox[1] \in Nat \cup {Changed}
  BY <1>1, <1>2
<1>4. LinkTypes' /\ WelcomeRead'
  BY <1>t, <1>1, <1>3 DEF LinkTypes, WelcomeRead
<1>5. CASE Stale(Head(inbox))
  <2>1. /\ task'["events"] = AskFrom(book) /\ "events" \in Tasks
        /\ \A t \in Tasks \ {"events"} : task'[t] = task[t]
    BY <1>1, <1>5, <1>v DEF Tasks
  <2>2. task'["events"].pc = "ask" /\ task'["events"].got.version = 0
    BY <1>v, <2>1, AskTyped, EmptyDir
  <2>3. NotBehind'
    BY <2>1, <2>2 DEF NotBehind
  <2>4. NotAhead'
    <3>1. ~dirGhost.taken => \A k \in 1..Len(inbox') : inbox'[k] <= Dir.version
      <4> SUFFICES ASSUME ~dirGhost.taken, NEW k \in 1..Len(inbox') PROVE inbox'[k] <= Dir.version
        OBVIOUS
      <4>1. k + 1 \in 1..Len(inbox)
        BY <1>3
      <4> QED BY <1>t, <1>3, <4>1 DEF NotAhead
    <3>2. ~dirGhost.taken => \A t \in Tasks : task'[t].got.version <= Dir.version
      BY <1>t, <1>v, <2>1, <2>2 DEF NotAhead
    <3> QED BY <1>1, <2>1, <2>2, <3>1, <3>2 DEF NotAhead
  <2> QED BY <1>4, <2>3, <2>4 DEF CaughtInv
<1>6. CASE ~Stale(Head(inbox))
  <2>1. inbox[1] # Changed /\ inbox[1] = book.version /\ task' = task
    BY <1>1, <1>3, <1>6 DEF Stale
  <2>2. NotBehind'
    <3> SUFFICES ASSUME link = "live", ~dirGhost.failed, ~dirGhost.undone, ~dirGhost.early,
                        ~(book.version >= file.version),
                        \A t \in Tasks : ~(\/ task[t].pc = "ask"
                                           \/ task[t].pc = "answer" /\ task[t].got.version >= file.version)
                 PROVE  \E k \in 1..Len(inbox') : inbox'[k] = Changed \/ inbox'[k] >= file.version
      BY <1>1, <2>1 DEF NotBehind, ToldOf
    <3>1. PICK k \in 1..Len(inbox) : inbox[k] = Changed \/ inbox[k] >= file.version
      BY <1>t DEF NotBehind, ToldOf
    <3>2. k # 1
      BY <2>1, <3>1
    <3>3. k - 1 \in 1..Len(inbox')
      BY <1>3, <3>2
    <3>4. inbox'[k - 1] = inbox[(k - 1) + 1] /\ (k - 1) + 1 = k
      BY <1>3, <3>3
    <3> QED BY <3>1, <3>3, <3>4
  <2>3. NotAhead'
    <3>1. ~dirGhost.taken => \A k \in 1..Len(inbox') : inbox'[k] <= Dir.version
      <4> SUFFICES ASSUME ~dirGhost.taken, NEW k \in 1..Len(inbox') PROVE inbox'[k] <= Dir.version
        OBVIOUS
      <4>1. k + 1 \in 1..Len(inbox)
        BY <1>3
      <4> QED BY <1>t, <1>3, <4>1 DEF NotAhead
    <3>2. ~dirGhost.taken => book.version <= Dir.version
      <4>1. 1 \in 1..Len(inbox)
        BY <1>3
      <4> QED BY <1>t, <2>1, <4>1 DEF NotAhead
    <3> QED BY <1>t, <1>1, <2>1, <3>1, <3>2 DEF NotAhead
  <2> QED BY <1>4, <2>2, <2>3 DEF CaughtInv
<1> QED BY <1>5, <1>6

(* A sync ends with the version it was told of, or asks again.             *)
LEMMA SyncCatches ==
  ASSUME SnapInv, SnapInv', CaughtInv, NEW t \in Tasks, Changes(t) \/ sync(t) \/ SyncFails(t)
  PROVE  CaughtInv'
<1>t. LinkTypes /\ WelcomeRead /\ NotBehind /\ NotAhead
  BY DEF CaughtInv
<1>1. UNCHANGED <<mem, file, phase, link, welcome, inbox>> /\ Dir' = Dir
  BY DEF Changes, sync, SyncFails, serverVars, linkVars, Dir
<1>v. /\ Dir.version \in Nat /\ file.version \in Nat /\ book.version \in Nat
      /\ file.version <= Dir.version /\ (phase # "down" => Dir = mem)
      /\ task \in [Tasks -> TaskState] /\ dirGhost \in Ghosts
      /\ \A u \in Tasks : task[u].got.version \in Nat /\ task[u].base.version \in Nat
  BY Versions
<1>2. CASE Changes(t)
  <2> DEFINE r == [task[t] EXCEPT !.pc = "answer", !.got = mem]
  <2>1. r.pc = "answer" /\ r.got = mem
    BY <1>v DEF TaskState
  <2>2. task' = [task EXCEPT ![t] = r] /\ UNCHANGED <<book, dirGhost>> /\ Dir = mem
    BY <1>2, <1>v DEF Changes
  <2> HIDE DEF r
  <2>3. task'[t] = r /\ \A u \in Tasks \ {t} : task'[u] = task[u]
    BY <1>v, <2>2
  <2>4. WelcomeRead' /\ LinkTypes'
    BY <1>t, <1>1, <2>2 DEF WelcomeRead, LinkTypes
  <2>5. NotBehind'
    BY <1>1, <1>v, <2>1, <2>2, <2>3 DEF NotBehind
  <2>6. NotAhead'
    <3>1. ~dirGhost.taken => \A u \in Tasks : task'[u].got.version <= Dir.version
      BY <1>t, <1>v, <2>1, <2>2, <2>3 DEF NotAhead
    <3>2. task'[t].pc # "idle"
      BY <2>1, <2>3
    <3> QED BY <1>t, <1>1, <2>2, <3>1, <3>2 DEF NotAhead
  <2> QED BY <2>4, <2>5, <2>6 DEF CaughtInv
<1>3. CASE SyncFails(t)
  <2>1. task' = [task EXCEPT ![t] = NoTask] /\ UNCHANGED book
        /\ dirGhost' = [dirGhost EXCEPT !.failed = TRUE]
    BY <1>3 DEF SyncFails
  <2>2. dirGhost'.failed /\ dirGhost'.taken = dirGhost.taken /\ dirGhost'.early = dirGhost.early
    BY <1>v, <2>1 DEF Ghosts
  <2>3. \A u \in Tasks : task'[u] = task[u] \/ task'[u].got.version = 0
    BY <1>v, <2>1, EmptyDir
  <2>4. WelcomeRead' /\ LinkTypes' /\ NotBehind'
    BY <1>t, <1>1, <2>2 DEF WelcomeRead, LinkTypes, NotBehind
  <2>5. NotAhead'
    <3>1. ~dirGhost.taken => \A u \in Tasks : task'[u].got.version <= Dir.version
      BY <1>t, <1>v, <2>3 DEF NotAhead
    <3> QED BY <1>t, <1>1, <2>2, <3>1 DEF NotAhead
  <2> QED BY <2>4, <2>5 DEF CaughtInv
<1>4. CASE sync(t) /\ task[t].got.version < task[t].base.version
  <2>1. task' = [task EXCEPT ![t] = AskFrom(NoBook)] /\ UNCHANGED <<book, dirGhost>>
    BY <1>4 DEF sync, AskFrom
  <2>2. /\ task'[t].pc = "ask" /\ task'[t].got.version = 0
        /\ \A u \in Tasks \ {t} : task'[u] = task[u]
    BY <1>v, <2>1, AskTyped, EmptyDir
  <2>3. WelcomeRead' /\ LinkTypes' /\ NotBehind'
    BY <1>t, <1>1, <2>1, <2>2 DEF WelcomeRead, LinkTypes, NotBehind
  <2>4. NotAhead'
    <3>1. ~dirGhost.taken => \A u \in Tasks : task'[u].got.version <= Dir.version
      BY <1>t, <1>v, <2>2 DEF NotAhead
    <3> QED BY <1>t, <1>1, <2>1, <2>2, <3>1 DEF NotAhead
  <2> QED BY <2>3, <2>4 DEF CaughtInv
<1>5. CASE sync(t) /\ ~(task[t].got.version < task[t].base.version)
  <2> DEFINE n == task[t].got.version
  <2>1. /\ task' = [task EXCEPT ![t] = NoTask] /\ book' = apply(task[t].base, task[t].got)
        /\ dirGhost' = [dirGhost EXCEPT !.undone = dirGhost.undone \/ n < book.version]
        /\ task[t].pc = "answer"
    BY <1>5 DEF sync
  <2>2. book'.version = n
    <3>1. book'.version = IF n > task[t].base.version THEN n ELSE task[t].base.version
      BY <2>1 DEF apply
    <3>2. n \in Nat /\ task[t].base.version \in Nat /\ ~(n < task[t].base.version)
      BY <1>5, <1>v
    <3> HIDE DEF n
    <3> QED BY <3>1, <3>2
  <2>3. /\ dirGhost'.undone = (dirGhost.undone \/ n < book.version)
        /\ dirGhost'.taken = dirGhost.taken /\ dirGhost'.early = dirGhost.early
        /\ dirGhost'.failed = dirGhost.failed
    BY <1>v, <2>1 DEF Ghosts
  <2>4. task'[t].got.version = 0 /\ \A u \in Tasks \ {t} : task'[u] = task[u]
    BY <1>v, <2>1, EmptyDir
  <2>n. n \in Nat
    BY <1>v
  <2>5. WelcomeRead' /\ LinkTypes'
    BY <1>t, <1>1, <2>3 DEF WelcomeRead, LinkTypes
  <2>6. NotBehind'
    <3> SUFFICES ASSUME link = "live", ~dirGhost.failed, ~dirGhost'.undone, ~dirGhost.early,
                        ~(n >= file.version), ~ToldOf(file.version)
                 PROVE  \E u \in Tasks : \/ task'[u].pc = "ask"
                                         \/ task'[u].pc = "answer" /\ task'[u].got.version >= file.version
      BY <1>1, <2>2, <2>3 DEF NotBehind, ToldOf
    <3>1. ~dirGhost.undone /\ ~(n < book.version)
      BY <2>3
    <3>2. ~(book.version >= file.version)
      BY <1>v, <2>n, <3>1
    <3>3. PICK u \in Tasks : \/ task[u].pc = "ask"
                             \/ task[u].pc = "answer" /\ task[u].got.version >= file.version
      BY <1>t, <3>1, <3>2 DEF NotBehind
    <3>4. u # t
      BY <2>1, <3>3
    <3> QED BY <2>4, <3>3, <3>4
  <2>7. NotAhead'
    <3>1. ~dirGhost.taken => n <= Dir.version
      BY <1>t DEF NotAhead
    <3>2. ~dirGhost.taken => \A u \in Tasks : task'[u].got.version <= Dir.version
      BY <1>t, <1>v, <2>4 DEF NotAhead
    <3> HIDE DEF n
    <3> QED BY <1>t, <1>1, <2>2, <2>3, <3>1, <3>2 DEF NotAhead
  <2> QED BY <2>5, <2>6, <2>7 DEF CaughtInv
<1> QED BY <1>2, <1>3, <1>4, <1>5

(* The phone is off at first.                                              *)
LEMMA CaughtInit == DirInit => CaughtInv
<1> SUFFICES ASSUME DirInit PROVE CaughtInv
  OBVIOUS
<1>1. /\ link \in {"off", "down"} /\ welcome = 0 /\ inbox = <<>> /\ Len(inbox) = 0
      /\ \A t \in Tasks : task[t] = NoTask
  BY DEF DirInit
<1>2. Dir.version \in Nat /\ \A t \in Tasks : task[t].got.version = 0
  BY <1>1, SnapInit, Versions, EmptyDir
<1> QED BY <1>1, <1>2 DEF CaughtInv, LinkTypes, WelcomeRead, NotBehind, NotAhead

(* In every run a phone with a session that is behind the file has an      *)
(* event, a question or an answer to learn it from, unless a step failed   *)
(* on it.                                                                  *)
THEOREM DirectoryCaughtInv == DirSpec => []CaughtInv
<1>1. SnapInv /\ SnapInv' /\ CaughtInv /\ [DirNext]_dirVars => CaughtInv'
  BY QuietCatches, LinkCatches, SavedCatches, HandleCatches, SyncCatches, WriteCatches, FaultCatches
     DEF DirNext
<1> QED BY <1>1, CaughtInit, DirectorySnapInv, PTL DEF DirSpec

(* A phone with nothing under way has what the directory has.              *)
THEOREM DirectoryBookCaughtUp == DirSpec => []BookCaughtUp
<1>1. SnapInv /\ CaughtInv => BookCaughtUp
  <2> SUFFICES ASSUME SnapInv, CaughtInv, Quiet, Untroubled, ~dirGhost.early
               PROVE  /\ book.version >= mem.version
                      /\ ~dirGhost.taken => book.version = mem.version
    BY DEF BookCaughtUp
  <2>1. /\ link = "live" /\ inbox = <<>> /\ Len(inbox) = 0 /\ mem = file /\ Dir = mem
        /\ \A t \in Tasks : task[t].pc = "idle"
        /\ ~dirGhost.failed /\ ~dirGhost.undone
    BY DEF Quiet, Untroubled, SnapInv, TwoSteps, Dir
  <2>2. book.version >= mem.version
    BY <2>1 DEF CaughtInv, NotBehind, ToldOf
  <2>3. ~dirGhost.taken => book.version <= mem.version
    BY <2>1 DEF CaughtInv, NotAhead
  <2> QED BY <2>2, <2>3, Versions
<1> QED BY <1>1, DirectorySnapInv, DirectoryCaughtInv, PTL

-----------------------------------------------------------------------------
(* The admin API's front door.                                             *)

Bucket == [tokens : 0..PerCap, last : Nat]

(* What a bucket holds at time t.                                          *)
Level(b, t) ==
  IF t > b.last
  THEN IF PerCap <= b.tokens + PerRate * (t - b.last) THEN PerCap
       ELSE b.tokens + PerRate * (t - b.last)
  ELSE b.tokens

Stages == {"outside", "accepted", "allowed", "queued", "running", "answered", "closed"}

DoorTypes ==
  /\ time \in Nat
  /\ DOMAIN bucket \subseteq Sources /\ bucket \in [DOMAIN bucket -> Bucket]
  /\ \A s \in DOMAIN bucket : bucket[s].last <= time
  /\ ideal \in [Sources -> Bucket] /\ \A s \in Sources : ideal[s].last <= time
  /\ visit \in [Visits -> [pc : Stages, src : Sources \cup {"none"}]]
  /\ \A r \in Visits : visit[r].pc = "accepted" => visit[r].src \in Sources
  /\ connSlots \in Nat /\ handlers \in Nat
  /\ attempts \in [Sources -> SUBSET Nat] /\ claimed \in [Sources -> Seq(Nat)]

(* No source has more than it would have, were no bucket ever swept.       *)
NoneGained ==
  \A s \in Sources : (IF s \in DOMAIN bucket THEN Level(bucket[s], time) ELSE PerCap)
                       <= Level(ideal[s], time)

(* The claim limiter remembers every claim the window still holds, and the *)
(* claims are in the order of their times.                                 *)
ClaimsRemembered ==
  \A s \in Sources :
    /\ attempts[s] \subseteq 1..Len(claimed[s])
    /\ \A i \in 1..Len(claimed[s]) : /\ claimed[s][i] <= time
                                     /\ time - claimed[s][i] < ClaimWindow => i \in attempts[s]
    /\ \A i, j \in 1..Len(claimed[s]) : i <= j => claimed[s][i] <= claimed[s][j]

WindowKept ==
  \A s \in Sources : \A i, j \in 1..Len(claimed[s]) :
    i <= j /\ claimed[s][j] - claimed[s][i] < ClaimWindow => j - i + 1 <= ClaimLimit

DoorInv == DoorTypes /\ NoneGained /\ ClaimsRemembered /\ WindowKept /\ SlotsReturned

-----------------------------------------------------------------------------
(* Buckets.                                                                *)

(* What the constants are.                                                 *)
LEMMA DoorConstants ==
  /\ {MaxConnections, MaxInflight, PerRate, PerCap, IdleTicks, ClaimLimit, ClaimWindow} \subseteq Nat
  /\ PerRate \in Nat /\ PerCap \in Nat /\ IdleTicks \in Nat
  /\ PerRate * IdleTicks \in Nat /\ PerRate * IdleTicks >= PerCap
BY DoorAssumption

(* The smaller of two numbers.                                             *)
LEMMA MinOfTwo ==
  ASSUME NEW a \in Int, NEW b \in Int
  PROVE  Min({a, b}) = IF a <= b THEN a ELSE b
<1> DEFINE P(x) == x \in {a, b} /\ \A y \in {a, b} : x <= y
<1>1. P(IF a <= b THEN a ELSE b)
  OBVIOUS
<1>2. \A x : P(x) => x = IF a <= b THEN a ELSE b
  OBVIOUS
<1>3. Min({a, b}) = CHOOSE x : P(x)
  BY DEF Min
<1>4. P(CHOOSE x : P(x))
  BY <1>1
<1> QED BY <1>2, <1>3, <1>4

(* What refill computes.                                                   *)
LEMMA RefillFacts ==
  ASSUME time \in Nat, NEW b \in Bucket
  PROVE  /\ refill(b, PerRate, PerCap) = [tokens |-> Level(b, time), last |-> time]
         /\ Level(b, time) \in 0..PerCap
<1>1. b.tokens \in 0..PerCap /\ b.last \in Nat /\ PerCap \in Nat /\ PerRate \in Nat
  BY DoorConstants DEF Bucket
<1>2. PerRate * (time - b.last) \in Int /\ (time > b.last => PerRate * (time - b.last) \in Nat)
  BY <1>1
<1> DEFINE x == b.tokens + PerRate * (time - b.last)
<1>3. x \in Int /\ (time > b.last => x \in Nat)
  BY <1>1, <1>2
<1> HIDE DEF x
<1>4. Min({PerCap, x}) = IF PerCap <= x THEN PerCap ELSE x
  BY <1>1, <1>3, MinOfTwo
<1>5. Level(b, time) = IF time > b.last THEN Min({PerCap, x}) ELSE b.tokens
  BY <1>4 DEF Level, x
<1>6. Level(b, time) \in 0..PerCap
  BY <1>1, <1>3, <1>4, <1>5
<1> QED BY <1>5, <1>6 DEF refill, x

(* In a tick a bucket gains its rate, up to its capacity.                  *)
LEMMA LevelTicks ==
  ASSUME NEW t \in Nat, NEW b \in Bucket, b.last <= t
  PROVE  /\ Level(b, t) \in 0..PerCap
         /\ Level(b, t + 1) = IF PerCap <= Level(b, t) + PerRate THEN PerCap ELSE Level(b, t) + PerRate
<1>1. b.tokens \in 0..PerCap /\ b.last \in Nat /\ PerCap \in Nat /\ PerRate \in Nat
  BY DoorConstants DEF Bucket
<1>2. PICK d \in Nat : d = t - b.last
  BY <1>1
<1>3. /\ PerRate * d \in Nat /\ PerRate * (t - b.last) = PerRate * d
      /\ PerRate * (t + 1 - b.last) = PerRate * d + PerRate
  <2>1. t + 1 - b.last = d + 1
    BY <1>1, <1>2
  <2>2. PerRate * (d + 1) = PerRate * d + PerRate /\ PerRate * d \in Nat
    BY <1>1
  <2> QED BY <1>2, <2>1, <2>2
<1>4. CASE d = 0
  <2>1. t = b.last /\ t + 1 > b.last
    BY <1>1, <1>2, <1>4
  <2>2. PerRate * (t + 1 - b.last) = PerRate
    BY <1>1, <1>3, <1>4
  <2>3. Level(b, t) = b.tokens
    BY <1>1, <2>1 DEF Level
  <2> QED BY <1>1, <2>1, <2>2, <2>3 DEF Level
<1>5. CASE d # 0
  <2>1. t > b.last
    BY <1>1, <1>2, <1>5
  <2> QED BY <1>1, <1>3, <2>1 DEF Level
<1> QED BY <1>4, <1>5

(* A bucket idle for longer than the sweep allows is full.                 *)
LEMMA IdleIsFull ==
  ASSUME NEW t \in Nat, NEW b \in Bucket, t - b.last > IdleTicks
  PROVE  Level(b, t) = PerCap
<1>1. b.tokens \in 0..PerCap /\ b.last \in Nat /\ PerCap \in Nat /\ PerRate \in Nat /\ IdleTicks \in Nat
  BY DoorConstants DEF Bucket
<1>2. PICK k \in Nat : t - b.last = IdleTicks + k
  BY <1>1
<1>3. PerRate * (IdleTicks + k) = PerRate * IdleTicks + PerRate * k /\ PerRate * k \in Nat
  BY <1>1
<1>4. PerRate * (t - b.last) >= PerCap /\ PerRate * (t - b.last) \in Nat
  BY <1>1, <1>2, <1>3, DoorConstants
<1> QED BY <1>1, <1>4 DEF Level

-----------------------------------------------------------------------------
(* Steps.                                                                  *)

(* Time passing keeps the invariant: both buckets of a source gain alike.  *)
LEMMA TicksKeeps ==
  ASSUME DoorInv, Ticks
  PROVE  DoorInv'
<1>1. /\ time' = time + 1 /\ time \in Nat
      /\ UNCHANGED <<bucket, global, swept, ideal, visit, connSlots, handlers, attempts, claimed>>
  BY DEF Ticks, DoorInv, DoorTypes
<1>2. DoorTypes'
  <2>1. /\ \A s \in DOMAIN bucket : bucket[s].last <= time /\ bucket[s].last \in Nat
        /\ \A s \in Sources : ideal[s].last <= time /\ ideal[s].last \in Nat
    BY DEF DoorInv, DoorTypes, Bucket
  <2> QED BY <1>1, <2>1 DEF DoorInv, DoorTypes
<1>3. NoneGained'
  <2> SUFFICES ASSUME NEW s \in Sources
               PROVE  (IF s \in DOMAIN bucket THEN Level(bucket[s], time + 1) ELSE PerCap)
                        <= Level(ideal[s], time + 1)
    BY <1>1 DEF NoneGained
  <2>1. ideal[s] \in Bucket /\ ideal[s].last <= time
    BY DEF DoorInv, DoorTypes
  <2>2. /\ Level(ideal[s], time) \in 0..PerCap
        /\ Level(ideal[s], time + 1) = IF PerCap <= Level(ideal[s], time) + PerRate THEN PerCap
                                       ELSE Level(ideal[s], time) + PerRate
    BY <1>1, <2>1, LevelTicks
  <2>3. CASE s \in DOMAIN bucket
    <3>1. bucket[s] \in Bucket /\ bucket[s].last <= time
      BY <2>3 DEF DoorInv, DoorTypes
    <3>2. /\ Level(bucket[s], time) \in 0..PerCap
          /\ Level(bucket[s], time + 1) = IF PerCap <= Level(bucket[s], time) + PerRate THEN PerCap
                                          ELSE Level(bucket[s], time) + PerRate
      BY <1>1, <3>1, LevelTicks
    <3>3. Level(bucket[s], time) <= Level(ideal[s], time)
      BY <2>3 DEF DoorInv, NoneGained
    <3> QED BY <2>2, <2>3, <3>2, <3>3, DoorConstants
  <2>4. CASE s \notin DOMAIN bucket
    <3>1. PerCap <= Level(ideal[s], time)
      BY <2>4 DEF DoorInv, NoneGained
    <3> QED BY <2>2, <2>4, <3>1, DoorConstants
  <2> QED BY <2>3, <2>4
<1>4. ClaimsRemembered'
  <2>1. ASSUME NEW s \in Sources, NEW i \in 1..Len(claimed[s])
        PROVE  /\ claimed[s][i] <= time'
               /\ time' - claimed[s][i] < ClaimWindow => i \in attempts[s]
    <3>1. claimed[s][i] \in Nat
      BY DEF DoorInv, DoorTypes
    <3>2. claimed[s][i] <= time /\ (time - claimed[s][i] < ClaimWindow => i \in attempts[s])
      BY DEF DoorInv, ClaimsRemembered
    <3> QED BY <1>1, <3>1, <3>2, DoorConstants
  <2>2. ClaimsRemembered /\ time' = time + 1 /\ attempts' = attempts /\ claimed' = claimed
    BY <1>1 DEF DoorInv
  <2>3. \A s \in Sources :
          /\ attempts[s] \subseteq 1..Len(claimed[s])
          /\ \A i, j \in 1..Len(claimed[s]) : i <= j => claimed[s][i] <= claimed[s][j]
    BY <2>2 DEF ClaimsRemembered
  <2>4. \A s \in Sources : \A i \in 1..Len(claimed[s]) :
          /\ claimed[s][i] <= time'
          /\ time' - claimed[s][i] < ClaimWindow => i \in attempts[s]
    BY <2>1, Zenon
  <2> QED BY <2>2, <2>3, <2>4, Zenon DEF ClaimsRemembered
<1>5. WindowKept' /\ SlotsReturned'
  BY <1>1 DEF DoorInv, WindowKept, SlotsReturned
<1> QED BY <1>2, <1>3, <1>4, <1>5 DEF DoorInv

(* A request moves from one stage to another: what the two semaphores      *)
(* count changes by that request alone.                                    *)
LEMMA OneMoves ==
  ASSUME DoorInv, NEW r \in Visits, NEW v \in [pc : Stages, src : Sources \cup {"none"}],
         visit' = [visit EXCEPT ![r] = v], NEW S \in SUBSET Stages
  PROVE  LET was == {x \in Visits : visit[x].pc \in S}
             is == {x \in Visits : visit'[x].pc \in S}
         IN  /\ visit[r].pc \notin S /\ v.pc \notin S => Cardinality(is) = Cardinality(was)
             /\ visit[r].pc \in S /\ v.pc \in S => Cardinality(is) = Cardinality(was)
             /\ visit[r].pc \notin S /\ v.pc \in S => Cardinality(is) = Cardinality(was) + 1
             /\ visit[r].pc \in S /\ v.pc \notin S => /\ Cardinality(is) = Cardinality(was) - 1
                                                      /\ Cardinality(was) \in Nat \ {0}
             /\ Cardinality(was) \in Nat
<1> DEFINE was == {x \in Visits : visit[x].pc \in S}
           is == {x \in Visits : visit'[x].pc \in S}
<1>1. visit'[r] = v /\ \A x \in Visits : x # r => visit'[x] = visit[x]
  BY DEF DoorInv, DoorTypes
<1>2. IsFiniteSet(was) /\ Cardinality(was) \in Nat
  BY DoorAssumption, FS_Subset, FS_CardinalityType
<1>3. ASSUME (visit[r].pc \in S) <=> (v.pc \in S) PROVE is = was
  BY <1>1, <1>3
<1>4. ASSUME visit[r].pc \notin S, v.pc \in S PROVE Cardinality(is) = Cardinality(was) + 1
  <2>1. is = was \cup {r} /\ r \notin was
    BY <1>1, <1>4
  <2> HIDE DEF is, was
  <2> QED BY <1>2, <2>1, FS_AddElement
<1>5. ASSUME visit[r].pc \in S, v.pc \notin S
      PROVE  Cardinality(is) = Cardinality(was) - 1 /\ Cardinality(was) \in Nat \ {0}
  <2>1. is = was \ {r} /\ r \in was
    BY <1>1, <1>5
  <2> HIDE DEF is, was
  <2>2. Cardinality(is) = Cardinality(was) - 1
    BY <1>2, <2>1, FS_RemoveElement
  <2>3. Cardinality(was) # 0
    BY <1>2, <2>1, FS_EmptySet
  <2> QED BY <1>2, <2>2, <2>3
<1> HIDE DEF is, was
<1>6. /\ visit[r].pc \notin S /\ v.pc \notin S => Cardinality(is) = Cardinality(was)
      /\ visit[r].pc \in S /\ v.pc \in S => Cardinality(is) = Cardinality(was)
  BY <1>3
<1>7. /\ visit[r].pc \notin S /\ v.pc \in S => Cardinality(is) = Cardinality(was) + 1
      /\ visit[r].pc \in S /\ v.pc \notin S => /\ Cardinality(is) = Cardinality(was) - 1
                                               /\ Cardinality(was) \in Nat \ {0}
  BY <1>4, <1>5
<1> QED BY <1>2, <1>6, <1>7 DEF is, was

(* The stages with a connection open.                                      *)
OpenConn == Stages \ {"outside", "closed"}

(* The semaphores count what they should after a request has moved, if     *)
(* each was changed by what the move opened or ended.                      *)
LEMMA SlotsMove ==
  ASSUME DoorInv, NEW r \in Visits, NEW v \in [pc : Stages, src : Sources \cup {"none"}],
         visit' = [visit EXCEPT ![r] = v],
         connSlots' = connSlots + (IF v.pc \in OpenConn THEN 1 ELSE 0)
                                - (IF visit[r].pc \in OpenConn THEN 1 ELSE 0),
         handlers' = handlers + (IF v.pc = "running" THEN 1 ELSE 0)
                              - (IF visit[r].pc = "running" THEN 1 ELSE 0),
         connSlots' <= MaxConnections, handlers' <= MaxInflight
  PROVE  SlotsReturned' /\ connSlots' \in Nat /\ handlers' \in Nat
<1> DEFINE busy == {x \in Visits : visit[x].pc \in OpenConn}
           run == {x \in Visits : visit[x].pc \in {"running"}}
<1>1. /\ visit \in [Visits -> [pc : Stages, src : Sources \cup {"none"}]]
      /\ visit' \in [Visits -> [pc : Stages, src : Sources \cup {"none"}]]
  BY DEF DoorInv, DoorTypes
<1>2. /\ busy = {x \in Visits : visit[x].pc \notin {"outside", "closed"}}
      /\ run = {x \in Visits : visit[x].pc = "running"}
      /\ busy' = {x \in Visits : visit'[x].pc \notin {"outside", "closed"}}
      /\ run' = {x \in Visits : visit'[x].pc = "running"}
  BY <1>1 DEF OpenConn
<1>3. connSlots = Cardinality(busy) /\ handlers = Cardinality(run)
  BY <1>2 DEF DoorInv, SlotsReturned
<1>4. OpenConn \in SUBSET Stages /\ {"running"} \in SUBSET Stages
  BY DEF OpenConn, Stages
<1>5. Cardinality(busy') = connSlots' /\ connSlots' \in Nat
  <2>1. /\ visit[r].pc \notin OpenConn /\ v.pc \notin OpenConn => Cardinality(busy') = Cardinality(busy)
        /\ visit[r].pc \in OpenConn /\ v.pc \in OpenConn => Cardinality(busy') = Cardinality(busy)
        /\ visit[r].pc \notin OpenConn /\ v.pc \in OpenConn => Cardinality(busy') = Cardinality(busy) + 1
        /\ visit[r].pc \in OpenConn /\ v.pc \notin OpenConn => /\ Cardinality(busy') = Cardinality(busy) - 1
                                                      /\ Cardinality(busy) \in Nat \ {0}
        /\ Cardinality(busy) \in Nat
    BY <1>4, OneMoves
  <2> HIDE DEF busy, run
  <2> QED BY <1>3, <2>1
<1>6. Cardinality(run') = handlers' /\ handlers' \in Nat
  <2>1. /\ visit[r].pc \notin {"running"} /\ v.pc \notin {"running"} => Cardinality(run') = Cardinality(run)
        /\ visit[r].pc \in {"running"} /\ v.pc \in {"running"} => Cardinality(run') = Cardinality(run)
        /\ visit[r].pc \notin {"running"} /\ v.pc \in {"running"} => Cardinality(run') = Cardinality(run) + 1
        /\ visit[r].pc \in {"running"} /\ v.pc \notin {"running"} => /\ Cardinality(run') = Cardinality(run) - 1
                                                                    /\ Cardinality(run) \in Nat \ {0}
        /\ Cardinality(run) \in Nat
    BY <1>4, OneMoves
  <2> HIDE DEF busy, run
  <2> QED BY <1>3, <2>1
<1> HIDE DEF busy, run
<1> QED BY <1>2, <1>5, <1>6 DEF SlotsReturned

(* A request moves and leaves the limiters alone.                          *)
LEMMA MoveKeeps ==
  ASSUME DoorInv, NEW r \in Visits, NEW v \in [pc : Stages, src : Sources \cup {"none"}],
         visit' = [visit EXCEPT ![r] = v], v.pc = "accepted" => v.src \in Sources,
         UNCHANGED <<time, bucket, ideal, attempts, claimed>>,
         connSlots' = connSlots + (IF v.pc \in OpenConn THEN 1 ELSE 0)
                                - (IF visit[r].pc \in OpenConn THEN 1 ELSE 0),
         handlers' = handlers + (IF v.pc = "running" THEN 1 ELSE 0)
                              - (IF visit[r].pc = "running" THEN 1 ELSE 0),
         connSlots' <= MaxConnections, handlers' <= MaxInflight
  PROVE  DoorInv'
<1>1. SlotsReturned' /\ connSlots' \in Nat /\ handlers' \in Nat
  BY SlotsMove
<1>2. DoorTypes'
  <2>1. /\ visit' \in [Visits -> [pc : Stages, src : Sources \cup {"none"}]]
        /\ \A x \in Visits : visit'[x].pc = "accepted" => visit'[x].src \in Sources
    BY DEF DoorInv, DoorTypes
  <2> QED BY <1>1, <2>1 DEF DoorInv, DoorTypes
<1>3. NoneGained' /\ WindowKept'
  BY DEF DoorInv, NoneGained, WindowKept
<1>4. ClaimsRemembered'
  <2>1. ClaimsRemembered /\ time' = time /\ attempts' = attempts /\ claimed' = claimed
    BY DEF DoorInv
  <2> QED BY <2>1, Zenon DEF ClaimsRemembered
<1> QED BY <1>1, <1>2, <1>3, <1>4 DEF DoorInv

(* The same, when only the stage of the request changes.                   *)
LEMMA StageKeeps ==
  ASSUME DoorInv, NEW r \in Visits, NEW p \in Stages \ {"accepted"},
         visit' = [visit EXCEPT ![r].pc = p],
         UNCHANGED <<time, bucket, ideal, attempts, claimed>>,
         connSlots' = connSlots + (IF p \in OpenConn THEN 1 ELSE 0)
                                - (IF visit[r].pc \in OpenConn THEN 1 ELSE 0),
         handlers' = handlers + (IF p = "running" THEN 1 ELSE 0)
                              - (IF visit[r].pc = "running" THEN 1 ELSE 0),
         connSlots' <= MaxConnections, handlers' <= MaxInflight
  PROVE  DoorInv'
<1> DEFINE v == [visit[r] EXCEPT !.pc = p]
<1>1. visit \in [Visits -> [pc : Stages, src : Sources \cup {"none"}]]
  BY DEF DoorInv, DoorTypes
<1>2. /\ v \in [pc : Stages, src : Sources \cup {"none"}] /\ v.pc = p
      /\ visit' = [visit EXCEPT ![r] = v]
  BY <1>1
<1> HIDE DEF v
<1> QED BY <1>2, MoveKeeps

(* Every step of a request but the rate limiter's keeps the invariant:     *)
(* its slots come back once, whatever way it ends.                         *)
LEMMA VisitKeeps ==
  ASSUME DoorInv, NEW r \in Visits,
         Accept(r) \/ CloseConn(r) \/ CloseAgain(r) \/ Bearer(r) \/ GetsSlot(r) \/ Busy(r) \/ Finish(r)
  PROVE  DoorInv'
<1>1. UNCHANGED <<time, bucket, ideal, attempts, claimed>>
  BY DEF Accept, CloseConn, CloseAgain, Bearer, GetsSlot, Busy, Finish
<1>2. /\ connSlots \in Nat /\ handlers \in Nat
      /\ connSlots <= MaxConnections /\ handlers <= MaxInflight
      /\ MaxConnections \in Nat /\ MaxInflight \in Nat
  BY DoorConstants DEF DoorInv, DoorTypes, SlotsReturned
<1>3. CASE Accept(r)
  <2>1. PICK s \in Sources : visit' = [visit EXCEPT ![r] = [pc |-> "accepted", src |-> s]]
    BY <1>3 DEF Accept
  <2> DEFINE v == [pc |-> "accepted", src |-> s]
  <2>2. v \in [pc : Stages, src : Sources \cup {"none"}] /\ v.pc = "accepted" /\ v.src \in Sources
    BY DEF Stages
  <2>3. visit' = [visit EXCEPT ![r] = v]
    BY <2>1
  <2> HIDE DEF v
  <2>4. visit[r].pc \notin OpenConn /\ visit[r].pc # "running" /\ v.pc \in OpenConn /\ v.pc # "running"
    BY <1>3, <2>2 DEF Accept, OpenConn, Stages
  <2>5. connSlots' = connSlots + 1 /\ handlers' = handlers /\ connSlots < MaxConnections
    BY <1>3 DEF Accept
  <2>6. /\ connSlots' = connSlots + (IF v.pc \in OpenConn THEN 1 ELSE 0) - (IF visit[r].pc \in OpenConn THEN 1 ELSE 0)
        /\ handlers' = handlers + (IF v.pc = "running" THEN 1 ELSE 0)
                               - (IF visit[r].pc = "running" THEN 1 ELSE 0)
        /\ connSlots' <= MaxConnections /\ handlers' <= MaxInflight
    BY <1>2, <2>4, <2>5
  <2> QED BY <1>1, <2>2, <2>3, <2>6, MoveKeeps
<1>4. CASE CloseAgain(r)
  <2> DEFINE v == [pc |-> "outside", src |-> "none"]
  <2>1. v \in [pc : Stages, src : Sources \cup {"none"}] /\ v.pc = "outside"
    BY DEF Stages
  <2>2. visit' = [visit EXCEPT ![r] = v]
    BY <1>4 DEF CloseAgain
  <2> HIDE DEF v
  <2>3. visit[r].pc \notin OpenConn /\ visit[r].pc # "running" /\ v.pc \notin OpenConn
    BY <1>4, <2>1 DEF CloseAgain, OpenConn, Stages
  <2>4. connSlots' = connSlots /\ handlers' = handlers
    BY <1>4 DEF CloseAgain
  <2>5. /\ connSlots' = connSlots + (IF v.pc \in OpenConn THEN 1 ELSE 0) - (IF visit[r].pc \in OpenConn THEN 1 ELSE 0)
        /\ handlers' = handlers + (IF v.pc = "running" THEN 1 ELSE 0)
                               - (IF visit[r].pc = "running" THEN 1 ELSE 0)
        /\ connSlots' <= MaxConnections /\ handlers' <= MaxInflight
    BY <1>2, <2>1, <2>3, <2>4
  <2> QED BY <1>1, <2>1, <2>2, <2>5, MoveKeeps
<1>5. {"allowed", "answered", "running", "queued"} \subseteq OpenConn /\ OpenConn \subseteq Stages
      /\ "closed" \in Stages /\ "closed" \notin OpenConn
  BY DEF OpenConn, Stages
<1>6. CASE CloseConn(r)
  <2>1. /\ visit' = [visit EXCEPT ![r].pc = "closed"] /\ visit[r].pc = "answered"
        /\ connSlots' = connSlots - 1 /\ handlers' = handlers
    BY <1>6 DEF CloseConn
  <2>2. /\ connSlots' = connSlots + (IF "closed" \in OpenConn THEN 1 ELSE 0) - (IF visit[r].pc \in OpenConn THEN 1 ELSE 0)
        /\ handlers' = handlers + (IF "closed" = "running" THEN 1 ELSE 0)
                               - (IF visit[r].pc = "running" THEN 1 ELSE 0)
        /\ connSlots' <= MaxConnections /\ handlers' <= MaxInflight
    BY <1>2, <1>5, <2>1
  <2>3. "closed" \in Stages \ {"accepted"}
    BY <1>5
  <2> QED BY <1>1, <2>1, <2>2, <2>3, StageKeeps
<1>7. ASSUME NEW p \in {"answered", "running", "queued"}, visit' = [visit EXCEPT ![r].pc = p],
             visit[r].pc \in {"allowed", "queued", "running"}, connSlots' = connSlots,
             handlers' = handlers + (IF p = "running" THEN 1 ELSE 0)
                                  - (IF visit[r].pc = "running" THEN 1 ELSE 0),
             handlers' <= MaxInflight
      PROVE  DoorInv'
  <2>1. p \in Stages \ {"accepted"} /\ p \in OpenConn /\ visit[r].pc \in OpenConn
    BY <1>5, <1>7
  <2>2. connSlots' = connSlots + (IF p \in OpenConn THEN 1 ELSE 0) - (IF visit[r].pc \in OpenConn THEN 1 ELSE 0)
    BY <1>2, <1>7, <2>1
  <2> QED BY <1>1, <1>2, <1>7, <2>1, <2>2, StageKeeps
<1>8. CASE Bearer(r)
  BY <1>2, <1>7, <1>8 DEF Bearer
<1>9. CASE GetsSlot(r) \/ Busy(r)
  BY <1>2, <1>7, <1>9 DEF GetsSlot, Busy
<1>10. CASE Finish(r)
  BY <1>2, <1>7, <1>10 DEF Finish
<1> QED BY <1>3, <1>4, <1>6, <1>8, <1>9, <1>10

(* The sweep keeps what it may: a source it forgets had a full bucket.     *)
LEMMA SweepForgetsFull ==
  ASSUME DoorInv, NEW s \in Sources
  PROVE  /\ s \in DOMAIN KnownSource(s) /\ DOMAIN KnownSource(s) \subseteq Sources
         /\ KnownSource(s) \in [DOMAIN KnownSource(s) -> Bucket]
         /\ \A x \in DOMAIN KnownSource(s) : KnownSource(s)[x].last <= time
         /\ \A x \in Sources : (IF x \in DOMAIN KnownSource(s) THEN Level(KnownSource(s)[x], time) ELSE PerCap)
                                 <= Level(ideal[x], time)
<1>0. /\ time \in Nat /\ DOMAIN bucket \subseteq Sources /\ bucket \in [DOMAIN bucket -> Bucket]
      /\ \A x \in DOMAIN bucket : bucket[x].last <= time
      /\ \A x \in Sources : (IF x \in DOMAIN bucket THEN Level(bucket[x], time) ELSE PerCap)
                              <= Level(ideal[x], time)
  BY DEF DoorInv, DoorTypes, NoneGained
<1>1. CASE s \in DOMAIN bucket
  BY <1>0, <1>1 DEF KnownSource
<1>2. CASE s \notin DOMAIN bucket
  <2> DEFINE K == [x \in Remaining(s) \cup {s} |-> IF x = s THEN Full(PerCap, time) ELSE bucket[x]]
  <2>1. KnownSource(s) = K /\ DOMAIN K = Remaining(s) \cup {s}
    BY <1>2 DEF KnownSource
  <2>2. /\ Remaining(s) \subseteq DOMAIN bucket
        /\ \A x \in DOMAIN bucket : x \notin Remaining(s) => time - bucket[x].last > IdleTicks
    <3>1. \A x \in DOMAIN bucket : bucket[x].last \in Nat
      BY <1>0 DEF Bucket
    <3> QED BY <1>0, <3>1, DoorConstants DEF Remaining
  <2>3. /\ Full(PerCap, time) \in Bucket /\ Full(PerCap, time).last = time
        /\ Level(Full(PerCap, time), time) = PerCap
    BY <1>0, DoorConstants DEF Full, Bucket, Level
  <2>4. K[s] = Full(PerCap, time) /\ \A x \in DOMAIN K : x # s => K[x] = bucket[x] /\ x \in DOMAIN bucket
    BY <2>1, <2>2
  <2>5. /\ s \in DOMAIN K /\ DOMAIN K \subseteq Sources /\ K \in [DOMAIN K -> Bucket]
        /\ \A x \in DOMAIN K : K[x].last <= time
    <3>1. \A x \in DOMAIN K : K[x] \in Bucket /\ K[x].last <= time
      BY <1>0, <2>3, <2>4
    <3>2. K = [x \in DOMAIN K |-> K[x]]
      BY <2>1
    <3> HIDE DEF K
    <3> QED BY <1>0, <2>1, <2>2, <3>1, <3>2
  <2> HIDE DEF K
  <2>6. ASSUME NEW x \in Sources
        PROVE  (IF x \in DOMAIN K THEN Level(K[x], time) ELSE PerCap) <= Level(ideal[x], time)
    <3>1. CASE x = s
      BY <1>0, <1>2, <2>3, <2>4, <2>5, <3>1
    <3>2. CASE x # s /\ x \in DOMAIN K
      BY <1>0, <2>4, <3>2
    <3>3. CASE x # s /\ x \notin DOMAIN K /\ x \in DOMAIN bucket
      <4>1. bucket[x] \in Bucket /\ time - bucket[x].last > IdleTicks
        BY <1>0, <2>1, <2>2, <3>3
      <4>2. Level(bucket[x], time) = PerCap
        BY <1>0, <4>1, IdleIsFull
      <4> QED BY <1>0, <3>3, <4>2
    <3>4. CASE x # s /\ x \notin DOMAIN K /\ x \notin DOMAIN bucket
      BY <1>0, <3>4
    <3> QED BY <3>1, <3>2, <3>3, <3>4
  <2> QED BY <2>1, <2>5, <2>6
<1> QED BY <1>1, <1>2

(* RateLimit keeps the invariant: a token taken is taken from both.        *)
LEMMA RateLimitKeeps ==
  ASSUME DoorInv, NEW r \in Visits, RateLimit(r)
  PROVE  DoorInv'
<1> DEFINE s == visit[r].src
           known == KnownSource(s)
           b == refill(known[s], PerRate, PerCap)
           g == refill(global, GlobalRate, GlobalCap)
           i == refill(ideal[s], PerRate, PerCap)
           allowed == b.tokens >= 1 /\ g.tokens >= 1
           nb == IF allowed THEN Taken(b) ELSE b
           ni == IF allowed THEN Taken(i) ELSE i
           p == IF allowed THEN "allowed" ELSE "answered"
<1>1. /\ visit[r].pc = "accepted"
      /\ bucket' = [known EXCEPT ![s] = nb] /\ ideal' = [ideal EXCEPT ![s] = ni]
      /\ visit' = [visit EXCEPT ![r].pc = p]
      /\ UNCHANGED <<time, connSlots, handlers, attempts, claimed>>
  BY DEF RateLimit
<1>2. /\ s \in Sources /\ time \in Nat /\ ideal \in [Sources -> Bucket]
      /\ \A x \in Sources : ideal[x].last <= time
      /\ visit \in [Visits -> [pc : Stages, src : Sources \cup {"none"}]]
  BY <1>1 DEF DoorInv, DoorTypes
<1>3. /\ s \in DOMAIN known /\ DOMAIN known \subseteq Sources
      /\ known \in [DOMAIN known -> Bucket]
      /\ \A x \in DOMAIN known : known[x].last <= time
      /\ \A x \in Sources : (IF x \in DOMAIN known THEN Level(known[x], time) ELSE PerCap)
                              <= Level(ideal[x], time)
  BY <1>2, SweepForgetsFull
<1>4. /\ b = [tokens |-> Level(known[s], time), last |-> time] /\ Level(known[s], time) \in 0..PerCap
      /\ i = [tokens |-> Level(ideal[s], time), last |-> time] /\ Level(ideal[s], time) \in 0..PerCap
      /\ Level(known[s], time) <= Level(ideal[s], time)
  BY <1>2, <1>3, RefillFacts
<1> HIDE DEF b, i, known, s, g
<1>5. nb \in Bucket /\ nb.last = time /\ ni \in Bucket /\ ni.last = time /\ nb.tokens <= ni.tokens
  <2>1. PerCap \in Nat
    BY DoorConstants
  <2>2. CASE allowed
    BY <1>2, <1>4, <2>1, <2>2 DEF Taken, Bucket
  <2>3. CASE ~allowed
    BY <1>2, <1>4, <2>1, <2>3 DEF Bucket
  <2> QED BY <2>2, <2>3
<1>6. p \in Stages /\ p # "accepted" /\ p # "running" /\ p \in OpenConn
  BY DEF Stages, OpenConn
<1> HIDE DEF nb, ni, p
<1>7. Level(nb, time) = nb.tokens /\ Level(ni, time) = ni.tokens
  BY <1>2, <1>5 DEF Level
<1>8. /\ DOMAIN bucket' = DOMAIN known /\ bucket'[s] = nb /\ bucket' \in [DOMAIN known -> Bucket]
      /\ \A x \in DOMAIN known : x # s => bucket'[x] = known[x]
      /\ ideal' \in [Sources -> Bucket] /\ ideal'[s] = ni
      /\ \A x \in Sources : x # s => ideal'[x] = ideal[x]
  BY <1>1, <1>2, <1>3, <1>5
<1>9. NoneGained'
  <2> SUFFICES ASSUME NEW x \in Sources
               PROVE  (IF x \in DOMAIN bucket' THEN Level(bucket'[x], time) ELSE PerCap)
                        <= Level(ideal'[x], time)
    BY <1>1 DEF NoneGained
  <2>1. CASE x = s
    BY <1>3, <1>5, <1>7, <1>8, <2>1
  <2>2. CASE x # s
    BY <1>3, <1>8, <2>2
  <2> QED BY <2>1, <2>2
<1> DEFINE v == [visit[r] EXCEPT !.pc = p]
<1>10. /\ v \in [pc : Stages, src : Sources \cup {"none"}] /\ v.pc = p
       /\ visit' = [visit EXCEPT ![r] = v]
  BY <1>1, <1>2, <1>6
<1> HIDE DEF v
<1>11. SlotsReturned' /\ connSlots' \in Nat /\ handlers' \in Nat
  <2>1. /\ connSlots \in Nat /\ handlers \in Nat
        /\ connSlots <= MaxConnections /\ handlers <= MaxInflight
    BY DEF DoorInv, DoorTypes, SlotsReturned
  <2>2. visit[r].pc \in OpenConn /\ v.pc \in OpenConn /\ v.pc # "running" /\ visit[r].pc # "running"
    BY <1>1, <1>6, <1>10 DEF OpenConn, Stages
  <2>3. /\ connSlots' = connSlots + (IF v.pc \in OpenConn THEN 1 ELSE 0)
                                  - (IF visit[r].pc \in OpenConn THEN 1 ELSE 0)
        /\ handlers' = handlers + (IF v.pc = "running" THEN 1 ELSE 0)
                                - (IF visit[r].pc = "running" THEN 1 ELSE 0)
        /\ connSlots' <= MaxConnections /\ handlers' <= MaxInflight
    BY <1>1, <2>1, <2>2
  <2> QED BY <1>10, <2>3, SlotsMove
<1>12. DoorTypes'
  <2>1. /\ visit' \in [Visits -> [pc : Stages, src : Sources \cup {"none"}]]
        /\ \A x \in Visits : visit'[x].pc = "accepted" => visit'[x].src \in Sources
    BY <1>2, <1>6, <1>10 DEF DoorInv, DoorTypes
  <2>2. \A x \in DOMAIN bucket' : bucket'[x].last <= time
    BY <1>2, <1>3, <1>5, <1>8
  <2>3. \A x \in Sources : ideal'[x].last <= time
    BY <1>2, <1>5, <1>8
  <2>4. time' = time /\ time \in Nat /\ attempts' \in [Sources -> SUBSET Nat] /\ claimed' \in [Sources -> Seq(Nat)]
    BY <1>1 DEF DoorInv, DoorTypes
  <2> QED BY <1>3, <1>8, <1>11, <2>1, <2>2, <2>3, <2>4 DEF DoorTypes
<1>13. WindowKept' /\ ClaimsRemembered'
  <2>1. ClaimsRemembered /\ WindowKept /\ time' = time /\ attempts' = attempts /\ claimed' = claimed
    BY <1>1 DEF DoorInv
  <2> QED BY <2>1, Zenon DEF ClaimsRemembered, WindowKept
<1> QED BY <1>9, <1>11, <1>12, <1>13 DEF DoorInv

(* ClaimAttempt keeps the invariant: the claims of one window up to the    *)
(* newest are all remembered when the newest is let through.               *)
LEMMA ClaimAttemptKeeps ==
  ASSUME DoorInv, NEW s \in Sources, ClaimAttempt(s)
  PROVE  DoorInv'
<1> DEFINE keep == Remembered(s)
           n == Len(claimed[s])
<1>1. /\ time \in Nat /\ attempts \in [Sources -> SUBSET Nat] /\ claimed \in [Sources -> Seq(Nat)]
      /\ ClaimsRemembered /\ WindowKept /\ ClaimLimit \in Nat /\ ClaimWindow \in Nat
      /\ claimed[s] \in Seq(Nat) /\ n \in Nat
  BY DoorConstants DEF DoorInv, DoorTypes
<1>2. UNCHANGED <<time, bucket, global, swept, ideal, visit, connSlots, handlers>>
  BY DEF ClaimAttempt
<1>3. /\ keep \subseteq attempts[s] /\ keep \subseteq 1..n /\ keep \in SUBSET Nat
      /\ \A c \in 1..n : time - claimed[s][c] < ClaimWindow => c \in keep
  BY <1>1 DEF Remembered, ClaimsRemembered
<1>4. IsFiniteSet(keep) /\ Cardinality(keep) \in Nat
  <2>1. IsFiniteSet(1..n)
    BY <1>1, FS_Interval
  <2> HIDE DEF keep
  <2> QED BY <1>3, <2>1, FS_Subset, FS_CardinalityType
<1>5. ASSUME attempts' \in [Sources -> SUBSET Nat], claimed' \in [Sources -> Seq(Nat)],
             ClaimsRemembered', WindowKept'
      PROVE  DoorInv'
  <2>1. DoorTypes'
    BY <1>2, <1>5 DEF DoorInv, DoorTypes
  <2>2. NoneGained' /\ SlotsReturned'
    BY <1>2 DEF DoorInv, NoneGained, SlotsReturned
  <2> QED BY <1>5, <2>1, <2>2 DEF DoorInv
<1>6. CASE Cardinality(keep) >= ClaimLimit
  <2>1. attempts' = [attempts EXCEPT ![s] = keep] /\ claimed' = claimed
    BY <1>6 DEF ClaimAttempt
  <2> HIDE DEF keep
  <2>2. /\ attempts' \in [Sources -> SUBSET Nat] /\ attempts'[s] = keep
        /\ \A x \in Sources : x # s => attempts'[x] = attempts[x]
    BY <1>1, <1>3, <2>1
  <2>3. ClaimsRemembered'
    <3> SUFFICES ASSUME NEW x \in Sources
                 PROVE  /\ attempts'[x] \subseteq 1..Len(claimed[x])
                        /\ \A c \in 1..Len(claimed[x]) :
                             /\ claimed[x][c] <= time
                             /\ time - claimed[x][c] < ClaimWindow => c \in attempts'[x]
                        /\ \A c, d \in 1..Len(claimed[x]) : c <= d => claimed[x][c] <= claimed[x][d]
      BY <1>2, <2>1, Zenon DEF ClaimsRemembered
    <3>1. CASE x = s
      BY <1>1, <1>3, <2>2, <3>1 DEF ClaimsRemembered
    <3>2. CASE x # s
      BY <1>1, <2>2, <3>2 DEF ClaimsRemembered
    <3> QED BY <3>1, <3>2
  <2>4. WindowKept'
    BY <1>1, <2>1 DEF WindowKept
  <2> QED BY <1>1, <1>5, <2>1, <2>2, <2>3, <2>4
<1>7. CASE ~(Cardinality(keep) >= ClaimLimit)
  <2> DEFINE cs == Append(claimed[s], time)
             kept == keep \cup {n + 1}
  <2>1. /\ attempts' = [attempts EXCEPT ![s] = kept] /\ claimed' = [claimed EXCEPT ![s] = cs]
    BY <1>7 DEF ClaimAttempt
  <2>2. /\ cs \in Seq(Nat) /\ Len(cs) = n + 1 /\ cs[n + 1] = time
        /\ \A c \in 1..n : cs[c] = claimed[s][c] /\ cs[c] \in Nat
    BY <1>1, AppendProperties
  <2>3. kept \in SUBSET Nat /\ kept \subseteq 1..(n + 1) /\ n + 1 \in kept
    BY <1>1, <1>3
  <2>4. \A c \in 1..(n + 1) : cs[c] <= time /\ (time - cs[c] < ClaimWindow => c \in kept)
    <3>1. \A c \in 1..n : claimed[s][c] <= time
      BY <1>1 DEF ClaimsRemembered
    <3> QED BY <1>1, <1>3, <2>2, <2>3, <3>1
  <2>5. \A c, d \in 1..(n + 1) : c <= d => cs[c] <= cs[d]
    <3>1. \A c, d \in 1..n : c <= d => claimed[s][c] <= claimed[s][d]
      BY <1>1 DEF ClaimsRemembered
    <3> SUFFICES ASSUME NEW c \in 1..(n + 1), NEW d \in 1..(n + 1), c <= d PROVE cs[c] <= cs[d]
      OBVIOUS
    <3>2. CASE d = n + 1
      BY <2>2, <2>4, <3>2
    <3>3. CASE d # n + 1
      <4>1. c \in 1..n /\ d \in 1..n
        BY <1>1, <3>3
      <4> QED BY <2>2, <3>1, <4>1
    <3> QED BY <3>2, <3>3
  <2>6. ASSUME NEW c \in 1..(n + 1), NEW d \in 1..(n + 1), c <= d, cs[d] - cs[c] < ClaimWindow
        PROVE  d - c + 1 <= ClaimLimit
    <3>1. CASE d # n + 1
      <4>1. c \in 1..n /\ d \in 1..n
        BY <1>1, <2>6, <3>1
      <4> QED BY <1>1, <2>2, <2>6, <4>1 DEF WindowKept
    <3>2. CASE d = n + 1
      <4>1. c..n \subseteq keep
        <5> SUFFICES ASSUME NEW e \in c..n PROVE e \in keep
          OBVIOUS
        <5>1. e \in 1..n /\ e \in 1..(n + 1) /\ c <= e /\ e <= d
          BY <1>1, <2>6, <3>2
        <5>2. cs[c] <= cs[e] /\ cs[c] \in Nat /\ cs[e] \in Nat /\ cs[d] = time
          <6>1. cs[c] \in Nat
            BY <1>1, <2>2
          <6> QED BY <2>2, <2>5, <3>2, <5>1, <6>1
        <5>3. time - claimed[s][e] < ClaimWindow
          BY <1>1, <2>2, <2>6, <5>1, <5>2
        <5> QED BY <1>3, <5>1, <5>3
      <4>2. Cardinality(c..n) = n - c + 1
        <5>1. c \in Int /\ n \in Int /\ c <= n + 1
          BY <1>1
        <5>2. Cardinality(c..n) = IF c > n THEN 0 ELSE n - c + 1
          BY <5>1, FS_Interval
        <5> QED BY <5>1, <5>2
      <4> HIDE DEF keep
      <4>3. Cardinality(c..n) <= Cardinality(keep)
        BY <1>4, <4>1, FS_Subset
      <4> QED BY <1>1, <1>4, <1>7, <3>2, <4>2, <4>3
    <3> QED BY <3>1, <3>2
  <2> HIDE DEF cs, kept, keep
  <2>7. /\ attempts' \in [Sources -> SUBSET Nat] /\ attempts'[s] = kept
        /\ claimed' \in [Sources -> Seq(Nat)] /\ claimed'[s] = cs
        /\ \A x \in Sources : x # s => attempts'[x] = attempts[x] /\ claimed'[x] = claimed[x]
    BY <1>1, <2>1, <2>2, <2>3
  <2>8. ClaimsRemembered'
    <3> SUFFICES ASSUME NEW x \in Sources
                 PROVE  /\ attempts'[x] \subseteq 1..Len(claimed'[x])
                        /\ \A c \in 1..Len(claimed'[x]) :
                             /\ claimed'[x][c] <= time
                             /\ time - claimed'[x][c] < ClaimWindow => c \in attempts'[x]
                        /\ \A c, d \in 1..Len(claimed'[x]) : c <= d => claimed'[x][c] <= claimed'[x][d]
      BY <1>2, Zenon DEF ClaimsRemembered
    <3>1. CASE x = s
      BY <2>2, <2>3, <2>4, <2>5, <2>7, <3>1
    <3>2. CASE x # s
      BY <1>1, <2>7, <3>2 DEF ClaimsRemembered
    <3> QED BY <3>1, <3>2
  <2>9. WindowKept'
    <3> SUFFICES ASSUME NEW x \in Sources, NEW c \in 1..Len(claimed'[x]), NEW d \in 1..Len(claimed'[x]),
                        c <= d, claimed'[x][d] - claimed'[x][c] < ClaimWindow
                 PROVE  d - c + 1 <= ClaimLimit
      BY DEF WindowKept
    <3>1. CASE x = s
      BY <2>2, <2>6, <2>7, <3>1
    <3>2. CASE x # s
      BY <1>1, <2>7, <3>2 DEF WindowKept
    <3> QED BY <3>1, <3>2
  <2> QED BY <1>5, <2>7, <2>8, <2>9
<1> QED BY <1>6, <1>7

-----------------------------------------------------------------------------

(* The door begins in the invariant.                                       *)
LEMMA DoorInitKeeps ==
  ASSUME DoorInit
  PROVE  DoorInv
<1>1. /\ time = 0 /\ DOMAIN bucket = {} /\ connSlots = 0 /\ handlers = 0
      /\ ideal = [s \in Sources |-> Full(PerCap, 0)]
      /\ visit = [r \in Visits |-> [pc |-> "outside", src |-> "none"]]
      /\ attempts = [s \in Sources |-> {}] /\ claimed = [s \in Sources |-> <<>>]
  BY DEF DoorInit
<1>2. Full(PerCap, 0) \in Bucket /\ Full(PerCap, 0).last = 0 /\ Full(PerCap, 0).tokens = PerCap
  BY DoorConstants DEF Full, Bucket
<1>3. DoorTypes
  <2>1. bucket \in [DOMAIN bucket -> Bucket]
    BY DEF DoorInit
  <2>2. /\ visit \in [Visits -> [pc : Stages, src : Sources \cup {"none"}]]
        /\ \A r \in Visits : visit[r].pc = "outside"
    BY <1>1 DEF Stages
  <2> QED BY <1>1, <1>2, <2>1, <2>2 DEF DoorTypes
<1>4. NoneGained
  BY <1>1, <1>2, DoorConstants DEF NoneGained, Level
<1>5. ClaimsRemembered /\ WindowKept
  BY <1>1 DEF ClaimsRemembered, WindowKept
<1>6. SlotsReturned
  <2>1. /\ {r \in Visits : visit[r].pc \notin {"outside", "closed"}} = {}
        /\ {r \in Visits : visit[r].pc = "running"} = {}
    BY <1>1
  <2>2. Cardinality({}) = 0
    BY FS_EmptySet
  <2>3. MaxConnections \in Nat /\ MaxInflight \in Nat
    BY DoorConstants
  <2>4. connSlots <= MaxConnections /\ handlers <= MaxInflight
    BY <1>1, <2>3
  <2>5. /\ connSlots = Cardinality({r \in Visits : visit[r].pc \notin {"outside", "closed"}})
        /\ handlers = Cardinality({r \in Visits : visit[r].pc = "running"})
    BY <1>1, <2>1, <2>2, Zenon
  <2> QED BY <2>4, <2>5 DEF SlotsReturned
<1> QED BY <1>3, <1>4, <1>5, <1>6 DEF DoorInv

(* Every step keeps it.                                                    *)
LEMMA DoorStepKeeps ==
  ASSUME DoorInv, [DoorNext \/ ClaimsNext]_doorVars
  PROVE  DoorInv'
<1>1. CASE DoorNext
  BY <1>1, TicksKeeps, VisitKeeps, RateLimitKeeps DEF DoorNext
<1>2. CASE ClaimsNext
  BY <1>2, TicksKeeps, ClaimAttemptKeeps DEF ClaimsNext
<1>3. CASE UNCHANGED doorVars
  <2>1. UNCHANGED <<time, bucket, ideal, visit, connSlots, handlers, attempts, claimed>>
    BY <1>3 DEF doorVars
  <2>2. DoorTypes' /\ NoneGained' /\ SlotsReturned'
    BY <2>1 DEF DoorInv, DoorTypes, NoneGained, SlotsReturned
  <2>3. ClaimsRemembered /\ WindowKept /\ time' = time /\ attempts' = attempts /\ claimed' = claimed
    BY <2>1 DEF DoorInv
  <2>4. ClaimsRemembered' /\ WindowKept'
    BY <2>3, Zenon DEF ClaimsRemembered, WindowKept
  <2> QED BY <2>2, <2>4 DEF DoorInv
<1> QED BY <1>1, <1>2, <1>3

(* The door's limits, for any number of requests and sources, and any      *)
(* rates, capacities and windows: sweeping gives no source a token, no     *)
(* window lets more claims through than its limit, and every slot taken    *)
(* comes back once.                                                        *)
THEOREM DoorStaysSound == DoorSpec => []DoorSound
<1>1. DoorInit => DoorInv
  BY DoorInitKeeps
<1>2. DoorInv /\ [DoorNext \/ ClaimsNext]_doorVars => DoorInv'
  BY DoorStepKeeps
<1>3. DoorInv => DoorSound
  <2> SUFFICES ASSUME DoorInv PROVE AllowanceKept
    BY DEF DoorSound, DoorInv
  <2>1. ASSUME NEW s \in Sources
        PROVE  (IF s \in DOMAIN bucket THEN Now(bucket[s]) ELSE PerCap) <= Now(ideal[s])
    <3>1. Now(ideal[s]) = Level(ideal[s], time)
      BY RefillFacts DEF DoorInv, DoorTypes, Now
    <3>2. s \in DOMAIN bucket => Now(bucket[s]) = Level(bucket[s], time)
      BY RefillFacts DEF DoorInv, DoorTypes, Now
    <3> QED BY <3>1, <3>2 DEF DoorInv, NoneGained
  <2>2. WindowKept
    BY DEF DoorInv
  <2> QED BY <2>1, <2>2 DEF AllowanceKept, WindowKept
<1> QED BY <1>1, <1>2, <1>3, PTL DEF DoorSpec

-----------------------------------------------------------------------------
(* The hooks, one request at a time.                                       *)

StepRec == [op : Ops, d : Devices, new : BOOLEAN]

Writes == {"create", "issue", "mint"}
Lays == {"register", "seatCheck", "put"}

(* What may come after a write in a request's list.                        *)
Follows(op) ==
  IF op = "create" THEN {"issue", "mint", "provision"}
  ELSE IF op = "issue" THEN {"mint", "provision"} ELSE {"provision"}

(* The list t still has the step op for device d.                          *)
Due(t, op, d) == \E p \in 1..Len(t) : t[p].op = op /\ t[p].d = d

Within(q, d) == \E i \in 1..Len(q) : q[i] = d

(* A device is in the seat queue once, and holders are not revoked.        *)
QueueKept ==
  /\ \A i, j \in 1..Len(queue) : queue[i] = queue[j] => i = j
  /\ \A d \in Devices : Within(queue, d) => rec[d] # Absent /\ ~rec[d].revoked

(* In the list t, a write is followed by the provisioning of its device,   *)
(* and by nothing else than the writes that come after it.                 *)
Orderly(t) ==
  \A p \in 1..Len(t) : t[p].op \in Writes =>
    /\ \A q \in 1..Len(t) : q > p => t[q].op \in Follows(t[p].op) /\ t[q].d = t[p].d
    /\ \E q \in 1..Len(t) : q > p /\ t[q].op = "provision"

(* What a write still to come tested when the request came still holds.    *)
ListKept ==
  \A r \in Requests :
    /\ Orderly(todo[r])
    /\ \A d \in Devices :
         /\ Due(todo[r], "create", d) => rec[d] = Absent
         /\ Due(todo[r], "issue", d) =>
              FreeSeat \/ (rec[d] # Absent /\ (rec[d].revoked \/ d \in prov))

ToServe(d) == rec[d] # Absent /\ rec[d].line /\ ~rec[d].revoked /\ ~Unlicensed(d)

(* A step still to come does what the records ask for.                     *)
HooksKept ==
  \A r \in Requests, d \in Devices :
    /\ Due(todo[r], "put", d) => ~Unlicensed(d)
    /\ Due(todo[r], "userFor", d) \/ Due(todo[r], "delete", d) => ~ToServe(d)
    /\ Due(todo[r], "lookup", d) \/ Due(todo[r], "deprovision", d) => rec[d] = Absent \/ rec[d].revoked

(* What the records ask for is so, or a step to come makes it so.          *)
LiveKept ==
  \A r \in Requests, d \in Devices :
    rec[d] # Absent /\ ~rec[d].revoked => d \in prov \/ Due(todo[r], "provision", d)

ServedKept ==
  \A r \in Requests, d \in Devices :
    ToServe(d) => d \in lines \/ \E op \in Lays : Due(todo[r], op, d)

SeatlessKept ==
  \A r \in Requests, d \in Devices :
    Unlicensed(d) => d \notin lines \/ Due(todo[r], "userFor", d) \/ Due(todo[r], "delete", d)

HooksInv ==
  /\ TypeOK /\ QueueKept /\ ListKept /\ HooksKept
  /\ LiveKept /\ ServedKept /\ SeatlessKept

-----------------------------------------------------------------------------
(* Lists of steps.                                                         *)

(* What is left to do when the first step of a list is done.               *)
LEMMA DueTail ==
  ASSUME NEW t \in Seq(StepRec), t # <<>>
  PROVE  /\ Tail(t) \in Seq(StepRec) /\ Len(t) \in Nat \ {0} /\ Len(Tail(t)) = Len(t) - 1
         /\ Head(t) = t[1] /\ Head(t) \in StepRec /\ 1 \in 1..Len(t)
         /\ \A i \in 1..Len(Tail(t)) : Tail(t)[i] = t[i + 1] /\ i + 1 \in 1..Len(t)
         /\ \A op, d : Due(Tail(t), op, d) => Due(t, op, d)
         /\ \A op, d : Due(t, op, d) => Due(Tail(t), op, d) \/ (Head(t).op = op /\ Head(t).d = d)
         /\ Due(t, Head(t).op, Head(t).d)
<1>1. /\ Tail(t) \in Seq(StepRec) /\ Len(t) \in Nat \ {0} /\ Len(Tail(t)) = Len(t) - 1
      /\ Head(t) = t[1] /\ Head(t) \in StepRec /\ 1 \in 1..Len(t)
      /\ \A i \in 1..Len(Tail(t)) : Tail(t)[i] = t[i + 1] /\ i + 1 \in 1..Len(t)
  OBVIOUS
<1>2. ASSUME NEW op, NEW d, Due(Tail(t), op, d) PROVE Due(t, op, d)
  <2>1. PICK i \in 1..Len(Tail(t)) : Tail(t)[i].op = op /\ Tail(t)[i].d = d
    BY <1>2 DEF Due
  <2>2. i + 1 \in 1..Len(t) /\ t[i + 1].op = op /\ t[i + 1].d = d
    BY <1>1, <2>1
  <2> QED BY <2>2 DEF Due
<1>3. ASSUME NEW op, NEW d, Due(t, op, d), ~(Head(t).op = op /\ Head(t).d = d)
      PROVE  Due(Tail(t), op, d)
  <2>1. PICK i \in 1..Len(t) : t[i].op = op /\ t[i].d = d
    BY <1>3 DEF Due
  <2>2. i # 1 /\ i - 1 \in 1..Len(Tail(t)) /\ Tail(t)[i - 1] = t[i]
    BY <1>1, <1>3, <2>1
  <2> QED BY <2>1, <2>2 DEF Due
<1>4. Due(t, Head(t).op, Head(t).d)
  BY <1>1 DEF Due
<1> QED BY <1>1, <1>2, <1>3, <1>4

(* What two lists one after the other have to do.                          *)
LEMMA DueConcat ==
  ASSUME NEW s \in Seq(StepRec), NEW t \in Seq(StepRec)
  PROVE  /\ s \o t \in Seq(StepRec) /\ Len(s \o t) = Len(s) + Len(t) /\ Len(s) \in Nat /\ Len(t) \in Nat
         /\ \A i \in 1..Len(s) : (s \o t)[i] = s[i] /\ i \in 1..Len(s \o t)
         /\ \A i \in 1..Len(t) : (s \o t)[Len(s) + i] = t[i] /\ Len(s) + i \in 1..Len(s \o t)
         /\ \A i \in 1..Len(s \o t) : i \in 1..Len(s) \/ i - Len(s) \in 1..Len(t)
         /\ \A op, d : Due(s \o t, op, d) <=> Due(s, op, d) \/ Due(t, op, d)
<1>1. /\ s \o t \in Seq(StepRec) /\ Len(s \o t) = Len(s) + Len(t) /\ Len(s) \in Nat /\ Len(t) \in Nat
      /\ \A i \in 1..Len(s) : (s \o t)[i] = s[i]
      /\ \A i \in 1..Len(t) : (s \o t)[Len(s) + i] = t[i]
  BY ConcatProperties
<1>2. /\ \A i \in 1..Len(s) : i \in 1..Len(s \o t)
      /\ \A i \in 1..Len(t) : Len(s) + i \in 1..Len(s \o t)
      /\ \A i \in 1..Len(s \o t) : i \in 1..Len(s) \/ i - Len(s) \in 1..Len(t)
  BY <1>1
<1> DEFINE u == s \o t
<1> HIDE DEF u
<1>3. ASSUME NEW op, NEW d, Due(u, op, d) PROVE Due(s, op, d) \/ Due(t, op, d)
  <2>1. PICK i \in 1..Len(u) : u[i].op = op /\ u[i].d = d
    BY <1>3 DEF Due
  <2>2. CASE i \in 1..Len(s)
    BY <1>1, <2>1, <2>2 DEF Due, u
  <2>3. CASE i - Len(s) \in 1..Len(t)
    <3>1. i = Len(s) + (i - Len(s)) /\ u[i] = t[i - Len(s)]
      BY <1>1, <2>3 DEF u
    <3> QED BY <2>1, <2>3, <3>1 DEF Due
  <2> QED BY <1>2, <2>1, <2>2, <2>3 DEF u
<1>4. ASSUME NEW op, NEW d, Due(s, op, d) PROVE Due(u, op, d)
  BY <1>1, <1>2, <1>4 DEF Due, u
<1>5. ASSUME NEW op, NEW d, Due(t, op, d) PROVE Due(u, op, d)
  <2>1. PICK i \in 1..Len(t) : t[i].op = op /\ t[i].d = d
    BY <1>5 DEF Due
  <2>2. Len(s) + i \in 1..Len(u) /\ u[Len(s) + i] = t[i]
    BY <1>1, <1>2 DEF u
  <2> QED BY <2>1, <2>2 DEF Due
<1> QED BY <1>1, <1>2, <1>3, <1>4, <1>5 DEF u

(* A step put before a list.                                               *)
LEMMA DueOne ==
  ASSUME NEW op \in Ops, NEW d \in Devices
  PROVE  /\ Step(op, d) \in StepRec /\ Step(op, d).op = op /\ Step(op, d).d = d
         /\ <<Step(op, d)>> \in Seq(StepRec) /\ Len(<<Step(op, d)>>) = 1
         /\ <<Step(op, d)>>[1] = Step(op, d)
         /\ \A o, x : Due(<<Step(op, d)>>, o, x) <=> o = op /\ x = d
<1>1. Step(op, d) \in StepRec /\ Step(op, d).op = op /\ Step(op, d).d = d
  BY DEF Step, StepRec
<1> DEFINE s == Step(op, d)
<1> HIDE DEF s
<1>2. <<s>> \in Seq(StepRec) /\ Len(<<s>>) = 1 /\ <<s>>[1] = s
  BY <1>1 DEF s
<1>3. \A o, x : Due(<<s>>, o, x) <=> o = op /\ x = d
  BY <1>1, <1>2 DEF Due, s
<1> QED BY <1>1, <1>2, <1>3 DEF s

(* Sorting keeps the members of a set of devices.                          *)
LEMMA InOrderFacts ==
  ASSUME NEW S \in SUBSET Devices
  PROVE  /\ Cardinality(S) \in Nat /\ InOrder(S) \in [1..Cardinality(S) -> S]
         /\ \A x \in S : \E i \in 1..Cardinality(S) : InOrder(S)[i] = x
<1> DEFINE n == Cardinality(S)
           Below(x) == {e \in S : e < x}
           rank == [x \in S |-> Cardinality(Below(x))]
<1>1. IsFiniteSet(S) /\ S \subseteq Nat /\ n \in Nat
  BY HooksAssumption, FS_Subset, FS_CardinalityType
<1>2. \A x \in S : IsFiniteSet(Below(x)) /\ Cardinality(Below(x)) \in Nat /\ Below(x) \in SUBSET S /\ x \notin Below(x)
  BY <1>1, FS_Subset, FS_CardinalityType
<1>3. ASSUME NEW x \in S PROVE rank[x] \in 0..(n - 1)
  <2>1. IsFiniteSet(Below(x)) /\ Cardinality(Below(x)) \in Nat /\ Below(x) \in SUBSET S /\ x \notin Below(x)
    BY <1>2
  <2>2. rank[x] = Cardinality(Below(x))
    OBVIOUS
  <2> HIDE DEF Below, rank
  <2>3. Cardinality(Below(x)) <= n /\ (n = Cardinality(Below(x)) => S = Below(x))
    BY <1>1, <2>1, FS_Subset
  <2> QED BY <1>1, <2>1, <2>2, <2>3
<1>4. ASSUME NEW x \in S, NEW y \in S, x < y PROVE rank[x] < rank[y]
  <2>1. /\ IsFiniteSet(Below(y)) /\ Cardinality(Below(y)) \in Nat /\ Cardinality(Below(x)) \in Nat
    BY <1>2
  <2>2. Below(x) \in SUBSET Below(y) /\ x \in Below(y) /\ x \notin Below(x)
    <3>1. ASSUME NEW e \in S, e < x PROVE e < y
      BY <1>1, <1>4, <3>1
    <3> QED BY <1>2, <1>4, <3>1
  <2>3. rank[x] = Cardinality(Below(x)) /\ rank[y] = Cardinality(Below(y))
    OBVIOUS
  <2> HIDE DEF Below, rank
  <2>4. /\ Cardinality(Below(x)) <= Cardinality(Below(y))
        /\ Cardinality(Below(y)) = Cardinality(Below(x)) => Below(y) = Below(x)
    BY <2>1, <2>2, FS_Subset
  <2> QED BY <2>1, <2>2, <2>3, <2>4
<1>5. rank \in [S -> 0..(n - 1)]
  <2>1. rank = [x \in S |-> rank[x]]
    OBVIOUS
  <2> HIDE DEF rank
  <2> QED BY <1>3, <2>1
<1>6. \A x, y \in S : rank[x] = rank[y] => x = y
  <2> SUFFICES ASSUME NEW x \in S, NEW y \in S, rank[x] = rank[y], x # y PROVE FALSE
    OBVIOUS
  <2>1. (x < y \/ y < x) /\ rank[x] \in Int /\ rank[y] \in Int
    BY <1>1, <1>3
  <2> HIDE DEF rank
  <2> QED BY <1>4, <2>1
<1>7. \A k \in 0..(n - 1) : \E x \in S : rank[x] = k
  <2> HIDE DEF rank
  <2>1. rank \in Injection(S, 0..(n - 1))
    BY <1>5, <1>6 DEF Injection, IsInjective
  <2>2. IsFiniteSet(0..(n - 1)) /\ Cardinality(0..(n - 1)) = n
    <3>1. IsFiniteSet(0..(n - 1)) /\ Cardinality(0..(n - 1)) = IF 0 > n - 1 THEN 0 ELSE n - 1 - 0 + 1
      BY <1>1, FS_Interval
    <3> QED BY <1>1, <3>1
  <2>3. rank \in Surjection(S, 0..(n - 1))
    BY <2>1, <2>2, FS_Injection
  <2> QED BY <2>3 DEF Surjection
<1> DEFINE Rank(x) == Cardinality({e \in S : e < x})
<1>8. /\ \A x \in S : rank[x] = Rank(x)
      /\ InOrder(S) = [i \in 1..n |-> CHOOSE d \in S : Rank(d) = i - 1]
  BY DEF InOrder
<1> HIDE DEF rank, Rank, Below, n
<1>9. ASSUME NEW i \in 1..n PROVE InOrder(S)[i] \in S /\ rank[InOrder(S)[i]] = i - 1
  <2>1. \E x \in S : Rank(x) = i - 1
    BY <1>1, <1>7, <1>8
  <2> QED BY <1>8, <2>1
<1>10. ASSUME NEW x \in S PROVE \E i \in 1..n : InOrder(S)[i] = x
  <2>1. rank[x] + 1 \in 1..n /\ (rank[x] + 1) - 1 = rank[x]
    BY <1>1, <1>3
  <2> QED BY <1>6, <1>9, <2>1
<1>11. InOrder(S) \in [1..n -> S]
  BY <1>8, <1>9
<1> QED BY <1>1, <1>10, <1>11 DEF n

(* The steps of op for the devices of S, in order.                         *)
LEMMA StepsFor ==
  ASSUME NEW S \in SUBSET Devices, NEW op \in Ops
  PROVE  LET s == [i \in DOMAIN InOrder(S) |-> Step(op, InOrder(S)[i])]
         IN  /\ s \in Seq(StepRec) /\ \A i \in 1..Len(s) : s[i].op = op
             /\ \A o, x : Due(s, o, x) <=> o = op /\ x \in S
<1> DEFINE f == InOrder(S)
           n == Cardinality(S)
           s == [i \in DOMAIN f |-> Step(op, f[i])]
<1>1. n \in Nat /\ f \in [1..n -> S] /\ \A x \in S : \E i \in 1..n : f[i] = x
  BY InOrderFacts
<1> HIDE DEF f, n
<1>2. \A i \in 1..n : Step(op, f[i]) \in StepRec /\ Step(op, f[i]).op = op /\ Step(op, f[i]).d = f[i]
  BY <1>1 DEF Step, StepRec
<1>3. s \in Seq(StepRec) /\ Len(s) = n /\ \A i \in 1..n : s[i].op = op /\ s[i].d = f[i]
  <2>1. s = [i \in 1..n |-> Step(op, f[i])]
    BY <1>1
  <2>2. s \in [1..n -> StepRec] /\ \A i \in 1..n : s[i] = Step(op, f[i])
    BY <1>2, <2>1
  <2> HIDE DEF s
  <2>3. s \in Seq(StepRec) /\ Len(s) = n
    BY <1>1, <2>2
  <2> QED BY <1>2, <2>2, <2>3
<1> HIDE DEF s
<1>4. \A o, x : Due(s, o, x) <=> o = op /\ x \in S
  BY <1>1, <1>3 DEF Due
<1> QED BY <1>3, <1>4 DEF s, f

(* What seatHooks are given.                                               *)
LEMMA SeatStepsFacts ==
  ASSUME TypeOK, NEW q \in Seq(Devices), NEW n \in Nat
  PROVE  LET s == SeatSteps(q, n)
             was == LicensedOf(queue, seats)
             is == LicensedOf(q, n)
         IN  /\ s \in Seq(StepRec) /\ \A i \in 1..Len(s) : s[i].op \in {"userFor", "register"}
             /\ \A o, x : Due(s, o, x) <=> \/ o = "userFor" /\ x \in was \ is
                                           \/ o = "register" /\ x \in is \ was
<1> DEFINE was == LicensedOf(queue, seats)
           is == LicensedOf(q, n)
           a == [i \in DOMAIN InOrder(was \ is) |-> Step("userFor", InOrder(was \ is)[i])]
           b == [i \in DOMAIN InOrder(is \ was) |-> Step("register", InOrder(is \ was)[i])]
<1>1. was \subseteq Devices /\ is \subseteq Devices
  BY DEF TypeOK, LicensedOf
<1>2. SeatSteps(q, n) = a \o b
  BY DEF SeatSteps
<1>3. "userFor" \in Ops /\ "register" \in Ops
  BY DEF Ops
<1> HIDE DEF was, is
<1>4. /\ a \in Seq(StepRec) /\ \A i \in 1..Len(a) : a[i].op = "userFor"
      /\ \A o, x : Due(a, o, x) <=> o = "userFor" /\ x \in was \ is
  BY <1>1, <1>3, StepsFor
<1>5. /\ b \in Seq(StepRec) /\ \A i \in 1..Len(b) : b[i].op = "register"
      /\ \A o, x : Due(b, o, x) <=> o = "register" /\ x \in is \ was
  BY <1>1, <1>3, StepsFor
<1> HIDE DEF a, b
<1>6. /\ a \o b \in Seq(StepRec) /\ Len(a) \in Nat
      /\ \A i \in 1..Len(a) : (a \o b)[i] = a[i]
      /\ \A i \in 1..Len(b) : (a \o b)[Len(a) + i] = b[i]
      /\ \A i \in 1..Len(a \o b) : i \in 1..Len(a) \/ i - Len(a) \in 1..Len(b)
      /\ \A o, x : Due(a \o b, o, x) <=> Due(a, o, x) \/ Due(b, o, x)
  BY <1>4, <1>5, DueConcat
<1>7. ASSUME NEW i \in 1..Len(a \o b) PROVE (a \o b)[i].op \in {"userFor", "register"}
  <2>1. CASE i \in 1..Len(a)
    BY <1>4, <1>6, <2>1
  <2>2. CASE i - Len(a) \in 1..Len(b)
    <3>1. i = Len(a) + (i - Len(a))
      BY <1>6
    <3>2. (a \o b)[i] = b[i - Len(a)]
      BY <1>6, <2>2, <3>1
    <3> QED BY <1>5, <2>2, <3>2
  <2> QED BY <1>6, <2>1, <2>2
<1>8. \A o, x : Due(a \o b, o, x) <=> \/ o = "userFor" /\ x \in was \ is
                                      \/ o = "register" /\ x \in is \ was
  BY <1>4, <1>5, <1>6
<1> QED BY <1>2, <1>6, <1>7, <1>8 DEF was, is

-----------------------------------------------------------------------------
(* Orderly lists.                                                          *)

(* The rest of an orderly list is orderly,                                 *)
LEMMA OrderlyTail ==
  ASSUME NEW t \in Seq(StepRec), t # <<>>, Orderly(t)
  PROVE  Orderly(Tail(t))
<1> DEFINE u == Tail(t)
<1>1. /\ Len(t) \in Nat \ {0} /\ Len(u) = Len(t) - 1
      /\ \A i \in 1..Len(u) : u[i] = t[i + 1] /\ i + 1 \in 1..Len(t)
  BY DueTail
<1> HIDE DEF u
<1> SUFFICES ASSUME NEW p \in 1..Len(u), u[p].op \in Writes
             PROVE  /\ \A q \in 1..Len(u) : q > p => u[q].op \in Follows(u[p].op) /\ u[q].d = u[p].d
                    /\ \E q \in 1..Len(u) : q > p /\ u[q].op = "provision"
  BY DEF Orderly, u
<1>2. u[p] = t[p + 1] /\ p + 1 \in 1..Len(t) /\ t[p + 1].op \in Writes
  BY <1>1
<1>3. \A q \in 1..Len(t) : q > p + 1 => t[q].op \in Follows(u[p].op) /\ t[q].d = u[p].d
  BY <1>2 DEF Orderly
<1>4. PICK q \in 1..Len(t) : q > p + 1 /\ t[q].op = "provision"
  BY <1>2 DEF Orderly
<1>5. q - 1 \in 1..Len(u) /\ q - 1 > p /\ u[q - 1].op = "provision"
  BY <1>1, <1>4
<1>6. ASSUME NEW i \in 1..Len(u), i > p PROVE u[i].op \in Follows(u[p].op) /\ u[i].d = u[p].d
  BY <1>1, <1>3, <1>6
<1> QED BY <1>5, <1>6

(* and so is one with steps that write nothing put before it.              *)
LEMMA OrderlyBefore ==
  ASSUME NEW s \in Seq(StepRec), NEW t \in Seq(StepRec), Orderly(t),
         \A i \in 1..Len(s) : s[i].op \notin Writes
  PROVE  Orderly(s \o t)
<1> DEFINE u == s \o t
           n == Len(s)
<1>1. /\ Len(u) = n + Len(t) /\ n \in Nat /\ Len(t) \in Nat
      /\ \A i \in 1..n : u[i] = s[i]
      /\ \A i \in 1..Len(t) : u[n + i] = t[i] /\ n + i \in 1..Len(u)
      /\ \A i \in 1..Len(u) : i \in 1..n \/ i - n \in 1..Len(t)
  BY DueConcat
<1> HIDE DEF u, n
<1>2. \A i \in 1..Len(u) : i - n \in 1..Len(t) => u[i] = t[i - n]
  <2> SUFFICES ASSUME NEW i \in 1..Len(u), i - n \in 1..Len(t) PROVE u[i] = t[i - n]
    OBVIOUS
  <2>1. i = n + (i - n)
    BY <1>1
  <2> QED BY <1>1, <2>1
<1> SUFFICES ASSUME NEW p \in 1..Len(u), u[p].op \in Writes
             PROVE  /\ \A q \in 1..Len(u) : q > p => u[q].op \in Follows(u[p].op) /\ u[q].d = u[p].d
                    /\ \E q \in 1..Len(u) : q > p /\ u[q].op = "provision"
  BY DEF Orderly, u
<1>3. p - n \in 1..Len(t) /\ u[p] = t[p - n]
  BY <1>1, <1>2 DEF n
<1>4. \A q \in 1..Len(t) : q > p - n => t[q].op \in Follows(u[p].op) /\ t[q].d = u[p].d
  BY <1>3 DEF Orderly
<1>5. PICK q \in 1..Len(t) : q > p - n /\ t[q].op = "provision"
  BY <1>3 DEF Orderly
<1>6. n + q \in 1..Len(u) /\ n + q > p /\ u[n + q].op = "provision"
  BY <1>1, <1>5
<1>7. ASSUME NEW i \in 1..Len(u), i > p PROVE u[i].op \in Follows(u[p].op) /\ u[i].d = u[p].d
  <2>1. i - n \in 1..Len(t) /\ i - n > p - n
    BY <1>1, <1>3, <1>7
  <2> QED BY <1>2, <1>4, <2>1
<1> QED BY <1>6, <1>7

(* A write put before the steps that may follow it.                        *)
LEMMA OrderlyWrite ==
  ASSUME NEW w \in StepRec, w.op \in Writes, NEW t \in Seq(StepRec), Orderly(t),
         \A i \in 1..Len(t) : t[i].op \in Follows(w.op) /\ t[i].d = w.d,
         Due(t, "provision", w.d)
  PROVE  Orderly(<<w>> \o t)
<1> DEFINE u == <<w>> \o t
<1>1. /\ <<w>> \in Seq(StepRec) /\ Len(<<w>>) = 1 /\ <<w>>[1] = w
  OBVIOUS
<1>2. /\ Len(u) = 1 + Len(t) /\ Len(t) \in Nat /\ u[1] = w
      /\ \A i \in 1..Len(t) : u[1 + i] = t[i] /\ 1 + i \in 1..Len(u)
      /\ \A i \in 1..Len(u) : i = 1 \/ i - 1 \in 1..Len(t)
  BY <1>1, DueConcat
<1> HIDE DEF u
<1>3. \A i \in 1..Len(u) : i # 1 => i - 1 \in 1..Len(t) /\ u[i] = t[i - 1]
  BY <1>2
<1> SUFFICES ASSUME NEW p \in 1..Len(u), u[p].op \in Writes
             PROVE  /\ \A q \in 1..Len(u) : q > p => u[q].op \in Follows(u[p].op) /\ u[q].d = u[p].d
                    /\ \E q \in 1..Len(u) : q > p /\ u[q].op = "provision"
  BY DEF Orderly, u
<1>4. CASE p = 1
  <2>1. PICK q \in 1..Len(t) : t[q].op = "provision"
    BY DEF Due
  <2>2. 1 + q \in 1..Len(u) /\ 1 + q > p /\ u[1 + q].op = "provision"
    BY <1>2, <1>4, <2>1
  <2>3. \A i \in 1..Len(u) : i > p => u[i].op \in Follows(u[p].op) /\ u[i].d = u[p].d
    BY <1>2, <1>3, <1>4
  <2> QED BY <2>2, <2>3
<1>5. CASE p # 1
  <2>1. p - 1 \in 1..Len(t) /\ u[p] = t[p - 1]
    BY <1>3, <1>5
  <2>2. \A q \in 1..Len(t) : q > p - 1 => t[q].op \in Follows(u[p].op) /\ t[q].d = u[p].d
    BY <2>1 DEF Orderly
  <2>3. PICK q \in 1..Len(t) : q > p - 1 /\ t[q].op = "provision"
    BY <2>1 DEF Orderly
  <2>4. 1 + q \in 1..Len(u) /\ 1 + q > p /\ u[1 + q].op = "provision"
    BY <1>2, <2>3
  <2>5. ASSUME NEW i \in 1..Len(u), i > p PROVE u[i].op \in Follows(u[p].op) /\ u[i].d = u[p].d
    <3>1. i # 1 /\ i - 1 \in 1..Len(t) /\ i - 1 > p - 1 /\ u[i] = t[i - 1]
      BY <1>3, <2>1, <2>5
    <3> QED BY <2>2, <3>1
  <2> QED BY <2>4, <2>5
<1> QED BY <1>4, <1>5

(* A list that begins with a write has nothing to undo, and no line to     *)
(* register.                                                               *)
LEMMA WriteFirst ==
  ASSUME NEW t \in Seq(StepRec), t # <<>>, Orderly(t), Head(t).op \in Writes
  PROVE  /\ Due(Tail(t), "provision", Head(t).d)
         /\ \A op, x : Due(Tail(t), op, x) => op \in Follows(Head(t).op) /\ x = Head(t).d
         /\ \A op, x : Due(t, op, x) => op \in Writes \cup {"provision"} /\ x = Head(t).d
<1> DEFINE u == Tail(t)
           h == Head(t)
<1>1. /\ Len(t) \in Nat \ {0} /\ Len(u) = Len(t) - 1 /\ h = t[1] /\ 1 \in 1..Len(t)
      /\ \A i \in 1..Len(u) : u[i] = t[i + 1] /\ i + 1 \in 1..Len(t)
      /\ \A op, x : Due(t, op, x) => Due(u, op, x) \/ (h.op = op /\ h.d = x)
  BY DueTail
<1> HIDE DEF u, h
<1>2. /\ \A q \in 1..Len(t) : q > 1 => t[q].op \in Follows(h.op) /\ t[q].d = h.d
      /\ \E q \in 1..Len(t) : q > 1 /\ t[q].op = "provision"
  BY <1>1 DEF Orderly, h
<1>3. PICK q \in 1..Len(t) : q > 1 /\ t[q].op = "provision" /\ t[q].d = h.d
  BY <1>2
<1>4. q - 1 \in 1..Len(u) /\ u[q - 1] = t[q]
  BY <1>1, <1>3
<1>5. Due(u, "provision", h.d)
  BY <1>3, <1>4 DEF Due
<1>6. ASSUME NEW op, NEW x, Due(u, op, x) PROVE op \in Follows(h.op) /\ x = h.d
  <2>1. PICK i \in 1..Len(u) : u[i].op = op /\ u[i].d = x
    BY <1>6 DEF Due
  <2>2. u[i] = t[i + 1] /\ i + 1 \in 1..Len(t) /\ i + 1 > 1
    BY <1>1
  <2> QED BY <1>2, <2>1, <2>2
<1>7. Follows(h.op) \subseteq Writes \cup {"provision"} /\ h.op \in Writes
  BY DEF Follows, Writes, h
<1>8. \A op, x : Due(t, op, x) => op \in Writes \cup {"provision"} /\ x = h.d
  BY <1>1, <1>6, <1>7
<1> QED BY <1>5, <1>6, <1>8 DEF u, h

(* The empty list.                                                         *)
LEMMA NothingDue ==
  /\ <<>> \in Seq(StepRec) /\ Len(<<>>) = 0 /\ Orderly(<<>>)
  /\ \A op, x : ~Due(<<>>, op, x)
  /\ \A t \in Seq(StepRec) : t \o <<>> = t
<1>1. <<>> \in Seq(StepRec) /\ Len(<<>>) = 0
  OBVIOUS
<1> QED BY <1>1 DEF Due, Orderly

-----------------------------------------------------------------------------
(* The seat queue.                                                         *)

(* Taking a device out of the queue leaves the others, each once.          *)
LEMMA WithoutFacts ==
  ASSUME NEW q \in Seq(Devices), NEW d,
         \A i, j \in 1..Len(q) : q[i] = q[j] => i = j
  PROVE  /\ Without(q, d) \in Seq(Devices)
         /\ \A i, j \in 1..Len(Without(q, d)) : Without(q, d)[i] = Without(q, d)[j] => i = j
         /\ \A x : Within(Without(q, d), x) <=> Within(q, x) /\ x # d
<1>1. CASE ~\E i \in DOMAIN q : q[i] = d
  BY <1>1 DEF Without, Within
<1>2. CASE \E i \in DOMAIN q : q[i] = d
  <2> DEFINE k == CHOOSE i \in DOMAIN q : q[i] = d
             u == [j \in 1..(Len(q) - 1) |-> IF j < k THEN q[j] ELSE q[j + 1]]
  <2>1. k \in 1..Len(q) /\ q[k] = d /\ Len(q) \in Nat
    BY <1>2
  <2>2. Without(q, d) = u
    <3> DEFINE a == SubSeq(q, 1, k - 1)
               b == SubSeq(q, k + 1, Len(q))
    <3>1. Without(q, d) = a \o b
      BY <1>2 DEF Without, RemoveAt
    <3> HIDE DEF k
    <3>2. /\ a \in Seq(Devices) /\ Len(a) = k - 1 /\ \A i \in 1..(k - 1) : a[i] = q[i]
      BY <2>1
    <3>3. /\ b \in Seq(Devices) /\ Len(b) = Len(q) - k /\ \A i \in 1..(Len(q) - k) : b[i] = q[k + i]
      BY <2>1
    <3> HIDE DEF a, b
    <3>4. /\ a \o b \in Seq(Devices) /\ Len(a \o b) = Len(q) - 1 /\ DOMAIN (a \o b) = 1..(Len(q) - 1)
          /\ \A i \in 1..(k - 1) : (a \o b)[i] = q[i]
          /\ \A i \in 1..(Len(q) - k) : (a \o b)[(k - 1) + i] = q[k + i]
      BY <2>1, <3>2, <3>3, ConcatProperties
    <3>5. ASSUME NEW j \in 1..(Len(q) - 1)
          PROVE  (a \o b)[j] = IF j < k THEN q[j] ELSE q[j + 1]
      <4>1. CASE j < k
        BY <2>1, <3>4, <4>1
      <4>2. CASE ~(j < k)
        <5>1. j - (k - 1) \in 1..(Len(q) - k) /\ (k - 1) + (j - (k - 1)) = j /\ k + (j - (k - 1)) = j + 1
          BY <2>1, <4>2
        <5> QED BY <3>4, <4>2, <5>1
      <4> QED BY <4>1, <4>2
    <3>6. a \o b = [j \in 1..(Len(q) - 1) |-> (a \o b)[j]]
      <4> DEFINE c == a \o b
      <4>1. c \in Seq(Devices) /\ DOMAIN c = 1..(Len(q) - 1)
        BY <3>4
      <4> HIDE DEF c
      <4>2. c = [j \in 1..(Len(q) - 1) |-> c[j]]
        BY <4>1
      <4> QED BY <4>2 DEF c
    <3> QED BY <3>1, <3>5, <3>6
  <2> HIDE DEF k
  <2>3. /\ \A j \in 1..(Len(q) - 1) : u[j] = (IF j < k THEN q[j] ELSE q[j + 1])
        /\ \A j \in 1..(Len(q) - 1) : u[j] \in Devices
    BY <2>1
  <2>4. u = [j \in 1..(Len(q) - 1) |-> u[j]]
    OBVIOUS
  <2> HIDE DEF u
  <2>5. u \in Seq(Devices) /\ Len(u) = Len(q) - 1
    <3>1. u \in [1..(Len(q) - 1) -> Devices]
      BY <2>3, <2>4
    <3> QED BY <2>1, <3>1
  <2>6. ASSUME NEW i \in 1..Len(u), NEW j \in 1..Len(u), u[i] = u[j] PROVE i = j
    BY <2>1, <2>3, <2>5, <2>6
  <2>7. ASSUME NEW x, Within(u, x) PROVE Within(q, x) /\ x # d
    <3>1. PICK i \in 1..Len(u) : u[i] = x
      BY <2>7 DEF Within
    <3>2. CASE i < k
      <4>1. i \in 1..Len(q) /\ i # k /\ q[i] = x
        BY <2>1, <2>3, <2>5, <3>1, <3>2
      <4> QED BY <2>1, <4>1 DEF Within
    <3>3. CASE ~(i < k)
      <4>1. i + 1 \in 1..Len(q) /\ i + 1 # k /\ q[i + 1] = x
        BY <2>1, <2>3, <2>5, <3>1, <3>3
      <4> QED BY <2>1, <4>1 DEF Within
    <3> QED BY <3>2, <3>3
  <2>8. ASSUME NEW x, Within(q, x), x # d PROVE Within(u, x)
    <3>1. PICK i \in 1..Len(q) : q[i] = x
      BY <2>8 DEF Within
    <3>2. CASE i < k
      <4>1. i \in 1..Len(u) /\ u[i] = x
        BY <2>1, <2>3, <2>5, <3>1, <3>2
      <4> QED BY <4>1 DEF Within
    <3>3. CASE ~(i < k)
      <4>1. i > k /\ i - 1 \in 1..Len(u) /\ ~(i - 1 < k) /\ (i - 1) + 1 = i
        BY <2>1, <2>5, <2>8, <3>1, <3>3
      <4>2. u[i - 1] = x
        BY <2>3, <2>5, <3>1, <4>1
      <4> QED BY <4>1, <4>2 DEF Within
    <3> QED BY <3>2, <3>3
  <2> QED BY <2>2, <2>5, <2>6, <2>7, <2>8
<1> QED BY <1>1, <1>2

(* A device that takes a free seat is within the seats.                    *)
LEMMA AppendFacts ==
  ASSUME NEW q \in Seq(Devices), NEW d \in Devices, ~Within(q, d), NEW n \in Nat, Len(q) < n,
         \A i, j \in 1..Len(q) : q[i] = q[j] => i = j
  PROVE  /\ Append(q, d) \in Seq(Devices) /\ d \in LicensedOf(Append(q, d), n)
         /\ \A i, j \in 1..Len(Append(q, d)) : Append(q, d)[i] = Append(q, d)[j] => i = j
         /\ \A x : Within(Append(q, d), x) <=> Within(q, x) \/ x = d
<1> DEFINE u == Append(q, d)
<1>1. /\ u \in Seq(Devices) /\ Len(u) = Len(q) + 1 /\ Len(q) \in Nat
      /\ \A i \in 1..Len(q) : u[i] = q[i]
      /\ u[Len(q) + 1] = d /\ DOMAIN u = 1..Len(u)
  OBVIOUS
<1> HIDE DEF u
<1>2. Len(q) + 1 \in DOMAIN u /\ Len(q) + 1 <= n
  BY <1>1
<1>3. d \in LicensedOf(u, n)
  BY <1>1, <1>2 DEF LicensedOf
<1>4. \A i, j \in 1..Len(u) : u[i] = u[j] => i = j
  <2> SUFFICES ASSUME NEW i \in 1..Len(u), NEW j \in 1..Len(u), u[i] = u[j] PROVE i = j
    OBVIOUS
  <2>1. (i \in 1..Len(q) \/ i = Len(q) + 1) /\ (j \in 1..Len(q) \/ j = Len(q) + 1)
    BY <1>1
  <2> QED BY <1>1, <2>1 DEF Within
<1>5. ASSUME NEW x, Within(u, x), x # d PROVE Within(q, x)
  <2>1. PICK i \in 1..Len(u) : u[i] = x
    BY <1>5 DEF Within
  <2>2. i \in 1..Len(q)
    BY <1>1, <1>5, <2>1
  <2> QED BY <1>1, <2>1, <2>2 DEF Within
<1>6. ASSUME NEW x, Within(q, x) PROVE Within(u, x)
  <2>1. PICK i \in 1..Len(q) : q[i] = x
    BY <1>6 DEF Within
  <2>2. i \in 1..Len(u) /\ u[i] = x
    BY <1>1, <2>1
  <2> QED BY <2>2 DEF Within
<1>7. Within(u, d)
  BY <1>1, <1>2 DEF Within
<1> QED BY <1>1, <1>3, <1>4, <1>5, <1>6, <1>7 DEF u

-----------------------------------------------------------------------------
(* Steps that leave the store alone.                                       *)

(* Whether a device holds a seat, and one beyond the licensed ones.        *)
LEMMA HolderIs ==
  ASSUME TypeOK
  PROVE  /\ \A d : Holder(d) <=> Within(queue, d)
         /\ \A d : Unlicensed(d) <=> Within(queue, d) /\ d \notin LicensedOf(queue, seats)
         /\ \A d : Within(queue, d) => d \in Devices
<1>1. queue \in Seq(Devices) /\ DOMAIN queue = 1..Len(queue)
  BY DEF TypeOK
<1> QED BY <1>1 DEF Holder, Within, Unlicensed

(* A step that leaves the store alone leaves alone what is said of the     *)
(* store.                                                                  *)
LEMMA StoreSame ==
  ASSUME rec' = rec, queue' = queue, seats' = seats
  PROVE  /\ \A d : Unlicensed(d)' <=> Unlicensed(d)
         /\ \A d : ToServe(d)' <=> ToServe(d)
         /\ FreeSeat' <=> FreeSeat
         /\ QueueKept' <=> QueueKept
BY DEF Unlicensed, Holder, ToServe, FreeSeat, QueueKept

(* A list replaced outright: an answer, a restart, a new POST.             *)
LEMMA ListReplaced ==
  ASSUME NEW r, Requests = {r}, HooksInv, TypeOK', NEW t \in Seq(StepRec), Orderly(t),
         todo' = [todo EXCEPT ![r] = t], UNCHANGED <<rec, queue, seats>>,
         \A op, x : Due(t, op, x) => op \in Writes \cup {"provision"},
         \A x \in Devices : Due(t, "create", x) => rec[x] = Absent,
         \A x \in Devices : Due(t, "issue", x) =>
            FreeSeat \/ (rec[x] # Absent /\ (rec[x].revoked \/ x \in prov')),
         \A x \in Devices : rec[x] # Absent /\ ~rec[x].revoked => x \in prov',
         \A x \in Devices : ToServe(x) => x \in lines',
         \A x \in Devices : Unlicensed(x) => x \notin lines'
  PROVE  HooksInv'
<1>1. todo'[r] = t
  BY DEF HooksInv, TypeOK
<1>2. /\ \A d : Unlicensed(d)' <=> Unlicensed(d)
      /\ \A d : ToServe(d)' <=> ToServe(d)
      /\ FreeSeat' <=> FreeSeat
      /\ QueueKept' <=> QueueKept
      /\ rec' = rec
  BY StoreSame
<1>3. \A op, x : Due(t, op, x) => op \notin {"put", "userFor", "delete", "lookup", "deprovision"}
  BY DEF Writes
<1>4. ListKept'
  BY <1>1, <1>2 DEF ListKept
<1>5. HooksKept'
  BY <1>1, <1>3 DEF HooksKept
<1>6. LiveKept' /\ ServedKept' /\ SeatlessKept'
  BY <1>1, <1>2 DEF LiveKept, ServedKept, SeatlessKept
<1> QED BY <1>2, <1>4, <1>5, <1>6 DEF HooksInv

(* The first step of a list done, the steps s put in its place.            *)
LEMMA HookKeeps ==
  ASSUME NEW r, Requests = {r}, HooksInv, TypeOK', todo[r] # <<>>,
         NEW s \in Seq(StepRec), \A i \in 1..Len(s) : s[i].op \notin Writes,
         todo' = [todo EXCEPT ![r] = s \o Tail(todo[r])], UNCHANGED <<rec, queue, seats>>,
         \A x \in Devices : Due(s, "put", x) => ~Unlicensed(x),
         \A x \in Devices : Due(s, "userFor", x) \/ Due(s, "delete", x) => ~ToServe(x),
         \A x \in Devices : Due(s, "lookup", x) \/ Due(s, "deprovision", x)
                              => rec[x] = Absent \/ rec[x].revoked,
         \A x \in Devices : rec[x] # Absent /\ ~rec[x].revoked =>
            /\ x \in prov => x \in prov'
            /\ Head(todo[r]).op = "provision" /\ Head(todo[r]).d = x => x \in prov',
         \A x \in Devices : ToServe(x) =>
            /\ x \in lines => x \in lines'
            /\ Head(todo[r]).op \in Lays /\ Head(todo[r]).d = x
                 => x \in lines' \/ \E op \in Lays : Due(s, op, x),
         \A x \in Devices : Unlicensed(x) =>
            /\ x \notin lines => x \notin lines'
            /\ Head(todo[r]).op \in {"userFor", "delete"} /\ Head(todo[r]).d = x
                 => x \notin lines' \/ Due(s, "userFor", x) \/ Due(s, "delete", x)
  PROVE  HooksInv'
<1> DEFINE t == todo[r]
           h == Head(t)
           u == s \o Tail(t)
<1>1. todo'[r] = u /\ t \in Seq(StepRec) /\ t # <<>>
  BY DEF HooksInv, TypeOK, StepRec
<1>2. /\ Tail(t) \in Seq(StepRec)
      /\ \A op, x : Due(Tail(t), op, x) => Due(t, op, x)
      /\ \A op, x : Due(t, op, x) => Due(Tail(t), op, x) \/ (h.op = op /\ h.d = x)
  BY <1>1, DueTail
<1>3. \A op, x : Due(u, op, x) <=> Due(s, op, x) \/ Due(Tail(t), op, x)
  BY <1>2, DueConcat
<1>4. /\ \A d : Unlicensed(d)' <=> Unlicensed(d)
      /\ \A d : ToServe(d)' <=> ToServe(d)
      /\ FreeSeat' <=> FreeSeat
      /\ QueueKept' <=> QueueKept
      /\ rec' = rec
  BY StoreSame
<1>5. /\ Orderly(t)
      /\ \A d \in Devices :
           /\ Due(t, "create", d) => rec[d] = Absent
           /\ Due(t, "issue", d) =>
                FreeSeat \/ (rec[d] # Absent /\ (rec[d].revoked \/ d \in prov))
  BY DEF HooksInv, ListKept
<1>6. Orderly(u)
  BY <1>1, <1>2, <1>5, OrderlyTail, OrderlyBefore
<1>7. \A op, x : Due(s, op, x) => op \notin Writes
  BY DEF Due
<1>8. \A d \in Devices :
        /\ Due(t, "put", d) => ~Unlicensed(d)
        /\ Due(t, "userFor", d) \/ Due(t, "delete", d) => ~ToServe(d)
        /\ Due(t, "lookup", d) \/ Due(t, "deprovision", d) => rec[d] = Absent \/ rec[d].revoked
  BY DEF HooksInv, HooksKept
<1>9. \A d \in Devices :
        /\ rec[d] # Absent /\ ~rec[d].revoked => d \in prov \/ Due(t, "provision", d)
        /\ ToServe(d) => d \in lines \/ \E op \in Lays : Due(t, op, d)
        /\ Unlicensed(d) => d \notin lines \/ Due(t, "userFor", d) \/ Due(t, "delete", d)
  BY DEF HooksInv, LiveKept, ServedKept, SeatlessKept
<1> HIDE DEF t, h, u
<1>10. ListKept'
  <2>1. \A d \in Devices :
           /\ Due(u, "create", d) => rec[d] = Absent
           /\ Due(u, "issue", d) =>
                FreeSeat \/ (rec[d] # Absent /\ (rec[d].revoked \/ d \in prov'))
    BY <1>2, <1>3, <1>5, <1>7 DEF Writes
  <2> QED BY <1>1, <1>4, <1>6, <2>1 DEF ListKept
<1>11. HooksKept'
  <2>1. \A d \in Devices :
        /\ Due(u, "put", d) => ~Unlicensed(d)
        /\ Due(u, "userFor", d) \/ Due(u, "delete", d) => ~ToServe(d)
        /\ Due(u, "lookup", d) \/ Due(u, "deprovision", d) => rec[d] = Absent \/ rec[d].revoked
    BY <1>2, <1>3, <1>8
  <2> QED BY <1>1, <1>4, <2>1 DEF HooksKept
<1>12. LiveKept'
  <2>1. \A d \in Devices : rec[d] # Absent /\ ~rec[d].revoked => d \in prov' \/ Due(u, "provision", d)
    BY <1>2, <1>3, <1>9 DEF h, t
  <2> QED BY <1>1, <1>4, <2>1 DEF LiveKept
<1>13. ServedKept'
  <2>1. ASSUME NEW d \in Devices, ToServe(d) PROVE d \in lines' \/ \E op \in Lays : Due(u, op, d)
    <3>1. CASE d \in lines
      BY <2>1, <3>1
    <3>2. CASE d \notin lines
      <4>1. PICK op \in Lays : Due(t, op, d)
        BY <1>9, <2>1, <3>2
      <4> QED BY <1>2, <1>3, <2>1, <4>1 DEF h, t
    <3> QED BY <3>1, <3>2
  <2> QED BY <1>1, <1>4, <2>1 DEF ServedKept
<1>14. SeatlessKept'
  <2>1. \A d \in Devices : Unlicensed(d) => d \notin lines' \/ Due(u, "userFor", d) \/ Due(u, "delete", d)
    BY <1>2, <1>3, <1>9 DEF h, t
  <2> QED BY <1>1, <1>4, <2>1 DEF SeatlessKept
<1> QED BY <1>4, <1>10, <1>11, <1>12, <1>13, <1>14 DEF HooksInv

-----------------------------------------------------------------------------
(* Writes of the store.                                                    *)

(* A write when nothing is to be undone and no line registered: the queue  *)
(* q and the count n of seats after it, the seat hooks, and what the       *)
(* handler does next.                                                      *)
LEMMA WriteKeeps ==
  ASSUME NEW r, Requests = {r}, HooksInv, NEW q \in Seq(Devices), NEW n \in Nat,
         NEW next \in Seq(StepRec), Orderly(next), TypeOK',
         queue' = q, seats' = n, todo' = [todo EXCEPT ![r] = SeatSteps(q, n) \o next],
         prov' = prov, lines' = lines,
         \A op, x : Due(todo[r], op, x) => op \in Writes \cup {"provision"},
         \A i, j \in 1..Len(q) : q[i] = q[j] => i = j,
         \A x \in Devices : Within(q, x) => rec'[x] # Absent /\ ~rec'[x].revoked,
         \A x \in Devices : Within(q, x) => Within(queue, x) \/ x \in LicensedOf(q, n),
         \A x \in Devices : Within(queue, x) => Within(q, x) \/ rec'[x] = Absent \/ rec'[x].revoked,
         \A op, x : Due(next, op, x) => op \notin {"create", "put", "delete", "deprovision"},
         \A x \in Devices : Due(next, "issue", x) =>
            Len(q) < n \/ (rec'[x] # Absent /\ (rec'[x].revoked \/ x \in prov)),
         \A x \in Devices : Due(next, "userFor", x) => rec'[x] = Absent \/ ~rec'[x].line,
         \A x \in Devices : Due(next, "lookup", x) => rec'[x] = Absent \/ rec'[x].revoked,
         \A x \in Devices : rec'[x] # Absent /\ ~rec'[x].revoked => x \in prov \/ Due(next, "provision", x),
         \A x \in Devices : rec'[x] # Absent /\ rec'[x].line /\ ~rec'[x].revoked =>
            Due(next, "register", x) \/ (rec[x] # Absent /\ rec[x].line /\ ~rec[x].revoked)
  PROVE  HooksInv'
<1> DEFINE s == SeatSteps(q, n)
           u == s \o next
           was == LicensedOf(queue, seats)
           is == LicensedOf(q, n)
<1>1. todo'[r] = u /\ TypeOK
  BY DEF HooksInv, TypeOK
<1>2. /\ s \in Seq(StepRec) /\ \A i \in 1..Len(s) : s[i].op \in {"userFor", "register"}
      /\ \A op, x : Due(s, op, x) <=> \/ op = "userFor" /\ x \in was \ is
                                      \/ op = "register" /\ x \in is \ was
  BY <1>1, SeatStepsFacts
<1>3. \A op, x : Due(u, op, x) <=> Due(s, op, x) \/ Due(next, op, x)
  BY <1>2, DueConcat
<1>4. Orderly(u)
  BY <1>2, OrderlyBefore DEF Writes
<1>5. /\ \A d : Unlicensed(d) <=> Within(queue, d) /\ d \notin was
      /\ \A d : Unlicensed(d)' <=> Within(q, d) /\ d \notin is
      /\ \A d : Within(q, d) => d \in Devices
      /\ \A d \in was : Within(queue, d) /\ d \in Devices
      /\ \A d \in is : Within(q, d) /\ d \in Devices
  <2>1. queue \in Seq(Devices) /\ DOMAIN queue = 1..Len(queue) /\ DOMAIN q = 1..Len(q)
    BY <1>1 DEF TypeOK
  <2> QED BY <2>1 DEF Unlicensed, Holder, Within, LicensedOf
<1>6. \A d \in Devices : ToServe(d)' <=>
        rec'[d] # Absent /\ rec'[d].line /\ ~rec'[d].revoked /\ ~(Within(q, d) /\ d \notin is)
  BY <1>5 DEF ToServe
<1>7. \A d \in Devices :
        /\ rec[d] # Absent /\ rec[d].line /\ ~rec[d].revoked =>
              d \in lines \/ (Within(queue, d) /\ d \notin was)
        /\ Within(queue, d) /\ d \notin was => d \notin lines
  <2>1. \A op \in Lays \cup {"userFor", "delete"}, d \in Devices : ~Due(todo[r], op, d)
    BY DEF Lays, Writes
  <2> QED BY <1>5, <2>1 DEF HooksInv, ServedKept, SeatlessKept, ToServe, Lays
<1> HIDE DEF s, u, was, is
<1>8. QueueKept'
  BY DEF QueueKept
<1>9. ListKept'
  <2>1. \A d \in Devices :
           /\ Due(u, "create", d) => rec'[d] = Absent
           /\ Due(u, "issue", d) =>
                Len(q) < n \/ (rec'[d] # Absent /\ (rec'[d].revoked \/ d \in prov))
    BY <1>2, <1>3
  <2> QED BY <1>1, <1>4, <2>1 DEF ListKept, FreeSeat
<1>10. HooksKept'
  <2>1. \A d \in Devices : ~Due(u, "put", d) /\ ~Due(u, "delete", d) /\ ~Due(u, "deprovision", d)
    BY <1>2, <1>3
  <2>2. ASSUME NEW d \in Devices, Due(u, "userFor", d) PROVE ~ToServe(d)'
    <3>1. CASE d \in was \ is
      BY <1>5, <1>6, <3>1
    <3>2. CASE Due(next, "userFor", d)
      BY <1>6, <3>2
    <3> QED BY <1>2, <1>3, <2>2, <3>1, <3>2
  <2>3. \A d \in Devices : Due(u, "lookup", d) => rec'[d] = Absent \/ rec'[d].revoked
    BY <1>2, <1>3
  <2> QED BY <1>1, <2>1, <2>2, <2>3 DEF HooksKept
<1>11. LiveKept'
  BY <1>1, <1>3 DEF LiveKept
<1>12. ServedKept'
  <2>1. ASSUME NEW d \in Devices, ToServe(d)' PROVE d \in lines \/ Due(u, "register", d)
    <3>1. CASE Due(next, "register", d)
      BY <1>3, <3>1
    <3>2. CASE ~Due(next, "register", d)
      <4>1. d \in lines \/ (Within(queue, d) /\ d \notin was)
        BY <1>6, <1>7, <2>1, <3>2
      <4>2. Within(queue, d) => d \in is
        BY <1>6, <2>1
      <4> QED BY <1>2, <1>3, <4>1, <4>2
    <3> QED BY <3>1, <3>2
  <2> QED BY <1>1, <2>1 DEF ServedKept, Lays
<1>13. SeatlessKept'
  <2>1. ASSUME NEW d \in Devices, Unlicensed(d)' PROVE d \notin lines \/ Due(u, "userFor", d)
    <3>1. Within(q, d) /\ d \notin is /\ Within(queue, d)
      BY <1>5, <2>1 DEF is
    <3>2. CASE d \in was
      BY <1>2, <1>3, <3>1, <3>2
    <3>3. CASE d \notin was
      BY <1>7, <3>1, <3>3
    <3> QED BY <3>2, <3>3
  <2> QED BY <1>1, <2>1 DEF SeatlessKept
<1> QED BY <1>8, <1>9, <1>10, <1>11, <1>12, <1>13 DEF HooksInv

(* One Commit for device d by a request with nothing to undo and no line   *)
(* to register.                                                            *)
LEMMA CommitKeeps ==
  ASSUME NEW r, Requests = {r}, HooksInv, NEW d \in Devices, NEW record \in Record \cup {Absent},
         NEW q \in Seq(Devices), NEW next \in Seq(StepRec), Orderly(next),
         Commit(r, d, record, q, next),
         \A op, x : Due(todo[r], op, x) => op \in Writes \cup {"provision"} /\ x = d,
         \A i, j \in 1..Len(q) : q[i] = q[j] => i = j,
         \A x : x # d => (Within(q, x) <=> Within(queue, x)),
         Within(q, d) => record # Absent /\ ~record.revoked,
         Within(q, d) => Within(queue, d) \/ d \in LicensedOf(q, seats),
         Within(queue, d) => Within(q, d) \/ record = Absent \/ record.revoked,
         \A op, x : Due(next, op, x) => op \notin {"create", "put", "delete", "deprovision"} /\ x = d,
         Due(next, "issue", d) => Len(q) < seats \/ (record # Absent /\ (record.revoked \/ d \in prov)),
         Due(next, "userFor", d) => record = Absent \/ ~record.line,
         Due(next, "lookup", d) => record = Absent \/ record.revoked,
         record # Absent /\ ~record.revoked => d \in prov \/ Due(next, "provision", d),
         record # Absent /\ record.line /\ ~record.revoked =>
            Due(next, "register", d) \/ (rec[d] # Absent /\ rec[d].line /\ ~rec[d].revoked)
  PROVE  HooksInv'
<1>1. /\ rec \in [Devices -> Record \cup {Absent}] /\ queue \in Seq(Devices) /\ seats \in Nat
      /\ prov \subseteq Devices /\ lines \subseteq Devices /\ todo \in [Requests -> Seq(StepRec)]
      /\ TypeOK /\ QueueKept /\ LiveKept
  BY DEF HooksInv, TypeOK, StepRec
<1>2. /\ rec' = [rec EXCEPT ![d] = record] /\ queue' = q /\ seats' = seats
      /\ prov' = prov /\ lines' = lines
      /\ todo' = [todo EXCEPT ![r] = SeatSteps(q, seats) \o next]
  BY DEF Commit
<1>3. /\ rec'[d] = record /\ \A x \in Devices : x # d => rec'[x] = rec[x]
      /\ rec' \in [Devices -> Record \cup {Absent}]
  BY <1>1, <1>2
<1>4. SeatSteps(q, seats) \in Seq(StepRec)
  BY <1>1, SeatStepsFacts
<1>5. SeatSteps(q, seats) \o next \in Seq(StepRec)
  BY <1>4, DueConcat
<1>6. TypeOK'
  <2> DEFINE u == SeatSteps(q, seats) \o next
  <2> HIDE DEF u
  <2>1. todo' \in [Requests -> Seq(StepRec)]
    BY <1>1, <1>2, <1>5 DEF u
  <2> QED BY <1>1, <1>2, <1>3, <2>1 DEF TypeOK, StepRec
<1>7. \A x \in Devices : x # d =>
        /\ Within(queue, x) => rec[x] # Absent /\ ~rec[x].revoked
        /\ rec[x] # Absent /\ ~rec[x].revoked => x \in prov
  BY <1>1 DEF QueueKept, LiveKept
<1>8. \A x \in Devices : Within(q, x) => rec'[x] # Absent /\ ~rec'[x].revoked
  BY <1>3, <1>7
<1>9. \A x \in Devices : Within(q, x) => Within(queue, x) \/ x \in LicensedOf(q, seats)
  OBVIOUS
<1>10. \A x \in Devices : Within(queue, x) => Within(q, x) \/ rec'[x] = Absent \/ rec'[x].revoked
  BY <1>3
<1>11. \A x \in Devices :
         /\ Due(next, "issue", x) =>
              Len(q) < seats \/ (rec'[x] # Absent /\ (rec'[x].revoked \/ x \in prov))
         /\ Due(next, "userFor", x) => rec'[x] = Absent \/ ~rec'[x].line
         /\ Due(next, "lookup", x) => rec'[x] = Absent \/ rec'[x].revoked
  BY <1>3
<1>12. \A x \in Devices : rec'[x] # Absent /\ ~rec'[x].revoked => x \in prov \/ Due(next, "provision", x)
  BY <1>3, <1>7
<1>13. \A x \in Devices : rec'[x] # Absent /\ rec'[x].line /\ ~rec'[x].revoked =>
            Due(next, "register", x) \/ (rec[x] # Absent /\ rec[x].line /\ ~rec[x].revoked)
  BY <1>3
<1> QED BY <1>1, <1>2, <1>6, <1>8, <1>9, <1>10, <1>11, <1>12, <1>13, WriteKeeps

(* What a request finds when it comes to the store.                        *)
LEMMA AtStore ==
  ASSUME NEW r, Requests = {r}, HooksInv, NEW d \in Devices
  PROVE  /\ TypeOK /\ todo[r] \in Seq(StepRec) /\ Orderly(todo[r]) /\ queue \in Seq(Devices)
         /\ seats \in Nat /\ r \in Requests
         /\ rec[d] \in Record \cup {Absent} /\ (d \in Known <=> rec[d] # Absent)
         /\ rec[d] # Absent => rec[d] \in Record
         /\ \A i, j \in 1..Len(queue) : queue[i] = queue[j] => i = j
         /\ Within(queue, d) => rec[d] # Absent /\ ~rec[d].revoked
         /\ Holder(d) <=> Within(queue, d)
         /\ Due(todo[r], "create", d) => rec[d] = Absent
         /\ Due(todo[r], "issue", d) => FreeSeat \/ (rec[d] # Absent /\ (rec[d].revoked \/ d \in prov))
         /\ rec[d] # Absent /\ ~rec[d].revoked => d \in prov \/ Due(todo[r], "provision", d)
<1>1. TypeOK
  BY DEF HooksInv
<1>2. Holder(d) <=> Within(queue, d)
  BY <1>1, HolderIs
<1> QED BY <1>1, <1>2 DEF HooksInv, TypeOK, StepRec, QueueKept, ListKept, LiveKept, Known

(* A request that has not begun.                                           *)
LEMMA FreeList ==
  ASSUME NEW r, Free(r)
  PROVE  todo[r] = <<>> /\ \A op, x : ~Due(todo[r], op, x)
BY NothingDue DEF Free

(* A list of one step that writes nothing.                                 *)
LEMMA OneStep ==
  ASSUME NEW op \in Ops \ Writes, NEW d \in Devices
  PROVE  /\ <<Step(op, d)>> \in Seq(StepRec) /\ Orderly(<<Step(op, d)>>)
         /\ \A o, x : Due(<<Step(op, d)>>, o, x) <=> o = op /\ x = d
<1>1. /\ Step(op, d).op = op /\ <<Step(op, d)>> \in Seq(StepRec) /\ Len(<<Step(op, d)>>) = 1
      /\ <<Step(op, d)>>[1] = Step(op, d)
      /\ \A o, x : Due(<<Step(op, d)>>, o, x) <=> o = op /\ x = d
  BY DueOne
<1> DEFINE s == <<Step(op, d)>>
<1> HIDE DEF s
<1>2. \A i \in 1..Len(s) : s[i].op \notin Writes
  BY <1>1 DEF s
<1>3. Orderly(s)
  BY <1>2 DEF Orderly
<1> QED BY <1>1, <1>3 DEF s

(* Revocations and purges: the hook that follows finds the device revoked  *)
(* or gone.                                                                *)
LEMMA RevokeKeeps ==
  ASSUME NEW r, Requests = {r}, HooksInv, NEW d \in Devices, RevokeDevice(r, d) \/ PurgeDevice(r, d)
  PROVE  HooksInv'
<1> DEFINE next == <<Step("lookup", d)>>
           q == Without(queue, d)
<1>1. Free(r) /\ d \in Known
  BY DEF RevokeDevice, PurgeDevice
<1>2. todo[r] = <<>> /\ \A op, x : ~Due(todo[r], op, x)
  BY <1>1, FreeList
<1>3. /\ next \in Seq(StepRec) /\ Orderly(next)
      /\ \A o, x : Due(next, o, x) <=> o = "lookup" /\ x = d
  BY OneStep DEF Ops, Writes
<1>4. /\ TypeOK /\ queue \in Seq(Devices) /\ rec[d] \in Record /\ seats \in Nat
      /\ todo \in [Requests -> Seq(StepRec)]
      /\ \A i, j \in 1..Len(queue) : queue[i] = queue[j] => i = j
  BY <1>1, AtStore DEF TypeOK, StepRec
<1>5. /\ q \in Seq(Devices) /\ \A i, j \in 1..Len(q) : q[i] = q[j] => i = j
      /\ \A x : Within(q, x) <=> Within(queue, x) /\ x # d
  BY <1>4, WithoutFacts
<1> HIDE DEF next, q
<1>6. CASE RevokeDevice(r, d) /\ rec[d].revoked
  <2>1. /\ todo' = [todo EXCEPT ![r] = next] /\ UNCHANGED <<rec, queue, seats>>
        /\ UNCHANGED <<prov, lines>>
    BY <1>6 DEF RevokeDevice, Goto, next
  <2>2. TypeOK'
    BY <1>3, <1>4, <2>1 DEF TypeOK, StepRec
  <2>3. todo'[r] = next
    BY <1>4, <2>1
  <2>4. /\ \A x : Unlicensed(x)' <=> Unlicensed(x)
        /\ \A x : ToServe(x)' <=> ToServe(x)
        /\ QueueKept' <=> QueueKept
        /\ rec' = rec /\ lines' = lines /\ prov' = prov
    BY <2>1, StoreSame
  <2>5. ListKept'
    BY <1>3, <2>3 DEF ListKept
  <2>6. HooksKept'
    BY <1>3, <1>6, <2>3, <2>4 DEF HooksKept
  <2>7. LiveKept' /\ ServedKept' /\ SeatlessKept'
    BY <1>2, <2>4 DEF HooksInv, LiveKept, ServedKept, SeatlessKept
  <2> QED BY <2>2, <2>4, <2>5, <2>6, <2>7 DEF HooksInv
<1>7. CASE RevokeDevice(r, d) /\ ~rec[d].revoked
  <2> DEFINE record == [rec[d] EXCEPT !.revoked = TRUE]
  <2>1. Commit(r, d, record, q, next)
    BY <1>7 DEF RevokeDevice, q, next
  <2>2. record \in Record /\ record.revoked
    BY <1>4 DEF Record
  <2> HIDE DEF record
  <2> QED BY <1>2, <1>3, <1>5, <2>1, <2>2, CommitKeeps
<1>8. CASE PurgeDevice(r, d)
  <2> DEFINE record == Absent
  <2>1. Commit(r, d, record, q, next)
    BY <1>8 DEF PurgeDevice, q, next
  <2>2. record \in Record \cup {Absent} /\ record = Absent
    OBVIOUS
  <2>3. ~Within(q, d) /\ \A x : x # d => (Within(q, x) <=> Within(queue, x))
    BY <1>5
  <2>4. \A op, x : Due(next, op, x) => op \notin {"create", "put", "delete", "deprovision"} /\ x = d
    BY <1>3
  <2>5. ~Due(next, "issue", d) /\ ~Due(next, "userFor", d)
    BY <1>3
  <2> HIDE DEF record
  <2> QED BY <1>2, <1>3, <1>5, <2>1, <2>2, <2>3, <2>4, <2>5, CommitKeeps
<1> QED BY <1>6, <1>7, <1>8

(* A new code: nothing the hooks are about changes.                        *)
LEMMA PostCodeKeeps ==
  ASSUME NEW r, Requests = {r}, HooksInv, NEW d \in Devices, PostCode(r, d)
  PROVE  HooksInv'
<1> DEFINE record == [rec[d] EXCEPT !.code = TRUE]
<1>1. Free(r) /\ d \in Known /\ Commit(r, d, record, queue, <<>>)
  BY DEF PostCode
<1>2. todo[r] = <<>> /\ \A op, x : ~Due(todo[r], op, x)
  BY <1>1, FreeList
<1>3. /\ queue \in Seq(Devices) /\ rec[d] \in Record /\ rec[d] # Absent
      /\ \A i, j \in 1..Len(queue) : queue[i] = queue[j] => i = j
      /\ Within(queue, d) => ~rec[d].revoked
      /\ ~rec[d].revoked => d \in prov
  BY <1>1, <1>2, AtStore
<1>4. record \in Record /\ record.revoked = rec[d].revoked /\ record.line = rec[d].line
  BY <1>3 DEF Record
<1> HIDE DEF record
<1>5. record # Absent
  BY <1>4, AbsentAssumption
<1>6. <<>> \in Seq(StepRec) /\ Orderly(<<>>) /\ \A op, x : ~Due(<<>>, op, x)
  BY NothingDue
<1> QED BY <1>1, <1>2, <1>3, <1>4, <1>5, <1>6, CommitKeeps

(* A claim un-revokes and takes a seat; provisioning and registering are   *)
(* due.                                                                    *)
LEMMA ClaimKeeps ==
  ASSUME NEW r, Requests = {r}, HooksInv, NEW d \in Devices, ClaimCode(r, d)
  PROVE  HooksInv'
<1> DEFINE record == [rec[d] EXCEPT !.enrolled = TRUE, !.revoked = FALSE, !.code = FALSE]
           q == IF Holder(d) THEN queue ELSE Append(queue, d)
           next == <<Step("provision", d), Step("register", d)>>
<1>1. Free(r) /\ d \in Known /\ (Holder(d) \/ FreeSeat) /\ Commit(r, d, record, q, next)
  BY DEF ClaimCode
<1>2. todo[r] = <<>> /\ \A op, x : ~Due(todo[r], op, x)
  BY <1>1, FreeList
<1>3. /\ queue \in Seq(Devices) /\ seats \in Nat /\ rec[d] \in Record
      /\ \A i, j \in 1..Len(queue) : queue[i] = queue[j] => i = j
      /\ Holder(d) <=> Within(queue, d)
  BY <1>1, AtStore
<1>4. record \in Record /\ ~record.revoked
  BY <1>3 DEF Record
<1>5. /\ q \in Seq(Devices) /\ \A i, j \in 1..Len(q) : q[i] = q[j] => i = j
      /\ \A x : x # d => (Within(q, x) <=> Within(queue, x))
      /\ Within(q, d) /\ (Within(queue, d) \/ d \in LicensedOf(q, seats))
  <2>1. CASE Holder(d)
    BY <1>3, <2>1
  <2>2. CASE ~Holder(d)
    <3>1. Len(queue) < seats
      BY <1>1, <2>2 DEF FreeSeat
    <3> QED BY <1>3, <2>2, <3>1, AppendFacts
  <2> QED BY <2>1, <2>2
<1>6. /\ next \in Seq(StepRec) /\ Orderly(next)
      /\ \A o, x : Due(next, o, x) <=> o \in {"provision", "register"} /\ x = d
  <2>1. /\ <<Step("provision", d)>> \in Seq(StepRec) /\ Orderly(<<Step("provision", d)>>)
        /\ \A o, x : Due(<<Step("provision", d)>>, o, x) <=> o = "provision" /\ x = d
    BY OneStep DEF Ops, Writes
  <2>2. /\ <<Step("register", d)>> \in Seq(StepRec) /\ Orderly(<<Step("register", d)>>)
        /\ \A o, x : Due(<<Step("register", d)>>, o, x) <=> o = "register" /\ x = d
    BY OneStep DEF Ops, Writes
  <2>3. next = <<Step("provision", d)>> \o <<Step("register", d)>>
    OBVIOUS
  <2>4. \A i \in 1..Len(<<Step("provision", d)>>) : <<Step("provision", d)>>[i].op \notin Writes
    BY DueOne DEF Ops, Writes
  <2> HIDE DEF next
  <2>5. next \in Seq(StepRec) /\ Orderly(next)
    BY <2>1, <2>2, <2>3, <2>4, DueConcat, OrderlyBefore
  <2>6. \A o, x : Due(next, o, x) <=> o \in {"provision", "register"} /\ x = d
    BY <2>1, <2>2, <2>3, DueConcat
  <2> QED BY <2>5, <2>6
<1> HIDE DEF record, q, next
<1>7. record # Absent
  BY <1>4, AbsentAssumption
<1> QED BY <1>1, <1>2, <1>4, <1>5, <1>6, <1>7, CommitKeeps

(* A line stored is due to be registered, one removed to be dropped.       *)
LEMMA LineKeeps ==
  ASSUME NEW r, Requests = {r}, HooksInv, NEW d \in Devices, PutLine(r, d) \/ DropLine(r, d)
  PROVE  HooksInv'
<1>1. Free(r) /\ d \in Known
  BY DEF PutLine, DropLine
<1>2. todo[r] = <<>> /\ \A op, x : ~Due(todo[r], op, x)
  BY <1>1, FreeList
<1>3. /\ queue \in Seq(Devices) /\ rec[d] \in Record
      /\ \A i, j \in 1..Len(queue) : queue[i] = queue[j] => i = j
      /\ Within(queue, d) => ~rec[d].revoked
      /\ ~rec[d].revoked => d \in prov
  BY <1>1, <1>2, AtStore
<1>4. CASE PutLine(r, d)
  <2> DEFINE record == [rec[d] EXCEPT !.line = TRUE]
             next == <<Step("register", d)>>
  <2>1. Commit(r, d, record, queue, next)
    BY <1>4 DEF PutLine
  <2>2. record \in Record /\ record.revoked = rec[d].revoked
    BY <1>3 DEF Record
  <2>3. /\ next \in Seq(StepRec) /\ Orderly(next)
        /\ \A o, x : Due(next, o, x) <=> o = "register" /\ x = d
    BY OneStep DEF Ops, Writes
  <2> HIDE DEF record, next
  <2>4. record # Absent
    BY <2>2, AbsentAssumption
  <2> QED BY <1>2, <1>3, <2>1, <2>2, <2>3, <2>4, CommitKeeps
<1>5. CASE DropLine(r, d)
  <2> DEFINE record == [rec[d] EXCEPT !.line = FALSE]
             next == <<Step("userFor", d)>>
  <2>1. Commit(r, d, record, queue, next)
    BY <1>5 DEF DropLine
  <2>2. record \in Record /\ record.revoked = rec[d].revoked /\ ~record.line
    BY <1>3 DEF Record
  <2>3. /\ next \in Seq(StepRec) /\ Orderly(next)
        /\ \A o, x : Due(next, o, x) <=> o = "userFor" /\ x = d
    BY OneStep DEF Ops, Writes
  <2> HIDE DEF record, next
  <2>4. record # Absent
    BY <2>2, AbsentAssumption
  <2> QED BY <1>2, <1>3, <2>1, <2>2, <2>3, <2>4, CommitKeeps
<1> QED BY <1>4, <1>5

(* A licence change.                                                       *)
LEMMA SetSeatsKeeps ==
  ASSUME NEW r, Requests = {r}, HooksInv, NEW n \in SeatCounts, SetSeats(r, n)
  PROVE  HooksInv'
<1>1. /\ seats' = n /\ todo' = [todo EXCEPT ![r] = SeatSteps(queue, n)] /\ Free(r)
      /\ rec' = rec /\ queue' = queue /\ prov' = prov /\ lines' = lines
  BY DEF SetSeats
<1>2. todo[r] = <<>> /\ \A op, x : ~Due(todo[r], op, x)
  BY <1>1, FreeList
<1>3. n \in Nat /\ TypeOK /\ queue \in Seq(Devices) /\ todo \in [Requests -> Seq(StepRec)]
  BY HooksAssumption DEF HooksInv, TypeOK, StepRec
<1>4. SeatSteps(queue, n) \in Seq(StepRec)
  BY <1>3, SeatStepsFacts
<1>5. SeatSteps(queue, n) \o <<>> = SeatSteps(queue, n)
  BY <1>4, NothingDue
<1>6. TypeOK'
  <2> DEFINE u == SeatSteps(queue, n)
  <2> HIDE DEF u
  <2>1. todo' \in [Requests -> Seq(StepRec)]
    BY <1>1, <1>3, <1>4 DEF u
  <2> QED BY <1>1, <1>3, <2>1 DEF TypeOK, StepRec
<1>7. <<>> \in Seq(StepRec) /\ Orderly(<<>>) /\ \A op, x : ~Due(<<>>, op, x)
  BY NothingDue
<1>8. /\ \A i, j \in 1..Len(queue) : queue[i] = queue[j] => i = j
      /\ \A x \in Devices : Within(queue, x) => rec'[x] # Absent /\ ~rec'[x].revoked
      /\ \A x \in Devices : rec'[x] # Absent /\ ~rec'[x].revoked => x \in prov
  BY <1>1, <1>2 DEF HooksInv, QueueKept, LiveKept
<1>9. todo' = [todo EXCEPT ![r] = SeatSteps(queue, n) \o <<>>]
  BY <1>1, <1>5
<1> QED BY <1>1, <1>2, <1>3, <1>6, <1>7, <1>8, <1>9, WriteKeeps

-----------------------------------------------------------------------------
(* The steps of POST /v1/admin/devices.                                    *)

(* The list a POST begins with.                                            *)
LEMMA PostList ==
  ASSUME NEW d \in Devices, NEW new \in BOOLEAN
  PROVE  LET i == [op |-> "issue", d |-> d, new |-> new]
             m == <<Step("mint", d), Step("provision", d)>>
         IN  /\ m \in Seq(StepRec) /\ Orderly(m)
             /\ \A o, x : Due(m, o, x) <=> o \in {"mint", "provision"} /\ x = d
             /\ <<i>> \o m \in Seq(StepRec) /\ Orderly(<<i>> \o m)
             /\ \A o, x : Due(<<i>> \o m, o, x) <=> o \in {"issue", "mint", "provision"} /\ x = d
<1> DEFINE i == [op |-> "issue", d |-> d, new |-> new]
           p == <<Step("provision", d)>>
           m == <<Step("mint", d), Step("provision", d)>>
<1>1. /\ p \in Seq(StepRec) /\ Orderly(p) /\ Len(p) = 1 /\ p[1].op = "provision" /\ p[1].d = d
      /\ \A o, x : Due(p, o, x) <=> o = "provision" /\ x = d
  BY OneStep, DueOne DEF Ops, Writes
<1>2. /\ Step("mint", d) \in StepRec /\ Step("mint", d).op = "mint" /\ Step("mint", d).d = d
      /\ <<Step("mint", d)>> \in Seq(StepRec)
      /\ \A o, x : Due(<<Step("mint", d)>>, o, x) <=> o = "mint" /\ x = d
  BY DueOne DEF Ops
<1>3. m = <<Step("mint", d)>> \o p
  OBVIOUS
<1> HIDE DEF p, m
<1>4. \A k \in 1..Len(p) : p[k].op \in Follows("mint") /\ p[k].d = d
  BY <1>1 DEF Follows
<1>5. Orderly(m)
  BY <1>1, <1>2, <1>3, <1>4, OrderlyWrite DEF Writes
<1>6. /\ m \in Seq(StepRec)
      /\ \A o, x : Due(m, o, x) <=> o \in {"mint", "provision"} /\ x = d
  BY <1>1, <1>2, <1>3, DueConcat
<1>7. i \in StepRec /\ i.op = "issue" /\ i.d = d
  BY DEF StepRec, Ops
<1> HIDE DEF i
<1>8. <<i>> \in Seq(StepRec) /\ \A o, x : Due(<<i>>, o, x) <=> o = "issue" /\ x = d
  BY <1>7 DEF Due
<1>9. \A k \in 1..Len(m) : m[k].op \in Follows("issue") /\ m[k].d = d
  <2> SUFFICES ASSUME NEW k \in 1..Len(m) PROVE m[k].op \in Follows("issue") /\ m[k].d = d
    OBVIOUS
  <2>1. Due(m, m[k].op, m[k].d)
    BY DEF Due
  <2> QED BY <1>6, <2>1 DEF Follows
<1>10. Due(m, "provision", d)
  BY <1>6
<1>11. Orderly(<<i>> \o m)
  BY <1>5, <1>6, <1>7, <1>9, <1>10, OrderlyWrite DEF Writes
<1>12. /\ <<i>> \o m \in Seq(StepRec)
       /\ \A o, x : Due(<<i>> \o m, o, x) <=> o \in {"issue", "mint", "provision"} /\ x = d
  <2>1. /\ <<i>> \o m \in Seq(StepRec)
        /\ \A o, x : Due(<<i>> \o m, o, x) <=> Due(<<i>>, o, x) \/ Due(m, o, x)
    BY <1>6, <1>8, DueConcat
  <2> QED BY <1>6, <1>8, <2>1
<1> QED BY <1>5, <1>6, <1>11, <1>12 DEF i, m

(* The list of a POST for a new device.                                    *)
LEMMA CreateList ==
  ASSUME NEW d \in Devices, NEW t \in Seq(StepRec), Orderly(t),
         \A o, x : Due(t, o, x) => o \in {"issue", "mint", "provision"} /\ x = d,
         Due(t, "provision", d)
  PROVE  /\ <<Step("create", d)>> \o t \in Seq(StepRec) /\ Orderly(<<Step("create", d)>> \o t)
         /\ \A o, x : Due(<<Step("create", d)>> \o t, o, x) <=> Due(t, o, x) \/ (o = "create" /\ x = d)
<1>1. /\ Step("create", d) \in StepRec /\ Step("create", d).op = "create" /\ Step("create", d).d = d
      /\ <<Step("create", d)>> \in Seq(StepRec)
      /\ \A o, x : Due(<<Step("create", d)>>, o, x) <=> o = "create" /\ x = d
  BY DueOne DEF Ops
<1>2. \A k \in 1..Len(t) : t[k].op \in Follows("create") /\ t[k].d = d
  <2> SUFFICES ASSUME NEW k \in 1..Len(t) PROVE t[k].op \in Follows("create") /\ t[k].d = d
    OBVIOUS
  <2>1. Due(t, t[k].op, t[k].d)
    BY DEF Due
  <2> QED BY <2>1 DEF Follows
<1>3. Orderly(<<Step("create", d)>> \o t)
  BY <1>1, <1>2, OrderlyWrite DEF Writes
<1> QED BY <1>1, <1>3, DueConcat

(* A POST tests for a seat before it creates anything.                     *)
LEMMA PostDeviceKeeps ==
  ASSUME NEW r, Requests = {r}, HooksInv, NEW d \in Devices, NEW tok \in BOOLEAN,
         PostDevice(r, d, tok)
  PROVE  HooksInv'
<1> DEFINE i == [op |-> "issue", d |-> d, new |-> d \notin Known]
           m == <<Step("mint", d), Step("provision", d)>>
           c == <<Step("create", d)>>
           t == (IF d \in Known THEN <<>> ELSE c) \o (IF tok THEN <<i>> ELSE <<>>) \o m
<1>1. /\ Free(r) /\ (d \in Known => tok) /\ (d \notin Known /\ tok => FreeSeat)
      /\ todo' = [todo EXCEPT ![r] = t] /\ UNCHANGED <<rec, queue, seats>> /\ UNCHANGED <<prov, lines>>
  BY DEF PostDevice, Goto
<1>2. todo[r] = <<>> /\ \A op, x : ~Due(todo[r], op, x)
  BY <1>1, FreeList
<1>3. /\ rec[d] # Absent <=> d \in Known
      /\ rec[d] # Absent /\ ~rec[d].revoked => d \in prov
      /\ TypeOK /\ todo \in [Requests -> Seq(StepRec)]
  BY <1>2, AtStore DEF TypeOK, StepRec
<1>4. (d \notin Known) \in BOOLEAN
  OBVIOUS
<1>5. /\ m \in Seq(StepRec) /\ Orderly(m)
      /\ \A o, x : Due(m, o, x) <=> o \in {"mint", "provision"} /\ x = d
      /\ <<i>> \o m \in Seq(StepRec) /\ Orderly(<<i>> \o m)
      /\ \A o, x : Due(<<i>> \o m, o, x) <=> o \in {"issue", "mint", "provision"} /\ x = d
  BY <1>4, PostList
<1>6. /\ c \in Seq(StepRec) /\ <<i>> \in Seq(StepRec)
  <2>1. c \in Seq(StepRec)
    BY DueOne DEF Ops
  <2>2. i \in StepRec
    BY <1>4 DEF Ops, StepRec
  <2> HIDE DEF i
  <2> QED BY <2>1, <2>2
<1> HIDE DEF i, m, c
<1>7. /\ t \in Seq(StepRec) /\ Orderly(t)
      /\ \A o, x : Due(t, o, x) =>
           /\ o \in Writes \cup {"provision"} /\ x = d
           /\ o = "create" => d \notin Known
           /\ o = "issue" => d \in Known \/ FreeSeat
  <2>1. CASE d \in Known
    <3>1. t = <<i>> \o m
      BY <1>1, <1>5, <1>6, <2>1
    <3> QED BY <1>5, <2>1, <3>1 DEF Writes
  <2>2. CASE d \notin Known /\ tok
    <3>1. t = c \o (<<i>> \o m)
      BY <1>5, <1>6, <2>2
    <3> DEFINE u == <<i>> \o m
    <3>2. /\ u \in Seq(StepRec) /\ Orderly(u)
          /\ \A o, x : Due(u, o, x) <=> o \in {"issue", "mint", "provision"} /\ x = d
      BY <1>5
    <3> HIDE DEF u
    <3>3. /\ c \o u \in Seq(StepRec) /\ Orderly(c \o u)
          /\ \A o, x : Due(c \o u, o, x) <=> Due(u, o, x) \/ (o = "create" /\ x = d)
      BY <3>2, CreateList DEF c
    <3>4. t = c \o u
      BY <3>1 DEF u
    <3> HIDE DEF t
    <3> QED BY <1>1, <2>2, <3>2, <3>3, <3>4 DEF Writes
  <2>3. CASE d \notin Known /\ ~tok
    <3>1. t = c \o m
      BY <1>5, <1>6, <2>3
    <3>2. /\ c \o m \in Seq(StepRec) /\ Orderly(c \o m)
          /\ \A o, x : Due(c \o m, o, x) <=> Due(m, o, x) \/ (o = "create" /\ x = d)
      BY <1>5, CreateList DEF c
    <3> QED BY <1>5, <2>3, <3>1, <3>2 DEF Writes
  <2> QED BY <2>1, <2>2, <2>3
<1> HIDE DEF t
<1>8. TypeOK'
  BY <1>1, <1>3, <1>7 DEF TypeOK, StepRec
<1>9. /\ \A x \in Devices : rec[x] # Absent /\ ~rec[x].revoked => x \in prov'
      /\ \A x \in Devices : ToServe(x) => x \in lines'
      /\ \A x \in Devices : Unlicensed(x) => x \notin lines'
  BY <1>1, <1>2 DEF HooksInv, LiveKept, ServedKept, SeatlessKept
<1>10. /\ \A x \in Devices : Due(t, "create", x) => rec[x] = Absent
       /\ \A x \in Devices : Due(t, "issue", x) =>
            FreeSeat \/ (rec[x] # Absent /\ (rec[x].revoked \/ x \in prov'))
  BY <1>1, <1>3, <1>7, <1>9
<1>11. \A op, x : Due(t, op, x) => op \in Writes \cup {"provision"}
  BY <1>7
<1> QED BY <1>1, <1>7, <1>8, <1>9, <1>10, <1>11, ListReplaced

(* The first step is op, for device d.                                     *)
LEMMA AtFirst ==
  ASSUME NEW r, Requests = {r}, HooksInv, NEW d \in Devices, NEW op, At(r, op, d)
  PROVE  /\ todo[r] # <<>> /\ Head(todo[r]).op = op /\ Head(todo[r]).d = d /\ Due(todo[r], op, d)
         /\ Rest(r) = Tail(todo[r]) /\ Rest(r) \in Seq(StepRec) /\ Orderly(Rest(r))
         /\ todo[r] \in Seq(StepRec) /\ r \in Requests
         /\ op \in Writes => /\ Due(Rest(r), "provision", d)
                             /\ \A o, x : Due(Rest(r), o, x) => o \in Follows(op) /\ x = d
                             /\ \A o, x : Due(todo[r], o, x) => o \in Writes \cup {"provision"} /\ x = d
<1>1. todo[r] \in Seq(StepRec) /\ Orderly(todo[r]) /\ r \in Requests
  BY AtStore
<1>2. todo[r] # <<>> /\ Head(todo[r]).op = op /\ Head(todo[r]).d = d /\ Rest(r) = Tail(todo[r])
  BY DEF At, Rest
<1>3. Rest(r) \in Seq(StepRec) /\ Due(todo[r], op, d) /\ Orderly(Rest(r))
  BY <1>1, <1>2, DueTail, OrderlyTail
<1> QED BY <1>1, <1>2, <1>3, WriteFirst

(* An answer that ends the request early.                                  *)
LEMMA AnswerKeeps ==
  ASSUME NEW r, Requests = {r}, HooksInv, NEW d \in Devices, Goto(r, <<>>), UNCHANGED <<prov, lines>>,
         \A o, x : Due(todo[r], o, x) => o \in Writes \cup {"provision"} /\ x = d,
         rec[d] # Absent /\ ~rec[d].revoked => d \in prov
  PROVE  HooksInv'
<1>1. todo' = [todo EXCEPT ![r] = <<>>] /\ UNCHANGED <<rec, queue, seats>>
  BY DEF Goto
<1>2. <<>> \in Seq(StepRec) /\ Orderly(<<>>) /\ \A op, x : ~Due(<<>>, op, x)
  BY NothingDue
<1>3. TypeOK'
  BY <1>1, <1>2 DEF HooksInv, TypeOK, StepRec
<1>4. \A x : ~(\E op \in Lays : Due(todo[r], op, x)) /\ ~Due(todo[r], "userFor", x) /\ ~Due(todo[r], "delete", x)
  BY DEF Lays, Writes
<1>5. /\ \A x \in Devices : rec[x] # Absent /\ ~rec[x].revoked => x \in prov'
      /\ \A x \in Devices : ToServe(x) => x \in lines'
      /\ \A x \in Devices : Unlicensed(x) => x \notin lines'
  BY <1>4 DEF HooksInv, LiveKept, ServedKept, SeatlessKept
<1> QED BY <1>1, <1>2, <1>3, <1>5, ListReplaced

(* The three writes of a POST; each is followed by the provisioning it     *)
(* owes.                                                                   *)
LEMMA CreateKeeps ==
  ASSUME NEW r, Requests = {r}, HooksInv, NEW d \in Devices, CreateStep(r, d)
  PROVE  HooksInv'
<1>1. At(r, "create", d)
  BY DEF CreateStep
<1>2. /\ Due(todo[r], "create", d) /\ Rest(r) \in Seq(StepRec) /\ Orderly(Rest(r))
      /\ Due(Rest(r), "provision", d)
      /\ \A o, x : Due(Rest(r), o, x) => o \in Follows("create") /\ x = d
      /\ \A o, x : Due(todo[r], o, x) => o \in Writes \cup {"provision"} /\ x = d
      /\ todo[r] # <<>> /\ todo[r] \in Seq(StepRec) /\ Rest(r) = Tail(todo[r])
  BY <1>1, AtFirst DEF Writes
<1>3. /\ queue \in Seq(Devices) /\ rec[d] = Absent /\ d \notin Known
      /\ \A i, j \in 1..Len(queue) : queue[i] = queue[j] => i = j
      /\ ~Within(queue, d)
      /\ Due(todo[r], "issue", d) => FreeSeat
  BY <1>2, AtStore
<1>10. \A o, x : Due(Rest(r), o, x) => Due(todo[r], o, x)
  BY <1>2, DueTail
<1>4. Commit(r, d, Blank, queue, Rest(r))
  BY <1>3 DEF CreateStep
<1>5. Blank \in Record /\ ~Blank.line /\ Blank # Absent
  <2>1. Blank \in Record /\ ~Blank.line
    BY DEF Blank, Record
  <2> QED BY <2>1, AbsentAssumption
<1>6. Due(Rest(r), "issue", d) => Len(queue) < seats
  BY <1>3, <1>10 DEF FreeSeat
<1>7. \A o, x : Due(Rest(r), o, x) => o \in {"issue", "mint", "provision"} /\ x = d
  BY <1>2 DEF Follows
<1>8. \A o, x : Due(Rest(r), o, x) => o \notin {"create", "put", "delete", "deprovision"} /\ x = d
  BY <1>7
<1>9. ~Due(Rest(r), "userFor", d) /\ ~Due(Rest(r), "lookup", d)
  BY <1>7
<1> QED BY <1>2, <1>3, <1>4, <1>5, <1>6, <1>8, <1>9, CommitKeeps

(* A token is refused only to a device that is provisioned already, or     *)
(* revoked.                                                                *)
LEMMA IssueKeeps ==
  ASSUME NEW r, Requests = {r}, HooksInv, NEW d \in Devices, IssueStep(r, d)
  PROVE  HooksInv'
<1> DEFINE old == IF d \in Known THEN rec[d] ELSE Blank
           joins == ~Holder(d) /\ ~old.revoked
           record == [old EXCEPT !.enrolled = TRUE]
           q == IF joins THEN Append(queue, d) ELSE queue
<1>1. /\ At(r, "issue", d)
      /\ IF joins /\ ~FreeSeat
         THEN Goto(r, <<>>) /\ UNCHANGED <<prov, lines>>
         ELSE Commit(r, d, record, q, Rest(r))
  BY DEF IssueStep
<1>2. /\ Due(todo[r], "issue", d) /\ Rest(r) \in Seq(StepRec) /\ Orderly(Rest(r))
      /\ Due(Rest(r), "provision", d)
      /\ \A o, x : Due(Rest(r), o, x) => o \in Follows("issue") /\ x = d
      /\ \A o, x : Due(todo[r], o, x) => o \in Writes \cup {"provision"} /\ x = d
  BY <1>1, AtFirst DEF Writes
<1>3. /\ queue \in Seq(Devices) /\ seats \in Nat
      /\ rec[d] # Absent => rec[d] \in Record
      /\ d \in Known <=> rec[d] # Absent
      /\ \A i, j \in 1..Len(queue) : queue[i] = queue[j] => i = j
      /\ Within(queue, d) => rec[d] # Absent /\ ~rec[d].revoked
      /\ Holder(d) <=> Within(queue, d)
      /\ FreeSeat \/ (rec[d] # Absent /\ (rec[d].revoked \/ d \in prov))
  BY <1>2, AtStore
<1>4. /\ old \in Record
      /\ rec[d] # Absent => old = rec[d]
      /\ rec[d] = Absent => ~old.line
  BY <1>3 DEF Blank, Record
<1> HIDE DEF old
<1>5. record \in Record /\ record.revoked = old.revoked /\ record.line = old.line
  BY <1>4 DEF Record
<1> HIDE DEF record
<1>6. record # Absent
  BY <1>5, AbsentAssumption
<1>7. CASE joins /\ ~FreeSeat
  <2>1. rec[d] # Absent /\ ~rec[d].revoked => d \in prov
    BY <1>3, <1>4, <1>7
  <2> QED BY <1>1, <1>2, <1>7, <2>1, AnswerKeeps
<1>8. CASE ~(joins /\ ~FreeSeat)
  <2>1. Commit(r, d, record, q, Rest(r))
    BY <1>1, <1>8
  <2>2. /\ q \in Seq(Devices) /\ \A i, j \in 1..Len(q) : q[i] = q[j] => i = j
        /\ \A x : x # d => (Within(q, x) <=> Within(queue, x))
        /\ Within(q, d) => ~old.revoked
        /\ Within(q, d) => Within(queue, d) \/ d \in LicensedOf(q, seats)
        /\ Within(queue, d) => Within(q, d)
    <3>1. CASE joins
      <4>1. Len(queue) < seats /\ ~Within(queue, d) /\ ~old.revoked /\ q = Append(queue, d)
        BY <1>3, <1>8, <3>1 DEF FreeSeat
      <4> HIDE DEF q
      <4> QED BY <1>3, <4>1, AppendFacts
    <3>2. CASE ~joins
      <4>1. q = queue /\ (Within(queue, d) => ~old.revoked)
        BY <1>3, <1>4, <3>2
      <4> HIDE DEF q
      <4> QED BY <1>3, <4>1
    <3> QED BY <3>1, <3>2
  <2>3. \A o, x : Due(Rest(r), o, x) => o \in {"mint", "provision"} /\ x = d
    BY <1>2 DEF Follows
  <2>4. \A o, x : Due(Rest(r), o, x) => o \notin {"create", "put", "delete", "deprovision"} /\ x = d
    BY <2>3
  <2>5. ~Due(Rest(r), "issue", d) /\ ~Due(Rest(r), "userFor", d) /\ ~Due(Rest(r), "lookup", d)
    BY <2>3
  <2>6. record.line /\ ~record.revoked => rec[d] # Absent /\ rec[d].line /\ ~rec[d].revoked
    BY <1>4, <1>5
  <2> HIDE DEF q
  <2> QED BY <1>2, <1>5, <1>6, <2>1, <2>2, <2>4, <2>5, <2>6, CommitKeeps
<1> QED BY <1>7, <1>8

(* A code is refused only to a device that is gone.                        *)
LEMMA MintKeeps ==
  ASSUME NEW r, Requests = {r}, HooksInv, NEW d \in Devices, MintStep(r, d)
  PROVE  HooksInv'
<1> DEFINE record == [rec[d] EXCEPT !.code = TRUE]
<1>1. /\ At(r, "mint", d)
      /\ IF d \in Known THEN Commit(r, d, record, queue, Rest(r))
         ELSE Goto(r, <<>>) /\ UNCHANGED <<prov, lines>>
  BY DEF MintStep
<1>2. /\ Rest(r) \in Seq(StepRec) /\ Orderly(Rest(r))
      /\ Due(Rest(r), "provision", d)
      /\ \A o, x : Due(Rest(r), o, x) => o \in Follows("mint") /\ x = d
      /\ \A o, x : Due(todo[r], o, x) => o \in Writes \cup {"provision"} /\ x = d
  BY <1>1, AtFirst DEF Writes
<1>3. /\ queue \in Seq(Devices)
      /\ d \in Known <=> rec[d] # Absent
      /\ rec[d] # Absent => rec[d] \in Record
      /\ \A i, j \in 1..Len(queue) : queue[i] = queue[j] => i = j
      /\ Within(queue, d) => rec[d] # Absent /\ ~rec[d].revoked
  BY AtStore
<1>4. CASE d \notin Known
  BY <1>1, <1>2, <1>3, <1>4, AnswerKeeps
<1>5. CASE d \in Known
  <2>1. Commit(r, d, record, queue, Rest(r))
    BY <1>1, <1>5
  <2>2. record \in Record /\ record.revoked = rec[d].revoked /\ record.line = rec[d].line
    BY <1>3, <1>5 DEF Record
  <2> HIDE DEF record
  <2>3. record # Absent
    BY <2>2, AbsentAssumption
  <2>4. \A o, x : Due(Rest(r), o, x) => o = "provision" /\ x = d
    BY <1>2 DEF Follows
  <2>5. \A o, x : Due(Rest(r), o, x) => o \notin {"create", "put", "delete", "deprovision"} /\ x = d
    BY <2>4
  <2>6. ~Due(Rest(r), "issue", d) /\ ~Due(Rest(r), "userFor", d) /\ ~Due(Rest(r), "lookup", d)
    BY <2>4
  <2> QED BY <1>2, <1>3, <1>5, <2>1, <2>2, <2>3, <2>5, <2>6, CommitKeeps
<1> QED BY <1>4, <1>5

-----------------------------------------------------------------------------
(* The steps of the hooks.                                                 *)

(* What a step still to come is for.                                       *)
LEMMA AtHook ==
  ASSUME NEW r, Requests = {r}, HooksInv, NEW d \in Devices
  PROVE  /\ Due(todo[r], "put", d) => ~Unlicensed(d)
         /\ Due(todo[r], "userFor", d) \/ Due(todo[r], "delete", d) => ~ToServe(d)
         /\ Due(todo[r], "lookup", d) \/ Due(todo[r], "deprovision", d)
              => rec[d] = Absent \/ rec[d].revoked
         /\ Unlicensed(d) => UserFor(d)
         /\ ToServe(d) => d \in Known /\ rec[d].line /\ ~Unlicensed(d)
         /\ ToServe(d) => rec[d] # Absent /\ ~rec[d].revoked
<1>1. Unlicensed(d) => Within(queue, d)
  BY HolderIs DEF HooksInv
<1> QED BY <1>1 DEF HooksInv, HooksKept, QueueKept, UserFor, Known, ToServe

(* The steps that take nothing down and put nothing up, with what each     *)
(* leaves to do.                                                           *)
LEMMA LookKeeps ==
  ASSUME NEW r, Requests = {r}, HooksInv, NEW d \in Devices,
         \/ LookupStep(r, d) \/ UserForStep(r, d) \/ RegisterStep(r, d) \/ SeatCheckStep(r, d)
  PROVE  HooksInv'
<1> DEFINE none == <<>>
<1>0. /\ none \in Seq(StepRec) /\ Len(none) = 0 /\ \A o, x : ~Due(none, o, x)
  BY NothingDue
<1> HIDE DEF none
<1>1. PICK op \in {"lookup", "userFor", "register", "seatCheck"} : At(r, op, d)
  BY DEF LookupStep, UserForStep, RegisterStep, SeatCheckStep
<1>2. /\ todo[r] # <<>> /\ Head(todo[r]).op = op /\ Head(todo[r]).d = d /\ Due(todo[r], op, d)
      /\ Rest(r) = Tail(todo[r]) /\ Rest(r) \in Seq(StepRec)
  BY <1>1, AtFirst
<1>3. none \o Rest(r) = Rest(r)
  BY <1>2 DEF none
<1>4. /\ Due(todo[r], "userFor", d) => ~ToServe(d)
      /\ Due(todo[r], "lookup", d) => rec[d] = Absent \/ rec[d].revoked
      /\ Unlicensed(d) => UserFor(d)
      /\ ToServe(d) => d \in Known /\ rec[d].line /\ ~Unlicensed(d)
      /\ ToServe(d) => rec[d] # Absent /\ ~rec[d].revoked
  BY AtHook
<1>5. UNCHANGED <<rec, queue, seats, prov, lines>>
  BY DEF LookupStep, UserForStep, RegisterStep, SeatCheckStep, Goto
<1> DEFINE Apt(s) ==
        /\ \A o, x : Due(s, o, x) => o \notin Writes /\ x = d
        /\ Due(s, "put", d) => ~Unlicensed(d)
        /\ Due(s, "userFor", d) \/ Due(s, "delete", d) => ~ToServe(d)
        /\ Due(s, "lookup", d) \/ Due(s, "deprovision", d) => rec[d] = Absent \/ rec[d].revoked
        /\ op \in Lays /\ ToServe(d) => \E o \in Lays : Due(s, o, d)
        /\ op = "userFor" /\ Unlicensed(d) => Due(s, "delete", d)
<1> HIDE DEF Apt
<1>14. "seatCheck" \in Lays /\ "put" \in Lays /\ "lookup" \notin Lays /\ "userFor" \notin Lays
  BY DEF Lays
<1>6. \E s \in Seq(StepRec) :
        /\ todo' = [todo EXCEPT ![r] = s \o Rest(r)]
        /\ Apt(s)
  <2>1. CASE LookupStep(r, d)
    <3>1. op = "lookup"
      BY <1>2, <2>1 DEF LookupStep, At
    <3>2. CASE d \in prov
      <4> DEFINE a == <<Step("deprovision", d)>>
                 b == <<Step("delete", d)>>
                 s == <<Step("deprovision", d), Step("delete", d)>>
      <4>1. /\ a \in Seq(StepRec) /\ \A o, x : Due(a, o, x) <=> o = "deprovision" /\ x = d
        BY DueOne DEF Ops
      <4>2. /\ b \in Seq(StepRec) /\ \A o, x : Due(b, o, x) <=> o = "delete" /\ x = d
        BY DueOne DEF Ops
      <4>3. s = a \o b /\ todo' = [todo EXCEPT ![r] = s \o Rest(r)]
        BY <2>1, <3>2 DEF LookupStep, Goto
      <4> HIDE DEF a, b, s
      <4>4. s \in Seq(StepRec) /\ \A o, x : Due(s, o, x) <=> o \in {"deprovision", "delete"} /\ x = d
        <5>1. s \in Seq(StepRec) /\ \A o, x : Due(s, o, x) <=> Due(a, o, x) \/ Due(b, o, x)
          BY <4>1, <4>2, <4>3, DueConcat
        <5> QED BY <4>1, <4>2, <5>1
      <4>5. ~ToServe(d) /\ (rec[d] = Absent \/ rec[d].revoked)
        BY <1>2, <1>4, <3>1
      <4>6. \A o, x : Due(s, o, x) => o \notin Writes /\ x = d
        BY <4>4 DEF Writes
      <4>7. Apt(s)
        BY <1>14, <3>1, <4>4, <4>5, <4>6 DEF Apt
      <4> QED BY <4>3, <4>4, <4>7
    <3>3. CASE d \notin prov
      <4>1. todo' = [todo EXCEPT ![r] = none \o Rest(r)]
        BY <1>3, <2>1, <3>3 DEF LookupStep, Goto
      <4>2. Apt(none)
        BY <1>0, <1>14, <3>1 DEF Apt
      <4> QED BY <1>0, <4>1, <4>2
    <3> QED BY <3>2, <3>3
  <2>2. CASE UserForStep(r, d)
    <3>1. op = "userFor"
      BY <1>2, <2>2 DEF UserForStep, At
    <3> DEFINE s == IF UserFor(d) THEN <<Step("delete", d)>> ELSE none
    <3>2. todo' = [todo EXCEPT ![r] = s \o Rest(r)]
      BY <1>3, <2>2 DEF UserForStep, Goto
    <3>3. s \in Seq(StepRec) /\ \A o, x : Due(s, o, x) <=> UserFor(d) /\ o = "delete" /\ x = d
      BY <1>0, DueOne DEF Ops
    <3> HIDE DEF s
    <3>4. ~ToServe(d)
      BY <1>2, <1>4, <3>1
    <3>5. \A o, x : Due(s, o, x) => o \notin Writes /\ x = d
      BY <3>3 DEF Writes
    <3>6. Apt(s)
      BY <1>4, <1>14, <3>1, <3>3, <3>4, <3>5 DEF Apt
    <3> QED BY <3>2, <3>3, <3>6
  <2>3. CASE RegisterStep(r, d)
    <3>1. op = "register"
      BY <1>2, <2>3 DEF RegisterStep, At
    <3> DEFINE s == IF d \in Known /\ rec[d].line THEN <<Step("seatCheck", d)>> ELSE none
    <3>2. todo' = [todo EXCEPT ![r] = s \o Rest(r)]
      BY <1>3, <2>3 DEF RegisterStep, Goto
    <3>3. s \in Seq(StepRec) /\ \A o, x : Due(s, o, x) <=> (d \in Known /\ rec[d].line) /\ o = "seatCheck" /\ x = d
      BY <1>0, DueOne DEF Ops
    <3> HIDE DEF s
    <3>5. \A o, x : Due(s, o, x) => o \notin Writes /\ x = d
      BY <3>3 DEF Writes
    <3>6. Apt(s)
      BY <1>4, <1>14, <3>1, <3>3, <3>5 DEF Apt
    <3> QED BY <3>2, <3>3, <3>6
  <2>4. CASE SeatCheckStep(r, d)
    <3>1. op = "seatCheck"
      BY <1>2, <2>4 DEF SeatCheckStep, At
    <3> DEFINE s == IF Unlicensed(d) THEN none ELSE <<Step("put", d)>>
    <3>2. todo' = [todo EXCEPT ![r] = s \o Rest(r)]
      BY <1>3, <2>4 DEF SeatCheckStep, Goto
    <3>3. s \in Seq(StepRec) /\ \A o, x : Due(s, o, x) <=> ~Unlicensed(d) /\ o = "put" /\ x = d
      BY <1>0, DueOne DEF Ops
    <3> HIDE DEF s
    <3>5. \A o, x : Due(s, o, x) => o \notin Writes /\ x = d
      BY <3>3 DEF Writes
    <3>6. Apt(s)
      BY <1>4, <1>14, <3>1, <3>3, <3>5 DEF Apt
    <3> QED BY <3>2, <3>3, <3>6
  <2> QED BY <2>1, <2>2, <2>3, <2>4
<1>7. PICK s \in Seq(StepRec) :
        /\ todo' = [todo EXCEPT ![r] = s \o Rest(r)]
        /\ Apt(s)
  BY <1>6
<1>8. \A i \in 1..Len(s) : s[i].op \notin Writes
  <2> SUFFICES ASSUME NEW i \in 1..Len(s) PROVE s[i].op \notin Writes
    OBVIOUS
  <2>1. Due(s, s[i].op, s[i].d)
    BY DEF Due
  <2> QED BY <1>7, <2>1 DEF Apt
<1>9. TypeOK'
  <2>1. s \o Rest(r) \in Seq(StepRec) /\ todo \in [Requests -> Seq(StepRec)]
    BY <1>2, DueConcat DEF HooksInv, TypeOK, StepRec
  <2>2. todo' \in [Requests -> Seq(StepRec)]
    BY <1>7, <2>1
  <2> QED BY <1>5, <2>2 DEF HooksInv, TypeOK, StepRec
<1>10. \A x \in Devices : Due(s, "put", x) => ~Unlicensed(x)
  BY <1>7 DEF Apt
<1>11. \A x \in Devices : Due(s, "userFor", x) \/ Due(s, "delete", x) => ~ToServe(x)
  BY <1>7 DEF Apt
<1>12. \A x \in Devices : Due(s, "lookup", x) \/ Due(s, "deprovision", x)
                              => rec[x] = Absent \/ rec[x].revoked
  BY <1>7 DEF Apt
<1>13. /\ todo' = [todo EXCEPT ![r] = s \o Tail(todo[r])]
       /\ op # "provision" /\ op # "delete"
       /\ prov' = prov /\ lines' = lines
  BY <1>1, <1>2, <1>5, <1>7
<1>15. \A x \in Devices : ToServe(x) =>
         /\ x \in lines => x \in lines'
         /\ op \in Lays /\ d = x => x \in lines' \/ \E o \in Lays : Due(s, o, x)
  BY <1>7, <1>13 DEF Apt
<1>16. \A x \in Devices : Unlicensed(x) =>
         /\ x \notin lines => x \notin lines'
         /\ op \in {"userFor", "delete"} /\ d = x
              => x \notin lines' \/ Due(s, "userFor", x) \/ Due(s, "delete", x)
  BY <1>7, <1>13 DEF Apt
<1>17. \A x \in Devices : rec[x] # Absent /\ ~rec[x].revoked =>
         /\ x \in prov => x \in prov'
         /\ op = "provision" /\ d = x => x \in prov'
  BY <1>13
<1> QED BY <1>2, <1>5, <1>8, <1>9, <1>10, <1>11, <1>12, <1>13, <1>15, <1>16, <1>17, HookKeeps

(* The steps that do the work.                                             *)
LEMMA WorkKeeps ==
  ASSUME NEW r, Requests = {r}, HooksInv, NEW d \in Devices,
         ProvisionStep(r, d) \/ DeprovisionStep(r, d) \/ DeleteStep(r, d) \/ PutStep(r, d)
  PROVE  HooksInv'
<1> DEFINE none == <<>>
<1>0. /\ none \in Seq(StepRec) /\ Len(none) = 0 /\ \A o, x : ~Due(none, o, x)
  BY NothingDue
<1> HIDE DEF none
<1>1. PICK op \in {"provision", "deprovision", "delete", "put"} :
        /\ At(r, op, d)
        /\ prov' = (IF op = "provision" THEN prov \cup {d}
                    ELSE IF op = "deprovision" THEN prov \ {d} ELSE prov)
        /\ lines' = (IF op = "put" THEN lines \cup {d}
                     ELSE IF op = "delete" THEN lines \ {d} ELSE lines)
  BY DEF ProvisionStep, DeprovisionStep, DeleteStep, PutStep
<1>2. /\ todo[r] # <<>> /\ Head(todo[r]).op = op /\ Head(todo[r]).d = d /\ Due(todo[r], op, d)
      /\ Rest(r) = Tail(todo[r]) /\ Rest(r) \in Seq(StepRec)
  BY <1>1, AtFirst
<1>3. none \o Rest(r) = Rest(r)
  BY <1>2 DEF none
<1>4. /\ op = "put" => ~Unlicensed(d)
      /\ op = "delete" => ~ToServe(d)
      /\ op = "deprovision" => rec[d] = Absent \/ rec[d].revoked
  BY <1>2, AtHook
<1>5. UNCHANGED <<rec, queue, seats>> /\ todo' = [todo EXCEPT ![r] = none \o Tail(todo[r])]
  BY <1>2, <1>3 DEF ProvisionStep, DeprovisionStep, DeleteStep, PutStep, Goto
<1>6. TypeOK'
  <2>1. todo' \in [Requests -> Seq(StepRec)]
    BY <1>2, <1>3, <1>5 DEF HooksInv, TypeOK, StepRec
  <2>2. prov' \subseteq Devices /\ lines' \subseteq Devices
    BY <1>1 DEF HooksInv, TypeOK
  <2> QED BY <1>5, <2>1, <2>2 DEF HooksInv, TypeOK, StepRec
<1>7. \A x \in Devices : rec[x] # Absent /\ ~rec[x].revoked =>
        /\ x \in prov => x \in prov'
        /\ op = "provision" /\ d = x => x \in prov'
  BY <1>1, <1>4
<1>8. \A x \in Devices : ToServe(x) =>
        /\ x \in lines => x \in lines'
        /\ op \in Lays /\ d = x => x \in lines'
  BY <1>1, <1>4 DEF Lays
<1>9. \A x \in Devices : Unlicensed(x) =>
        /\ x \notin lines => x \notin lines'
        /\ op \in {"userFor", "delete"} /\ d = x => x \notin lines'
  BY <1>1, <1>4
<1>10. \A i \in 1..Len(none) : none[i].op \notin Writes
  BY <1>0
<1> QED BY <1>0, <1>2, <1>5, <1>6, <1>7, <1>8, <1>9, <1>10, HookKeeps

(* A restart provisions and registers what the records ask for.            *)
LEMMA HooksRestartKeeps ==
  ASSUME NEW r, Requests = {r}, HooksInv, Restart
  PROVE  HooksInv'
<1>1. <<>> \in Seq(StepRec) /\ Orderly(<<>>) /\ \A op, x : ~Due(<<>>, op, x)
  BY NothingDue
<1>2. /\ todo' = [todo EXCEPT ![r] = <<>>] /\ UNCHANGED <<rec, queue, seats>>
      /\ prov' = {d \in Known : ~rec[d].revoked}
      /\ lines' = {d \in Known : rec[d].line /\ ~rec[d].revoked /\ ~Unlicensed(d)}
  BY DEF Restart, Startup, HooksInv, TypeOK
<1>3. TypeOK'
  BY <1>1, <1>2 DEF HooksInv, TypeOK, StepRec, Known
<1>4. /\ \A x \in Devices : rec[x] # Absent /\ ~rec[x].revoked => x \in prov'
      /\ \A x \in Devices : ToServe(x) => x \in lines'
      /\ \A x \in Devices : Unlicensed(x) => x \notin lines'
  BY <1>2 DEF Known, ToServe
<1> QED BY <1>1, <1>2, <1>3, <1>4, ListReplaced

(* Every step keeps the invariant,                                         *)
LEMMA HooksStepKeeps ==
  ASSUME NEW r, Requests = {r}, HooksInv, [Next]_vars
  PROVE  HooksInv'
<1>1. CASE UNCHANGED vars
  <2>1. rec' = rec /\ queue' = queue /\ seats' = seats /\ prov' = prov /\ lines' = lines /\ todo' = todo
    BY <1>1 DEF vars
  <2>2. /\ \A d : Unlicensed(d)' <=> Unlicensed(d)
        /\ \A d : ToServe(d)' <=> ToServe(d)
        /\ FreeSeat' <=> FreeSeat
        /\ QueueKept' <=> QueueKept
    BY <2>1, StoreSame
  <2> QED BY <2>1, <2>2 DEF HooksInv, TypeOK, ListKept, HooksKept, LiveKept, ServedKept, SeatlessKept
<1>2. ASSUME NEW d \in Devices, Request(r, d) PROVE HooksInv'
  BY <1>2, PostDeviceKeeps, RevokeKeeps, PostCodeKeeps, ClaimKeeps, LineKeeps DEF Request
<1>3. ASSUME NEW d \in Devices, Proceed(r, d) PROVE HooksInv'
  BY <1>3, CreateKeeps, IssueKeeps, MintKeeps, LookKeeps, WorkKeeps DEF Proceed
<1> QED BY <1>1, <1>2, <1>3, SetSeatsKeeps, HooksRestartKeeps DEF Next

(* and it holds at first.                                                  *)
LEMMA HooksInitKeeps ==
  ASSUME NEW r, Requests = {r}, Init
  PROVE  HooksInv
<1>1. <<>> \in Seq(StepRec) /\ Orderly(<<>>) /\ \A op, x : ~Due(<<>>, op, x)
  BY NothingDue
<1>2. /\ todo[r] = <<>> /\ queue = <<>> /\ lines = {} /\ prov = {} /\ \A d \in Devices : rec[d] = Absent
  BY DEF Init
<1>3. TypeOK
  BY <1>1, HooksAssumption DEF Init, TypeOK, StepRec
<1>4. Len(queue) = 0 /\ \A d : ~Within(queue, d)
  BY <1>2 DEF Within
<1>5. \A d : ~Unlicensed(d)
  BY <1>3, <1>4, HolderIs
<1>6. QueueKept
  BY <1>4 DEF QueueKept
<1>7. ListKept /\ HooksKept
  BY <1>1, <1>2 DEF ListKept, HooksKept
<1>8. LiveKept /\ ServedKept /\ SeatlessKept
  BY <1>2, <1>5 DEF LiveKept, ServedKept, SeatlessKept, ToServe
<1> QED BY <1>3, <1>6, <1>7, <1>8 DEF HooksInv

(* While requests are answered one at a time (one goroutine that may issue *)
(* any request, any number of them), the registry and the registrar have   *)
(* followed the store whenever nothing is in progress, whatever the        *)
(* devices, the seat counts and the restarts: HooksFollow.                 *)
THEOREM HooksHaveFollowed ==
  ASSUME NEW r, Requests = {r}
  PROVE  Spec => []HooksFollow
<1>1. Init => HooksInv
  BY HooksInitKeeps
<1>2. HooksInv /\ [Next]_vars => HooksInv'
  BY HooksStepKeeps
<1>3. HooksInv => HooksFollow
  <2> SUFFICES ASSUME HooksInv, Quiescent
               PROVE  /\ {d \in Known : ~rec[d].revoked} \subseteq prov
                      /\ \A d \in Known : rec[d].line /\ ~rec[d].revoked /\ ~Unlicensed(d) => d \in lines
                      /\ \A d \in Known : Unlicensed(d) => d \notin lines
    BY DEF HooksFollow, LiveProvisioned, LinesServed, SeatlessLineDown
  <2>1. \A op, x : ~Due(todo[r], op, x)
    BY FreeList DEF Quiescent
  <2>2. \A d \in Known : d \in Devices /\ rec[d] # Absent
    BY DEF Known
  <2> QED BY <2>1, <2>2 DEF HooksInv, LiveKept, ServedKept, SeatlessKept, ToServe
<1> QED BY <1>1, <1>2, <1>3, PTL DEF Spec
=============================================================================
