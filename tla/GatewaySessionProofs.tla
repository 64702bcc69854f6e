------------------------ MODULE GatewaySessionProofs ------------------------
(***************************************************************************)
(* Theorems about the phone's session keeper, for any delays, tasks, queue *)
(* and stream lengths, calls and mishaps: what the keeper believes is what *)
(* the transport has or the news is on its way (BeliefTrue), and a session *)
(* that is wanted and down has something that will act on it (NeverWedged).*)
(***************************************************************************)
EXTENDS GatewaySession, SequenceTheorems, TLAPS

-----------------------------------------------------------------------------
(* The invariant.                                                          *)

Events == {"waiting", "connected", "refusal", "disconnected"}
Ops == {"open", "close", "check"}

(* s has e among its elements.                                             *)
Has(s, e) == \E p \in 1..Len(s) : s[p] = e

(* The last word of the stream on the session is true.                     *)
NewsTrue ==
  \A i \in 1..Len(stream) :
    /\ stream[i] = "connected" /\ (\A j \in i..Len(stream) : stream[j] # "disconnected")
         => machine = "live"
    /\ stream[i] = "disconnected" /\ (\A j \in i..Len(stream) : stream[j] # "connected")
         => machine # "live"

BeliefKept ==
  /\ connected => machine = "live" \/ Has(stream, "disconnected")
  /\ ~connected => machine # "live" \/ Has(stream, "connected")

(* A live session is watched and has a connection; one being opened has a  *)
(* machine that has said nothing.                                          *)
WireKept ==
  /\ machine = "live" => watch /\ conn # "none"
  /\ conn = "preparing" => machine = "idle"

(* What a task may be about to do, by its kind; and a handle names a task  *)
(* of its own kind, so that cancelling a timer cancels no other.           *)
TaskKept ==
  \A i \in Ids : /\ task[i].pc \in {"open", "arm"} => task[i].kind = "backoff"
                 /\ task[i].pc = "close" => task[i].kind \in {"deadline", "grace"}

HandleKept == \A k \in Kinds : handle[k] # None => task[handle[k]].kind = k

(* The session is to be up and is not.                                     *)
Down == wanted /\ active /\ ~refused /\ ~connected

(* The last of the opens and closes waiting on the queue is a close.       *)
ClosesLast(o) == \E p \in 1..Len(o) : o[p] = "close" /\ \A q \in p..Len(o) : o[q] # "open"

(* A session that is down over a closed machine, whose close reports       *)
(* nothing more, is on its way to be opened.                               *)
Reopens ==
  Down /\ machine = "closed" =>
    \/ host = "open" \/ Has(ops, "open") \/ pump.pc = "schedule"
    \/ Has(stream, "disconnected")
    \/ \E i \in Ids : task[i].kind = "backoff" /\ task[i].pc \in {"sleep", "open"}

(* A session that is down has a timer, a thread or news that will act on   *)
(* it, or a close that will make news, which no open waiting will undo.    *)
Driven ==
  Down =>
    \/ \E i \in Ids : task[i] # NoTask
    \/ host \in {"open", "arm"} \/ pump # Idle
    \/ Has(stream, "connected") \/ Has(stream, "disconnected")
    \/ ClosesLast(ops)

SessionInv ==
  /\ TypeOK /\ NewsTrue /\ BeliefKept /\ WireKept
  /\ TaskKept /\ HandleKept /\ Reopens /\ Driven

-----------------------------------------------------------------------------
(* Lemmas about the queue and the stream.                                  *)

(* The parts of the type invariant, by actor.                              *)
LEMMA Types ==
  ASSUME TypeOK
  PROVE  /\ stream \in Seq(Events) /\ Len(stream) \in Nat
         /\ ops \in Seq(Ops) /\ Len(ops) \in Nat
         /\ task \in [Ids -> Task] /\ handle \in [Kinds -> Ids \cup {None}]
BY DEF TypeOK, Events, Ops

(* Taking the head of a sequence moves the others up.                      *)
LEMMA TailFacts ==
  ASSUME NEW S, NEW s \in Seq(S), s # <<>>
  PROVE  /\ Tail(s) \in Seq(S) /\ Len(s) \in Nat \ {0} /\ Len(Tail(s)) = Len(s) - 1
         /\ Head(s) = s[1] /\ Head(s) \in S
         /\ \A i \in 1..Len(Tail(s)) : Tail(s)[i] = s[i + 1]
         /\ \A e \in S : Has(s, e) /\ Head(s) # e => Has(Tail(s), e)
         /\ \A e \in S : Has(Tail(s), e) => Has(s, e)
<1>1. /\ Tail(s) \in Seq(S) /\ Len(s) \in Nat \ {0} /\ Len(Tail(s)) = Len(s) - 1
      /\ Head(s) = s[1] /\ Head(s) \in S
      /\ \A i \in 1..Len(Tail(s)) : Tail(s)[i] = s[i + 1]
  OBVIOUS
<1>2. ASSUME NEW e \in S, Has(s, e), Head(s) # e PROVE Has(Tail(s), e)
  <2>1. PICK p \in 1..Len(s) : s[p] = e
    BY <1>2 DEF Has
  <2>2. p - 1 \in 1..Len(Tail(s)) /\ Tail(s)[p - 1] = e
    BY <1>1, <1>2, <2>1
  <2> QED BY <2>2 DEF Has
<1>3. ASSUME NEW e \in S, Has(Tail(s), e) PROVE Has(s, e)
  <2>1. PICK p \in 1..Len(Tail(s)) : Tail(s)[p] = e
    BY <1>3 DEF Has
  <2>2. p + 1 \in 1..Len(s) /\ s[p + 1] = e
    BY <1>1, <2>1
  <2> QED BY <2>2 DEF Has
<1> QED BY <1>1, <1>2, <1>3

(* A sequence with another behind it keeps its elements and their places.  *)
LEMMA ConcatFacts ==
  ASSUME NEW S, NEW s \in Seq(S), NEW r \in Seq(S)
  PROVE  /\ s \o r \in Seq(S) /\ Len(s \o r) = Len(s) + Len(r) /\ Len(s) \in Nat /\ Len(r) \in Nat
         /\ \A i \in 1..Len(s) : (s \o r)[i] = s[i]
         /\ \A i \in 1..Len(r) : (s \o r)[Len(s) + i] = r[i]
         /\ \A e \in S : Has(s, e) \/ Has(r, e) => Has(s \o r, e)
<1>1. /\ s \o r \in Seq(S) /\ Len(s \o r) = Len(s) + Len(r) /\ Len(s) \in Nat /\ Len(r) \in Nat
      /\ \A i \in 1..Len(s) : (s \o r)[i] = s[i]
      /\ \A i \in 1..Len(r) : (s \o r)[Len(s) + i] = r[i]
  BY ConcatProperties
<1>2. ASSUME NEW e \in S, Has(s, e) PROVE Has(s \o r, e)
  BY <1>1, <1>2 DEF Has
<1>3. ASSUME NEW e \in S, Has(r, e) PROVE Has(s \o r, e)
  <2>1. PICK p \in 1..Len(r) : r[p] = e
    BY <1>3 DEF Has
  <2>2. Len(s) + p \in 1..Len(s \o r) /\ (s \o r)[Len(s) + p] = e
    BY <1>1, <2>1
  <2> QED BY <2>2 DEF Has
<1> QED BY <1>1, <1>2, <1>3

(* An operation put on the queue is there, behind the others.              *)
LEMMA EnqueueFacts ==
  ASSUME TypeOK, NEW op \in Ops, Enqueue(op)
  PROVE  /\ ops' \in Seq(Ops) /\ Len(ops') <= MaxOps
         /\ Has(ops', op) /\ (Has(ops, "open") => Has(ops', "open"))
         /\ op = "close" => ClosesLast(ops')
         /\ op # "open" /\ ClosesLast(ops) => ClosesLast(ops')
<1>1. ops \in Seq(Ops) /\ Len(ops) \in Nat /\ Len(ops) < MaxOps /\ MaxOps \in Nat
  BY GatewaySessionBounds, Types DEF Enqueue
<1>2. /\ ops' \in Seq(Ops) /\ Len(ops') = Len(ops) + 1 /\ ops'[Len(ops) + 1] = op
      /\ \A i \in 1..Len(ops) : ops'[i] = ops[i]
  BY <1>1, AppendProperties DEF Enqueue
<1>3. Has(ops', op)
  BY <1>1, <1>2 DEF Has
<1>4. ASSUME Has(ops, "open") PROVE Has(ops', "open")
  BY <1>1, <1>2, <1>4 DEF Has
<1>5. ASSUME op = "close" PROVE ClosesLast(ops')
  <2>1. Len(ops') \in 1..Len(ops') /\ ops'[Len(ops')] = "close"
    BY <1>1, <1>2, <1>5
  <2>2. \A q \in Len(ops')..Len(ops') : ops'[q] # "open"
    BY <1>1, <1>2, <2>1
  <2> QED BY <2>1, <2>2 DEF ClosesLast
<1>6. ASSUME op # "open", ClosesLast(ops) PROVE ClosesLast(ops')
  <2>1. PICK p \in 1..Len(ops) : ops[p] = "close" /\ \A q \in p..Len(ops) : ops[q] # "open"
    BY <1>6 DEF ClosesLast
  <2>2. p \in 1..Len(ops') /\ ops'[p] = "close"
    BY <1>1, <1>2, <2>1
  <2>3. ASSUME NEW q \in p..Len(ops') PROVE ops'[q] # "open"
    <3>1. CASE q = Len(ops) + 1
      BY <1>2, <1>6, <3>1
    <3>2. CASE q # Len(ops) + 1
      BY <1>1, <1>2, <2>1, <3>2
    <3> QED BY <3>1, <3>2
  <2> QED BY <2>2, <2>3 DEF ClosesLast
<1> QED BY <1>1, <1>2, <1>3, <1>4, <1>5, <1>6

(* A close that comes last is still last when the head is taken, unless it *)
(* is the head.                                                            *)
LEMMA ClosesLastTail ==
  ASSUME NEW o \in Seq(Ops), o # <<>>, ClosesLast(o), Head(o) # "close" \/ Has(o, "open")
  PROVE  ClosesLast(Tail(o))
<1>1. /\ Tail(o) \in Seq(Ops) /\ Len(o) \in Nat \ {0} /\ Len(Tail(o)) = Len(o) - 1
      /\ Head(o) = o[1] /\ \A i \in 1..Len(Tail(o)) : Tail(o)[i] = o[i + 1]
  BY TailFacts
<1>2. PICK p \in 1..Len(o) : o[p] = "close" /\ \A q \in p..Len(o) : o[q] # "open"
  BY DEF ClosesLast
<1>3. p # 1
  <2>1. CASE Head(o) # "close"
    BY <1>1, <1>2, <2>1
  <2>2. CASE Has(o, "open")
    BY <1>1, <1>2, <2>2 DEF Has
  <2> QED BY <2>1, <2>2
<1>4. p - 1 \in 1..Len(Tail(o)) /\ Tail(o)[p - 1] = "close"
  BY <1>1, <1>2, <1>3
<1>5. ASSUME NEW q \in (p - 1)..Len(Tail(o)) PROVE Tail(o)[q] # "open"
  <2>1. q \in 1..Len(Tail(o)) /\ q + 1 \in p..Len(o)
    BY <1>1, <1>4
  <2> QED BY <1>1, <1>2, <2>1
<1> QED BY <1>4, <1>5 DEF ClosesLast

-----------------------------------------------------------------------------
(* Lemmas about the news on the stream.                                    *)

(* Emitting keeps the stream's type and what is already on it.             *)
LEMMA EmitFacts ==
  ASSUME TypeOK, NEW es \in Seq(Events), Emit(es)
  PROVE  /\ stream' \in Seq(Events) /\ Len(stream') <= MaxEvents
         /\ Len(stream') = Len(stream) + Len(es) /\ Len(stream) \in Nat /\ Len(es) \in Nat
         /\ \A i \in 1..Len(stream) : stream'[i] = stream[i]
         /\ \A i \in 1..Len(es) : stream'[Len(stream) + i] = es[i]
         /\ \A e \in Events : Has(stream, e) \/ Has(es, e) => Has(stream', e)
<1>1. stream \in Seq(Events)
  BY Types
<1>2. stream' = stream \o es /\ Len(stream) + Len(es) <= MaxEvents
  BY DEF Emit
<1> QED BY <1>1, <1>2, ConcatFacts

(* Emitting nothing.                                                       *)
LEMMA EmitNone ==
  ASSUME TypeOK, Emit(<<>>)
  PROVE  stream' = stream
BY Types DEF Emit

(* The news of a session that is neither made nor lost stays true.         *)
LEMMA NewsStays ==
  ASSUME NewsTrue, BeliefKept, stream' = stream, connected' = connected,
         machine' = "live" <=> machine = "live"
  PROVE  NewsTrue' /\ BeliefKept'
BY DEF NewsTrue, BeliefKept, Has

(* A drop, or a refusal and the drop after it, is the last word.           *)
LEMMA NewsOfDrop ==
  ASSUME TypeOK, NewsTrue, BeliefKept, connected' = connected, machine' # "live",
         NEW es \in {<<"disconnected">>, <<"refusal", "disconnected">>}, Emit(es)
  PROVE  /\ NewsTrue' /\ BeliefKept' /\ Has(stream', "disconnected")
         /\ stream' \in Seq(Events) /\ Len(stream') <= MaxEvents
         /\ \A e \in Events : Has(stream, e) => Has(stream', e)
<1>1. es \in Seq(Events) /\ Len(es) \in {1, 2} /\ es[Len(es)] = "disconnected"
  BY DEF Events
<1>2. /\ stream' \in Seq(Events) /\ Len(stream') <= MaxEvents
      /\ Len(stream') = Len(stream) + Len(es) /\ Len(stream) \in Nat
      /\ \A i \in 1..Len(es) : stream'[Len(stream) + i] = es[i]
      /\ \A e \in Events : Has(stream, e) => Has(stream', e)
  BY <1>1, EmitFacts
<1>3. Len(stream') \in 1..Len(stream') /\ stream'[Len(stream')] = "disconnected"
  BY <1>1, <1>2
<1>4. NewsTrue'
  <2> SUFFICES ASSUME NEW i \in 1..Len(stream')
               PROVE  ~ \A j \in i..Len(stream') : stream'[j] # "disconnected"
    BY DEF NewsTrue
  <2>1. Len(stream') \in i..Len(stream')
    BY <1>3
  <2> QED BY <1>3, <2>1
<1>5. Has(stream', "disconnected")
  BY <1>3 DEF Has
<1>6. BeliefKept'
  BY <1>5 DEF BeliefKept
<1> QED BY <1>2, <1>4, <1>5, <1>6

(* So is a welcome.                                                        *)
LEMMA NewsOfWelcome ==
  ASSUME TypeOK, NewsTrue, BeliefKept, connected' = connected, machine' = "live",
         Emit(<<"connected">>)
  PROVE  /\ NewsTrue' /\ BeliefKept' /\ Has(stream', "connected")
         /\ stream' \in Seq(Events) /\ Len(stream') <= MaxEvents
         /\ \A e \in Events : Has(stream, e) => Has(stream', e)
<1> DEFINE es == <<"connected">>
<1>1. es \in Seq(Events) /\ Len(es) = 1 /\ es[1] = "connected"
  BY DEF Events
<1>2. /\ stream' \in Seq(Events) /\ Len(stream') <= MaxEvents
      /\ Len(stream') = Len(stream) + Len(es) /\ Len(stream) \in Nat
      /\ \A i \in 1..Len(es) : stream'[Len(stream) + i] = es[i]
      /\ \A e \in Events : Has(stream, e) => Has(stream', e)
  BY <1>1, EmitFacts
<1>3. Len(stream') \in 1..Len(stream') /\ stream'[Len(stream')] = "connected"
  BY <1>1, <1>2
<1>4. NewsTrue'
  <2> SUFFICES ASSUME NEW i \in 1..Len(stream')
               PROVE  ~ \A j \in i..Len(stream') : stream'[j] # "connected"
    BY DEF NewsTrue
  <2>1. Len(stream') \in i..Len(stream')
    BY <1>3
  <2> QED BY <1>3, <2>1
<1>5. Has(stream', "connected")
  BY <1>3 DEF Has
<1>6. BeliefKept'
  BY <1>5 DEF BeliefKept
<1> QED BY <1>2, <1>4, <1>5, <1>6

(* A wait says nothing of the session.                                     *)
LEMMA NewsOfWaiting ==
  ASSUME TypeOK, NewsTrue, BeliefKept, connected' = connected, machine' = machine,
         Emit(<<"waiting">>)
  PROVE  /\ NewsTrue' /\ BeliefKept'
         /\ stream' \in Seq(Events) /\ Len(stream') <= MaxEvents
         /\ \A e \in Events : Has(stream, e) => Has(stream', e)
<1> DEFINE es == <<"waiting">>
<1>1. es \in Seq(Events) /\ Len(es) = 1 /\ es[1] = "waiting"
  BY DEF Events
<1>0. /\ stream' \in Seq(Events) /\ Len(stream') <= MaxEvents
      /\ Len(stream') = Len(stream) + Len(es) /\ Len(stream) \in Nat
      /\ \A i \in 1..Len(stream) : stream'[i] = stream[i]
      /\ \A i \in 1..Len(es) : stream'[Len(stream) + i] = es[i]
      /\ \A e \in Events : Has(stream, e) => Has(stream', e)
  BY <1>1, EmitFacts
<1> HIDE DEF es
<1>2. /\ stream' \in Seq(Events) /\ Len(stream') <= MaxEvents
      /\ Len(stream') = Len(stream) + 1 /\ Len(stream) \in Nat
      /\ \A i \in 1..Len(stream) : stream'[i] = stream[i]
      /\ stream'[Len(stream) + 1] = "waiting"
      /\ \A e \in Events : Has(stream, e) => Has(stream', e)
  BY <1>0, <1>1
<1>3. NewsTrue'
  <2> SUFFICES ASSUME NEW i \in 1..Len(stream')
               PROVE  /\ stream'[i] = "connected"
                           /\ (\A j \in i..Len(stream') : stream'[j] # "disconnected")
                           => machine' = "live"
                      /\ stream'[i] = "disconnected"
                           /\ (\A j \in i..Len(stream') : stream'[j] # "connected")
                           => machine' # "live"
    BY DEF NewsTrue
  <2>1. CASE i = Len(stream) + 1
    BY <1>2, <2>1
  <2>2. CASE i # Len(stream) + 1
    <3>1. i \in 1..Len(stream) /\ stream'[i] = stream[i]
      BY <1>2, <2>2
    <3>2. \A j \in i..Len(stream) : j \in i..Len(stream') /\ stream'[j] = stream[j]
      BY <1>2, <3>1
    <3> QED BY <3>1, <3>2 DEF NewsTrue
  <2> QED BY <2>1, <2>2
<1>4. BeliefKept'
  BY <1>2 DEF BeliefKept, Events
<1> QED BY <1>2, <1>3, <1>4

(* Taking an event from the stream, believing what it says.                *)
LEMMA NewsTaken ==
  ASSUME TypeOK, NewsTrue, BeliefKept, stream # <<>>, stream' = Tail(stream), machine' = machine,
         /\ Head(stream) = "connected" => connected' = TRUE
         /\ Head(stream) = "disconnected" => connected' = FALSE
         /\ Head(stream) \notin {"connected", "disconnected"} => connected' = connected
  PROVE  NewsTrue' /\ BeliefKept'
<1>1. /\ stream \in Seq(Events) /\ stream' \in Seq(Events) /\ Len(stream) \in Nat \ {0}
      /\ Len(stream') = Len(stream) - 1 /\ Head(stream) = stream[1] /\ Head(stream) \in Events
      /\ \A i \in 1..Len(stream') : stream'[i] = stream[i + 1]
      /\ \A e \in Events : Has(stream, e) /\ Head(stream) # e => Has(stream', e)
  BY Types, TailFacts
<1>2. NewsTrue'
  <2> SUFFICES ASSUME NEW i \in 1..Len(stream')
               PROVE  /\ stream'[i] = "connected"
                           /\ (\A j \in i..Len(stream') : stream'[j] # "disconnected")
                           => machine' = "live"
                      /\ stream'[i] = "disconnected"
                           /\ (\A j \in i..Len(stream') : stream'[j] # "connected")
                           => machine' # "live"
    BY DEF NewsTrue
  <2>1. i + 1 \in 1..Len(stream) /\ stream'[i] = stream[i + 1]
    BY <1>1
  <2>2. ASSUME NEW j \in (i + 1)..Len(stream)
        PROVE  j - 1 \in i..Len(stream') /\ stream'[j - 1] = stream[j]
    BY <1>1, <2>1
  <2> QED BY <2>1, <2>2 DEF NewsTrue
<1>3. \A e \in Events : Has(stream', e) <=> \E j \in 2..Len(stream) : stream[j] = e
  <2> SUFFICES ASSUME NEW e \in Events
               PROVE  Has(stream', e) <=> \E j \in 2..Len(stream) : stream[j] = e
    OBVIOUS
  <2>1. ASSUME NEW j \in 2..Len(stream), stream[j] = e PROVE Has(stream', e)
    <3>1. j - 1 \in 1..Len(stream') /\ stream'[j - 1] = e
      BY <1>1, <2>1
    <3> QED BY <3>1 DEF Has
  <2>2. ASSUME Has(stream', e) PROVE \E j \in 2..Len(stream) : stream[j] = e
    <3>1. PICK p \in 1..Len(stream') : stream'[p] = e
      BY <2>2 DEF Has
    <3>2. p + 1 \in 2..Len(stream) /\ stream[p + 1] = e
      BY <1>1, <3>1
    <3> QED BY <3>2
  <2> QED BY <2>1, <2>2
<1>4. 1 \in 1..Len(stream) /\ \A j \in 1..Len(stream) : j = 1 \/ j \in 2..Len(stream)
  BY <1>1
<1>5. BeliefKept'
  <2>1. CASE Head(stream) = "connected"
    <3>1. machine = "live" \/ \E j \in 2..Len(stream) : stream[j] = "disconnected"
      BY <1>1, <1>4, <2>1 DEF NewsTrue
    <3> QED BY <1>3, <2>1, <3>1 DEF BeliefKept, Events
  <2>2. CASE Head(stream) = "disconnected"
    <3>1. machine # "live" \/ \E j \in 2..Len(stream) : stream[j] = "connected"
      BY <1>1, <1>4, <2>2 DEF NewsTrue
    <3> QED BY <1>3, <2>2, <3>1 DEF BeliefKept, Events
  <2>3. CASE Head(stream) \notin {"connected", "disconnected"}
    BY <1>1, <2>3 DEF BeliefKept, Events
  <2> QED BY <2>1, <2>2, <2>3
<1> QED BY <1>2, <1>5

-----------------------------------------------------------------------------
(* Steps of the transport.                                                 *)

(* What a step of the transport tells the keeper.                          *)
WireNews ==
  \/ /\ stream' = stream /\ (machine' = "live" <=> machine = "live")
     /\ machine' = "closed" => machine = "closed"
  \/ Emit(<<"disconnected">>) /\ machine' # "live"
  \/ Emit(<<"refusal", "disconnected">>) /\ machine' # "live"
  \/ Emit(<<"connected">>) /\ machine' = "live"
  \/ Emit(<<"waiting">>) /\ machine' = machine

(* What it does with the queue: an open leaves no closed machine, and a    *)
(* close reports the drop of one that was not closed.                      *)
WireOps ==
  \/ ops' = ops
  \/ /\ ops # <<>> /\ ops' = Tail(ops)
     /\ Head(ops) = "open" => machine' # "closed"
     /\ Head(ops) = "close" => machine = "closed" \/ Emit(<<"disconnected">>)

(* A drop that is emitted is on the stream.                                *)
LEMMA EmitDropHas ==
  ASSUME TypeOK, Emit(<<"disconnected">>)
  PROVE  Has(stream', "disconnected")
<1>1. <<"disconnected">> \in Seq(Events) /\ Has(<<"disconnected">>, "disconnected")
  BY DEF Events, Has
<1> QED BY <1>1, EmitFacts DEF Events

(* The news of such a step is true, and it takes nothing off the stream.   *)
LEMMA WireNewsTrue ==
  ASSUME TypeOK, NewsTrue, BeliefKept, connected' = connected, WireNews
  PROVE  /\ NewsTrue' /\ BeliefKept'
         /\ stream' \in Seq(Events) /\ Len(stream') <= MaxEvents
         /\ \A e \in Events : Has(stream, e) => Has(stream', e)
         /\ machine' = "closed" => machine = "closed" \/ Has(stream', "disconnected")
         /\ Emit(<<"disconnected">>) => Has(stream', "disconnected")
<1>0. stream \in Seq(Events) /\ Len(stream) <= MaxEvents
  BY Types DEF TypeOK
<1>1. CASE /\ stream' = stream /\ (machine' = "live" <=> machine = "live")
           /\ machine' = "closed" => machine = "closed"
  BY <1>0, <1>1, NewsStays, EmitDropHas
<1>2. CASE Emit(<<"disconnected">>) /\ machine' # "live"
  BY <1>2, NewsOfDrop
<1>3. CASE Emit(<<"refusal", "disconnected">>) /\ machine' # "live"
  BY <1>3, NewsOfDrop
<1>4. CASE Emit(<<"connected">>) /\ machine' = "live"
  BY <1>4, NewsOfWelcome, EmitDropHas
<1>5. CASE Emit(<<"waiting">>) /\ machine' = machine
  BY <1>5, NewsOfWaiting, EmitDropHas
<1> QED BY <1>1, <1>2, <1>3, <1>4, <1>5 DEF WireNews

(* The queue after such a step.                                            *)
LEMMA WireOpsFacts ==
  ASSUME TypeOK, WireOps
  PROVE  /\ ops' \in Seq(Ops) /\ Len(ops') <= MaxOps
         /\ Has(ops, "open") => Has(ops', "open") \/ machine' # "closed"
         /\ ClosesLast(ops) => \/ ClosesLast(ops')
                               \/ ~Has(ops, "open") /\ (machine = "closed" \/ Emit(<<"disconnected">>))
<1>1. ops \in Seq(Ops) /\ Len(ops) <= MaxOps /\ Len(ops) \in Nat /\ MaxOps \in Nat
  BY Types, GatewaySessionBounds DEF TypeOK
<1>2. CASE ops' = ops
  BY <1>1, <1>2
<1>3. CASE /\ ops # <<>> /\ ops' = Tail(ops)
           /\ Head(ops) = "open" => machine' # "closed"
           /\ Head(ops) = "close" => machine = "closed" \/ Emit(<<"disconnected">>)
  <2>1. /\ ops' \in Seq(Ops) /\ Len(ops') = Len(ops) - 1
        /\ Has(ops, "open") /\ Head(ops) # "open" => Has(ops', "open")
    BY <1>1, <1>3, TailFacts DEF Ops
  <2>2. Len(ops') <= MaxOps
    BY <1>1, <2>1
  <2>3. ASSUME ClosesLast(ops)
        PROVE  \/ ClosesLast(ops')
               \/ ~Has(ops, "open") /\ (machine = "closed" \/ Emit(<<"disconnected">>))
    BY <1>1, <1>3, <2>3, ClosesLastTail
  <2> QED BY <1>3, <2>1, <2>2, <2>3
<1> QED BY <1>2, <1>3 DEF WireOps

(* A step of the transport keeps the invariant.                            *)
LEMMA WireStepKeeps ==
  ASSUME SessionInv, UNCHANGED <<keeperVars, taskVars, pump, host>>, WireNews, WireOps,
         conn' \in {"none", "preparing", "ready", "dead", "silent"},
         machine' \in {"idle", "awaiting", "live", "closed"},
         watch' \in BOOLEAN, late' \in BOOLEAN,
         seen' \subseteq Calls, rung' \in [Calls -> 0..2], outside' \in 0..MaxOutside,
         WireKept'
  PROVE  SessionInv'
<1>1. UNCHANGED <<wanted, active, connected, refused, attempt, task, handle, pump, host>>
  BY DEF keeperVars, taskVars
<1>2. /\ NewsTrue' /\ BeliefKept'
      /\ stream' \in Seq(Events) /\ Len(stream') <= MaxEvents
      /\ \A e \in Events : Has(stream, e) => Has(stream', e)
      /\ machine' = "closed" => machine = "closed" \/ Has(stream', "disconnected")
      /\ Emit(<<"disconnected">>) => Has(stream', "disconnected")
  BY <1>1, WireNewsTrue DEF SessionInv
<1>3. /\ ops' \in Seq(Ops) /\ Len(ops') <= MaxOps
      /\ Has(ops, "open") => Has(ops', "open") \/ machine' # "closed"
      /\ ClosesLast(ops) => \/ ClosesLast(ops')
                            \/ ~Has(ops, "open") /\ (machine = "closed" \/ Emit(<<"disconnected">>))
  BY WireOpsFacts DEF SessionInv
<1>4. TypeOK'
  BY <1>1, <1>2, <1>3 DEF SessionInv, TypeOK, Events, Ops
<1>5. TaskKept' /\ HandleKept'
  BY <1>1 DEF SessionInv, TaskKept, HandleKept
<1>6. Reopens'
  BY <1>1, <1>2, <1>3 DEF SessionInv, Reopens, Down, Events
<1>7. Driven'
  <2> SUFFICES ASSUME Down, ~Driven'
               PROVE  FALSE
    BY <1>1 DEF Driven, Down
  <2>1. /\ \A i \in Ids : task[i] = NoTask
        /\ host \notin {"open", "arm"} /\ pump = Idle /\ ~ClosesLast(ops')
        /\ ~Has(stream', "disconnected") /\ ~Has(stream, "disconnected") /\ ~Has(stream, "connected")
    BY <1>1, <1>2 DEF Driven, Events
  <2>2. ClosesLast(ops)
    BY <2>1 DEF SessionInv, Driven
  <2>3. ~Has(ops, "open") /\ machine = "closed"
    BY <1>2, <1>3, <2>1, <2>2
  <2>4. \A i \in Ids : task[i].kind # "backoff"
    BY <2>1 DEF NoTask
  <2>5. pump.pc # "schedule"
    BY <2>1 DEF Idle
  <2> QED BY <2>1, <2>3, <2>4, <2>5 DEF SessionInv, Reopens
<1> QED BY <1>2, <1>4, <1>5, <1>6, <1>7 DEF SessionInv

(* A mishap is counted within the bound.                                   *)
LEMMA MishapFacts ==
  ASSUME TypeOK, Mishap
  PROVE  outside' \in 0..MaxOutside
BY GatewaySessionBounds DEF TypeOK, Mishap

(* A connection cancelled leaves at most a late report.                    *)
LEMMA CancelFacts ==
  ASSUME TypeOK, Cancel
  PROVE  late' \in BOOLEAN /\ outside' \in 0..MaxOutside
BY MishapFacts DEF TypeOK, Cancel

(* What didClose emits is news of a drop, or nothing from a closed machine.*)
LEMMA DroppedNews ==
  ASSUME TypeOK, Emit(Dropped), machine' # "live", machine' = "closed" \/ machine # "closed"
  PROVE  /\ WireNews
         /\ machine = "closed" \/ Emit(<<"disconnected">>)
<1>1. CASE machine = "closed"
  <2>1. stream' = stream
    BY <1>1, EmitNone DEF Dropped
  <2> QED BY <1>1, <2>1 DEF WireNews
<1>2. CASE machine # "closed"
  BY <1>2 DEF Dropped, WireNews
<1> QED BY <1>1, <1>2

(* Open keeps the invariant: a connection replaced is reported.            *)
LEMMA OpenKeeps ==
  ASSUME SessionInv, Open
  PROVE  SessionInv'
<1>1. /\ ops # <<>> /\ Head(ops) = "open" /\ ops' = Tail(ops)
      /\ watch' = FALSE /\ machine' = "idle" /\ seen' = {} /\ conn' = "preparing"
      /\ UNCHANGED <<keeperVars, taskVars, pump, host>> /\ UNCHANGED rung
  BY DEF Open
<1>2. late' \in BOOLEAN /\ outside' \in 0..MaxOutside /\ TypeOK
  BY CancelFacts DEF Open, SessionInv
<1>3. WireNews
  <2>1. CASE conn # "none" /\ machine # "closed"
    BY <1>1, <2>1 DEF Open, Dropped, WireNews
  <2>2. CASE conn = "none" \/ machine = "closed"
    <3>1. Emit(<<>>)
      BY <2>2 DEF Open, Dropped
    <3>2. machine # "live"
      BY <2>2 DEF SessionInv, WireKept
    <3> QED BY <1>1, <1>2, <3>1, <3>2, EmitNone DEF WireNews
  <2> QED BY <2>1, <2>2
<1>4. WireOps
  BY <1>1 DEF WireOps
<1>5. WireKept' /\ rung' \in [Calls -> 0..2]
  BY <1>1, <1>2 DEF WireKept, TypeOK
<1> QED BY <1>1, <1>2, <1>3, <1>4, <1>5, WireStepKeeps

(* What close does to the transport.                                       *)
LEMMA CloseFacts ==
  ASSUME SessionInv, Close
  PROVE  /\ WireNews /\ WireKept' /\ machine' = "closed" /\ conn' = "none" /\ watch' \in BOOLEAN
         /\ machine = "closed" \/ Emit(<<"disconnected">>)
         /\ late' \in BOOLEAN /\ outside' \in 0..MaxOutside
         /\ seen' \subseteq Calls /\ rung' \in [Calls -> 0..2]
<1>1. /\ machine' = "closed" /\ conn' = "none" /\ watch' = FALSE /\ Emit(Dropped)
      /\ seen' = seen /\ rung' = rung
  BY DEF Close, Teardown
<1>2. late' \in BOOLEAN /\ outside' \in 0..MaxOutside
  BY CancelFacts DEF Close, Teardown, SessionInv
<1>3. WireNews /\ (machine = "closed" \/ Emit(<<"disconnected">>))
  BY <1>1, DroppedNews DEF SessionInv
<1>4. WireKept'
  BY <1>1 DEF WireKept
<1> QED BY <1>1, <1>2, <1>3, <1>4 DEF SessionInv, TypeOK

(* CloseOp keeps the invariant.                                            *)
LEMMA CloseOpKeeps ==
  ASSUME SessionInv, CloseOp
  PROVE  SessionInv'
<1>1. /\ ops # <<>> /\ Head(ops) = "close" /\ ops' = Tail(ops) /\ Close
      /\ UNCHANGED <<keeperVars, taskVars, pump, host>>
  BY DEF CloseOp
<1>2. WireOps
  BY <1>1, CloseFacts DEF WireOps
<1> QED BY <1>1, <1>2, CloseFacts, WireStepKeeps

(* evaluateLiveness keeps the invariant, whoever asks for it.              *)
LEMMA EvaluateLivenessKeeps ==
  ASSUME SessionInv, EvaluateLiveness, UNCHANGED <<keeperVars, taskVars, pump, host>>,
         \/ ops' = ops
         \/ ops # <<>> /\ Head(ops) = "check" /\ ops' = Tail(ops)
  PROVE  SessionInv'
<1>1. WireOps
  BY DEF WireOps
<1>2. CASE machine = "live" /\ conn = "silent"
  <2>1. Close
    BY <1>2 DEF EvaluateLiveness
  <2> QED BY <1>1, <2>1, CloseFacts, WireStepKeeps
<1>3. CASE ~(machine = "live" /\ conn = "silent")
  <2>1. /\ watch' = (watch \/ machine = "live")
        /\ UNCHANGED <<stream, conn, machine, late, seen, rung, outside>>
    BY <1>3 DEF EvaluateLiveness
  <2>2. watch' \in BOOLEAN /\ (watch => watch')
    BY <2>1
  <2>3. WireNews
    BY <2>1 DEF WireNews
  <2>4. WireKept'
    BY <2>1, <2>2 DEF SessionInv, WireKept
  <2> QED BY <1>1, <2>1, <2>2, <2>3, <2>4, WireStepKeeps DEF SessionInv, TypeOK
<1> QED BY <1>2, <1>3

(* So do the check on the queue and the timer.                             *)
LEMMA LivenessKeeps ==
  ASSUME SessionInv, CheckOp \/ LivenessTimer
  PROVE  SessionInv'
BY EvaluateLivenessKeeps DEF CheckOp, LivenessTimer

(* Failed and LateWrite keep the invariant: a drop is reported once.       *)
LEMMA FailedKeeps ==
  ASSUME SessionInv, Failed \/ LateWrite
  PROVE  SessionInv'
<1>1. /\ machine' = "closed" /\ conn' = "none" /\ watch' = FALSE /\ Emit(Dropped)
      /\ UNCHANGED <<keeperVars, taskVars, pump, host>> /\ UNCHANGED <<ops, seen, rung>>
  BY DEF Failed, LateWrite
<1>2. late' \in BOOLEAN /\ outside' \in 0..MaxOutside
  BY MishapFacts DEF Failed, LateWrite, SessionInv, TypeOK
<1>3. WireNews /\ WireOps /\ WireKept'
  BY <1>1, DroppedNews DEF SessionInv, WireOps, WireKept
<1> QED BY <1>1, <1>2, <1>3, WireStepKeeps DEF SessionInv, TypeOK

(* PathWaits keeps the invariant.                                          *)
LEMMA PathWaitsKeeps ==
  ASSUME SessionInv, PathWaits
  PROVE  SessionInv'
<1>1. /\ Emit(<<"waiting">>) /\ UNCHANGED <<conn, machine, watch, late, seen, rung, ops>>
      /\ UNCHANGED <<keeperVars, taskVars, pump, host>>
  BY DEF PathWaits, wireVars
<1>2. outside' \in 0..MaxOutside
  BY MishapFacts DEF PathWaits, SessionInv
<1>3. WireNews /\ WireOps /\ WireKept'
  BY <1>1 DEF SessionInv, WireNews, WireOps, WireKept
<1> QED BY <1>1, <1>2, <1>3, WireStepKeeps DEF SessionInv, TypeOK

(* Welcome keeps the invariant: the session is live and the keeper told.   *)
LEMMA WelcomeKeeps ==
  ASSUME SessionInv, Welcome
  PROVE  SessionInv'
<1>1. /\ conn = "ready" /\ Emit(<<"connected">>) /\ machine' = "live" /\ watch' = TRUE
      /\ UNCHANGED <<keeperVars, taskVars, pump, host>>
      /\ UNCHANGED <<ops, conn, late, seen, rung>>
  BY DEF Welcome
<1>2. outside' \in 0..MaxOutside
  BY MishapFacts DEF Welcome, SessionInv, TypeOK
<1>3. WireNews /\ WireOps /\ WireKept'
  BY <1>1 DEF WireNews, WireOps, WireKept
<1> QED BY <1>1, <1>2, <1>3, WireStepKeeps DEF SessionInv, TypeOK

(* Refusal keeps the invariant.                                            *)
LEMMA RefusalKeeps ==
  ASSUME SessionInv, Refusal
  PROVE  SessionInv'
<1>1. /\ Emit(<<"refusal", "disconnected">>) /\ machine' = "closed" /\ conn' = "none"
      /\ watch' = FALSE /\ UNCHANGED <<keeperVars, taskVars, pump, host>>
      /\ UNCHANGED <<ops, seen, rung>>
  BY DEF Refusal
<1>2. late' \in BOOLEAN /\ outside' \in 0..MaxOutside
  BY MishapFacts DEF Refusal, SessionInv, TypeOK
<1>3. WireNews /\ WireOps /\ WireKept'
  BY <1>1 DEF WireNews, WireOps, WireKept
<1> QED BY <1>1, <1>2, <1>3, WireStepKeeps DEF SessionInv, TypeOK

(* Ready, PathLost and Silence keep the invariant: a connection changes,   *)
(* and the session is as live as it was.                                   *)
LEMMA PathKeeps ==
  ASSUME SessionInv, Ready \/ PathLost \/ Silence
  PROVE  SessionInv'
<1>1. /\ UNCHANGED <<keeperVars, taskVars, pump, host>>
      /\ UNCHANGED <<ops, stream, watch, late, seen, rung>>
  BY DEF Ready, PathLost, Silence
<1>2. outside' \in 0..MaxOutside
  BY MishapFacts DEF Ready, PathLost, Silence, SessionInv, TypeOK
<1>3. /\ conn' \in {"ready", "dead", "silent"} /\ conn # "none"
      /\ machine' = machine \/ (conn = "preparing" /\ machine' = "awaiting")
  BY DEF Ready, PathLost, Silence
<1>4. machine' \in {"idle", "awaiting", "live", "closed"} /\ (machine' = "live" <=> machine = "live")
  BY <1>3 DEF SessionInv, WireKept, TypeOK
<1>5. WireNews /\ WireOps /\ WireKept'
  BY <1>1, <1>3, <1>4 DEF SessionInv, WireNews, WireOps, WireKept
<1> QED BY <1>1, <1>2, <1>3, <1>4, <1>5, WireStepKeeps DEF SessionInv, TypeOK

(* Wake keeps the invariant.                                               *)
LEMMA WakeKeeps ==
  ASSUME SessionInv, NEW c \in Calls, Wake(c)
  PROVE  SessionInv'
<1>1. /\ UNCHANGED <<keeperVars, taskVars, pump, host>>
      /\ UNCHANGED <<ops, stream, conn, machine, watch, late, outside>>
  BY DEF Wake
<1>2. seen' \subseteq Calls /\ rung' \in [Calls -> 0..2]
  <2>1. seen' \subseteq Calls
    BY DEF Wake, SessionInv, TypeOK
  <2>2. rung \in [Calls -> 0..2] /\ rung[c] \in 0..2 /\ rung[c] < 2
    BY DEF Wake, SessionInv, TypeOK
  <2>3. rung[c] + 1 \in 0..2
    BY <2>2
  <2> QED BY <2>1, <2>2, <2>3 DEF Wake
<1>3. WireNews /\ WireOps /\ WireKept'
  BY <1>1 DEF SessionInv, WireNews, WireOps, WireKept
<1> QED BY <1>1, <1>2, <1>3, WireStepKeeps DEF SessionInv, TypeOK

-----------------------------------------------------------------------------
(* Lemmas about the tasks.                                                 *)

(* A task is nothing, or of a kind and somewhere.                          *)
LEMMA TaskFacts ==
  ASSUME NEW x \in Task
  PROVE  /\ x.kind = "none" <=> x = NoTask
         /\ x # NoTask => x.kind \in Kinds /\ x.pc \in {"sleep", "open", "arm", "close"}
                          /\ x.delay \in 0..LastDelay
         /\ NoTask.kind = "none" /\ NoTask.pc = "none" /\ NoTask \in Task
BY DEF Task, NoTask, Kinds

(* Zero names no task.                                                     *)
LEMMA NoneFacts == None \notin Ids
BY GatewaySessionBounds DEF None, Ids

(* Cancelling the timers of the kinds ks ends tasks of those kinds only.   *)
LEMMA CancelledFacts ==
  ASSUME TypeOK, HandleKept, TaskKept, NEW ks \in SUBSET Kinds
  PROVE  /\ Cancelled(ks) \in [Ids -> Task]
         /\ \A i \in Ids : Cancelled(ks)[i] \in {task[i], NoTask}
         /\ \A i \in Ids : task[i].kind \notin ks => Cancelled(ks)[i] = task[i]
         /\ Released(ks) \in [Kinds -> Ids \cup {None}]
         /\ \A k \in Kinds : k \in ks => Released(ks)[k] = None
         /\ \A k \in Kinds : k \notin ks => Released(ks)[k] = handle[k]
         /\ \A k \in Kinds : k \notin ks /\ handle[k] # None => Cancelled(ks)[handle[k]].kind = k
<1>1. task \in [Ids -> Task] /\ handle \in [Kinds -> Ids \cup {None}] /\ NoTask \in Task
  BY Types DEF Task
<1>2. Cancelled(ks) \in [Ids -> Task] /\ \A i \in Ids : Cancelled(ks)[i] \in {task[i], NoTask}
  BY <1>1 DEF Cancelled
<1>3. ASSUME NEW i \in Ids, task[i].kind \notin ks PROVE Cancelled(ks)[i] = task[i]
  <2>1. ASSUME NEW k \in ks PROVE handle[k] # i
    BY <1>3, NoneFacts DEF HandleKept
  <2> QED BY <2>1 DEF Cancelled
<1>4. Released(ks) \in [Kinds -> Ids \cup {None}]
  BY <1>1 DEF Released
<1>5. \A k \in Kinds : /\ k \in ks => Released(ks)[k] = None
                       /\ k \notin ks => Released(ks)[k] = handle[k]
  BY DEF Released
<1>6. ASSUME NEW k \in Kinds, k \notin ks, handle[k] # None PROVE Cancelled(ks)[handle[k]].kind = k
  <2>1. handle[k] \in Ids /\ task[handle[k]].kind = k
    BY <1>1, <1>6 DEF HandleKept
  <2> QED BY <1>3, <1>6, <2>1
<1> QED BY <1>2, <1>3, <1>4, <1>5, <1>6

(* A task started takes a free place, and its handle names it.             *)
LEMMA StartFacts ==
  ASSUME NEW ts \in [Ids -> Task], NEW hs \in [Kinds -> Ids \cup {None}],
         NEW k \in Kinds, NEW d \in 0..LastDelay, Start(k, d, ts, hs),
         \A i \in Ids : /\ ts[i].pc \in {"open", "arm"} => ts[i].kind = "backoff"
                        /\ ts[i].pc = "close" => ts[i].kind \in {"deadline", "grace"},
         \A h \in Kinds : h # k /\ hs[h] # None => ts[hs[h]].kind = h
  PROVE  /\ task' \in [Ids -> Task] /\ handle' \in [Kinds -> Ids \cup {None}]
         /\ TaskKept' /\ HandleKept'
         /\ \E i \in Ids : task'[i] # NoTask /\ task'[i].kind = k /\ task'[i].pc = "sleep"
         /\ \A i \in Ids : ts[i] # NoTask => task'[i] = ts[i]
<1> DEFINE new == [kind |-> k, pc |-> "sleep", delay |-> d]
<1>1. PICK i \in Ids : /\ ts[i] = NoTask /\ task' = [ts EXCEPT ![i] = new]
                       /\ handle' = [hs EXCEPT ![k] = i]
  BY DEF Start
<1>2. /\ new \in Task /\ new # NoTask /\ new.kind = k /\ new.pc = "sleep"
  BY DEF Task, NoTask, Kinds
<1> HIDE DEF new
<1>3. task' \in [Ids -> Task] /\ task'[i] = new /\ \A j \in Ids : j # i => task'[j] = ts[j]
  BY <1>1, <1>2
<1>4. /\ handle' \in [Kinds -> Ids \cup {None}] /\ handle'[k] = i
      /\ \A h \in Kinds : h # k => handle'[h] = hs[h]
  BY <1>1
<1>5. TaskKept'
  BY <1>2, <1>3 DEF TaskKept
<1>6. HandleKept'
  <2> SUFFICES ASSUME NEW h \in Kinds, handle'[h] # None PROVE task'[handle'[h]].kind = h
    BY DEF HandleKept
  <2>1. CASE h = k
    BY <1>2, <1>3, <1>4, <2>1
  <2>2. CASE h # k
    <3>1. handle'[h] = hs[h] /\ ts[hs[h]].kind = h /\ hs[h] \in Ids
      BY <1>4, <2>2
    <3>2. hs[h] # i
      BY <1>1, <3>1 DEF NoTask, Kinds
    <3> QED BY <1>3, <3>1, <3>2
  <2> QED BY <2>1, <2>2
<1> QED BY <1>1, <1>2, <1>3, <1>4, <1>5, <1>6

(* A task that moves on keeps its kind, and the handles name what they did.*)
LEMMA TaskMoves ==
  ASSUME TypeOK, TaskKept, HandleKept, NEW i \in Ids, task[i] # NoTask,
         NEW p \in {"open", "arm", "close"}, task' = [task EXCEPT ![i].pc = p],
         p \in {"open", "arm"} => task[i].kind = "backoff",
         p = "close" => task[i].kind \in {"deadline", "grace"}
  PROVE  /\ task' \in [Ids -> Task] /\ TaskKept'
         /\ task'[i].pc = p /\ task'[i].kind = task[i].kind /\ task'[i] # NoTask
         /\ \A j \in Ids : j # i => task'[j] = task[j]
         /\ \A j \in Ids : task'[j].kind = task[j].kind
<1> DEFINE new == [task[i] EXCEPT !.pc = p]
<1>1. task \in [Ids -> Task]
  BY Types
<1>2. task' = [task EXCEPT ![i] = new]
  OBVIOUS
<1>3. new \in Task /\ new.pc = p /\ new.kind = task[i].kind /\ new # NoTask
  BY <1>1 DEF Task, NoTask, Kinds
<1> HIDE DEF new
<1>4. task' \in [Ids -> Task] /\ task'[i] = new /\ \A j \in Ids : j # i => task'[j] = task[j]
  BY <1>1, <1>2, <1>3
<1>5. TaskKept'
  BY <1>3, <1>4 DEF TaskKept
<1> QED BY <1>3, <1>4, <1>5

(* A task that ends leaves the others and their handles.                   *)
LEMMA FinishFacts ==
  ASSUME TypeOK, TaskKept, HandleKept, NEW i \in Ids, Finish(i)
  PROVE  /\ task' \in [Ids -> Task] /\ handle' \in [Kinds -> Ids \cup {None}]
         /\ TaskKept' /\ HandleKept'
         /\ \A j \in Ids : j # i => task'[j] = task[j]
<1>1. task \in [Ids -> Task] /\ handle \in [Kinds -> Ids \cup {None}] /\ NoTask \in Task
  BY Types DEF Task
<1>2. /\ task' \in [Ids -> Task] /\ task'[i] = NoTask
      /\ \A j \in Ids : j # i => task'[j] = task[j]
  BY <1>1 DEF Finish
<1>3. /\ handle' \in [Kinds -> Ids \cup {None}]
      /\ \A k \in Kinds : handle'[k] # None => handle'[k] = handle[k] /\ handle[k] # i
  BY <1>1 DEF Finish
<1>4. TaskKept'
  BY <1>2 DEF TaskKept, NoTask
<1>5. HandleKept'
  BY <1>1, <1>2, <1>3 DEF HandleKept
<1> QED BY <1>2, <1>3, <1>4, <1>5

-----------------------------------------------------------------------------
(* Steps of the keeper.                                                    *)

(* A step that leaves the transport and its stream alone keeps the news.   *)
LEMMA KeeperStepKeeps ==
  ASSUME SessionInv, UNCHANGED <<connected, stream, wireVars, rung>>,
         wanted' \in BOOLEAN, active' \in BOOLEAN, refused' \in BOOLEAN, attempt' \in 0..LastDelay,
         task' \in [Ids -> Task], handle' \in [Kinds -> Ids \cup {None}],
         pump' \in [pc : {"idle", "schedule", "grace"}, delay : 0..LastDelay],
         host' \in {"idle", "open", "arm", "close"},
         ops' \in Seq(Ops), Len(ops') <= MaxOps, outside' \in 0..MaxOutside,
         TaskKept', HandleKept', Reopens', Driven'
  PROVE  SessionInv'
<1>1. UNCHANGED <<connected, stream, conn, machine, watch, late, seen, rung>>
  BY DEF wireVars
<1>2. TypeOK'
  BY <1>1 DEF SessionInv, TypeOK, Ops
<1>3. NewsTrue' /\ BeliefKept'
  BY <1>1, NewsStays DEF SessionInv
<1>4. WireKept'
  BY <1>1 DEF SessionInv, WireKept
<1> QED BY <1>2, <1>3, <1>4 DEF SessionInv

(* The host's calls that touch the timers keep the invariant: one that     *)
(* leaves a session wanted and down is about to open.                      *)
LEMMA HostCallKeeps ==
  ASSUME SessionInv, Connect \/ Disconnect \/ (\E on \in BOOLEAN : SetActive(on))
  PROVE  SessionInv'
<1>1. /\ UNCHANGED <<connected, stream, wireVars, rung>> /\ UNCHANGED <<pump, ops>>
      /\ HostCalls
  BY DEF Connect, Disconnect, SetActive
<1>2. PICK ks \in SUBSET Kinds : task' = Cancelled(ks) /\ handle' = Released(ks)
  BY DEF Connect, Disconnect, SetActive, Kinds
<1>3. /\ task' \in [Ids -> Task] /\ handle' \in [Kinds -> Ids \cup {None}]
      /\ TaskKept' /\ HandleKept'
  <2>1. /\ Cancelled(ks) \in [Ids -> Task] /\ Released(ks) \in [Kinds -> Ids \cup {None}]
        /\ \A i \in Ids : Cancelled(ks)[i] \in {task[i], NoTask}
        /\ \A k \in Kinds : k \in ks => Released(ks)[k] = None
        /\ \A k \in Kinds : k \notin ks => Released(ks)[k] = handle[k]
        /\ \A k \in Kinds : k \notin ks /\ handle[k] # None => Cancelled(ks)[handle[k]].kind = k
    BY CancelledFacts DEF SessionInv
  <2>2. TaskKept'
    BY <1>2, <2>1 DEF SessionInv, TaskKept, NoTask
  <2>3. HandleKept'
    BY <1>2, <2>1 DEF HandleKept
  <2> QED BY <1>2, <2>1, <2>2, <2>3
<1>4. /\ wanted' \in BOOLEAN /\ active' \in BOOLEAN /\ refused' \in BOOLEAN
      /\ attempt' \in 0..LastDelay /\ host' \in {"idle", "open", "arm", "close"}
      /\ Down' => host' = "open"
  <2>1. CASE Connect
    BY <2>1 DEF Connect, SessionInv, TypeOK
  <2>2. CASE Disconnect
    BY <2>2 DEF Disconnect, SessionInv, TypeOK, Down
  <2>3. ASSUME NEW on \in BOOLEAN, SetActive(on)
        PROVE  /\ wanted' \in BOOLEAN /\ active' \in BOOLEAN /\ refused' \in BOOLEAN
               /\ attempt' \in 0..LastDelay /\ host' \in {"idle", "open", "arm", "close"}
               /\ Down' => host' = "open"
    <3>1. /\ wanted' = wanted /\ active' = on /\ connected' = connected
          /\ refused' = (refused /\ ~(on /\ wanted /\ ~connected))
          /\ attempt' = IF on /\ wanted /\ ~connected THEN 0 ELSE attempt
          /\ host' = IF on /\ wanted /\ ~connected THEN "open" ELSE "idle"
      BY <2>3 DEF SetActive
    <3>2. refused' \in BOOLEAN
      BY <3>1
    <3>3. wanted' \in BOOLEAN /\ active' \in BOOLEAN /\ attempt' \in 0..LastDelay
      BY <3>1, GatewaySessionBounds DEF SessionInv, TypeOK
    <3> QED BY <3>1, <3>2, <3>3 DEF Down
  <2> QED BY <2>1, <2>2, <2>3
<1>5. outside' \in 0..MaxOutside
  BY <1>1, GatewaySessionBounds DEF HostCalls, SessionInv, TypeOK
<1>6. Reopens' /\ Driven'
  BY <1>4 DEF Reopens, Driven
<1>7. /\ pump' \in [pc : {"idle", "schedule", "grace"}, delay : 0..LastDelay]
      /\ ops' \in Seq(Ops) /\ Len(ops') <= MaxOps
  BY <1>1 DEF SessionInv, TypeOK, Ops
<1> QED BY <1>1, <1>3, <1>4, <1>5, <1>6, <1>7, KeeperStepKeeps

-----------------------------------------------------------------------------
(* The keeper's threads: the host's call, the pump and the tasks.          *)

(* A step of a thread of the keeper that leaves the flags as they are      *)
(* keeps the invariant, if what was to open a closed machine still is, and *)
(* something that will act on the session is left.                         *)
LEMMA ThreadStepKeeps ==
  ASSUME SessionInv, UNCHANGED <<keeperVars, stream, wireVars, rung>>,
         task' \in [Ids -> Task], handle' \in [Kinds -> Ids \cup {None}],
         pump' \in [pc : {"idle", "schedule", "grace"}, delay : 0..LastDelay],
         host' \in {"idle", "open", "arm", "close"},
         ops' \in Seq(Ops), Len(ops') <= MaxOps, outside' \in 0..MaxOutside,
         TaskKept', HandleKept',
         host = "open" => host' = "open" \/ Has(ops', "open"),
         Has(ops, "open") => Has(ops', "open"),
         pump.pc = "schedule" => \/ pump'.pc = "schedule"
                                 \/ \E i \in Ids : task'[i].kind = "backoff" /\ task'[i].pc = "sleep",
         \A i \in Ids : task[i].kind = "backoff" /\ task[i].pc \in {"sleep", "open"} =>
           \/ task'[i].kind = "backoff" /\ task'[i].pc \in {"sleep", "open"}
           \/ Has(ops', "open")
           \/ ~Down,
         Down => \/ \E i \in Ids : task'[i] # NoTask
                 \/ host' \in {"open", "arm"} \/ pump' # Idle
                 \/ Has(stream, "connected") \/ Has(stream, "disconnected")
                 \/ ClosesLast(ops')
  PROVE  SessionInv'
<1>1. UNCHANGED <<wanted, active, connected, refused, attempt, stream, machine>>
  BY DEF keeperVars, wireVars
<1>2. Down' <=> Down
  BY <1>1 DEF Down
<1>3. /\ Has(stream, "connected") => Has(stream', "connected")
      /\ Has(stream, "disconnected") => Has(stream', "disconnected")
  BY <1>1
<1>4. Driven'
  BY <1>2, <1>3 DEF Driven
<1>5. Reopens'
  <2> SUFFICES ASSUME Down', machine' = "closed"
               PROVE  \/ host' = "open" \/ Has(ops', "open") \/ pump'.pc = "schedule"
                      \/ Has(stream', "disconnected")
                      \/ \E i \in Ids : task'[i].kind = "backoff" /\ task'[i].pc \in {"sleep", "open"}
    BY DEF Reopens
  <2>1. \/ host = "open" \/ Has(ops, "open") \/ pump.pc = "schedule"
        \/ Has(stream, "disconnected")
        \/ \E i \in Ids : task[i].kind = "backoff" /\ task[i].pc \in {"sleep", "open"}
    BY <1>1, <1>2 DEF SessionInv, Reopens
  <2> QED BY <2>1, <1>2, <1>3
<1>6. UNCHANGED <<connected, stream, wireVars, rung>>
  BY <1>1
<1>7. wanted' \in BOOLEAN /\ active' \in BOOLEAN /\ refused' \in BOOLEAN /\ attempt' \in 0..LastDelay
  BY <1>1 DEF SessionInv, TypeOK
<1> QED BY <1>4, <1>5, <1>6, <1>7, KeeperStepKeeps

(* CheckLiveness, HostOpen and HostClose keep the invariant.               *)
LEMMA HostEnqueueKeeps ==
  ASSUME SessionInv, CheckLiveness \/ HostOpen \/ HostClose
  PROVE  SessionInv'
<1>1. /\ UNCHANGED <<keeperVars, stream, wireVars, rung>> /\ UNCHANGED <<task, handle, pump>>
      /\ TypeOK /\ TaskKept /\ HandleKept /\ Driven
  BY DEF CheckLiveness, HostOpen, HostClose, taskVars, SessionInv
<1>2. PICK op \in Ops : /\ Enqueue(op)
                        /\ \/ op = "check" /\ host' = host
                           \/ op = "open" /\ host = "open" /\ host' = "arm"
                           \/ op = "close" /\ host = "close" /\ host' = "idle"
  BY DEF CheckLiveness, HostOpen, HostClose, Ops
<1>3. outside' \in 0..MaxOutside
  BY <1>1, MishapFacts DEF CheckLiveness, HostOpen, HostClose, HostCalls, Mishap, TypeOK
<1>4. /\ ops' \in Seq(Ops) /\ Len(ops') <= MaxOps
      /\ Has(ops', op) /\ (Has(ops, "open") => Has(ops', "open"))
      /\ op = "close" => ClosesLast(ops')
      /\ op # "open" /\ ClosesLast(ops) => ClosesLast(ops')
  BY <1>1, <1>2, EnqueueFacts
<1>5. /\ task' \in [Ids -> Task] /\ handle' \in [Kinds -> Ids \cup {None}]
      /\ pump' \in [pc : {"idle", "schedule", "grace"}, delay : 0..LastDelay]
      /\ host' \in {"idle", "open", "arm", "close"}
  BY <1>1, <1>2 DEF TypeOK
<1>6. TaskKept' /\ HandleKept'
  BY <1>1 DEF TaskKept, HandleKept
<1>7. Down => \/ \E i \in Ids : task'[i] # NoTask
              \/ host' \in {"open", "arm"} \/ pump' # Idle
              \/ Has(stream, "connected") \/ Has(stream, "disconnected")
              \/ ClosesLast(ops')
  BY <1>1, <1>2, <1>4 DEF Driven
<1>8. host = "open" => host' = "open" \/ Has(ops', "open")
  BY <1>2, <1>4
<1> QED BY <1>1, <1>3, <1>4, <1>5, <1>6, <1>7, <1>8, ThreadStepKeeps

(* A task started from the tasks left when some were cancelled: the        *)
(* threads that start one keep the invariant.                              *)
LEMMA StartKeeps ==
  ASSUME SessionInv, UNCHANGED <<keeperVars, ops, stream, wireVars, rung, outside>>,
         NEW ts \in [Ids -> Task], NEW hs \in [Kinds -> Ids \cup {None}],
         NEW k \in Kinds, NEW d \in 0..LastDelay, Start(k, d, ts, hs),
         \A i \in Ids : /\ ts[i].pc \in {"open", "arm"} => ts[i].kind = "backoff"
                        /\ ts[i].pc = "close" => ts[i].kind \in {"deadline", "grace"},
         \A h \in Kinds : h # k /\ hs[h] # None => ts[hs[h]].kind = h,
         \A i \in Ids : task[i].kind = "backoff" /\ task[i].pc \in {"sleep", "open"} => ts[i] = task[i],
         pump' \in [pc : {"idle", "schedule", "grace"}, delay : 0..LastDelay],
         host' \in {"idle", "open", "arm", "close"},
         host = "open" => host' = "open",
         pump.pc = "schedule" => pump'.pc = "schedule" \/ k = "backoff"
  PROVE  SessionInv'
<1>1. /\ task' \in [Ids -> Task] /\ handle' \in [Kinds -> Ids \cup {None}]
      /\ TaskKept' /\ HandleKept'
      /\ \E i \in Ids : task'[i] # NoTask /\ task'[i].kind = k /\ task'[i].pc = "sleep"
      /\ \A i \in Ids : ts[i] # NoTask => task'[i] = ts[i]
  BY StartFacts
<1>2. /\ ops' \in Seq(Ops) /\ Len(ops') <= MaxOps /\ outside' \in 0..MaxOutside
      /\ Has(ops, "open") => Has(ops', "open")
  BY Types DEF SessionInv, TypeOK
<1>3. ASSUME NEW i \in Ids, task[i].kind = "backoff", task[i].pc \in {"sleep", "open"}
      PROVE  task'[i].kind = "backoff" /\ task'[i].pc \in {"sleep", "open"}
  <2>1. task[i] # NoTask
    BY <1>3 DEF NoTask
  <2> QED BY <2>1, <1>1, <1>3
<1>4. UNCHANGED <<keeperVars, stream, wireVars, rung>>
  OBVIOUS
<1>5. pump.pc = "schedule" => \/ pump'.pc = "schedule"
                              \/ \E i \in Ids : task'[i].kind = "backoff" /\ task'[i].pc = "sleep"
  BY <1>1
<1>6. \E i \in Ids : task'[i] # NoTask
  BY <1>1
<1> QED BY <1>1, <1>2, <1>3, <1>4, <1>5, <1>6, ThreadStepKeeps

(* HostArm keeps the invariant.                                            *)
LEMMA HostArmKeeps ==
  ASSUME SessionInv, HostArm
  PROVE  SessionInv'
<1> DEFINE ts == Cancelled({"deadline"})
<1>0. TypeOK /\ TaskKept /\ HandleKept /\ {"deadline"} \in SUBSET Kinds
  BY DEF SessionInv, Kinds
<1>1. /\ UNCHANGED <<keeperVars, ops, stream, wireVars, rung, outside>> /\ pump' = pump
      /\ host = "arm" /\ host' = "idle" /\ Start("deadline", 0, ts, handle)
  BY DEF HostArm
<1>2. /\ ts \in [Ids -> Task] /\ \A i \in Ids : ts[i] \in {task[i], NoTask}
      /\ \A i \in Ids : task[i].kind \notin {"deadline"} => ts[i] = task[i]
      /\ \A h \in Kinds : h \notin {"deadline"} /\ handle[h] # None => ts[handle[h]].kind = h
  BY <1>0, CancelledFacts
<1> HIDE DEF ts
<1>3. \A i \in Ids : /\ ts[i].pc \in {"open", "arm"} => ts[i].kind = "backoff"
                     /\ ts[i].pc = "close" => ts[i].kind \in {"deadline", "grace"}
  BY <1>0, <1>2 DEF TaskKept, NoTask
<1>4. /\ handle \in [Kinds -> Ids \cup {None}] /\ "deadline" \in Kinds /\ 0 \in 0..LastDelay
      /\ pump' \in [pc : {"idle", "schedule", "grace"}, delay : 0..LastDelay]
  BY <1>0, <1>1, GatewaySessionBounds DEF TypeOK, Kinds
<1>5. \A i \in Ids : task[i].kind = "backoff" /\ task[i].pc \in {"sleep", "open"} => ts[i] = task[i]
  BY <1>2
<1> QED BY <1>1, <1>2, <1>3, <1>4, <1>5, StartKeeps

(* Schedule and StartWaitingGrace keep the invariant.                      *)
LEMMA PumpStartKeeps ==
  ASSUME SessionInv, Schedule \/ StartWaitingGrace
  PROVE  SessionInv'
<1>0. TypeOK /\ TaskKept /\ HandleKept
  BY DEF SessionInv
<1>1. /\ UNCHANGED <<keeperVars, ops, stream, wireVars, rung, outside>> /\ host' = host
      /\ pump' = Idle
  BY DEF Schedule, StartWaitingGrace
<1>2. /\ Idle \in [pc : {"idle", "schedule", "grace"}, delay : 0..LastDelay]
      /\ pump.delay \in 0..LastDelay /\ 0 \in 0..LastDelay
      /\ task \in [Ids -> Task] /\ handle \in [Kinds -> Ids \cup {None}]
      /\ host \in {"idle", "open", "arm", "close"}
  BY <1>0, GatewaySessionBounds DEF TypeOK, Idle
<1>3. PICK k \in Kinds, d \in 0..LastDelay :
        Start(k, d, task, handle) /\ (pump.pc = "schedule" => k = "backoff")
  BY <1>2 DEF Schedule, StartWaitingGrace, Kinds
<1>4. \A i \in Ids : /\ task[i].pc \in {"open", "arm"} => task[i].kind = "backoff"
                     /\ task[i].pc = "close" => task[i].kind \in {"deadline", "grace"}
  BY <1>0 DEF TaskKept
<1>5. \A h \in Kinds : h # k /\ handle[h] # None => task[handle[h]].kind = h
  BY <1>0 DEF HandleKept
<1> QED BY <1>1, <1>2, <1>3, <1>4, <1>5, StartKeeps

(* The end of a task's sleep is a mishap at most.                          *)
LEMMA ElapsesFacts ==
  ASSUME TypeOK, NEW i \in Ids, Elapses(i)
  PROVE  outside' \in 0..MaxOutside /\ task[i] # NoTask
BY MishapFacts DEF Elapses, TypeOK, NoTask

(* BackoffFires keeps the invariant: a backoff ends without an attempt     *)
(* only over a session that is not down.                                   *)
LEMMA BackoffFiresKeeps ==
  ASSUME SessionInv, NEW i \in Ids, BackoffFires(i)
  PROVE  SessionInv'
<1>0. TypeOK /\ TaskKept /\ HandleKept /\ Driven
  BY DEF SessionInv
<1>1. /\ UNCHANGED <<keeperVars, stream, wireVars, rung>> /\ UNCHANGED <<pump, host, ops>>
      /\ task[i].kind = "backoff" /\ Elapses(i)
  BY DEF BackoffFires
<1>2. outside' \in 0..MaxOutside /\ task[i] # NoTask
  BY <1>0, <1>1, ElapsesFacts
<1>3. /\ pump' \in [pc : {"idle", "schedule", "grace"}, delay : 0..LastDelay]
      /\ host' \in {"idle", "open", "arm", "close"}
      /\ ops' \in Seq(Ops) /\ Len(ops') <= MaxOps
      /\ (Has(ops, "open") => Has(ops', "open")) /\ (host = "open" => host' = "open")
      /\ pump.pc = "schedule" => pump'.pc = "schedule"
  BY <1>0, <1>1 DEF TypeOK, Ops
<1>4. CASE wanted /\ active /\ ~connected
  <2>1. task' = [task EXCEPT ![i].pc = "open"] /\ handle' = handle
    BY <1>4 DEF BackoffFires
  <2>2. /\ task' \in [Ids -> Task] /\ TaskKept'
        /\ task'[i].pc = "open" /\ task'[i].kind = task[i].kind /\ task'[i] # NoTask
        /\ \A j \in Ids : j # i => task'[j] = task[j]
        /\ \A j \in Ids : task'[j].kind = task[j].kind
    BY <1>0, <1>1, <1>2, <2>1, TaskMoves
  <2>3. handle' \in [Kinds -> Ids \cup {None}]
    BY <1>0, <2>1, Types
  <2>4. HandleKept'
    BY <1>0, <2>1, <2>2, Types DEF HandleKept
  <2> QED BY <1>1, <1>2, <1>3, <2>2, <2>3, <2>4, ThreadStepKeeps
<1>5. CASE ~(wanted /\ active /\ ~connected)
  <2>1. Finish(i) /\ ~Down
    BY <1>5 DEF BackoffFires, Down
  <2>2. /\ task' \in [Ids -> Task] /\ handle' \in [Kinds -> Ids \cup {None}]
        /\ TaskKept' /\ HandleKept'
    BY <1>0, <2>1, FinishFacts
  <2> QED BY <1>1, <1>2, <1>3, <2>1, <2>2, ThreadStepKeeps
<1> QED BY <1>4, <1>5

(* AbandonFires keeps the invariant: a deadline or a grace ends without a  *)
(* close only over a session that is not down.                             *)
LEMMA AbandonFiresKeeps ==
  ASSUME SessionInv, NEW i \in Ids, AbandonFires(i)
  PROVE  SessionInv'
<1>0. TypeOK /\ TaskKept /\ HandleKept /\ Driven
  BY DEF SessionInv
<1>1. /\ UNCHANGED <<keeperVars, stream, wireVars, rung>> /\ UNCHANGED <<pump, host, ops>>
      /\ task[i].kind \in {"deadline", "grace"} /\ Elapses(i)
      /\ handle' = Released({task[i].kind})
  BY DEF AbandonFires
<1>2. outside' \in 0..MaxOutside /\ task[i] # NoTask
  BY <1>0, <1>1, ElapsesFacts
<1>3. /\ pump' \in [pc : {"idle", "schedule", "grace"}, delay : 0..LastDelay]
      /\ host' \in {"idle", "open", "arm", "close"}
      /\ ops' \in Seq(Ops) /\ Len(ops') <= MaxOps
      /\ (Has(ops, "open") => Has(ops', "open")) /\ (host = "open" => host' = "open")
      /\ pump.pc = "schedule" => pump'.pc = "schedule"
  BY <1>0, <1>1 DEF TypeOK, Ops
<1>4. /\ handle' \in [Kinds -> Ids \cup {None}]
      /\ \A k \in Kinds : handle'[k] # None => k # task[i].kind /\ handle'[k] = handle[k]
  BY <1>0, <1>1, Types DEF Released
<1>5. \A k \in Kinds : handle'[k] # None => /\ handle'[k] \in Ids /\ handle'[k] # i
                                            /\ task[handle'[k]].kind = k
  BY <1>0, <1>4 DEF HandleKept
<1>6. CASE wanted /\ active /\ ~connected
  <2>1. task' = [task EXCEPT ![i].pc = "close"]
    BY <1>6 DEF AbandonFires
  <2>2. /\ task' \in [Ids -> Task] /\ TaskKept' /\ task'[i] # NoTask
        /\ \A j \in Ids : j # i => task'[j] = task[j]
    BY <1>0, <1>1, <1>2, <2>1, TaskMoves
  <2>3. HandleKept'
    BY <1>5, <2>2 DEF HandleKept
  <2>4. \A j \in Ids : task[j].kind = "backoff" => task'[j] = task[j]
    BY <1>1, <2>2
  <2> QED BY <1>1, <1>2, <1>3, <1>4, <2>2, <2>3, <2>4, ThreadStepKeeps
<1>7. CASE ~(wanted /\ active /\ ~connected)
  <2>1. task' = [task EXCEPT ![i] = NoTask] /\ ~Down
    BY <1>7 DEF AbandonFires, Down
  <2>2. /\ task' \in [Ids -> Task] /\ task'[i] = NoTask
        /\ \A j \in Ids : j # i => task'[j] = task[j]
    BY <1>0, <2>1, Types DEF Task
  <2>3. TaskKept'
    BY <1>0, <2>2 DEF TaskKept, NoTask
  <2>4. HandleKept'
    BY <1>5, <2>2 DEF HandleKept
  <2> QED BY <1>1, <1>2, <1>3, <1>4, <2>1, <2>2, <2>3, <2>4, ThreadStepKeeps
<1> QED BY <1>6, <1>7

(* TaskOpens keeps the invariant: the open it was to make is queued.       *)
LEMMA TaskOpensKeeps ==
  ASSUME SessionInv, NEW i \in Ids, TaskOpens(i)
  PROVE  SessionInv'
<1>0. TypeOK /\ TaskKept /\ HandleKept
  BY DEF SessionInv
<1>1. /\ UNCHANGED <<keeperVars, stream, wireVars, rung>> /\ UNCHANGED <<handle, pump, host, outside>>
      /\ task[i].pc = "open" /\ Enqueue("open") /\ "open" \in Ops
      /\ task' = [task EXCEPT ![i].pc = "arm"]
  BY DEF TaskOpens, Ops
<1>2. task[i] # NoTask /\ task[i].kind = "backoff"
  BY <1>0, <1>1 DEF TaskKept, NoTask
<1>3. /\ task' \in [Ids -> Task] /\ TaskKept' /\ task'[i] # NoTask
      /\ \A j \in Ids : task'[j].kind = task[j].kind
  BY <1>0, <1>1, <1>2, TaskMoves
<1>4. ops' \in Seq(Ops) /\ Len(ops') <= MaxOps /\ Has(ops', "open")
  BY <1>0, <1>1, EnqueueFacts
<1>5. /\ pump' \in [pc : {"idle", "schedule", "grace"}, delay : 0..LastDelay]
      /\ host' \in {"idle", "open", "arm", "close"} /\ outside' \in 0..MaxOutside
      /\ handle' \in [Kinds -> Ids \cup {None}] /\ pump' = pump
  BY <1>0, <1>1 DEF TypeOK
<1>6. HandleKept'
  BY <1>0, <1>1, <1>3, Types DEF HandleKept
<1> QED BY <1>1, <1>3, <1>4, <1>5, <1>6, ThreadStepKeeps

(* TaskArms keeps the invariant: the deadline takes the backoff's place.   *)
LEMMA TaskArmsKeeps ==
  ASSUME SessionInv, NEW i \in Ids, TaskArms(i)
  PROVE  SessionInv'
<1> DEFINE cs == Cancelled({"deadline"})
           ts == [j \in Ids |-> IF j = i THEN NoTask ELSE cs[j]]
           hs == [k \in Kinds |-> IF handle[k] = i THEN None ELSE handle[k]]
<1>0. TypeOK /\ TaskKept /\ HandleKept /\ {"deadline"} \in SUBSET Kinds
  BY DEF SessionInv, Kinds
<1>1. /\ UNCHANGED <<keeperVars, ops, stream, wireVars, rung, outside>> /\ UNCHANGED <<pump, host>>
      /\ task[i].pc = "arm" /\ Start("deadline", 0, ts, hs)
  BY DEF TaskArms
<1>2. /\ cs \in [Ids -> Task] /\ \A j \in Ids : cs[j] \in {task[j], NoTask}
      /\ \A j \in Ids : task[j].kind \notin {"deadline"} => cs[j] = task[j]
      /\ \A h \in Kinds : h \notin {"deadline"} /\ handle[h] # None => cs[handle[h]].kind = h
  BY <1>0, CancelledFacts
<1> HIDE DEF cs
<1>3. /\ ts \in [Ids -> Task] /\ ts[i] = NoTask /\ \A j \in Ids : j # i => ts[j] = cs[j]
  BY <1>2 DEF Task
<1>4. /\ hs \in [Kinds -> Ids \cup {None}]
      /\ \A h \in Kinds : hs[h] # None => hs[h] = handle[h] /\ handle[h] # i /\ hs[h] \in Ids
  BY <1>0, Types
<1> HIDE DEF ts, hs
<1>5. \A j \in Ids : /\ ts[j].pc \in {"open", "arm"} => ts[j].kind = "backoff"
                     /\ ts[j].pc = "close" => ts[j].kind \in {"deadline", "grace"}
  BY <1>0, <1>2, <1>3 DEF TaskKept, NoTask
<1>6. \A h \in Kinds : h # "deadline" /\ hs[h] # None => ts[hs[h]].kind = h
  BY <1>2, <1>3, <1>4
<1>7. \A j \in Ids : task[j].kind = "backoff" /\ task[j].pc \in {"sleep", "open"} => ts[j] = task[j]
  BY <1>1, <1>2, <1>3
<1>8. /\ "deadline" \in Kinds /\ 0 \in 0..LastDelay /\ pump' = pump /\ host' = host
      /\ pump' \in [pc : {"idle", "schedule", "grace"}, delay : 0..LastDelay]
      /\ host' \in {"idle", "open", "arm", "close"}
  BY <1>0, <1>1, GatewaySessionBounds DEF TypeOK, Kinds
<1> QED BY <1>1, <1>3, <1>4, <1>5, <1>6, <1>7, <1>8, StartKeeps

(* TaskCloses keeps the invariant: its close is the queue's last word.     *)
LEMMA TaskClosesKeeps ==
  ASSUME SessionInv, NEW i \in Ids, TaskCloses(i)
  PROVE  SessionInv'
<1>0. TypeOK /\ TaskKept /\ HandleKept
  BY DEF SessionInv
<1>1. /\ UNCHANGED <<keeperVars, stream, wireVars, rung>> /\ UNCHANGED <<pump, host, outside>>
      /\ task[i].pc = "close" /\ Enqueue("close") /\ "close" \in Ops /\ Finish(i)
  BY DEF TaskCloses, Ops
<1>2. /\ task' \in [Ids -> Task] /\ handle' \in [Kinds -> Ids \cup {None}]
      /\ TaskKept' /\ HandleKept'
      /\ \A j \in Ids : j # i => task'[j] = task[j]
  BY <1>0, <1>1, FinishFacts
<1>3. /\ ops' \in Seq(Ops) /\ Len(ops') <= MaxOps /\ (Has(ops, "open") => Has(ops', "open"))
      /\ ClosesLast(ops')
  BY <1>0, <1>1, EnqueueFacts
<1>4. \A j \in Ids : task[j].kind = "backoff" /\ task[j].pc \in {"sleep", "open"} => task'[j] = task[j]
  BY <1>1, <1>2
<1>5. /\ pump' \in [pc : {"idle", "schedule", "grace"}, delay : 0..LastDelay]
      /\ host' \in {"idle", "open", "arm", "close"} /\ outside' \in 0..MaxOutside
      /\ pump' = pump /\ host' = host
  BY <1>0, <1>1 DEF TypeOK
<1> QED BY <1>1, <1>2, <1>3, <1>4, <1>5, ThreadStepKeeps

(* Every step of a task keeps the invariant.                               *)
LEMMA TaskStepKeeps ==
  ASSUME SessionInv, NEW i \in Ids, TaskStep(i)
  PROVE  SessionInv'
BY BackoffFiresKeeps, AbandonFiresKeeps, TaskOpensKeeps, TaskArmsKeeps, TaskClosesKeeps DEF TaskStep

(* Forward keeps the invariant: of the event it takes it makes a belief, a *)
(* refusal or a backoff to be scheduled.                                   *)
LEMMA ForwardKeeps ==
  ASSUME SessionInv, Forward
  PROVE  SessionInv'
<1>0. TypeOK /\ NewsTrue /\ BeliefKept /\ WireKept /\ TaskKept /\ HandleKept /\ Reopens /\ Driven
  BY DEF SessionInv
<1>1. /\ pump = Idle /\ stream # <<>> /\ stream' = Tail(stream)
      /\ UNCHANGED <<wanted, active, host, ops, conn, machine, watch, late, seen, rung, outside>>
  BY DEF Forward, wireVars
<1>2. /\ stream \in Seq(Events) /\ stream' \in Seq(Events) /\ Len(stream') <= MaxEvents
      /\ Head(stream) \in Events
      /\ \A e \in Events : Has(stream, e) /\ Head(stream) # e => Has(stream', e)
  <2>1. /\ stream \in Seq(Events) /\ Len(stream) <= MaxEvents /\ MaxEvents \in Nat
    BY <1>0, Types, GatewaySessionBounds DEF TypeOK
  <2>2. /\ Tail(stream) \in Seq(Events) /\ Len(stream) \in Nat \ {0}
        /\ Len(Tail(stream)) = Len(stream) - 1 /\ Head(stream) \in Events
        /\ \A e \in Events : Has(stream, e) /\ Head(stream) # e => Has(Tail(stream), e)
    BY <1>1, <2>1, TailFacts
  <2> QED BY <1>1, <2>1, <2>2
<1>3. {"grace", "deadline"} \in SUBSET Kinds
  BY DEF Kinds
<1>4. /\ Cancelled({"grace", "deadline"}) \in [Ids -> Task]
      /\ \A i \in Ids : Cancelled({"grace", "deadline"})[i] \in {task[i], NoTask}
      /\ \A i \in Ids : task[i].kind \notin {"grace", "deadline"}
                          => Cancelled({"grace", "deadline"})[i] = task[i]
      /\ Released({"grace", "deadline"}) \in [Kinds -> Ids \cup {None}]
      /\ \A k \in Kinds : k \in {"grace", "deadline"} => Released({"grace", "deadline"})[k] = None
      /\ \A k \in Kinds : k \notin {"grace", "deadline"}
                            => Released({"grace", "deadline"})[k] = handle[k]
      /\ \A k \in Kinds : k \notin {"grace", "deadline"} /\ handle[k] # None
                            => Cancelled({"grace", "deadline"})[handle[k]].kind = k
  BY <1>0, <1>3, CancelledFacts
<1>5. ASSUME task' = Cancelled({"grace", "deadline"}), handle' = Released({"grace", "deadline"})
      PROVE  /\ task' \in [Ids -> Task] /\ handle' \in [Kinds -> Ids \cup {None}]
             /\ TaskKept' /\ HandleKept'
  <2>1. TaskKept'
    BY <1>0, <1>4, <1>5 DEF TaskKept, NoTask
  <2>2. HandleKept'
    BY <1>4, <1>5 DEF HandleKept
  <2> QED BY <1>4, <1>5, <2>1, <2>2
<1>6. ASSUME task' = task, handle' = handle
      PROVE  /\ task' \in [Ids -> Task] /\ handle' \in [Kinds -> Ids \cup {None}]
             /\ TaskKept' /\ HandleKept'
  BY <1>0, <1>6, Types DEF TaskKept, HandleKept
<1> DEFINE Rest == /\ connected' \in BOOLEAN /\ refused' \in BOOLEAN /\ attempt' \in 0..LastDelay
                   /\ task' \in [Ids -> Task] /\ handle' \in [Kinds -> Ids \cup {None}]
                   /\ pump' \in [pc : {"idle", "schedule", "grace"}, delay : 0..LastDelay]
                   /\ TaskKept' /\ HandleKept' /\ Reopens' /\ Driven'
                   /\ NewsTrue' /\ BeliefKept'
<1>7. /\ attempt \in 0..LastDelay /\ 0 \in 0..LastDelay /\ NextAttempt \in 0..LastDelay
      /\ Idle \in [pc : {"idle", "schedule", "grace"}, delay : 0..LastDelay]
      /\ [pc |-> "schedule", delay |-> attempt] \in [pc : {"idle", "schedule", "grace"}, delay : 0..LastDelay]
      /\ [pc |-> "grace", delay |-> 0] \in [pc : {"idle", "schedule", "grace"}, delay : 0..LastDelay]
      /\ connected \in BOOLEAN /\ refused \in BOOLEAN /\ wanted \in BOOLEAN /\ active \in BOOLEAN
  BY <1>0, GatewaySessionBounds DEF TypeOK, NextAttempt, Idle
<1>8. ASSUME Head(stream) = "connected" PROVE Rest
  <2>1. /\ connected' = TRUE /\ attempt' = 0
        /\ task' = Cancelled({"grace", "deadline"}) /\ handle' = Released({"grace", "deadline"})
        /\ UNCHANGED <<refused, pump>>
    BY <1>8 DEF Forward
  <2>2. NewsTrue' /\ BeliefKept'
    BY <1>0, <1>1, <1>8, <2>1, NewsTaken
  <2>3. Reopens' /\ Driven'
    BY <2>1 DEF Reopens, Driven, Down
  <2> QED BY <1>1, <1>5, <1>7, <2>1, <2>2, <2>3
<1>9. ASSUME Head(stream) = "refusal" PROVE Rest
  <2>1. refused' = TRUE /\ UNCHANGED <<connected, attempt, task, handle, pump>>
    BY <1>9 DEF Forward, taskVars
  <2>2. NewsTrue' /\ BeliefKept'
    BY <1>0, <1>1, <1>9, <2>1, NewsTaken
  <2>3. Reopens' /\ Driven'
    BY <2>1 DEF Reopens, Driven, Down
  <2> QED BY <1>1, <1>6, <1>7, <2>1, <2>2, <2>3
<1>10. ASSUME Head(stream) = "disconnected" PROVE Rest
  <2>1. /\ connected' = FALSE
        /\ task' = Cancelled({"grace", "deadline"}) /\ handle' = Released({"grace", "deadline"})
        /\ IF wanted /\ active /\ ~refused
           THEN pump' = [pc |-> "schedule", delay |-> attempt] /\ attempt' = NextAttempt
           ELSE UNCHANGED <<pump, attempt>>
        /\ UNCHANGED refused
    BY <1>10 DEF Forward
  <2>2. NewsTrue' /\ BeliefKept'
    BY <1>0, <1>1, <1>10, <2>1, NewsTaken
  <2>3. Down' => pump'.pc = "schedule" /\ pump' # Idle
    BY <1>1, <2>1 DEF Down, Idle
  <2>4. Reopens' /\ Driven'
    BY <2>3 DEF Reopens, Driven
  <2> QED BY <1>1, <1>5, <1>7, <2>1, <2>2, <2>4
<1>11. ASSUME Head(stream) = "waiting" PROVE Rest
  <2>1. /\ pump' = IF wanted /\ active /\ ~connected /\ handle["grace"] = None
                   THEN [pc |-> "grace", delay |-> 0] ELSE Idle
        /\ UNCHANGED <<connected, refused, attempt, task, handle>>
    BY <1>11 DEF Forward, taskVars
  <2>2. NewsTrue' /\ BeliefKept'
    BY <1>0, <1>1, <1>11, <2>1, NewsTaken
  <2>3. /\ Has(stream, "connected") => Has(stream', "connected")
        /\ Has(stream, "disconnected") => Has(stream', "disconnected")
    BY <1>2, <1>11 DEF Events
  <2>4. Down' <=> Down
    BY <1>1, <2>1 DEF Down
  <2>5. Driven'
    BY <1>0, <1>1, <2>1, <2>3, <2>4 DEF Driven
  <2>6. Reopens'
    BY <1>0, <1>1, <2>1, <2>3, <2>4 DEF Reopens, Idle
  <2> QED BY <1>1, <1>6, <1>7, <2>1, <2>2, <2>5, <2>6
<1>12. Rest
  BY <1>2, <1>8, <1>9, <1>10, <1>11 DEF Events
<1>13. TypeOK'
  BY <1>0, <1>1, <1>2, <1>12 DEF TypeOK, Events
<1>14. WireKept'
  BY <1>0, <1>1 DEF WireKept
<1> QED BY <1>12, <1>13, <1>14 DEF SessionInv

-----------------------------------------------------------------------------
(* The invariant of the session, and what follows from it.                 *)

(* The session starts idle, with nothing wanted.                           *)
LEMMA SessionInit ==
  ASSUME Init
  PROVE  SessionInv
<1>1. stream = <<>> /\ ops = <<>> /\ ~wanted /\ ~connected /\ machine = "idle" /\ conn = "none"
  BY DEF Init
<1>2. TypeOK
  <2>1. task \in [Ids -> Task] /\ handle \in [Kinds -> Ids \cup {None}]
    BY DEF Init, Task
  <2>2. /\ pump \in [pc : {"idle", "schedule", "grace"}, delay : 0..LastDelay]
        /\ attempt \in 0..LastDelay /\ outside \in 0..MaxOutside
        /\ seen \subseteq Calls /\ rung \in [Calls -> 0..2]
    BY GatewaySessionBounds DEF Init, Idle
  <2>3. /\ ops \in Seq({"open", "close", "check"}) /\ Len(ops) <= MaxOps
        /\ stream \in Seq({"waiting", "connected", "refusal", "disconnected"})
        /\ Len(stream) <= MaxEvents
    BY <1>1, GatewaySessionBounds
  <2>4. {wanted, active, connected, refused, watch, late} \subseteq BOOLEAN
    BY DEF Init
  <2> QED BY <1>1, <2>1, <2>2, <2>3, <2>4 DEF Init, TypeOK
<1>3. NewsTrue /\ BeliefKept /\ WireKept /\ Reopens /\ Driven
  BY <1>1 DEF NewsTrue, BeliefKept, WireKept, Reopens, Driven, Down
<1>4. TaskKept /\ HandleKept
  BY DEF Init, TaskKept, HandleKept, NoTask
<1> QED BY <1>2, <1>3, <1>4 DEF SessionInv

(* Every step of the session keeps the invariant.                          *)
LEMMA SessionStepKeeps ==
  ASSUME SessionInv, [Next]_vars
  PROVE  SessionInv'
<1>1. CASE HostNext
  BY <1>1, HostCallKeeps, HostEnqueueKeeps DEF HostNext
<1>2. CASE HostStep
  BY <1>2, HostEnqueueKeeps, HostArmKeeps DEF HostStep
<1>3. CASE PumpStep
  BY <1>3, ForwardKeeps, PumpStartKeeps DEF PumpStep
<1>4. CASE QueueStep \/ LivenessTimer
  BY <1>4, OpenKeeps, CloseOpKeeps, LivenessKeeps DEF QueueStep
<1>5. CASE \E i \in Ids : TaskStep(i)
  BY <1>5, TaskStepKeeps
<1>6. CASE Ready \/ Welcome \/ Refusal \/ Failed \/ PathWaits \/ LateWrite \/ PathLost \/ Silence
  BY <1>6, PathKeeps, WelcomeKeeps, RefusalKeeps, FailedKeeps, PathWaitsKeeps
<1>7. CASE \E c \in Calls : Wake(c)
  BY <1>7, WakeKeeps
<1>8. CASE UNCHANGED vars
  <2>1. /\ UNCHANGED <<wanted, active, connected, refused, attempt, task, handle, pump, host>>
        /\ UNCHANGED <<ops, stream, conn, machine, watch, late, seen, rung, outside>>
    BY <1>8 DEF vars
  <2>2. TypeOK'
    BY <2>1 DEF SessionInv, TypeOK
  <2>3. NewsTrue' /\ BeliefKept' /\ WireKept'
    BY <2>1, NewsStays DEF SessionInv, WireKept
  <2>4. TaskKept' /\ HandleKept'
    BY <2>1 DEF SessionInv, TaskKept, HandleKept
  <2>5. Reopens' /\ Driven'
    BY <2>1 DEF SessionInv, Reopens, Driven, Down
  <2> QED BY <2>2, <2>3, <2>4, <2>5 DEF SessionInv
<1> QED BY <1>1, <1>2, <1>3, <1>4, <1>5, <1>6, <1>7, <1>8 DEF Next

(* SessionInv is an invariant of every session, whatever the bounds.       *)
THEOREM SessionInvHolds == Spec => []SessionInv
<1>1. Init => SessionInv
  BY SessionInit
<1>2. SessionInv /\ [Next]_vars => SessionInv'
  BY SessionStepKeeps
<1> QED BY <1>1, <1>2, PTL DEF Spec

(* What the keeper believes is what the transport has, or the news is on   *)
(* its way, and a live session is watched: for any number of tasks, blocks *)
(* and events in flight, calls of the host and mishaps.                    *)
THEOREM SessionBeliefTrue == Spec => []BeliefTrue
<1>1. SessionInv => BeliefTrue
  <2> SUFFICES ASSUME SessionInv PROVE BeliefTrue
    OBVIOUS
  <2>1. \A e : Has(stream, e) => e \in ToSet(stream)
    BY Types DEF SessionInv, Has, ToSet
  <2> QED BY <2>1 DEF SessionInv, BeliefKept, WireKept, BeliefTrue
<1> QED BY <1>1, SessionInvHolds, PTL

(* A session that is wanted and down never sits with nothing to wake it,   *)
(* whichever of the host's calls, the pump and the tasks last touched the  *)
(* three handles.                                                          *)
THEOREM SessionNeverWedged == Spec => []NeverWedged
<1>1. SessionInv => NeverWedged
  <2> SUFFICES ASSUME SessionInv, Quiet, wanted, active, ~refused, ~connected
               PROVE  \E i \in Ids : task[i] # NoTask
    BY DEF NeverWedged
  <2>1. Down /\ host = "idle" /\ pump = Idle /\ stream = <<>> /\ ops = <<>>
    BY DEF Down, Quiet
  <2>2. ~Has(stream, "connected") /\ ~Has(stream, "disconnected") /\ ~ClosesLast(ops)
    BY <2>1 DEF Has, ClosesLast
  <2> QED BY <2>1, <2>2 DEF SessionInv, Driven
<1> QED BY <1>1, SessionInvHolds, PTL
=============================================================================
