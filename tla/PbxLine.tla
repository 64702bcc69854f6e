------------------------------ MODULE PbxLine ------------------------------
(***************************************************************************)
(* One user's line on the PBX in lines mode (server/internal/pbxline): the *)
(* line registrar (pbxline.go: Manager, its loop per line, Put, Delete,    *)
(* Stop and the clock watcher) over the SIP registrar (sipreg.go), whose   *)
(* REGISTER is one object per user, kept between refreshes.                *)
(*                                                                         *)
(* A line that is deleted and written again is a new line object with a    *)
(* loop of its own; the deleted one's loop and its unregister may still be *)
(* running.  Durations are abstracted: a timer may fire at any time, and   *)
(* the watcher may find a wait overdue at any time (the machine slept).    *)
(* Requests reach the exchange in the order they are sent.                 *)
(***************************************************************************)
EXTENDS Naturals, Sequences

CONSTANTS
  DNs, Secrets,   \* directory numbers and digest secrets
  MaxLines,       \* bound: line objects created for the user
  Deletes,        \* whether the line is ever deleted
  Spreads         \* the settings of StartSpread considered (the server leaves it zero)

ASSUME LineAssumption ==
  /\ DNs # {} /\ Secrets # {}
  /\ MaxLines \in Nat \ {0}
  /\ Deletes \in BOOLEAN
  /\ Spreads \subseteq BOOLEAN

VARIABLES
  spread,   \* Config.StartSpread is set
  manager,  \* "new", "started", "stopping", "stopped"
  active,   \* the object in Manager.lines, 0 when there is none
  used,     \* line objects created so far
  ln,       \* the line objects: loop, credential, tokens and status
  un,       \* the unregister of each object, if one runs
  cached,   \* SIPRegistrar.reqs[user]: a request, 0 when there is none
  reqs,     \* the requests built: the DN they name and whether Expires > 0
  wire,     \* requests on their way to the exchange
  bound     \* the DNs the exchange sends to this server

vars == <<spread, manager, active, used, ln, un, cached, reqs, wire, bound>>

Line == [dn : DNs, secret : Secrets]
Objects == 1..MaxLines
Requests == 1..(2 * MaxLines)
Callers == {"run", "unregister"}
Waits == {"wait", "spread", "startSpread"}     \* the loop is in waitUntil

None == [dn |-> CHOOSE d \in DNs : TRUE, secret |-> CHOOSE s \in Secrets : TRUE]
NewLine(l) ==
  [pc |-> "idle", cur |-> l, sent |-> l, req |-> 0, wake |-> FALSE, until |-> FALSE,
   late |-> FALSE, overdue |-> FALSE, status |-> "pending", ended |-> FALSE,
   news |-> FALSE, answer |-> "none"]

LoopState ==
  [pc : {"idle", "startSpread", "snap", "spread", "prep", "send", "answer", "wait", "parked", "done"},
   cur : Line, sent : Line, req : {0} \cup Requests, wake : BOOLEAN, until : BOOLEAN,
   late : BOOLEAN, overdue : BOOLEAN,
   status : {"pending", "registered", "retrying", "refused"}, ended : BOOLEAN,
   news : BOOLEAN, answer : {"none", "ok", "refused", "failed"}]
UnState == [pc : {"none", "stop", "prep", "send", "answer", "forget", "done"},
            line : Line, req : {0} \cup Requests]
Request == [dn : DNs, keep : BOOLEAN, made : BOOLEAN]
Message == [by : Callers, obj : Objects, dn : DNs, keep : BOOLEAN]

TypeOK ==
  /\ spread \in BOOLEAN
  /\ manager \in {"new", "started", "stopping", "stopped"}
  /\ active \in 0..MaxLines /\ used \in 0..MaxLines /\ active <= used
  /\ ln \in [Objects -> LoopState]
  /\ un \in [Objects -> UnState]
  /\ cached \in {0} \cup Requests
  /\ reqs \in [Requests -> Request]
  /\ wire \in Seq(Message)
  /\ bound \subseteq DNs

-----------------------------------------------------------------------------
(* The manager.                                                            *)

First == IF spread THEN "startSpread" ELSE "snap"

(* startLocked: the loop is launched.                                      *)
Started(l) == [l EXCEPT !.pc = First, !.until = spread]

Start ==
  /\ manager = "new"
  /\ manager' = "started"
  /\ ln' = [i \in Objects |-> IF i = active THEN Started(ln[i]) ELSE ln[i]]
  /\ UNCHANGED <<spread, active, used, un, cached, reqs, wire, bound>>

(* Mutant of Replaced: the loop is not told of the new credential.         *)
MutReplacedSilently(l, new) == [l EXCEPT !.cur = new, !.news = @ \/ l.cur # new]

(* Put on a line that exists: a changed credential is signalled.           *)
Replaced(l, new) ==
  [l EXCEPT !.cur = new, !.wake = @ \/ l.cur # new, !.news = @ \/ l.cur # new]

Put(new) ==
  /\ IF active # 0
     THEN /\ ln' = [ln EXCEPT ![active] = Replaced(@, new)]
          /\ UNCHANGED <<active, used>>
     ELSE /\ used < MaxLines
          /\ used' = used + 1
          /\ active' = used + 1
          /\ ln' = [ln EXCEPT ![used + 1] =
                      IF manager = "started" THEN Started(NewLine(new)) ELSE NewLine(new)]
  /\ UNCHANGED <<spread, manager, un, cached, reqs, wire, bound>>

Unregistering(i) == [un[i] EXCEPT !.pc = "prep", !.line = ln[i].cur]

(* Delete: the loop is cancelled and the unregister runs beside it.        *)
Delete ==
  /\ Deletes
  /\ active # 0
  /\ active' = 0
  /\ ln' = [ln EXCEPT ![active].ended = TRUE]
  /\ un' = IF manager = "started" THEN [un EXCEPT ![active] = Unregistering(active)] ELSE un
  /\ UNCHANGED <<spread, manager, used, cached, reqs, wire, bound>>

(* Mutant of Stop: the loops are not waited for.                           *)
MutStopNoWait ==
  /\ manager = "started"
  /\ manager' = "stopped"
  /\ ln' = [i \in Objects |-> IF i = active THEN [ln[i] EXCEPT !.ended = TRUE] ELSE ln[i]]
  /\ un' = IF active = 0 THEN un ELSE [un EXCEPT ![active] = Unregistering(active)]
  /\ UNCHANGED <<spread, active, used, cached, reqs, wire, bound>>

(* Stop cancels the loops, waits for them (Stopped), and unregisters.      *)
Stop ==
  /\ manager = "started"
  /\ manager' = "stopping"
  /\ ln' = [i \in Objects |-> IF i = active THEN [ln[i] EXCEPT !.ended = TRUE] ELSE ln[i]]
  /\ un' = IF active = 0 THEN un
           ELSE [un EXCEPT ![active].pc = "stop", ![active].line = ln[active].cur]
  /\ UNCHANGED <<spread, active, used, cached, reqs, wire, bound>>

Stopped ==
  /\ manager = "stopping"
  /\ \A i \in Objects : ln[i].pc \in {"idle", "done"}
  /\ manager' = "stopped"
  /\ un' = [i \in Objects |->
              IF un[i].pc = "stop" THEN [un[i] EXCEPT !.pc = "prep"] ELSE un[i]]
  /\ UNCHANGED <<spread, active, used, ln, cached, reqs, wire, bound>>

-----------------------------------------------------------------------------
(* SIPRegistrar.register, in the two steps that matter: the user's one     *)
(* request is found or built and its Expires set; it is sent as it then    *)
(* stands.                                                                 *)

Fresh(r) == ~reqs[r].made /\ \A q \in 1..(r - 1) : reqs[q].made

Prepared(l, keep, r) ==
  IF cached # 0
  THEN /\ r = cached
       /\ reqs' = [reqs EXCEPT ![r].keep = keep]
       /\ UNCHANGED cached
  ELSE /\ Fresh(r)
       /\ cached' = r
       /\ reqs' = [reqs EXCEPT ![r] = [dn |-> l.dn, keep |-> keep, made |-> TRUE]]

Sent(by, i, r) ==
  wire' = Append(wire, [by |-> by, obj |-> i, dn |-> reqs[r].dn, keep |-> reqs[r].keep])

-----------------------------------------------------------------------------
(* The loop of a line (run).                                               *)

(* The start's scatter is over, by its timer or cut short by a Put.        *)
StartSpreadEnds(i) ==
  /\ ln[i].pc = "startSpread"
  /\ ~ln[i].ended
  /\ \E woken \in {FALSE, ln[i].wake} :
       ln' = [ln EXCEPT ![i].pc = "snap", ![i].until = FALSE, ![i].late = FALSE,
                        ![i].wake = @ /\ ~woken]
  /\ UNCHANGED <<spread, manager, active, used, un, cached, reqs, wire, bound>>

(* cur := l.snapshot(); a wait that ended late is scattered again.         *)
Snapshot(i) ==
  /\ ln[i].pc = "snap"
  /\ LET scatter == ln[i].overdue /\ spread IN
     ln' = [ln EXCEPT ![i].sent = ln[i].cur, ![i].news = FALSE, ![i].until = scatter,
                      ![i].pc = IF scatter THEN "spread" ELSE "prep"]
  /\ UNCHANGED <<spread, manager, active, used, un, cached, reqs, wire, bound>>

SpreadEnds(i) ==
  /\ ln[i].pc = "spread"
  /\ ~ln[i].ended
  /\ \E woken \in {FALSE, ln[i].wake} :
       ln' = [ln EXCEPT ![i].pc = "prep", ![i].until = FALSE, ![i].late = FALSE,
                        ![i].wake = @ /\ ~woken]
  /\ UNCHANGED <<spread, manager, active, used, un, cached, reqs, wire, bound>>

Prepare(i) ==
  /\ ln[i].pc = "prep"
  /\ \E r \in Requests :
       /\ Prepared(ln[i].sent, TRUE, r)
       /\ ln' = [ln EXCEPT ![i].pc = "send", ![i].req = r]
  /\ UNCHANGED <<spread, manager, active, used, un, wire, bound>>

(* The stack sends even under a context that has ended.                    *)
Send(i) ==
  /\ ln[i].pc = "send"
  /\ Sent("run", i, ln[i].req)
  /\ ln' = [ln EXCEPT ![i].pc = "answer", ![i].answer = "none"]
  /\ UNCHANGED <<spread, manager, active, used, un, cached, reqs, bound>>

(* Mutant of Published: a failed refresh leaves the line shown registered. *)
MutPublishedStale(answer) == IF answer = "refused" THEN "refused" ELSE "registered"

(* registered, refused, retrying: the status an answer leads to.           *)
Published(answer) ==
  CASE answer = "ok" -> "registered"
    [] answer = "refused" -> "refused"
    [] answer = "failed" -> "retrying"

(* Register has returned: the outcome is published and waited on.          *)
Outcome(i) ==
  /\ ln[i].pc = "answer"
  /\ ln[i].answer # "none"
  /\ ~ln[i].ended
  /\ ln' = [ln EXCEPT
       ![i].status = Published(ln[i].answer),
       ![i].pc = IF ln[i].answer = "refused" THEN "parked" ELSE "wait",
       ![i].until = (ln[i].answer # "refused"), ![i].answer = "none", ![i].req = 0]
  /\ UNCHANGED <<spread, manager, active, used, un, cached, reqs, wire, bound>>

(* Mutant of WaitEnds: the late token is not discarded with the deadline.  *)
MutTokenKept(i, why) ==
  /\ ln[i].pc = "wait"
  /\ ~ln[i].ended
  /\ why = "wake" => ln[i].wake
  /\ why = "late" => ln[i].late
  /\ ln' = [ln EXCEPT ![i].pc = "snap", ![i].until = FALSE,
                      ![i].late = @ /\ why # "late",
                      ![i].wake = @ /\ why # "wake", ![i].overdue = (why = "late")]
  /\ UNCHANGED <<spread, manager, active, used, un, cached, reqs, wire, bound>>

(* waitUntil returns: the timer, a changed credential, or the watcher; the *)
(* deadline is cleared and a late token discarded with it.                 *)
WaitEnds(i, why) ==
  /\ ln[i].pc = "wait"
  /\ ~ln[i].ended
  /\ why = "wake" => ln[i].wake
  /\ why = "late" => ln[i].late
  /\ ln' = [ln EXCEPT ![i].pc = "snap", ![i].until = FALSE, ![i].late = FALSE,
                      ![i].wake = @ /\ why # "wake", ![i].overdue = (why = "late")]
  /\ UNCHANGED <<spread, manager, active, used, un, cached, reqs, wire, bound>>

(* waitForChange: a refused line waits for its credential to change.       *)
Unpark(i) ==
  /\ ln[i].pc = "parked"
  /\ ~ln[i].ended
  /\ ln[i].wake
  /\ ln' = [ln EXCEPT ![i].pc = "snap", ![i].wake = FALSE]
  /\ UNCHANGED <<spread, manager, active, used, un, cached, reqs, wire, bound>>

(* The loop's context has ended: it returns from its wait, or once         *)
(* Register has returned.                                                  *)
Return(i) ==
  /\ ln[i].ended
  /\ ln[i].pc \in Waits \cup {"parked", "answer"}
  /\ ln' = [ln EXCEPT ![i] = [NewLine(None) EXCEPT !.pc = "done", !.ended = TRUE]]
  /\ UNCHANGED <<spread, manager, active, used, un, cached, reqs, wire, bound>>

(* sweep: a wait found overdue on the wall clock, once per wait.           *)
flagIfOverdue ==
  /\ manager = "started"
  /\ active # 0
  /\ ln[active].until
  /\ ln' = [ln EXCEPT ![active].until = FALSE, ![active].late = TRUE]
  /\ UNCHANGED <<spread, manager, active, used, un, cached, reqs, wire, bound>>

-----------------------------------------------------------------------------
(* Unregister, and the exchange.                                           *)

UnPrepare(i) ==
  /\ un[i].pc = "prep"
  /\ \E r \in Requests :
       /\ Prepared(un[i].line, FALSE, r)
       /\ un' = [un EXCEPT ![i].pc = "send", ![i].req = r]
  /\ UNCHANGED <<spread, manager, active, used, ln, wire, bound>>

UnSend(i) ==
  /\ un[i].pc = "send"
  /\ Sent("unregister", i, un[i].req)
  /\ un' = [un EXCEPT ![i].pc = "answer"]
  /\ UNCHANGED <<spread, manager, active, used, ln, cached, reqs, bound>>

(* delete(r.reqs, l.User).                                                 *)
UnForget(i) ==
  /\ un[i].pc = "forget"
  /\ cached' = 0
  /\ un' = [un EXCEPT ![i] = [pc |-> "done", line |-> None, req |-> 0]]
  /\ UNCHANGED <<spread, manager, active, used, ln, reqs, wire, bound>>

(* The exchange takes the next request: a binding kept is accepted,        *)
(* refused or fails, one dropped is dropped (the code accepts a lost       *)
(* Expires: 0 as best effort).                                             *)
Exchange(outcome) ==
  /\ wire # <<>>
  /\ LET m == Head(wire) IN
     /\ m.keep \/ outcome = "ok"
     /\ bound' = IF outcome # "ok" THEN bound
                 ELSE IF m.keep THEN bound \cup {m.dn} ELSE bound \ {m.dn}
     /\ ln' = IF m.by = "run" /\ ln[m.obj].pc = "answer"
              THEN [ln EXCEPT ![m.obj].answer = outcome] ELSE ln
     /\ un' = IF m.by = "unregister" THEN [un EXCEPT ![m.obj].pc = "forget"] ELSE un
  /\ wire' = Tail(wire)
  /\ UNCHANGED <<spread, manager, active, used, cached, reqs>>

Init ==
  /\ spread \in Spreads
  /\ manager = "new" /\ active = 0 /\ used = 0
  /\ ln = [i \in Objects |-> NewLine(None)]
  /\ un = [i \in Objects |-> [pc |-> "none", line |-> None, req |-> 0]]
  /\ cached = 0
  /\ reqs = [r \in Requests |-> [dn |-> None.dn, keep |-> FALSE, made |-> FALSE]]
  /\ wire = <<>> /\ bound = {}

Loop(i) ==
  \/ StartSpreadEnds(i)
  \/ Snapshot(i)
  \/ SpreadEnds(i)
  \/ Prepare(i)
  \/ Send(i)
  \/ Outcome(i)
  \/ \E why \in {"timer", "wake", "late"} : WaitEnds(i, why)
  \/ Unpark(i)
  \/ Return(i)

Unregister(i) == UnPrepare(i) \/ UnSend(i) \/ UnForget(i)

Next ==
  \/ Start
  \/ \E l \in Line : Put(l)
  \/ Delete
  \/ Stop
  \/ Stopped
  \/ \E i \in Objects : Loop(i) \/ Unregister(i)
  \/ flagIfOverdue
  \/ \E outcome \in {"ok", "refused", "failed"} : Exchange(outcome)
  \/ manager = "stopped" /\ UNCHANGED vars

Spec == Init /\ [][Next]_vars

(* The loops and unregisters run and requests are answered (the SIP        *)
(* transaction times out otherwise).                                       *)
Fairness ==
  /\ \A i \in Objects : WF_vars(Loop(i)) /\ WF_vars(Unregister(i))
  /\ WF_vars(\E outcome \in {"ok", "refused", "failed"} : Exchange(outcome))

FairSpec == Spec /\ Fairness

-----------------------------------------------------------------------------
(* "a corrected password should take effect now, not at the next refresh": *)
(* a loop that waits without a token in hand has registered the            *)
(* credential the line now has.  With StartSpread set the scatter after a  *)
(* sleep takes the token of a write that came after the snapshot.          *)
CredentialRegistered ==
  \A i \in Objects : ~spread /\ ln[i].pc \in {"wait", "parked"} /\ ~ln[i].wake
                      => ln[i].sent = ln[i].cur

(* "a token can never outlive its wait": the watcher's late token is there *)
(* only while the wait it belongs to is.                                   *)
LateInWait == \A i \in Objects : ln[i].late => ln[i].pc \in Waits

(* Nothing is on its way to or from the exchange.                          *)
Quiet == /\ wire = <<>>
         /\ \A i \in Objects : /\ ln[i].pc \in {"idle", "wait", "parked", "done"}
                               /\ un[i].pc \in {"none", "done"}

(* A line shown registered is bound at the exchange, and under the number  *)
(* it has ("a line the PBX has accepted and which is being refreshed       *)
(* before it expires").                                                    *)
Served ==
  Quiet /\ active # 0 /\ manager = "started" /\ ln[active].status = "registered"
        /\ ln[active].pc = "wait" /\ ~ln[active].wake
    => bound = {ln[active].cur.dn}

(* Stop drops the contact of a line it serves "so the PBX does not ring a  *)
(* line we have stopped serving".                                          *)
StopDrops == Quiet /\ manager = "stopped" /\ active # 0 => bound = {}

(* What a line shows and what its tokens mean stay true through renewals,   *)
(* sleeps of the machine, failures and the stop.                           *)
LineSound == LateInWait /\ Served /\ StopDrops

(* "Delete stops a line and drops its contact on the PBX."                 *)
DeleteDrops == Quiet /\ manager = "started" /\ active = 0 => bound = {}

(* "Nothing but an administrator can help now. Park until the credential   *)
(* changes": a refused loop goes on only if the credential has changed     *)
(* since it was read.                                                      *)
RefusedParks ==
  [][\A i \in Objects : ln[i].pc = "parked" /\ ln'[i].pc = "snap" => ln[i].news]_vars

(* A credential written to a running line is sent to the exchange, unless  *)
(* it is replaced, deleted or the server stops first (StartSpread zero).   *)
CredentialTried ==
  \A l \in Line, i \in Objects :
    (~spread /\ manager = "started" /\ active = i /\ ln[i].cur = l)
      ~> (ln[i].sent = l /\ ln[i].pc \in {"answer", "wait", "parked"}) \/ ln[i].cur # l
         \/ active # i \/ manager # "started"
=============================================================================
