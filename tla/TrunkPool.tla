----------------------------- MODULE TrunkPool -----------------------------
(***************************************************************************)
(* The pooled TCP/TLS connection to the PBX trunk: calls that use it, the    *)
(* watchdog that finds it silently dead, the redial on a fresh one           *)
(* (serveDialog and bridge), dropTrunkConnection, and the OPTIONS qualifier  *)
(* (qualify.go) with the state it reports (status.go).                      *)
(*                                                                         *)
(* The pool is sipgo's, keyed by the trunk's address: closing a connection   *)
(* leaves it in the pool until its read loop notices and evicts the entry.   *)
(* A timeout may come on any connection: a stuck or closed one, or one whose *)
(* PBX is slow.                                                             *)
(***************************************************************************)
EXTENDS Integers

CONSTANTS
  TrunkCalls,
  MaxConns,   \* bound: connections dialled
  MaxBreaks   \* bound: network interruptions

ASSUME TrunkAssumption == MaxConns \in Nat /\ MaxBreaks \in Nat

Conns == 1..MaxConns
NoConn == 0

VARIABLES
  conn,       \* connection -> "unused", "open", "stuck" (its packets go nowhere) or "closed"
  pooled,     \* the connection the pool holds for the trunk's address
  unsent,     \* <<call, connection>>: INVITEs written to a stuck connection
  trunkCall,  \* call -> [pc, conn, attempt]
  probe,      \* the qualifier: [pc, conn, dead]
  trunkUp,    \* trunkState.up, as TrunkStatus reports it
  breaks

trunkVars == <<conn, pooled, unsent, trunkCall, probe, trunkUp, breaks>>

TrunkInit ==
  /\ conn = [k \in Conns |-> "unused"]
  /\ pooled = NoConn
  /\ unsent = {}
  /\ trunkCall = [c \in TrunkCalls |-> [pc |-> "idle", conn |-> NoConn, attempt |-> 0]]
  /\ probe = [pc |-> "waiting", conn |-> NoConn, dead |-> FALSE]
  /\ trunkUp = TRUE
  /\ breaks = 0

-----------------------------------------------------------------------------
(* sipgo: a request takes the connection in the pool, closed or not, and     *)
(* dials only when there is none.                                           *)
Takes(k) ==
  \/ pooled # NoConn /\ k = pooled /\ UNCHANGED <<conn, pooled>>
  \/ /\ pooled = NoConn
     /\ conn[k] = "unused" /\ \A j \in Conns : j < k => conn[j] # "unused"
     /\ conn' = [conn EXCEPT ![k] = "open"]
     /\ pooled' = k

(* The read loop of a closed connection: whatever its address holds goes. *)
Evict(k) ==
  /\ conn[k] = "closed" /\ pooled = k
  /\ pooled' = NoConn
  /\ UNCHANGED <<conn, unsent, trunkCall, probe, trunkUp, breaks>>

(* A network interruption: the sockets stay open, their packets go nowhere; *)
(* later the kernel may get through after all, and what was written arrives. *)
Break ==
  /\ breaks < MaxBreaks /\ \E k \in Conns : conn[k] = "open"
  /\ conn' = [k \in Conns |-> IF conn[k] = "open" THEN "stuck" ELSE conn[k]]
  /\ breaks' = breaks + 1
  /\ UNCHANGED <<pooled, unsent, trunkCall, probe, trunkUp>>

Heal(k) ==
  /\ conn[k] = "stuck"
  /\ conn' = [conn EXCEPT ![k] = "open"]
  /\ unsent' = {u \in unsent : u[2] # k}
  /\ UNCHANGED <<pooled, trunkCall, probe, trunkUp, breaks>>

(* Or TCP notices, a minute or two later, and the read loop closes it. *)
GiveUp(k) ==
  /\ conn[k] = "stuck"
  /\ conn' = [conn EXCEPT ![k] = "closed"]
  /\ unsent' = {u \in unsent : u[2] # k}
  /\ UNCHANGED <<pooled, trunkCall, probe, trunkUp, breaks>>

-----------------------------------------------------------------------------
(* bridge: the INVITE.  Writing to a closed connection fails at once, and    *)
(* that failure is not errTrunkUnresponsive: 480.                           *)
Invite(c) ==
  /\ trunkCall[c].pc \in {"idle", "redial"}
  /\ \E k \in Conns :
       /\ Takes(k)
       /\ trunkCall' = [trunkCall EXCEPT ![c].conn = k,
            ![c].pc = IF conn[k] = "closed" THEN "refused" ELSE "waiting"]
       /\ unsent' = IF conn[k] = "stuck" THEN unsent \cup {<<c, k>>} ELSE unsent
  /\ UNCHANGED <<probe, trunkUp, breaks>>

(* Any response, 100 Trying included: the watchdog stands down. *)
Answered(c) ==
  /\ trunkCall[c].pc = "waiting" /\ conn[trunkCall[c].conn] = "open"
  /\ trunkCall' = [trunkCall EXCEPT ![c].pc = "answered"]
  /\ UNCHANGED <<conn, pooled, unsent, probe, trunkUp, breaks>>

(* trunkResponseTimeout without one, the PBX may just be slow: the INVITE is *)
(* dropped outright.                                                        *)
Watchdog(c) ==
  /\ trunkCall[c].pc = "waiting"
  /\ trunkCall' = [trunkCall EXCEPT ![c].pc = "unresponsive"]
  /\ UNCHANGED <<conn, pooled, unsent, probe, trunkUp, breaks>>

(* The caller hangs up or the ring timeout ends the wait: the stack stays on *)
(* the INVITE until it can CANCEL it or Timer B ends it, and the connection  *)
(* is left alone.                                                           *)
CallerGone(c) ==
  /\ trunkCall[c].pc = "waiting"
  /\ trunkCall' = [trunkCall EXCEPT ![c].pc = "cancelled"]
  /\ UNCHANGED <<conn, pooled, unsent, probe, trunkUp, breaks>>

(* Mutant of dropTrunkConnection: the connection is left in the pool. *)
dropTrunkConnection_None == UNCHANGED <<conn, unsent>>

(* Close the pooled connection: what it had not sent goes with it. *)
dropTrunkConnection ==
  IF pooled = NoConn THEN UNCHANGED <<conn, unsent>>
  ELSE /\ conn' = [conn EXCEPT ![pooled] = "closed"]
       /\ unsent' = {u \in unsent : u[2] # pooled}

(* bridge drops the connection and serveDialog redials once; a second        *)
(* failure is 480.                                                          *)
Drop(c) ==
  /\ trunkCall[c].pc = "unresponsive"
  /\ dropTrunkConnection
  /\ trunkCall' = [trunkCall EXCEPT ![c].attempt = @ + 1,
       ![c].pc = IF trunkCall[c].attempt = 0 THEN "redial" ELSE "failed"]
  /\ UNCHANGED <<pooled, probe, trunkUp, breaks>>

-----------------------------------------------------------------------------
(* The qualifier: an OPTIONS every interval; one that fails drops the pooled *)
(* connection, and only a change of result is reported.                     *)
Probe ==
  /\ probe.pc = "waiting"
  /\ \E k \in Conns :
       /\ Takes(k)
       /\ probe' = [probe EXCEPT !.conn = k, !.pc = IF conn[k] = "closed" THEN "failed" ELSE "asked"]
  /\ UNCHANGED <<unsent, trunkCall, trunkUp, breaks>>

ProbeAnswered ==
  /\ probe.pc = "asked" /\ conn[probe.conn] = "open"
  /\ probe' = [probe EXCEPT !.pc = "waiting", !.dead = FALSE]
  /\ trunkUp' = IF probe.dead THEN TRUE ELSE trunkUp
  /\ UNCHANGED <<conn, pooled, unsent, trunkCall, breaks>>

ProbeTimeout ==
  /\ probe.pc = "asked"
  /\ probe' = [probe EXCEPT !.pc = "failed"]
  /\ UNCHANGED <<conn, pooled, unsent, trunkCall, trunkUp, breaks>>

ProbeFails ==
  /\ probe.pc = "failed"
  /\ dropTrunkConnection
  /\ trunkUp' = IF probe.dead THEN trunkUp ELSE FALSE
  /\ probe' = [probe EXCEPT !.pc = "waiting", !.dead = TRUE]
  /\ UNCHANGED <<pooled, trunkCall, breaks>>

TrunkNext ==
  \/ \E k \in Conns : Evict(k) \/ Heal(k) \/ GiveUp(k)
  \/ Break
  \/ \E c \in TrunkCalls : Invite(c) \/ Answered(c) \/ Watchdog(c) \/ CallerGone(c) \/ Drop(c)
  \/ Probe \/ ProbeAnswered \/ ProbeTimeout \/ ProbeFails

TrunkSpec == TrunkInit /\ [][TrunkNext]_trunkVars

-----------------------------------------------------------------------------
(* A call that was given up on, or is about to be redialled, leaves no       *)
(* INVITE behind on a connection that may still get through: the PBX phone   *)
(* does not ring for a caller who has been answered 480, nor twice for one   *)
(* who is redialled, whoever closed the connection and whenever.             *)
NoGhostInvite ==
  \A c \in TrunkCalls :
    trunkCall[c].pc \in {"redial", "failed"} => \A k \in Conns : <<c, k>> \notin unsent

(* What the comment on bridge's watchdog says of the redial: it opens a       *)
(* fresh connection.                                                        *)
RedialFresh ==
  \A c \in TrunkCalls : trunkCall[c].attempt = 1 => trunkCall[c].pc # "refused"
=============================================================================
