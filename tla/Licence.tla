------------------------------ MODULE Licence ------------------------------
(***************************************************************************)
(* The product licence (server/internal/licence): the token on disk, the    *)
(* Manager that holds it, the minute tick that observes its expiry, and the *)
(* seat count it tells the enrolment store through OnChange                *)
(* (cmd/dialpark-server/main.go).                                          *)
(*                                                                         *)
(* A token is a record of what its checks tell apart; signatures, dates     *)
(* and texts are not modelled.  A step ends where the Manager's mutex is    *)
(* released: the seat count is computed under it and delivered after it.    *)
(***************************************************************************)
EXTENDS Integers

CONSTANTS
  Tokens,      \* what may be pasted or found: [ok, seats, until, install]
  Installers,  \* requests that install a token
  MaxClock,    \* bound: the last date
  MaxStarts    \* bound: starts of the server

ASSUME LicenceAssumption ==
  /\ Tokens \subseteq [ok : BOOLEAN, seats : Nat, until : Nat, install : Nat]
  /\ MaxClock \in Nat

NoToken == [ok |-> FALSE, seats |-> 0, until |-> 0, install |-> 0]
Torn == -1      \* an install.id that was not written to its end
NoInstall == 0

VARIABLES
  clock,
  installId,   \* install.id: NoInstall, Torn or the id minted
  licFile,     \* the licence file
  token,       \* Manager.token and lic: NoToken when there is none in use
  lastSeats,   \* Manager.lastSeats
  told,        \* the seats of the enrolment store (SetSeats)
  running,     \* the server
  thread,      \* the tick and the installs: where each is
  starts,
  ahead,       \* history: thread -> the threads whose earlier count is undelivered
  crossed      \* a delivery was overtaken by a later one

licVars == <<clock, installId, licFile, token, lastSeats, told, running, thread, starts, ahead, crossed>>

Threads == Installers \cup {"tick"}
Done == [pc |-> "idle", now |-> 0, tok |-> NoToken, seats |-> 0]

LicInit ==
  /\ clock = 0
  /\ installId \in {NoInstall, 1}
  /\ licFile \in {NoToken} \cup Tokens
  /\ token = NoToken
  /\ lastSeats = 0 /\ told = 0
  /\ running = FALSE
  /\ thread = [t \in Threads |-> Done]
  /\ starts = 0
  /\ ahead = [t \in Threads |-> {}]
  /\ crossed = FALSE

-----------------------------------------------------------------------------
(* Parse, and the install id it is bound to.                               *)
verify(tok) == tok.ok /\ tok.install = installId

Expired(tok, now) == now >= tok.until

seatsAt(tok, now) == IF tok = NoToken \/ Expired(tok, now) THEN 0 ELSE tok.seats

(* LoadOrCreateInstallID writes the file in place: a crash may leave it      *)
(* torn, and then the server will not start.                               *)
MintInstallId ==
  /\ ~running /\ starts < MaxStarts
  /\ installId = NoInstall
  /\ installId' \in {Torn, 1}
  /\ starts' = starts + 1
  /\ UNCHANGED <<clock, licFile, token, lastSeats, told, running, thread, ahead, crossed>>

(* The operator removes it: a new installation, which needs a new licence.  *)
RemoveInstallId ==
  /\ ~running /\ installId = Torn
  /\ installId' = 2
  /\ UNCHANGED <<clock, licFile, token, lastSeats, told, running, thread, starts, ahead, crossed>>

(* startLicence: Open, then SetSeats before anything is served.  An expired  *)
(* licence is kept, one that does not verify is not.                        *)
OpenLicence ==
  /\ ~running /\ starts < MaxStarts
  /\ installId \notin {NoInstall, Torn}
  /\ running' = TRUE
  /\ token' = IF verify(licFile) THEN licFile ELSE NoToken
  /\ lastSeats' = seatsAt(token', clock)
  /\ told' = seatsAt(token', clock)
  /\ starts' = starts + 1
  /\ UNCHANGED <<clock, installId, licFile, thread, ahead, crossed>>

(* Install up to its lock: refused unless it verifies and is in force now.  *)
Install(i, tok) ==
  /\ running /\ thread[i].pc = "idle"
  /\ verify(tok) /\ ~Expired(tok, clock)
  /\ thread' = [thread EXCEPT ![i] = [Done EXCEPT !.pc = "store", !.now = clock, !.tok = tok]]
  /\ UNCHANGED <<clock, installId, licFile, token, lastSeats, told, running, starts, ahead, crossed>>

(* Install under the lock: the same token is left alone, and a write that   *)
(* fails changes nothing.                                                   *)
Store(i) ==
  LET tok == thread[i].tok
  IN /\ thread[i].pc = "store"
     /\ \/ /\ thread' = [thread EXCEPT ![i] = Done]
           /\ UNCHANGED <<licFile, token>>
        \/ /\ tok # token
           /\ licFile' = tok /\ token' = tok
           /\ thread' = [thread EXCEPT ![i].pc = "fire"]
     /\ UNCHANGED <<clock, installId, lastSeats, told, running, starts, ahead, crossed>>

(* Run's ticker, whose goroutine is at rest: now is read before the lock.   *)
tick ==
  /\ running /\ thread["tick"].pc = "idle"
  /\ thread' = [thread EXCEPT !["tick"] = [Done EXCEPT !.pc = "fire", !.now = clock]]
  /\ UNCHANGED <<clock, installId, licFile, token, lastSeats, told, running, starts, ahead, crossed>>

(* The threads with a count computed and not yet delivered.                 *)
Undelivered == {t \in Threads : thread[t].pc = "deliver"}

(* Mutant of fire: the count last told is not remembered.                   *)
fire_Forgets(t) ==
  LET seats == seatsAt(token, thread[t].now)
  IN /\ thread[t].pc = "fire"
     /\ ahead' = IF seats = lastSeats THEN ahead ELSE [ahead EXCEPT ![t] = Undelivered]
     /\ thread' = [thread EXCEPT ![t] =
          IF seats = lastSeats THEN Done ELSE [@ EXCEPT !.pc = "deliver", !.seats = seats]]
     /\ UNCHANGED <<clock, installId, licFile, token, lastSeats, told, running, starts, crossed>>

(* fire, under the lock, at the date its caller read earlier.               *)
fire(t) ==
  LET seats == seatsAt(token, thread[t].now)
  IN /\ thread[t].pc = "fire"
     /\ lastSeats' = seats
     /\ ahead' = IF seats = lastSeats THEN ahead ELSE [ahead EXCEPT ![t] = Undelivered]
     /\ thread' = [thread EXCEPT ![t] =
          IF seats = lastSeats THEN Done ELSE [@ EXCEPT !.pc = "deliver", !.seats = seats]]
     /\ UNCHANGED <<clock, installId, licFile, token, told, running, starts, crossed>>

(* The callback, with no lock held.                                         *)
Deliver(t) ==
  /\ thread[t].pc = "deliver"
  /\ told' = thread[t].seats
  /\ crossed' = (crossed \/ ahead[t] # {})
  /\ ahead' = [u \in Threads |-> ahead[u] \ {t}]
  /\ thread' = [thread EXCEPT ![t] = Done]
  /\ UNCHANGED <<clock, installId, licFile, token, lastSeats, running, starts>>

Day ==
  /\ clock < MaxClock
  /\ clock' = clock + 1
  /\ UNCHANGED <<installId, licFile, token, lastSeats, told, running, thread, starts, ahead, crossed>>

(* The process ends, at any step: the file is replaced by a rename.         *)
StopServer ==
  /\ running
  /\ running' = FALSE
  /\ token' = NoToken /\ lastSeats' = 0 /\ told' = 0
  /\ thread' = [t \in Threads |-> Done]
  /\ ahead' = [t \in Threads |-> {}]
  /\ crossed' = FALSE
  /\ UNCHANGED <<clock, installId, licFile, starts>>

LicNext ==
  \/ MintInstallId \/ RemoveInstallId \/ OpenLicence
  \/ \E i \in Installers : Store(i) \/ \E tok \in Tokens : Install(i, tok)
  \/ tick
  \/ \E t \in Threads : fire(t) \/ Deliver(t)
  \/ Day \/ StopServer

LicSpec == LicInit /\ [][LicNext]_licVars

-----------------------------------------------------------------------------
Settled == running /\ \A t \in Threads : thread[t].pc = "idle"

(* What the enrolment store was told is what the licence is worth: once      *)
(* nothing is under way the store has the count last computed, from the      *)
(* token in the file, bound to this installation; and that count is zero     *)
(* or the token's.  So an install, a tick and an expiry in any order, or a   *)
(* restart at any step, leave no seats behind.  Not claimed once a           *)
(* delivery was overtaken by a later one (crossed), see ExpiryTold.          *)
SeatsTold ==
  Settled /\ ~crossed =>
    /\ told = lastSeats
    /\ lastSeats \in {0, token.seats}
    /\ token # NoToken => token = licFile /\ verify(token)

(* "Expiry is observed in place by Run's tick": a tick that ends after the   *)
(* licence has expired leaves no seats, with nothing else under way.         *)
ExpiryTold ==
  [][thread["tick"].pc # "idle" /\ thread'["tick"].pc = "idle" /\ running'
       /\ Expired(token, thread["tick"].now) /\ (\A i \in Installers : thread'[i].pc = "idle")
       => told' = 0]_licVars
=============================================================================
