--------------------------- MODULE AdminConsole ---------------------------
(***************************************************************************)
(* dialpark-admin, the operators' web UI (server/internal/adminui): its       *)
(* logins and their sessions, the forms it stashes when a session has expired *)
(* and replays after the login, the pages it renders from the admin API or     *)
(* from what it last fetched, and the writes it forwards with If-Match.        *)
(*                                                                           *)
(* The call server's state is one versioned resource (a record, its settings,  *)
(* its directory) and the enrolment code in force.  A write is sent, executed  *)
(* and answered in three steps; the client may give up between any two, and a  *)
(* request it gave up on may still be executed.                               *)
(***************************************************************************)
EXTENDS Integers, FiniteSets

CONSTANTS
  Operators,
  MaxPresses,    \* bound: forms submitted
  MaxLogins,     \* bound: logins
  MaxElsewhere   \* bound: changes made by others and restarts of the UI

ASSUME ConsoleAssumption == {MaxPresses, MaxLogins, MaxElsewhere} \subseteq Nat

Presses == 1..MaxPresses
NoScreen == [kind |-> "none"]
LoginScreen == [kind |-> "login"]
Idle == [st |-> "idle"]
NoIfMatch == 0       \* If-Match not sent
NoSession == 0
NoKey == 0

(* Save: a form with the version its page was loaded with (a description,      *)
(* settings, a line, a contact, an uploaded directory).  Order: one without    *)
(* (revoke, purge, cancel a code, copy a directory, the licence, the log       *)
(* level).  Mint: a new enrolment code, to be shown once.                     *)
ClientForms == {"save", "order", "mint"}
DirectoryForms == {"save", "order"}
ServerForms == {"order"}
Forms == ClientForms \cup DirectoryForms \cup ServerForms

VARIABLES
  resource,   \* the version of the resource at the call server
  code,       \* the enrolment code in force: the press that minted it
  cookie,     \* operator -> session of its browser's cookie
  sessions,   \* the live sessions
  logins,
  stash,      \* the forms and codes kept under one-time keys: [key, what, press, match]
  keys,
  lastFetch,  \* u.last: the version a page was last rendered from
  screen,     \* operator -> what its browser shows
  resume,     \* operator -> the key its login page carries
  call,       \* operator -> the write being made for it
  orphans,    \* requests the client gave up on, on their way to the call server
  presses,
  form,       \* press -> [what, seen]
  applied,    \* press -> how often the call server executed it
  shown,      \* press -> how often its code was displayed
  heard,       \* press -> what the operator was told of it
  blind,      \* a save replaced a version its operator had not been shown
  elsewhere

consoleVars == <<resource, code, cookie, sessions, logins, stash, keys, lastFetch, screen, resume,
                 call, orphans, presses, form, applied, shown, heard, blind, elsewhere>>

ConsoleInit ==
  /\ resource = 1 /\ code = 0
  /\ cookie = [o \in Operators |-> NoSession]
  /\ sessions = {} /\ logins = 0
  /\ stash = {} /\ keys = 0
  /\ lastFetch = 0
  /\ screen = [o \in Operators |-> NoScreen]
  /\ resume = [o \in Operators |-> NoKey]
  /\ call = [o \in Operators |-> Idle]
  /\ orphans = {}
  /\ presses = 0
  /\ form = [n \in Presses |-> [what |-> "none", seen |-> 0]]
  /\ applied = [n \in Presses |-> 0]
  /\ shown = [n \in Presses |-> 0]
  /\ heard = [n \in Presses |-> "nothing yet"]
  /\ blind = FALSE
  /\ elsewhere = 0

server == <<resource, code, applied, blind>>
ledger == <<presses, form, heard>>

-----------------------------------------------------------------------------
(* Sessions.                                                                *)
Check(o) == cookie[o] \in sessions

Kept(key) == {p \in stash : p.key = key}

(* Mutant of Take: a stashed form stays for another login. *)
Take_Keeps(key) == stash

(* A key is good once. *)
Take(key) == stash \ Kept(key)

(* A login: a new session, and the form its page carries is submitted again.  *)
(* The browser may send the same login twice (a reload of its answer).        *)
Login(o) ==
  /\ call[o] = Idle /\ logins < MaxLogins
  /\ screen[o].kind = "login" \/ resume[o] # NoKey
  /\ logins' = logins + 1
  /\ sessions' = sessions \cup {logins + 1}
  /\ cookie' = [cookie EXCEPT ![o] = logins + 1]
  /\ screen' = [screen EXCEPT ![o] = NoScreen]
  /\ \/ /\ Kept(resume[o]) = {}
        /\ UNCHANGED <<stash, call>>
     \/ \E p \in Kept(resume[o]) :
          /\ stash' = Take(resume[o])
          /\ call' = [call EXCEPT ![o] = [st |-> "sent", press |-> p.press, match |-> p.match]]
  /\ UNCHANGED <<server, ledger, keys, lastFetch, resume, orphans, shown, elsewhere>>

SessionEnds(o) ==
  /\ Check(o)
  /\ sessions' = sessions \ {cookie[o]}
  /\ UNCHANGED <<server, ledger, cookie, logins, stash, keys, lastFetch, screen, resume, call, orphans, shown, elsewhere>>

StashExpires ==
  /\ \E p \in stash : stash' = stash \ {p}
  /\ UNCHANGED <<server, ledger, cookie, sessions, logins, keys, lastFetch, screen, resume, call, orphans, shown, elsewhere>>

-----------------------------------------------------------------------------
(* A page: rendered from what the API answers, or, when the call server does  *)
(* not answer, from what was last fetched and with its writes disabled.       *)
Page(o, version, readOnly) ==
  [kind |-> "page", version |-> version, csrf |-> cookie[o], readOnly |-> readOnly]

fetched(o, answered) ==
  /\ screen' = [screen EXCEPT ![o] =
       IF answered THEN Page(o, resource, FALSE)
       ELSE IF lastFetch = 0 THEN NoScreen
       ELSE Page(o, lastFetch, TRUE)]
  /\ lastFetch' = IF answered THEN resource ELSE lastFetch

OpenPage(o) ==
  /\ call[o] = Idle
  /\ resume' = [resume EXCEPT ![o] = NoKey]
  /\ \/ /\ ~Check(o)
        /\ screen' = [screen EXCEPT ![o] = LoginScreen]
        /\ UNCHANGED lastFetch
     \/ Check(o) /\ \E answered \in BOOLEAN : fetched(o, answered)
  /\ UNCHANGED <<server, ledger, cookie, sessions, logins, stash, keys, call, orphans, shown, elsewhere>>

(* Mutant of Match: the version is left out of the stashed form. *)
Match_Forgets(o, what) == IF what = "save" /\ Check(o) THEN screen[o].version ELSE NoIfMatch

(* The version a form carries. *)
Match(o, what) == IF what = "save" THEN screen[o].version ELSE NoIfMatch

(* auth: without a session the form is stashed and the login page shown; with *)
(* one the form must carry its token.                                        *)
Submit(o) ==
  /\ call[o] = Idle
  /\ screen[o].kind = "page" /\ ~screen[o].readOnly
  /\ presses < MaxPresses
  /\ presses' = presses + 1
  /\ \E what \in Forms :
       /\ form' = [form EXCEPT ![presses + 1] = [what |-> what, seen |-> screen[o].version]]
       /\ \/ /\ ~Check(o)
             /\ keys' = keys + 1
             /\ stash' = stash \cup {[key |-> keys + 1, what |-> "form", press |-> presses + 1, match |-> Match(o, what)]}
             /\ resume' = [resume EXCEPT ![o] = keys + 1]
             /\ screen' = [screen EXCEPT ![o] = LoginScreen]
             /\ UNCHANGED <<call, heard>>
          \/ /\ Check(o) /\ screen[o].csrf # cookie[o]
             /\ heard' = [heard EXCEPT ![presses + 1] = "refused"]
             /\ screen' = [screen EXCEPT ![o] = NoScreen]
             /\ UNCHANGED <<keys, stash, resume, call>>
          \/ /\ Check(o) /\ screen[o].csrf = cookie[o]
             /\ call' = [call EXCEPT ![o] = [st |-> "sent", press |-> presses + 1, match |-> Match(o, what)]]
             /\ UNCHANGED <<keys, stash, resume, screen, heard>>
  /\ UNCHANGED <<server, cookie, sessions, logins, lastFetch, orphans, shown, elsewhere>>

-----------------------------------------------------------------------------
(* The call server executes a write: a version that does not match is 412.    *)
VersionMatches(c) == c.match \in {NoIfMatch, resource}

Execute(c) ==
  LET f == form[c.press] IN
  /\ VersionMatches(c)
  /\ applied' = [applied EXCEPT ![c.press] = @ + 1]
  /\ resource' = IF f.what = "mint" THEN resource ELSE resource + 1
  /\ code' = IF f.what = "mint" THEN c.press ELSE code
  /\ blind' = (blind \/ (f.what = "save" /\ f.seen # resource))

Executed(o) ==
  /\ call[o].st = "sent"
  /\ \/ Execute(call[o]) /\ call' = [call EXCEPT ![o].st = "done"]
     \/ /\ ~VersionMatches(call[o])
        /\ call' = [call EXCEPT ![o].st = "mismatch"]
        /\ UNCHANGED server
  /\ UNCHANGED <<ledger, cookie, sessions, logins, stash, keys, lastFetch, screen, resume, orphans, shown, elsewhere>>

(* The answer: a redirect to the page, to the code's one showing, or the      *)
(* refusal.  The page that comes with it is an OpenPage of its own.           *)
CallAnswered(o) ==
  LET n == call[o].press IN
  /\ call[o].st \in {"done", "mismatch"}
  /\ call' = [call EXCEPT ![o] = Idle]
  /\ heard' = [heard EXCEPT ![n] = IF call[o].st = "done" THEN "saved" ELSE "changed by someone else"]
  /\ \/ /\ call[o].st = "done" /\ form[n].what = "mint"
        /\ keys' = keys + 1
        /\ stash' = stash \cup {[key |-> keys + 1, what |-> "code", press |-> n, match |-> NoIfMatch]}
        /\ screen' = [screen EXCEPT ![o] = [kind |-> "code", key |-> keys + 1]]
     \/ /\ ~(call[o].st = "done" /\ form[n].what = "mint")
        /\ screen' = [screen EXCEPT ![o] = NoScreen]
        /\ UNCHANGED <<keys, stash>>
  /\ UNCHANGED <<server, presses, form, cookie, sessions, logins, lastFetch, resume, orphans, shown, elsewhere>>

(* ErrUnreachable: the request or its answer was lost, or took too long. *)
TimesOut(o) ==
  /\ call[o].st # "idle"
  /\ heard' = [heard EXCEPT ![call[o].press] = "nothing was changed"]
  /\ orphans' = IF call[o].st = "sent" THEN orphans \cup {call[o]} ELSE orphans
  /\ call' = [call EXCEPT ![o] = Idle]
  /\ screen' = [screen EXCEPT ![o] = NoScreen]
  /\ UNCHANGED <<server, presses, form, cookie, sessions, logins, stash, keys, lastFetch, resume, shown, elsewhere>>

OrphanExecuted ==
  /\ \E c \in orphans : Execute(c) /\ orphans' = orphans \ {c}
  /\ UNCHANGED <<ledger, cookie, sessions, logins, stash, keys, lastFetch, screen, resume, call, shown, elsewhere>>

OrphanLost ==
  /\ \E c \in orphans : orphans' = orphans \ {c}
  /\ UNCHANGED <<server, ledger, cookie, sessions, logins, stash, keys, lastFetch, screen, resume, call, shown, elsewhere>>

(* The enrolment page: the one visit that takes the code shows it; a reload   *)
(* has none.                                                                *)
ShowCode(o) ==
  /\ call[o] = Idle /\ screen[o].kind = "code" /\ Check(o)
  /\ \E p \in Kept(screen[o].key) :
       /\ shown' = [shown EXCEPT ![p.press] = @ + 1]
       /\ stash' = Take(screen[o].key)
  /\ UNCHANGED <<server, ledger, cookie, sessions, logins, keys, lastFetch, screen, resume, call, orphans, elsewhere>>

-----------------------------------------------------------------------------
(* A phone or another administrator changes the resource; dialpark-admin is   *)
(* restarted and forgets everything it holds.                               *)
ChangedElsewhere ==
  /\ elsewhere < MaxElsewhere /\ elsewhere' = elsewhere + 1
  /\ resource' = resource + 1
  /\ UNCHANGED <<code, applied, blind, ledger, cookie, sessions, logins, stash, keys, lastFetch, screen, resume, call, orphans, shown>>

ConsoleRestarts ==
  /\ elsewhere < MaxElsewhere /\ elsewhere' = elsewhere + 1
  /\ sessions' = {} /\ stash' = {} /\ lastFetch' = 0
  /\ orphans' = orphans \cup {call[o] : o \in {p \in Operators : call[p].st = "sent"}}
  /\ call' = [o \in Operators |-> Idle]
  /\ UNCHANGED <<server, ledger, cookie, logins, keys, screen, resume, shown>>

ConsoleNext ==
  \/ \E o \in Operators :
       \/ Login(o) \/ SessionEnds(o) \/ OpenPage(o) \/ Submit(o)
       \/ Executed(o) \/ CallAnswered(o) \/ TimesOut(o) \/ ShowCode(o)
  \/ StashExpires \/ OrphanExecuted \/ OrphanLost
  \/ ChangedElsewhere \/ ConsoleRestarts

ConsoleSpec == ConsoleInit /\ [][ConsoleNext]_consoleVars

-----------------------------------------------------------------------------
(* However sessions expire, forms are stashed and replayed, answers are lost   *)
(* and logins are sent twice, one press of a button is executed at most once,  *)
(* a code is displayed at most once, and what the operator was told of an      *)
(* answered press is what happened to it.                                     *)
OnceAsTold ==
  \A n \in Presses :
    /\ applied[n] <= 1 /\ shown[n] <= 1
    /\ heard[n] = "saved" => applied[n] = 1
    /\ heard[n] \in {"refused", "changed by someone else"} => applied[n] = 0

(* A saved form never replaces a version its operator was not shown: not from  *)
(* a page of the cache, not replayed after a login, not delivered late.        *)
NeverBlind == ~blind

(* What the operator is told when the call server does not answer. *)
NothingChanged == \A n \in Presses : heard[n] = "nothing was changed" => applied[n] = 0
=============================================================================
