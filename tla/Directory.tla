----------------------------- MODULE Directory -----------------------------
(***************************************************************************)
(* One device's directory (server/internal/directory), from the admin's    *)
(* and the device's writes down to the file, and the copy the phone keeps  *)
(* of it: the delta sync (DirectoryService.swift, AddressBook.apply) driven *)
(* by the gateway's welcome and directory_changed (gateway.go, AppModel).   *)
(*                                                                         *)
(* A write is two steps, as in the code: memory changes under mu, then,     *)
(* with only wmu held, the file is replaced and the hooks are called, or    *)
(* memory is put back.  Readers take mu only and see the first step.        *)
(* Directories of two devices share nothing but wmu, so one is modelled.    *)
(* URIs are taken up to case (EqualFold); times are left out.               *)
(***************************************************************************)
EXTENDS Integers, FiniteSets, Sequences

CONSTANTS
  Ids,          \* contact ids, 1..n
  Drafts,       \* what a write may ask for: [uri, name, star]
  Files,        \* what <id>.json may hold when the server starts
  Legacy,       \* the live contacts of the legacy directory.json, by version
  MaxVersion,   \* bound: versions a directory reaches
  MaxWrites,    \* bound: writes
  MaxFaults,    \* bound: crashes, failed saves, failed syncs, dropped links, purges
  Overlap       \* whether the user's own sync may run beside the events' one

(* What a directory holds of a contact, with its tombstone, and what it is. *)
Contact == [uri : STRING, name : STRING, star : BOOLEAN]
NoContact == [uri |-> "none", name |-> "none", star |-> FALSE]
Entry == [d : Contact, ver : Nat, del : BOOLEAN]
Dirs == [version : Nat, contacts : [Ids -> Entry]]

(* No contact is newer than its directory, one never written is not live,  *)
(* and a live one has an address (the handlers refuse a contact without).  *)
Sane(st) ==
  \A i \in Ids : /\ st.contacts[i].ver <= st.version
                 /\ st.contacts[i].ver = 0 => st.contacts[i].del
                 /\ st.contacts[i].del \/ st.contacts[i].d.uri # "none"

ASSUME DirAssumption ==
  /\ MaxVersion \in Nat /\ MaxWrites \in Nat
  /\ NoContact \in Contact
  /\ Drafts \subseteq Contact /\ \A d \in Drafts : d.uri # "none"
  /\ Legacy \in Seq(Contact) /\ \A k \in 1..Len(Legacy) : Legacy[k].uri # "none"
  /\ Files \subseteq Dirs
  /\ \A st \in Files : Sane(st) /\ st.version + MaxWrites <= MaxVersion

NoId == 0
NoMatch == -1
Empty == [version |-> 0, contacts |-> [i \in Ids |-> [d |-> NoContact, ver |-> 0, del |-> TRUE]]]

VARIABLES
  mem,      \* Store.devices[id]: version, contacts with their tombstones (none: version 0)
  file,     \* <id>.json
  writer,   \* the write between its two steps: the holder of wmu
  phase,    \* the server: "down", "migrate", "serve"
  legacy,   \* contacts of directory.json still to migrate, 0 once it is renamed
  seen,     \* what an admin client that sends If-Match read last: version and contacts
  link,     \* the app's gateway session: "down", "attached", "reading", "live", or "off" (no phone)
  welcome,  \* the directory_version of the welcome being made
  inbox,    \* frames the app has not handled: a welcome's version, or Changed
  book,     \* AppModel.book: version and contacts
  task,     \* syncDirectory, run by the event loop and by the user's writes
  hist,     \* what the directory held at each version, to state the properties
  dirGhost, \* what went wrong so far, to state the properties
  writes, faults   \* so far, against MaxWrites and MaxFaults

serverVars == <<mem, file, writer, phase, legacy>>
linkVars == <<link, welcome, inbox>>
appVars == <<book, task>>
dirVars == <<serverVars, seen, linkVars, appVars, hist, dirGhost, writes, faults>>

Changed == -1
Tasks == {"events", "user"}
NoWrite == [on |-> FALSE, backup |-> Empty, by |-> "none"]
NoBook == [version |-> 0, contacts |-> [i \in Ids |-> NoContact]]
NotSeen == [version |-> NoMatch, view |-> NoBook.contacts]
NoReader == [NotSeen EXCEPT !.version = -2]
NoTask == [pc |-> "idle", base |-> NoBook, got |-> Empty]

Live(st, i) == ~st.contacts[i].del
View(st) == [i \in Ids |-> IF Live(st, i) THEN st.contacts[i].d ELSE NoContact]

(* A server with an admin client or a legacy file, or one with a phone.     *)
DirInit ==
  /\ mem = Empty
  /\ file \in Files
  /\ writer = NoWrite
  /\ phase = "down"
  /\ \/ seen = NotSeen /\ link = "off" /\ legacy \in {0, 1}
     \/ seen = NoReader /\ link = "down" /\ legacy = 0
  /\ welcome = 0 /\ inbox = <<>>
  /\ book = [version |-> file.version, contacts |-> View(file)]
  /\ task = [t \in Tasks |-> NoTask]
  /\ hist = [v \in 0..MaxVersion |-> IF v = file.version THEN View(file) ELSE NoBook.contacts]
  /\ dirGhost = [back |-> {}, torn |-> FALSE, reused |-> FALSE, taken |-> FALSE, early |-> FALSE,
                 failed |-> FALSE, undone |-> FALSE, blind |-> FALSE, unstarred |-> FALSE]
  /\ writes = 0 /\ faults = 0

Hangup == link' = (IF link = "off" THEN link ELSE "down") /\ welcome' = 0 /\ inbox' = <<>>

Fault == faults < MaxFaults /\ faults' = faults + 1

-----------------------------------------------------------------------------
(* The store's mutations, on a directory st.                               *)

Matches(st, uri) == {i \in Ids : Live(st, i) /\ st.contacts[i].d.uri = uri}
Fresh(st) == {i \in Ids : st.contacts[i].ver = 0}

Stored(d, v) == [d |-> d, ver |-> v, del |-> FALSE]
Tombstone(c, v) == [c EXCEPT !.del = TRUE, !.ver = v]

(* Mutant of upsertLocked: the duplicates it collapses keep their version.  *)
upsertLocked_OldVersion(st, d, i, v) ==
  [st EXCEPT !.version = v,
     !.contacts = [j \in Ids |->
        IF j = i THEN Stored(d, v)
        ELSE IF j \in Matches(st, d.uri) /\ i \in Matches(st, d.uri)
        THEN [st.contacts[j] EXCEPT !.del = TRUE]
        ELSE st.contacts[j]]]

(* upsertLocked by URI into contact i, at version v: the other live          *)
(* contacts with that URI are tombstoned.                                   *)
upsertLocked(st, d, i, v) ==
  [st EXCEPT !.version = v,
     !.contacts = [j \in Ids |->
        IF j = i THEN Stored(d, v)
        ELSE IF j \in Matches(st, d.uri) THEN Tombstone(st.contacts[j], v)
        ELSE st.contacts[j]]]

(* upsertLocked with an id: that contact alone, whoever has the URI.        *)
UpsertById(st, d, i, v) ==
  [st EXCEPT !.version = v, !.contacts[i] = Stored(d, v)]

(* The contacts a write by URI may land in: map order picks among the live  *)
(* ones, else a new id.                                                     *)
Targets(st, uri) ==
  IF Matches(st, uri) # {} THEN Matches(st, uri) ELSE Fresh(st)

Upserts(st, d, id) ==
  IF id = NoId THEN {upsertLocked(st, d, i, st.version + 1) : i \in Targets(st, d.uri)}
  ELSE {UpsertById(st, d, id, st.version + 1)}

Removed(st, i) ==
  [st EXCEPT !.version = @ + 1, !.contacts[i] = Tombstone(@, st.version + 1)]

(* liveByURILocked and the comparison of replaceLocked.                     *)
Same(st, d) == \E i \in Ids : Matches(st, d.uri) = {i} /\ st.contacts[i].d = d

(* replaceLocked: ds have distinct URIs, into[d] is where d lands.  Contacts *)
(* that are there and identical are left alone; nothing changed, no version. *)
replaceLocked(st, ds, into) ==
  LET v == st.version + 1
      new == {d \in ds : ~Same(st, d)}
      kept == {d.uri : d \in ds}
      after == [j \in Ids |->
         IF \E d \in new : into[d] = j THEN Stored(CHOOSE d \in new : into[d] = j, v)
         ELSE IF Live(st, j) /\ (\/ st.contacts[j].d.uri \notin kept
                                 \/ \E d \in new : d.uri = st.contacts[j].d.uri)
         THEN Tombstone(st.contacts[j], v)
         ELSE st.contacts[j]]
  IN IF after = st.contacts THEN st
     ELSE [version |-> v, contacts |-> after]

Distinct(ds) == \A d, e \in ds : d.uri = e.uri => d = e

Replaces(st, ds) ==
  {replaceLocked(st, ds, into) :
     into \in {f \in [ds -> Ids] :
                 /\ \A d \in ds : f[d] \in Targets(st, d.uri)
                 /\ \A d, e \in ds : f[d] = f[e] => d = e}}

(* Changes: what changed after since; a full sync omits tombstones.         *)
Delta(st, since) ==
  {i \in Ids : st.contacts[i].ver > since /\ ~(since = 0 /\ st.contacts[i].del)}

-----------------------------------------------------------------------------
(* Writes.                                                                 *)

(* Versions above v have been taken back.                                   *)
Back(v) == dirGhost.back \cup (v + 1)..mem.version

(* A sync under way has read more than v.                                   *)
ReadBeyond(v) ==
  \E t \in Tasks : task[t].pc # "idle" /\ (task[t].base.version > v \/ task[t].got.version > v)

(* The cursors that have read version v.                                    *)
Held(v) ==
  \/ book.version = v
  \/ \E t \in Tasks : task[t].pc # "idle" /\ v \in {task[t].base.version, task[t].got.version}

Serving == phase = "serve" /\ ~writer.on

(* Memory becomes st and wmu stays taken.  matched is an If-Match that the  *)
(* write carried.                                                           *)
Mutate(st, by, matched) ==
  /\ writes < MaxWrites /\ writes' = writes + 1
  /\ writer' = [on |-> TRUE, backup |-> mem, by |-> by]
  /\ mem' = st
  /\ hist' = [hist EXCEPT ![st.version] = View(st)]
  /\ dirGhost' = [dirGhost EXCEPT
       !.back = @ \ {st.version},
       !.torn = @ \/ (st.version \in dirGhost.back /\ Held(st.version)),
       !.reused = @ \/ (st.version \in dirGhost.back /\ seen.version = st.version),
       !.blind = @ \/ (matched /\ seen.view # View(mem)),
       !.unstarred = @ \/ (by = "server" /\ \E i, j \in Ids :
                              /\ View(mem)[i].star /\ ~View(st)[j].star
                              /\ Matches(mem, View(mem)[i].uri) = {i}
                              /\ View(mem)[i].uri = View(st)[j].uri)]

(* The admin sends the version it read, if any; the device never does.      *)
MayMatch(by) == IF by = "admin" /\ seen.version >= 0 THEN BOOLEAN ELSE {FALSE}

(* Mutant of checkAll: the precondition is not tested.                      *)
checkAll_None(m) == TRUE
checkAll(m) == m => seen.version = mem.version

Ready(by) == by = "device" => link # "off" /\ task["user"].pc = "idle"

Upsert(by) ==
  /\ Serving /\ Ready(by)
  /\ \E d \in Drafts, id \in Ids \cup {NoId}, m \in MayMatch(by) :
       /\ checkAll(m)
       /\ \E st \in Upserts(mem, d, id) : Mutate(st, by, m)
  /\ UNCHANGED <<file, phase, legacy, seen, linkVars, appVars, faults>>

Delete(by) ==
  /\ Serving /\ Ready(by)
  /\ \E i \in Ids, m \in MayMatch(by) :
       /\ checkAll(m)
       /\ Live(mem, i)
       /\ Mutate(Removed(mem, i), by, m)
  /\ UNCHANGED <<file, phase, legacy, seen, linkVars, appVars, faults>>

Replace ==
  /\ Serving
  /\ \E ds \in SUBSET Drafts, m \in MayMatch("admin") :
       /\ Distinct(ds) /\ Cardinality(ds) <= 2
       /\ checkAll(m)
       /\ \E st \in Replaces(mem, ds) : st # mem /\ Mutate(st, "admin", m)
  /\ UNCHANGED <<file, phase, legacy, seen, linkVars, appVars, faults>>

(* 412: the admin has to read again.                                        *)
PreconditionFailed ==
  /\ Serving
  /\ seen.version >= 0
  /\ ~checkAll(TRUE)
  /\ seen' = NotSeen
  /\ UNCHANGED <<serverVars, linkVars, appVars, hist, dirGhost, faults, writes>>

(* GET .../directory by the admin.                                          *)
Contacts ==
  /\ phase = "serve"
  /\ seen # NoReader
  /\ seen' = [version |-> mem.version, view |-> View(mem)]
  /\ UNCHANGED <<serverVars, linkVars, appVars, hist, dirGhost, faults, writes>>

(* write succeeds and notify runs, wmu still held.  A session that is        *)
(* attached and not yet welcomed is sent the frame too; the app ignores it.  *)
Saved ==
  /\ writer.on
  /\ file' = mem
  /\ writer' = NoWrite
  /\ inbox' = IF link = "live" THEN Append(inbox, Changed) ELSE inbox
  /\ dirGhost' = [dirGhost EXCEPT !.early = @ \/ link = "reading"]
  /\ legacy' = IF writer.by = "server" THEN legacy + 1 ELSE legacy
  /\ task' \in {task} \cup IF writer.by # "device" THEN {}
                           ELSE {[task EXCEPT !["user"] = [pc |-> "ask", base |-> book, got |-> Empty]]}
  /\ UNCHANGED <<mem, phase, seen, link, welcome, book, hist, faults, writes>>

(* write fails: memory is put back.  A failed migration ends the process.   *)
SaveFails ==
  /\ writer.on
  /\ Fault
  /\ mem' = writer.backup
  /\ writer' = NoWrite
  /\ phase' = IF writer.by = "server" THEN "down" ELSE phase
  /\ dirGhost' = [dirGhost EXCEPT !.taken = TRUE, !.back = Back(writer.backup.version)]
  /\ UNCHANGED <<file, legacy, seen, linkVars, appVars, hist, writes>>

(* Purge, by the admin's hooks, which close the device's sessions; a device *)
(* of the same id may be made and enrolled again.                           *)
Purge ==
  /\ Serving
  /\ Fault
  /\ mem' = Empty /\ file' = Empty
  /\ Hangup
  /\ dirGhost' = [dirGhost EXCEPT !.back = Back(0), !.taken = @ \/ ReadBeyond(0)]
  /\ UNCHANGED <<writer, phase, legacy, seen, appVars, hist, writes>>

(* The process dies: the write in hand reached its rename or did not.       *)
Crash ==
  /\ phase # "down"
  /\ Fault
  /\ phase' = "down" /\ writer' = NoWrite /\ mem' = Empty
  /\ file' \in {file} \cup IF writer.on THEN {mem} ELSE {}
  /\ dirGhost' = [dirGhost EXCEPT !.back = Back(file'.version), !.taken = @ \/ ReadBeyond(file'.version)]
  /\ Hangup
  /\ UNCHANGED <<legacy, seen, appVars, hist, writes>>

(* Open, then Migrate from its first contact while directory.json exists.   *)
Open ==
  /\ phase = "down"
  /\ mem' = file
  /\ phase' = IF legacy = 0 THEN "serve" ELSE "migrate"
  /\ legacy' = IF legacy = 0 THEN 0 ELSE 1
  /\ UNCHANGED <<file, writer, seen, linkVars, appVars, hist, dirGhost, faults, writes>>

favourite(uri) ==
  \E i \in Ids : Matches(mem, uri) = {i} /\ mem.contacts[i].d.star

Migrate ==
  /\ phase = "migrate" /\ ~writer.on
  /\ IF legacy <= Len(Legacy)
     THEN LET d == [Legacy[legacy] EXCEPT !.star = favourite(Legacy[legacy].uri)]
          IN /\ \E st \in Upserts(mem, d, NoId) : Mutate(st, "server", FALSE)
             /\ UNCHANGED <<phase, legacy>>
     ELSE /\ phase' = "serve" /\ legacy' = 0
          /\ UNCHANGED <<mem, writer, hist, dirGhost, writes>>
  /\ UNCHANGED <<file, seen, linkVars, appVars, faults>>

-----------------------------------------------------------------------------
(* The app's gateway session.                                              *)

attach ==
  /\ phase = "serve" /\ link = "down"
  /\ link' = "attached"
  /\ UNCHANGED <<serverVars, seen, welcome, inbox, appVars, hist, dirGhost, faults, writes>>

Version ==
  /\ phase = "serve" /\ link = "attached"
  /\ link' = "reading" /\ welcome' = mem.version
  /\ UNCHANGED <<serverVars, seen, inbox, appVars, hist, dirGhost, faults, writes>>

SendWelcome ==
  /\ link = "reading"
  /\ link' = "live" /\ welcome' = 0 /\ inbox' = <<welcome>>
  /\ UNCHANGED <<serverVars, seen, appVars, hist, dirGhost, faults, writes>>

LinkDown ==
  /\ link \notin {"off", "down"}
  /\ Fault
  /\ Hangup
  /\ UNCHANGED <<serverVars, seen, appVars, hist, dirGhost, writes>>

-----------------------------------------------------------------------------
(* The phone.                                                              *)

(* Mutant of Stale: the app syncs only when the welcome's version is newer. *)
Stale_OnlyNewer(v) == v = Changed \/ v > book.version

(* A welcome with another version, or a directory_changed.                  *)
Stale(v) == v = Changed \/ v # book.version

(* AppModel.handle, one event at a time: the loop awaits syncDirectory.     *)
HandleEvent ==
  /\ inbox # <<>>
  /\ task["events"].pc = "idle"
  /\ ~Overlap => task["user"].pc = "idle"
  /\ inbox' = Tail(inbox)
  /\ task' = IF Stale(Head(inbox))
             THEN [task EXCEPT !["events"] = [pc |-> "ask", base |-> book, got |-> Empty]]
             ELSE task
  /\ UNCHANGED <<serverVars, seen, link, welcome, book, hist, dirGhost, faults, writes>>

(* The server answers GET /v1/directory?since=.                             *)
Changes(t) ==
  /\ task[t].pc = "ask"
  /\ phase = "serve"
  /\ task' = [task EXCEPT ![t] = [@ EXCEPT !.pc = "answer", !.got = mem]]
  /\ UNCHANGED <<serverVars, seen, linkVars, book, hist, dirGhost, faults, writes>>

(* AddressBook.apply of the delta the server computed from directory st.    *)
apply(b, st) ==
  [version |-> IF st.version > b.version THEN st.version ELSE b.version,
   contacts |-> [i \in Ids |->
      IF i \notin Delta(st, b.version) THEN b.contacts[i]
      ELSE IF Live(st, i) THEN st.contacts[i].d ELSE NoContact]]

(* sync: behind the cursor, the copy is reset and asks again from 0.  The    *)
(* copy then replaces the book, whatever another sync has made of it.       *)
sync(t) ==
  LET b == task[t].base
      st == task[t].got
  IN /\ task[t].pc = "answer"
     /\ IF st.version < b.version
        THEN /\ task' = [task EXCEPT ![t] = [pc |-> "ask", base |-> NoBook, got |-> Empty]]
             /\ UNCHANGED <<book, dirGhost>>
        ELSE /\ task' = [task EXCEPT ![t] = NoTask]
             /\ book' = apply(b, st)
             /\ dirGhost' = [dirGhost EXCEPT !.undone = @ \/ st.version < book.version]
     /\ UNCHANGED <<serverVars, seen, linkVars, hist, faults, writes>>

SyncFails(t) ==
  /\ task[t].pc # "idle"
  /\ Fault
  /\ task' = [task EXCEPT ![t] = NoTask]
  /\ dirGhost' = [dirGhost EXCEPT !.failed = TRUE]
  /\ UNCHANGED <<serverVars, seen, linkVars, book, hist, writes>>

DirNext ==
  \/ \E by \in {"admin", "device"} : Upsert(by) \/ Delete(by)
  \/ Replace \/ PreconditionFailed \/ Contacts
  \/ Saved \/ SaveFails \/ Purge \/ Crash \/ Open \/ Migrate
  \/ attach \/ Version \/ SendWelcome \/ LinkDown
  \/ HandleEvent
  \/ \E t \in Tasks : Changes(t) \/ sync(t) \/ SyncFails(t)

DirSpec == DirInit /\ [][DirNext]_dirVars

-----------------------------------------------------------------------------
DirTypeOK ==
  /\ {mem.version, file.version, book.version} \subseteq 0..MaxVersion
  /\ writer.on \in BOOLEAN
  /\ phase \in {"down", "migrate", "serve"}
  /\ link \in {"off", "down", "attached", "reading", "live"}

(* The phone's book is always exactly what the directory held at the book's  *)
(* own version: through deltas, tombstones, collapsed duplicates,           *)
(* replace-all, reconnects, overlapping syncs, a server that restarts,      *)
(* forgets a write or starts over.  Not claimed once a version number that  *)
(* the phone has read was given to another content (torn): a failed save,   *)
(* a crash before the rename or a purge takes numbers back, and nothing on  *)
(* the wire tells the two apart.                                            *)
BookIsSnapshot == ~dirGhost.torn => book.contacts = hist[book.version]

Quiet ==
  /\ phase = "serve" /\ ~writer.on
  /\ link = "live" /\ inbox = <<>>
  /\ \A t \in Tasks : task[t].pc = "idle"

Untroubled == ~dirGhost.torn /\ ~dirGhost.failed /\ ~dirGhost.undone

(* When nothing is under way the phone has caught up: no write falls        *)
(* between the welcome's version and the first directory_changed, or        *)
(* between two syncs.  It may only be ahead, when what it or a sync under   *)
(* way had read was taken back (taken).  Not claimed after a sync that      *)
(* failed or that put an older book over a newer one, nor when a            *)
(* directory_changed went out before the welcome (early), see               *)
(* WelcomeResyncs.                                                          *)
BookCaughtUp ==
  Quiet /\ Untroubled /\ ~dirGhost.early =>
    /\ book.version >= mem.version
    /\ ~dirGhost.taken => book.version = mem.version

(* "The directory is re-synced via directory_version" (PROTOCOL.md): after   *)
(* a welcome a quiet phone is up to date, without exception for what was    *)
(* written while it was connecting.                                         *)
WelcomeResyncs == Quiet /\ Untroubled => book.version >= mem.version

(* No write goes over what its writer did not know: an If-Match that passes  *)
(* finds the contents the admin read, unless that number was taken back and  *)
(* given out again (reused); and a migration, run again after a crash, never *)
(* takes the star the user gave a number that one contact has (with         *)
(* duplicates, favourite finds none and the star goes).                     *)
NothingOverwritten ==
  /\ dirGhost.blind => dirGhost.reused
  /\ ~dirGhost.unstarred
=============================================================================
